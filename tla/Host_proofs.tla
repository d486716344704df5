----------------------------- MODULE Host_proofs -----------------------------
(***************************************************************************)
(* Proofs about what the processes of one machine share.                   *)
(*                                                                         *)
(* The durable lease table, for any number of processes, resources,        *)
(* holders and tokens.  Every log this code can leave on disk is sound     *)
(* (LogSound: grants of a resource carry increasing tokens, and a release  *)
(* follows the grant it ends), the table of the process that may still     *)
(* append covers every token in the log, and a table under replay is       *)
(* exactly what the lines read so far say.  A token that reached a caller  *)
(* is in a synced line, no step ever cuts the log below the synced lines,  *)
(* and the next token is above everything the log holds.                   *)
(***************************************************************************)
EXTENDS DurableLeases, Pidfile, GraphServer, GuestBudget, FiniteSetTheorems, TLAPS

IsGrant(e) == e.kind \in {"acquired", "reclaimed"}

(* Every line is a whole event, as the online operations build them.       *)
LinesSound(s) ==
  \A k \in 1..Len(s) :
    /\ s[k].kind \in {"acquired", "reclaimed", "released"}
    /\ IsGrant(s[k]) => /\ s[k].lease \in Lease
                        /\ s[k].lease.grantedAt = s[k].ts
                        /\ s[k].lease.holder = s[k].holder

TokensOrdered(s) ==
  \A j, k \in 1..Len(s) :
    j < k /\ IsGrant(s[j]) /\ IsGrant(s[k]) /\ s[j].res = s[k].res
      => s[j].lease.token < s[k].lease.token

(* Line j is the last of the first n lines about its resource.             *)
LastOf(s, j, n) == \A i \in (j + 1)..n : s[i].res # s[j].res

ReleasesMatch(s) ==
  \A k \in 1..Len(s) : s[k].kind = "released" =>
    \E j \in 1..(k - 1) : /\ IsGrant(s[j]) /\ s[j].res = s[k].res
                          /\ s[j].holder = s[k].holder
                          /\ LastOf(s, j, k - 1)

LogSound(s) == LinesSound(s) /\ TokensOrdered(s) /\ ReleasesMatch(s)

(* The table's watermarks cover the first n lines, and each lease it holds *)
(* is the last thing those lines say about the resource.                   *)
Covers(s, tab, n) ==
  \A k \in 1..n : IsGrant(s[k]) => s[k].lease.token <= tab.marks[s[k].res]

Reflects(s, tab, n) ==
  \A r \in Resources : Held(tab, r) =>
    \E j \in 1..n : /\ IsGrant(s[j]) /\ s[j].res = r
                    /\ s[j].holder = tab.leases[r].holder
                    /\ LastOf(s, j, n)

Matches(s, tab, n) == Covers(s, tab, n) /\ Reflects(s, tab, n)

(* What replay adds: it read no more than the lines say, and no less.      *)
Exact(s, tab, n) ==
  /\ \A r \in Resources : tab.marks[r] # 0 =>
       \E k \in 1..n : IsGrant(s[k]) /\ s[k].res = r /\ s[k].lease.token = tab.marks[r]
  /\ \A j \in 1..n : IsGrant(s[j]) /\ LastOf(s, j, n) =>
       HeldBy(tab, s[j].res, s[j].holder)

-----------------------------------------------------------------------------
(* The inductive invariant, per process.                                   *)

AbsentState(p) ==
  phase[p] \in {"down", "refused"} =>
    /\ table[p] = EmptyTable /\ cursor[p] = 0
    /\ ~poisoned[p] /\ pending[p] = NoAppend

ReplayState(p) ==
  phase[p] = "replaying" =>
    /\ cursor[p] <= Len(log) /\ ~torn
    /\ ~poisoned[p] /\ pending[p] = NoAppend
    /\ Matches(log, table[p], cursor[p]) /\ Exact(log, table[p], cursor[p])

IdleState(p) ==
  phase[p] = "open" /\ ~poisoned[p] /\ pending[p] = NoAppend =>
    ~torn /\ Matches(log, table[p], Len(log))

(* An append in flight: what is on disk, and the tables before and after.  *)
AppendState(p) ==
  pending[p] # NoAppend =>
    LET a == pending[p] IN
    /\ ~poisoned[p] /\ synced <= a.before
    /\ Matches(log, table[p], a.before)
    /\ a.full => /\ ~torn /\ Len(log) = a.before + 1
                 /\ log[a.before + 1] = a.event
                 /\ Matches(log, a.table, a.before + 1)
    /\ ~a.full => Len(log) = a.before
    /\ IsGrant(a.event) => a.event.lease \in Lease

ProcState(p) == AbsentState(p) /\ ReplayState(p) /\ IdleState(p) /\ AppendState(p)

IInv ==
  /\ TypeOK /\ LogSound(log)
  /\ TokensIncrease /\ GrantsAreDurable /\ ReplayNeverRefuses
  /\ \A p \in Procs : ProcState(p)

-----------------------------------------------------------------------------
(* Lemmas about logs and tables; no step of the system is mentioned.       *)

(* The constants mean what the code's types mean (lease.rs).               *)
LEMMA ConstantFacts ==
  /\ MaxToken \in Nat \ {0} /\ MaxTtl \in Nat \ {0}
  /\ \A r \in Resources : TtlOf[r] \in 1..MaxTtl
  /\ NoLease \notin Lease
  /\ NoProc \notin Procs
  /\ NoAppend \notin Appends
BY LeaseConstants, DurableConstants DEF Lease, Appends

(* Cutting a log keeps the lines before the cut (wal.rs: set_len).         *)
LEMMA CutLines ==
  ASSUME NEW s \in Seq(LogLines), NEW n \in 0..Len(s)
  PROVE  /\ SubSeq(s, 1, n) \in Seq(LogLines)
         /\ Len(SubSeq(s, 1, n)) = n
         /\ \A k \in 1..n : SubSeq(s, 1, n)[k] = s[k]
OBVIOUS

(* A cut log is sound, and what its lines said they still say.             *)
LEMMA CutSound ==
  ASSUME NEW s \in Seq(LogLines), NEW n \in 0..Len(s), LogSound(s)
  PROVE  LogSound(SubSeq(s, 1, n))
<1> DEFINE c == SubSeq(s, 1, n)
<1>1. Len(c) = n /\ \A k \in 1..n : c[k] = s[k]
  BY CutLines
<1>2. n \in Nat /\ n <= Len(s) /\ Len(s) \in Nat
  OBVIOUS
<1> HIDE DEF c
<1>3. LinesSound(c)
  BY <1>1, <1>2 DEF LogSound, LinesSound
<1>4. TokensOrdered(c)
  BY <1>1, <1>2 DEF LogSound, TokensOrdered
<1>5. ReleasesMatch(c)
  <2> SUFFICES ASSUME NEW k \in 1..n, c[k].kind = "released"
               PROVE  \E j \in 1..(k - 1) : /\ IsGrant(c[j]) /\ c[j].res = c[k].res
                                            /\ c[j].holder = c[k].holder
                                            /\ LastOf(c, j, k - 1)
    BY <1>1 DEF ReleasesMatch
  <2>1. PICK j \in 1..(k - 1) : /\ IsGrant(s[j]) /\ s[j].res = s[k].res
                                /\ s[j].holder = s[k].holder
                                /\ LastOf(s, j, k - 1)
    BY <1>1, <1>2 DEF LogSound, ReleasesMatch
  <2>2. \A i \in 1..k : c[i] = s[i]
    BY <1>1, <1>2
  <2> QED BY <2>1, <2>2, <1>2 DEF LastOf
<1> QED BY <1>3, <1>4, <1>5 DEF LogSound, c

(* Matches and Exact look only at the first n lines.                       *)
LEMMA SameLines ==
  ASSUME NEW s, NEW t, NEW tab, NEW n \in Nat, \A k \in 1..n : s[k] = t[k]
  PROVE  /\ Matches(s, tab, n) => Matches(t, tab, n)
         /\ Exact(s, tab, n) => Exact(t, tab, n)
<1>1. \A j \in 1..n : LastOf(s, j, n) <=> LastOf(t, j, n)
  BY DEF LastOf
<1>2. Covers(s, tab, n) => Covers(t, tab, n)
  BY DEF Covers
<1>3. Reflects(s, tab, n) => Reflects(t, tab, n)
  BY <1>1 DEF Reflects
<1>4. Exact(s, tab, n) => Exact(t, tab, n)
  BY <1>1 DEF Exact
<1> QED BY <1>2, <1>3, <1>4 DEF Matches

(* A grant staged on a covering table carries a token above every token in *)
(* the log (lease.rs: next_token), so the extended log is sound.           *)
LEMMA GrantExtends ==
  ASSUME NEW s \in Seq(LogLines), LogSound(s), NEW tab \in LeaseTables,
         Matches(s, tab, Len(s)), NEW r \in Resources, NEW h \in Holders,
         NEW t \in Nat, CanAcquire(tab, r, t)
  PROVE  LET e == GrantEvent(tab, r, h, t)
             x == Append(s, e)
         IN /\ e \in LeaseEvents /\ IsGrant(e) /\ e.lease \in Lease
            /\ x \in Seq(LogLines) /\ LogSound(x)
            /\ Acquire(tab, r, h, t) \in LeaseTables
            /\ Matches(x, Acquire(tab, r, h, t), Len(x))
<1> DEFINE e == GrantEvent(tab, r, h, t)
           x == Append(s, e)
           g == GrantedLease(tab, r, h, t)
           after == Acquire(tab, r, h, t)
<1>1. g \in Lease /\ g.token = tab.marks[r] + 1 /\ g.holder = h /\ g.grantedAt = t
  BY ConstantFacts DEF GrantedLease, Lease, NextToken, CanAcquire, TokenAvailable, LeaseTables
<1>2. /\ e.kind \in {"acquired", "reclaimed"} /\ e.ts = t /\ e.res = r
      /\ e.holder = h /\ e.lease = g /\ IsGrant(e) /\ e \in LeaseEvents /\ e \in LogLines
  BY <1>1 DEF GrantEvent, IsGrant, LeaseEvents, EventKinds, LogLines
<1>3. /\ x \in Seq(LogLines) /\ Len(x) = Len(s) + 1 /\ x[Len(s) + 1] = e
      /\ \A k \in 1..Len(s) : x[k] = s[k]
  BY <1>2
<1>4. /\ after \in LeaseTables /\ after.marks = [tab.marks EXCEPT ![r] = g.token]
      /\ after.leases = [tab.leases EXCEPT ![r] = g]
  BY <1>1 DEF Acquire, WithLease, LeaseTables, Lease
<1>5. Len(s) \in Nat /\ \A k \in 1..Len(s) : s[k] \in LogLines
  OBVIOUS
<1>6. \A k \in 1..Len(s) : IsGrant(s[k]) =>
        /\ s[k].lease \in Lease
        /\ s[k].lease.token <= tab.marks[s[k].res]
  BY <1>5 DEF LogSound, LinesSound, Matches, Covers
<1> HIDE DEF e, x, g, after
<1>7. LinesSound(x)
  BY <1>1, <1>2, <1>3, <1>5 DEF LogSound, LinesSound
<1>8. TokensOrdered(x)
  <2> SUFFICES ASSUME NEW j \in 1..(Len(s) + 1), NEW k \in 1..(Len(s) + 1), j < k,
                      IsGrant(x[j]), IsGrant(x[k]), x[j].res = x[k].res
               PROVE  x[j].lease.token < x[k].lease.token
    BY <1>3 DEF TokensOrdered
  <2>1. CASE k <= Len(s)
    BY <2>1, <1>3, <1>5 DEF LogSound, TokensOrdered
  <2>2. CASE k = Len(s) + 1
    <3>1. j \in 1..Len(s) /\ x[j] = s[j] /\ x[k] = e
      BY <2>2, <1>3, <1>5
    <3>2. s[j].lease.token <= tab.marks[r] /\ s[j].lease \in Lease
      BY <3>1, <1>6, <1>2
    <3> QED BY <3>1, <3>2, <1>1, <1>2 DEF Lease, LeaseTables
  <2> QED BY <2>1, <2>2, <1>5
<1>9. ReleasesMatch(x)
  <2> SUFFICES ASSUME NEW k \in 1..(Len(s) + 1), x[k].kind = "released"
               PROVE  \E j \in 1..(k - 1) : /\ IsGrant(x[j]) /\ x[j].res = x[k].res
                                            /\ x[j].holder = x[k].holder
                                            /\ LastOf(x, j, k - 1)
    BY <1>3 DEF ReleasesMatch
  <2>1. k \in 1..Len(s) /\ x[k] = s[k]
    BY <1>2, <1>3, <1>5
  <2>2. PICK j \in 1..(k - 1) : /\ IsGrant(s[j]) /\ s[j].res = s[k].res
                                /\ s[j].holder = s[k].holder
                                /\ LastOf(s, j, k - 1)
    BY <2>1 DEF LogSound, ReleasesMatch
  <2>3. \A i \in 1..k : x[i] = s[i]
    BY <2>1, <1>3, <1>5
  <2> QED BY <2>2, <2>3, <2>1 DEF LastOf
<1>10. Covers(x, after, Len(x))
  <2> SUFFICES ASSUME NEW k \in 1..(Len(s) + 1), IsGrant(x[k])
               PROVE  x[k].lease.token <= after.marks[x[k].res]
    BY <1>3 DEF Covers
  <2>1. CASE k = Len(s) + 1
    BY <2>1, <1>1, <1>2, <1>3, <1>4 DEF Lease, LeaseTables
  <2>2. CASE k \in 1..Len(s)
    <3>1. x[k] = s[k] /\ s[k].res \in Resources /\ s[k].lease \in Lease
          /\ s[k].lease.token <= tab.marks[s[k].res]
      BY <2>2, <1>3, <1>5, <1>6 DEF LogLines
    <3> QED BY <3>1, <1>1, <1>4, SMTT(30) DEF Lease, LeaseTables
  <2> QED BY <2>1, <2>2, <1>5
<1>11. Reflects(x, after, Len(x))
  <2> SUFFICES ASSUME NEW q \in Resources, Held(after, q)
               PROVE  \E j \in 1..(Len(s) + 1) :
                        /\ IsGrant(x[j]) /\ x[j].res = q
                        /\ x[j].holder = after.leases[q].holder
                        /\ LastOf(x, j, Len(s) + 1)
    BY <1>3 DEF Reflects
  <2>1. CASE q = r
    <3>1. LastOf(x, Len(s) + 1, Len(s) + 1)
      BY <1>5 DEF LastOf
    <3>2. after.leases[q].holder = h
      BY <2>1, <1>1, <1>4 DEF LeaseTables
    <3> QED BY <2>1, <3>1, <3>2, <1>2, <1>3, <1>5
  <2>2. CASE q # r
    <3>1. Held(tab, q) /\ after.leases[q] = tab.leases[q]
      BY <2>2, <1>4 DEF Held, LeaseTables
    <3>2. PICK j \in 1..Len(s) : /\ IsGrant(s[j]) /\ s[j].res = q
                                 /\ s[j].holder = tab.leases[q].holder
                                 /\ LastOf(s, j, Len(s))
      BY <3>1 DEF Matches, Reflects
    <3>3. LastOf(x, j, Len(s) + 1)
      <4> SUFFICES ASSUME NEW i \in (j + 1)..(Len(s) + 1)
                   PROVE  x[i].res # q
        BY <3>2, <1>3 DEF LastOf
      <4>1. CASE i = Len(s) + 1
        BY <4>1, <2>2, <1>2, <1>3
      <4>2. CASE i \in 1..Len(s)
        BY <4>2, <3>2, <1>3 DEF LastOf
      <4> QED BY <4>1, <4>2, <1>5
    <3> QED BY <3>1, <3>2, <3>3, <1>3, <1>5
  <2> QED BY <2>1, <2>2
<1> QED
  BY <1>1, <1>2, <1>3, <1>4, <1>7, <1>8, <1>9, <1>10, <1>11
     DEF LogSound, Matches, e, x, g, after

(* A release staged by the holder the table records ends the grant the log *)
(* records last, so its replay will be accepted.                           *)
LEMMA ReleaseExtends ==
  ASSUME NEW s \in Seq(LogLines), LogSound(s), NEW tab \in LeaseTables,
         Matches(s, tab, Len(s)), NEW r \in Resources, NEW h \in Holders,
         NEW t \in Nat, CanRelease(tab, r, h)
  PROVE  LET e == ReleaseEvent(r, h, t)
             x == Append(s, e)
         IN /\ e \in LeaseEvents /\ ~IsGrant(e)
            /\ x \in Seq(LogLines) /\ LogSound(x)
            /\ Release(tab, r) \in LeaseTables
            /\ Matches(x, Release(tab, r), Len(x))
<1> DEFINE e == ReleaseEvent(r, h, t)
           x == Append(s, e)
           after == Release(tab, r)
<1>1. /\ e.kind = "released" /\ e.res = r /\ e.holder = h /\ ~IsGrant(e)
      /\ e \in LeaseEvents /\ e \in LogLines
  BY DEF ReleaseEvent, IsGrant, LeaseEvents, EventKinds, LogLines
<1>2. /\ x \in Seq(LogLines) /\ Len(x) = Len(s) + 1 /\ x[Len(s) + 1] = e
      /\ \A k \in 1..Len(s) : x[k] = s[k]
  BY <1>1
<1>3. /\ after \in LeaseTables /\ after.marks = tab.marks
      /\ after.leases = [tab.leases EXCEPT ![r] = NoLease]
  BY DEF Release, LeaseTables
<1>4. Len(s) \in Nat /\ \A k \in 1..Len(s) : s[k] \in LogLines
  OBVIOUS
<1>5. PICK g \in 1..Len(s) : /\ IsGrant(s[g]) /\ s[g].res = r /\ s[g].holder = h
                             /\ LastOf(s, g, Len(s))
  BY DEF CanRelease, HeldBy, Matches, Reflects
<1> HIDE DEF e, x, after
<1>6. LinesSound(x)
  BY <1>1, <1>2, <1>4 DEF LogSound, LinesSound
<1>7. TokensOrdered(x)
  BY <1>1, <1>2, <1>4 DEF LogSound, TokensOrdered
<1>8. ReleasesMatch(x)
  <2> SUFFICES ASSUME NEW k \in 1..(Len(s) + 1), x[k].kind = "released"
               PROVE  \E j \in 1..(k - 1) : /\ IsGrant(x[j]) /\ x[j].res = x[k].res
                                            /\ x[j].holder = x[k].holder
                                            /\ LastOf(x, j, k - 1)
    BY <1>2 DEF ReleasesMatch
  <2>1. CASE k \in 1..Len(s)
    <3>1. PICK j \in 1..(k - 1) : /\ IsGrant(s[j]) /\ s[j].res = s[k].res
                                  /\ s[j].holder = s[k].holder
                                  /\ LastOf(s, j, k - 1)
      BY <2>1, <1>2 DEF LogSound, ReleasesMatch
    <3>2. \A i \in 1..k : x[i] = s[i]
      BY <2>1, <1>2, <1>4
    <3> QED BY <3>1, <3>2, <2>1 DEF LastOf
  <2>2. CASE k = Len(s) + 1
    BY <2>2, <1>2, <1>4, <1>5, <1>1 DEF LastOf
  <2>3. k \in 1..Len(s) \/ k = Len(s) + 1
    BY <1>4
  <2> QED BY <2>1, <2>2, <2>3
<1>9. Covers(x, after, Len(x))
  <2> SUFFICES ASSUME NEW k \in 1..(Len(s) + 1), IsGrant(x[k])
               PROVE  x[k].lease.token <= tab.marks[x[k].res]
    BY <1>2, <1>3 DEF Covers
  <2>1. k \in 1..Len(s) /\ x[k] = s[k]
    BY <1>1, <1>2, <1>4
  <2> QED BY <2>1 DEF Matches, Covers
<1>10. Reflects(x, after, Len(x))
  <2> SUFFICES ASSUME NEW q \in Resources, Held(after, q)
               PROVE  \E j \in 1..(Len(s) + 1) :
                        /\ IsGrant(x[j]) /\ x[j].res = q
                        /\ x[j].holder = after.leases[q].holder
                        /\ LastOf(x, j, Len(s) + 1)
    BY <1>2 DEF Reflects
  <2>1. q # r /\ Held(tab, q) /\ after.leases[q] = tab.leases[q]
    BY <1>3 DEF Held, LeaseTables
  <2>2. PICK j \in 1..Len(s) : /\ IsGrant(s[j]) /\ s[j].res = q
                               /\ s[j].holder = tab.leases[q].holder
                               /\ LastOf(s, j, Len(s))
    BY <2>1 DEF Matches, Reflects
  <2>3. LastOf(x, j, Len(s) + 1)
    <3> SUFFICES ASSUME NEW i \in (j + 1)..(Len(s) + 1)
                 PROVE  x[i].res # q
      BY <2>2, <1>2 DEF LastOf
    <3>1. CASE i = Len(s) + 1
      BY <3>1, <2>1, <1>1, <1>2
    <3>2. CASE i \in 1..Len(s)
      BY <3>2, <2>2, <1>2 DEF LastOf
    <3> QED BY <3>1, <3>2, <1>4
  <2> QED BY <2>1, <2>2, <2>3, <1>2, <1>4
<1> QED
  BY <1>1, <1>2, <1>3, <1>6, <1>7, <1>8, <1>9, <1>10
     DEF LogSound, Matches, e, x, after

(* Replay accepts every line of a sound log (lease.rs: apply, "fail        *)
(* closed"), and after it still says exactly what it read.                 *)
LEMMA ReplayStep ==
  ASSUME NEW s \in Seq(LogLines), LogSound(s), NEW tab \in LeaseTables,
         NEW n \in Nat, n < Len(s), Matches(s, tab, n), Exact(s, tab, n)
  PROVE  LET e == s[n + 1]
         IN /\ CanApply(tab, e)
            /\ Apply(tab, e) \in LeaseTables
            /\ Matches(s, Apply(tab, e), n + 1) /\ Exact(s, Apply(tab, e), n + 1)
<1> DEFINE e == s[n + 1]
           after == Apply(tab, e)
<1>1. /\ n + 1 \in 1..Len(s) /\ e \in LogLines
      /\ e.kind \in {"acquired", "reclaimed", "released"}
      /\ Len(s) \in Nat
  BY DEF LogSound, LinesSound
<1>2. \A k \in 1..(n + 1) : s[k].res \in Resources
  <2>1. \A k \in 1..(n + 1) : s[k] \in LogLines
    BY <1>1
  <2> QED BY <2>1 DEF LogLines
<1> HIDE DEF e
<1>3. CASE IsGrant(e)
  <2> DEFINE r == e.res
  <2>1. /\ e.lease \in Lease /\ e.lease.grantedAt = e.ts /\ e.lease.holder = e.holder
        /\ r \in Resources /\ e.ts \in Nat
    BY <1>1, <1>3 DEF LogSound, LinesSound, LogLines, e
  <2>2. \A k \in 1..n : IsGrant(s[k]) /\ s[k].res = r => s[k].lease.token < e.lease.token
    <3>1. \A i, j \in 1..Len(s) :
             i < j /\ IsGrant(s[i]) /\ IsGrant(s[j]) /\ s[i].res = s[j].res
               => s[i].lease.token < s[j].lease.token
      BY DEF LogSound, TokensOrdered
    <3>2. IsGrant(s[n + 1]) /\ s[n + 1].res = r /\ s[n + 1] = e
      BY <1>3 DEF e
    <3>3. \A k \in 1..n : k \in 1..Len(s) /\ k < n + 1
      BY <1>1
    <3> QED BY <1>1, <3>1, <3>2, <3>3
  <2>3. tab.marks[r] = 0 \/ e.lease.token > tab.marks[r]
    BY <2>1, <2>2 DEF Exact, Lease, LeaseTables
  <2>4. ValidEventLease(e)
    BY <2>1, ConstantFacts DEF ValidEventLease, ValidTtl, Distance, Lease
  <2>5. CanApply(tab, e)
    BY <2>3, <2>4, <1>3 DEF CanApply, IsGrant
  <2>6. /\ after \in LeaseTables
        /\ after.leases = [tab.leases EXCEPT ![r] = e.lease]
        /\ after.marks = [tab.marks EXCEPT ![r] = e.lease.token]
    <3>1. after = WithLease(tab, r, e.lease)
      BY <1>3 DEF Apply, IsGrant
    <3> QED BY <3>1, <2>1 DEF WithLease, LeaseTables, Lease
  <2> HIDE DEF after
  <2>7. Covers(s, after, n + 1)
    <3> SUFFICES ASSUME NEW k \in 1..(n + 1), IsGrant(s[k])
                 PROVE  s[k].lease.token <= after.marks[s[k].res]
      BY DEF Covers
    <3>1. s[k].lease \in Lease
      BY <1>1 DEF LogSound, LinesSound
    <3>2. CASE k = n + 1
      BY <3>2, <2>1, <2>6 DEF e, Lease, LeaseTables
    <3>3. CASE k \in 1..n /\ s[k].res = r
      BY <3>3, <2>2, <2>1, <2>6, <3>1 DEF LeaseTables, Lease
    <3>4. CASE k \in 1..n /\ s[k].res # r
      BY <3>4, <2>6, <1>2 DEF Matches, Covers, LeaseTables
    <3> QED BY <3>2, <3>3, <3>4
  <2>8. Reflects(s, after, n + 1)
    <3> SUFFICES ASSUME NEW q \in Resources, Held(after, q)
                 PROVE  \E j \in 1..(n + 1) : /\ IsGrant(s[j]) /\ s[j].res = q
                                              /\ s[j].holder = after.leases[q].holder
                                              /\ LastOf(s, j, n + 1)
      BY DEF Reflects
    <3>1. CASE q = r
      <4>1. LastOf(s, n + 1, n + 1)
        BY DEF LastOf
      <4>2. after.leases[q].holder = e.holder
        BY <3>1, <2>1, <2>6 DEF LeaseTables
      <4> QED BY <3>1, <4>1, <4>2, <1>3 DEF e
    <3>2. CASE q # r
      <4>1. Held(tab, q) /\ after.leases[q] = tab.leases[q]
        BY <3>2, <2>6 DEF Held, LeaseTables
      <4>2. PICK j \in 1..n : /\ IsGrant(s[j]) /\ s[j].res = q
                              /\ s[j].holder = tab.leases[q].holder
                              /\ LastOf(s, j, n)
        BY <4>1 DEF Matches, Reflects
      <4>3. LastOf(s, j, n + 1)
        BY <4>2, <3>2 DEF LastOf, e
      <4> QED BY <4>1, <4>2, <4>3
    <3> QED BY <3>1, <3>2
  <2>9. Exact(s, after, n + 1)
    <3>1. ASSUME NEW q \in Resources, after.marks[q] # 0
          PROVE  \E k \in 1..(n + 1) : /\ IsGrant(s[k]) /\ s[k].res = q
                                       /\ s[k].lease.token = after.marks[q]
      <4>1. CASE q = r
        BY <4>1, <2>6, <1>3 DEF LeaseTables, e
      <4>2. CASE q # r
        BY <3>1, <4>2, <2>6 DEF Exact, LeaseTables
      <4> QED BY <4>1, <4>2
    <3>2. ASSUME NEW j \in 1..(n + 1), IsGrant(s[j]), LastOf(s, j, n + 1)
          PROVE  HeldBy(after, s[j].res, s[j].holder)
      <4>1. CASE j = n + 1
        BY <2>1, <2>6, ConstantFacts, <4>1 DEF LeaseTables, HeldBy, Held, e
      <4>2. CASE j \in 1..n
        <5>1. s[j].res # r /\ LastOf(s, j, n)
          BY <4>2, <3>2 DEF LastOf, e
        <5>2. HeldBy(tab, s[j].res, s[j].holder)
          BY <4>2, <5>1, <3>2 DEF Exact
        <5>3. after.leases[s[j].res] = tab.leases[s[j].res]
          BY <5>1, <2>6, <1>2 DEF LeaseTables
        <5> QED BY <5>2, <5>3 DEF HeldBy, Held
      <4> QED BY <4>1, <4>2
    <3> QED BY <3>1, <3>2 DEF Exact
  <2> QED BY <2>5, <2>6, <2>7, <2>8, <2>9 DEF Matches, e, after
<1>4. CASE e.kind = "released"
  <2> DEFINE r == e.res
  <2>1. r \in Resources /\ ~IsGrant(e)
    BY <1>1, <1>4 DEF LogLines, IsGrant
  <2>2. PICK g \in 1..n : /\ IsGrant(s[g]) /\ s[g].res = r
                          /\ s[g].holder = e.holder /\ LastOf(s, g, n)
    BY <1>1, <1>4 DEF LogSound, ReleasesMatch, e
  <2>3. HeldBy(tab, r, e.holder)
    BY <2>2 DEF Exact
  <2>4. CanApply(tab, e)
    BY <2>3, <1>4 DEF CanApply
  <2>5. /\ after \in LeaseTables /\ after.marks = tab.marks
        /\ after.leases = [tab.leases EXCEPT ![r] = NoLease]
    BY <1>4 DEF Apply, Release, LeaseTables
  <2> HIDE DEF after
  <2>6. Covers(s, after, n + 1)
    BY <2>1, <2>5 DEF Matches, Covers, e
  <2>7. Reflects(s, after, n + 1)
    <3> SUFFICES ASSUME NEW q \in Resources, Held(after, q)
                 PROVE  \E j \in 1..(n + 1) : /\ IsGrant(s[j]) /\ s[j].res = q
                                              /\ s[j].holder = after.leases[q].holder
                                              /\ LastOf(s, j, n + 1)
      BY DEF Reflects
    <3>1. q # r /\ Held(tab, q) /\ after.leases[q] = tab.leases[q]
      BY <2>5 DEF Held, LeaseTables
    <3>2. PICK j \in 1..n : /\ IsGrant(s[j]) /\ s[j].res = q
                            /\ s[j].holder = tab.leases[q].holder
                            /\ LastOf(s, j, n)
      BY <3>1 DEF Matches, Reflects
    <3>3. LastOf(s, j, n + 1)
      BY <3>2, <3>1 DEF LastOf, e
    <3> QED BY <3>1, <3>2, <3>3
  <2>8. Exact(s, after, n + 1)
    <3>1. ASSUME NEW q \in Resources, after.marks[q] # 0
          PROVE  \E k \in 1..(n + 1) : /\ IsGrant(s[k]) /\ s[k].res = q
                                       /\ s[k].lease.token = after.marks[q]
      BY <3>1, <2>5 DEF Exact
    <3>2. ASSUME NEW j \in 1..(n + 1), IsGrant(s[j]), LastOf(s, j, n + 1)
          PROVE  HeldBy(after, s[j].res, s[j].holder)
      BY <3>2, <2>1, <2>5, <1>2 DEF LastOf, e, Exact, LeaseTables, HeldBy, Held
    <3> QED BY <3>1, <3>2 DEF Exact
  <2> QED BY <2>4, <2>5, <2>6, <2>7, <2>8 DEF Matches, e, after
<1> QED BY <1>1, <1>3, <1>4 DEF IsGrant, e

(* Renewal touches nothing the log knows (durable.rs: "renewals are not    *)
(* journaled").                                                            *)
LEMMA RenewMatches ==
  ASSUME NEW s, NEW n \in Nat, NEW tab \in LeaseTables,
         NEW r \in Resources, NEW h \in Holders, NEW t \in Nat, CanRenew(tab, r, h, t)
  PROVE  /\ Renew(tab, r, t) \in LeaseTables
         /\ Matches(s, tab, n) => Matches(s, Renew(tab, r, t), n)
<1> DEFINE after == Renew(tab, r, t)
<1>1. tab.leases[r] \in Lease
  BY DEF CanRenew, HeldBy, Held, LeaseTables
<1>2. /\ after \in LeaseTables /\ after.marks = tab.marks
      /\ after.leases = [tab.leases EXCEPT ![r] = RenewedLease(@, r, t)]
      /\ RenewedLease(tab.leases[r], r, t) \in Lease
      /\ RenewedLease(tab.leases[r], r, t).holder = tab.leases[r].holder
  BY <1>1, ConstantFacts DEF Renew, RenewedLease, LeaseTables, Lease
<1> HIDE DEF after
<1>3. \A q \in Resources : Held(after, q) =>
        Held(tab, q) /\ after.leases[q].holder = tab.leases[q].holder
  <2> SUFFICES ASSUME NEW q \in Resources, Held(after, q)
               PROVE  Held(tab, q) /\ after.leases[q].holder = tab.leases[q].holder
    OBVIOUS
  <2>1. CASE q = r
    BY <2>1, <1>1, <1>2, ConstantFacts DEF Held, LeaseTables
  <2>2. CASE q # r
    BY <2>2, <1>2 DEF Held, LeaseTables
  <2> QED BY <2>1, <2>2
<1>4. Covers(s, tab, n) => Covers(s, after, n)
  BY <1>2 DEF Covers
<1>5. Reflects(s, tab, n) => Reflects(s, after, n)
  BY <1>3 DEF Reflects
<1> QED BY <1>2, <1>4, <1>5 DEF Matches, after

(* A table with nothing in it says what no lines say.                      *)
LEMMA EmptyMatches ==
  ASSUME NEW s
  PROVE  /\ EmptyTable \in LeaseTables
         /\ Matches(s, EmptyTable, 0) /\ Exact(s, EmptyTable, 0)
<1>1. EmptyTable \in LeaseTables
  BY ConstantFacts DEF EmptyTable, LeaseTables
<1>2. Covers(s, EmptyTable, 0)
  BY DEF Covers
<1>3. Reflects(s, EmptyTable, 0)
  BY DEF Reflects, Held, EmptyTable
<1>4. Exact(s, EmptyTable, 0)
  BY DEF Exact, EmptyTable
<1> QED BY <1>1, <1>2, <1>3, <1>4 DEF Matches

-----------------------------------------------------------------------------
(* The invariant.                                                          *)

(* The file lock (wal.rs: try_lock): whoever does not own the log has no   *)
(* table and no append.                                                    *)
LEMMA OneOwner ==
  ASSUME IInv, NEW p \in Procs, lockOwner = p, NEW q \in Procs, q # p
  PROVE  /\ phase[q] \in {"down", "refused"} /\ pending[q] = NoAppend
         /\ table[q] = EmptyTable /\ cursor[q] = 0 /\ ~poisoned[q]
<1>1. phase[q] \in {"down", "refused"}
  BY DEF IInv, TypeOK, Phases
<1> QED BY <1>1 DEF IInv, ProcState, AbsentState

(* The empty log and the tables nobody opened (wal.rs: LeaseWal::new).     *)
LEMMA InitIInv == Init => IInv
<1> SUFFICES ASSUME Init PROVE IInv
  OBVIOUS
<1> USE DEF Init, Contract!ContractInit
<1>1. TypeOK
  <2>1. log \in Seq(LogLines) /\ Len(log) <= MaxLog /\ synced \in 0..Len(log)
    BY DurableConstants
  <2>2. /\ phase \in [Procs -> Phases]
        /\ \A p \in Procs : phase[p] \in {"replaying", "open"} <=> lockOwner = p
    BY ConstantFacts DEF Phases
  <2>3. table \in [Procs -> LeaseTables]
    BY EmptyMatches
  <2>4. now \in 0..MaxNow
    BY DurableConstants
  <2>5. issued \in [Resources -> Seq(1..MaxToken)]
    BY ConstantFacts
  <2>6. claim \in [Resources -> Contract!Claims]
    BY DEF Contract!Claims
  <2> QED BY <2>1, <2>2, <2>3, <2>4, <2>5, <2>6 DEF TypeOK
<1>2. LogSound(log)
  BY DEF LogSound, LinesSound, TokensOrdered, ReleasesMatch
<1>3. TokensIncrease /\ GrantsAreDurable /\ ReplayNeverRefuses
  BY DEF TokensIncrease, GrantsAreDurable, ReplayNeverRefuses
<1>4. ASSUME NEW p \in Procs PROVE ProcState(p)
  BY DEF ProcState, AbsentState, ReplayState, IdleState, AppendState
<1> QED BY <1>1, <1>2, <1>3, <1>4 DEF IInv

(* Opening (wal.rs: new, repair_tail) drops only unterminated bytes, and   *)
(* the new owner starts from a table that has read nothing.                *)
LEMMA OpenKeeps ==
  ASSUME IInv, NEW p \in Procs, OpenWal(p)
  PROVE  IInv'
<1> USE DEF OpenWal, TakeLock, RepairTail, contractVars
<1>1. \A q \in Procs : phase[q] \in {"down", "refused"}
  BY ConstantFacts DEF IInv, TypeOK, Phases
<1>2. TypeOK'
  <2>1. synced' \in 0..Len(log')
    BY DEF IInv, TypeOK
  <2>2. phase' \in [Procs -> Phases]
    BY DEF IInv, TypeOK, Phases
  <2>3. \A q \in Procs : phase'[q] \in {"replaying", "open"} <=> lockOwner' = q
    BY <1>1, ConstantFacts DEF IInv, TypeOK, Phases
  <2>4. \A q \in Procs : pending'[q] # NoAppend => phase'[q] = "open"
    BY <1>1 DEF IInv, TypeOK, Phases
  <2> QED BY <2>1, <2>2, <2>3, <2>4 DEF IInv, TypeOK
<1>3. LogSound(log)'
  BY DEF IInv
<1>4. TokensIncrease'
  BY DEF IInv, TokensIncrease
<1>5. GrantsAreDurable'
  BY DEF IInv, TypeOK, GrantsAreDurable
<1>6. ReplayNeverRefuses'
  BY DEF IInv, TypeOK, ReplayNeverRefuses
<1>7. ASSUME NEW q \in Procs PROVE ProcState(q)'
  <2>1. AbsentState(q) /\ phase[q] \in {"down", "refused"}
    BY <1>1 DEF IInv, ProcState
  <2>2. CASE q = p
    BY <2>1, <2>2, EmptyMatches DEF IInv, TypeOK, AbsentState, ProcState, ReplayState, IdleState,
       AppendState
  <2>3. CASE q # p
    BY <2>1, <2>3 DEF IInv, TypeOK, ProcState, AbsentState, ReplayState, IdleState, AppendState
  <2> QED BY <2>2, <2>3
<1> QED BY <1>2, <1>3, <1>4, <1>5, <1>6, <1>7 DEF IInv

(* One line of the replay fold (lease.rs: apply) keeps the table under     *)
(* replay equal to what the lines read so far say.                         *)
LEMMA ReplayLineKeeps ==
  ASSUME IInv, NEW p \in Procs, ReplayLine(p)
  PROVE  IInv'
<1> USE DEF contractVars, fileVars
<1> DEFINE n == cursor[p]
           tab == table[p]
<1>1. /\ log \in Seq(LogLines) /\ LogSound(log) /\ tab \in LeaseTables
      /\ n \in Nat /\ n < Len(log) /\ lockOwner = p /\ phase[p] = "replaying"
      /\ Matches(log, tab, n) /\ Exact(log, tab, n) /\ ~torn
      /\ ~poisoned[p] /\ pending[p] = NoAppend /\ Len(log) \in Nat
  BY DEF IInv, TypeOK, ProcState, ReplayState, ReplayLine
<1>2. /\ CanApply(tab, log[n + 1])
      /\ Apply(tab, log[n + 1]) \in LeaseTables
      /\ Matches(log, Apply(tab, log[n + 1]), n + 1)
      /\ Exact(log, Apply(tab, log[n + 1]), n + 1)
  BY <1>1, ReplayStep
<1>9. AcceptLine(p)
  BY <1>2 DEF ReplayLine
<1> USE <1>9 DEF AcceptLine
<1>3. TypeOK'
  BY <1>1, <1>2 DEF IInv, TypeOK
<1>4. ASSUME NEW q \in Procs PROVE ProcState(q)'
  <2>1. CASE q = p
    BY <1>1, <2>1, <1>2 DEF IInv, TypeOK, ProcState, AbsentState, ReplayState, IdleState,
       AppendState
  <2>2. CASE q # p
    BY <2>2, <1>1, OneOwner DEF IInv, TypeOK, ProcState, AbsentState, ReplayState, IdleState,
       AppendState
  <2> QED BY <2>1, <2>2
<1>5. LogSound(log)' /\ TokensIncrease' /\ GrantsAreDurable' /\ ReplayNeverRefuses'
  BY DEF IInv, TokensIncrease, GrantsAreDurable, ReplayNeverRefuses
<1> QED BY <1>3, <1>4, <1>5 DEF IInv

(* When the last line is read (durable.rs: open) the table covers the      *)
(* whole log, which is what an open table must.                            *)
LEMMA ReplayDoneKeeps ==
  ASSUME IInv, NEW p \in Procs, ReplayDone(p)
  PROVE  IInv'
<1> USE DEF ReplayDone, contractVars, fileVars
<1>1. /\ lockOwner = p /\ Matches(log, table[p], Len(log)) /\ ~torn
      /\ ~poisoned[p] /\ pending[p] = NoAppend
  BY DEF IInv, TypeOK, ProcState, ReplayState
<1>2. TypeOK'
  BY <1>1 DEF IInv, TypeOK, Phases
<1>3. ASSUME NEW q \in Procs PROVE ProcState(q)'
  <2>1. CASE q = p
    BY <2>1, <1>1 DEF IInv, TypeOK, ProcState, AbsentState, ReplayState, IdleState, AppendState
  <2>2. CASE q # p
    BY <2>2, <1>1, OneOwner DEF IInv, TypeOK, ProcState, AbsentState, ReplayState, IdleState,
       AppendState
  <2> QED BY <2>1, <2>2
<1>4. LogSound(log)' /\ TokensIncrease' /\ GrantsAreDurable'
  <2>1. log' = log /\ synced' = synced /\ issued' = issued
    OBVIOUS
  <2> QED BY <2>1 DEF IInv, TokensIncrease, GrantsAreDurable
<1>5. ReplayNeverRefuses'
  BY DEF IInv, TypeOK, ReplayNeverRefuses
<1> QED BY <1>2, <1>3, <1>4, <1>5 DEF IInv

(* A token a caller holds is in a synced line.                             *)
LEMMA IssuedIsLogged ==
  ASSUME IInv, NEW r \in Resources, NEW i \in 1..Len(issued[r])
  PROVE  \E k \in 1..synced : /\ IsGrant(log[k]) /\ log[k].res = r
                              /\ log[k].lease.token = issued[r][i]
BY DEF IInv, GrantsAreDurable, IsGrant

(* The write of one line (wal.rs: append), whatever the event, as long as  *)
(* the log it makes is sound.                                              *)
LEMMA WriteKeeps ==
  ASSUME IInv, NEW p \in Procs, NEW e \in LeaseEvents, NEW staged \in LeaseTables,
         WriteLine(p, e, staged),
         UNCHANGED <<lockOwner, phase, cursor, table, poisoned, now, issued>>,
         claim' \in [Resources -> Contract!Claims],
         Append(log, e) \in Seq(LogLines), LogSound(Append(log, e)),
         Matches(Append(log, e), staged, Len(log) + 1),
         IsGrant(e) => e.lease \in Lease
  PROVE  IInv'
<1> USE DEF WriteLine, Idle
<1> DEFINE a == [event |-> e, table |-> staged, before |-> Len(log), full |-> TRUE]
           b == [event |-> e, table |-> staged, before |-> Len(log), full |-> FALSE]
<1>1. /\ log \in Seq(LogLines) /\ Len(log) \in Nat /\ LogSound(log) /\ lockOwner = p
      /\ ~torn /\ Matches(log, table[p], Len(log)) /\ synced \in 0..Len(log)
      /\ phase[p] = "open" /\ ~poisoned[p] /\ synced' = synced
  BY DEF IInv, TypeOK, ProcState, IdleState
<1>2. a \in Appends /\ b \in Appends /\ a # NoAppend /\ b # NoAppend
  <2>1. a \in Appends
    BY <1>1 DEF Appends
  <2>2. b \in Appends
    BY <1>1 DEF Appends
  <2> QED BY <2>1, <2>2, ConstantFacts
<1>3. \/ /\ log' = Append(log, e) /\ torn' = FALSE /\ pending' = [pending EXCEPT ![p] = a]
      \/ /\ log' = log /\ torn' = TRUE /\ pending' = [pending EXCEPT ![p] = b]
  BY <1>1
<1>4. /\ \A k \in 1..Len(log) : log'[k] = log[k]
      /\ Len(log') \in {Len(log), Len(log) + 1}
  BY <1>1, <1>3, SMTT(30)
<1>5. TypeOK'
  <2>1. log' \in Seq(LogLines) /\ torn' \in BOOLEAN
    BY <1>1, <1>3
  <2>2a. Len(log') <= MaxLog
    BY <1>1, <1>4, DurableConstants DEF IInv, TypeOK
  <2>2b. synced' \in 0..Len(log')
    BY <1>1, <1>4
  <2>2. pending' \in [Procs -> Appends \cup {NoAppend}]
    BY <1>2, <1>3 DEF IInv, TypeOK
  <2>3. \A q \in Procs : pending'[q] # NoAppend => phase'[q] = "open"
    BY <1>1, <1>3 DEF IInv, TypeOK
  <2> QED BY <2>1, <2>2a, <2>2b, <2>2, <2>3 DEF IInv, TypeOK
<1>6. LogSound(log)'
  BY <1>1, <1>3
<1>7. TokensIncrease' /\ ReplayNeverRefuses'
  BY DEF IInv, TokensIncrease, ReplayNeverRefuses
<1>8. GrantsAreDurable'
  <2>1. synced' = synced /\ issued' = issued /\ \A k \in 1..synced : log'[k] = log[k]
    BY <1>1, <1>4
  <2> SUFFICES ASSUME NEW r \in Resources, NEW i \in 1..Len(issued[r])
               PROVE  \E k \in 1..synced : /\ IsGrant(log'[k]) /\ log'[k].res = r
                                           /\ log'[k].lease.token = issued[r][i]
    BY <2>1 DEF GrantsAreDurable, IsGrant
  <2>2. PICK k \in 1..synced : /\ IsGrant(log[k]) /\ log[k].res = r
                               /\ log[k].lease.token = issued[r][i]
    BY IssuedIsLogged
  <2> QED BY <2>1, <2>2
<1>9. ASSUME NEW q \in Procs PROVE ProcState(q)'
  <2>1. CASE q = p
    <3>1. Matches(log', table'[p], Len(log))
      BY <1>1, <1>4, SameLines
    <3>2. pending'[p] \in {a, b} /\ pending'[p] # NoAppend
      BY <1>2, <1>3 DEF IInv, TypeOK
    <3>3. CASE pending'[p] = a
      <4>1. log' = Append(log, e) /\ torn' = FALSE
        BY <1>2, <1>3, <3>3 DEF IInv, TypeOK
      <4>2. /\ Len(log') = Len(log) + 1 /\ log'[Len(log) + 1] = e
            /\ Matches(log', staged, Len(log) + 1)
        BY <4>1, <1>1
      <4>3. AppendState(p)'
        BY <4>1, <4>2, <3>1, <3>3, <1>1 DEF AppendState
      <4> QED BY <2>1, <4>3, <3>2, <1>1 DEF ProcState, AbsentState, ReplayState, IdleState
    <3>4. CASE pending'[p] = b
      BY <1>2, <1>3, <3>4, <3>1, <1>1, <2>1, <3>2 DEF IInv, TypeOK, AppendState, ProcState,
         AbsentState, ReplayState, IdleState
    <3> QED BY <3>2, <3>3, <3>4
  <2>2. CASE q # p
    BY <2>2, <1>1, OneOwner, <1>3 DEF IInv, TypeOK, ProcState, AbsentState, ReplayState,
       IdleState, AppendState
  <2> QED BY <2>1, <2>2
<1> QED BY <1>5, <1>6, <1>7, <1>8, <1>9 DEF IInv

(* The append of a grant (durable.rs: acquire): its token is above the     *)
(* log's.                                                                  *)
LEMMA StageAcquireKeeps ==
  ASSUME IInv, NEW p \in Procs, NEW r \in Resources, NEW h \in Holders,
         StageAcquire(p, r, h)
  PROVE  IInv'
<1> DEFINE e == GrantEvent(table[p], r, h, now)
           staged == Acquire(table[p], r, h, now)
<1>1. /\ log \in Seq(LogLines) /\ LogSound(log) /\ table[p] \in LeaseTables
      /\ Matches(log, table[p], Len(log)) /\ now \in Nat
      /\ CanAcquire(table[p], r, now)
  BY DEF IInv, TypeOK, ProcState, IdleState, StageAcquire, WriteLine, Idle
<1>2. /\ e \in LeaseEvents /\ IsGrant(e) /\ e.lease \in Lease
      /\ Append(log, e) \in Seq(LogLines) /\ LogSound(Append(log, e))
      /\ staged \in LeaseTables
      /\ Matches(Append(log, e), staged, Len(Append(log, e)))
  BY <1>1, GrantExtends
<1>3. Len(Append(log, e)) = Len(log) + 1
  BY <1>1, <1>2
<1>4. /\ WriteLine(p, e, staged)
      /\ UNCHANGED <<lockOwner, phase, cursor, table, poisoned, now, issued>>
      /\ claim' \in [Resources -> Contract!Claims]
  BY DEF StageAcquire, contractVars, IInv, TypeOK
<1> HIDE DEF e, staged
<1> QED BY <1>2, <1>3, <1>4, WriteKeeps

(* The append of a release (durable.rs: release): it ends the grant the    *)
(* log records last.                                                       *)
LEMMA StageReleaseKeeps ==
  ASSUME IInv, NEW p \in Procs, NEW r \in Resources, NEW h \in Holders,
         StageRelease(p, r, h)
  PROVE  IInv'
<1> DEFINE e == ReleaseEvent(r, h, now)
           staged == Release(table[p], r)
<1>1. /\ log \in Seq(LogLines) /\ LogSound(log) /\ table[p] \in LeaseTables
      /\ Matches(log, table[p], Len(log)) /\ now \in Nat
      /\ CanRelease(table[p], r, h)
  BY DEF IInv, TypeOK, ProcState, IdleState, StageRelease, WriteLine, Idle
<1>2. /\ e \in LeaseEvents /\ ~IsGrant(e)
      /\ Append(log, e) \in Seq(LogLines) /\ LogSound(Append(log, e))
      /\ staged \in LeaseTables
      /\ Matches(Append(log, e), staged, Len(Append(log, e)))
  BY <1>1, ReleaseExtends
<1>3. Len(Append(log, e)) = Len(log) + 1
  BY <1>1, <1>2
<1>4. /\ WriteLine(p, e, staged)
      /\ UNCHANGED <<lockOwner, phase, cursor, table, poisoned, now, issued>>
  BY DEF StageRelease
<1>5. claim' \in [Resources -> Contract!Claims]
  BY DEF StageRelease, IInv, TypeOK, Contract!Claims
<1> HIDE DEF e, staged
<1> QED BY <1>2, <1>3, <1>4, <1>5, WriteKeeps

(* A lease ends at an instant of the clock.                                *)
LEMMA LeaseEnds ==
  ASSUME NEW l \in Lease
  PROVE  ExpiresAt(l) \in Nat
<1>1. l.grantedAt \in Nat /\ l.ttl \in Nat
  BY ConstantFacts DEF Lease
<1> QED BY <1>1 DEF ExpiresAt

(* What a sequence of tokens is once one is appended.                      *)
LEMMA AppendedToken ==
  ASSUME NEW s \in Seq(1..MaxToken), NEW t \in 1..MaxToken
  PROVE  /\ Len(Append(s, t)) = Len(s) + 1 /\ Append(s, t)[Len(s) + 1] = t
         /\ \A i \in 1..Len(s) : Append(s, t)[i] = s[i]
OBVIOUS

(* A token whose line is the last of a synced log exceeds every token      *)
(* issued before it, and is durable.                                       *)
LEMMA IssueKeeps ==
  ASSUME IInv, NEW r \in Resources, NEW t \in 1..MaxToken, synced < Len(log),
         IsGrant(log[Len(log)]), log[Len(log)].res = r, log[Len(log)].lease.token = t,
         issued' = [issued EXCEPT ![r] = Append(@, t)], synced' = Len(log), log' = log
  PROVE  TokensIncrease' /\ GrantsAreDurable'
<1>1. /\ issued \in [Resources -> Seq(1..MaxToken)] /\ TokensIncrease /\ TokensOrdered(log)
      /\ synced \in 0..Len(log) /\ Len(log) \in Nat
  BY DEF IInv, TypeOK, LogSound
<1>2. PICK old \in Seq(1..MaxToken) : old = issued[r]
  BY <1>1
<1>3. /\ issued'[r] = Append(old, t) /\ Len(old) \in Nat
      /\ \A q \in Resources : q # r => issued'[q] = issued[q]
  BY <1>1, <1>2
<1>4. /\ Len(issued'[r]) = Len(old) + 1 /\ issued'[r][Len(old) + 1] = t
      /\ \A i \in 1..Len(old) : issued'[r][i] = old[i]
  <2>1. /\ Len(Append(old, t)) = Len(old) + 1 /\ Append(old, t)[Len(old) + 1] = t
        /\ \A i \in 1..Len(old) : Append(old, t)[i] = old[i]
    BY AppendedToken
  <2> QED BY <2>1, <1>3, Zenon
<1>5. ASSUME NEW i \in 1..Len(old)
      PROVE  \E k \in 1..synced : IsGrant(log[k]) /\ log[k].res = r /\ log[k].lease.token = old[i]
  BY <1>2, IssuedIsLogged
<1>6. ASSUME NEW i \in 1..Len(old) PROVE old[i] < t
  <2>1. PICK k \in 1..synced : IsGrant(log[k]) /\ log[k].res = r /\ log[k].lease.token = old[i]
    BY <1>5
  <2>2. k \in 1..Len(log) /\ Len(log) \in 1..Len(log) /\ k < Len(log)
    BY <1>1
  <2> QED BY <1>1, <2>1, <2>2 DEF TokensOrdered
<1>7. TokensIncrease'
  <2> SUFFICES ASSUME NEW q \in Resources, NEW i \in 1..Len(issued'[q]),
                      NEW j \in 1..Len(issued'[q]), i < j
               PROVE  issued'[q][i] < issued'[q][j]
    BY DEF TokensIncrease
  <2>1. CASE q = r
    <3>1. /\ i \in 1..Len(old) /\ (j \in 1..Len(old) \/ j = Len(old) + 1)
          /\ issued'[r][i] = old[i]
      BY <2>1, <1>3, <1>4
    <3>2. CASE j \in 1..Len(old)
      BY <3>1, <3>2, <1>1, <1>2, <2>1, <1>4 DEF TokensIncrease
    <3>3. CASE j = Len(old) + 1
      BY <3>1, <3>3, <2>1, <1>4, <1>6
    <3> QED BY <3>1, <3>2, <3>3
  <2>2. CASE q # r
    BY <2>2, <1>1, <1>3 DEF TokensIncrease
  <2> QED BY <2>1, <2>2
<1>8. GrantsAreDurable'
  <2> SUFFICES ASSUME NEW q \in Resources, NEW i \in 1..Len(issued'[q])
               PROVE  \E k \in 1..Len(log) : /\ IsGrant(log[k]) /\ log[k].res = q
                                             /\ log[k].lease.token = issued'[q][i]
    BY DEF GrantsAreDurable, IsGrant
  <2>1. CASE q = r
    <3>1. i \in 1..Len(old) \/ i = Len(old) + 1
      BY <2>1, <1>3, <1>4
    <3>2. CASE i \in 1..Len(old)
      <4>1. PICK k \in 1..synced : IsGrant(log[k]) /\ log[k].res = r /\ log[k].lease.token = old[i]
        BY <3>2, <1>5
      <4>2. k \in 1..Len(log)
        BY <1>1
      <4> QED BY <4>1, <4>2, <3>2, <2>1, <1>4
    <3>3. CASE i = Len(old) + 1
      BY <1>1, <3>3, <2>1, <1>4
    <3> QED BY <3>1, <3>2, <3>3
  <2>2. CASE q # r
    <3>1. issued'[q] = issued[q]
      BY <2>2, <1>3
    <3>2. PICK k \in 1..synced : /\ IsGrant(log[k]) /\ log[k].res = q
                                 /\ log[k].lease.token = issued[q][i]
      BY <3>1, IssuedIsLogged
    <3>3. k \in 1..Len(log)
      BY <1>1
    <3> QED BY <3>1, <3>2, <3>3
  <2> QED BY <2>1, <2>2
<1> QED BY <1>7, <1>8

(* Only now does a token reach its caller: its line is synced, and every   *)
(* token issued before it is in an earlier line.                           *)
LEMMA CommitKeeps ==
  ASSUME IInv, NEW p \in Procs, CommitAppend(p)
  PROVE  IInv'
<1> USE DEF CommitAppend
<1> DEFINE a == pending[p]
           e == pending[p].event
<1>1. /\ log \in Seq(LogLines) /\ Len(log) \in Nat /\ lockOwner = p /\ phase[p] = "open"
      /\ a \in Appends /\ a.full /\ a.before \in Nat /\ Len(log) = a.before + 1
      /\ log[Len(log)] = e /\ synced \in 0..a.before /\ ~torn /\ ~poisoned[p]
      /\ Matches(log, a.table, Len(log)) /\ a.table \in LeaseTables /\ e \in LeaseEvents
      /\ IsGrant(e) => e.lease \in Lease
  BY DEF IInv, TypeOK, ProcState, AppendState, Appends
<1>2. synced' = Len(log) /\ log' = log /\ pending'[p] = NoAppend
      /\ table'[p] = a.table
  BY <1>1 DEF IInv, TypeOK
<1>3. \/ /\ IsGrant(e)
         /\ issued' = [issued EXCEPT ![e.res] = Append(@, e.lease.token)]
         /\ claim' = [claim EXCEPT ![e.res] =
              [term |-> ExpiresAt(e.lease), until |-> ExpiresAt(e.lease), free |-> FALSE]]
      \/ UNCHANGED <<issued, claim>>
  BY DEF Returned, IsGrant
<1>4. TypeOK'
  <2>1. /\ table' \in [Procs -> LeaseTables]
        /\ pending' \in [Procs -> Appends \cup {NoAppend}]
        /\ \A q \in Procs : pending'[q] # NoAppend => phase'[q] = "open"
    BY <1>1 DEF IInv, TypeOK
  <2>2. issued' \in [Resources -> Seq(1..MaxToken)]
    <3>1. CASE IsGrant(e)
      <4>1. e.res \in Resources /\ e.lease.token \in 1..MaxToken
        BY <3>1, <1>1 DEF LeaseEvents, Lease
      <4>2. Append(issued[e.res], e.lease.token) \in Seq(1..MaxToken)
        BY <4>1 DEF IInv, TypeOK
      <4> QED BY <4>1, <4>2, <1>3 DEF IInv, TypeOK
    <3>2. CASE ~IsGrant(e)
      BY <3>2, <1>3 DEF IInv, TypeOK
    <3> QED BY <3>1, <3>2
  <2>3. claim' \in [Resources -> Contract!Claims]
    <3>1. CASE IsGrant(e)
      <4>1. ExpiresAt(e.lease) \in Nat
        BY <3>1, <1>1, LeaseEnds
      <4>2. [term |-> ExpiresAt(e.lease), until |-> ExpiresAt(e.lease), free |-> FALSE]
              \in Contract!Claims
        BY <4>1 DEF Contract!Claims
      <4> QED BY <4>2, <1>3 DEF IInv, TypeOK
    <3>2. CASE ~IsGrant(e)
      BY <3>2, <1>3 DEF IInv, TypeOK
    <3> QED BY <3>1, <3>2
  <2>4. synced' \in 0..Len(log')
    BY <1>1, <1>2
  <2> QED BY <1>2, <2>1, <2>2, <2>3, <2>4 DEF IInv, TypeOK
<1>5. LogSound(log)' /\ ReplayNeverRefuses'
  BY DEF IInv, ReplayNeverRefuses
<1>6. TokensIncrease' /\ GrantsAreDurable'
  <2>1. CASE UNCHANGED <<issued, claim>>
    <3>1. issued' = issued /\ log' = log /\ synced' = Len(log) /\ synced \in 0..Len(log)
      BY <2>1, <1>1, <1>2
    <3>2. TokensIncrease'
      BY <3>1 DEF IInv, TokensIncrease
    <3>3. \A k \in 1..synced : k \in 1..synced'
      BY <1>1, <3>1
    <3>4. GrantsAreDurable'
      BY <3>1, <3>3 DEF IInv, GrantsAreDurable
    <3> QED BY <3>2, <3>4
  <2>2. CASE /\ IsGrant(e)
             /\ issued' = [issued EXCEPT ![e.res] = Append(@, e.lease.token)]
    <3>1. e.res \in Resources /\ e.lease.token \in 1..MaxToken /\ synced < Len(log)
      BY <1>1, <2>2 DEF LeaseEvents, Lease
    <3> QED BY <3>1, <2>2, <1>1, <1>2, IssueKeeps
  <2> QED BY <1>3, <2>1, <2>2
<1>7. ASSUME NEW q \in Procs PROVE ProcState(q)'
  <2>1. CASE q = p
    BY <2>1, <1>1, <1>2 DEF ProcState, AbsentState, ReplayState, IdleState, AppendState
  <2>2. CASE q # p
    BY <2>2, <1>1, OneOwner DEF IInv, TypeOK, ProcState, AbsentState, ReplayState, IdleState,
       AppendState
  <2> QED BY <2>1, <2>2
<1> QED BY <1>4, <1>5, <1>6, <1>7 DEF IInv

(* Cutting the log at n, no lower than the synced lines, keeps the log     *)
(* sound and every issued token in it.                                     *)
LEMMA CutKeeps ==
  ASSUME IInv, NEW n \in synced..Len(log), log' = SubSeq(log, 1, n),
         synced' \in synced..n, issued' = issued
  PROVE  /\ log' \in Seq(LogLines) /\ Len(log') = n /\ Len(log') <= MaxLog
         /\ LogSound(log)' /\ TokensIncrease' /\ GrantsAreDurable'
         /\ \A k \in 1..n : log'[k] = log[k]
<1>1. /\ log \in Seq(LogLines) /\ synced \in Nat /\ n \in 0..Len(log)
      /\ Len(log) \in Nat /\ Len(log) <= MaxLog /\ LogSound(log)
  BY DEF IInv, TypeOK
<1>2. /\ log' \in Seq(LogLines) /\ Len(log') = n
      /\ \A k \in 1..n : log'[k] = log[k]
  BY <1>1, CutLines
<1>3. LogSound(log)'
  BY <1>1, CutSound
<1>4. TokensIncrease'
  BY DEF IInv, TokensIncrease
<1>5. GrantsAreDurable'
  <2>1. \A k \in 1..synced : k \in 1..synced' /\ log'[k] = log[k]
    BY <1>1, <1>2
  <2> SUFFICES ASSUME NEW r \in Resources, NEW i \in 1..Len(issued[r])
               PROVE  \E k \in 1..synced' : /\ IsGrant(log'[k]) /\ log'[k].res = r
                                            /\ log'[k].lease.token = issued[r][i]
    BY DEF GrantsAreDurable, IsGrant
  <2>2. PICK k \in 1..synced : /\ IsGrant(log[k]) /\ log[k].res = r
                               /\ log[k].lease.token = issued[r][i]
    BY IssuedIsLogged
  <2> QED BY <2>1, <2>2
<1> QED BY <1>1, <1>2, <1>3, <1>4, <1>5, DurableConstants

(* A failed append cut back (wal.rs: append, set_len) takes its own line   *)
(* and no other, and that line was never returned.                         *)
LEMMA RewindKeeps ==
  ASSUME IInv, NEW p \in Procs, RewindAppend(p)
  PROVE  IInv'
<1> DEFINE n == pending[p].before
<1>1. /\ log \in Seq(LogLines) /\ Len(log) \in Nat /\ synced \in Nat
      /\ lockOwner = p /\ phase[p] = "open" /\ ~poisoned[p] /\ n \in synced..Len(log)
      /\ Matches(log, table[p], n)
  BY DEF IInv, TypeOK, ProcState, AppendState, RewindAppend, Appends
<1>7. n \in Nat /\ n \in synced..n
  BY <1>1
<1>2. /\ log' = SubSeq(log, 1, n) /\ synced' = n /\ issued' = issued /\ ~torn'
      /\ pending' = [pending EXCEPT ![p] = NoAppend]
      /\ UNCHANGED <<lockOwner, phase, cursor, table, poisoned, now, claim>>
  BY DEF RewindAppend, contractVars
<1>3. /\ log' \in Seq(LogLines) /\ Len(log') = n /\ Len(log') <= MaxLog
      /\ LogSound(log)' /\ TokensIncrease' /\ GrantsAreDurable'
      /\ \A k \in 1..n : log'[k] = log[k]
  <2> HIDE DEF n
  <2>1. synced' \in synced..n
    BY <1>7, <1>2
  <2> QED BY <2>1, <1>1, <1>2, CutKeeps
<1>4. TypeOK'
  <2>1. /\ pending' \in [Procs -> Appends \cup {NoAppend}]
        /\ \A q \in Procs : pending'[q] # NoAppend => phase'[q] = "open"
    BY <1>2 DEF IInv, TypeOK
  <2>2. synced' \in 0..Len(log')
    <3> HIDE DEF n
    <3> QED BY <1>7, <1>2, <1>3
  <2>3. torn' \in BOOLEAN
    BY DEF RewindAppend
  <2> QED BY <1>2, <1>3, <2>1, <2>2, <2>3 DEF IInv, TypeOK
<1>5. ASSUME NEW q \in Procs PROVE ProcState(q)'
  <2>1. CASE q = p
    <3>1. Matches(log', table[p], n)
      BY <1>1, <1>7, <1>3, SameLines
    <3>2. pending'[p] = NoAppend
      BY <1>2 DEF IInv, TypeOK
    <3> QED
      BY <2>1, <3>1, <3>2, <1>1, <1>2, <1>3
         DEF ProcState, AbsentState, ReplayState, IdleState, AppendState
  <2>2. CASE q # p
    BY <2>2, <1>1, OneOwner, <1>2 DEF IInv, TypeOK, ProcState, AbsentState, ReplayState,
       IdleState, AppendState
  <2> QED BY <2>1, <2>2
<1>6. ReplayNeverRefuses'
  BY <1>2 DEF IInv, ReplayNeverRefuses
<1> QED BY <1>3, <1>4, <1>5, <1>6 DEF IInv

(* A rewind that failed (wal.rs: append, poisoned) may leave the line in   *)
(* the log; the log then takes no more appends.                            *)
LEMMA PoisonKeeps ==
  ASSUME IInv, NEW p \in Procs, PoisonAppend(p)
  PROVE  IInv'
<1>1. /\ log \in Seq(LogLines) /\ Len(log) \in Nat /\ synced \in Nat
      /\ synced <= Len(log) /\ Len(log) <= MaxLog /\ LogSound(log)
      /\ lockOwner = p /\ phase[p] = "open" /\ pending[p].before \in synced..Len(log)
      /\ torn \in BOOLEAN
  BY DEF IInv, TypeOK, ProcState, AppendState, PoisonAppend, Appends
<1>2. /\ issued' = issued /\ poisoned' = [poisoned EXCEPT ![p] = TRUE]
      /\ pending' = [pending EXCEPT ![p] = NoAppend]
      /\ UNCHANGED <<lockOwner, phase, cursor, table, now, claim>>
  BY DEF PoisonAppend, contractVars
<1>3. /\ log' \in Seq(LogLines) /\ Len(log') <= MaxLog /\ torn' \in BOOLEAN
      /\ synced' \in 0..Len(log')
      /\ LogSound(log)' /\ TokensIncrease' /\ GrantsAreDurable'
  <2>1. CASE UNCHANGED <<log, torn>>
    <3>1. synced' = synced
      BY <2>1, <1>1 DEF PoisonAppend
    <3>2. log' \in Seq(LogLines) /\ Len(log') <= MaxLog /\ torn' \in BOOLEAN /\ synced' \in 0..Len(log')
      BY <2>1, <3>1, <1>1
    <3>3. LogSound(log)'
      BY <2>1, <1>1
    <3>4. TokensIncrease'
      BY <1>2 DEF IInv, TokensIncrease
    <3>5. GrantsAreDurable'
      BY <2>1, <3>1, <1>2 DEF IInv, GrantsAreDurable
    <3> QED BY <3>2, <3>3, <3>4, <3>5
  <2>2. CASE /\ log' = SubSeq(log, 1, pending[p].before)
             /\ torn' = FALSE
    <3>1. Len(log') = pending[p].before
      BY <2>2, <1>1, CutLines
    <3>2. synced' = synced
      BY <3>1, <1>1 DEF PoisonAppend
    <3>3. synced' \in synced..pending[p].before
      BY <3>2, <1>1
    <3>4. /\ log' \in Seq(LogLines) /\ Len(log') <= MaxLog
          /\ LogSound(log)' /\ TokensIncrease' /\ GrantsAreDurable'
      BY <2>2, <3>3, <1>1, <1>2, CutKeeps
    <3>5. synced' \in 0..Len(log')
      BY <3>1, <3>3, <1>1
    <3> QED BY <2>2, <3>4, <3>5
  <2> QED BY <2>1, <2>2 DEF PoisonAppend
<1>4. TypeOK'
  BY <1>2, <1>3 DEF IInv, TypeOK
<1>5. ASSUME NEW q \in Procs PROVE ProcState(q)'
  <2>1. CASE q = p
    BY <1>2, <2>1, <1>1 DEF IInv, TypeOK, ProcState, AbsentState, ReplayState, IdleState,
       AppendState
  <2>2. CASE q # p
    BY <2>2, <1>1, OneOwner, <1>2 DEF IInv, TypeOK, ProcState, AbsentState, ReplayState,
       IdleState, AppendState
  <2> QED BY <2>1, <2>2
<1>6. ReplayNeverRefuses'
  BY <1>2 DEF IInv, ReplayNeverRefuses
<1> QED BY <1>3, <1>4, <1>5, <1>6 DEF IInv

(* A renewal (durable.rs: renew) changes the table only.                   *)
LEMMA RenewKeeps ==
  ASSUME IInv, NEW p \in Procs, NEW r \in Resources, NEW h \in Holders,
         RenewLease(p, r, h)
  PROVE  IInv'
<1> USE DEF RenewLease, Idle
<1>1. /\ lockOwner = p /\ table[p] \in LeaseTables /\ now \in Nat /\ Len(log) \in Nat
      /\ phase[p] = "open" /\ pending[p] = NoAppend /\ CanRenew(table[p], r, h, now)
      /\ UNCHANGED <<log, torn, synced, lockOwner, phase, cursor, poisoned, pending,
                     now, issued>>
      /\ table' = [table EXCEPT ![p] = Renew(table[p], r, now)]
  BY DEF IInv, TypeOK, fileVars
<1>2. Renew(table[p], r, now) \in LeaseTables
  BY <1>1, RenewMatches
<1>3. TypeOK'
  <2>1. table' \in [Procs -> LeaseTables]
    BY <1>1, <1>2 DEF IInv, TypeOK
  <2>2. claim' \in [Resources -> Contract!Claims]
    <3>1. now + TtlOf[r] \in Nat
      BY <1>1, ConstantFacts
    <3> QED BY <3>1 DEF IInv, TypeOK, Contract!Claims
  <2> QED BY <1>1, <2>1, <2>2 DEF IInv, TypeOK
<1>4. ASSUME NEW q \in Procs PROVE ProcState(q)'
  <2>1. CASE q = p
    BY <1>1, RenewMatches, <2>1 DEF IInv, TypeOK, ProcState, IdleState, AbsentState, ReplayState,
       AppendState
  <2>2. CASE q # p
    BY <2>2, <1>1, OneOwner DEF IInv, TypeOK, ProcState, AbsentState, ReplayState, IdleState,
       AppendState
  <2> QED BY <2>1, <2>2
<1>5. LogSound(log)' /\ TokensIncrease' /\ GrantsAreDurable' /\ ReplayNeverRefuses'
  BY <1>1 DEF IInv, TokensIncrease, GrantsAreDurable, ReplayNeverRefuses
<1> QED BY <1>3, <1>4, <1>5 DEF IInv

(* A process that ends leaves the file as it is.                           *)
LEMMA DownKeeps ==
  ASSUME IInv, NEW p \in Procs, ProcessDown(p)
  PROVE  IInv'
<1> USE DEF ProcessDown, Forget, fileVars
<1>1. TypeOK'
  <2>1. claim' \in [Resources -> Contract!Claims]
    BY DEF IInv, TypeOK, Contract!Claims
  <2>2. table' \in [Procs -> LeaseTables] /\ cursor' \in [Procs -> Nat]
        /\ poisoned' \in [Procs -> BOOLEAN]
        /\ pending' \in [Procs -> Appends \cup {NoAppend}]
        /\ phase' \in [Procs -> Phases]
    BY EmptyMatches DEF IInv, TypeOK, Phases
  <2>3. /\ \A q \in Procs : phase'[q] \in {"replaying", "open"} <=> lockOwner' = q
        /\ \A q \in Procs : pending'[q] # NoAppend => phase'[q] = "open"
    BY ConstantFacts DEF IInv, TypeOK
  <2> QED BY <2>1, <2>2, <2>3 DEF IInv, TypeOK
<1>2. LogSound(log)' /\ TokensIncrease' /\ GrantsAreDurable' /\ ReplayNeverRefuses'
  BY DEF IInv, TokensIncrease, GrantsAreDurable, ReplayNeverRefuses
<1>3. ASSUME NEW q \in Procs PROVE ProcState(q)'
  <2>1. CASE q = p
    BY <2>1 DEF ProcState, AbsentState, ReplayState, IdleState, AppendState
  <2>2. CASE q # p
    BY <2>2, OneOwner DEF ProcState, AbsentState, ReplayState, IdleState, AppendState
  <2> QED BY <2>1, <2>2
<1> QED BY <1>1, <1>2, <1>3 DEF IInv

(* Power loss takes any of the unsynced lines and none of the others.      *)
LEMMA PowerLossKeeps ==
  ASSUME IInv, PowerLoss
  PROVE  IInv'
<1>1. PICK kept \in synced..Len(log) :
        /\ log' = SubSeq(log, 1, kept) /\ torn' \in BOOLEAN /\ synced' = kept
  BY DEF PowerLoss
<1>2. synced \in Nat /\ Len(log) \in Nat /\ issued' = issued /\ now' = now
  BY DEF IInv, TypeOK, PowerLoss, Forget
<1>3. /\ log' \in Seq(LogLines) /\ Len(log') = kept /\ Len(log') <= MaxLog
      /\ LogSound(log)' /\ TokensIncrease' /\ GrantsAreDurable'
  BY <1>1, <1>2, CutKeeps
<1> USE DEF PowerLoss, Forget
<1>4. lockOwner' = NoProc
  BY DEF IInv, TypeOK
<1>5. \A q \in Procs : /\ phase'[q] = "down" /\ pending'[q] = NoAppend
                       /\ table'[q] = EmptyTable /\ cursor'[q] = 0 /\ ~poisoned'[q]
  OBVIOUS
<1>6. TypeOK'
  <2>1. claim' \in [Resources -> Contract!Claims]
    BY DEF IInv, TypeOK, Contract!Claims
  <2>2. table' \in [Procs -> LeaseTables] /\ cursor' \in [Procs -> Nat]
        /\ poisoned' \in [Procs -> BOOLEAN]
        /\ pending' \in [Procs -> Appends \cup {NoAppend}]
        /\ phase' \in [Procs -> Phases]
    BY EmptyMatches DEF Phases
  <2>3. synced' \in 0..Len(log')
    BY <1>1, <1>2, <1>3
  <2>4. /\ \A q \in Procs : phase'[q] \in {"replaying", "open"} <=> lockOwner' = q
        /\ \A q \in Procs : pending'[q] # NoAppend => phase'[q] = "open"
    BY <1>4, <1>5, ConstantFacts
  <2> QED BY <1>1, <1>2, <1>3, <1>4, <2>1, <2>2, <2>3, <2>4 DEF IInv, TypeOK
<1>7. ASSUME NEW q \in Procs PROVE ProcState(q)'
  BY <1>5 DEF ProcState, AbsentState, ReplayState, IdleState, AppendState
<1>8. ReplayNeverRefuses'
  BY <1>5 DEF ReplayNeverRefuses
<1> QED BY <1>3, <1>6, <1>7, <1>8 DEF IInv

(* Time passing changes no file and no table.                              *)
LEMMA TickKeeps ==
  ASSUME IInv, Tick \/ UNCHANGED vars
  PROVE  IInv'
<1> USE DEF Tick, vars, fileVars, procVars
<1>1. UNCHANGED <<log, torn, synced, lockOwner, phase, cursor, table, poisoned, pending,
                  issued, claim>>
  OBVIOUS
<1>2. now' \in 0..MaxNow
  BY DurableConstants DEF IInv, TypeOK
<1>3. TypeOK'
  BY <1>1, <1>2 DEF IInv, TypeOK
<1>4. LogSound(log)' /\ TokensIncrease' /\ GrantsAreDurable' /\ ReplayNeverRefuses'
  BY <1>1 DEF IInv, TokensIncrease, GrantsAreDurable, ReplayNeverRefuses
<1>5. ASSUME NEW q \in Procs PROVE ProcState(q)'
  BY <1>1 DEF IInv, ProcState, AbsentState, ReplayState, IdleState, AppendState
<1> QED BY <1>3, <1>4, <1>5 DEF IInv

(* Each action keeps the invariant, so every step does.                    *)
LEMMA NextIInv == IInv /\ [Next]_vars => IInv'
<1> SUFFICES ASSUME IInv, [Next]_vars PROVE IInv'
  OBVIOUS
<1>1. ASSUME NEW p \in Procs,
             \/ OpenWal(p) \/ ReplayLine(p) \/ ReplayDone(p)
             \/ CommitAppend(p) \/ RewindAppend(p) \/ PoisonAppend(p) \/ ProcessDown(p)
      PROVE  IInv'
  BY <1>1, OpenKeeps, ReplayLineKeeps, ReplayDoneKeeps,
     CommitKeeps, RewindKeeps, PoisonKeeps, DownKeeps
<1>2. ASSUME NEW p \in Procs, NEW r \in Resources, NEW h \in Holders,
             StageAcquire(p, r, h) \/ StageRelease(p, r, h) \/ RenewLease(p, r, h)
      PROVE  IInv'
  BY <1>2, StageAcquireKeeps, StageReleaseKeeps, RenewKeeps
<1>3. CASE PowerLoss
  BY <1>3, PowerLossKeeps
<1>4. CASE Tick \/ UNCHANGED vars
  BY <1>4, TickKeeps
<1> QED BY <1>1, <1>2, <1>3, <1>4 DEF Next

(* The inductive invariant of the lease log (durable.rs, wal.rs) holds in  *)
(* every reachable state.                                                  *)
THEOREM Invariance == Spec => []IInv
BY InitIInv, NextIInv, PTL DEF Spec

-----------------------------------------------------------------------------
(* The theorems a reader should know of.                                   *)

(* Types, and the file lock: only its owner has a table or an append.      *)
THEOREM TypeCorrect == Spec => []TypeOK
<1>1. IInv => TypeOK
  BY DEF IInv
<1> QED BY <1>1, Invariance, PTL

(* No fencing token is ever issued twice or out of order, however appends  *)
(* fail, processes die and the machine loses power (lease.rs, durable.rs). *)
THEOREM FencingTokensIncrease == Spec => []TokensIncrease
<1>1. IInv => TokensIncrease
  BY DEF IInv
<1> QED BY <1>1, Invariance, PTL

(* A token in a caller's hands is in the part of the log that survives     *)
(* (durable.rs: the event is fsynced before the lease is returned).        *)
THEOREM IssuedTokensAreDurable == Spec => []GrantsAreDurable
<1>1. IInv => GrantsAreDurable
  BY DEF IInv
<1> QED BY <1>1, Invariance, PTL

(* The fail-closed replay never refuses a log this code wrote (durable.rs: *)
(* open), so a restart always comes back.                                  *)
THEOREM ReplayAlwaysAccepts == Spec => []ReplayNeverRefuses
<1>1. IInv => ReplayNeverRefuses
  BY DEF IInv
<1> QED BY <1>1, Invariance, PTL

-----------------------------------------------------------------------------
(***************************************************************************)
(* The durable lease table implements FencingContract, for any number of   *)
(* processes, resources, holders and tokens.                               *)
(*                                                                         *)
(* The invariant above ties the tables to the log; what is missing there   *)
(* is the exclusion the callers were promised.  A claim that still runs is *)
(* the table's own lease, with the same token and the same expiry, in the  *)
(* one process that has the log open; and it is the last thing the log     *)
(* says about its resource, so that a replay after a crash finds it again. *)
(* Hence nothing can be staged over it.                                    *)
(***************************************************************************)

LastIssued(r) == issued[r][Len(issued[r])]

(* The latest grant of r was not given up and has not run out.             *)
Running(r) == issued[r] # <<>> /\ ~claim[r].free /\ now < claim[r].until

(* The line that recorded the latest grant a caller received.              *)
RecordsClaim(e, r) ==
  issued[r] # <<>> /\ IsGrant(e) /\ e.res = r /\ e.lease.token = LastIssued(r)

(* Lease and grant times never lie ahead of the clock, and every ttl is    *)
(* the one of its resource.                                                *)
Timely(lease, r) == lease.grantedAt <= now /\ lease.ttl = TtlOf[r]

-----------------------------------------------------------------------------
(* The strengthening of IInv.                                              *)

(* A renewal only adds to what the grant recorded, and a resource never    *)
(* granted is free.                                                        *)
ClaimsSound ==
  \A r \in Resources : /\ claim[r].term <= claim[r].until
                       /\ issued[r] = <<>> => claim[r].free

(* While nobody has the log open, no renewal is in force.                  *)
RenewalsForgotten ==
  (\A p \in Procs : phase[p] # "open") =>
    \A r \in Resources : claim[r].until = claim[r].term

LogTimely == \A k \in 1..Len(log) : IsGrant(log[k]) => Timely(log[k].lease, log[k].res)

LogTells ==
  \A r \in Resources : \A k \in 1..Len(log) : RecordsClaim(log[k], r) =>
    /\ ExpiresAt(log[k].lease) = claim[r].term
    /\ Running(r) => LastOf(log, k, Len(log))

(* A replayed lease is the one its last line recorded.                     *)
ReplayTells(p) ==
  phase[p] = "replaying" => \A r \in Resources : Held(table[p], r) =>
    \E j \in 1..cursor[p] : /\ IsGrant(log[j]) /\ log[j].res = r
                            /\ log[j].lease = table[p].leases[r]
                            /\ LastOf(log, j, cursor[p])

(* What an open table holds of a resource, against what callers know.      *)
TableTells(p, r) ==
  /\ Held(table[p], r) => Timely(table[p].leases[r], r)
  /\ issued[r] # <<>> /\ Held(table[p], r) /\ table[p].leases[r].token = LastIssued(r)
       => ExpiresAt(table[p].leases[r]) = claim[r].until
  /\ Running(r) => Held(table[p], r) /\ table[p].leases[r].token = LastIssued(r)

OpenTells(p) == phase[p] = "open" => \A r \in Resources : TableTells(p, r)

(* An append in flight changes one resource, and not one with a running    *)
(* claim.                                                                  *)
PendingTells(p) ==
  pending[p] # NoAppend =>
    LET e == pending[p].event IN
    /\ ~Running(e.res)
    /\ pending[p].table.leases =
         [table[p].leases EXCEPT ![e.res] = IF IsGrant(e) THEN e.lease ELSE NoLease]
    /\ IsGrant(e) => Timely(e.lease, e.res)

RInv ==
  /\ ClaimsSound /\ RenewalsForgotten /\ LogTimely /\ LogTells
  /\ \A p \in Procs : ReplayTells(p) /\ OpenTells(p) /\ PendingTells(p)

-----------------------------------------------------------------------------
(* Facts both invariants give together.                                    *)

(* The latest token a caller received is in a synced line.                 *)
LEMMA ClaimIsLogged ==
  ASSUME IInv, NEW r \in Resources, issued[r] # <<>>
  PROVE  /\ Len(issued[r]) \in 1..Len(issued[r])
         /\ \E k \in 1..synced : RecordsClaim(log[k], r)
<1>1. issued[r] \in Seq(1..MaxToken)
  BY DEF IInv, TypeOK
<1>2. Len(issued[r]) \in 1..Len(issued[r])
  BY <1>1
<1> QED BY <1>2, IssuedIsLogged DEF RecordsClaim, LastIssued

(* Whoever is not the owner of the log has nothing to tell.                *)
LEMMA OthersTellNothing ==
  ASSUME NEW p \in Procs, phase[p] \in {"down", "refused"}, pending[p] = NoAppend
  PROVE  ReplayTells(p) /\ OpenTells(p) /\ PendingTells(p)
BY DEF ReplayTells, OpenTells, PendingTells

(* A resource whose lease is free or expired in the owner's table has no   *)
(* running claim (lease.rs: acquire).                                      *)
LEMMA AcquirableIsOver ==
  ASSUME IInv, RInv, NEW p \in Procs, phase[p] = "open", NEW r \in Resources,
         CanAcquire(table[p], r, now)
  PROVE  ~Running(r)
<1> SUFFICES ASSUME Running(r) PROVE FALSE
  OBVIOUS
<1>1. TableTells(p, r)
  BY DEF RInv, OpenTells
<1>2. /\ Held(table[p], r) /\ table[p].leases[r].token = LastIssued(r)
      /\ ExpiresAt(table[p].leases[r]) = claim[r].until
  BY <1>1 DEF TableTells, Running
<1>3. now >= claim[r].until /\ now \in Nat /\ claim[r].until \in Nat
  BY <1>2 DEF CanAcquire, IsExpired, IInv, TypeOK, Contract!Claims
<1> QED BY <1>3 DEF Running

-----------------------------------------------------------------------------
(* One lemma per action.                                                   *)

(* Nothing issued, nothing logged, nobody open.                            *)
LEMMA InitRInv == Init => RInv
<1> SUFFICES ASSUME Init PROVE RInv
  OBVIOUS
<1> USE DEF Init, Contract!ContractInit
<1>1. ClaimsSound /\ RenewalsForgotten /\ LogTimely /\ LogTells
  BY DEF ClaimsSound, RenewalsForgotten, LogTimely, LogTells
<1>2. ASSUME NEW p \in Procs PROVE ReplayTells(p) /\ OpenTells(p) /\ PendingTells(p)
  BY OthersTellNothing
<1> QED BY <1>1, <1>2 DEF RInv

(* The new owner (wal.rs: new) has read nothing yet.                       *)
LEMMA OpenTellsStill ==
  ASSUME IInv, RInv, NEW p \in Procs, OpenWal(p)
  PROVE  RInv'
<1> USE DEF OpenWal, TakeLock, RepairTail, contractVars
<1>1. \A q \in Procs : /\ phase[q] \in {"down", "refused"} /\ pending[q] = NoAppend
                       /\ table[q] = EmptyTable
  BY ConstantFacts DEF IInv, TypeOK, Phases, ProcState, AbsentState
<1>2. /\ phase' = [phase EXCEPT ![p] = "replaying"] /\ phase \in [Procs -> Phases]
      /\ UNCHANGED <<log, table, pending, cursor, now, issued, claim>>
  BY DEF IInv, TypeOK
<1>3. ClaimsSound' /\ RenewalsForgotten' /\ LogTimely' /\ LogTells'
  BY <1>1, <1>2 DEF RInv, ClaimsSound, RenewalsForgotten, LogTimely, LogTells, Timely,
     RecordsClaim, LastIssued, Running
<1>4. ASSUME NEW q \in Procs
      PROVE  ReplayTells(q)' /\ OpenTells(q)' /\ PendingTells(q)'
  BY <1>1, <1>2 DEF Held, EmptyTable, ReplayTells, OpenTells, PendingTells
<1> QED BY <1>3, <1>4 DEF RInv

(* Replay installs the lease of a grant line as it was recorded, and       *)
(* clears it at a release (lease.rs: apply).                               *)
LEMMA ReplayLineTellsStill ==
  ASSUME IInv, RInv, NEW p \in Procs, ReplayLine(p)
  PROVE  RInv'
<1> USE DEF fileVars, contractVars
<1> DEFINE n == cursor[p]
           tab == table[p]
           e == log[n + 1]
<1>1. /\ log \in Seq(LogLines) /\ LogSound(log) /\ tab \in LeaseTables
      /\ n \in Nat /\ n < Len(log) /\ lockOwner = p /\ phase[p] = "replaying"
      /\ Matches(log, tab, n) /\ Exact(log, tab, n) /\ pending[p] = NoAppend
      /\ Len(log) \in Nat
  BY DEF IInv, TypeOK, ProcState, ReplayState, ReplayLine
<1>2. AcceptLine(p)
  BY <1>1, ReplayStep DEF ReplayLine
<1>3. /\ table' = [table EXCEPT ![p] = Apply(tab, e)]
      /\ cursor' = [cursor EXCEPT ![p] = n + 1]
      /\ UNCHANGED <<log, phase, pending, now, issued, claim>>
      /\ table \in [Procs -> LeaseTables] /\ cursor \in [Procs -> Nat]
  BY <1>2 DEF AcceptLine, IInv, TypeOK
<1>4. ClaimsSound' /\ RenewalsForgotten' /\ LogTimely' /\ LogTells'
  BY <1>3 DEF RInv, ClaimsSound, RenewalsForgotten, LogTimely, LogTells, Timely,
        RecordsClaim, LastIssued, Running
<1>5. ReplayTells(p)'
  <2>1. /\ e.kind \in {"acquired", "reclaimed", "released"} /\ e \in LogLines
        /\ IsGrant(e) => e.lease \in Lease
    BY <1>1 DEF LogSound, LinesSound
  <2>2. e.res \in Resources
    BY <2>1 DEF LogLines
  <2> SUFFICES ASSUME NEW r \in Resources, Held(table'[p], r)
               PROVE  \E j \in 1..(n + 1) : /\ IsGrant(log[j]) /\ log[j].res = r
                                            /\ log[j].lease = table'[p].leases[r]
                                            /\ LastOf(log, j, n + 1)
    BY <1>1, <1>3 DEF ReplayTells
  <2>3. table'[p] = Apply(tab, e) /\ tab.leases \in [Resources -> Lease \cup {NoLease}]
    BY <1>1, <1>3 DEF LeaseTables
  <2>4. Apply(tab, e).leases =
          [tab.leases EXCEPT ![e.res] = IF IsGrant(e) THEN e.lease ELSE NoLease]
    BY <2>1 DEF Apply, WithLease, Release, IsGrant
  <2>5. CASE r = e.res
    <3>1. IsGrant(e) /\ table'[p].leases[r] = e.lease
      BY <2>5, <2>2, <2>3, <2>4 DEF Held
    <3>2. n + 1 \in 1..(n + 1) /\ LastOf(log, n + 1, n + 1)
      BY <1>1 DEF LastOf
    <3> QED BY <2>5, <3>1, <3>2
  <2>6. CASE r # e.res
    <3>1. Held(tab, r) /\ table'[p].leases[r] = tab.leases[r]
      BY <2>6, <2>3, <2>4 DEF Held
    <3>2. PICK j \in 1..n : /\ IsGrant(log[j]) /\ log[j].res = r
                            /\ log[j].lease = tab.leases[r] /\ LastOf(log, j, n)
      BY <3>1, <1>1 DEF RInv, ReplayTells
    <3>3. LastOf(log, j, n + 1)
      BY <3>2, <2>6, <1>1 DEF LastOf
    <3> QED BY <3>1, <3>2, <3>3, <1>1
  <2> QED BY <2>5, <2>6
<1>6. ASSUME NEW q \in Procs
      PROVE  ReplayTells(q)' /\ OpenTells(q)' /\ PendingTells(q)'
  <2>1. CASE q = p
    BY <2>1, <1>5, <1>1, <1>3 DEF OpenTells, PendingTells
  <2>2. CASE q # p
    BY <2>2, <1>1, <1>3, OneOwner DEF ReplayTells, OpenTells, PendingTells
  <2> QED BY <2>1, <2>2
<1> QED BY <1>4, <1>6 DEF RInv

(* A replay that read every line (durable.rs: open) has found the claim    *)
(* that still runs, and no other lease of its resource.                    *)
LEMMA ReplayDoneTellsStill ==
  ASSUME IInv, RInv, NEW p \in Procs, ReplayDone(p)
  PROVE  RInv'
<1> USE DEF fileVars, contractVars
<1> DEFINE tab == table[p]
<1>1. /\ log \in Seq(LogLines) /\ tab \in LeaseTables /\ Len(log) \in Nat
      /\ lockOwner = p /\ phase[p] = "replaying" /\ cursor[p] = Len(log)
      /\ Exact(log, tab, Len(log)) /\ pending[p] = NoAppend /\ synced \in 0..Len(log)
  BY DEF IInv, TypeOK, ProcState, ReplayState, ReplayDone
<1>2. /\ phase' = [phase EXCEPT ![p] = "open"] /\ phase \in [Procs -> Phases]
      /\ UNCHANGED <<log, table, pending, now, issued, claim>>
  BY DEF ReplayDone, IInv, TypeOK
<1>3. \A q \in Procs : q # p => phase[q] \in {"down", "refused"} /\ pending[q] = NoAppend
  BY <1>1, OneOwner
<1>4. \A r \in Resources : claim[r].until = claim[r].term
  BY <1>1, <1>3 DEF RInv, RenewalsForgotten
<1>5. ClaimsSound' /\ LogTimely' /\ LogTells'
  BY <1>2 DEF RInv, ClaimsSound, LogTimely, LogTells, Timely, RecordsClaim, LastIssued, Running
<1>6. RenewalsForgotten'
  BY <1>4, <1>2 DEF RenewalsForgotten
<1>7. ASSUME NEW r \in Resources PROVE TableTells(p, r)
  <2>1. ASSUME Held(tab, r)
        PROVE  \E j \in 1..Len(log) : /\ IsGrant(log[j]) /\ log[j].res = r
                                      /\ log[j].lease = tab.leases[r]
                                      /\ LastOf(log, j, Len(log))
    BY <2>1, <1>1 DEF RInv, ReplayTells
  <2>2. Held(tab, r) => Timely(tab.leases[r], r)
    BY <2>1 DEF RInv, LogTimely
  <2>3. ASSUME issued[r] # <<>>, Held(tab, r), tab.leases[r].token = LastIssued(r)
        PROVE  ExpiresAt(tab.leases[r]) = claim[r].until
    <3>1. PICK j \in 1..Len(log) : /\ IsGrant(log[j]) /\ log[j].res = r
                                   /\ log[j].lease = tab.leases[r]
      BY <2>1, <2>3
    <3>2. RecordsClaim(log[j], r)
      BY <3>1, <2>3 DEF RecordsClaim
    <3> QED BY <3>1, <3>2, <1>4 DEF RInv, LogTells
  <2>4. ASSUME Running(r)
        PROVE  Held(tab, r) /\ tab.leases[r].token = LastIssued(r)
    <3>1. PICK k \in 1..Len(log) : RecordsClaim(log[k], r)
      BY <2>4, <1>1, ClaimIsLogged DEF Running
    <3>2. LastOf(log, k, Len(log)) /\ IsGrant(log[k]) /\ log[k].res = r
      BY <3>1, <2>4 DEF RInv, LogTells, RecordsClaim
    <3>3. Held(tab, r)
      BY <3>2, <1>1 DEF Exact, HeldBy
    <3>4. PICK j \in 1..Len(log) : /\ IsGrant(log[j]) /\ log[j].res = r
                                   /\ log[j].lease = tab.leases[r]
                                   /\ LastOf(log, j, Len(log))
      BY <3>3, <2>1
    <3>5. j = k
      BY <3>2, <3>4, <1>1 DEF LastOf
    <3> QED BY <3>1, <3>3, <3>4, <3>5 DEF RecordsClaim
  <2> QED BY <2>2, <2>3, <2>4 DEF TableTells
<1>8. ASSUME NEW q \in Procs
      PROVE  ReplayTells(q)' /\ OpenTells(q)' /\ PendingTells(q)'
  <2>1. CASE q = p
    BY <1>7, <1>2, <2>1, <1>1 DEF TableTells, Timely, LastIssued, Running, ReplayTells, OpenTells,
       PendingTells
  <2>2. CASE q # p
    BY <2>2, <1>2, <1>3 DEF ReplayTells, OpenTells, PendingTells
  <2> QED BY <2>1, <2>2
<1> QED BY <1>5, <1>6, <1>8 DEF RInv

(* Writing a line (wal.rs: append) of an event staged on the table: it is  *)
(* about a resource nobody has a running claim on.                         *)
LEMMA WriteTellsStill ==
  ASSUME IInv, RInv, IInv', NEW p \in Procs, NEW e \in LeaseEvents, NEW staged \in LeaseTables,
         WriteLine(p, e, staged),
         UNCHANGED <<lockOwner, phase, cursor, table, poisoned, now, issued>>,
         \A r \in Resources : /\ claim'[r].term = claim[r].term
                              /\ claim'[r].until = claim[r].until
                              /\ claim[r].free => claim'[r].free
                              /\ Running(r)' => Running(r),
         ~Running(e.res)',
         staged.leases =
           [table[p].leases EXCEPT ![e.res] = IF IsGrant(e) THEN e.lease ELSE NoLease],
         IsGrant(e) => Timely(e.lease, e.res)
  PROVE  RInv'
<1> DEFINE a == [event |-> e, table |-> staged, before |-> Len(log), full |-> TRUE]
           b == [event |-> e, table |-> staged, before |-> Len(log), full |-> FALSE]
<1>1. /\ log \in Seq(LogLines) /\ Len(log) \in Nat /\ lockOwner = p /\ ~torn
      /\ synced \in 0..Len(log) /\ phase[p] = "open" /\ pending \in [Procs -> Appends \cup {NoAppend}]
  BY DEF IInv, TypeOK, ProcState, IdleState, WriteLine, Idle
<1>2. \/ log' = Append(log, e) /\ pending' = [pending EXCEPT ![p] = a]
      \/ log' = log /\ pending' = [pending EXCEPT ![p] = b]
  BY <1>1 DEF WriteLine
<1>3. /\ \A k \in 1..Len(log) : log'[k] = log[k]
      /\ \/ Len(log') = Len(log)
         \/ Len(log') = Len(log) + 1 /\ log'[Len(log) + 1] = e
  BY <1>1, <1>2
<1>4. ClaimsSound' /\ RenewalsForgotten'
  BY DEF RInv, ClaimsSound, RenewalsForgotten
<1>5. LogTimely'
  <2> SUFFICES ASSUME NEW k \in 1..Len(log'), IsGrant(log'[k])
               PROVE  Timely(log'[k].lease, log'[k].res)
    BY DEF LogTimely, Timely
  <2>1. k \in 1..Len(log) \/ log'[k] = e
    BY <1>1, <1>3
  <2> QED BY <2>1, <1>3 DEF RInv, LogTimely
<1>6. LogTells'
  <2> SUFFICES ASSUME NEW r \in Resources, NEW k \in 1..Len(log'), RecordsClaim(log[k], r)'
               PROVE  /\ ExpiresAt(log'[k].lease) = claim'[r].term
                      /\ Running(r)' => LastOf(log', k, Len(log'))
    BY DEF LogTells
  <2>1. k \in 1..Len(log)
    <3> SUFFICES ASSUME k \notin 1..Len(log) PROVE FALSE
      OBVIOUS
    <3>1. k = Len(log) + 1 /\ issued[r] # <<>>
      BY <1>1, <1>3 DEF RecordsClaim
    <3>2. PICK j \in 1..synced : RecordsClaim(log[j], r)
      BY <3>1, ClaimIsLogged
    <3>3. j \in 1..Len(log') /\ j < k /\ RecordsClaim(log[j], r)'
      BY <3>1, <3>2, <1>1, <1>3 DEF RecordsClaim, LastIssued
    <3>4. log'[j].lease.token < log'[k].lease.token
      BY <3>3 DEF IInv, LogSound, TokensOrdered, RecordsClaim
    <3>5. log'[j].lease.token = log'[k].lease.token /\ log'[k].lease \in Lease
      BY <3>3 DEF RecordsClaim, IInv, LogSound, LinesSound
    <3> QED BY <3>4, <3>5, ConstantFacts DEF Lease
  <2>2. RecordsClaim(log[k], r)
    BY <2>1, <1>3 DEF RecordsClaim, LastIssued
  <2>3. ASSUME Running(r)' PROVE LastOf(log', k, Len(log'))
    <3>1. Running(r) /\ e.res # r
      BY <2>3
    <3>2. LastOf(log, k, Len(log))
      BY <3>1, <2>1, <2>2 DEF RInv, LogTells
    <3>3. log[k].res = r
      BY <2>2 DEF RecordsClaim
    <3> QED BY <3>1, <3>2, <3>3, <2>1, <1>1, <1>3 DEF LastOf
  <2> QED BY <2>1, <2>2, <2>3, <1>3 DEF RInv, LogTells
<1>7. ASSUME NEW q \in Procs
      PROVE  ReplayTells(q)' /\ OpenTells(q)' /\ PendingTells(q)'
  <2>1. CASE q = p
    <3>1. OpenTells(p)'
      BY <1>1 DEF RInv, OpenTells, TableTells, Timely, LastIssued, Running
    <3>2. PendingTells(p)'
      BY <1>1, <1>2 DEF PendingTells, Timely
    <3> QED BY <2>1, <3>1, <3>2, <1>1 DEF ReplayTells
  <2>2. CASE q # p
    BY <2>2, <1>1, OneOwner, <1>2 DEF ReplayTells, OpenTells, PendingTells
  <2> QED BY <2>1, <2>2
<1> QED BY <1>4, <1>5, <1>6, <1>7 DEF RInv

(* A grant is staged at the current time with the resource's own ttl       *)
(* (lease.rs: acquire).                                                    *)
LEMMA StageAcquireTellsStill ==
  ASSUME IInv, RInv, NEW p \in Procs, NEW r \in Resources, NEW h \in Holders,
         StageAcquire(p, r, h)
  PROVE  RInv'
<1> DEFINE e == GrantEvent(table[p], r, h, now)
           staged == Acquire(table[p], r, h, now)
<1>1. /\ log \in Seq(LogLines) /\ LogSound(log) /\ table[p] \in LeaseTables
      /\ Matches(log, table[p], Len(log)) /\ now \in Nat
      /\ CanAcquire(table[p], r, now) /\ phase[p] = "open"
  BY DEF IInv, TypeOK, ProcState, IdleState, StageAcquire, WriteLine, Idle
<1>2. e \in LeaseEvents /\ IsGrant(e) /\ staged \in LeaseTables
  BY <1>1, GrantExtends
<1>3. /\ e.res = r /\ e.lease = GrantedLease(table[p], r, h, now)
      /\ e.lease.grantedAt = now /\ e.lease.ttl = TtlOf[r]
  BY DEF GrantEvent, GrantedLease
<1>4. Timely(e.lease, e.res)
  BY <1>1, <1>3 DEF Timely
<1>5. staged.leases = [table[p].leases EXCEPT ![e.res] = IF IsGrant(e) THEN e.lease ELSE NoLease]
  BY <1>2, <1>3 DEF Acquire, WithLease
<1>6. /\ WriteLine(p, e, staged)
      /\ UNCHANGED <<lockOwner, phase, cursor, table, poisoned, now, issued, claim>>
  BY DEF StageAcquire, contractVars
<1>7. \A q \in Resources : Running(q)' <=> Running(q)
  BY <1>6 DEF Running
<1>8. ~Running(r)'
  BY <1>1, <1>7, AcquirableIsOver
<1>9. IInv'
  BY StageAcquireKeeps
<1> HIDE DEF e, staged
<1> QED BY <1>2, <1>3, <1>4, <1>5, <1>6, <1>7, <1>8, <1>9, WriteTellsStill

(* A release ends the claim before its line is written (durable.rs:        *)
(* release).                                                               *)
LEMMA StageReleaseTellsStill ==
  ASSUME IInv, RInv, NEW p \in Procs, NEW r \in Resources, NEW h \in Holders,
         StageRelease(p, r, h)
  PROVE  RInv'
<1> DEFINE e == ReleaseEvent(r, h, now)
           staged == Release(table[p], r)
<1>1. /\ log \in Seq(LogLines) /\ LogSound(log) /\ table[p] \in LeaseTables
      /\ Matches(log, table[p], Len(log)) /\ now \in Nat
      /\ CanRelease(table[p], r, h)
  BY DEF IInv, TypeOK, ProcState, IdleState, StageRelease, WriteLine, Idle
<1>2. e \in LeaseEvents /\ ~IsGrant(e) /\ staged \in LeaseTables
  BY <1>1, ReleaseExtends
<1>3. e.res = r /\ staged.leases = [table[p].leases EXCEPT ![r] = NoLease]
  BY <1>1 DEF ReleaseEvent, Release, LeaseTables
<1>4. /\ WriteLine(p, e, staged)
      /\ UNCHANGED <<lockOwner, phase, cursor, table, poisoned, now, issued>>
  BY DEF StageRelease
<1>5. \A q \in Resources : /\ claim'[q].term = claim[q].term
                           /\ claim'[q].until = claim[q].until
                           /\ claim'[q].free = (claim[q].free \/ q = r)
  BY DEF StageRelease, IInv, TypeOK, Contract!Claims
<1>6. (\A q \in Resources : Running(q)' => Running(q)) /\ ~Running(r)'
  BY <1>4, <1>5 DEF Running
<1>7. IInv'
  BY StageReleaseKeeps
<1> HIDE DEF e, staged
<1> QED BY <1>2, <1>3, <1>4, <1>5, <1>6, <1>7, WriteTellsStill

(* What a committed grant means to its caller: the claim is the lease of   *)
(* the event, whose line is the last of the log.                           *)
LEMMA GrantReturned ==
  ASSUME IInv, NEW p \in Procs, CommitAppend(p), IsGrant(pending[p].event)
  PROVE  LET e == pending[p].event IN
         /\ e.res \in Resources /\ e.lease \in Lease /\ ExpiresAt(e.lease) \in Nat
         /\ log[Len(log)] = e /\ Len(log) \in 1..Len(log)
         /\ issued' = [issued EXCEPT ![e.res] = Append(@, e.lease.token)]
         /\ issued'[e.res] # <<>> /\ issued'[e.res][Len(issued'[e.res])] = e.lease.token
         /\ \A r \in Resources \ {e.res} :
              issued'[r] = issued[r] /\ LastIssued(r)' = LastIssued(r) /\ claim'[r] = claim[r]
         /\ claim' = [claim EXCEPT ![e.res] =
              [term |-> ExpiresAt(e.lease), until |-> ExpiresAt(e.lease), free |-> FALSE]]
         /\ claim'[e.res] =
              [term |-> ExpiresAt(e.lease), until |-> ExpiresAt(e.lease), free |-> FALSE]
<1> DEFINE e == pending[p].event
<1>1. /\ log \in Seq(LogLines) /\ Len(log) = pending[p].before + 1
      /\ log[Len(log)] = e /\ e \in LeaseEvents /\ e.lease \in Lease
      /\ pending[p].before \in Nat
  BY DEF IInv, TypeOK, ProcState, AppendState, CommitAppend, Appends
<1>2. /\ issued \in [Resources -> Seq(1..MaxToken)] /\ claim \in [Resources -> Contract!Claims]
  BY DEF IInv, TypeOK
<1>3. e.res \in Resources /\ e.lease.token \in 1..MaxToken
      /\ e.lease.grantedAt \in Nat /\ e.lease.ttl \in Nat
  BY <1>1, ConstantFacts, SMTT(30) DEF LeaseEvents, Lease
<1>4. /\ issued' = [issued EXCEPT ![e.res] = Append(@, e.lease.token)]
      /\ claim' = [claim EXCEPT ![e.res] =
           [term |-> ExpiresAt(e.lease), until |-> ExpiresAt(e.lease), free |-> FALSE]]
  BY DEF CommitAppend, Returned, IsGrant
<1> HIDE DEF e
<1>5. /\ issued'[e.res] = Append(issued[e.res], e.lease.token)
      /\ issued[e.res] \in Seq(1..MaxToken)
  BY <1>2, <1>3, <1>4
<1>6. issued'[e.res] # <<>> /\ issued'[e.res][Len(issued'[e.res])] = e.lease.token
  BY <1>3, <1>5
<1>7. ExpiresAt(e.lease) \in Nat
  BY <1>3 DEF ExpiresAt
<1>8. \A r \in Resources \ {e.res} : issued'[r] = issued[r] /\ claim'[r] = claim[r]
  BY <1>2, <1>3, <1>4
<1>9. Len(log) \in 1..Len(log)
  BY <1>1
<1>10. claim'[e.res] =
         [term |-> ExpiresAt(e.lease), until |-> ExpiresAt(e.lease), free |-> FALSE]
  BY <1>2, <1>3, <1>4
<1> QED BY <1>1, <1>3, <1>4, <1>6, <1>7, <1>8, <1>9, <1>10 DEF e, LastIssued

(* An append that reached the disk (durable.rs: commit): the staged table  *)
(* becomes the table, and a grant's caller learns its lease.               *)
LEMMA CommitTellsStill ==
  ASSUME IInv, RInv, NEW p \in Procs, CommitAppend(p)
  PROVE  RInv'
<1> DEFINE e == pending[p].event
           a == pending[p]
<1>1. /\ log \in Seq(LogLines) /\ Len(log) \in Nat /\ lockOwner = p /\ phase[p] = "open"
      /\ LogSound(log) /\ a # NoAppend /\ table[p] \in LeaseTables /\ a.table \in LeaseTables
      /\ e \in LeaseEvents /\ e.res \in Resources /\ (IsGrant(e) => e.lease \in Lease)
      /\ pending \in [Procs -> Appends \cup {NoAppend}]
      /\ table \in [Procs -> LeaseTables] /\ now \in Nat
  BY DEF IInv, TypeOK, ProcState, AppendState, CommitAppend, Appends, LeaseEvents
<1>2. /\ table' = [table EXCEPT ![p] = a.table]
      /\ pending' = [pending EXCEPT ![p] = NoAppend]
      /\ UNCHANGED <<log, phase, cursor, now>>
  BY DEF CommitAppend
<1>3. PendingTells(p) /\ OpenTells(p)
  BY DEF RInv
<1>4. /\ ~Running(e.res)
      /\ a.table.leases[e.res] = IF IsGrant(e) THEN e.lease ELSE NoLease
      /\ \A r \in Resources \ {e.res} : a.table.leases[r] = table[p].leases[r]
      /\ IsGrant(e) => Timely(e.lease, e.res)
  BY <1>1, <1>3 DEF PendingTells, LeaseTables
<1>5. RenewalsForgotten' /\ LogTimely'
  BY <1>1, <1>2 DEF RInv, RenewalsForgotten, LogTimely, Timely
<1>6. ASSUME NEW q \in Procs, q # p
      PROVE  ReplayTells(q)' /\ OpenTells(q)' /\ PendingTells(q)'
  BY <1>6, <1>1, OneOwner, <1>2 DEF ReplayTells, OpenTells, PendingTells
<1>7. ReplayTells(p)' /\ PendingTells(p)'
  BY <1>1, <1>2 DEF ReplayTells, PendingTells
<1>8. CASE ~IsGrant(e)
  <2>1. UNCHANGED <<issued, claim>>
    BY <1>8 DEF CommitAppend, Returned, IsGrant
  <2>2. ClaimsSound' /\ LogTells'
    BY <2>1, <1>2 DEF RInv, ClaimsSound, LogTells, RecordsClaim, LastIssued, Running
  <2>3. ASSUME NEW r \in Resources PROVE TableTells(p, r)'
    <3>1. CASE r = e.res
      BY <3>1, <2>1, <1>8, <1>1, <1>2, <1>4 DEF Held, Running, TableTells
    <3>2. CASE r # e.res
      BY <3>2, <1>1, <1>2, <1>4, <1>3, <2>1 DEF OpenTells, TableTells, Held, Timely, Running,
         LastIssued
    <3> QED BY <3>1, <3>2
  <2>4. OpenTells(p)'
    BY <2>3 DEF OpenTells
  <2> QED BY <2>2, <2>4, <1>5, <1>6, <1>7 DEF RInv
<1>9. CASE IsGrant(e)
  <2>1. /\ e.lease \in Lease /\ ExpiresAt(e.lease) \in Nat
        /\ log[Len(log)] = e /\ Len(log) \in 1..Len(log)
        /\ issued'[e.res] # <<>> /\ issued'[e.res][Len(issued'[e.res])] = e.lease.token
        /\ \A r \in Resources \ {e.res} :
             issued'[r] = issued[r] /\ LastIssued(r)' = LastIssued(r) /\ claim'[r] = claim[r]
        /\ claim'[e.res] =
             [term |-> ExpiresAt(e.lease), until |-> ExpiresAt(e.lease), free |-> FALSE]
    BY <1>9, GrantReturned
  <2>2. ClaimsSound'
    BY <2>1 DEF RInv, ClaimsSound
  <2>3. LogTells'
    <3> SUFFICES ASSUME NEW r \in Resources, NEW k \in 1..Len(log), RecordsClaim(log[k], r)'
                 PROVE  /\ ExpiresAt(log[k].lease) = claim'[r].term
                        /\ Running(r)' => LastOf(log, k, Len(log))
      BY <1>2 DEF LogTells
    <3>1. log'[k] = log[k]
      BY <1>2
    <3>2. CASE r = e.res
      <4>1. /\ IsGrant(log[k]) /\ log[k].res = e.res /\ log[k].lease.token = e.lease.token
            /\ log[k].lease \in Lease
        BY <3>1, <3>2, <2>1, <1>1 DEF RecordsClaim, LastIssued, LogSound, LinesSound
      <4>2. k = Len(log)
        <5> SUFFICES ASSUME k < Len(log) PROVE FALSE
          BY <1>1
        <5>1. log[k].lease.token < log[Len(log)].lease.token
          BY <4>1, <2>1, <1>1, <1>9 DEF LogSound, TokensOrdered
        <5> QED BY SMTT(40), <5>1, <4>1, <2>1, ConstantFacts DEF Lease
      <4> QED BY <4>2, <3>2, <2>1, <1>1 DEF LastOf
    <3>3. CASE r # e.res
      BY <3>1, <3>3, <2>1, <1>2 DEF RecordsClaim, Running, RInv, LogTells
    <3> QED BY <3>2, <3>3
  <2>4. ASSUME NEW r \in Resources PROVE TableTells(p, r)'
    <3>1. CASE r = e.res
      <4>1. table'[p].leases[r] = e.lease /\ Held(table'[p], r)
        BY <3>1, <2>1, <1>9, <1>1, <1>2, <1>4, ConstantFacts DEF Held
      <4>2. /\ e.lease.grantedAt <= now' /\ e.lease.ttl = TtlOf[r]
            /\ ExpiresAt(e.lease) = claim'[r].until /\ LastIssued(r)' = e.lease.token
        BY <3>1, <2>1, <1>9, <1>2, <1>4 DEF Timely, LastIssued
      <4> QED BY <4>1, <4>2 DEF TableTells, Timely
    <3>2. CASE r # e.res
      <4>1. table'[p].leases[r] = table[p].leases[r]
        BY <3>2, <1>1, <1>2, <1>4
      <4>2. TableTells(p, r)
        BY <1>1, <1>3 DEF OpenTells
      <4> QED BY <4>1, <4>2, <3>2, <2>1, <1>2 DEF TableTells, Held, Timely, Running, LastIssued
    <3> QED BY <3>1, <3>2
  <2>5. OpenTells(p)'
    BY <2>4 DEF OpenTells
  <2> QED BY <2>2, <2>3, <2>5, <1>5, <1>6, <1>7 DEF RInv
<1> QED BY <1>8, <1>9

(* What the remaining lines say, they go on saying when later ones are cut *)
(* off (wal.rs: set_len), and a claim that loses its renewals only runs    *)
(* out sooner.                                                             *)
LEMMA CutTellsStill ==
  ASSUME IInv, RInv, NEW n \in 0..Len(log), log' = SubSeq(log, 1, n),
         UNCHANGED <<now, issued>>,
         \A r \in Resources : /\ claim'[r].term = claim[r].term
                              /\ Running(r)' => Running(r)
  PROVE  LogTimely' /\ LogTells'
<1>1. log \in Seq(LogLines) /\ Len(log) \in Nat
  BY DEF IInv, TypeOK
<1>2. Len(log') = n /\ \A k \in 1..n : log'[k] = log[k]
  BY <1>1, CutLines
<1>3. LogTimely'
  BY <1>1, <1>2 DEF RInv, LogTimely, Timely
<1>4. LogTells'
  <2> SUFFICES ASSUME NEW r \in Resources, NEW k \in 1..n, RecordsClaim(log[k], r)'
               PROVE  /\ ExpiresAt(log'[k].lease) = claim'[r].term
                      /\ Running(r)' => LastOf(log', k, n)
    BY <1>2 DEF LogTells
  <2>1. RecordsClaim(log[k], r) /\ log'[k] = log[k] /\ k \in 1..Len(log)
    BY <1>1, <1>2 DEF RecordsClaim, LastIssued
  <2>2. ExpiresAt(log[k].lease) = claim[r].term /\ (Running(r) => LastOf(log, k, Len(log)))
    BY <2>1 DEF RInv, LogTells
  <2>3. LastOf(log, k, Len(log)) => LastOf(log', k, n)
    BY <1>1, <1>2 DEF LastOf
  <2> QED BY <2>1, <2>2, <2>3
<1> QED BY <1>3, <1>4

(* A rewound or a poisoned append (wal.rs: append) leaves every table as   *)
(* it was before it.                                                       *)
LEMMA FailedAppendTellsStill ==
  ASSUME IInv, RInv, NEW p \in Procs, RewindAppend(p) \/ PoisonAppend(p)
  PROVE  RInv'
<1> DEFINE n == pending[p].before
<1>1. /\ log \in Seq(LogLines) /\ Len(log) \in Nat /\ synced \in Nat
      /\ lockOwner = p /\ phase[p] = "open" /\ n \in Nat /\ n <= Len(log)
      /\ pending \in [Procs -> Appends \cup {NoAppend}]
  BY DEF IInv, TypeOK, ProcState, AppendState, RewindAppend, PoisonAppend, Appends
<1>2. /\ pending' = [pending EXCEPT ![p] = NoAppend]
      /\ UNCHANGED <<phase, cursor, table, now, issued, claim>>
      /\ log' = log \/ log' = SubSeq(log, 1, n)
  BY DEF RewindAppend, PoisonAppend, contractVars
<1>3. ClaimsSound' /\ RenewalsForgotten'
  BY <1>2 DEF RInv, ClaimsSound, RenewalsForgotten
<1>4. \A r \in Resources : Running(r)' => Running(r)
  BY <1>2 DEF Running
<1>5. LogTimely' /\ LogTells'
  <2>1. CASE log' = log
    BY <2>1, <1>2 DEF RInv, LogTimely, LogTells, Timely, RecordsClaim, LastIssued, Running
  <2>2. CASE log' = SubSeq(log, 1, n)
    <3> HIDE DEF n
    <3> QED BY <2>2, <1>1, <1>2, <1>4, CutTellsStill
  <2> QED BY <2>1, <2>2, <1>2
<1>6. ASSUME NEW q \in Procs
      PROVE  ReplayTells(q)' /\ OpenTells(q)' /\ PendingTells(q)'
  <2>1. CASE q = p
    <3>1. pending'[p] = NoAppend /\ phase'[p] = "open"
      BY <1>1, <1>2
    <3>2. OpenTells(p)'
      BY <1>2 DEF RInv, OpenTells, TableTells, Timely, LastIssued, Running
    <3> QED BY <2>1, <3>1, <3>2 DEF ReplayTells, PendingTells
  <2>2. CASE q # p
    BY <2>2, <1>1, OneOwner, <1>2 DEF ReplayTells, OpenTells, PendingTells
  <2> QED BY <2>1, <2>2
<1> QED BY <1>3, <1>5, <1>6 DEF RInv

(* What a renewal finds and leaves (lease.rs: renew): the claim of the     *)
(* table's lease, which still runs, extended.                              *)
LEMMA RenewExtends ==
  ASSUME IInv, RInv, NEW p \in Procs, NEW r \in Resources, NEW h \in Holders,
         RenewLease(p, r, h)
  PROVE  /\ now < claim[r].until /\ claim[r].until <= now + TtlOf[r]
         /\ claim' = [claim EXCEPT ![r].until = now + TtlOf[r]]
         /\ claim'[r].until = now + TtlOf[r] /\ claim'[r].term = claim[r].term
         /\ claim'[r].free = claim[r].free
         /\ \A q \in Resources \ {r} : claim'[q] = claim[q]
         /\ UNCHANGED <<log, phase, cursor, pending, now, issued>>
         /\ phase[p] = "open" /\ pending[p] = NoAppend /\ Held(table[p], r)
         /\ table[p].leases[r].token = LastIssued(r) /\ issued[r] # <<>>
<1> DEFINE l == table[p].leases[r]
<1>1. /\ claim \in [Resources -> Contract!Claims] /\ now \in Nat /\ TtlOf[r] \in Nat
      /\ table[p] \in LeaseTables
  BY ConstantFacts DEF IInv, TypeOK
<1>2. /\ phase[p] = "open" /\ pending[p] = NoAppend /\ Held(table[p], r)
      /\ l.token = LastIssued(r) /\ issued[r] # <<>> /\ ~IsExpired(l, now)
      /\ UNCHANGED <<log, phase, cursor, pending, now, issued>>
      /\ claim' = [claim EXCEPT ![r].until = now + TtlOf[r]]
  BY DEF RenewLease, Idle, CanRenew, HeldBy, LastIssued, fileVars
<1>3. ExpiresAt(l) = claim[r].until /\ Timely(l, r)
  BY <1>2 DEF RInv, OpenTells, TableTells
<1>4. l.grantedAt \in Nat
  BY <1>1, <1>2 DEF LeaseTables, Held, Lease
<1>5. now < claim[r].until /\ claim[r].until <= now + TtlOf[r]
  BY <1>1, <1>2, <1>3, <1>4 DEF IsExpired, ExpiresAt, Timely
<1>6. /\ claim'[r].until = now + TtlOf[r] /\ claim'[r].term = claim[r].term
      /\ claim'[r].free = claim[r].free
      /\ \A q \in Resources \ {r} : claim'[q] = claim[q]
  BY <1>1, <1>2 DEF Contract!Claims
<1> QED BY <1>2, <1>5, <1>6

(* A renewal tells its holder what the table says.                         *)
LEMMA RenewTellsStill ==
  ASSUME IInv, RInv, NEW p \in Procs, NEW r \in Resources, NEW h \in Holders,
         RenewLease(p, r, h)
  PROVE  RInv'
<1> DEFINE l == table[p].leases[r]
<1>1. /\ now < claim[r].until /\ claim[r].until <= now + TtlOf[r]
      /\ claim'[r].until = now + TtlOf[r] /\ claim'[r].term = claim[r].term
      /\ claim'[r].free = claim[r].free
      /\ \A q \in Resources \ {r} : claim'[q] = claim[q]
      /\ UNCHANGED <<log, phase, cursor, pending, now, issued>>
      /\ phase[p] = "open" /\ pending[p] = NoAppend /\ Held(table[p], r)
      /\ l.token = LastIssued(r) /\ issued[r] # <<>>
  BY RenewExtends
<1>2. /\ table[p] \in LeaseTables /\ now \in Nat /\ TtlOf[r] \in Nat /\ l \in Lease
      /\ table \in [Procs -> LeaseTables] /\ lockOwner = p /\ claim[r].until \in Nat
      /\ claim[r].term \in Nat
  BY <1>1, ConstantFacts, SMTT(30) DEF IInv, TypeOK, LeaseTables, Held, Contract!Claims
<1>3. /\ table' = [table EXCEPT ![p] = Renew(table[p], r, now)]
  BY DEF RenewLease
<1>4. /\ Renew(table[p], r, now).leases = [table[p].leases EXCEPT ![r] = RenewedLease(l, r, now)]
      /\ RenewedLease(l, r, now) \in Lease
      /\ RenewedLease(l, r, now).token = l.token
      /\ RenewedLease(l, r, now).grantedAt = now
      /\ RenewedLease(l, r, now).ttl = TtlOf[r]
  BY <1>2, ConstantFacts DEF Renew, RenewedLease, LeaseTables, Lease
<1>5. /\ table'[p].leases[r] = RenewedLease(l, r, now) /\ Held(table'[p], r)
      /\ \A q \in Resources \ {r} : table'[p].leases[q] = table[p].leases[q]
  BY <1>2, <1>3, <1>4, ConstantFacts DEF Held, LeaseTables
<1>6. \A q \in Resources : Running(q)' => Running(q)
  BY <1>1 DEF Running
<1>7. ClaimsSound'
  BY <1>1, <1>2 DEF RInv, ClaimsSound
<1>8. RenewalsForgotten' /\ LogTimely'
  BY <1>1 DEF RInv, RenewalsForgotten, LogTimely, Timely
<1>9. LogTells'
  <2> SUFFICES ASSUME NEW q \in Resources, NEW k \in 1..Len(log), RecordsClaim(log[k], q)'
               PROVE  /\ ExpiresAt(log[k].lease) = claim'[q].term
                      /\ Running(q)' => LastOf(log, k, Len(log))
    BY <1>1 DEF LogTells
  <2>1. RecordsClaim(log[k], q) /\ claim'[q].term = claim[q].term
    BY <1>1 DEF RecordsClaim, LastIssued
  <2> QED BY <2>1, <1>6 DEF RInv, LogTells
<1>10. OpenTells(p)'
  <2> SUFFICES ASSUME NEW q \in Resources PROVE TableTells(p, q)'
    BY DEF OpenTells
  <2>1. CASE q = r
    BY <1>1, <1>4, <1>5, <1>2, <2>1 DEF ExpiresAt, LastIssued, TableTells, Timely
  <2>2. CASE q # r
    BY <1>1, <2>2, <1>5 DEF RInv, OpenTells, TableTells, Held, Timely, LastIssued, Running
  <2> QED BY <2>1, <2>2
<1>11. ASSUME NEW q \in Procs
       PROVE  ReplayTells(q)' /\ OpenTells(q)' /\ PendingTells(q)'
  <2>1. CASE q = p
    BY <2>1, <1>1, <1>10 DEF ReplayTells, PendingTells
  <2>2. CASE q # p
    BY <2>2, <1>2, OneOwner, <1>1 DEF ReplayTells, OpenTells, PendingTells
  <2> QED BY <2>1, <2>2
<1> QED BY <1>7, <1>8, <1>9, <1>11 DEF RInv

(* A crash forgets renewals (durable.rs: "renewals are not journaled"), so *)
(* a claim may stop running and none starts to.                            *)
LEMMA ForgetShortens ==
  ASSUME IInv, RInv, NEW dead, Forget(dead)
  PROVE  /\ \A r \in Resources : /\ claim'[r].term = claim[r].term
                                 /\ claim'[r].until = claim[r].term
                                 /\ claim'[r].free = claim[r].free
                                 /\ Running(r)' => Running(r)
         /\ UNCHANGED <<now, issued>>
<1>1. claim \in [Resources -> Contract!Claims] /\ now \in Nat /\ UNCHANGED <<now, issued>>
  BY DEF IInv, TypeOK, Forget
<1>2. \A r \in Resources : /\ claim'[r].term = claim[r].term
                           /\ claim'[r].until = claim[r].term
                           /\ claim'[r].free = claim[r].free
  BY <1>1 DEF Forget, Contract!Claims
<1>3. \A r \in Resources : claim[r].term \in Nat /\ claim[r].until \in Nat
  BY <1>1 DEF Contract!Claims
<1>4. \A r \in Resources : claim[r].term <= claim[r].until
  BY DEF RInv, ClaimsSound
<1>5. \A r \in Resources : Running(r)' => Running(r)
  BY <1>1, <1>2, <1>3, <1>4 DEF Running
<1> QED BY <1>1, <1>2, <1>5

(* A crash leaves the holders with what they were told.                    *)
LEMMA CrashTellsStill ==
  ASSUME IInv, RInv, (\E p \in Procs : ProcessDown(p)) \/ PowerLoss
  PROVE  RInv'
<1>1. PICK dead \in SUBSET Procs : /\ Forget(dead) /\ lockOwner \in dead
  BY DEF ProcessDown, PowerLoss, IInv, TypeOK
<1>2. PICK n \in 0..Len(log) : log' = SubSeq(log, 1, n)
  <2>1. log \in Seq(LogLines) /\ Len(log) \in Nat /\ synced \in 0..Len(log)
    BY DEF IInv, TypeOK
  <2>2. log = SubSeq(log, 1, Len(log))
    BY <2>1
  <2>3. ASSUME PowerLoss PROVE \E n \in 0..Len(log) : log' = SubSeq(log, 1, n)
    <3>1. PICK kept \in synced..Len(log) : log' = SubSeq(log, 1, kept)
      BY <2>3 DEF PowerLoss
    <3>2. kept \in 0..Len(log)
      BY <2>1
    <3> QED BY <3>1, <3>2
  <2>4. ASSUME NEW p \in Procs, ProcessDown(p) PROVE log' = SubSeq(log, 1, Len(log))
    BY <2>2, <2>4 DEF ProcessDown, fileVars
  <2> QED BY <2>1, <2>3, <2>4
<1>3. /\ \A r \in Resources : /\ claim'[r].term = claim[r].term
                              /\ claim'[r].until = claim[r].term
                              /\ claim'[r].free = claim[r].free
                              /\ Running(r)' => Running(r)
      /\ UNCHANGED <<now, issued>>
  BY <1>1, ForgetShortens
<1>4. LogTimely' /\ LogTells'
  BY <1>2, <1>3, CutTellsStill
<1>5. ClaimsSound' /\ RenewalsForgotten'
  BY <1>3 DEF IInv, TypeOK, Contract!Claims, RInv, ClaimsSound, RenewalsForgotten
<1>6. \A q \in Procs : phase'[q] \in {"down", "refused"} /\ pending'[q] = NoAppend
  <2> SUFFICES ASSUME NEW q \in Procs
               PROVE  phase'[q] \in {"down", "refused"} /\ pending'[q] = NoAppend
    OBVIOUS
  <2>1. CASE q = lockOwner
    BY <2>1, <1>1 DEF Forget
  <2>2. CASE q # lockOwner
    BY <2>2, <1>1 DEF IInv, TypeOK, Phases, ProcState, AbsentState, Forget
  <2> QED BY <2>1, <2>2
<1> QED BY <1>4, <1>5, <1>6 DEF RInv, ReplayTells, OpenTells, PendingTells

(* As time passes leases run out, and none comes back.                     *)
LEMMA TickTellsStill ==
  ASSUME IInv, RInv, Tick \/ UNCHANGED vars
  PROVE  RInv'
<1>1. UNCHANGED <<log, phase, cursor, table, pending, issued, claim>>
  BY DEF Tick, vars, fileVars, procVars
<1>2. now \in Nat /\ now' \in Nat /\ now <= now' /\ claim \in [Resources -> Contract!Claims]
  BY DEF IInv, TypeOK, Tick, vars
<1>3. \A r \in Resources : Running(r)' => Running(r)
  BY <1>1, <1>2 DEF Running, Contract!Claims
<1>4. ClaimsSound' /\ RenewalsForgotten'
  BY <1>1 DEF RInv, ClaimsSound, RenewalsForgotten
<1>5. LogTimely'
  <2> SUFFICES ASSUME NEW k \in 1..Len(log), IsGrant(log[k])
               PROVE  Timely(log[k].lease, log[k].res)'
    BY <1>1 DEF LogTimely
  <2>1. Timely(log[k].lease, log[k].res) /\ log[k].lease.grantedAt \in Nat
    BY DEF RInv, LogTimely, IInv, LogSound, LinesSound, Lease
  <2> QED BY <2>1, <1>1, <1>2 DEF Timely
<1>6. LogTells'
  BY <1>1, <1>3 DEF RInv, LogTells, RecordsClaim, LastIssued
<1>7. ASSUME NEW q \in Procs
      PROVE  ReplayTells(q)' /\ OpenTells(q)' /\ PendingTells(q)'
  <2>1. ReplayTells(q)'
    BY <1>1 DEF RInv, ReplayTells
  <2>2. OpenTells(q)'
    <3> SUFFICES ASSUME NEW r \in Resources, phase[q] = "open" PROVE TableTells(q, r)'
      BY <1>1 DEF OpenTells
    <3>1. TableTells(q, r)
      BY DEF RInv, OpenTells
    <3>2. Held(table[q], r) => table[q].leases[r].grantedAt \in Nat
      BY DEF IInv, TypeOK, LeaseTables, Held, Lease
    <3>3. Held(table[q], r) => Timely(table[q].leases[r], r)'
      BY <3>1, <3>2, <1>1, <1>2 DEF TableTells, Timely
    <3> QED BY <3>1, <3>3, <1>1, <1>3 DEF TableTells, LastIssued
  <2>3. PendingTells(q)'
    <3> SUFFICES ASSUME pending[q] # NoAppend PROVE PendingTells(q)'
      BY <1>1 DEF PendingTells
    <3> DEFINE e == pending[q].event
    <3>1. /\ e.res \in Resources /\ PendingTells(q)
          /\ IsGrant(e) => e.lease.grantedAt \in Nat
      BY DEF RInv, IInv, TypeOK, ProcState, AppendState, Appends, LeaseEvents, Lease
    <3>2. \A r \in Resources : ~Running(r) => ~Running(r)'
      BY <1>3
    <3>3. PICK r \in Resources : r = e.res
      BY <3>1
    <3>4. ~Running(r)'
      BY <3>1, <3>2, <3>3 DEF PendingTells
    <3> QED BY <3>1, <3>3, <3>4, <1>1, <1>2 DEF PendingTells, Timely, Running
  <2> QED BY <2>1, <2>2, <2>3
<1> QED BY <1>4, <1>5, <1>6, <1>7 DEF RInv

(* Each action keeps the strengthening, so every step does.                *)
LEMMA NextRInv == IInv /\ RInv /\ [Next]_vars => RInv'
<1> SUFFICES ASSUME IInv, RInv, [Next]_vars PROVE RInv'
  OBVIOUS
<1>1. ASSUME NEW p \in Procs,
             \/ OpenWal(p) \/ ReplayLine(p) \/ ReplayDone(p)
             \/ CommitAppend(p) \/ RewindAppend(p) \/ PoisonAppend(p)
      PROVE  RInv'
  BY <1>1, OpenTellsStill, ReplayLineTellsStill, ReplayDoneTellsStill,
     CommitTellsStill, FailedAppendTellsStill
<1>2. ASSUME NEW p \in Procs, NEW r \in Resources, NEW h \in Holders,
             StageAcquire(p, r, h) \/ StageRelease(p, r, h) \/ RenewLease(p, r, h)
      PROVE  RInv'
  BY <1>2, StageAcquireTellsStill, StageReleaseTellsStill, RenewTellsStill
<1>3. CASE PowerLoss \/ \E p \in Procs : ProcessDown(p)
  BY <1>3, CrashTellsStill
<1>4. CASE Tick \/ UNCHANGED vars
  BY <1>4, TickTellsStill
<1> QED BY <1>1, <1>2, <1>3, <1>4 DEF Next

-----------------------------------------------------------------------------
(* What the steps mean to the contract.                                    *)

(* A committed grant is a grant of the contract: its token is new, and the *)
(* claim before it was over when it was staged and is over still.          *)
LEMMA CommitGrants ==
  ASSUME IInv, RInv, NEW p \in Procs, CommitAppend(p)
  PROVE  \/ \E r \in Resources : Contract!GrantStep(r)
         \/ UNCHANGED contractVars
<1> DEFINE e == pending[p].event
<1>1. CASE ~IsGrant(e)
  BY <1>1 DEF CommitAppend, Returned, IsGrant, contractVars
<1>2. CASE IsGrant(e)
  <2>1. /\ e.res \in Resources /\ e.lease \in Lease /\ ExpiresAt(e.lease) \in Nat
        /\ issued' = [issued EXCEPT ![e.res] = Append(@, e.lease.token)]
        /\ claim' = [claim EXCEPT ![e.res] =
             [term |-> ExpiresAt(e.lease), until |-> ExpiresAt(e.lease), free |-> FALSE]]
    BY <1>2, GrantReturned
  <2>2. PICK r \in Resources : r = e.res
    BY <2>1
  <2>3. /\ issued \in [Resources -> Seq(1..MaxToken)] /\ now \in 0..MaxNow
        /\ claim \in [Resources -> Contract!Claims] /\ MaxNow \in Nat /\ MaxTtl \in Nat
        /\ now' = now
    BY DurableConstants, ConstantFacts DEF IInv, TypeOK, CommitAppend
  <2>4. e.lease.token \in 1..MaxToken /\ e.lease.grantedAt \in Nat /\ e.lease.ttl \in 1..MaxTtl
    BY <2>1 DEF Lease
  <2>5. PendingTells(p) /\ pending[p] # NoAppend
    BY DEF RInv, CommitAppend
  <2>6. ExpiresAt(e.lease) \in 0..(MaxNow + MaxTtl)
    <3>1. e.lease.grantedAt <= now
      BY <1>2, <2>5 DEF PendingTells, Timely
    <3> HIDE DEF e
    <3> QED BY SMTT(40), <3>1, <2>3, <2>4 DEF ExpiresAt
  <2>7. \A i \in 1..Len(issued[r]) : issued[r][i] < e.lease.token
    <3> SUFFICES ASSUME NEW i \in 1..Len(issued[r]) PROVE issued[r][i] < e.lease.token
      OBVIOUS
    <3>1. PICK k \in 1..synced : /\ IsGrant(log[k]) /\ log[k].res = r
                                 /\ log[k].lease.token = issued[r][i]
      BY IssuedIsLogged
    <3>a. /\ log[Len(log)] = e /\ Len(log) = pending[p].before + 1
          /\ pending[p].before \in Nat /\ synced \in 0..pending[p].before
      BY DEF IInv, TypeOK, ProcState, AppendState, CommitAppend, Appends
    <3>2. /\ Len(log) \in 1..Len(log) /\ log[Len(log)] = e /\ k \in 1..Len(log) /\ k < Len(log)
      <4> HIDE DEF e
      <4> QED BY <3>a
    <3>3. log[k].lease.token < log[Len(log)].lease.token
      BY <1>2, <2>2, <3>1, <3>2 DEF IInv, LogSound, TokensOrdered
    <3> QED BY <3>1, <3>2, <3>3
  <2>8. claim[r].free \/ now >= claim[r].until
    BY <2>2, <2>5, <2>3 DEF PendingTells, RInv, ClaimsSound, Running, Contract!Claims
  <2> HIDE DEF e
  <2>9. /\ issued' = [issued EXCEPT ![r] = Append(@, e.lease.token)]
        /\ claim' = [claim EXCEPT ![r] =
             [term |-> ExpiresAt(e.lease), until |-> ExpiresAt(e.lease), free |-> FALSE]]
    BY <2>1, <2>2
  <2>10. Contract!GrantStep(r)
    BY <2>3, <2>4, <2>6, <2>7, <2>8, <2>9 DEF Contract!GrantStep
  <2> QED BY <2>10
<1> QED BY <1>1, <1>2

(* A renewal is a renewal of the contract: the claim it extends still runs.*)
LEMMA RenewRenews ==
  ASSUME IInv, RInv, NEW p \in Procs, NEW r \in Resources, NEW h \in Holders,
         RenewLease(p, r, h)
  PROVE  Contract!RenewStep(r)
<1>1. /\ now < claim[r].until /\ claim[r].until <= now + TtlOf[r]
      /\ claim' = [claim EXCEPT ![r].until = now + TtlOf[r]]
      /\ UNCHANGED <<now, issued>>
  BY RenewExtends
<1>2. now + TtlOf[r] \in 0..(MaxNow + MaxTtl)
  BY SMTT(40), ConstantFacts, DurableConstants DEF IInv, TypeOK
<1> QED BY <1>1, <1>2 DEF Contract!RenewStep

(* The steps of one process, of a crash and of the clock, in the           *)
(* contract's terms.                                                       *)
LEMMA StepImplements ==
  IInv /\ RInv /\ [Next]_vars => [Contract!ContractNext]_(Contract!contractVars)
<1> SUFFICES ASSUME IInv, RInv, [Next]_vars
             PROVE  Contract!ContractNext \/ UNCHANGED contractVars
  BY DEF contractVars, Contract!contractVars
<1>1. ASSUME NEW p \in Procs, CommitAppend(p)
      PROVE  Contract!ContractNext \/ UNCHANGED contractVars
  BY <1>1, CommitGrants DEF Contract!ContractNext
<1>2. ASSUME NEW p \in Procs,
             \/ OpenWal(p) \/ ReplayLine(p) \/ ReplayDone(p)
             \/ RewindAppend(p) \/ PoisonAppend(p)
      PROVE  UNCHANGED contractVars
  BY <1>2 DEF OpenWal, ReplayLine, AcceptLine, RefuseLine, ReplayDone, RewindAppend,
     PoisonAppend, contractVars
<1>3. ASSUME NEW p \in Procs, NEW r \in Resources, NEW h \in Holders,
             StageAcquire(p, r, h) \/ StageRelease(p, r, h) \/ RenewLease(p, r, h)
      PROVE  Contract!ContractNext \/ UNCHANGED contractVars
  BY RenewRenews, <1>3 DEF StageAcquire, StageRelease, Contract!RelinquishStep,
     Contract!ContractNext
<1>4. CASE PowerLoss \/ \E p \in Procs : ProcessDown(p)
  BY <1>4 DEF PowerLoss, ProcessDown, Forget, Contract!ForgetRenewals, Contract!ContractNext
<1>5. CASE Tick
  BY <1>5 DEF Tick, IInv, TypeOK, Contract!TimePasses, Contract!ContractNext
<1>6. CASE UNCHANGED vars
  BY <1>6 DEF vars, contractVars
<1> QED BY <1>1, <1>2, <1>3, <1>4, <1>5, <1>6 DEF Next

(* A claim that still runs is the lease of the one open table and the last *)
(* word of the log on its resource (durable.rs, wal.rs), in every          *)
(* reachable state.                                                        *)
THEOREM ClaimsAreTold == Spec => []RInv
<1>1. Init => RInv
  BY InitRInv
<1>2. IInv /\ RInv /\ [Next]_vars => RInv'
  BY NextRInv
<1> QED BY <1>1, <1>2, Invariance, PTL DEF Spec

(* The lease table keeps the contract its callers rely on (durable.rs):    *)
(* tokens increase, and nobody is granted a resource while the latest      *)
(* grant of it runs, up to its renewed expiry or, after a crash, up to its *)
(* durable one.                                                            *)
THEOREM LeasesImplementContract == Spec => ImplementsContract
<1>1. Init => Contract!ContractInit
  BY DEF Init
<1>2. IInv /\ RInv /\ [Next]_vars => [Contract!ContractNext]_(Contract!contractVars)
  BY StepImplements
<1> QED
  BY <1>1, <1>2, Invariance, ClaimsAreTold, PTL
     DEF Spec, ImplementsContract, Contract!ContractSpec

-----------------------------------------------------------------------------
(***************************************************************************)
(* The record of the running daemon (Pidfile).  Two processes that live    *)
(* never have the same pid, and only the daemon that has the port is       *)
(* recorded; pids never change, so a record says the truth for ever of the *)
(* process it was written for.  What a command knows of the process in its *)
(* hand grows with each check: its pid is the one of the record, then it   *)
(* is the recorded one or dead.  Only a record of the dead is called gone. *)
(***************************************************************************)
ProcessStates ==
  {"booting", "bound", "serving", "signalled", "closing", "removing", "stranger", "dead"}
KnownPids == Pids \cup {NoRecord.pid}
Process == [pid : KnownPids, is : {"none", "daemon", "stranger"}, at : ProcessStates]
PidRecord == [proc : Nat, pid : KnownPids, boot : Nat]
PidCommand ==
  [at : {"idle", "read", "open", "confirm", "ours", "waiting", "gone"}, stops : BOOLEAN, rec : PidRecord,
   fd : Nat]

PidfileTyped ==
  /\ os \in PidfileConfigs /\ started \in 0..os.procs
  /\ procs \in [1..os.procs -> Process]
  /\ port \in 0..started /\ boot \in Nat
  /\ pidfile \in PidRecord
  /\ stopper \in [Stoppers -> PidCommand]

(* A pid is one living process, and the port is one daemon's.              *)
PidsApart ==
  \A m, n \in 1..started : Alive(m) /\ Alive(n) /\ procs[m].pid = procs[n].pid => m = n
OnePort ==
  \A n \in 1..started : procs[n].at \in {"bound", "serving", "signalled"} => port = n

(* A record is of a process that had its pid, and that ran in its boot.    *)
RecordTrue(rec, ps, last, b) ==
  rec.proc # 0 => /\ rec.proc \in 1..last /\ ps[rec.proc].pid = rec.pid
                  /\ rec.boot # b => ps[rec.proc].at = "dead"

(* What a command knows of the process it has in hand, at each step: while *)
(* that process lives it has the pid of the record, then it is the one of  *)
(* the record; and a record is stale when its own process is dead.         *)
CommandTrue(c, ps, last, b) ==
  /\ RecordTrue(c.rec, ps, last, b) /\ c.fd \in 0..last
  /\ c.at # "idle" => c.rec.proc # 0
  /\ c.at \in {"confirm", "ours"} => c.fd # 0
  /\ c.at = "confirm" => ps[c.fd].pid = c.rec.pid
  /\ c.at = "ours" => ps[c.fd].at = "dead" \/ c.fd = c.rec.proc
  /\ c.at = "waiting" => c.fd = c.rec.proc
  /\ c.at = "gone" => ps[c.rec.proc].at = "dead"

PidfileIInv ==
  /\ PidfileTyped /\ PidsApart /\ OnePort /\ RecordTrue(pidfile, procs, started, boot)
  /\ \A s \in Stoppers : CommandTrue(stopper[s], procs, started, boot)
  /\ NoStrangerSignalled /\ ServingIsRecorded

-----------------------------------------------------------------------------
(* Processes keep their pids, and the dead stay dead.                      *)
Older(ps, qs, last) ==
  \A n \in 1..last : qs[n].pid = ps[n].pid /\ (ps[n].at = "dead" => qs[n].at = "dead")

(* A true record stays true.                                               *)
LEMMA RecordAges ==
  ASSUME NEW rec, NEW ps, NEW qs, NEW last \in Nat, NEW next \in Nat, last <= next, NEW b,
         RecordTrue(rec, ps, last, b), Older(ps, qs, last)
  PROVE  RecordTrue(rec, qs, next, b)
BY DEF RecordTrue, Older

(* What a command knows stays true.                                        *)
LEMMA CommandAges ==
  ASSUME NEW c, NEW ps, NEW qs, NEW last \in Nat, NEW next \in Nat, last <= next, NEW b,
         CommandTrue(c, ps, last, b), Older(ps, qs, last)
  PROVE  CommandTrue(c, qs, next, b)
<1>1. RecordTrue(c.rec, qs, next, b)
  BY RecordAges DEF CommandTrue
<1>2. c.fd \in 0..last /\ c.fd \in 0..next /\ (c.rec.proc # 0 => c.rec.proc \in 1..last)
  BY DEF CommandTrue, RecordTrue
<1>3. c.fd # 0 => c.fd \in 1..last
  BY <1>2
<1> QED BY <1>1, <1>2, <1>3 DEF CommandTrue, Older

(* The types of what the steps read.                                       *)
LEMMA PidfileTypes ==
  ASSUME PidfileIInv
  PROVE  /\ os.procs \in Nat /\ started \in 0..os.procs /\ started \in Nat /\ boot \in Nat
         /\ \A n \in 1..started : n \in 1..os.procs /\ n # 0 /\ procs[n] \in Process /\ (Alive(n) <=> procs[n].at # "dead")
         /\ \A s \in Stoppers : stopper[s] \in PidCommand
<1>1. os.procs \in Nat
  BY PidfileAssumption DEF PidfileIInv, PidfileTyped
<1>2. started \in 0..os.procs /\ started \in Nat
  BY <1>1 DEF PidfileIInv, PidfileTyped
<1>3. \A n \in 1..started : n \in 1..os.procs /\ n # 0
  BY <1>1, <1>2
<1> QED BY <1>1, <1>2, <1>3 DEF PidfileIInv, PidfileTyped, Alive

(* One process goes on to its next state, alive or not.                    *)
LEMMA ProcessMoves ==
  ASSUME PidfileIInv, NEW n \in 1..started, NEW a \in ProcessStates, procs[n].at # "dead",
         procs' = [procs EXCEPT ![n].at = a]
  PROVE  /\ procs' \in [1..os.procs -> Process] /\ Older(procs, procs', started)
         /\ procs'[n].at = a /\ procs'[n].pid = procs[n].pid
         /\ \A m \in 1..started : m # n => procs'[m] = procs[m]
         /\ \A k, m \in 1..started :
              procs'[k].at # "dead" /\ procs'[m].at # "dead" /\ procs'[k].pid = procs'[m].pid => k = m
<1>1. n \in 1..os.procs /\ procs \in [1..os.procs -> Process] /\ \A m \in 1..started : m \in 1..os.procs
  BY PidfileTypes DEF PidfileIInv, PidfileTyped
<1>2. PICK p \in Process : p = procs[n]
  BY <1>1
<1>3. PICK q \in Process : q = [p EXCEPT !.at = a]
  BY DEF Process
<1>4. q.at = a /\ q.pid = p.pid
  BY <1>3 DEF Process
<1>5. procs' = [procs EXCEPT ![n] = q]
  BY <1>1, <1>2, <1>3
<1>6. /\ procs' \in [1..os.procs -> Process] /\ procs'[n] = q
      /\ \A m \in 1..started : m # n => procs'[m] = procs[m]
  BY <1>1, <1>5
<1>7. Older(procs, procs', started)
  BY <1>2, <1>4, <1>6 DEF Older
<1>8. ASSUME NEW k \in 1..started, NEW m \in 1..started, procs'[k].at # "dead", procs'[m].at # "dead",
             procs'[k].pid = procs'[m].pid
      PROVE  k = m
  BY <1>7, <1>8, PidfileTypes DEF Older, PidfileIInv, PidsApart
<1> QED BY <1>2, <1>4, <1>6, <1>7, <1>8

(* The invariant after a step of a process that leaves the commands alone, *)
(* but for what it does to the port and the record.                        *)
LEMMA ProcessKeeps ==
  ASSUME PidfileIInv, NEW n \in 1..started, NEW a \in ProcessStates, procs[n].at # "dead",
         procs' = [procs EXCEPT ![n].at = a], UNCHANGED <<os, started, boot, stopper, hit>>,
         port' \in 0..started, pidfile' \in PidRecord, RecordTrue(pidfile', procs', started, boot),
         OnePort', ServingIsRecorded'
  PROVE  PidfileIInv'
<1>1. /\ procs' \in [1..os.procs -> Process] /\ Older(procs, procs', started)
      /\ \A k, m \in 1..started :
           procs'[k].at # "dead" /\ procs'[m].at # "dead" /\ procs'[k].pid = procs'[m].pid => k = m
  BY ProcessMoves
<1>2. PidfileTyped'
  BY <1>1 DEF PidfileIInv, PidfileTyped
<1>3. PidsApart'
  BY <1>1 DEF PidsApart, Alive
<1>4. ASSUME NEW s \in Stoppers PROVE CommandTrue(stopper[s], procs', started, boot)
  BY PidfileTypes, <1>1, CommandAges DEF PidfileIInv
<1>5. NoStrangerSignalled'
  BY DEF PidfileIInv, NoStrangerSignalled
<1> QED BY <1>2, <1>3, <1>4, <1>5 DEF PidfileIInv

(* No process has come to serve, and the record is as it was.              *)
LEMMA RecordedStill ==
  ASSUME PidfileIInv, NEW n \in 1..started, NEW a \in ProcessStates \ {"serving"}, procs[n].at # "dead",
         procs' = [procs EXCEPT ![n].at = a], UNCHANGED <<started, pidfile, erased>>
  PROVE  ServingIsRecorded' /\ RecordTrue(pidfile', procs', started, boot)
<1>1. /\ Older(procs, procs', started) /\ procs'[n].at = a
      /\ \A m \in 1..started : m # n => procs'[m] = procs[m]
  BY ProcessMoves
<1>2. ServingIsRecorded'
  BY <1>1 DEF PidfileIInv, ServingIsRecorded
<1>3. RecordTrue(pidfile, procs, started, boot) /\ started \in Nat /\ started <= started
  BY PidfileTypes DEF PidfileIInv
<1>4. RecordTrue(pidfile, procs', started, boot)
  BY <1>1, <1>3, RecordAges
<1> QED BY <1>2, <1>4

(* The first state: nothing runs, and there is no record.                  *)
LEMMA PidfileStarts == ASSUME PidfileInit PROVE PidfileIInv
<1>1. os.procs \in Nat
  BY PidfileAssumption DEF PidfileInit
<1>2. Unborn \in Process /\ NoRecord \in PidRecord
  BY DEF Unborn, NoRecord, Process, PidRecord, KnownPids, ProcessStates
<1>3. NoCommand \in PidCommand
  BY <1>2 DEF NoCommand, PidCommand
<1>4. PidfileTyped
  BY <1>1, <1>2, <1>3 DEF PidfileInit, PidfileTyped
<1>5. 1..started = {}
  BY DEF PidfileInit
<1>6. \A ps, last, b : RecordTrue(NoRecord, ps, last, b)
  BY DEF RecordTrue, NoRecord
<1>7. \A ps : CommandTrue(NoCommand, ps, 0, 1)
  BY <1>6 DEF CommandTrue, NoCommand
<1> QED
  BY <1>4, <1>5, <1>6, <1>7
  DEF PidfileInit, PidfileIInv, PidsApart, OnePort, NoStrangerSignalled, ServingIsRecorded

(* A command that is over knows nothing.                                   *)
LEMMA NoCommandIsTrue ==
  /\ NoCommand \in PidCommand
  /\ \A ps, b : \A last \in Nat : CommandTrue(NoCommand, ps, last, b)
<1>1. NoRecord \in PidRecord
  BY DEF NoRecord, PidRecord, KnownPids
<1> QED BY <1>1 DEF NoCommand, PidCommand, CommandTrue, RecordTrue, NoRecord

(* A process starts on a pid nobody has.                                   *)
LEMMA StartKeeps ==
  ASSUME PidfileIInv, NEW pid \in Pids, NEW what \in {"daemon", "stranger"}, ProcessStarts(pid, what)
  PROVE  PidfileIInv'
<1> DEFINE new == [pid |-> pid, is |-> what, at |-> IF what = "daemon" THEN "booting" ELSE "stranger"]
<1>1. os.procs \in Nat /\ started \in Nat /\ started < os.procs /\ procs \in [1..os.procs -> Process]
  BY PidfileTypes DEF ProcessStarts, PidfileIInv, PidfileTyped
<1>2. PICK m \in Nat : m = started + 1
  BY <1>1
<1>3. m \in 1..os.procs /\ started < m /\ \A n \in 1..m : n \in 1..started \/ n = m
  BY <1>1, <1>2
<1>4. PICK q \in Process : q = new
  <2>1. (IF what = "daemon" THEN "booting" ELSE "stranger") \in ProcessStates /\ pid \in KnownPids
    BY DEF KnownPids, ProcessStates
  <2>2. what \in {"none", "daemon", "stranger"}
    OBVIOUS
  <2>3. new \in Process
    BY <2>1, <2>2 DEF Process
  <2> QED BY <2>3
<1>5. q.pid = pid /\ q.at \in {"booting", "stranger"}
  BY <1>4
<1>6. /\ procs' = [procs EXCEPT ![m] = q] /\ started' = m /\ Holder(pid) = {}
      /\ UNCHANGED <<os, port, pidfile, boot, stopper, erased, hit>>
  BY <1>2, <1>4 DEF ProcessStarts
<1>7. /\ procs' \in [1..os.procs -> Process] /\ procs'[m] = q
      /\ \A n \in 1..started : procs'[n] = procs[n]
  BY <1>1, <1>2, <1>3, <1>6
<1>8. Older(procs, procs', started)
  BY <1>7 DEF Older
<1>9. PidfileTyped'
  BY <1>3, <1>6, <1>1, <1>7 DEF PidfileIInv, PidfileTyped
<1>10. PidsApart'
  <2>1. ASSUME NEW k \in 1..m, NEW n \in 1..m, Alive(k)', Alive(n)', procs'[k].pid = procs'[n].pid
        PROVE  k = n
    BY <1>6, PidfileTypes, <2>1, <1>7, <1>5, <1>3 DEF Holder, Alive, PidfileIInv, PidsApart
  <2> QED BY <2>1, <1>6 DEF PidsApart
<1>11. OnePort' /\ ServingIsRecorded'
  BY <1>3, <1>5, <1>6, <1>7 DEF PidfileIInv, OnePort, ServingIsRecorded
<1>12. RecordTrue(pidfile, procs', m, boot)
  BY <1>1, <1>3, <1>8, RecordAges DEF PidfileIInv
<1>13. ASSUME NEW s \in Stoppers PROVE CommandTrue(stopper[s], procs', m, boot)
  BY <1>1, <1>3, <1>8, CommandAges DEF PidfileIInv
<1>14. NoStrangerSignalled'
  BY <1>6 DEF PidfileIInv, NoStrangerSignalled
<1> QED BY <1>6, <1>9, <1>10, <1>11, <1>12, <1>13, <1>14 DEF PidfileIInv

(* A daemon takes the port, or goes without it.                            *)
LEMMA BindKeeps ==
  ASSUME PidfileIInv, NEW n \in 1..started, Binds(n)
  PROVE  PidfileIInv'
<1>1. /\ UNCHANGED <<os, started, pidfile, boot, stopper, erased, hit>> /\ procs[n].at = "booting"
      /\ procs[n].at # "dead" /\ pidfile' \in PidRecord /\ started \in Nat
  BY PidfileTypes DEF Binds, Steps, commands, PidfileIInv, PidfileTyped
<1>2. ASSUME port = 0 PROVE PidfileIInv'
  <2>1. procs' = [procs EXCEPT ![n].at = "bound"] /\ port' = n
    BY <1>2 DEF Binds, Steps
  <2>2. "bound" \in ProcessStates /\ "bound" \in ProcessStates \ {"serving"} /\ port' \in 0..started
    BY <1>1, <2>1 DEF ProcessStates
  <2>3. ServingIsRecorded' /\ RecordTrue(pidfile', procs', started, boot)
    BY <1>1, <2>1, <2>2, RecordedStill
  <2>4. OnePort'
    BY <1>1, <2>1, <2>2, ProcessMoves, <1>2, PidfileTypes DEF PidfileIInv, OnePort
  <2> QED BY <1>1, <2>1, <2>2, <2>3, <2>4, ProcessKeeps
<1>3. ASSUME port # 0 PROVE PidfileIInv'
  <2>1. procs' = [procs EXCEPT ![n].at = "dead"] /\ port' = port
    BY <1>3 DEF Binds, Steps
  <2>2. "dead" \in ProcessStates /\ "dead" \in ProcessStates \ {"serving"} /\ port' \in 0..started
    BY <2>1 DEF ProcessStates, PidfileIInv, PidfileTyped
  <2>3. ServingIsRecorded' /\ RecordTrue(pidfile', procs', started, boot)
    BY <1>1, <2>1, <2>2, RecordedStill
  <2>4. OnePort'
    BY <1>1, <2>1, <2>2, ProcessMoves DEF PidfileIInv, OnePort
  <2> QED BY <1>1, <2>1, <2>2, <2>3, <2>4, ProcessKeeps
<1> QED BY <1>2, <1>3

(* The daemon with the port puts its own record in the file.               *)
LEMMA RecordKeeps ==
  ASSUME PidfileIInv, NEW n \in 1..started, WritesRecord(n)
  PROVE  PidfileIInv'
<1>1. /\ UNCHANGED <<os, started, port, boot, stopper, hit>> /\ procs[n].at = "bound" /\ procs[n].at # "dead"
      /\ procs' = [procs EXCEPT ![n].at = "serving"]
      /\ pidfile' = [proc |-> n, pid |-> procs[n].pid, boot |-> boot] /\ erased' = erased \ {n}
  BY DEF WritesRecord, Steps, commands
<1>2. "serving" \in ProcessStates
  BY DEF ProcessStates
<1>3. /\ procs'[n].at = "serving" /\ procs'[n].pid = procs[n].pid
      /\ \A m \in 1..started : m # n => procs'[m] = procs[m]
  BY <1>1, <1>2, ProcessMoves
<1>4. n \in Nat /\ procs[n].pid \in KnownPids /\ boot \in Nat /\ port \in 0..started
  BY PidfileTypes DEF Process, PidfileIInv, PidfileTyped
<1>5. pidfile' \in PidRecord
  BY <1>1, <1>4 DEF PidRecord
<1>6. RecordTrue(pidfile', procs', started, boot)
  BY <1>1, <1>3 DEF RecordTrue
<1>7. port = n /\ \A m \in 1..started : m # n => procs[m].at \notin {"bound", "serving", "signalled"}
  BY <1>1 DEF PidfileIInv, OnePort
<1>8. OnePort' /\ ServingIsRecorded'
  BY <1>1, <1>3, <1>7 DEF OnePort, ServingIsRecorded
<1> QED BY <1>1, <1>2, <1>4, <1>5, <1>6, <1>8, ProcessKeeps

(* The port of a process that stops: it is not its own, or it is given up. *)
PortLeft(n) ==
  \/ port' = port /\ procs[n].at \in {"closing", "removing"}
  \/ port' = 0 /\ port = n
  \/ port' = port /\ port # n

(* A process that stops, in order or not: the record may go with it.       *)
LEMMA StopKeeps ==
  ASSUME PidfileIInv, NEW n \in 1..started, NEW a \in {"closing", "removing", "dead"}, procs[n].at # "dead",
         procs' = [procs EXCEPT ![n].at = a], UNCHANGED <<os, started, boot, stopper, hit>>,
         PortLeft(n), UNCHANGED <<pidfile, erased>> \/ Deleted(n)
  PROVE  PidfileIInv'
<1>1. a \in ProcessStates /\ a \in ProcessStates \ {"serving"}
  BY DEF ProcessStates
<1>2. procs'[n].at = a /\ \A m \in 1..started : m # n => procs'[m] = procs[m]
  BY <1>1, ProcessMoves
<1>3. port \in 0..started /\ started \in Nat
  BY PidfileTypes DEF PidfileIInv, PidfileTyped
<1>4. port' \in 0..started
  BY <1>3 DEF PortLeft
<1>5. OnePort'
  <2>1. ASSUME NEW m \in 1..started, procs'[m].at \in {"bound", "serving", "signalled"} PROVE port' = m
    BY <2>1, <1>2 DEF PidfileIInv, OnePort, PortLeft
  <2> QED BY <2>1 DEF OnePort
<1>6. pidfile' \in PidRecord /\ ServingIsRecorded' /\ RecordTrue(pidfile', procs', started, boot)
  <2>1. ASSUME UNCHANGED <<pidfile, erased>> PROVE pidfile' \in PidRecord /\ ServingIsRecorded' /\ RecordTrue(pidfile', procs', started, boot)
    BY <1>1, <2>1, RecordedStill DEF PidfileIInv, PidfileTyped
  <2>2. ASSUME Deleted(n) PROVE pidfile' \in PidRecord /\ ServingIsRecorded' /\ RecordTrue(pidfile', procs', started, boot)
    <3>1. pidfile' = NoRecord /\ pidfile' \in PidRecord
      BY <2>2 DEF Deleted, NoRecord, PidRecord, KnownPids
    <3>2. RecordTrue(pidfile', procs', started, boot)
      BY <3>1 DEF RecordTrue, NoRecord
    <3>3. ASSUME NEW m \in 1..started, procs'[m].at = "serving", m \notin erased' PROVE FALSE
      BY <3>3, <1>2, PidfileTypes, <2>2 DEF Deleted, PidfileIInv, ServingIsRecorded
    <3> QED BY <3>1, <3>2, <3>3 DEF ServingIsRecorded
  <2> QED BY <2>1, <2>2
<1> QED BY <1>1, <1>4, <1>5, <1>6, ProcessKeeps

(* The steps of a process that stops.                                      *)
LEMMA StopsKeep ==
  ASSUME PidfileIInv, NEW n \in 1..started, Closes(n) \/ RemoveReads(n) \/ RemoveDeletes(n) \/ Dies(n)
  PROVE  PidfileIInv'
<1>1. ASSUME Closes(n) PROVE PidfileIInv'
  BY <1>1, StopKeeps DEF Closes, Steps, commands, PidfileIInv, OnePort, PortLeft
<1>2. ASSUME RemoveReads(n) PROVE PidfileIInv'
  <2>1. PICK a \in {"removing", "dead"} : procs' = [procs EXCEPT ![n].at = a]
    BY <1>2 DEF RemoveReads, Steps
  <2>2. /\ procs[n].at = "closing" /\ procs[n].at # "dead" /\ UNCHANGED port
        /\ UNCHANGED <<os, started, boot, stopper, hit>> /\ UNCHANGED <<pidfile, erased>> /\ PortLeft(n)
    BY <1>2 DEF RemoveReads, Steps, commands, PortLeft
  <2> QED BY <2>1, <2>2, StopKeeps
<1>3. ASSUME RemoveDeletes(n) PROVE PidfileIInv'
  BY <1>3, StopKeeps DEF RemoveDeletes, Steps, commands, PortLeft
<1>4. ASSUME Dies(n) PROVE PidfileIInv'
  BY <1>4, StopKeeps DEF Dies, Alive, commands, PortLeft
<1> QED BY <1>1, <1>2, <1>3, <1>4

(* The machine reboots: nothing runs, and no command.                      *)
LEMMA RebootKeeps == ASSUME PidfileIInv, Reboots PROVE PidfileIInv'
<1>1. /\ os' = os /\ started' = started /\ port' = 0 /\ pidfile' = pidfile /\ boot' = boot + 1
      /\ stopper' = [s \in Stoppers |-> NoCommand] /\ hit' = hit /\ erased' = erased
      /\ procs' = [n \in 1..os.procs |-> [procs[n] EXCEPT !.at = "dead"]]
  BY DEF Reboots
<1>2. started \in Nat /\ boot' \in Nat /\ procs \in [1..os.procs -> Process]
  BY <1>1, PidfileTypes DEF PidfileIInv, PidfileTyped
<1>3. ASSUME NEW n \in 1..os.procs
      PROVE  [procs[n] EXCEPT !.at = "dead"] \in Process /\ [procs[n] EXCEPT !.at = "dead"].at = "dead"
             /\ [procs[n] EXCEPT !.at = "dead"].pid = procs[n].pid
  <2>1. PICK p \in Process : p = procs[n]
    BY <1>2
  <2>2. [p EXCEPT !.at = "dead"] \in Process /\ [p EXCEPT !.at = "dead"].at = "dead"
        /\ [p EXCEPT !.at = "dead"].pid = p.pid
    BY DEF Process, ProcessStates
  <2> QED BY <2>1, <2>2
<1>4. /\ procs' \in [1..os.procs -> Process]
      /\ \A n \in 1..started : procs'[n].at = "dead" /\ procs'[n].pid = procs[n].pid
  BY <1>1, <1>3, PidfileTypes
<1>5. PidfileTyped'
  BY <1>1, NoCommandIsTrue, <1>2, <1>4 DEF PidfileIInv, PidfileTyped
<1>6. PidsApart' /\ OnePort' /\ ServingIsRecorded'
  BY <1>1, <1>4 DEF PidsApart, OnePort, ServingIsRecorded, Alive
<1>7. RecordTrue(pidfile, procs', started, boot')
  BY <1>4 DEF PidfileIInv, RecordTrue
<1>8. \A s \in Stoppers : CommandTrue(stopper'[s], procs', started, boot')
  BY <1>1, <1>2, NoCommandIsTrue
<1>9. NoStrangerSignalled'
  BY <1>1 DEF PidfileIInv, NoStrangerSignalled
<1> QED BY <1>1, <1>5, <1>6, <1>7, <1>8, <1>9 DEF PidfileIInv

-----------------------------------------------------------------------------
(* A command goes on, and nothing else moves.                              *)
LEMMA CommandKeeps ==
  ASSUME PidfileIInv, NEW s \in Stoppers, NEW c \in PidCommand, CommandTrue(c, procs, started, boot),
         stopper' = [stopper EXCEPT ![s] = c], UNCHANGED <<os, procs, started, port, pidfile, boot, erased, hit>>
  PROVE  PidfileIInv'
<1>1. PidfileTyped'
  BY DEF PidfileIInv, PidfileTyped
<1>2. \A t \in Stoppers : CommandTrue(stopper'[t], procs, started, boot)
  BY DEF PidfileIInv, PidfileTyped
<1>3. (PidsApart /\ OnePort /\ ServingIsRecorded /\ NoStrangerSignalled)'
  BY DEF PidfileIInv, PidsApart, Alive, OnePort, ServingIsRecorded, NoStrangerSignalled
<1> QED BY <1>1, <1>2, <1>3 DEF PidfileIInv

(* A command takes its next step with the record it has read.              *)
LEMMA StageKeeps ==
  ASSUME PidfileIInv, NEW s \in Stoppers, NEW a \in {"open", "confirm", "ours", "gone"}, NEW f \in 0..started,
         stopper[s].at # "idle",
         stopper' = [stopper EXCEPT ![s] = [at |-> a, stops |-> stopper[s].stops, rec |-> stopper[s].rec, fd |-> f]],
         UNCHANGED <<os, procs, started, port, pidfile, boot, erased, hit>>,
         a \in {"confirm", "ours"} => f # 0,
         a = "confirm" => procs[f].pid = stopper[s].rec.pid,
         a = "ours" => procs[f].at = "dead" \/ f = stopper[s].rec.proc,
         a = "gone" => procs[stopper[s].rec.proc].at = "dead"
  PROVE  PidfileIInv'
<1>1. PICK c \in PidCommand : c = stopper[s]
  BY PidfileTypes
<1>2. f \in Nat
  BY PidfileTypes
<1>3. PICK d \in PidCommand : d = [at |-> a, stops |-> c.stops, rec |-> c.rec, fd |-> f]
  BY <1>2 DEF PidCommand
<1>4. d.at = a /\ d.rec = c.rec /\ d.fd = f
  BY <1>3
<1>5. CommandTrue(c, procs, started, boot)
  BY <1>1 DEF PidfileIInv
<1>6. CommandTrue(d, procs, started, boot)
  BY <1>1, <1>4, <1>5 DEF CommandTrue
<1> QED BY <1>1, <1>3, <1>6, CommandKeeps

(* A command is over.                                                      *)
LEMMA CommandEnds ==
  ASSUME PidfileIInv, NEW s \in Stoppers, Command(s, NoCommand)
  PROVE  PidfileIInv'
<1>1. started \in Nat
  BY PidfileTypes
<1> QED BY <1>1, NoCommandIsTrue, CommandKeeps DEF Command, world

(* The command as the record it is.                                        *)
LEMMA CommandSet ==
  ASSUME NEW c \in PidCommand, NEW a
  PROVE  [c EXCEPT !.at = a] = [at |-> a, stops |-> c.stops, rec |-> c.rec, fd |-> c.fd]
BY DEF PidCommand

(* The checks of a command: each leaves it with what it has learnt.        *)
LEMMA ChecksKeep ==
  ASSUME PidfileIInv, NEW s \in Stoppers, ChecksBoot(s) \/ OpensPidfd(s) \/ Confirms(s) \/ SeesExit(s)
  PROVE  PidfileIInv'
<1> DEFINE c == stopper[s]
           Stage(a, f) == [at |-> a, stops |-> c.stops, rec |-> c.rec, fd |-> f]
           Same == UNCHANGED <<os, procs, started, port, pidfile, boot, erased, hit>>
<1>1. c \in PidCommand /\ CommandTrue(c, procs, started, boot) /\ c.fd \in 0..started
  BY PidfileTypes DEF PidfileIInv, CommandTrue
<1>2. c.at # "idle" /\ Same
  BY DEF ChecksBoot, OpensPidfd, Confirms, SeesExit, Command, world
<1>3. c.rec.proc \in 1..started /\ procs[c.rec.proc].pid = c.rec.pid /\ (c.rec.boot # boot => procs[c.rec.proc].at = "dead")
  BY <1>1, <1>2 DEF CommandTrue, RecordTrue
<1>4. \A a : [c EXCEPT !.at = a] = Stage(a, c.fd)
  BY <1>1, CommandSet
<1>5. \A n : n \in Holder(c.rec.pid) <=> n \in 1..started /\ procs[n].at # "dead" /\ procs[n].pid = c.rec.pid
  BY PidfileTypes DEF Holder
<1>6. Holder(c.rec.pid) = {} => procs[c.rec.proc].at = "dead"
  BY <1>3, <1>5
<1>7. ASSUME stopper' = [stopper EXCEPT ![s] = Stage("gone", c.fd)], procs[c.rec.proc].at = "dead" PROVE PidfileIInv'
  BY <1>1, <1>2, <1>7, StageKeeps
<1>8. ASSUME ChecksBoot(s) PROVE PidfileIInv'
  <2>1. CASE c.rec.boot = boot
    BY <1>4, <1>8, <2>1, <1>1, <1>2, StageKeeps DEF ChecksBoot, Command
  <2>2. CASE c.rec.boot # boot
    BY <1>4, <1>8, <2>2, <1>3, <1>7 DEF ChecksBoot, Command
  <2> QED BY <2>1, <2>2
<1>9. ASSUME OpensPidfd(s) PROVE PidfileIInv'
  <2>1. CASE Holder(c.rec.pid) = {}
    BY <1>4, <1>9, <2>1, <1>6, <1>7 DEF OpensPidfd, Command
  <2>2. CASE Holder(c.rec.pid) # {}
    <3>1. PICK n \in Holder(c.rec.pid) : stopper' = [stopper EXCEPT ![s] = Stage("confirm", n)]
      BY <1>9, <2>2 DEF OpensPidfd, Command
    <3>2. n \in 0..started /\ n # 0 /\ procs[n].pid = c.rec.pid
      BY <1>5, PidfileTypes
    <3> QED BY <1>1, <1>2, <3>1, <3>2, StageKeeps
  <2> QED BY <2>1, <2>2
<1>10. ASSUME Confirms(s) PROVE PidfileIInv'
  <2>1. CASE Holder(c.rec.pid) = {}
    BY <1>4, <1>10, <2>1, <1>6, <1>7 DEF Confirms, Command
  <2>2. CASE Holder(c.rec.pid) # {} /\ (Holder(c.rec.pid) # {c.rec.proc} \/ ~c.stops)
    BY <1>10, <2>2, CommandEnds DEF Confirms
  <2>3. CASE Holder(c.rec.pid) = {c.rec.proc} /\ c.stops
    <3>1. stopper' = [stopper EXCEPT ![s] = Stage("ours", c.fd)]
      BY <1>4, <1>10, <2>3 DEF Confirms, Command
    <3>2. c.fd # 0 /\ procs[c.fd].pid = c.rec.pid /\ c.fd \in 1..started
      BY <1>1, <1>10, PidfileTypes DEF Confirms, CommandTrue
    <3>3. procs[c.fd].at = "dead" \/ c.fd = c.rec.proc
      BY <1>5, <2>3, <3>2
    <3> QED BY <1>1, <1>2, <3>1, <3>2, <3>3, StageKeeps
  <2> QED BY <2>1, <2>2, <2>3
<1>11. ASSUME SeesExit(s) PROVE PidfileIInv'
  BY <1>1, <1>11, <1>3, PidfileTypes, <1>4, <1>7 DEF SeesExit, CommandTrue, Command
<1> QED BY <1>8, <1>9, <1>10, <1>11

(* A command reads the record, and later deletes it.                       *)
LEMMA ReadKeeps ==
  ASSUME PidfileIInv, NEW s \in Stoppers, NEW stops \in BOOLEAN, ReadsRecord(s, stops)
  PROVE  PidfileIInv'
<1>1. PICK r \in PidRecord : r = pidfile
  BY DEF PidfileIInv, PidfileTyped
<1>2. PICK c \in PidCommand : c = [at |-> "read", stops |-> stops, rec |-> r, fd |-> 0]
  BY DEF PidCommand
<1>3. c.at = "read" /\ c.rec = r /\ c.fd = 0
  BY <1>2
<1>4. r.proc # 0 /\ RecordTrue(r, procs, started, boot) /\ started \in Nat
  BY <1>1, PidfileTypes DEF ReadsRecord, PidfileIInv
<1>5. CommandTrue(c, procs, started, boot)
  BY <1>3, <1>4 DEF CommandTrue
<1>6. stopper' = [stopper EXCEPT ![s] = c] /\ UNCHANGED <<os, procs, started, port, pidfile, boot, erased, hit>>
  BY <1>1, <1>2 DEF ReadsRecord, Command, world
<1> QED BY <1>5, <1>6, CommandKeeps

(* A stale record is deleted: whoever it named is gone.                    *)
LEMMA DeleteKeeps ==
  ASSUME PidfileIInv, NEW s \in Stoppers, DeletesStale(s)
  PROVE  PidfileIInv'
<1>1. /\ stopper' = [stopper EXCEPT ![s] = NoCommand] /\ UNCHANGED <<os, procs, started, port, boot, hit>>
      /\ Deleted(stopper[s].rec.proc)
  BY DEF DeletesStale
<1>2. pidfile' = NoRecord /\ pidfile' \in PidRecord
  BY <1>1 DEF Deleted, NoRecord, PidRecord, KnownPids
<1>3. RecordTrue(pidfile', procs, started, boot)
  BY <1>2 DEF RecordTrue, NoRecord
<1>4. PidfileTyped'
  BY <1>1, <1>2, NoCommandIsTrue DEF PidfileIInv, PidfileTyped
<1>5. \A t \in Stoppers : CommandTrue(stopper'[t], procs, started, boot)
  BY PidfileTypes, NoCommandIsTrue, <1>1 DEF PidfileIInv, PidfileTyped
<1>6. (PidsApart /\ OnePort /\ NoStrangerSignalled)'
  BY <1>1 DEF PidfileIInv, PidsApart, Alive, OnePort, NoStrangerSignalled
<1>7. procs[stopper[s].rec.proc].at = "dead"
  BY DEF DeletesStale, PidfileIInv, CommandTrue
<1>8. ASSUME NEW m \in 1..started, procs[m].at = "serving", m \notin erased' PROVE FALSE
  BY <1>7, <1>8, PidfileTypes, <1>1 DEF Deleted, PidfileIInv, ServingIsRecorded
<1>9. ServingIsRecorded'
  BY <1>1, <1>8 DEF ServingIsRecorded
<1> QED BY <1>1, <1>3, <1>4, <1>5, <1>6, <1>9 DEF PidfileIInv

(* The signal goes through the pidfd, to the process of the record or to   *)
(* nobody.                                                                 *)
LEMMA TerminateKeeps ==
  ASSUME PidfileIInv, NEW s \in Stoppers, Terminates(s)
  PROVE  PidfileIInv'
<1>1. PICK c \in PidCommand : c = stopper[s]
  BY PidfileTypes
<1>2. CommandTrue(c, procs, started, boot) /\ c.at = "ours" /\ started \in Nat
  BY <1>1, PidfileTypes DEF PidfileIInv, Terminates
<1>3. CASE ~Alive(c.fd)
  BY <1>1, <1>3, CommandEnds DEF Terminates, Command, world
<1>4. CASE Alive(c.fd)
  <2>1. PICK n \in 1..started : n = c.fd
    BY <1>2, <1>4 DEF CommandTrue, Alive
  <2>2. n = c.rec.proc /\ procs[n].at # "dead" /\ procs[n] \in Process
    BY <1>2, <1>4, <2>1, PidfileTypes DEF CommandTrue
  <2>3. /\ procs' = [procs EXCEPT ![n].at = IF procs[n].at = "serving" THEN "signalled" ELSE procs[n].at]
        /\ hit' = hit \cup {<<n, n>>}
        /\ stopper' = [stopper EXCEPT ![s].at = "waiting"]
        /\ UNCHANGED <<os, started, port, pidfile, boot, erased>>
    BY <1>1, <1>4, <2>1, <2>2 DEF Terminates
  <2>4. PICK a \in ProcessStates : a = IF procs[n].at = "serving" THEN "signalled" ELSE procs[n].at
    <3>1. (IF procs[n].at = "serving" THEN "signalled" ELSE procs[n].at) \in ProcessStates
      BY <2>2 DEF Process, ProcessStates
    <3> QED BY <3>1
  <2>5. a # "serving" /\ a \in ProcessStates \ {"serving"} /\ procs' = [procs EXCEPT ![n].at = a]
    BY <2>3, <2>4
  <2>6. /\ procs' \in [1..os.procs -> Process] /\ Older(procs, procs', started) /\ procs'[n].at = a
        /\ \A m \in 1..started : m # n => procs'[m] = procs[m]
        /\ \A k, m \in 1..started :
             procs'[k].at # "dead" /\ procs'[m].at # "dead" /\ procs'[k].pid = procs'[m].pid => k = m
    BY <2>2, <2>5, ProcessMoves
  <2>7. ServingIsRecorded' /\ RecordTrue(pidfile', procs', started, boot)
    BY <2>2, <2>3, <2>5, RecordedStill
  <2>8. PidsApart'
    BY <2>3, <2>6 DEF PidsApart, Alive
  <2>9. OnePort'
    BY <2>4, <2>3, <2>6 DEF PidfileIInv, OnePort
  <2>10. NoStrangerSignalled'
    BY <2>3 DEF PidfileIInv, NoStrangerSignalled
  <2>11. PICK d \in PidCommand : d = [c EXCEPT !.at = "waiting"]
    BY DEF PidCommand
  <2>12. d.at = "waiting" /\ d.rec = c.rec /\ d.fd = c.fd /\ stopper' = [stopper EXCEPT ![s] = d]
    BY <1>1, <2>3, <2>11 DEF PidCommand, PidfileIInv, PidfileTyped
  <2>13. CommandTrue(d, procs, started, boot)
    BY <1>2, <2>1, <2>2, <2>12 DEF CommandTrue
  <2>14. stopper' \in [Stoppers -> PidCommand] /\ \A t \in Stoppers : CommandTrue(stopper'[t], procs, started, boot)
    BY <2>12, <2>13 DEF PidfileIInv, PidfileTyped
  <2>15. ASSUME NEW t \in Stoppers PROVE CommandTrue(stopper'[t], procs', started, boot)
    BY <1>2, <2>14, <2>6, CommandAges
  <2>16. PidfileTyped'
    BY <2>3, <2>6, <2>14 DEF PidfileIInv, PidfileTyped
  <2> QED BY <2>3, <2>7, <2>8, <2>9, <2>10, <2>15, <2>16 DEF PidfileIInv
<1> QED BY <1>1, <1>3, <1>4

-----------------------------------------------------------------------------
(* Every step keeps the invariant.                                         *)
LEMMA PidfileSteps == ASSUME PidfileIInv, [PidfileNext]_pidfileVars PROVE PidfileIInv'
<1>1. CASE UNCHANGED pidfileVars
  BY <1>1 DEF pidfileVars, PidfileIInv, PidfileTyped, PidsApart, Alive, OnePort, NoStrangerSignalled, ServingIsRecorded
<1>2. ASSUME NEW pid \in Pids, NEW what \in {"daemon", "stranger"}, ProcessStarts(pid, what) PROVE PidfileIInv'
  BY <1>2, StartKeeps
<1>3. ASSUME NEW n \in 1..started,
             \/ Binds(n) \/ WritesRecord(n) \/ Closes(n)
             \/ RemoveReads(n) \/ RemoveDeletes(n) \/ Dies(n)
      PROVE  PidfileIInv'
  BY <1>3, BindKeeps, RecordKeeps, StopsKeep
<1>4. CASE Reboots
  BY <1>4, RebootKeeps
<1>5. ASSUME NEW s \in Stoppers,
             \/ \E stops \in BOOLEAN : ReadsRecord(s, stops)
             \/ ChecksBoot(s) \/ OpensPidfd(s) \/ Confirms(s) \/ Terminates(s)
             \/ SeesExit(s) \/ WaitIsOver(s) \/ DeletesStale(s)
      PROVE  PidfileIInv'
  <2>1. ASSUME WaitIsOver(s) PROVE PidfileIInv'
    BY <2>1, CommandEnds DEF WaitIsOver
  <2> QED BY <1>5, <2>1, ReadKeeps, ChecksKeep, TerminateKeeps, DeleteKeeps
<1> QED BY <1>1, <1>2, <1>3, <1>4, <1>5 DEF PidfileNext

(* The inductive invariant of the pid file holds throughout.               *)
THEOREM PidfileInvariance == PidfileSpec => []PidfileIInv
<1>1. PidfileInit => PidfileIInv
  BY PidfileStarts
<1>2. PidfileIInv /\ [PidfileNext]_pidfileVars => PidfileIInv'
  BY PidfileSteps
<1> QED BY <1>1, <1>2, PTL DEF PidfileSpec

(* A pid has one living process at most.                                   *)
LEMMA OneHolder == ASSUME PidfileIInv, NEW pid PROVE Cardinality(Holder(pid)) <= 1
<1>1. CASE Holder(pid) = {}
  BY <1>1, FS_EmptySet
<1>2. CASE Holder(pid) # {}
  <2>1. PICK n : n \in Holder(pid)
    BY <1>2
  <2>2. Holder(pid) = {n}
    BY <2>1 DEF PidfileIInv, PidsApart, Holder
  <2>3. Cardinality({n}) = 1
    BY FS_Singleton
  <2> QED BY <2>2, <2>3
<1> QED BY <1>1, <1>2

(* The pid file keeps its promises, for any number of daemons, strangers,  *)
(* pids, commands and reboots: nobody but the daemon of the record is      *)
(* signalled, a daemon that serves is recorded unless a delete under way   *)
(* took its record, and a record is called stale only when its process is  *)
(* dead (pidfile.rs, cli/down.rs, cli/status.rs).                          *)
THEOREM PidfileKeepsItsPromises == PidfileSpec => []PidfileHolds
<1>1. ASSUME PidfileIInv PROVE PidfileHolds
  <2>1. PidfileTypeOK
    BY <1>1, PidfileTypes, OneHolder DEF PidfileIInv, RecordTrue, PidfileTypeOK, PidfileTyped,
       OnePort
  <2>2. DeletesTheDead
    BY <1>1 DEF PidfileIInv, CommandTrue, DeletesTheDead, Alive
  <2> QED BY <1>1, <2>1, <2>2 DEF PidfileHolds, PidfileIInv
<1> QED BY <1>1, PidfileInvariance, PTL

-----------------------------------------------------------------------------
(***************************************************************************)
(* The graph server (GraphServer), for any number of daemons, pulses and   *)
(* failures.  Each step is one of twelve kinds by what it changes          *)
(* (Effects).  Where one daemon boots or stops at a time, and where each   *)
(* pulse has one daemon, nobody is in the way of one that provisions a     *)
(* pulse (Apart), so the pulse has no password until it gives it one       *)
(* (Unwritten): no password on disk is ever overwritten.  The root         *)
(* password is on disk before a server is started with it (RootKept), and  *)
(* without failures the user of the database has the password that its     *)
(* daemon is about to write (UserMade).                                    *)
(***************************************************************************)
\* The steps of a daemon, and those between its look at the file of its
\* pulse's password and its write of it.
GraphSteps == {"unborn", "looks", "reads", "generates", "spawns", "records", "awaits", "provisions",
               "signs in", "defines", "writes", "binds", "up", "stops", "gone"}
Provisioning == {"signs in", "defines", "writes"}
Passwords == GraphDaemons \cup {NoDaemon}
FirstPulse == CHOOSE x \in GraphPulses : TRUE

GraphTyped ==
    /\ host \in HostConfigs /\ graphFaults \in Nat
    /\ daemon \in [GraphDaemons -> [at : GraphSteps, pulse : GraphPulses \cup {FirstPulse}, root : Passwords]]
    /\ server \in [GraphDaemons -> {"none", "starting", "serving", "stopping", "gone"}]
    /\ db \in [root : Passwords, user : [GraphPulses -> Passwords]]
    /\ rootFile \in Passwords /\ surrealPid \in Passwords
    /\ graphFile \in [GraphPulses -> Passwords]
    /\ \A d \in GraphDaemons : daemon[d].at # "unborn" => daemon[d].pulse \in GraphPulses

Lives(d) == daemon[d].at \notin {"unborn", "gone"}

\* One server has the port, and a pid is written down of one there was.
OneServes ==
    /\ \A d, e \in GraphDaemons : server[d] = "serving" /\ server[e] = "serving" => d = e
    /\ surrealPid # NoDaemon => server[surrealPid] # "none"
    /\ \A d \in GraphDaemons : daemon[d].at = "records" => server[d] # "none"

\* Who is in the way of whom, by the circumstances.
Apart ==
    /\ host.alone => \A d, e \in GraphDaemons : BusyDaemon(d) /\ BusyDaemon(e) => d = e
    /\ ~host.twins => \A d, e \in GraphDaemons :
          daemon[d].pulse = daemon[e].pulse /\ d # e => ~Lives(d) \/ ~Lives(e)

\* One daemon after the other, the root password is written once, before
\* any server is started with it.
RootKept ==
    host.alone =>
        /\ RootFits
        /\ \A d \in GraphDaemons :
              /\ daemon[d].at = "generates" => rootFile = NoDaemon
              /\ daemon[d].at = "spawns" \/ server[d] \in {"starting", "serving", "stopping"} =>
                    daemon[d].root = rootFile /\ rootFile # NoDaemon

\* A daemon gives a password to a pulse that has none, and without failures
\* it is the one that opens the database.
Unwritten ==
    host.alone \/ ~host.twins => \A d \in GraphDaemons :
        daemon[d].at \in Provisioning => graphFile[daemon[d].pulse] = NoDaemon
UserMade ==
    host.alone /\ graphFaults = 0 =>
        /\ \A d \in GraphDaemons : daemon[d].at = "writes" => db.user[daemon[d].pulse] = d
        /\ \A x \in GraphPulses :
              \/ graphFile[x] = db.user[x]
              \/ \E d \in GraphDaemons : daemon[d].at = "writes" /\ daemon[d].pulse = x

GraphIInv == GraphTyped /\ OneServes /\ Apart /\ RootKept /\ Unwritten /\ UserMade

\* One daemon goes a step on.
DaemonRecords == [at : GraphSteps, pulse : GraphPulses \cup {FirstPulse}, root : Passwords]
Gone(d, s) ==
    /\ daemon' \in [GraphDaemons -> DaemonRecords]
    /\ daemon'[d].at = s /\ daemon'[d].pulse = daemon[d].pulse
    /\ \A e \in GraphDaemons : e # d => daemon'[e] = daemon[e]
GoneOn(d, s) == Gone(d, s) /\ daemon'[d].root = daemon[d].root

(* What it is to go to a step.                                             *)
LEMMA GoesFacts ==
  ASSUME GraphTyped, NEW d \in GraphDaemons, NEW s \in GraphSteps, GoesTo(d, s)
  PROVE  GoneOn(d, s)
<1>1. daemon \in [GraphDaemons -> DaemonRecords]
  BY DEF GraphTyped, DaemonRecords
<1>2. PICK r : r = [daemon[d] EXCEPT !.at = s]
  OBVIOUS
<1>3. daemon' = [daemon EXCEPT ![d] = r]
  BY <1>2 DEF GoesTo
<1>4. r \in DaemonRecords /\ r.at = s /\ r.pulse = daemon[d].pulse /\ r.root = daemon[d].root
  BY <1>1, <1>2 DEF DaemonRecords
<1> QED BY <1>1, <1>3, <1>4 DEF GoneOn, Gone

(* The steps of a daemon, from one to the next.                            *)
LEMMA DaemonSteps ==
  ASSUME GraphTyped, NEW d \in GraphDaemons
  PROVE  /\ Looks(d) => \E s \in {"provisions", "reads"} : GoneOn(d, s)
         /\ ReadsRoot(d) => /\ \E s \in {"generates", "spawns"} :
                                  Gone(d, s) /\ (s = "generates" <=> rootFile = NoDaemon)
                            /\ daemon'[d].root = rootFile
         /\ WritesRoot(d) => Gone(d, "spawns") /\ daemon'[d].root = d
         /\ Spawns(d) => GoneOn(d, "records")
         /\ RecordsPid(d) => GoneOn(d, "awaits")
         /\ Awaits(d) => \E s \in {"provisions", "gone"} : GoneOn(d, s)
         /\ ChecksProvisioned(d) => \E s \in {"binds", "signs in"} :
               GoneOn(d, s) /\ (s = "signs in" => graphFile[daemon[d].pulse] = NoDaemon)
         /\ SignsIn(d) => \E s \in {"defines", "gone"} : GoneOn(d, s)
         /\ DefinesUser(d) => \/ GoneOn(d, "writes") /\ db' = WithUser(daemon[d].pulse, d)
                              \/ GoneOn(d, "gone") /\ db' = db
         /\ AnswerIsLost(d) => GoneOn(d, "gone")
         /\ WritesGraphPassword(d) => GoneOn(d, "binds")
         /\ FinishesBoot(d) => \E s \in {"gone", "up"} : GoneOn(d, s)
         /\ DaemonEnds(d) => GoneOn(d, "gone")
         /\ StopsServer(d) => \E s \in {"gone", "stops"} : GoneOn(d, s)
         /\ ForgetsServer(d) => GoneOn(d, "gone")
<1>1. \A s \in GraphSteps : GoesTo(d, s) => GoneOn(d, s)
  BY GoesFacts
<1>3. Looks(d) => \E s \in {"provisions", "reads"} : GoneOn(d, s)
  BY <1>1 DEF Looks, GraphSteps
<1>4. ASSUME NEW s \in GraphSteps, NEW p, p \in Passwords,
             daemon' = [daemon EXCEPT ![d].root = p, ![d].at = s]
      PROVE  Gone(d, s) /\ daemon'[d].root = p
  <2>1. daemon \in [GraphDaemons -> DaemonRecords]
    BY DEF GraphTyped, DaemonRecords
  <2>2. PICK r : r = [daemon[d] EXCEPT !.root = p, !.at = s]
    OBVIOUS
  <2>3. daemon' = [daemon EXCEPT ![d] = r]
    BY <1>4, <2>1, <2>2
  <2>4. r \in DaemonRecords /\ r.at = s /\ r.pulse = daemon[d].pulse /\ r.root = p
    BY <1>4, <2>1, <2>2 DEF DaemonRecords
  <2> QED BY <2>1, <2>3, <2>4 DEF Gone
<1>5. ASSUME ReadsRoot(d)
      PROVE  /\ \E s \in {"generates", "spawns"} :
                   Gone(d, s) /\ (s = "generates" <=> rootFile = NoDaemon)
             /\ daemon'[d].root = rootFile
  <2>1. PICK s \in {"generates", "spawns"} : s = IF rootFile = NoDaemon THEN "generates" ELSE "spawns"
    OBVIOUS
  <2>2. daemon' = [daemon EXCEPT ![d].root = rootFile, ![d].at = s]
    BY <1>5, <2>1 DEF ReadsRoot
  <2>3. rootFile \in Passwords /\ s \in GraphSteps /\ (s = "generates" <=> rootFile = NoDaemon)
    BY <2>1 DEF GraphTyped, GraphSteps
  <2>4. Gone(d, s) /\ daemon'[d].root = rootFile
    BY <1>4, <2>2, <2>3
  <2> QED BY <2>3, <2>4
<1>6. WritesRoot(d) => Gone(d, "spawns") /\ daemon'[d].root = d
  BY <1>4 DEF GraphSteps, Passwords, WritesRoot
<1>7. Spawns(d) => GoneOn(d, "records")
  BY <1>1 DEF Spawns, GraphSteps
<1>8. RecordsPid(d) => GoneOn(d, "awaits")
  BY <1>1 DEF RecordsPid, GraphSteps
<1>9. Awaits(d) => \E s \in {"provisions", "gone"} : GoneOn(d, s)
  BY <1>1 DEF Awaits, GraphSteps
<1>10. ChecksProvisioned(d) => \E s \in {"binds", "signs in"} :
               GoneOn(d, s) /\ (s = "signs in" => graphFile[daemon[d].pulse] = NoDaemon)
  <2>1. SUFFICES ASSUME ChecksProvisioned(d)
                 PROVE  \E s \in {"binds", "signs in"} :
                           GoneOn(d, s) /\ (s = "signs in" => graphFile[daemon[d].pulse] = NoDaemon)
    OBVIOUS
  <2>2. CASE graphFile[daemon[d].pulse] = NoDaemon
    BY <1>1, <2>1, <2>2 DEF ChecksProvisioned, GraphSteps
  <2>3. CASE graphFile[daemon[d].pulse] # NoDaemon
    BY <1>1, <2>1, <2>3 DEF ChecksProvisioned, GraphSteps
  <2> QED BY <2>2, <2>3
<1>11. SignsIn(d) => \E s \in {"defines", "gone"} : GoneOn(d, s)
  BY <1>1 DEF SignsIn, GraphSteps
<1>12. DefinesUser(d) => \/ GoneOn(d, "writes") /\ db' = WithUser(daemon[d].pulse, d)
                         \/ GoneOn(d, "gone") /\ db' = db
  BY <1>1 DEF DefinesUser, GraphSteps
<1>13. AnswerIsLost(d) => GoneOn(d, "gone")
  BY <1>1 DEF AnswerIsLost, GraphSteps
<1>14. WritesGraphPassword(d) => GoneOn(d, "binds")
  BY <1>1 DEF WritesGraphPassword, GraphSteps
<1>15. FinishesBoot(d) => \E s \in {"gone", "up"} : GoneOn(d, s)
  BY <1>1 DEF FinishesBoot, GraphSteps
<1>16. DaemonEnds(d) => GoneOn(d, "gone")
  BY <1>1 DEF DaemonEnds, GraphSteps
<1>17. StopsServer(d) => \E s \in {"gone", "stops"} : GoneOn(d, s)
  BY <1>1 DEF StopsServer, GraphSteps
<1>18. ForgetsServer(d) => GoneOn(d, "gone")
  BY <1>1 DEF ForgetsServer, GraphSteps
<1> QED
  BY <1>3, <1>5, <1>6, <1>7, <1>8, <1>9, <1>10, <1>11, <1>12, <1>13, <1>14, <1>15, <1>16, <1>17, <1>18

(* A daemon that is born, for its pulse.                                   *)
LEMMA BornFacts ==
  ASSUME GraphTyped, NEW d \in GraphDaemons, NEW x \in GraphPulses, BootStarts(d, x)
  PROVE  /\ daemon' \in [GraphDaemons -> DaemonRecords]
         /\ daemon'[d].at = "looks" /\ daemon'[d].pulse = x /\ daemon'[d].root = daemon[d].root
         /\ \A e \in GraphDaemons : e # d => daemon'[e] = daemon[e]
<1>1. daemon \in [GraphDaemons -> DaemonRecords]
  BY DEF GraphTyped, DaemonRecords
<1>2. PICK r : r = [daemon[d] EXCEPT !.at = "looks", !.pulse = x]
  OBVIOUS
<1>3. daemon' = [daemon EXCEPT ![d] = r]
  BY <1>1, <1>2 DEF BootStarts
<1>4. r \in DaemonRecords /\ r.at = "looks" /\ r.pulse = x /\ r.root = daemon[d].root
  BY <1>1, <1>2 DEF DaemonRecords, GraphSteps
<1> QED BY <1>1, <1>3, <1>4

\* The steps by what they change: a daemon's own, and those of a file, of the
\* database, of a server.
SameHost == host' = host
Failing == graphFaults' \in Nat /\ (graphFaults' = 0 => graphFaults = 0)
SameFiles == rootFile' = rootFile /\ graphFile' = graphFile /\ surrealPid' = surrealPid
Same == server' = server /\ db' = db /\ SameFiles
ComesTo(d, state) ==
    /\ server' \in [GraphDaemons -> {"none", "starting", "serving", "stopping", "gone"}]
    /\ server'[d] = state /\ \A e \in GraphDaemons : e # d => server'[e] = server[e]
Birth(d) == \E x \in GraphPulses :
    /\ daemon[d].at = "unborn"
    /\ daemon' \in [GraphDaemons -> DaemonRecords]
    /\ daemon'[d].at = "looks" /\ daemon'[d].pulse = x /\ daemon'[d].root = daemon[d].root
    /\ \A e \in GraphDaemons : e # d => daemon'[e] = daemon[e]
    /\ host.alone => NoneBusy
    /\ ~host.twins => \A e \in GraphDaemons :
          daemon[e].pulse = x => daemon[e].at \in {"unborn", "gone"}
    /\ Same /\ graphFaults' = graphFaults
Quietly(d) == \E s \in GraphSteps :
    /\ Gone(d, s) /\ Same
    /\ daemon[d].at # "reads" => daemon'[d].root = daemon[d].root
    /\ \/ daemon[d].at = "looks" /\ s \in {"provisions", "reads"}
       \/ /\ daemon[d].at = "reads" /\ s \in {"generates", "spawns"} /\ daemon'[d].root = rootFile
          /\ s = "generates" <=> rootFile = NoDaemon
       \/ daemon[d].at = "awaits" /\ s \in {"provisions", "gone"}
       \/ daemon[d].at = "provisions" /\ s = "binds"
       \/ daemon[d].at = "provisions" /\ s = "signs in" /\ graphFile[daemon[d].pulse] = NoDaemon
       \/ daemon[d].at = "signs in" /\ s \in {"defines", "gone"}
       \/ daemon[d].at = "defines" /\ s = "gone"
       \/ daemon[d].at = "binds" /\ s \in {"up", "gone"}
    /\ graphFaults' = graphFaults
DaemonDies(d) ==
    /\ daemon[d].at \notin {"unborn", "gone"} /\ GoneOn(d, "gone") /\ db' = db /\ SameFiles
    /\ server' = server \/ ComesTo(d, "gone")
    /\ graphFaults' \in Nat \ {0}
MakesRoot(d) ==
    /\ daemon[d].at = "generates" /\ Gone(d, "spawns") /\ daemon'[d].root = d
    /\ rootFile' = d /\ server' = server /\ db' = db /\ graphFile' = graphFile
    /\ surrealPid' = surrealPid /\ graphFaults' = graphFaults
StartsServer(d) ==
    /\ daemon[d].at = "spawns" /\ GoneOn(d, "records") /\ ComesTo(d, "starting")
    /\ db' = db /\ SameFiles /\ graphFaults' = graphFaults
NotesPid(d) ==
    /\ daemon[d].at = "records" /\ GoneOn(d, "awaits") /\ surrealPid' = d
    /\ server' = server /\ db' = db /\ rootFile' = rootFile /\ graphFile' = graphFile
    /\ graphFaults' = graphFaults
MakesUser(d) ==
    /\ daemon[d].at = "defines" /\ server' = server /\ SameFiles
    /\ db' = WithUser(daemon[d].pulse, d)
    /\ \/ GoneOn(d, "writes") /\ graphFaults' = graphFaults
       \/ GoneOn(d, "gone") /\ graphFaults' \in Nat \ {0}
NotesPassword(d) ==
    /\ daemon[d].at = "writes" /\ GoneOn(d, "binds")
    /\ graphFile' = [graphFile EXCEPT ![daemon[d].pulse] = d]
    /\ server' = server /\ db' = db /\ rootFile' = rootFile /\ surrealPid' = surrealPid
    /\ graphFaults' = graphFaults
StopsOwn(d) ==
    /\ daemon[d].at = "up" /\ (host.alone => NoneBusy)
    /\ GoneOn(d, "gone") \/ GoneOn(d, "stops")
    /\ server' = server \/ (server[d] \in {"starting", "serving"} /\ ComesTo(d, "stopping"))
    /\ db' = db /\ SameFiles /\ graphFaults' = graphFaults
ForgetsPid(d) ==
    /\ daemon[d].at = "stops" /\ GoneOn(d, "gone")
    /\ surrealPid' \in {surrealPid, NoDaemon}
    /\ server' = server /\ db' = db /\ rootFile' = rootFile /\ graphFile' = graphFile
    /\ graphFaults' = graphFaults
ServerComes(d) ==
    /\ server[d] = "starting" /\ daemon' = daemon /\ SameFiles /\ graphFaults' = graphFaults
    /\ \/ ComesTo(d, "gone") /\ db' = db
       \/ /\ ~Serving /\ ComesTo(d, "serving") /\ db'.user = db.user
          /\ db' \in [root : Passwords, user : [GraphPulses -> Passwords]]
          /\ db'.root = db.root \/ db'.root = daemon[d].root
ServerGoes(d) ==
    /\ daemon' = daemon /\ db' = db /\ SameFiles /\ ComesTo(d, "gone") /\ Failing
GraphEffect(d) ==
    \/ Birth(d) \/ Quietly(d) \/ DaemonDies(d) \/ MakesRoot(d) \/ StartsServer(d) \/ NotesPid(d) \/ MakesUser(d)
    \/ NotesPassword(d) \/ StopsOwn(d) \/ ForgetsPid(d) \/ ServerComes(d) \/ ServerGoes(d)

(* What it is for a server to come to a state.                             *)
LEMMA ServesFacts ==
  ASSUME GraphTyped, NEW d \in GraphDaemons, NEW v \in {"starting", "serving", "stopping", "gone"},
         server' = [server EXCEPT ![d] = v]
  PROVE  ComesTo(d, v)
  BY DEF GraphTyped, ComesTo

(* Every step is one of these.                                             *)
LEMMA Effects ==
  ASSUME GraphTyped, GraphNext
  PROVE  SameHost /\ \E d \in GraphDaemons : GraphEffect(d)
<1> USE DEF AtStep, noFault, graphFiles, SameHost, SameFiles, Same
<1>1. PICK d \in GraphDaemons :
         \/ \E x \in GraphPulses : BootStarts(d, x)
         \/ Looks(d) \/ ReadsRoot(d) \/ WritesRoot(d) \/ Spawns(d) \/ RecordsPid(d) \/ Awaits(d)
         \/ ChecksProvisioned(d) \/ SignsIn(d) \/ DefinesUser(d) \/ AnswerIsLost(d)
         \/ WritesGraphPassword(d) \/ FinishesBoot(d) \/ DaemonEnds(d)
         \/ StopsServer(d) \/ ForgetsServer(d) \/ ServerBinds(d) \/ ServerExits(d)
  BY DEF GraphNext
<1>2. graphFaults \in Nat
  BY DEF GraphTyped
<1>3. FaultOccurs => graphFaults' \in Nat \ {0}
  BY <1>2 DEF FaultOccurs
<1>4. ASSUME NEW x \in GraphPulses, BootStarts(d, x)
      PROVE  SameHost /\ GraphEffect(d)
  <2>1. /\ daemon' \in [GraphDaemons -> DaemonRecords]
        /\ daemon'[d].at = "looks" /\ daemon'[d].pulse = x /\ daemon'[d].root = daemon[d].root
        /\ \A e \in GraphDaemons : e # d => daemon'[e] = daemon[e]
    BY <1>4, BornFacts
  <2>2. /\ daemon[d].at = "unborn" /\ (host.alone => NoneBusy) /\ host' = host
        /\ ~host.twins => \A e \in GraphDaemons :
              daemon[e].pulse = x => daemon[e].at \in {"unborn", "gone"}
        /\ Same /\ graphFaults' = graphFaults
    BY <1>4 DEF BootStarts
  <2>3. Birth(d)
    BY <2>1, <2>2 DEF Birth
  <2> QED BY <2>2, <2>3 DEF GraphEffect

<1>5. ASSUME Looks(d)
      PROVE  SameHost /\ GraphEffect(d)
  <2>1. PICK s \in {"provisions", "reads"} : GoneOn(d, s)
    BY <1>5, DaemonSteps
  <2>2. daemon[d].at = "looks" /\ host' = host /\ Same /\ graphFaults' = graphFaults
    BY <1>5 DEF Looks
  <2>3. Quietly(d)
    BY <2>1, <2>2 DEF Quietly, GoneOn, GraphSteps
  <2> QED BY <2>2, <2>3 DEF GraphEffect
<1>6. ASSUME ReadsRoot(d)
      PROVE  SameHost /\ GraphEffect(d)
  <2>1. PICK s \in {"generates", "spawns"} : Gone(d, s) /\ (s = "generates" <=> rootFile = NoDaemon)
    BY <1>6, DaemonSteps
  <2>4. daemon'[d].root = rootFile
    BY <1>6, DaemonSteps
  <2>2. daemon[d].at = "reads" /\ host' = host /\ Same /\ graphFaults' = graphFaults
    BY <1>6 DEF ReadsRoot
  <2>3. Quietly(d)
    BY <2>1, <2>2, <2>4 DEF Quietly, GoneOn, GraphSteps
  <2> QED BY <2>2, <2>3 DEF GraphEffect
<1>7. ASSUME Awaits(d)
      PROVE  SameHost /\ GraphEffect(d)
  <2>1. PICK s \in {"provisions", "gone"} : GoneOn(d, s)
    BY <1>7, DaemonSteps
  <2>2. daemon[d].at = "awaits" /\ host' = host /\ Same /\ graphFaults' = graphFaults
    BY <1>7 DEF Awaits
  <2>3. Quietly(d)
    BY <2>1, <2>2 DEF Quietly, GoneOn, GraphSteps
  <2> QED BY <2>2, <2>3 DEF GraphEffect
<1>8. ASSUME ChecksProvisioned(d)
      PROVE  SameHost /\ GraphEffect(d)
  <2>1. PICK s \in {"binds", "signs in"} : GoneOn(d, s) /\ (s = "signs in" => graphFile[daemon[d].pulse] = NoDaemon)
    BY <1>8, DaemonSteps
  <2>2. daemon[d].at = "provisions" /\ host' = host /\ Same /\ graphFaults' = graphFaults
    BY <1>8 DEF ChecksProvisioned
  <2>3. Quietly(d)
    BY <2>1, <2>2 DEF Quietly, GoneOn, GraphSteps
  <2> QED BY <2>2, <2>3 DEF GraphEffect
<1>9. ASSUME SignsIn(d)
      PROVE  SameHost /\ GraphEffect(d)
  <2>1. PICK s \in {"defines", "gone"} : GoneOn(d, s)
    BY <1>9, DaemonSteps
  <2>2. daemon[d].at = "signs in" /\ host' = host /\ Same /\ graphFaults' = graphFaults
    BY <1>9 DEF SignsIn
  <2>3. Quietly(d)
    BY <2>1, <2>2 DEF Quietly, GoneOn, GraphSteps
  <2> QED BY <2>2, <2>3 DEF GraphEffect
<1>10. ASSUME FinishesBoot(d)
      PROVE  SameHost /\ GraphEffect(d)
  <2>1. PICK s \in {"gone", "up"} : GoneOn(d, s)
    BY <1>10, DaemonSteps
  <2>2. daemon[d].at = "binds" /\ host' = host /\ Same /\ graphFaults' = graphFaults
    BY <1>10 DEF FinishesBoot
  <2>3. Quietly(d)
    BY <2>1, <2>2 DEF Quietly, GoneOn, GraphSteps
  <2> QED BY <2>2, <2>3 DEF GraphEffect
<1>11. ASSUME WritesRoot(d)
      PROVE  SameHost /\ GraphEffect(d)
  BY <1>11, DaemonSteps, <1>3 DEF WritesRoot, MakesRoot, GraphEffect
<1>12. ASSUME Spawns(d)
      PROVE  SameHost /\ GraphEffect(d)
  BY <1>12, DaemonSteps, <1>3, ServesFacts DEF Spawns, StartsServer, GraphEffect
<1>13. ASSUME RecordsPid(d)
      PROVE  SameHost /\ GraphEffect(d)
  BY <1>13, DaemonSteps, <1>3 DEF RecordsPid, NotesPid, GraphEffect
<1>14. ASSUME AnswerIsLost(d)
      PROVE  SameHost /\ GraphEffect(d)
  BY <1>14, DaemonSteps, <1>3 DEF AnswerIsLost, MakesUser, GraphEffect
<1>15. ASSUME WritesGraphPassword(d)
      PROVE  SameHost /\ GraphEffect(d)
  BY <1>15, DaemonSteps, <1>3 DEF WritesGraphPassword, NotesPassword, GraphEffect
<1>16. ASSUME DaemonEnds(d)
      PROVE  SameHost /\ GraphEffect(d)
  BY <1>16, DaemonSteps, <1>3, ServesFacts DEF DaemonEnds, DaemonDies, GraphEffect
<1>17. ASSUME StopsServer(d)
      PROVE  SameHost /\ GraphEffect(d)
  <2>1. GoneOn(d, "gone") \/ GoneOn(d, "stops")
    BY <1>17, DaemonSteps
  <2>2. /\ daemon[d].at = "up" /\ (host.alone => NoneBusy) /\ host' = host
        /\ graphFaults' = graphFaults /\ db' = db /\ SameFiles /\ server' = Signalled(d)
    BY <1>17, <1>3 DEF StopsServer
  <2>4. server' = server \/ (server[d] \in {"starting", "serving"} /\ server' = [server EXCEPT ![d] = "stopping"])
    BY <2>2 DEF Signalled, GraphTyped
  <2>5. server' = server \/ (server[d] \in {"starting", "serving"} /\ ComesTo(d, "stopping"))
    BY <2>4, ServesFacts
  <2>3. StopsOwn(d)
    BY <2>1, <2>2, <2>4, <2>5 DEF StopsOwn
  <2> QED BY <2>2, <2>3 DEF GraphEffect
<1>18. ASSUME ForgetsServer(d)
      PROVE  SameHost /\ GraphEffect(d)
  BY <1>18, DaemonSteps, <1>3 DEF ForgetsServer, ForgetsPid, GraphEffect
<1>19. ASSUME DefinesUser(d)
      PROVE  SameHost /\ GraphEffect(d)
  <2>1. \/ GoneOn(d, "writes") /\ db' = WithUser(daemon[d].pulse, d)
        \/ GoneOn(d, "gone") /\ db' = db
    BY <1>19, DaemonSteps
  <2>2. /\ daemon[d].at = "defines" /\ host' = host /\ server' = server /\ SameFiles
        /\ graphFaults' = graphFaults
    BY <1>19 DEF DefinesUser
  <2>3. CASE GoneOn(d, "writes") /\ db' = WithUser(daemon[d].pulse, d)
    BY <2>2, <2>3 DEF MakesUser, GraphEffect
  <2>4. CASE GoneOn(d, "gone") /\ db' = db
    BY <2>2, <2>4 DEF Quietly, GoneOn, GraphSteps, GraphEffect
  <2> QED BY <2>1, <2>3, <2>4
<1>20. ASSUME ServerBinds(d)
      PROVE  SameHost /\ GraphEffect(d)
  <2>1. /\ server[d] = "starting" /\ daemon' = daemon /\ SameFiles /\ graphFaults' = graphFaults
        /\ host' = host
    BY <1>20 DEF ServerBinds
  <2>2. CASE Serving
    BY <1>20, <2>2, <2>1, ServesFacts DEF ServerBinds, ServerComes, GraphEffect
  <2>3. CASE ~Serving
    BY <1>20, <2>3, ServesFacts, <2>1 DEF ServerBinds, GraphTyped, ServerComes, GraphEffect
  <2> QED BY <2>2, <2>3
<1>21. ASSUME ServerExits(d)
      PROVE  SameHost /\ GraphEffect(d)
  BY <1>21, <1>2, <1>3, ServesFacts DEF ServerExits, Failing, ServerGoes, GraphEffect
<1> QED
  BY <1>1, <1>4, <1>5, <1>6, <1>7, <1>8, <1>9, <1>10, <1>11, <1>12, <1>13, <1>14, <1>15, <1>16, <1>17, <1>18, <1>19, <1>20, <1>21

(* The types are kept.                                                     *)
LEMMA NextTyped ==
  ASSUME GraphTyped, SameHost, NEW d \in GraphDaemons, GraphEffect(d)
  PROVE  GraphTyped'
<1>1. CASE Birth(d)
  BY <1>1, GraphAssumption DEF Birth, GraphTyped, SameHost, Same, SameFiles, Gone, GoneOn, DaemonRecords, ComesTo, Passwords, GraphSteps, Failing, WithUser
<1>2. CASE Quietly(d)
  BY <1>2, GraphAssumption DEF Quietly, GraphTyped, SameHost, Same, SameFiles, Gone, GoneOn, DaemonRecords, ComesTo, Passwords, GraphSteps, Failing, WithUser
<1>3. CASE DaemonDies(d)
  BY <1>3, GraphAssumption DEF DaemonDies, GraphTyped, SameHost, Same, SameFiles, Gone, GoneOn, DaemonRecords, ComesTo, Passwords, GraphSteps, Failing, WithUser
<1>4. CASE MakesRoot(d)
  BY <1>4, GraphAssumption DEF MakesRoot, GraphTyped, SameHost, Same, SameFiles, Gone, GoneOn, DaemonRecords, ComesTo, Passwords, GraphSteps, Failing, WithUser
<1>5. CASE StartsServer(d)
  BY <1>5, GraphAssumption DEF StartsServer, GraphTyped, SameHost, Same, SameFiles, Gone, GoneOn, DaemonRecords, ComesTo, Passwords, GraphSteps, Failing, WithUser
<1>6. CASE NotesPid(d)
  BY <1>6, GraphAssumption DEF NotesPid, GraphTyped, SameHost, Same, SameFiles, Gone, GoneOn, DaemonRecords, ComesTo, Passwords, GraphSteps, Failing, WithUser
<1>7. CASE MakesUser(d)
  BY <1>7, GraphAssumption DEF MakesUser, GraphTyped, SameHost, Same, SameFiles, Gone, GoneOn, DaemonRecords, ComesTo, Passwords, GraphSteps, Failing, WithUser
<1>8. CASE NotesPassword(d)
  BY <1>8, GraphAssumption DEF NotesPassword, GraphTyped, SameHost, Same, SameFiles, Gone, GoneOn, DaemonRecords, ComesTo, Passwords, GraphSteps, Failing, WithUser
<1>9. CASE StopsOwn(d)
  BY <1>9, GraphAssumption DEF StopsOwn, GraphTyped, SameHost, Same, SameFiles, Gone, GoneOn, DaemonRecords, ComesTo, Passwords, GraphSteps, Failing, WithUser
<1>10. CASE ForgetsPid(d)
  BY <1>10, GraphAssumption DEF ForgetsPid, GraphTyped, SameHost, Same, SameFiles, Gone, GoneOn, DaemonRecords, ComesTo, Passwords, GraphSteps, Failing, WithUser
<1>11. CASE ServerComes(d)
  BY <1>11, GraphAssumption DEF ServerComes, GraphTyped, SameHost, Same, SameFiles, Gone, GoneOn, DaemonRecords, ComesTo, Passwords, GraphSteps, Failing, WithUser
<1>12. CASE ServerGoes(d)
  BY <1>12, GraphAssumption DEF ServerGoes, GraphTyped, SameHost, Same, SameFiles, Gone, GoneOn, DaemonRecords, ComesTo, Passwords, GraphSteps, Failing, WithUser
<1> QED BY <1>1, <1>2, <1>3, <1>4, <1>5, <1>6, <1>7, <1>8, <1>9, <1>10, <1>11, <1>12 DEF GraphEffect

(* One server has the port.                                                *)
LEMMA NextServes ==
  ASSUME GraphTyped, OneServes, SameHost, NEW d \in GraphDaemons, GraphEffect(d)
  PROVE  OneServes'
<1>1. CASE Birth(d)
  BY <1>1, GraphAssumption DEF Birth, OneServes, Serving, GraphTyped, SameHost, Same, SameFiles, Gone, GoneOn, DaemonRecords, ComesTo, Passwords
<1>2. CASE Quietly(d)
  BY <1>2, GraphAssumption DEF Quietly, OneServes, Serving, GraphTyped, SameHost, Same, SameFiles, Gone, GoneOn, DaemonRecords, ComesTo, Passwords
<1>3. CASE DaemonDies(d)
  BY <1>3, GraphAssumption DEF DaemonDies, OneServes, Serving, GraphTyped, SameHost, Same, SameFiles, Gone, GoneOn, DaemonRecords, ComesTo, Passwords
<1>4. CASE MakesRoot(d)
  BY <1>4, GraphAssumption DEF MakesRoot, OneServes, Serving, GraphTyped, SameHost, Same, SameFiles, Gone, GoneOn, DaemonRecords, ComesTo, Passwords
<1>5. CASE StartsServer(d)
  BY <1>5, GraphAssumption DEF StartsServer, OneServes, Serving, GraphTyped, SameHost, Same, SameFiles, Gone, GoneOn, DaemonRecords, ComesTo, Passwords
<1>6. CASE NotesPid(d)
  BY <1>6, GraphAssumption DEF NotesPid, OneServes, Serving, GraphTyped, SameHost, Same, SameFiles, Gone, GoneOn, DaemonRecords, ComesTo, Passwords
<1>7. CASE MakesUser(d)
  BY <1>7, GraphAssumption DEF MakesUser, OneServes, Serving, GraphTyped, SameHost, Same, SameFiles, Gone, GoneOn, DaemonRecords, ComesTo, Passwords
<1>8. CASE NotesPassword(d)
  BY <1>8, GraphAssumption DEF NotesPassword, OneServes, Serving, GraphTyped, SameHost, Same, SameFiles, Gone, GoneOn, DaemonRecords, ComesTo, Passwords
<1>9. CASE StopsOwn(d)
  BY <1>9, GraphAssumption DEF StopsOwn, OneServes, Serving, GraphTyped, SameHost, Same, SameFiles, Gone, GoneOn, DaemonRecords, ComesTo, Passwords
<1>10. CASE ForgetsPid(d)
  BY <1>10, GraphAssumption DEF ForgetsPid, OneServes, Serving, GraphTyped, SameHost, Same, SameFiles, Gone, GoneOn, DaemonRecords, ComesTo, Passwords
<1>11. CASE ServerComes(d)
  BY <1>11, GraphAssumption DEF ServerComes, OneServes, Serving, GraphTyped, SameHost, Same, SameFiles, Gone, GoneOn, DaemonRecords, ComesTo, Passwords
<1>12. CASE ServerGoes(d)
  BY <1>12, GraphAssumption DEF ServerGoes, OneServes, Serving, GraphTyped, SameHost, Same, SameFiles, Gone, GoneOn, DaemonRecords, ComesTo, Passwords
<1> QED BY <1>1, <1>2, <1>3, <1>4, <1>5, <1>6, <1>7, <1>8, <1>9, <1>10, <1>11, <1>12 DEF GraphEffect

(* Only a birth brings somebody in anybody's way.                          *)
LEMMA Continues ==
  ASSUME GraphTyped, SameHost, NEW d \in GraphDaemons, GraphEffect(d)
  PROVE  \/ Birth(d)
         \/ \A e \in GraphDaemons :
               /\ daemon'[e].pulse = daemon[e].pulse /\ (Lives(e)' => Lives(e))
               /\ BusyDaemon(e)' => BusyDaemon(e) \/ (e = d /\ (host.alone => NoneBusy))
<1>1. CASE Birth(d)
  BY <1>1
<1>2. CASE Quietly(d)
  BY <1>2, GraphAssumption DEF Quietly, Lives, BusyDaemon, GraphTyped, SameHost, Same, SameFiles, Gone, GoneOn, DaemonRecords, ComesTo, Passwords
<1>3. CASE DaemonDies(d)
  BY <1>3, GraphAssumption DEF DaemonDies, Lives, BusyDaemon, GraphTyped, SameHost, Same, SameFiles, Gone, GoneOn, DaemonRecords, ComesTo, Passwords
<1>4. CASE MakesRoot(d)
  BY <1>4, GraphAssumption DEF MakesRoot, Lives, BusyDaemon, GraphTyped, SameHost, Same, SameFiles, Gone, GoneOn, DaemonRecords, ComesTo, Passwords
<1>5. CASE StartsServer(d)
  BY <1>5, GraphAssumption DEF StartsServer, Lives, BusyDaemon, GraphTyped, SameHost, Same, SameFiles, Gone, GoneOn, DaemonRecords, ComesTo, Passwords
<1>6. CASE NotesPid(d)
  BY <1>6, GraphAssumption DEF NotesPid, Lives, BusyDaemon, GraphTyped, SameHost, Same, SameFiles, Gone, GoneOn, DaemonRecords, ComesTo, Passwords
<1>7. CASE MakesUser(d)
  BY <1>7, GraphAssumption DEF MakesUser, Lives, BusyDaemon, GraphTyped, SameHost, Same, SameFiles, Gone, GoneOn, DaemonRecords, ComesTo, Passwords
<1>8. CASE NotesPassword(d)
  BY <1>8, GraphAssumption DEF NotesPassword, Lives, BusyDaemon, GraphTyped, SameHost, Same, SameFiles, Gone, GoneOn, DaemonRecords, ComesTo, Passwords
<1>9. CASE StopsOwn(d)
  BY <1>9, GraphAssumption DEF StopsOwn, Lives, BusyDaemon, GraphTyped, SameHost, Same, SameFiles, Gone, GoneOn, DaemonRecords, ComesTo, Passwords
<1>10. CASE ForgetsPid(d)
  BY <1>10, GraphAssumption DEF ForgetsPid, Lives, BusyDaemon, GraphTyped, SameHost, Same, SameFiles, Gone, GoneOn, DaemonRecords, ComesTo, Passwords
<1>11. CASE ServerComes(d)
  BY <1>11, GraphAssumption DEF ServerComes, Lives, BusyDaemon, GraphTyped, SameHost, Same, SameFiles, Gone, GoneOn, DaemonRecords, ComesTo, Passwords
<1>12. CASE ServerGoes(d)
  BY <1>12, GraphAssumption DEF ServerGoes, Lives, BusyDaemon, GraphTyped, SameHost, Same, SameFiles, Gone, GoneOn, DaemonRecords, ComesTo, Passwords
<1> QED BY <1>1, <1>2, <1>3, <1>4, <1>5, <1>6, <1>7, <1>8, <1>9, <1>10, <1>11, <1>12 DEF GraphEffect

(* The daemons stay out of each other's way.                               *)
LEMMA NextApart ==
  ASSUME GraphTyped, Apart, SameHost, NEW d \in GraphDaemons, GraphEffect(d)
  PROVE  Apart'
<1>1. CASE Birth(d)
  <2>1. PICK x \in GraphPulses :
           /\ daemon'[d].pulse = x /\ \A e \in GraphDaemons : e # d => daemon'[e] = daemon[e]
           /\ host.alone => NoneBusy
           /\ ~host.twins => \A e \in GraphDaemons : daemon[e].pulse = x => ~Lives(e)
    BY <1>1 DEF Birth, Lives
  <2>2. host' = host
    BY DEF SameHost
  <2>3. host.alone => \A e \in GraphDaemons : BusyDaemon(e)' => e = d
    BY <2>1 DEF NoneBusy, BusyDaemon
  <2>4. \A e \in GraphDaemons : e # d => Lives(e)' = Lives(e)
    BY <2>1 DEF Lives
  <2> QED BY <2>1, <2>2, <2>3, <2>4 DEF Apart
<1>2. CASE ~Birth(d)
  BY <1>2, Continues DEF SameHost, Apart, NoneBusy
<1> QED BY <1>1, <1>2

(* The root password is kept.                                              *)
LEMMA NextRoot ==
  ASSUME GraphTyped, Apart, RootKept, SameHost, NEW d \in GraphDaemons, GraphEffect(d)
  PROVE  RootKept'
<1>1. CASE Birth(d)
  BY <1>1, GraphAssumption DEF Birth, RootKept, RootFits, Apart, BusyDaemon, GraphTyped, SameHost, Same, SameFiles, Gone, GoneOn, DaemonRecords, ComesTo, Passwords
<1>2. CASE Quietly(d)
  BY <1>2 DEF Quietly, Same, SameFiles, SameHost, Gone, RootKept, RootFits
<1>3. CASE DaemonDies(d)
  BY <1>3, GraphAssumption DEF DaemonDies, RootKept, RootFits, Apart, BusyDaemon, GraphTyped, SameHost, Same, SameFiles, Gone, GoneOn, DaemonRecords, ComesTo, Passwords
<1>4. CASE MakesRoot(d)
  BY <1>4, GraphAssumption DEF MakesRoot, RootKept, RootFits, Apart, BusyDaemon, GraphTyped, SameHost, Same, SameFiles, Gone, GoneOn, DaemonRecords, ComesTo, Passwords
<1>5. CASE StartsServer(d)
  BY <1>5, GraphAssumption DEF StartsServer, RootKept, RootFits, Apart, BusyDaemon, GraphTyped, SameHost, Same, SameFiles, Gone, GoneOn, DaemonRecords, ComesTo, Passwords
<1>6. CASE NotesPid(d)
  BY <1>6, GraphAssumption DEF NotesPid, RootKept, RootFits, Apart, BusyDaemon, GraphTyped, SameHost, Same, SameFiles, Gone, GoneOn, DaemonRecords, ComesTo, Passwords
<1>7. CASE MakesUser(d)
  BY <1>7 DEF MakesUser, WithUser, GraphTyped, SameFiles, SameHost, GoneOn, Gone, RootKept,
     RootFits
<1>8. CASE NotesPassword(d)
  BY <1>8, GraphAssumption DEF NotesPassword, RootKept, RootFits, Apart, BusyDaemon, GraphTyped, SameHost, Same, SameFiles, Gone, GoneOn, DaemonRecords, ComesTo, Passwords
<1>9. CASE StopsOwn(d)
  BY <1>9, GraphAssumption DEF StopsOwn, RootKept, RootFits, Apart, BusyDaemon, GraphTyped, SameHost, Same, SameFiles, Gone, GoneOn, DaemonRecords, ComesTo, Passwords
<1>10. CASE ForgetsPid(d)
  BY <1>10, GraphAssumption DEF ForgetsPid, RootKept, RootFits, Apart, BusyDaemon, GraphTyped, SameHost, Same, SameFiles, Gone, GoneOn, DaemonRecords, ComesTo, Passwords
<1>11. CASE ServerComes(d)
  BY <1>11, GraphAssumption DEF ServerComes, RootKept, RootFits, Apart, BusyDaemon, GraphTyped, SameHost, Same, SameFiles, Gone, GoneOn, DaemonRecords, ComesTo, Passwords
<1>12. CASE ServerGoes(d)
  BY <1>12, GraphAssumption DEF ServerGoes, RootKept, RootFits, Apart, BusyDaemon, GraphTyped, SameHost, Same, SameFiles, Gone, GoneOn, DaemonRecords, ComesTo, Passwords
<1> QED BY <1>1, <1>2, <1>3, <1>4, <1>5, <1>6, <1>7, <1>8, <1>9, <1>10, <1>11, <1>12 DEF GraphEffect

(* Who provisions a pulse has found it without a password.                 *)
LEMMA Provisions ==
  ASSUME GraphTyped, SameHost, NEW d \in GraphDaemons, GraphEffect(d)
  PROVE  /\ graphFile' = graphFile \/ NotesPassword(d)
         /\ \A e \in GraphDaemons : daemon'[e].at \in Provisioning =>
               /\ daemon'[e].pulse = daemon[e].pulse /\ Lives(e) /\ Lives(e)' /\ BusyDaemon(e)'
               /\ daemon[e].at \in Provisioning \/ graphFile[daemon[e].pulse] = NoDaemon
<1>1. CASE Birth(d)
  BY <1>1, GraphAssumption DEF Birth, Lives, BusyDaemon, Provisioning, GraphTyped, SameHost, Same, SameFiles, Gone, GoneOn, DaemonRecords, ComesTo, Passwords
<1>2. CASE Quietly(d)
  BY <1>2, GraphAssumption DEF Quietly, Lives, BusyDaemon, Provisioning, GraphTyped, SameHost, Same, SameFiles, Gone, GoneOn, DaemonRecords, ComesTo, Passwords
<1>3. CASE DaemonDies(d)
  BY <1>3, GraphAssumption DEF DaemonDies, Lives, BusyDaemon, Provisioning, GraphTyped, SameHost, Same, SameFiles, Gone, GoneOn, DaemonRecords, ComesTo, Passwords
<1>4. CASE MakesRoot(d)
  BY <1>4, GraphAssumption DEF MakesRoot, Lives, BusyDaemon, Provisioning, GraphTyped, SameHost, Same, SameFiles, Gone, GoneOn, DaemonRecords, ComesTo, Passwords
<1>5. CASE StartsServer(d)
  BY <1>5, GraphAssumption DEF StartsServer, Lives, BusyDaemon, Provisioning, GraphTyped, SameHost, Same, SameFiles, Gone, GoneOn, DaemonRecords, ComesTo, Passwords
<1>6. CASE NotesPid(d)
  BY <1>6, GraphAssumption DEF NotesPid, Lives, BusyDaemon, Provisioning, GraphTyped, SameHost, Same, SameFiles, Gone, GoneOn, DaemonRecords, ComesTo, Passwords
<1>7. CASE MakesUser(d)
  BY <1>7, GraphAssumption DEF MakesUser, Lives, BusyDaemon, Provisioning, GraphTyped, SameHost, Same, SameFiles, Gone, GoneOn, DaemonRecords, ComesTo, Passwords
<1>8. CASE NotesPassword(d)
  BY <1>8, GraphAssumption DEF NotesPassword, Lives, BusyDaemon, Provisioning, GraphTyped, SameHost, Same, SameFiles, Gone, GoneOn, DaemonRecords, ComesTo, Passwords
<1>9. CASE StopsOwn(d)
  BY <1>9, GraphAssumption DEF StopsOwn, Lives, BusyDaemon, Provisioning, GraphTyped, SameHost, Same, SameFiles, Gone, GoneOn, DaemonRecords, ComesTo, Passwords
<1>10. CASE ForgetsPid(d)
  BY <1>10, GraphAssumption DEF ForgetsPid, Lives, BusyDaemon, Provisioning, GraphTyped, SameHost, Same, SameFiles, Gone, GoneOn, DaemonRecords, ComesTo, Passwords
<1>11. CASE ServerComes(d)
  BY <1>11, GraphAssumption DEF ServerComes, Lives, BusyDaemon, Provisioning, GraphTyped, SameHost, Same, SameFiles, Gone, GoneOn, DaemonRecords, ComesTo, Passwords
<1>12. CASE ServerGoes(d)
  BY <1>12, GraphAssumption DEF ServerGoes, Lives, BusyDaemon, Provisioning, GraphTyped, SameHost, Same, SameFiles, Gone, GoneOn, DaemonRecords, ComesTo, Passwords
<1> QED BY <1>1, <1>2, <1>3, <1>4, <1>5, <1>6, <1>7, <1>8, <1>9, <1>10, <1>11, <1>12 DEF GraphEffect

(* It stays without while it is provisioned.                               *)
LEMMA NextUnwritten ==
  ASSUME GraphTyped, Apart, Unwritten, SameHost, NEW d \in GraphDaemons, GraphEffect(d)
  PROVE  Unwritten'
<1>1. SUFFICES ASSUME host.alone \/ ~host.twins, NEW e \in GraphDaemons, daemon'[e].at \in Provisioning
               PROVE  graphFile'[daemon'[e].pulse] = NoDaemon
  BY DEF Unwritten, SameHost
<1>2. /\ daemon'[e].pulse = daemon[e].pulse /\ Lives(e) /\ Lives(e)' /\ BusyDaemon(e)'
      /\ daemon[e].at \in Provisioning \/ graphFile[daemon[e].pulse] = NoDaemon
      /\ graphFile' = graphFile \/ NotesPassword(d)
  BY <1>1, Provisions
<1>3. graphFile[daemon[e].pulse] = NoDaemon
  BY <1>1, <1>2 DEF Unwritten
<1>4. CASE NotesPassword(d)
  <2>1. /\ daemon[d].at = "writes" /\ daemon'[d].at = "binds"
        /\ graphFile' = [graphFile EXCEPT ![daemon[d].pulse] = d]
        /\ \A c \in GraphDaemons : c # d => daemon'[c] = daemon[c]
    BY <1>4 DEF NotesPassword, GoneOn, Gone
  <2>2. e # d
    BY <1>1, <2>1 DEF Provisioning
  <2>3. Lives(d) /\ BusyDaemon(d) /\ BusyDaemon(e)
    BY <1>2, <2>1, <2>2 DEF Lives, BusyDaemon
  <2>4. daemon[e].pulse # daemon[d].pulse
    BY <1>1, <1>2, <2>2, <2>3 DEF Apart
  <2> QED BY <1>2, <1>3, <2>1, <2>4 DEF GraphTyped
<1> QED BY <1>2, <1>3, <1>4

(* A step without a failure, by what it does to the passwords of the pulses. *)
LEMMA Users ==
  ASSUME GraphTyped, SameHost, NEW d \in GraphDaemons, GraphEffect(d)
  PROVE  graphFaults' = 0 =>
           /\ graphFaults = 0
           /\ \/ MakesUser(d) /\ GoneOn(d, "writes")
              \/ NotesPassword(d)
              \/ /\ graphFile' = graphFile /\ db'.user = db.user
                 /\ \A e \in GraphDaemons :
                       /\ daemon'[e].at = "writes" <=> daemon[e].at = "writes"
                       /\ daemon[e].at = "writes" => daemon'[e].pulse = daemon[e].pulse
<1>1. CASE Birth(d)
  BY <1>1, GraphAssumption DEF Birth, Failing, GraphTyped, SameHost, Same, SameFiles, Gone, GoneOn, DaemonRecords, ComesTo, Passwords
<1>2. CASE Quietly(d)
  BY <1>2, GraphAssumption DEF Quietly, Failing, GraphTyped, SameHost, Same, SameFiles, Gone, GoneOn, DaemonRecords, ComesTo, Passwords
<1>3. CASE DaemonDies(d)
  BY <1>3, GraphAssumption DEF DaemonDies, Failing, GraphTyped, SameHost, Same, SameFiles, Gone, GoneOn, DaemonRecords, ComesTo, Passwords
<1>4. CASE MakesRoot(d)
  BY <1>4, GraphAssumption DEF MakesRoot, Failing, GraphTyped, SameHost, Same, SameFiles, Gone, GoneOn, DaemonRecords, ComesTo, Passwords
<1>5. CASE StartsServer(d)
  BY <1>5, GraphAssumption DEF StartsServer, Failing, GraphTyped, SameHost, Same, SameFiles, Gone, GoneOn, DaemonRecords, ComesTo, Passwords
<1>6. CASE NotesPid(d)
  BY <1>6, GraphAssumption DEF NotesPid, Failing, GraphTyped, SameHost, Same, SameFiles, Gone, GoneOn, DaemonRecords, ComesTo, Passwords
<1>7. CASE MakesUser(d)
  BY <1>7, GraphAssumption DEF MakesUser, Failing, GraphTyped, SameHost, Same, SameFiles, Gone, GoneOn, DaemonRecords, ComesTo, Passwords
<1>8. CASE NotesPassword(d)
  BY <1>8, GraphAssumption DEF NotesPassword, Failing, GraphTyped, SameHost, Same, SameFiles, Gone, GoneOn, DaemonRecords, ComesTo, Passwords
<1>9. CASE StopsOwn(d)
  BY <1>9, GraphAssumption DEF StopsOwn, Failing, GraphTyped, SameHost, Same, SameFiles, Gone, GoneOn, DaemonRecords, ComesTo, Passwords
<1>10. CASE ForgetsPid(d)
  BY <1>10, GraphAssumption DEF ForgetsPid, Failing, GraphTyped, SameHost, Same, SameFiles, Gone, GoneOn, DaemonRecords, ComesTo, Passwords
<1>11. CASE ServerComes(d)
  BY <1>11, GraphAssumption DEF ServerComes, Failing, GraphTyped, SameHost, Same, SameFiles, Gone, GoneOn, DaemonRecords, ComesTo, Passwords
<1>12. CASE ServerGoes(d)
  BY <1>12, GraphAssumption DEF ServerGoes, Failing, GraphTyped, SameHost, Same, SameFiles, Gone, GoneOn, DaemonRecords, ComesTo, Passwords
<1> QED BY <1>1, <1>2, <1>3, <1>4, <1>5, <1>6, <1>7, <1>8, <1>9, <1>10, <1>11, <1>12 DEF GraphEffect

(* What a pulse is given opens the database.                               *)
LEMMA NextUserMade ==
  ASSUME GraphTyped, Apart, Unwritten, UserMade, SameHost, NEW d \in GraphDaemons, GraphEffect(d)
  PROVE  UserMade'
<1>1. SUFFICES ASSUME host.alone, graphFaults' = 0
               PROVE  /\ \A e \in GraphDaemons : daemon'[e].at = "writes" => db'.user[daemon'[e].pulse] = e
                      /\ \A x \in GraphPulses :
                            \/ graphFile'[x] = db'.user[x]
                            \/ \E e \in GraphDaemons : daemon'[e].at = "writes" /\ daemon'[e].pulse = x
  BY DEF UserMade, SameHost
<1>2. /\ \A e \in GraphDaemons : daemon[e].at = "writes" => db.user[daemon[e].pulse] = e
      /\ \A x \in GraphPulses :
            \/ graphFile[x] = db.user[x]
            \/ \E e \in GraphDaemons : daemon[e].at = "writes" /\ daemon[e].pulse = x
  BY <1>1, Users DEF UserMade
<1>3. \/ MakesUser(d) /\ GoneOn(d, "writes")
      \/ NotesPassword(d)
      \/ /\ graphFile' = graphFile /\ db'.user = db.user
         /\ \A e \in GraphDaemons :
               /\ daemon'[e].at = "writes" <=> daemon[e].at = "writes"
               /\ daemon[e].at = "writes" => daemon'[e].pulse = daemon[e].pulse
  BY <1>1, Users
<1>4. \A e \in GraphDaemons : daemon[d].at \in Provisioning /\ daemon[e].at \in Provisioning => e = d
  BY <1>1 DEF Apart, BusyDaemon, Provisioning
<1>5. CASE MakesUser(d) /\ GoneOn(d, "writes")
  <2>1. /\ daemon[d].at = "defines" /\ graphFile' = graphFile /\ db' = WithUser(daemon[d].pulse, d)
    BY <1>5 DEF MakesUser, SameFiles
  <2>2. /\ daemon'[d].at = "writes" /\ daemon'[d].pulse = daemon[d].pulse
        /\ \A e \in GraphDaemons : e # d => daemon'[e] = daemon[e]
    BY <1>5 DEF GoneOn, Gone
  <2>3. PICK x \in GraphPulses : x = daemon[d].pulse
    BY <2>1 DEF GraphTyped
  <2>4. graphFile[x] = NoDaemon /\ \A e \in GraphDaemons : daemon[e].at # "writes"
    BY <1>1, <1>4, <2>1, <2>3 DEF Unwritten, Provisioning
  <2>5. db.user[x] = NoDaemon
    BY <1>2, <2>4
  <2>6. db'.user = [db.user EXCEPT ![x] = d]
    BY <2>1, <2>3, <2>5 DEF WithUser, GraphTyped
  <2>7. db'.user[x] = d /\ \A y \in GraphPulses : y # x => db'.user[y] = db.user[y]
    BY <2>6 DEF GraphTyped
  <2>8. \A e \in GraphDaemons : daemon'[e].at = "writes" => e = d
    BY <2>2, <2>4
  <2> QED BY <1>2, <2>1, <2>2, <2>3, <2>4, <2>7, <2>8
<1>6. CASE NotesPassword(d)
  <2>1. /\ daemon[d].at = "writes" /\ db' = db
        /\ graphFile' = [graphFile EXCEPT ![daemon[d].pulse] = d]
        /\ daemon'[d].at = "binds" /\ \A e \in GraphDaemons : e # d => daemon'[e] = daemon[e]
    BY <1>6 DEF NotesPassword, GoneOn, Gone
  <2>2. PICK x \in GraphPulses : x = daemon[d].pulse
    BY <2>1 DEF GraphTyped
  <2>3. \A e \in GraphDaemons : daemon[e].at = "writes" => e = d
    BY <1>4, <2>1 DEF Provisioning
  <2>4. graphFile'[x] = db'.user[x]
    BY <1>2, <2>1, <2>2 DEF GraphTyped
  <2>5. \A y \in GraphPulses : y # x => graphFile'[y] = graphFile[y]
    BY <2>1, <2>2 DEF GraphTyped
  <2>6. \A y \in GraphPulses : y # x => graphFile'[y] = db'.user[y]
    BY <1>2, <2>1, <2>2, <2>3, <2>5
  <2>7. \A e \in GraphDaemons : daemon'[e].at # "writes"
    BY <2>1, <2>3
  <2> QED BY <2>4, <2>6, <2>7
<1>7. CASE /\ graphFile' = graphFile /\ db'.user = db.user
           /\ \A e \in GraphDaemons :
                 /\ daemon'[e].at = "writes" <=> daemon[e].at = "writes"
                 /\ daemon[e].at = "writes" => daemon'[e].pulse = daemon[e].pulse
  BY <1>2, <1>7
<1> QED BY <1>3, <1>5, <1>6, <1>7

(* The first state.                                                        *)
LEMMA InitGraph ==
  ASSUME GraphInit
  PROVE  GraphIInv
<1>1. /\ host \in HostConfigs /\ graphFaults = 0
      /\ \A d \in GraphDaemons :
            daemon[d] = [at |-> "unborn", pulse |-> FirstPulse, root |-> NoDaemon] /\ server[d] = "none"
      /\ db = [root |-> NoDaemon, user |-> [x \in GraphPulses |-> NoDaemon]]
      /\ rootFile = NoDaemon /\ surrealPid = NoDaemon
      /\ graphFile = [x \in GraphPulses |-> NoDaemon]
  BY DEF GraphInit, FirstPulse
<1>2. /\ daemon = [d \in GraphDaemons |-> [at |-> "unborn", pulse |-> FirstPulse, root |-> NoDaemon]]
      /\ server = [d \in GraphDaemons |-> "none"]
  BY DEF GraphInit, FirstPulse
<1>3. GraphTyped
  BY <1>1, <1>2 DEF GraphTyped, Passwords, GraphSteps
<1>4. OneServes /\ Apart
  BY <1>1 DEF OneServes, Apart, BusyDaemon, Lives
<1>5. RootKept /\ Unwritten
  <2>1. \A d \in GraphDaemons : daemon[d].at = "unborn" /\ server[d] = "none"
    BY <1>1
  <2>2. RootFits
    BY <1>1 DEF RootFits
  <2>3. RootKept
    BY <2>1, <2>2 DEF RootKept
  <2>4. Unwritten
    BY <2>1 DEF Unwritten, Provisioning
  <2> QED BY <2>3, <2>4
<1>6. UserMade
  BY <1>1 DEF UserMade
<1> QED BY <1>3, <1>4, <1>5, <1>6 DEF GraphIInv

(* A step keeps them all.                                                  *)
LEMMA NextGraph ==
  ASSUME GraphIInv, [GraphNext]_graphVars
  PROVE  GraphIInv'
<1>1. GraphTyped /\ OneServes /\ Apart /\ RootKept /\ Unwritten /\ UserMade
  BY DEF GraphIInv
<1>2. CASE GraphNext
  <2>1. PICK d \in GraphDaemons : SameHost /\ GraphEffect(d)
    BY <1>1, <1>2, Effects
  <2>2. GraphTyped' /\ OneServes' /\ Apart'
    BY <1>1, <2>1, NextTyped, NextServes, NextApart
  <2>3. RootKept' /\ Unwritten' /\ UserMade'
    BY <1>1, <2>1, NextRoot, NextUnwritten, NextUserMade
  <2> QED BY <2>2, <2>3 DEF GraphIInv
<1>3. CASE UNCHANGED graphVars
  <2> USE <1>3 DEF graphVars
  <2>1. GraphTyped'
    BY <1>1 DEF GraphTyped
  <2>2. OneServes'
    BY <1>1 DEF OneServes
  <2>3. Apart'
    BY <1>1 DEF Apart, BusyDaemon, Lives
  <2>4. RootKept'
    BY <1>1 DEF RootKept, RootFits
  <2>5. Unwritten'
    BY <1>1 DEF Unwritten
  <2>6. UserMade'
    BY <1>1 DEF UserMade
  <2> QED BY <2>1, <2>2, <2>3, <2>4, <2>5, <2>6 DEF GraphIInv
<1> QED BY <1>2, <1>3

(* The daemons of a host, their server and the passwords stay as they      *)
(* should (ensure_running, provision_pulse, shutdown_if_owner).            *)
THEOREM GraphInvariance == GraphSpec => []GraphIInv
<1>1. GraphInit => GraphIInv
  BY InitGraph
<1>2. GraphIInv /\ [GraphNext]_graphVars => GraphIInv'
  BY NextGraph
<1> QED BY <1>1, <1>2, PTL DEF GraphSpec

(* A user of the database keeps its password.                              *)
LEMMA UsersStay ==
  ASSUME GraphTyped, SameHost, NEW d \in GraphDaemons, GraphEffect(d)
  PROVE  \A x \in GraphPulses : db.user[x] # NoDaemon => db'.user[x] = db.user[x]
<1>1. CASE Birth(d)
  BY <1>1, GraphAssumption DEF Birth, WithUser, GraphTyped, SameHost, Same, SameFiles, Gone, GoneOn, DaemonRecords, ComesTo, Passwords
<1>2. CASE Quietly(d)
  BY <1>2, GraphAssumption DEF Quietly, WithUser, GraphTyped, SameHost, Same, SameFiles, Gone, GoneOn, DaemonRecords, ComesTo, Passwords
<1>3. CASE DaemonDies(d)
  BY <1>3, GraphAssumption DEF DaemonDies, WithUser, GraphTyped, SameHost, Same, SameFiles, Gone, GoneOn, DaemonRecords, ComesTo, Passwords
<1>4. CASE MakesRoot(d)
  BY <1>4, GraphAssumption DEF MakesRoot, WithUser, GraphTyped, SameHost, Same, SameFiles, Gone, GoneOn, DaemonRecords, ComesTo, Passwords
<1>5. CASE StartsServer(d)
  BY <1>5, GraphAssumption DEF StartsServer, WithUser, GraphTyped, SameHost, Same, SameFiles, Gone, GoneOn, DaemonRecords, ComesTo, Passwords
<1>6. CASE NotesPid(d)
  BY <1>6, GraphAssumption DEF NotesPid, WithUser, GraphTyped, SameHost, Same, SameFiles, Gone, GoneOn, DaemonRecords, ComesTo, Passwords
<1>7. CASE MakesUser(d)
  BY <1>7, GraphAssumption DEF MakesUser, WithUser, GraphTyped, SameHost, Same, SameFiles, Gone, GoneOn, DaemonRecords, ComesTo, Passwords
<1>8. CASE NotesPassword(d)
  BY <1>8, GraphAssumption DEF NotesPassword, WithUser, GraphTyped, SameHost, Same, SameFiles, Gone, GoneOn, DaemonRecords, ComesTo, Passwords
<1>9. CASE StopsOwn(d)
  BY <1>9, GraphAssumption DEF StopsOwn, WithUser, GraphTyped, SameHost, Same, SameFiles, Gone, GoneOn, DaemonRecords, ComesTo, Passwords
<1>10. CASE ForgetsPid(d)
  BY <1>10, GraphAssumption DEF ForgetsPid, WithUser, GraphTyped, SameHost, Same, SameFiles, Gone, GoneOn, DaemonRecords, ComesTo, Passwords
<1>11. CASE ServerComes(d)
  BY <1>11, GraphAssumption DEF ServerComes, WithUser, GraphTyped, SameHost, Same, SameFiles, Gone, GoneOn, DaemonRecords, ComesTo, Passwords
<1>12. CASE ServerGoes(d)
  BY <1>12, GraphAssumption DEF ServerGoes, WithUser, GraphTyped, SameHost, Same, SameFiles, Gone, GoneOn, DaemonRecords, ComesTo, Passwords
<1> QED BY <1>1, <1>2, <1>3, <1>4, <1>5, <1>6, <1>7, <1>8, <1>9, <1>10, <1>11, <1>12 DEF GraphEffect

(* A server is signalled by the daemon that started it.                    *)
LEMMA OwnStopped ==
  ASSUME GraphTyped, SameHost, NEW d \in GraphDaemons, GraphEffect(d)
  PROVE  \A e \in GraphDaemons : server[e] # "stopping" /\ server'[e] = "stopping" => daemon[e].at = "up"
<1>1. CASE Birth(d)
  BY <1>1, GraphAssumption DEF Birth, GraphTyped, SameHost, Same, SameFiles, Gone, GoneOn, DaemonRecords, ComesTo, Passwords
<1>2. CASE Quietly(d)
  BY <1>2, GraphAssumption DEF Quietly, GraphTyped, SameHost, Same, SameFiles, Gone, GoneOn, DaemonRecords, ComesTo, Passwords
<1>3. CASE DaemonDies(d)
  BY <1>3, GraphAssumption DEF DaemonDies, GraphTyped, SameHost, Same, SameFiles, Gone, GoneOn, DaemonRecords, ComesTo, Passwords
<1>4. CASE MakesRoot(d)
  BY <1>4, GraphAssumption DEF MakesRoot, GraphTyped, SameHost, Same, SameFiles, Gone, GoneOn, DaemonRecords, ComesTo, Passwords
<1>5. CASE StartsServer(d)
  BY <1>5, GraphAssumption DEF StartsServer, GraphTyped, SameHost, Same, SameFiles, Gone, GoneOn, DaemonRecords, ComesTo, Passwords
<1>6. CASE NotesPid(d)
  BY <1>6, GraphAssumption DEF NotesPid, GraphTyped, SameHost, Same, SameFiles, Gone, GoneOn, DaemonRecords, ComesTo, Passwords
<1>7. CASE MakesUser(d)
  BY <1>7, GraphAssumption DEF MakesUser, GraphTyped, SameHost, Same, SameFiles, Gone, GoneOn, DaemonRecords, ComesTo, Passwords
<1>8. CASE NotesPassword(d)
  BY <1>8, GraphAssumption DEF NotesPassword, GraphTyped, SameHost, Same, SameFiles, Gone, GoneOn, DaemonRecords, ComesTo, Passwords
<1>9. CASE StopsOwn(d)
  BY <1>9, GraphAssumption DEF StopsOwn, GraphTyped, SameHost, Same, SameFiles, Gone, GoneOn, DaemonRecords, ComesTo, Passwords
<1>10. CASE ForgetsPid(d)
  BY <1>10, GraphAssumption DEF ForgetsPid, GraphTyped, SameHost, Same, SameFiles, Gone, GoneOn, DaemonRecords, ComesTo, Passwords
<1>11. CASE ServerComes(d)
  BY <1>11, GraphAssumption DEF ServerComes, GraphTyped, SameHost, Same, SameFiles, Gone, GoneOn, DaemonRecords, ComesTo, Passwords
<1>12. CASE ServerGoes(d)
  BY <1>12, GraphAssumption DEF ServerGoes, GraphTyped, SameHost, Same, SameFiles, Gone, GoneOn, DaemonRecords, ComesTo, Passwords
<1> QED BY <1>1, <1>2, <1>3, <1>4, <1>5, <1>6, <1>7, <1>8, <1>9, <1>10, <1>11, <1>12 DEF GraphEffect

(* What a daemon has written opens the database in every state.            *)
LEMMA GraphKept ==
  ASSUME GraphIInv
  PROVE  GraphTypeOK /\ PasswordsFit
<1>1. GraphTypeOK
  BY DEF GraphIInv, GraphTyped, OneServes, GraphTypeOK
<1>2. ASSUME host.alone, graphFaults = 0, NEW x \in GraphPulses
      PROVE  UserFits(x)
  <2>1. \/ graphFile[x] = db.user[x]
        \/ \E d \in GraphDaemons : daemon[d].at = "writes" /\ daemon[d].pulse = x
    BY <1>2 DEF GraphIInv, UserMade
  <2>2. ASSUME NEW d \in GraphDaemons, daemon[d].at = "writes", daemon[d].pulse = x
        PROVE  graphFile[x] = NoDaemon
    BY <1>2, <2>2 DEF GraphIInv, Unwritten, Provisioning
  <2> QED BY <2>1, <2>2 DEF UserFits
<1>3. PasswordsFit
  BY <1>2 DEF PasswordsFit, GraphIInv, RootKept
<1> QED BY <1>1, <1>3

(* A pulse that can sign in still can after a step.                        *)
LEMMA StillSignsIn ==
  ASSUME GraphIInv, [GraphNext]_graphVars
  PROVE  [\A x \in GraphPulses :
            ~host.twins /\ graphFile[x] # NoDaemon /\ UserFits(x) => UserFits(x)']_graphVars
<1>1. SUFFICES ASSUME GraphNext, NEW x \in GraphPulses,
                      ~host.twins, graphFile[x] # NoDaemon, UserFits(x)
               PROVE  graphFile'[x] = db'.user[x]
  BY DEF UserFits
<1>2. PICK d \in GraphDaemons : SameHost /\ GraphEffect(d)
  BY <1>1, Effects DEF GraphIInv
<1>3. GraphTyped /\ Unwritten
  BY DEF GraphIInv
<1>4. graphFile[x] = db.user[x] /\ db'.user[x] = db.user[x]
  BY <1>1, <1>2, <1>3, UsersStay DEF UserFits
<1>5. graphFile' = graphFile \/ NotesPassword(d)
  BY <1>2, <1>3, Provisions
<1>6. CASE NotesPassword(d)
  BY <1>6, <1>1, <1>3, <1>4 DEF NotesPassword, Unwritten, Provisioning, GraphTyped
<1> QED BY <1>4, <1>5, <1>6

(* Nobody signals the server of another.                                   *)
LEMMA OwnersStop ==
  ASSUME GraphIInv, [GraphNext]_graphVars
  PROVE  [\A d \in GraphDaemons :
            server[d] # "stopping" /\ server'[d] = "stopping" => AtStep(d, "up")]_graphVars
<1>1. SUFFICES ASSUME GraphNext
               PROVE  \A e \in GraphDaemons :
                         server[e] # "stopping" /\ server'[e] = "stopping" => daemon[e].at = "up"
  BY DEF AtStep
<1>2. PICK d \in GraphDaemons : SameHost /\ GraphEffect(d)
  BY <1>1, Effects DEF GraphIInv
<1> QED BY <1>2, OwnStopped DEF GraphIInv

(* The passwords on disk are the database's, one that opens it keeps doing *)
(* so, and nobody stops the server of another (ensure_root_password,       *)
(* provision_pulse, shutdown_if_owner).                                    *)
THEOREM GraphKeepsItsPromises == GraphSpec => GraphHolds
<1>1. GraphSpec => []GraphIInv
  BY GraphInvariance
<1>2. GraphIInv => GraphTypeOK /\ PasswordsFit
  BY GraphKept
<1>3. GraphIInv /\ [GraphNext]_graphVars =>
         [\A x \in GraphPulses :
            ~host.twins /\ graphFile[x] # NoDaemon /\ UserFits(x) => UserFits(x)']_graphVars
  BY StillSignsIn
<1>4. GraphIInv /\ [GraphNext]_graphVars =>
         [\A d \in GraphDaemons :
            server[d] # "stopping" /\ server'[d] = "stopping" => AtStep(d, "up")]_graphVars
  BY OwnersStop
<1> QED BY <1>1, <1>2, <1>3, <1>4, PTL DEF GraphSpec, GraphHolds, SignInStays, OnlyOwnStopped

-----------------------------------------------------------------------------
(***************************************************************************)
(* The budgets of guests (GuestBudget), for any caps, guests and requests. *)
(* As long as no request took the lock behind a later reader of the clock, *)
(* the ledger's day is that of the last one, so its count is the day's     *)
(* (DayKept), and a new day has no turns yet.  A call that was never       *)
(* forgotten has as many turns as its entry says (CallKept).  A sender's   *)
(* turns in any stretch that ends at its last, with the tokens it has      *)
(* left, are at most its burst and what the stretch refilled (SenderKept). *)
(***************************************************************************)
GuestRequest == [at : {"idle", "counting"}, who : Guests \cup {NoRequest.who}, read : Nat]
PerGuest == UNION {[G -> Nat] : G \in SUBSET Guests}
Ledgers == [day : Nat, turns : Nat, seen : PerGuest, used : PerGuest]
Admission == [who : Guests, n : Nat, tick : Nat]
Pasts == [seen : [Guests -> Nat], lost : SUBSET Guests, latest : Nat, crossed : BOOLEAN]
Counting == {q \in GuestRequests : request[q].at = "counting"}
TurnsBy(g) == {c \in counted : c.who = g}
TurnsIn(g, from, to) == {c \in counted : c.who = g /\ c.tick \in from..to}
TurnsAt(d) == {c \in counted : DayOf(c.tick) = d}

BudgetTyped ==
    /\ caps \in BudgetConfigs /\ tick \in 0..caps.ticks /\ asked \in 0..caps.turns
    /\ request \in [GuestRequests -> GuestRequest]
    /\ \A q \in Counting : request[q].who \in Guests /\ request[q].read <= tick
    /\ guests \in Ledgers /\ DOMAIN guests.used = DOMAIN guests.seen
    /\ counted \in SUBSET Admission /\ IsFiniteSet(counted)
    /\ \A c \in counted : c.n < Cardinality(counted) /\ c.tick <= tick
    /\ past \in Pasts

\* A turn that is counted was asked for, and the tables have their size.
WithinBounds ==
    /\ IsFiniteSet(Counting) /\ guests.turns + Cardinality(Counting) <= asked
    /\ guests.day <= DayOf(tick)
    /\ IsFiniteSet(Tracked(guests)) /\ Cardinality(Tracked(guests)) <= caps.tracked

DayKept ==
    ~past.crossed =>
        /\ \A c \in counted : c.tick <= past.latest
        /\ IF guests.day = 0 THEN counted = {} ELSE guests.day = DayOf(past.latest)
        /\ guests.turns = Cardinality(TurnsAt(guests.day))
        /\ caps.daily > 0 => \A d \in Nat : Cardinality(TurnsAt(d)) <= caps.daily

CallKept ==
    caps.kind = "call" => \A g \in Guests \ past.lost :
        /\ g \in Tracked(guests) => Cardinality(TurnsBy(g)) = guests.used[g]
        /\ g \notin Tracked(guests) => TurnsBy(g) = {}
        /\ caps.perCall > 0 => Cardinality(TurnsBy(g)) <= caps.perCall

SenderKept ==
    caps.kind = "sender" /\ caps.burst > 0 /\ ~past.crossed => \A g \in Guests \ past.lost :
        /\ g \notin Tracked(guests) => TurnsBy(g) = {}
        /\ g \in Tracked(guests) =>
              /\ guests.used[g] <= caps.burst
              /\ \A c \in TurnsBy(g) : c.tick <= guests.seen[g]
              /\ \A from \in 0..guests.seen[g] :
                    Cardinality(TurnsIn(g, from, guests.seen[g])) + guests.used[g]
                        <= caps.burst + (guests.seen[g] - from)
        /\ \A from \in Nat : \A to \in Nat :
              from <= to => Cardinality(TurnsIn(g, from, to)) <= caps.burst + (to - from)

\* The ledger knows when each was last seen.
SeenKept ==
    ~past.crossed /\ (caps.kind = "call" \/ caps.burst > 0) =>
        /\ \A g \in Guests : past.seen[g] <= past.latest + 1
        /\ \A g \in Tracked(guests) : past.seen[g] = guests.seen[g] + 1
        /\ RecentAreTracked

BudgetIInv == BudgetTyped /\ WithinBounds /\ DayKept /\ CallKept /\ SenderKept /\ SeenKept

(* Division by a day.                                                      *)
LEMMA DivParts ==
  ASSUME NEW n \in Nat \ {0}, NEW a \in Nat
  PROVE  /\ a \div n \in Nat /\ a % n \in 0..(n - 1)
         /\ a = n * (a \div n) + (a % n)
  BY SMT
(* More has no fewer days.                                                 *)
LEMMA DivGrows ==
  ASSUME NEW n \in Nat \ {0}, NEW a \in Nat, NEW b \in Nat, a <= b
  PROVE  a \div n <= b \div n
<1>1. PICK p \in Nat, r \in Nat : p = a \div n /\ r < n /\ a = n * p + r
  BY DivParts
<1>2. PICK q \in Nat, s \in Nat : q = b \div n /\ s < n /\ b = n * q + s
  BY DivParts
<1>3. SUFFICES ASSUME q < p PROVE FALSE
  BY <1>1, <1>2
<1>4. PICK k \in Nat : p = q + 1 + k
  BY <1>3
<1>5. n * p = n * q + n + n * k
  BY <1>4
<1>6. PICK m \in Nat : m = n * k
  OBVIOUS
<1>7. PICK u \in Nat : u = n * q
  OBVIOUS
<1> QED BY <1>1, <1>2, <1>5, <1>6, <1>7

(* Later is no earlier day, and day 0 is none.                             *)
LEMMA DaysGrow ==
  ASSUME BudgetTyped, NEW s \in Nat, NEW t \in Nat
  PROVE  /\ DayOf(s) \in Nat \ {0} /\ DayOf(t) \in Nat
         /\ s <= t => DayOf(s) <= DayOf(t)
<1>1. PICK n \in Nat \ {0} : n = caps.day
  BY GuestBudgetAssumption DEF BudgetTyped
<1>2. s \div n \in Nat /\ t \div n \in Nat
  BY DivParts
<1>3. s <= t => s \div n <= t \div n
  BY DivGrows
<1>4. PICK u \in Nat, v \in Nat : u = s \div n /\ v = t \div n
  BY <1>2
<1> QED BY <1>1, <1>3, <1>4 DEF DayOf

\* What a request does once it has the lock: the day's cap turns it away
\* (Spends), or its guest's entry decides (Passes), that of a call or of a
\* sender, who may have no bucket.
TurnsOn(at) == IF guests.day = DayOf(at) THEN guests.turns ELSE 0
Untouched == guests'.seen = guests.seen /\ guests'.used = guests.used
Enters(who, at, gone, left) ==
    /\ DOMAIN guests'.seen = (DOMAIN guests.seen \ gone) \cup {who}
    /\ guests'.seen[who] = at /\ guests'.used[who] = left
    /\ \A g \in DOMAIN guests.seen \ gone :
          g # who => guests'.seen[g] = guests.seen[g] /\ guests'.used[g] = guests.used[g]
Books(q, who, at) ==
    /\ request[q].at = "counting" /\ request[q].who = who /\ request[q].read = at
    /\ request' = [request EXCEPT ![q] = NoRequest]
    /\ caps' = caps /\ tick' = tick /\ asked' = asked
    /\ guests' \in Ledgers /\ DOMAIN guests'.used = DOMAIN guests'.seen /\ guests'.day = DayOf(at)
    /\ past' \in Pasts
    /\ past'.crossed <=> past.crossed \/ at < past.latest
    /\ past'.latest = IF at > past.latest THEN at ELSE past.latest
Spends(at) ==
    /\ counted' = counted /\ guests'.turns = TurnsOn(at) /\ Untouched
    /\ past'.seen = past.seen /\ past'.lost = past.lost
Passes(who, at, gone, admits) ==
    /\ past'.seen = [past.seen EXCEPT ![who] = at + 1] /\ past'.lost = past.lost \cup gone
    /\ counted' = IF admits THEN counted \cup {[who |-> who, n |-> Cardinality(counted), tick |-> at]}
                  ELSE counted
    /\ guests'.turns = IF admits THEN TurnsOn(at) + 1 ELSE TurnsOn(at)
    /\ caps.daily > 0 => TurnsOn(at) < caps.daily
Calls(who, at, gone, left, admits) ==
    /\ caps.kind = "call" /\ gone \in Forgets(guests, who) /\ Enters(who, at, gone, left)
    /\ admits <=> caps.perCall = 0 \/ Had(guests, who) < caps.perCall
    /\ left = IF admits THEN Had(guests, who) + 1 ELSE Had(guests, who)
SendsFreely(gone, admits) ==
    caps.kind # "call" /\ caps.burst = 0 /\ gone = {} /\ Untouched /\ admits = TRUE
Sends(who, at, gone, left, admits) ==
    /\ caps.kind # "call" /\ caps.burst # 0
    /\ gone \in Forgets(guests, who) /\ Enters(who, at, gone, left)
    /\ admits <=> Refilled(guests, who, at) > 0
    /\ left = IF Refilled(guests, who, at) > 0 THEN Refilled(guests, who, at) - 1 ELSE 0
Answers(who, at, gone, left, admits) ==
    /\ Passes(who, at, gone, admits)
    /\ \/ Calls(who, at, gone, left, admits)
       \/ SendsFreely(gone, admits)
       \/ Sends(who, at, gone, left, admits)

\* An entry that is made or renewed, in a ledger that is otherwise the same.
Enter(e, l, who, gone, at, left) ==
    /\ e \in Ledgers /\ DOMAIN e.used = DOMAIN e.seen /\ e.day = l.day /\ e.turns = l.turns
    /\ DOMAIN e.seen = (DOMAIN l.seen \ gone) \cup {who}
    /\ e.seen[who] = at /\ e.used[who] = left
    /\ \A g \in DOMAIN l.seen \ gone :
          g # who => e.seen[g] = l.seen[g] /\ e.used[g] = l.used[g]

(* This is what Entry makes.                                               *)
LEMMA EntryFacts ==
  ASSUME NEW l \in Ledgers, DOMAIN l.used = DOMAIN l.seen, NEW who \in Guests,
         NEW gone, NEW at \in Nat, NEW left \in Nat
  PROVE  Enter(Entry(l, who, gone, at, left), l, who, gone, at, left)
<1> DEFINE e == Entry(l, who, gone, at, left)
<1>1. PICK G \in SUBSET Guests : l.seen \in [G -> Nat] /\ l.used \in [G -> Nat]
  <2>1. PICK G \in SUBSET Guests, H \in SUBSET Guests : l.seen \in [G -> Nat] /\ l.used \in [H -> Nat]
    BY DEF Ledgers, PerGuest
  <2>2. G = H
    BY <2>1
  <2> QED BY <2>1, <2>2
<1>2. PICK kept \in SUBSET Guests : kept = (G \ gone) \cup {who}
  OBVIOUS
<1>3. PICK seen : seen = [g \in kept |-> IF g = who THEN at ELSE l.seen[g]]
  OBVIOUS
<1>4. PICK used : used = [g \in kept |-> IF g = who THEN left ELSE l.used[g]]
  OBVIOUS
<1>5. seen \in [kept -> Nat] /\ used \in [kept -> Nat]
  BY <1>1, <1>2, <1>3, <1>4
<1>6. seen \in PerGuest /\ used \in PerGuest
  BY <1>5 DEF PerGuest
<1>7. e = [l EXCEPT !.seen = seen, !.used = used]
  BY <1>1, <1>2, <1>3, <1>4 DEF Entry, Tracked
<1> HIDE DEF e
<1>8. e \in Ledgers /\ e.seen = seen /\ e.used = used /\ e.day = l.day /\ e.turns = l.turns
  BY <1>6, <1>7 DEF Ledgers
<1>9. Enter(e, l, who, gone, at, left)
  BY <1>1, <1>2, <1>3, <1>4, <1>5, <1>8 DEF Enter
<1> QED BY <1>9 DEF e

(* A ledger of the day holds the entries of the one before.                *)
LEMMA OfDayFacts ==
  ASSUME BudgetTyped, NEW d \in Nat, NEW l, l = OfDay(d)
  PROVE  /\ l \in Ledgers /\ DOMAIN l.used = DOMAIN l.seen /\ l.day = d
         /\ l.turns = IF guests.day = d THEN guests.turns ELSE 0
         /\ l.seen = guests.seen /\ l.used = guests.used
  BY DEF BudgetTyped, OfDay, Ledgers

(* What it had left is a number.                                           *)
LEMMA HadFacts ==
  ASSUME BudgetTyped, NEW who \in Guests, NEW at \in Nat
  PROVE  /\ Had(guests, who) \in Nat /\ Refilled(guests, who, at) \in Nat
         /\ who \in Tracked(guests) =>
               guests.seen[who] \in Nat /\ guests.used[who] \in Nat /\ Had(guests, who) = guests.used[who]
<1>1. PICK G \in SUBSET Guests : guests.seen \in [G -> Nat] /\ guests.used \in [G -> Nat]
  <2>1. PICK G \in SUBSET Guests, H \in SUBSET Guests : guests.seen \in [G -> Nat] /\ guests.used \in [H -> Nat]
    BY DEF BudgetTyped, Ledgers, PerGuest
  <2>2. G = H
    BY <2>1 DEF BudgetTyped
  <2> QED BY <2>1, <2>2
<1>2. caps.burst \in Nat
  BY GuestBudgetAssumption DEF BudgetTyped
<1>3. who \in Tracked(guests) => guests.seen[who] \in Nat /\ guests.used[who] \in Nat
  BY <1>1 DEF Tracked
<1>4. Had(guests, who) \in Nat /\ (who \in Tracked(guests) => Had(guests, who) = guests.used[who])
  BY <1>2, <1>3 DEF Had
<1>5. Refilled(guests, who, at) \in Nat
  <2>1. CASE who \in Tracked(guests) /\ at > guests.seen[who]
    BY <1>3, <2>1, <1>4, <1>2 DEF Refilled
  <2>2. CASE ~(who \in Tracked(guests) /\ at > guests.seen[who])
    BY <1>2, <1>4, <2>2 DEF Refilled
  <2> QED BY <2>1, <2>2
<1> QED BY <1>3, <1>4, <1>5

(* Whoever is admitted or not, this is what it does.                       *)
LEMMA AdmitFacts ==
  ASSUME BudgetTyped, NEW q \in GuestRequests, AdmitGuest(q)
  PROVE  \E who \in Guests, at \in 0..tick :
            /\ Books(q, who, at)
            /\ \/ Spends(at)
               \/ \E gone \in SUBSET Tracked(guests), left \in Nat, admits \in BOOLEAN :
                     Answers(who, at, gone, left, admits)
<1>1. PICK who \in Guests, at \in 0..tick : who = request[q].who /\ at = request[q].read
  <2>1. request[q].at = "counting" /\ q \in Counting
    BY DEF AdmitGuest, Counting
  <2>2. request[q] \in GuestRequest /\ request[q].who \in Guests /\ request[q].read <= tick /\ tick \in Nat
    BY <2>1, GuestBudgetAssumption DEF BudgetTyped
  <2> QED BY <2>2 DEF GuestRequest
<1>2. PICK l : l = OfDay(DayOf(at))
  OBVIOUS
<1>3. at \in Nat /\ DayOf(at) \in Nat
  BY DaysGrow DEF BudgetTyped
<1>4. /\ l \in Ledgers /\ DOMAIN l.used = DOMAIN l.seen /\ l.day = DayOf(at) /\ l.turns = TurnsOn(at)
      /\ l.seen = guests.seen /\ l.used = guests.used
  BY <1>2, <1>3, OfDayFacts DEF TurnsOn
<1>5. /\ request[q].at = "counting" /\ request' = [request EXCEPT ![q] = NoRequest]
      /\ caps' = caps /\ tick' = tick /\ asked' = asked
      /\ IF DaySpent(l)
         THEN guests' = l /\ counted' = counted /\ past' = Passed(past, at)
         ELSE \E taken \in Taken(l, who, at) :
                /\ guests' = IF taken.admits THEN [taken.after EXCEPT !.turns = @ + 1] ELSE taken.after
                /\ counted' = IF taken.admits
                              THEN counted \cup {[who |-> who, n |-> Cardinality(counted), tick |-> at]}
                              ELSE counted
                /\ past' = [Passed(past, at) EXCEPT !.seen[who] = at + 1, !.lost = @ \cup taken.gone]
  BY <1>1, <1>2 DEF AdmitGuest
<1>6. PICK p : p = Passed(past, at)
  OBVIOUS
<1>7. /\ p \in Pasts /\ p.seen = past.seen /\ p.lost = past.lost
      /\ p.crossed <=> past.crossed \/ at < past.latest
      /\ p.latest = IF at > past.latest THEN at ELSE past.latest
  BY <1>3, <1>6 DEF Passed, BudgetTyped, Pasts
<1>8. ASSUME guests' \in Ledgers, DOMAIN guests'.used = DOMAIN guests'.seen, guests'.day = DayOf(at),
             past' \in Pasts, past'.crossed = p.crossed, past'.latest = p.latest
      PROVE  Books(q, who, at)
  BY <1>1, <1>5, <1>7, <1>8 DEF Books
<1>9. CASE DaySpent(l)
  BY <1>5, <1>6, <1>9, <1>4, <1>7, <1>8 DEF Spends, Untouched
<1>10. CASE ~DaySpent(l)
  <2>1. PICK taken \in Taken(l, who, at) :
            /\ guests' = IF taken.admits THEN [taken.after EXCEPT !.turns = @ + 1] ELSE taken.after
            /\ counted' = IF taken.admits
                          THEN counted \cup {[who |-> who, n |-> Cardinality(counted), tick |-> at]}
                          ELSE counted
            /\ past' = [p EXCEPT !.seen[who] = at + 1, !.lost = @ \cup taken.gone]
    BY <1>5, <1>6, <1>10
  <2>2. caps.daily > 0 => TurnsOn(at) < caps.daily
    BY <1>4, <1>10, GuestBudgetAssumption DEF DaySpent, BudgetTyped, Ledgers
  <2>3. Tracked(l) = Tracked(guests) /\ Forgets(l, who) = Forgets(guests, who)
    BY <1>4 DEF Forgets, Tracked, Oldest
  <2>4. Had(l, who) = Had(guests, who) /\ Refilled(l, who, at) = Refilled(guests, who, at)
    BY <1>4 DEF Had, Refilled, Tracked
  <2>5. \A gone \in Forgets(guests, who) : gone \in SUBSET Tracked(guests)
    BY DEF Forgets, Oldest
  <2>6. PICK h \in Nat, r \in Nat : h = Had(guests, who) /\ r = Refilled(guests, who, at)
    BY <1>3, HadFacts
  <2>7. \E gone \in SUBSET Tracked(guests), left \in Nat, admits \in BOOLEAN :
           /\ taken.gone = gone /\ taken.admits = admits
           /\ taken.after \in Ledgers /\ DOMAIN taken.after.used = DOMAIN taken.after.seen
           /\ taken.after.day = l.day /\ taken.after.turns = l.turns
           /\ \/ /\ caps.kind = "call" /\ gone \in Forgets(guests, who)
                 /\ taken.after = Entry(l, who, gone, at, left)
                 /\ admits <=> caps.perCall = 0 \/ h < caps.perCall
                 /\ left = IF admits THEN h + 1 ELSE h
              \/ caps.kind # "call" /\ caps.burst = 0 /\ gone = {} /\ taken.after = l /\ admits = TRUE
              \/ /\ caps.kind # "call" /\ caps.burst # 0 /\ gone \in Forgets(guests, who)
                 /\ taken.after = Entry(l, who, gone, at, left)
                 /\ admits <=> r > 0
                 /\ left = IF r > 0 THEN r - 1 ELSE 0
    <3>1. CASE caps.kind = "call"
      <4>1. PICK admits \in BOOLEAN : admits <=> caps.perCall = 0 \/ h < caps.perCall
        OBVIOUS
      <4>2. PICK left \in Nat : left = IF admits THEN h + 1 ELSE h
        OBVIOUS
      <4>3. PICK gone \in Forgets(guests, who) :
               taken = [after |-> Entry(l, who, gone, at, left), gone |-> gone, admits |-> admits]
        BY <3>1, <2>1, <2>3, <2>4, <2>6, <4>1, <4>2 DEF Taken, TakeCallTurn
      <4>4. gone \in SUBSET Tracked(guests)
        BY <2>5
      <4>5. PICK e : e = Entry(l, who, gone, at, left)
        OBVIOUS
      <4>6. Enter(e, l, who, gone, at, left)
        BY <1>3, <1>4, <4>5, EntryFacts
      <4>7. taken.after = e /\ taken.gone = gone /\ taken.admits = admits
        BY <4>3, <4>5
      <4> QED BY <3>1, <4>1, <4>2, <4>4, <4>5, <4>6, <4>7 DEF Enter
    <3>2. CASE caps.kind # "call" /\ caps.burst = 0
      <4>1. taken = [after |-> l, gone |-> {}, admits |-> TRUE]
        BY <3>2, <2>1 DEF Taken, TakeSenderToken
      <4>2. taken.after = l /\ taken.gone = {} /\ taken.admits = TRUE
        BY <4>1
      <4> QED BY <1>4, <3>2, <4>2
    <3>3. CASE caps.kind # "call" /\ caps.burst # 0
      <4>1. PICK admits \in BOOLEAN : admits <=> r > 0
        OBVIOUS
      <4>2. PICK left \in Nat : left = IF r > 0 THEN r - 1 ELSE 0
        OBVIOUS
      <4>3. PICK gone \in Forgets(guests, who) :
               taken = [after |-> Entry(l, who, gone, at, left), gone |-> gone, admits |-> admits]
        BY <3>3, <2>1, <2>3, <2>4, <2>6, <4>1, <4>2 DEF Taken, TakeSenderToken
      <4>4. gone \in SUBSET Tracked(guests)
        BY <2>5
      <4>5. PICK e : e = Entry(l, who, gone, at, left)
        OBVIOUS
      <4>6. Enter(e, l, who, gone, at, left)
        BY <1>3, <1>4, <4>5, EntryFacts
      <4>7. taken.after = e /\ taken.gone = gone /\ taken.admits = admits
        BY <4>3, <4>5
      <4> QED BY <3>3, <4>1, <4>2, <4>4, <4>5, <4>6, <4>7 DEF Enter
    <3> QED BY <3>1, <3>2, <3>3
  <2>8. PICK gone \in SUBSET Tracked(guests), left \in Nat, admits \in BOOLEAN :
           /\ taken.gone = gone /\ taken.admits = admits
           /\ taken.after \in Ledgers /\ DOMAIN taken.after.used = DOMAIN taken.after.seen
           /\ taken.after.day = l.day /\ taken.after.turns = l.turns
           /\ \/ /\ caps.kind = "call" /\ gone \in Forgets(guests, who)
                 /\ taken.after = Entry(l, who, gone, at, left)
                 /\ admits <=> caps.perCall = 0 \/ h < caps.perCall
                 /\ left = IF admits THEN h + 1 ELSE h
              \/ caps.kind # "call" /\ caps.burst = 0 /\ gone = {} /\ taken.after = l /\ admits = TRUE
              \/ /\ caps.kind # "call" /\ caps.burst # 0 /\ gone \in Forgets(guests, who)
                 /\ taken.after = Entry(l, who, gone, at, left)
                 /\ admits <=> r > 0
                 /\ left = IF r > 0 THEN r - 1 ELSE 0
    BY <2>7
  <2>9. PICK e \in Ledgers : e = taken.after
    BY <2>8
  <2>10. /\ guests' \in Ledgers /\ guests'.seen = e.seen /\ guests'.used = e.used /\ guests'.day = e.day
         /\ guests'.turns = IF admits THEN e.turns + 1 ELSE e.turns
    BY <2>1, <2>8, <2>9 DEF Ledgers
  <2>11. /\ past' \in Pasts /\ past'.crossed = p.crossed /\ past'.latest = p.latest
         /\ past'.seen = [past.seen EXCEPT ![who] = at + 1] /\ past'.lost = past.lost \cup gone
    <3>1. PICK s : s = [past.seen EXCEPT ![who] = at + 1]
      OBVIOUS
    <3>2. past' = [p EXCEPT !.seen = s, !.lost = past.lost \cup gone]
      BY <1>7, <2>1, <2>8, <3>1 DEF Pasts
    <3>3. s \in [Guests -> Nat] /\ past.lost \cup gone \in SUBSET Guests
      BY <1>3, <2>8, <3>1 DEF BudgetTyped, Pasts, Tracked, Ledgers, PerGuest
    <3> QED BY <1>7, <3>1, <3>2, <3>3 DEF Pasts
  <2>12. Books(q, who, at)
    BY <1>4, <1>8, <2>8, <2>9, <2>10, <2>11
  <2>13. Passes(who, at, gone, admits)
    BY <1>4, <2>1, <2>2, <2>8, <2>9, <2>10, <2>11 DEF Passes
  <2>14. e = Entry(l, who, gone, at, left) => Enters(who, at, gone, left)
    <3>1. Enter(Entry(l, who, gone, at, left), l, who, gone, at, left)
      BY <1>3, <1>4, EntryFacts
    <3> QED BY <3>1, <1>4, <2>10 DEF Enter, Enters
  <2>15. Calls(who, at, gone, left, admits) \/ SendsFreely(gone, admits) \/ Sends(who, at, gone, left, admits)
    BY <1>4, <2>6, <2>8, <2>9, <2>10, <2>14 DEF Calls, SendsFreely, Sends, Untouched
  <2>16. Answers(who, at, gone, left, admits)
    BY <2>13, <2>15 DEF Answers
  <2> QED BY <2>12, <2>16
<1> QED BY <1>9, <1>10

(* One more is one more.                                                   *)
LEMMA OneMore ==
  ASSUME NEW S, IsFiniteSet(S), NEW T \in SUBSET S, NEW c, c \notin S
  PROVE  /\ IsFiniteSet(T) /\ Cardinality(T) \in Nat /\ Cardinality(T) <= Cardinality(S)
         /\ IsFiniteSet(T \cup {c}) /\ Cardinality(T \cup {c}) = Cardinality(T) + 1
<1>1. IsFiniteSet(T) /\ Cardinality(T) <= Cardinality(S)
  BY FS_Subset
<1>2. c \notin T
  OBVIOUS
<1> QED BY <1>1, <1>2, FS_AddElement, FS_CardinalityType, Zenon

(* An admission is a new one.                                              *)
LEMMA NewAdmission ==
  ASSUME BudgetTyped, NEW who \in Guests, NEW at \in 0..tick, NEW c,
         c = [who |-> who, n |-> Cardinality(counted), tick |-> at]
  PROVE  /\ c \in Admission /\ c \notin counted /\ c.who = who /\ c.tick = at /\ c.n = Cardinality(counted)
         /\ at \in Nat /\ at <= tick /\ tick \in Nat /\ Cardinality(counted) \in Nat
<1>1. tick \in Nat /\ IsFiniteSet(counted)
  BY DEF BudgetTyped
<1>2. Cardinality(counted) \in Nat
  BY <1>1, FS_CardinalityType
<1>3. c \in Admission
  BY <1>1, <1>2 DEF Admission
<1>4. \A b \in counted : b.n < Cardinality(counted)
  BY DEF BudgetTyped
<1>5. c \notin counted
  BY <1>2, <1>4
<1> QED BY <1>1, <1>2, <1>3, <1>5

(* A request that has been answered is none.                               *)
LEMMA AnsweredFacts ==
  ASSUME BudgetTyped, NEW q \in GuestRequests, NEW who \in Guests, NEW at, Books(q, who, at)
  PROVE  /\ request' \in [GuestRequests -> GuestRequest]
         /\ q \in Counting /\ Counting' = Counting \ {q}
         /\ \A r \in Counting' : request'[r] = request[r]
<1>1. request' = [request EXCEPT ![q] = NoRequest] /\ request[q].at = "counting"
  BY DEF Books
<1>2. NoRequest \in GuestRequest /\ NoRequest.at = "idle"
  BY DEF NoRequest, GuestRequest
<1>3. request \in [GuestRequests -> GuestRequest]
  BY DEF BudgetTyped
<1>4. PICK none \in GuestRequest : none = NoRequest /\ none.at = "idle"
  BY <1>2
<1>5. request' = [request EXCEPT ![q] = none]
  BY <1>1, <1>4
<1> QED BY <1>1, <1>3, <1>4, <1>5 DEF Counting

(* The types are kept.                                                     *)
LEMMA AdmitTyped ==
  ASSUME BudgetTyped, NEW q \in GuestRequests, AdmitGuest(q)
  PROVE  BudgetTyped'
<1>1. PICK who \in Guests, at \in 0..tick :
         /\ Books(q, who, at)
         /\ \/ Spends(at)
            \/ \E gone \in SUBSET Tracked(guests), left \in Nat, admits \in BOOLEAN :
                  Answers(who, at, gone, left, admits)
  BY AdmitFacts
<1>2. /\ caps' = caps /\ tick' = tick /\ asked' = asked /\ guests' \in Ledgers
      /\ DOMAIN guests'.used = DOMAIN guests'.seen /\ past' \in Pasts
  BY <1>1 DEF Books
<1>3. /\ request' \in [GuestRequests -> GuestRequest]
      /\ \A r \in Counting' : request'[r].who \in Guests /\ request'[r].read <= tick
  BY <1>1, AnsweredFacts DEF BudgetTyped
<1>4. PICK c : c = [who |-> who, n |-> Cardinality(counted), tick |-> at]
  OBVIOUS
<1>5. counted' = counted \/ counted' = counted \cup {c}
  BY <1>1, <1>4 DEF Spends, Answers, Passes
<1>6. /\ c \in Admission /\ c \notin counted /\ c.tick = at /\ c.n = Cardinality(counted)
      /\ at <= tick /\ Cardinality(counted) \in Nat
  BY <1>4, NewAdmission
<1>7. /\ counted \in SUBSET Admission /\ IsFiniteSet(counted)
      /\ \A b \in counted : b.n < Cardinality(counted) /\ b.tick <= tick
  BY DEF BudgetTyped
<1>8. /\ counted' \in SUBSET Admission /\ IsFiniteSet(counted')
      /\ \A b \in counted' : b.n < Cardinality(counted') /\ b.tick <= tick
  <2>1. CASE counted' = counted
    BY <1>7, <2>1
  <2>2. CASE counted' = counted \cup {c}
    <3>1. IsFiniteSet(counted') /\ Cardinality(counted') = Cardinality(counted) + 1
      BY <1>6, <1>7, <2>2, OneMore
    <3>2. counted' \in SUBSET Admission
      BY <1>6, <1>7, <2>2
    <3>3. \A b \in counted' : b.n < Cardinality(counted) + 1 /\ b.tick <= tick
      BY <1>7, <1>6, <2>2 DEF Admission
    <3> QED BY <3>1, <3>2, <3>3
  <2> QED BY <1>5, <2>1, <2>2
<1> QED BY <1>2, <1>3, <1>8 DEF BudgetTyped

(* A request that comes, and time that passes.                             *)
LEMMA ComesTyped ==
  ASSUME BudgetTyped, NEW q \in GuestRequests, NEW g \in Guests, Arrives(q, g)
  PROVE  BudgetTyped' /\ q \notin Counting /\ Counting' = Counting \cup {q}
<1>1. /\ request[q].at = "idle" /\ g \in Guests /\ asked < caps.turns /\ asked' = asked + 1
      /\ request' = [request EXCEPT ![q] = [at |-> "counting", who |-> g, read |-> tick]]
      /\ UNCHANGED <<caps, tick, guests, counted, past>>
  BY DEF Arrives
<1>2. tick \in Nat /\ caps.turns \in Nat /\ asked \in 0..caps.turns
  BY GuestBudgetAssumption DEF BudgetTyped
<1>3. PICK r \in GuestRequest : r = [at |-> "counting", who |-> g, read |-> tick]
  BY <1>2 DEF GuestRequest
<1>4. r.at = "counting" /\ r.who = g /\ r.read = tick
  BY <1>3
<1>5. request \in [GuestRequests -> GuestRequest] /\ request' = [request EXCEPT ![q] = r]
  BY <1>1, <1>3 DEF BudgetTyped
<1>6. /\ request' \in [GuestRequests -> GuestRequest] /\ request'[q] = r
      /\ \A p \in GuestRequests : p # q => request'[p] = request[p]
  BY <1>5
<1>7. q \notin Counting /\ Counting' = Counting \cup {q}
  BY <1>1, <1>4, <1>6 DEF Counting
<1>8. \A p \in Counting' : request'[p].who \in Guests /\ request'[p].read <= tick
  BY <1>2, <1>4, <1>6, <1>7 DEF BudgetTyped, Counting
<1>9. asked' \in 0..caps.turns
  BY <1>1, <1>2
<1> QED BY <1>1, <1>6, <1>7, <1>8, <1>9 DEF BudgetTyped

(* The clock ticks.                                                        *)
LEMMA TicksTyped ==
  ASSUME BudgetTyped, TimePasses
  PROVE  BudgetTyped' /\ Counting' = Counting
<1>1. tick < caps.ticks /\ tick' = tick + 1 /\ UNCHANGED <<caps, request, guests, asked, counted, past>>
  BY DEF TimePasses
<1>2. caps.ticks \in Nat /\ tick \in 0..caps.ticks
  BY GuestBudgetAssumption DEF BudgetTyped
<1>3. tick' \in 0..caps.ticks
  BY <1>1, <1>2
<1>4. Counting' = Counting
  BY <1>1 DEF Counting
<1>5. \A q \in Counting' : request'[q].who \in Guests /\ request'[q].read <= tick'
  BY <1>1, <1>2, <1>4 DEF BudgetTyped, Counting, GuestRequest
<1>6. \A c \in counted' : c.n < Cardinality(counted') /\ c.tick <= tick'
  BY <1>1, <1>2 DEF BudgetTyped, Admission
<1>7. /\ caps' \in BudgetConfigs /\ asked' \in 0..caps'.turns /\ tick' \in 0..caps'.ticks
      /\ request' \in [GuestRequests -> GuestRequest]
      /\ guests' \in Ledgers /\ DOMAIN guests'.used = DOMAIN guests'.seen
      /\ counted' \in SUBSET Admission /\ IsFiniteSet(counted') /\ past' \in Pasts
  BY <1>1, <1>3 DEF BudgetTyped
<1>8. BudgetTyped'
  BY <1>5, <1>6, <1>7 DEF BudgetTyped
<1> QED BY <1>4, <1>8

(* How many are tracked: one that comes for one that is forgotten.         *)
LEMMA TrackedFacts ==
  ASSUME BudgetTyped, WithinBounds, NEW who \in Guests, NEW at, NEW gone \in SUBSET Tracked(guests),
         NEW left, gone \in Forgets(guests, who), Enters(who, at, gone, left)
  PROVE  IsFiniteSet(Tracked(guests)') /\ Cardinality(Tracked(guests)') <= caps.tracked
<1>1. PICK T : T = Tracked(guests)
  OBVIOUS
<1>2. PICK n \in Nat \ {0} : n = caps.tracked
  BY GuestBudgetAssumption DEF BudgetTyped
<1>3. IsFiniteSet(T) /\ Cardinality(T) \in Nat /\ Cardinality(T) <= n
  BY <1>1, <1>2, FS_CardinalityType DEF WithinBounds
<1>4. Tracked(guests)' = (T \ gone) \cup {who}
  BY <1>1 DEF Enters, Tracked
<1>5. CASE who \in T
  BY <1>1, <1>5, <1>4, <1>2, <1>3 DEF Forgets
<1>6. CASE who \notin T /\ Cardinality(T) < n
  <2>1. gone = {}
    BY <1>1, <1>2, <1>6 DEF Forgets
  <2>2. Tracked(guests)' = T \cup {who}
    BY <1>4, <2>1
  <2>3. IsFiniteSet(T \cup {who}) /\ Cardinality(T \cup {who}) = Cardinality(T) + 1
    BY <1>3, <1>6, OneMore
  <2> QED BY <1>2, <1>3, <1>6, <2>2, <2>3
<1>7. CASE who \notin T /\ ~(Cardinality(T) < n)
  <2>1. PICK g \in T : gone = {g}
    BY <1>1, <1>2, <1>7 DEF Forgets, Oldest
  <2>2. PICK U \in SUBSET T : U = T \ {g}
    OBVIOUS
  <2>3. Cardinality(T \ {g}) = Cardinality(T) - 1
    BY <1>3, <2>1, FS_RemoveElement, Zenon
  <2>4. IsFiniteSet(U \cup {who}) /\ Cardinality(U \cup {who}) = Cardinality(U) + 1
    BY <1>3, <1>7, <2>2, OneMore
  <2>5. Tracked(guests)' = U \cup {who}
    BY <1>4, <2>1, <2>2
  <2> QED BY <1>2, <1>3, <2>2, <2>3, <2>4, <2>5
<1> QED BY <1>5, <1>6, <1>7

(* A turn that is counted was asked for.                                   *)
LEMMA AdmitBounds ==
  ASSUME BudgetTyped, WithinBounds, NEW q \in GuestRequests, AdmitGuest(q)
  PROVE  WithinBounds'
<1>1. PICK who \in Guests, at \in 0..tick :
         /\ Books(q, who, at)
         /\ \/ Spends(at)
            \/ \E gone \in SUBSET Tracked(guests), left \in Nat, admits \in BOOLEAN :
                  Answers(who, at, gone, left, admits)
  BY AdmitFacts
<1>2. caps' = caps /\ tick' = tick /\ asked' = asked /\ guests'.day = DayOf(at)
  BY <1>1 DEF Books
<1>3. tick \in Nat /\ at \in Nat /\ at <= tick /\ guests.turns \in Nat /\ asked \in Nat
  BY GuestBudgetAssumption DEF BudgetTyped, Ledgers
<1>4. guests'.day <= DayOf(tick)'
  BY <1>3, DaysGrow, <1>2 DEF DayOf
<1>5. TurnsOn(at) \in Nat /\ TurnsOn(at) <= guests.turns
  BY <1>3 DEF TurnsOn
<1>6. guests'.turns = TurnsOn(at) \/ guests'.turns = TurnsOn(at) + 1
  BY <1>1 DEF Spends, Answers, Passes
<1>7. guests'.turns \in Nat /\ guests'.turns <= guests.turns + 1
  BY <1>3, <1>5, <1>6
<1>8. /\ IsFiniteSet(Counting') /\ Cardinality(Counting') = Cardinality(Counting) - 1
      /\ Cardinality(Counting) \in Nat
  BY <1>1, AnsweredFacts, FS_RemoveElement, FS_CardinalityType DEF WithinBounds
<1>9. guests'.turns + Cardinality(Counting') <= asked
  BY <1>3, <1>7, <1>8 DEF WithinBounds
<1>10. IsFiniteSet(Tracked(guests)') /\ Cardinality(Tracked(guests)') <= caps.tracked
  <2>1. CASE Untouched
    BY <2>1 DEF Tracked, Untouched, WithinBounds
  <2>2. ASSUME NEW gone \in SUBSET Tracked(guests), NEW left \in Nat, NEW admits \in BOOLEAN,
               Answers(who, at, gone, left, admits), ~Untouched
        PROVE  IsFiniteSet(Tracked(guests)') /\ Cardinality(Tracked(guests)') <= caps.tracked
    BY <2>2, TrackedFacts DEF Answers, Calls, Sends, SendsFreely
  <2> QED BY <1>1, <2>1, <2>2 DEF Spends
<1> QED BY <1>2, <1>4, <1>8, <1>9, <1>10 DEF WithinBounds

(* A tick and an arrival stay within them, too.                            *)
LEMMA OtherBounds ==
  ASSUME BudgetTyped, WithinBounds
  PROVE  /\ TimePasses => WithinBounds'
         /\ \A q \in GuestRequests, g \in Guests : Arrives(q, g) => WithinBounds'
<1>1. tick \in Nat /\ guests.turns \in Nat /\ asked \in Nat /\ guests.day \in Nat
  BY GuestBudgetAssumption DEF BudgetTyped, Ledgers
<1>2. ASSUME TimePasses
      PROVE  WithinBounds'
  <2>1. tick' = tick + 1 /\ UNCHANGED <<caps, guests, asked>>
    BY <1>2 DEF TimePasses
  <2>2. Counting' = Counting
    BY <1>2, TicksTyped
  <2>3. PICK t \in Nat : t = tick + 1
    BY <1>1
  <2>4. DayOf(tick) <= DayOf(t) /\ DayOf(tick) \in Nat /\ DayOf(t) \in Nat
    BY <1>1, <2>3, DaysGrow
  <2>5. DayOf(tick)' = DayOf(t)
    BY <2>1, <2>3 DEF DayOf
  <2>6. guests'.day <= DayOf(tick)'
    BY <1>1, <2>1, <2>4, <2>5 DEF WithinBounds
  <2> QED BY <2>1, <2>2, <2>6 DEF WithinBounds, Tracked
<1>3. ASSUME NEW q \in GuestRequests, NEW g \in Guests, Arrives(q, g)
      PROVE  WithinBounds'
  <2>1. asked' = asked + 1 /\ UNCHANGED <<caps, tick, guests>>
    BY <1>3 DEF Arrives
  <2>2. q \notin Counting /\ Counting' = Counting \cup {q}
    BY <1>3, ComesTyped
  <2>3. PICK C : C = Counting
    OBVIOUS
  <2>4. IsFiniteSet(C) /\ C \in SUBSET C
    BY <2>3 DEF WithinBounds
  <2>5. IsFiniteSet(C \cup {q}) /\ Cardinality(C \cup {q}) = Cardinality(C) + 1 /\ Cardinality(C) \in Nat
    BY <2>2, <2>3, <2>4, OneMore
  <2>6. guests'.turns + Cardinality(Counting') <= asked'
    BY <1>1, <2>1, <2>2, <2>3, <2>5 DEF WithinBounds
  <2>7. DayOf(tick)' = DayOf(tick)
    BY <2>1 DEF DayOf
  <2> QED BY <2>1, <2>2, <2>3, <2>5, <2>6, <2>7 DEF WithinBounds, Tracked
<1> QED BY <1>2, <1>3

(* The count of the day is that of the ledger.                             *)
LEMMA AdmitDay ==
  ASSUME BudgetTyped, DayKept, NEW q \in GuestRequests, AdmitGuest(q)
  PROVE  DayKept'
<1>1. PICK who \in Guests, at \in 0..tick :
         /\ Books(q, who, at)
         /\ \/ Spends(at)
            \/ \E gone \in SUBSET Tracked(guests), left \in Nat, admits \in BOOLEAN :
                  Answers(who, at, gone, left, admits)
  BY AdmitFacts
<1>2. /\ caps' = caps /\ guests'.day = DayOf(at)
      /\ past'.crossed <=> past.crossed \/ at < past.latest
      /\ past'.latest = IF at > past.latest THEN at ELSE past.latest
  BY <1>1 DEF Books
<1>3. PICK c : c = [who |-> who, n |-> Cardinality(counted), tick |-> at]
  OBVIOUS
<1>4. c \notin counted /\ c.tick = at /\ at \in Nat /\ c \in Admission
  BY <1>3, NewAdmission
<1>5. /\ past.latest \in Nat /\ past.crossed \in BOOLEAN /\ guests.day \in Nat /\ guests.turns \in Nat
      /\ counted \in SUBSET Admission /\ IsFiniteSet(counted) /\ caps.daily \in Nat
  BY GuestBudgetAssumption DEF BudgetTyped, Pasts, Ledgers
<1>6. SUFFICES ASSUME ~past'.crossed
               PROVE  /\ \A b \in counted' : b.tick <= past'.latest
                      /\ IF guests'.day = 0 THEN counted' = {} ELSE guests'.day = DayOf(past'.latest)
                      /\ guests'.turns = Cardinality(TurnsAt(guests.day)')
                      /\ caps.daily > 0 => \A d \in Nat : Cardinality(TurnsAt(d)') <= caps.daily
  BY <1>2 DEF DayKept, TurnsAt, DayOf
<1>7. ~past.crossed /\ past.latest <= at /\ past'.latest = at
  BY <1>2, <1>4, <1>5, <1>6
<1>8. /\ \A b \in counted : b.tick <= past.latest /\ b.tick \in Nat /\ b.tick <= at
      /\ IF guests.day = 0 THEN counted = {} ELSE guests.day = DayOf(past.latest)
      /\ guests.turns = Cardinality(TurnsAt(guests.day))
      /\ caps.daily > 0 => \A d \in Nat : Cardinality(TurnsAt(d)) <= caps.daily
  BY <1>5, <1>7, <1>4 DEF Admission, DayKept
<1>9. PICK today \in Nat \ {0} : today = DayOf(at)
  BY <1>4, DaysGrow
<1>10. TurnsOn(at) = Cardinality(TurnsAt(today))
  <2>1. CASE guests.day = today
    BY <1>8, <1>9, <2>1 DEF TurnsOn
  <2>2. CASE guests.day # today
    <3>1. ASSUME NEW b \in counted, DayOf(b.tick) = today
          PROVE  FALSE
      <4>1. guests.day # 0 /\ guests.day = DayOf(past.latest)
        BY <1>8
      <4>2. DayOf(b.tick) <= DayOf(past.latest) /\ DayOf(past.latest) <= DayOf(at)
        BY <1>4, <1>5, <1>7, <1>8, DaysGrow
      <4>3. PICK x \in Nat : x = DayOf(past.latest)
        BY <1>5, DaysGrow
      <4> QED BY <1>9, <2>2, <3>1, <4>1, <4>2, <4>3
    <3>2. TurnsAt(today) = {}
      BY <3>1 DEF TurnsAt
    <3>3. TurnsOn(at) = 0
      BY <1>9, <2>2 DEF TurnsOn
    <3> QED BY <3>2, <3>3, FS_EmptySet
  <2> QED BY <2>1, <2>2
<1>11. \A d : TurnsAt(d)' = {b \in counted' : DayOf(b.tick) = d}
  BY <1>2 DEF TurnsAt, DayOf
<1>12. CASE counted' = counted
  <2>1. \A d : TurnsAt(d)' = TurnsAt(d)
    BY <1>11, <1>12 DEF TurnsAt
  <2>2. guests'.turns = TurnsOn(at)
    BY <1>1, <1>3, <1>4, <1>12 DEF Spends, Answers, Passes
  <2>3. guests'.turns = Cardinality(TurnsAt(guests.day)')
    BY <1>2, <1>9, <1>10, <2>1, <2>2
  <2> QED BY <1>2, <1>7, <1>8, <1>9, <1>12, <2>1, <2>3
<1>13. CASE counted' = counted \cup {c}
  <2>1. guests'.turns = TurnsOn(at) + 1 /\ (caps.daily > 0 => TurnsOn(at) < caps.daily)
    BY <1>1, <1>3, <1>4, <1>13 DEF Spends, Answers, Passes
  <2>2. TurnsAt(today)' = TurnsAt(today) \cup {c}
    BY <1>4, <1>9, <1>11, <1>13 DEF TurnsAt
  <2>3. \A d : d # today => TurnsAt(d)' = TurnsAt(d)
    BY <1>4, <1>9, <1>11, <1>13 DEF TurnsAt
  <2>4. PICK T \in SUBSET counted : T = TurnsAt(today)
    BY DEF TurnsAt
  <2>5. Cardinality(T \cup {c}) = Cardinality(T) + 1 /\ Cardinality(T) \in Nat
    BY <1>4, <1>5, OneMore
  <2>6. guests'.turns = Cardinality(TurnsAt(guests.day)')
    BY <1>2, <1>9, <1>10, <2>1, <2>2, <2>4, <2>5
  <2>7. Cardinality(TurnsAt(today)') <= caps.daily \/ ~(caps.daily > 0)
    BY <1>5, <1>10, <2>1, <2>2, <2>4, <2>5
  <2>8. caps.daily > 0 => \A d \in Nat : Cardinality(TurnsAt(d)') <= caps.daily
    BY <1>8, <2>3, <2>7
  <2>9. \A b \in counted' : b.tick <= past'.latest
    BY <1>4, <1>7, <1>8, <1>13
  <2> QED BY <1>2, <1>7, <1>9, <2>6, <2>8, <2>9
<1>14. counted' = counted \/ counted' = counted \cup {c}
  BY <1>1, <1>3 DEF Spends, Answers, Passes
<1> QED BY <1>12, <1>13, <1>14

(* The turns of a call are those its entry says.                           *)
LEMMA AdmitCall ==
  ASSUME BudgetTyped, CallKept, NEW q \in GuestRequests, AdmitGuest(q)
  PROVE  CallKept'
<1>1. PICK who \in Guests, at \in 0..tick :
         /\ Books(q, who, at)
         /\ \/ Spends(at)
            \/ \E gone \in SUBSET Tracked(guests), left \in Nat, admits \in BOOLEAN :
                  Answers(who, at, gone, left, admits)
  BY AdmitFacts
<1>2. caps' = caps
  BY <1>1 DEF Books
<1>3. SUFFICES ASSUME caps.kind = "call", NEW g \in Guests, g \notin past'.lost
               PROVE  /\ g \in Tracked(guests)' => Cardinality(TurnsBy(g)') = guests'.used[g]
                      /\ g \notin Tracked(guests)' => TurnsBy(g)' = {}
                      /\ caps.perCall > 0 => Cardinality(TurnsBy(g)') <= caps.perCall
  BY <1>2 DEF CallKept
<1>4. TurnsBy(g)' = {b \in counted' : b.who = g}
  BY DEF TurnsBy
<1>5. ASSUME g \notin past.lost
      PROVE  /\ g \in Tracked(guests) => Cardinality(TurnsBy(g)) = guests.used[g]
             /\ g \notin Tracked(guests) => TurnsBy(g) = {}
             /\ caps.perCall > 0 => Cardinality(TurnsBy(g)) <= caps.perCall
  BY <1>3, <1>5 DEF CallKept
<1>6. CASE Spends(at)
  BY <1>3, <1>6, <1>5 DEF Spends, Untouched, Tracked, TurnsBy
<1>7. ASSUME NEW gone \in SUBSET Tracked(guests), NEW left \in Nat, NEW admits \in BOOLEAN,
             Answers(who, at, gone, left, admits)
      PROVE  /\ g \in Tracked(guests)' => Cardinality(TurnsBy(g)') = guests'.used[g]
             /\ g \notin Tracked(guests)' => TurnsBy(g)' = {}
             /\ caps.perCall > 0 => Cardinality(TurnsBy(g)') <= caps.perCall
  <2>1. PICK c : c = [who |-> who, n |-> Cardinality(counted), tick |-> at]
    OBVIOUS
  <2>2. c \notin counted /\ c.who = who /\ IsFiniteSet(counted)
    BY <2>1, NewAdmission DEF BudgetTyped
  <2>3. /\ counted' = IF admits THEN counted \cup {c} ELSE counted
        /\ g \notin past.lost /\ g \notin gone
    BY <1>3, <1>7, <2>1 DEF Answers, Passes
  <2>4. PICK h \in Nat : h = Had(guests, who)
    BY <1>1, HadFacts DEF BudgetTyped
  <2>5. /\ Tracked(guests)' = (Tracked(guests) \ gone) \cup {who} /\ guests'.used[who] = left
        /\ \A x \in Tracked(guests) \ gone : x # who => guests'.used[x] = guests.used[x]
        /\ admits <=> caps.perCall = 0 \/ h < caps.perCall
        /\ left = IF admits THEN h + 1 ELSE h
    BY <1>3, <1>7, <2>4 DEF Answers, Calls, Sends, SendsFreely, Enters, Tracked
  <2>6. CASE g # who
    BY <1>4, <2>2, <2>3, <2>6, <2>5, <1>5 DEF TurnsBy
  <2>7. CASE g = who
    <3>1. PICK T \in SUBSET counted : T = TurnsBy(g)
      BY DEF TurnsBy
    <3>2. Cardinality(T) = h
      <4>1. CASE g \in Tracked(guests)
        BY <2>4, <2>7, <4>1, <1>5, <2>3, <3>1 DEF Had
      <4>2. CASE g \notin Tracked(guests)
        BY <1>3, <1>5, <2>3, <2>4, <2>7, <3>1, <4>2, FS_EmptySet DEF Had
      <4> QED BY <4>1, <4>2
    <3>3. g \in Tracked(guests)' /\ guests'.used[g] = left
      BY <2>5, <2>7
    <3>4. caps.perCall \in Nat
      BY GuestBudgetAssumption DEF BudgetTyped
    <3>5. CASE admits
      BY <1>4, <2>2, <2>3, <2>7, <3>1, <3>5, OneMore, <2>5, <3>2, <2>4, <3>4, <3>3 DEF TurnsBy
    <3>6. CASE ~admits
      BY <1>4, <2>3, <3>1, <3>6, <2>5, <1>5, <3>2, <3>3 DEF TurnsBy
    <3> QED BY <3>5, <3>6
  <2> QED BY <2>6, <2>7
<1> QED BY <1>1, <1>6, <1>7

(* A clock that was taken in order.                                        *)
LEMMA InOrder ==
  ASSUME BudgetTyped, NEW q, NEW who, NEW at \in Nat, Books(q, who, at), ~past'.crossed
  PROVE  ~past.crossed /\ past.latest \in Nat /\ past.latest <= at /\ past'.latest = at
<1>1. /\ past'.crossed <=> past.crossed \/ at < past.latest
      /\ past'.latest = IF at > past.latest THEN at ELSE past.latest
  BY DEF Books
<1>2. past.latest \in Nat
  BY DEF BudgetTyped, Pasts
<1> QED BY <1>1, <1>2

(* When each was last seen is on record.                                   *)
LEMMA AdmitSeen ==
  ASSUME BudgetTyped, SeenKept, NEW q \in GuestRequests, AdmitGuest(q)
  PROVE  SeenKept'
<1>1. PICK who \in Guests, at \in 0..tick :
         /\ Books(q, who, at)
         /\ \/ Spends(at)
            \/ \E gone \in SUBSET Tracked(guests), left \in Nat, admits \in BOOLEAN :
                  Answers(who, at, gone, left, admits)
  BY AdmitFacts
<1>2. caps' = caps
  BY <1>1 DEF Books
<1>3. SUFFICES ASSUME ~past'.crossed, caps.kind = "call" \/ caps.burst > 0
               PROVE  /\ \A g \in Guests : past'.seen[g] <= past'.latest + 1
                      /\ \A g \in Tracked(guests)' : past'.seen[g] = guests'.seen[g] + 1
                      /\ \A g \in Guests \ Tracked(guests)', h \in Tracked(guests)' :
                            past'.seen[g] <= guests'.seen[h] + 1
  BY <1>2 DEF SeenKept, RecentAreTracked
<1>4. at \in Nat
  BY DEF BudgetTyped
<1>5. ~past.crossed /\ past.latest \in Nat /\ past.latest <= at /\ past'.latest = at
  BY <1>1, <1>3, <1>4, InOrder
<1>6. /\ \A g \in Guests : past.seen[g] <= past.latest + 1
      /\ \A g \in Tracked(guests) : past.seen[g] = guests.seen[g] + 1
      /\ \A g \in Guests \ Tracked(guests), h \in Tracked(guests) : past.seen[g] <= guests.seen[h] + 1
  BY <1>3, <1>5 DEF SeenKept, RecentAreTracked
<1>7. past.seen \in [Guests -> Nat] /\ Tracked(guests) \subseteq Guests
  BY DEF BudgetTyped, Pasts, Ledgers, PerGuest, Tracked
<1>8. \A g \in Guests : past.seen[g] <= at + 1
  BY <1>7, <1>4, <1>5, <1>6
<1>9. CASE Spends(at)
  BY <1>9, <1>5, <1>6, <1>8 DEF Spends, Untouched, Tracked
<1>10. ASSUME NEW gone \in SUBSET Tracked(guests), NEW left \in Nat, NEW admits \in BOOLEAN,
              Answers(who, at, gone, left, admits)
       PROVE  /\ \A g \in Guests : past'.seen[g] <= past'.latest + 1
              /\ \A g \in Tracked(guests)' : past'.seen[g] = guests'.seen[g] + 1
              /\ \A g \in Guests \ Tracked(guests)', h \in Tracked(guests)' :
                    past'.seen[g] <= guests'.seen[h] + 1
  <2>1. past'.seen = [past.seen EXCEPT ![who] = at + 1]
    BY <1>10 DEF Answers, Passes
  <2>2. past'.seen[who] = at + 1 /\ \A g \in Guests : g # who => past'.seen[g] = past.seen[g]
    BY <1>1, <1>7, <2>1
  <2>3. gone \in Forgets(guests, who) /\ Enters(who, at, gone, left)
    BY <1>3, <1>10, GuestBudgetAssumption DEF Answers, Calls, Sends, SendsFreely, BudgetTyped
  <2>4. /\ Tracked(guests)' = (Tracked(guests) \ gone) \cup {who} /\ guests'.seen[who] = at
        /\ \A g \in Tracked(guests) \ gone : g # who => guests'.seen[g] = guests.seen[g]
    BY <2>3 DEF Enters, Tracked
  <2>5. \A g \in gone : \A h \in Tracked(guests) : guests.seen[g] <= guests.seen[h]
    BY <2>3 DEF Forgets, Oldest
  <2>6. \A g \in Guests : past'.seen[g] <= past'.latest + 1
    BY <1>4, <1>5, <1>8, <2>2
  <2>7. \A g \in Tracked(guests)' : past'.seen[g] = guests'.seen[g] + 1
    BY <1>6, <1>7, <2>2, <2>4
  <2>8. ASSUME NEW g \in Guests \ Tracked(guests)', NEW h \in Tracked(guests)'
        PROVE  past'.seen[g] <= guests'.seen[h] + 1
    <3>1. g # who /\ past'.seen[g] = past.seen[g]
      BY <2>2, <2>4, <2>8
    <3>2. CASE h = who
      BY <1>8, <2>4, <3>1, <3>2
    <3>3. CASE h # who
      <4>1. h \in Tracked(guests) /\ guests'.seen[h] = guests.seen[h]
        BY <2>4, <2>8, <3>3
      <4>2. CASE g \notin Tracked(guests)
        BY <1>6, <3>1, <4>1, <4>2
      <4>3. CASE g \in Tracked(guests)
        BY <2>4, <2>8, <4>3, <1>6, <2>5, <4>1, <1>7, HadFacts, <3>1
      <4> QED BY <4>2, <4>3
    <3> QED BY <3>2, <3>3
  <2> QED BY <2>6, <2>7, <2>8
<1> QED BY <1>1, <1>9, <1>10

(* A sender's turns and tokens, by the stretches they lie in.              *)
LEMMA AdmitSender ==
  ASSUME BudgetTyped, SeenKept, SenderKept, NEW q \in GuestRequests, AdmitGuest(q)
  PROVE  SenderKept'
<1>1. PICK who \in Guests, at \in 0..tick :
         /\ Books(q, who, at)
         /\ \/ Spends(at)
            \/ \E gone \in SUBSET Tracked(guests), left \in Nat, admits \in BOOLEAN :
                  Answers(who, at, gone, left, admits)
  BY AdmitFacts
<1>2. caps' = caps
  BY <1>1 DEF Books
<1> DEFINE Kept(g, C, S, seen, used) ==
             /\ g \notin S => {b \in C : b.who = g} = {}
             /\ g \in S =>
                   /\ used <= caps.burst
                   /\ \A b \in C : b.who = g => b.tick <= seen
                   /\ \A from \in 0..seen :
                         Cardinality({b \in C : b.who = g /\ b.tick \in from..seen}) + used
                             <= caps.burst + (seen - from)
             /\ \A from \in Nat : \A to \in Nat : from <= to =>
                   Cardinality({b \in C : b.who = g /\ b.tick \in from..to}) <= caps.burst + (to - from)
<1>3. SUFFICES ASSUME caps.kind = "sender", caps.burst > 0, ~past'.crossed,
                      NEW g \in Guests, g \notin past'.lost
               PROVE  Kept(g, counted', Tracked(guests)', guests'.seen[g], guests'.used[g])
  BY <1>2 DEF SenderKept, TurnsBy, TurnsIn
<1>4. at \in Nat /\ caps.burst \in Nat
  BY GuestBudgetAssumption DEF BudgetTyped
<1>5. ~past.crossed /\ past.latest \in Nat /\ past.latest <= at /\ past'.latest = at
  BY <1>1, <1>3, <1>4, InOrder
<1>6. ASSUME g \notin past.lost
      PROVE  Kept(g, counted, Tracked(guests), guests.seen[g], guests.used[g])
  BY <1>3, <1>5, <1>6 DEF SenderKept, TurnsBy, TurnsIn
<1>7. CASE Spends(at)
  <2>1. /\ g \notin past.lost /\ counted' = counted
        /\ Tracked(guests)' = Tracked(guests) /\ guests'.used = guests.used /\ guests'.seen = guests.seen
    BY <1>3, <1>7 DEF Spends, Untouched, Tracked
  <2>2. Kept(g, counted, Tracked(guests), guests.seen[g], guests.used[g])
    BY <1>6, <2>1
  <2> HIDE DEF Kept
  <2> QED BY <2>1, <2>2
<1>8. ASSUME NEW gone \in SUBSET Tracked(guests), NEW left \in Nat, NEW admits \in BOOLEAN,
             Answers(who, at, gone, left, admits)
      PROVE  Kept(g, counted', Tracked(guests)', guests'.seen[g], guests'.used[g])
  <2>1. PICK c : c = [who |-> who, n |-> Cardinality(counted), tick |-> at]
    OBVIOUS
  <2>2. /\ c \notin counted /\ c.who = who /\ c.tick = at /\ IsFiniteSet(counted)
        /\ counted \in SUBSET Admission
    BY <2>1, NewAdmission DEF BudgetTyped
  <2>3. /\ counted' = IF admits THEN counted \cup {c} ELSE counted
        /\ g \notin past.lost /\ g \notin gone
    BY <1>3, <1>8, <2>1 DEF Answers, Passes
  <2>4. PICK r \in Nat : r = Refilled(guests, who, at)
    BY <1>4, HadFacts
  <2>5. /\ Tracked(guests)' = (Tracked(guests) \ gone) \cup {who}
        /\ guests'.seen[who] = at /\ guests'.used[who] = left
        /\ \A x \in Tracked(guests) \ gone :
              x # who => guests'.seen[x] = guests.seen[x] /\ guests'.used[x] = guests.used[x]
        /\ admits <=> r > 0
        /\ left = IF r > 0 THEN r - 1 ELSE 0
    BY <1>3, <1>8, <2>4 DEF Answers, Calls, Sends, SendsFreely, Enters, Tracked
  <2>6. Kept(g, counted, Tracked(guests), guests.seen[g], guests.used[g])
    BY <1>6, <2>3
  <2>7. CASE g # who
    BY <2>2, <2>3, <2>7, <2>5, <2>6
  <2>8. CASE g = who
    <3> DEFINE A(from, to) == {b \in counted : b.who = g /\ b.tick \in from..to}
    <3>1. r <= caps.burst
      BY <1>4, <2>4 DEF Refilled
    <3>2. \A from, to : A(from, to) \in SUBSET counted /\ Cardinality(A(from, to)) \in Nat
      BY <2>2, OneMore
    <3>3. \A b \in counted : b.tick \in Nat /\ (b.who = g => b.tick <= at)
      <4>1. \A b \in counted : b.tick \in Nat
        BY <2>2 DEF Admission
      <4>2. CASE g \in Tracked(guests)
        BY <1>4, <4>2, HadFacts, <1>3, <1>5, <2>6, <4>1 DEF SeenKept
      <4>3. CASE g \notin Tracked(guests)
        BY <2>6, <4>1, <4>3
      <4> QED BY <4>2, <4>3
    <3>4. ASSUME NEW from \in Nat, from <= at
          PROVE  Cardinality(A(from, at)) + r <= caps.burst + (at - from)
      <4>1. CASE g \in Tracked(guests)
        <5>1. PICK s \in Nat, u \in Nat : s = guests.seen[g] /\ u = guests.used[g]
          BY <1>4, <4>1, HadFacts
        <5>2. s <= at
          BY <1>3, <1>5, <4>1, <5>1, <1>4 DEF SeenKept
        <5>3. r <= u + (at - s)
          BY <1>4, <2>8, <4>1, <5>1, HadFacts, <5>2, <2>4 DEF Refilled
        <5>4. CASE from <= s
          <6>1. A(from, at) = A(from, s)
            BY <2>6, <4>1, <5>1, <1>4, <3>3, <5>2
          <6>2. Cardinality(A(from, s)) + u <= caps.burst + (s - from)
            BY <2>6, <3>4, <4>1, <5>1, <5>4
          <6>3. PICK k \in Nat : k = Cardinality(A(from, s))
            BY <3>2
          <6>4. Cardinality(A(from, at)) = k
            BY <6>1, <6>3
          <6>5. k + u <= caps.burst + (s - from)
            BY <6>2, <6>3
          <6>6. k + r <= caps.burst + (at - from)
            BY <1>4, <2>4, <3>4, <5>1, <5>2, <5>3, <6>3, <6>5
          <6> QED BY <6>4, <6>6
        <5>5. CASE ~(from <= s)
          <6>1. A(from, at) = {}
            BY <2>6, <4>1, <5>1, <1>4, <3>3, <5>5
          <6>2. Cardinality(A(from, at)) = 0
            BY <6>1, FS_EmptySet
          <6> QED BY <1>4, <3>1, <3>4, <6>2
        <5> QED BY <5>4, <5>5
      <4>2. CASE g \notin Tracked(guests)
        <5>1. A(from, at) = {}
          BY <2>6, <4>2
        <5>2. Cardinality(A(from, at)) = 0
          BY <5>1, FS_EmptySet
        <5> QED BY <1>4, <3>1, <3>4, <5>2
      <4> QED BY <4>1, <4>2
    <3>5. g \in Tracked(guests)' /\ guests'.seen[g] = at /\ guests'.used[g] = left
      BY <2>5, <2>8
    <3>6. left <= caps.burst
      BY <1>4, <2>5, <3>1
    <3>7. \A b \in counted' : b.who = g => b.tick <= at
      BY <1>4, <2>2, <2>3, <3>3
    <3> DEFINE B(from, to) == {b \in counted' : b.who = g /\ b.tick \in from..to}
    <3>8. ASSUME NEW from \in Nat, from <= at
          PROVE  Cardinality(B(from, at)) + left <= caps.burst + (at - from)
      <4>1. PICK k \in Nat : k = Cardinality(A(from, at))
        BY <3>2
      <4>2. k + r <= caps.burst + (at - from)
        BY <3>4, <3>8, <4>1
      <4>3. CASE admits
        <5>1. B(from, at) = A(from, at) \cup {c}
          BY <1>4, <2>2, <2>3, <2>8, <3>8, <4>3
        <5>2. PICK T \in SUBSET counted : T = A(from, at)
          BY <3>2
        <5>3. Cardinality(T \cup {c}) = Cardinality(T) + 1
          BY <2>2, OneMore
        <5>4. Cardinality(B(from, at)) = k + 1
          BY <4>1, <5>1, <5>2, <5>3
        <5> QED BY <1>4, <2>4, <2>5, <3>8, <4>2, <4>3, <5>4
      <4>4. CASE ~admits
        BY <2>3, <4>4, <2>4, <2>5, <4>1, <1>4, <3>8, <4>2
      <4> QED BY <4>3, <4>4
    <3>9. ASSUME NEW from \in Nat, NEW to \in Nat, from <= to
          PROVE  Cardinality(B(from, to)) <= caps.burst + (to - from)
      <4>1. CASE admits /\ from <= at /\ at <= to
        <5>1. B(from, to) = B(from, at)
          BY <1>4, <2>2, <2>3, <3>3, <3>9, <4>1
        <5>2. Cardinality(B(from, at)) + left <= caps.burst + (at - from)
          BY <3>8, <4>1
        <5>3. PICK T \in SUBSET counted : T = A(from, at)
          BY <3>2
        <5>4. B(from, at) = T \cup {c}
          BY <1>4, <2>2, <2>3, <2>8, <4>1, <5>3
        <5>5. Cardinality(T \cup {c}) = Cardinality(T) + 1 /\ Cardinality(T) \in Nat
          BY <2>2, OneMore
        <5>6. PICK k \in Nat : k = Cardinality(T) + 1
          BY <5>5
        <5>7. Cardinality(B(from, at)) = k
          BY <5>4, <5>5, <5>6
        <5>8. Cardinality(B(from, to)) = k
          BY <5>1, <5>7
        <5>9. k + left <= caps.burst + (at - from)
          BY <5>2, <5>7
        <5>10. k <= caps.burst + (to - from)
          BY <1>4, <2>8, <3>9, <4>1, <5>6, <5>9
        <5> QED BY <5>8, <5>10
      <4>2. CASE ~(admits /\ from <= at /\ at <= to)
        BY <1>4, <2>2, <2>3, <3>9, <4>2, <2>6
      <4> QED BY <4>1, <4>2
    <3> QED BY <3>5, <3>6, <3>7, <3>8, <3>9
  <2> QED BY <2>7, <2>8
<1> QED BY <1>1, <1>7, <1>8

(* Nothing of this changes when a request comes or time passes.            *)
LEMMA OthersKeep ==
  ASSUME UNCHANGED <<caps, guests, counted, past>>
  PROVE  /\ DayKept => DayKept'
         /\ CallKept => CallKept'
         /\ SenderKept => SenderKept'
         /\ SeenKept => SeenKept'
<1>1. DayKept => DayKept'
  BY DEF DayKept, TurnsAt, DayOf
<1>2. CallKept => CallKept'
  BY DEF CallKept, TurnsBy, Tracked
<1>3. SenderKept => SenderKept'
  BY DEF SenderKept, TurnsBy, TurnsIn, Tracked
<1>4. SeenKept => SeenKept'
  BY DEF SeenKept, RecentAreTracked, Tracked
<1> QED BY <1>1, <1>2, <1>3, <1>4

(* The first state.                                                        *)
LEMMA InitBudget ==
  ASSUME BudgetInit
  PROVE  BudgetIInv
<1>1. /\ caps \in BudgetConfigs /\ tick = 0 /\ asked = 0
      /\ request = [q \in GuestRequests |-> NoRequest]
      /\ guests = [day |-> 0, turns |-> 0, seen |-> [g \in {} |-> 0], used |-> [g \in {} |-> 0]]
      /\ counted = {}
      /\ past = [seen |-> [g \in Guests |-> 0], lost |-> {}, latest |-> 0, crossed |-> FALSE]
  BY DEF BudgetInit
<1>2. NoRequest \in GuestRequest /\ NoRequest.at = "idle"
  BY DEF NoRequest, GuestRequest
<1>3. Counting = {}
  BY <1>1, <1>2 DEF Counting
<1>4. PICK none : none = [g \in {} |-> 0]
  OBVIOUS
<1>5. none \in PerGuest /\ DOMAIN none = {}
  <2>1. none \in [{} -> Nat] /\ {} \in SUBSET Guests
    BY <1>4
  <2> QED BY <2>1 DEF PerGuest
<1>6. guests = [day |-> 0, turns |-> 0, seen |-> none, used |-> none]
  BY <1>1, <1>4
<1>7. guests \in Ledgers /\ DOMAIN guests.used = DOMAIN guests.seen /\ Tracked(guests) = {}
  BY <1>5, <1>6 DEF Ledgers, Tracked
<1>8. caps.ticks \in Nat /\ caps.turns \in Nat /\ caps.tracked \in Nat
  BY <1>1, GuestBudgetAssumption
<1>9. BudgetTyped
  BY <1>1, <1>8, <1>2, FS_EmptySet, <1>3, <1>7 DEF Pasts, BudgetTyped
<1>10. WithinBounds
  <2>1. DayOf(tick) \in Nat
    BY <1>1, <1>9, DaysGrow
  <2>2. IsFiniteSet({}) /\ Cardinality({}) = 0
    BY FS_EmptySet
  <2>3. guests.day = 0 /\ guests.turns = 0
    BY <1>6
  <2>4. IsFiniteSet(Counting) /\ Cardinality(Counting) = 0
    BY <1>3, <2>2
  <2>5. IsFiniteSet(Tracked(guests)) /\ Cardinality(Tracked(guests)) = 0
    BY <1>7, <2>2
  <2>6. guests.turns + Cardinality(Counting) <= asked
    BY <1>1, <2>3, <2>4
  <2> QED BY <1>8, <2>1, <2>3, <2>4, <2>5, <2>6 DEF WithinBounds
<1>11. /\ \A d : TurnsAt(d) = {}
       /\ \A g : TurnsBy(g) = {}
       /\ \A g, from, to : TurnsIn(g, from, to) = {}
  BY <1>1 DEF TurnsAt, TurnsBy, TurnsIn
<1>12. Cardinality({}) = 0
  BY FS_EmptySet
<1>13. DayKept
  <2>1. guests.day = 0 /\ guests.turns = 0 /\ caps.daily \in Nat
    BY <1>1, <1>6, GuestBudgetAssumption
  <2>2. \A d : Cardinality(TurnsAt(d)) = 0
    BY <1>11, <1>12
  <2> QED BY <1>1, <2>1, <2>2 DEF DayKept
<1>14. CallKept
  <2>1. \A g : Cardinality(TurnsBy(g)) = 0
    BY <1>11, <1>12
  <2>2. caps.perCall \in Nat
    BY <1>1, GuestBudgetAssumption
  <2> QED BY <1>7, <1>11, <2>1, <2>2 DEF CallKept
<1>15. SenderKept
  <2>1. \A g, from, to : Cardinality(TurnsIn(g, from, to)) = 0
    BY <1>11, <1>12
  <2>2. caps.burst \in Nat
    BY <1>1, GuestBudgetAssumption
  <2> QED BY <1>7, <1>11, <2>1, <2>2 DEF SenderKept
<1>16. SeenKept
  BY <1>1, <1>7 DEF SeenKept, RecentAreTracked
<1> QED BY <1>9, <1>10, <1>13, <1>14, <1>15, <1>16 DEF BudgetIInv

(* A step keeps it.                                                        *)
LEMMA NextBudget ==
  ASSUME BudgetIInv, [BudgetNext]_budgetVars
  PROVE  BudgetIInv'
<1>1. BudgetTyped /\ WithinBounds /\ DayKept /\ CallKept /\ SenderKept /\ SeenKept
  BY DEF BudgetIInv
<1>2. ASSUME NEW q \in GuestRequests, AdmitGuest(q)
      PROVE  BudgetIInv'
  BY <1>1, <1>2, AdmitTyped, AdmitBounds, AdmitDay, AdmitCall, AdmitSender, AdmitSeen
     DEF BudgetIInv
<1>3. ASSUME NEW q \in GuestRequests, NEW g \in Guests, Arrives(q, g)
      PROVE  BudgetIInv'
  BY <1>1, <1>3, ComesTyped, OtherBounds, OthersKeep DEF Arrives, BudgetIInv
<1>4. ASSUME TimePasses
      PROVE  BudgetIInv'
  BY <1>1, <1>4, TicksTyped, OtherBounds, OthersKeep DEF TimePasses, BudgetIInv
<1>5. ASSUME UNCHANGED budgetVars
      PROVE  BudgetIInv'
  <2>1. UNCHANGED <<caps, guests, counted, past>> /\ UNCHANGED <<tick, request, asked>>
    BY <1>5 DEF budgetVars
  <2>2. DayKept' /\ CallKept' /\ SenderKept' /\ SeenKept'
    BY <1>1, <2>1, OthersKeep
  <2>3. Counting' = Counting
    BY <2>1 DEF Counting
  <2>4. BudgetTyped'
    BY <1>1, <2>1, <2>3 DEF BudgetTyped
  <2>5. WithinBounds'
    BY <1>1, <2>1, <2>3 DEF WithinBounds, Tracked, DayOf
  <2> QED BY <2>2, <2>4, <2>5 DEF BudgetIInv
<1> QED BY <1>2, <1>3, <1>4, <1>5 DEF BudgetNext

(* The ledger of guests is sound in every state, however requests and the  *)
(* clock interleave (guest_budget.rs: admit).                              *)
THEOREM BudgetInvariance == BudgetSpec => []BudgetIInv
<1>1. BudgetInit => BudgetIInv
  BY InitBudget
<1>2. BudgetIInv /\ [BudgetNext]_budgetVars => BudgetIInv'
  BY NextBudget
<1> QED BY <1>1, <1>2, PTL DEF BudgetSpec

(* What a sound ledger promises.                                           *)
LEMMA BudgetKept ==
  ASSUME BudgetIInv
  PROVE  BudgetHolds
<1>1. BudgetTyped /\ WithinBounds /\ DayKept /\ CallKept /\ SenderKept /\ SeenKept
  BY DEF BudgetIInv
<1>2. tick \in Nat /\ caps.ticks \in Nat /\ tick <= caps.ticks /\ caps.perCall \in Nat /\ caps.daily \in Nat
  BY <1>1, GuestBudgetAssumption DEF BudgetTyped
<1>3. BudgetTypeOK
  <2>1. guests.turns \in 0..caps.turns
    <3>1. /\ guests.turns \in Nat /\ asked \in Nat /\ asked <= caps.turns /\ caps.turns \in Nat
          /\ guests.turns + Cardinality(Counting) <= asked
      BY <1>1, GuestBudgetAssumption DEF BudgetTyped, WithinBounds, Ledgers
    <3>2. Cardinality(Counting) \in Nat
      BY <1>1, FS_CardinalityType DEF WithinBounds
    <3> QED BY <3>1, <3>2
  <2>2. guests.day \in 0..DayOf(tick)
    BY <1>1, <1>2, DaysGrow DEF BudgetTyped, WithinBounds, Ledgers
  <2>3. Tracked(guests) \subseteq Guests /\ DOMAIN guests.used = Tracked(guests)
    BY <1>1 DEF BudgetTyped, Ledgers, PerGuest, Tracked
  <2> QED BY <1>1, <2>1, <2>2, <2>3 DEF BudgetTypeOK, WithinBounds
<1>4. DayIsCapped
  BY <1>1 DEF DayTurns, TurnsAt, DayIsCapped, DayKept
<1>5. CallIsCapped
  <2>1. SUFFICES ASSUME caps.kind = "call", caps.perCall > 0, NEW g \in Guests \ past.lost
                 PROVE  TurnsOf(g, 0, caps.ticks) <= caps.perCall
    BY DEF CallIsCapped
  <2>2. PICK T : T = TurnsBy(g)
    OBVIOUS
  <2>3. PICK S : S = {c \in counted : c.who = g /\ c.tick \in 0..caps.ticks}
    OBVIOUS
  <2>4. IsFiniteSet(counted) /\ T \subseteq counted /\ S \subseteq T
    BY <1>1, <2>2, <2>3 DEF BudgetTyped, TurnsBy
  <2>5. IsFiniteSet(T) /\ IsFiniteSet(S) /\ Cardinality(S) <= Cardinality(T)
    BY <2>4, FS_Subset, Zenon
  <2>6. Cardinality(S) \in Nat /\ Cardinality(T) \in Nat
    BY <2>5, FS_CardinalityType
  <2>7. Cardinality(T) <= caps.perCall
    BY <1>1, <2>1, <2>2 DEF CallKept
  <2>8. TurnsOf(g, 0, caps.ticks) = Cardinality(S)
    BY <2>3 DEF TurnsOf
  <2> QED BY <1>2, <2>5, <2>6, <2>7, <2>8
<1>6. SenderIsLimited
  <2>1. SUFFICES ASSUME caps.kind = "sender", caps.burst > 0, ~past.crossed,
                        NEW g \in Guests \ past.lost, NEW from \in 0..tick, NEW to \in from..tick
                 PROVE  TurnsOf(g, from, to) <= caps.burst + (to - from)
    BY DEF SenderIsLimited
  <2>2. from \in Nat /\ to \in Nat /\ from <= to
    BY <1>2
  <2>3. TurnsOf(g, from, to) = Cardinality(TurnsIn(g, from, to))
    BY DEF TurnsOf, TurnsIn
  <2> QED BY <1>1, <2>1, <2>2, <2>3 DEF SenderKept
<1>7. RecentAreTracked
  BY <1>1 DEF SeenKept, RecentAreTracked
<1> QED BY <1>3, <1>4, <1>5, <1>6, <1>7 DEF BudgetHolds

(* No day, no call and no sender has more than its turns, and asking does  *)
(* not make the count forget one (take_daily_turn, take_call_turn,         *)
(* take_sender_token).                                                     *)
THEOREM BudgetKeepsItsPromises == BudgetSpec => []BudgetHolds
<1>1. BudgetIInv => BudgetHolds
  BY BudgetKept
<1> QED BY <1>1, BudgetInvariance, PTL
=============================================================================
