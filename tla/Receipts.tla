------------------------------ MODULE Receipts ------------------------------
(* The receipt chain of one pulse (src/src/oneself): turns hand rows to a  *)
(* bounded channel and never wait; one writer appends them to a file of    *)
(* hashed lines, repairs a torn tail with a recover row, and tells what it *)
(* lost in gap rows.                                                       *)
(*                                                                         *)
(* A line is a complete row or the beginning of one (Half); a row's hash   *)
(* is its place in the file.  A failing write leaves the file with         *)
(* nothing of its record, half of it, all but its newline, or all of it    *)
(* not synced.  Left out: the search for the file and its protection, the  *)
(* sizes, the wording of rows, files this code did not write, and a panic  *)
(* of the writer.                                                          *)
EXTENDS Naturals, Sequences, FiniteSets, SequencesExt

CONSTANTS Streams,      \* the streams turns open, each once
          Capacity,     \* the channel's
          MaxFaults,    \* bound: writes and reads that fail
          MaxBoots      \* bound: processes

ASSUME ReceiptConstants ==
  /\ IsFiniteSet(Streams) /\ Capacity \in Nat \ {0}
  /\ MaxFaults \in Nat /\ MaxBoots \in Nat

VARIABLES
  file, synced,                        \* the lines, and how many sync_all covered
  phase, backlog, job, stage,          \* the writer: its boot rows, its apply
  queue, overflow, state,              \* the channel, and Health
  nextSeq, prev, poisoned, dropped,    \* ReceiptStore
  stream,                              \* the turns
  faults, boots,                       \* spent of the bounds
  acked, base, handed                  \* history: lines acknowledged; lines at
                                       \* open, and rows handed over since

fileVars    == <<file, synced>>
writerVars  == <<phase, backlog, job, stage>>
channelVars == <<queue, overflow>>
storeVars   == <<nextSeq, prev, poisoned, dropped>>
vars == <<fileVars, writerVars, channelVars, state, storeVars, stream,
          faults, boots, acked, base, handed>>

----------------------------------------------------------------------------
(* Rows (event.rs).                                                        *)

Genesis    == [kind |-> "genesis"]
Boot       == [kind |-> "boot"]
Shutdown   == [kind |-> "shutdown"]
Open(s)    == [kind |-> "open", stream |-> s]
Close(s)   == [kind |-> "close", stream |-> s]
Gap(n)     == [kind |-> "gap", dropped |-> n]
Recover(i) == [kind |-> "recover", torn |-> i]
NoJob      == [kind |-> "none"]

Half            == [kind |-> "half", nl |-> FALSE]
RowLine(n, p, e) == [kind |-> "row", seq |-> n, prev |-> p, e |-> e, nl |-> TRUE]
IsRow(l)        == l.kind = "row"

Jobs   == {Boot, Shutdown} \cup [kind: {"open", "close"}, stream: Streams]
Events == Jobs \cup {Genesis} \cup [kind: {"gap"}, dropped: Nat]
               \cup [kind: {"recover"}, torn: Nat]
Lines  == [kind: {"half"}, nl: BOOLEAN]
          \cup [kind: {"row"}, seq: Nat, prev: Nat, e: Events, nl: BOOLEAN]

----------------------------------------------------------------------------
(* The chain (chain.rs: walk, matching_recover, check_row).                *)

RowsBefore(f, i) == {j \in 1..(i - 1) : IsRow(f[j])}
RowCount(f) == Cardinality(RowsBefore(f, Len(f) + 1))
LastRow(f)  == Max(RowsBefore(f, Len(f) + 1) \cup {0})

Follows(f, i) ==
  /\ IsRow(f[i])
  /\ f[i].seq = Cardinality(RowsBefore(f, i))
  /\ f[i].prev = Max(RowsBefore(f, i) \cup {0})
  /\ f[i].seq = 0 <=> f[i].e = Genesis

Torn(f, i) == ~IsRow(f[i]) \/ ~f[i].nl

RecoveredAt(f, i) ==
  /\ i < Len(f) /\ Follows(f, i + 1) /\ f[i + 1].nl
  /\ f[i + 1].e = Recover(i)

Verifies(f) ==
  \A i \in 1..Len(f) :
    IF Torn(f, i) THEN RecoveredAt(f, i)
    ELSE /\ Follows(f, i)
         /\ f[i].e.kind = "recover" => i > 1 /\ Torn(f, i - 1)

(* Streams with an open and no later close, in order (orphan_streams).     *)
Opens(f) == {i \in 1..Len(f) : IsRow(f[i]) /\ f[i].e.kind = "open"}
ClosedAfter(f, i) ==
  \E j \in (i + 1)..Len(f) : IsRow(f[j]) /\ f[j].e = Close(f[i].e.stream)
Nth(S, k) == CHOOSE i \in S : Cardinality({j \in S : j <= i}) = k

Orphans(f) ==
  LET left == {i \in Opens(f) : ~ClosedAfter(f, i)}
  IN [k \in 1..Cardinality(left) |-> f[Nth(left, k)].e.stream]

----------------------------------------------------------------------------
(* The tail and its repair (store.rs: classify, repair_class).             *)

Closed(f) == [f EXCEPT ![Len(f)].nl = TRUE]

Class(f) ==
  IF f = <<>> \/ (Len(f) = 1 /\ ~f[1].nl /\ ~Follows(f, 1)) THEN "norow"
  ELSE IF ~Last(f).nl /\ Verifies(Closed(f)) THEN "newline"
  ELSE IF ~Verifies(Front(f)) THEN "broken"
  ELSE IF Follows(f, Len(f)) THEN IF Last(f).nl THEN "ready" ELSE "newline"
  ELSE IF RowCount(Front(f)) = 0 \/ IsRow(Last(f)) THEN "broken"
  ELSE "torn"

Repairable(f) == Class(f) \in {"ready", "newline", "torn"}

RecoverLine(f) == RowLine(RowCount(f), LastRow(f), Recover(Len(f)))

Repaired(f) ==
  CASE Class(f) = "newline" -> Closed(f)
    [] Class(f) = "torn"    -> Append(Closed(f), RecoverLine(f))
    [] OTHER                -> f

(* What a write of line l, or a repair, that fails may leave.              *)
Landings(f, l) == {f, Append(f, Half), Append(f, [l EXCEPT !.nl = FALSE]), Append(f, l)}

RepairLandings(f) ==
  CASE Class(f) = "newline" -> {f, Closed(f)}
    [] Class(f) = "torn"    -> {f} \cup Landings(Closed(f), RecoverLine(f))
    [] OTHER                -> {f}

Wrote_Unsynced(f) == file' = f /\ UNCHANGED synced    \* mutant: no sync_all

(* What a write that succeeds leaves: it is synced with all before it.     *)
Wrote(f) ==
  /\ file' = f
  /\ synced' = IF f = file THEN synced ELSE Len(f)

Fault ==
  /\ faults < MaxFaults
  /\ faults' = faults + 1
  /\ UNCHANGED synced

----------------------------------------------------------------------------
(* The process and its store.                                              *)

Init ==
  /\ file = <<>> /\ synced = 0 /\ acked = 0 /\ base = 0 /\ handed = 0
  /\ phase = "down" /\ backlog = <<>> /\ job = NoJob /\ stage = "idle"
  /\ queue = <<>> /\ overflow = 0 /\ state = "ok"
  /\ nextSeq = 0 /\ prev = 0 /\ poisoned = FALSE /\ dropped = 0
  /\ stream = [s \in Streams |-> "new"]
  /\ faults = 0 /\ boots = 0

Booting == phase = "down" /\ boots < MaxBoots /\ boots' = boots + 1

StartsWithGenesis(f) == f # <<>> /\ Follows(f, 1)

(* open_once, then the writer with its boot rows: a lost close for every   *)
(* orphan and the boot row.                                                *)
LostCloses(f) == [i \in 1..Len(Orphans(f)) |-> Close(Orphans(f)[i])]

InStep_KeepsPrev == nextSeq' = RowCount(file') /\ UNCHANGED prev     \* mutant

InStep == nextSeq' = RowCount(file') /\ prev' = LastRow(file')

OpenStore ==
  /\ Booting
  /\ \/ file = <<>> /\ Wrote(<<RowLine(0, 0, Genesis)>>)
     \/ StartsWithGenesis(file) /\ Repairable(file) /\ Wrote(Repaired(file))
  /\ Verifies(file')
  /\ phase' = "on" /\ state' = "ok"
  /\ InStep
  /\ backlog' = Append(LostCloses(file'), Boot)
  /\ base' = Len(file') /\ handed' = Len(backlog')
  /\ UNCHANGED <<job, stage, channelVars, poisoned, dropped, stream, faults, acked>>

(* Any other outcome: the daemon serves and writes nothing.                *)
OpenFails ==
  /\ Booting
  /\ \/ /\ file # <<>> /\ ~(StartsWithGenesis(file) /\ Repairable(file))
        /\ UNCHANGED <<fileVars, faults>>
     \/ /\ file = <<>> /\ Fault
        /\ file' \in Landings(<<>>, RowLine(0, 0, Genesis))
     \/ /\ StartsWithGenesis(file) /\ Repairable(file) /\ Fault
        /\ file' \in RepairLandings(file)
  /\ phase' = "refused"
  /\ UNCHANGED <<backlog, job, stage, channelVars, state, storeVars, stream,
                 acked, base, handed>>

(* What is in memory goes with the process; its turns are not dropped but  *)
(* simply gone.                                                            *)
Forget ==
  /\ phase # "down"
  /\ phase' = "down" /\ backlog' = <<>> /\ job' = NoJob /\ stage' = "idle"
  /\ queue' = <<>> /\ overflow' = 0 /\ state' = "ok"
  /\ nextSeq' = 0 /\ prev' = 0 /\ poisoned' = FALSE /\ dropped' = 0
  /\ stream' = [s \in Streams |-> IF stream[s] = "open" THEN "gone" ELSE stream[s]]
  /\ handed' = 0 /\ base' = 0
  /\ UNCHANGED <<faults, boots, acked>>

ProcessEnds == Forget /\ UNCHANGED fileVars

(* Of what was never synced any part survives.                             *)
PowerLoss ==
  /\ Forget
  /\ \E kept \in synced..(Len(file) - 1) :
       LET rest == SubSeq(file, 1, kept)
       IN file' \in {rest, Append(rest, Half), Append(rest, [file[kept + 1] EXCEPT !.nl = FALSE])}
  /\ UNCHANGED synced

----------------------------------------------------------------------------
(* Turns and the channel (receipt.rs: submit, StreamReceipt, shutdown).    *)

Room == phase = "on" /\ Len(queue) < Capacity

Send(e) ==
  /\ phase \in {"on", "closed"}
  /\ handed' = handed + 1
  /\ IF Room
     THEN queue' = Append(queue, e) /\ UNCHANGED overflow
     ELSE overflow' = overflow + 1 /\ UNCHANGED queue
  /\ UNCHANGED <<fileVars, writerVars, state, storeVars, faults, boots, acked, base>>

OpenStream(s) ==
  /\ stream[s] = "new"
  /\ stream' = [stream EXCEPT ![s] = "open"]
  /\ Send(Open(s))

(* finish, or the drop of a receipt that was not finished.                 *)
CloseStream(s) ==
  /\ stream[s] = "open"
  /\ stream' = [stream EXCEPT ![s] = "closed"]
  /\ Send(Close(s))

(* One graceful stop per process; it waits for room.                       *)
AskShutdown ==
  /\ Room /\ Shutdown \notin Range(queue) /\ job # Shutdown
  /\ queue' = Append(queue, Shutdown)
  /\ handed' = handed + 1
  /\ UNCHANGED <<fileVars, writerVars, overflow, state, storeVars, stream,
                 faults, boots, acked, base>>

----------------------------------------------------------------------------
(* The writer: apply, with ReceiptStore's append in its steps.             *)

TakeJob ==
  /\ phase = "on" /\ stage = "idle"
  /\ stage' = "taken"
  /\ \/ /\ backlog # <<>>
        /\ job' = Head(backlog) /\ backlog' = Tail(backlog) /\ UNCHANGED queue
     \/ /\ backlog = <<>> /\ queue # <<>>
        /\ job' = Head(queue) /\ queue' = Tail(queue) /\ UNCHANGED backlog
  /\ UNCHANGED <<fileVars, phase, overflow, state, storeVars, stream, faults,
                 boots, acked, base, handed>>

SwapOverflow ==
  /\ stage = "taken"
  /\ overflow' = 0
  /\ dropped' = dropped + overflow
  /\ poisoned' = (poisoned \/ overflow > 0)
  /\ stage' = IF poisoned' THEN "resync" ELSE "row"
  /\ UNCHANGED <<fileVars, phase, backlog, job, queue, state, nextSeq, prev,
                 stream, faults, boots, acked, base, handed>>

(* After the shutdown row the writer ends and the channel closes.          *)
EndJob(s) ==
  /\ job' = NoJob /\ stage' = "idle" /\ state' = s
  /\ IF job = Shutdown
     THEN phase' = "closed" /\ queue' = <<>>
     ELSE UNCHANGED <<phase, queue>>
  /\ UNCHANGED <<backlog, overflow, stream, boots, base, handed>>

(* note_failure, and the row of this job is lost too.                      *)
LoseJob ==
  /\ dropped' = dropped + 1 /\ poisoned' = TRUE
  /\ EndJob("degraded")
  /\ UNCHANGED <<nextSeq, prev, acked>>

(* A row that landed after all is not counted as dropped.                  *)
Committed_Recover(f) == Last(f).seq = nextSeq     \* mutant: a recover row counts

Committed(f) == Last(f).seq = nextSeq /\ Last(f).e.kind # "recover"

Resync ==
  /\ stage = "resync" /\ Repairable(file)
  /\ Wrote(Repaired(file)) /\ Verifies(file')
  /\ dropped' = IF Committed(file') THEN dropped - 1 ELSE dropped
  /\ poisoned' = (dropped' > 0)
  /\ InStep
  /\ stage' = IF poisoned' THEN "gap" ELSE "row"
  /\ UNCHANGED <<phase, backlog, job, channelVars, state, stream, faults,
                 boots, acked, base, handed>>

ResyncFails ==
  /\ stage = "resync"
  /\ \/ ~Repairable(file) /\ UNCHANGED <<fileVars, faults>>
     \/ Fault /\ file' \in RepairLandings(file)
  /\ LoseJob

AppendLine(e) ==
  /\ Wrote(Append(file, RowLine(nextSeq, prev, e)))
  /\ nextSeq' = nextSeq + 1 /\ prev' = Len(file')

WriteGap ==
  /\ stage = "gap"
  /\ AppendLine(Gap(dropped))
  /\ poisoned' = FALSE /\ dropped' = 0
  /\ stage' = "row"
  /\ UNCHANGED <<phase, backlog, job, channelVars, state, stream, faults,
                 boots, acked, base, handed>>

WriteRow ==
  /\ stage = "row"
  /\ AppendLine(job)
  /\ acked' = Len(file')
  /\ EndJob(IF overflow = 0 THEN "ok" ELSE "degraded")
  /\ UNCHANGED <<poisoned, dropped, faults>>

WriteFails ==
  /\ stage \in {"gap", "row"} /\ Fault
  /\ LET e == IF stage = "gap" THEN Gap(dropped) ELSE job
     IN file' \in Landings(file, RowLine(nextSeq, prev, e))
  /\ LoseJob

Writer ==
  \/ TakeJob \/ SwapOverflow \/ Resync \/ ResyncFails
  \/ WriteGap \/ WriteRow \/ WriteFails

Next ==
  \/ OpenStore \/ OpenFails \/ ProcessEnds \/ PowerLoss
  \/ \E s \in Streams : OpenStream(s) \/ CloseStream(s)
  \/ AskShutdown
  \/ Writer

Spec == Init /\ [][Next]_vars

----------------------------------------------------------------------------
(* Properties.                                                             *)

(* Every variable keeps its type; no acknowledged line is unsynced, a      *)
(* store that lost nothing is not poisoned, and the channel keeps its      *)
(* bound (store.rs: ReceiptStore; receipt.rs: Health, CAPACITY).           *)
TypeOK ==
  /\ file \in Seq(Lines)
  /\ synced \in 0..Len(file) /\ acked \in 0..synced
  /\ phase \in {"down", "on", "closed", "refused"}
  /\ stage \in {"idle", "taken", "resync", "gap", "row"}
  /\ backlog \in Seq(Jobs) /\ job \in Jobs \cup {NoJob}
  /\ job # NoJob <=> stage # "idle"
  /\ queue \in Seq(Jobs) /\ Len(queue) <= Capacity /\ overflow \in Nat
  /\ state \in {"ok", "degraded"}
  /\ nextSeq \in Nat /\ prev \in 0..Len(file)
  /\ poisoned \in BOOLEAN /\ dropped \in Nat /\ (dropped > 0 => poisoned)
  /\ stream \in [Streams -> {"new", "open", "closed", "gone"}]
  /\ faults \in 0..MaxFaults /\ boots \in 0..MaxBoots
  /\ base \in 0..Len(file) /\ handed \in Nat

(* A store that would write its next row now is in step with its file: the *)
(* file verifies, and the row will be the next of its chain, whatever      *)
(* failed and was repaired before (store.rs: resync, write_event).         *)
StoreMatchesFile ==
  phase = "on" /\ (~poisoned \/ stage = "gap") =>
    /\ Verifies(file) /\ Last(file).nl
    /\ nextSeq = RowCount(file) /\ prev = LastRow(file)

(* A row whose append was acknowledged stays where it is, through repairs, *)
(* crashes and power losses (store.rs: append; "Nothing is truncated").    *)
AcknowledgedStays ==
  [][/\ acked <= acked' /\ acked <= Len(file')
     /\ SubSeq(file', 1, acked) = SubSeq(file, 1, acked)]_vars

IsLanded(l) == IsRow(l) /\ l.e.kind \notin {"recover", "gap", "genesis"}
Landed      == Cardinality({i \in (base + 1)..Len(file) : IsLanded(file[i])})
GapOf(l)    == IF IsRow(l) /\ l.e.kind = "gap" THEN l.e.dropped ELSE 0
Told        == LET told[i \in base..Len(file)] ==
                     IF i = base THEN 0 ELSE told[i - 1] + GapOf(file[i])
               IN  told[Len(file)]
OnTheWay    == Len(queue) + Len(backlog) + (IF job = NoJob THEN 0 ELSE 1) + overflow + dropped

(* While the writer lives no row handed to it vanishes untold: it is in    *)
(* the file, in a gap row, or on its way to one of them (receipt.rs: "A    *)
(* full channel or a failed append is counted and later written").         *)
NothingVanishes == phase = "on" => handed <= Landed + Told + OnTheWay

(* A stream is closed once at most, and not opened after: a restart does   *)
(* not close as lost what a dead process closed, even by a write that      *)
(* failed (store.rs: orphan_streams).                                      *)
ClosedOnce ==
  \A i, j \in 1..Len(file) :
    i < j /\ IsRow(file[i]) /\ IsRow(file[j]) /\ file[i].e.kind = "close" =>
      file[j].e \notin {file[i].e, Open(file[i].e.stream)}

(* What the file has of the events that were handed over: each of them is  *)
(* in it, told as lost or on its way, and a stream closes once             *)
(* (receipt.rs: apply; store.rs: orphan_streams, append_recover).          *)
RowsAreAccounted == TypeOK /\ NothingVanishes /\ ClosedOnce

----------------------------------------------------------------------------
(* What the documentation says and the code does not do.                   *)

(* docs/receipts.md: after a matching recover row "the chain then warns":  *)
(* a file that verifies can be opened.                                     *)
VerifiedFilesOpen == file # <<>> /\ Verifies(file) => Repairable(file)

(* docs/receipts.md: "A row that actually landed is not counted in         *)
(* dropped": what gap rows tell is what was lost.                          *)
GapsAreExact ==
  phase = "on" /\ stage = "idle" /\ ~poisoned => handed = Landed + Told + OnTheWay
=============================================================================
