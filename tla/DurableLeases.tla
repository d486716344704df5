---------------------------- MODULE DurableLeases ----------------------------
(***************************************************************************)
(* The durable lease table: src/coordinator/durable.rs over the append-    *)
(* only event log of src/coordinator/wal.rs.                               *)
(*                                                                         *)
(* A mutation is staged on a copy of the table, its event is appended and  *)
(* fsynced, and only then is the copy installed and the lease returned.    *)
(* The steps of one append are separate actions, because a crash or a      *)
(* power loss may fall between any two of them; no other caller can,       *)
(* because the table sits behind a mutex and append never awaits.          *)
(*                                                                         *)
(* The file is a sequence of terminated lines (log), whose first synced    *)
(* lines are known to be on the platter, followed by unterminated bytes    *)
(* when torn holds.  A line written over unterminated bytes parses as      *)
(* nothing: it is recorded with kind "garbled".                            *)
(*                                                                         *)
(* issued and claim record what callers were told; they are what           *)
(* FencingContract speaks about.                                           *)
(***************************************************************************)
EXTENDS LeaseTable, Sequences

CONSTANTS
  Procs,      \* coordinator processes that may run on this directory
  NoProc,     \* nobody holds the file lock
  NoAppend,   \* no append in flight
  MaxNow,     \* bound on the clock
  MaxLog      \* bound on the number of lines ever in the file

ASSUME DurableConstants ==
  /\ NoProc \notin Procs
  /\ MaxNow \in Nat
  /\ MaxLog \in Nat
  /\ NoAppend \notin [event: LeaseEvents, table: LeaseTables,
                      before: Nat, full: BOOLEAN]

VARIABLES
  log, torn, synced,                        \* the file leases.jsonl
  lockOwner,                                \* the exclusive file lock
  phase, cursor, table, poisoned, pending,  \* per process
  now, issued, claim                        \* the clock, and what callers know

fileVars == <<log, torn, synced>>
procVars == <<lockOwner, phase, cursor, table, poisoned, pending>>
contractVars == <<now, issued, claim>>
vars == <<log, torn, synced, lockOwner, phase, cursor, table, poisoned, pending,
          now, issued, claim>>

Phases == {"down", "replaying", "open", "refused"}

(* A terminated line that does not parse as an event.                      *)
Garbled(e) == [e EXCEPT !.kind = "garbled"]
LogLines == [kind: EventKinds \cup {"garbled"}, ts: Nat, res: Resources,
             holder: Holders, lease: Lease \cup {NoLease}]

Appends == [event: LeaseEvents, table: LeaseTables, before: Nat, full: BOOLEAN]

Contract == INSTANCE FencingContract
              WITH Tokens <- 1..MaxToken, Times <- 0..(MaxNow + MaxTtl)

Init ==
  /\ log = <<>> /\ torn = FALSE /\ synced = 0
  /\ lockOwner = NoProc
  /\ phase = [p \in Procs |-> "down"]
  /\ cursor = [p \in Procs |-> 0]
  /\ table = [p \in Procs |-> EmptyTable]
  /\ poisoned = [p \in Procs |-> FALSE]
  /\ pending = [p \in Procs |-> NoAppend]
  /\ Contract!ContractInit

----------------------------------------------------------------------------
(* Opening: take the lock, repair the tail, replay line by line.           *)

(* LeaseWal::new.  A second process gets the Locked error and stays down.  *)
(* Unterminated bytes are cut off, and only then is the file fsynced.      *)

TakeLock(p) ==
  /\ phase[p] \in {"down", "refused"}
  /\ lockOwner = NoProc
  /\ lockOwner' = p
  /\ phase' = [phase EXCEPT ![p] = "replaying"]
  /\ UNCHANGED <<cursor, table, poisoned, pending>>

RepairTail ==
  /\ torn' = FALSE
  /\ synced' = IF torn THEN Len(log) ELSE synced
  /\ UNCHANGED log

OpenWal(p) ==
  /\ TakeLock(p)
  /\ RepairTail
  /\ UNCHANGED contractVars

AcceptLine(p) ==
  /\ table' = [table EXCEPT ![p] = Apply(@, log[cursor[p] + 1])]
  /\ cursor' = [cursor EXCEPT ![p] = @ + 1]
  /\ UNCHANGED <<fileVars, lockOwner, phase, poisoned, pending, contractVars>>

(* Replay fails closed: open returns the error and drops the log, and with *)
(* it the lock; the leadership loop tries again later.                     *)
RefuseLine(p) ==
  /\ phase' = [phase EXCEPT ![p] = "refused"]
  /\ lockOwner' = NoProc
  /\ cursor' = [cursor EXCEPT ![p] = 0]
  /\ table' = [table EXCEPT ![p] = EmptyTable]
  /\ UNCHANGED <<fileVars, poisoned, pending, contractVars>>

(* One line of the replay fold.                                            *)
ReplayLine(p) ==
  /\ phase[p] = "replaying" /\ cursor[p] < Len(log)
  /\ IF CanApply(table[p], log[cursor[p] + 1]) THEN AcceptLine(p) ELSE RefuseLine(p)

ReplayDone(p) ==
  /\ phase[p] = "replaying" /\ cursor[p] = Len(log)
  /\ phase' = [phase EXCEPT ![p] = "open"]
  /\ cursor' = [cursor EXCEPT ![p] = 0]
  /\ UNCHANGED <<fileVars, lockOwner, table, poisoned, pending, contractVars>>

----------------------------------------------------------------------------
(* One append.                                                             *)

Idle(p) == phase[p] = "open" /\ pending[p] = NoAppend

(* write_all: the whole line reaches the file, or a part of it.            *)
WriteLine(p, e, staged) ==
  /\ Idle(p) /\ ~poisoned[p] /\ Len(log) < MaxLog
  /\ \/ /\ log' = Append(log, IF torn THEN Garbled(e) ELSE e)
        /\ torn' = FALSE
        /\ pending' = [pending EXCEPT ![p] =
             [event |-> e, table |-> staged, before |-> Len(log), full |-> TRUE]]
     \/ /\ log' = log
        /\ torn' = TRUE
        /\ pending' = [pending EXCEPT ![p] =
             [event |-> e, table |-> staged, before |-> Len(log), full |-> FALSE]]
  /\ UNCHANGED synced

StageAcquire(p, r, h) ==
  /\ CanAcquire(table[p], r, now)
  /\ WriteLine(p, GrantEvent(table[p], r, h, now), Acquire(table[p], r, h, now))
  /\ UNCHANGED <<lockOwner, phase, cursor, table, poisoned, contractVars>>

(* A holder that calls release, or for which the coordinator's sweep does, *)
(* has given the resource up, whether or not the log takes the event.      *)
StageRelease(p, r, h) ==
  /\ CanRelease(table[p], r, h)
  /\ WriteLine(p, ReleaseEvent(r, h, now), Release(table[p], r))
  /\ claim' = [claim EXCEPT ![r].free = TRUE]
  /\ UNCHANGED <<lockOwner, phase, cursor, table, poisoned, now, issued>>

(* A grant event that reached the disk is returned to its caller.          *)
Returned(e) ==
  IF e.kind \in {"acquired", "reclaimed"}
  THEN /\ issued' = [issued EXCEPT ![e.res] = Append(@, e.lease.token)]
       /\ claim' = [claim EXCEPT ![e.res] =
            [term |-> ExpiresAt(e.lease), until |-> ExpiresAt(e.lease), free |-> FALSE]]
  ELSE UNCHANGED <<issued, claim>>

(* sync_all succeeded: install the staged table, return the lease.         *)
CommitAppend_Unsynced(p) ==   \* mutant: write_all without sync_all
  /\ pending[p] # NoAppend /\ pending[p].full
  /\ table' = [table EXCEPT ![p] = pending[p].table]
  /\ pending' = [pending EXCEPT ![p] = NoAppend]
  /\ Returned(pending[p].event)
  /\ UNCHANGED <<fileVars, lockOwner, phase, cursor, poisoned, now>>

CommitAppend(p) ==
  /\ pending[p] # NoAppend /\ pending[p].full
  /\ synced' = Len(log)
  /\ table' = [table EXCEPT ![p] = pending[p].table]
  /\ pending' = [pending EXCEPT ![p] = NoAppend]
  /\ Returned(pending[p].event)
  /\ UNCHANGED <<log, torn, lockOwner, phase, cursor, poisoned, now>>

(* The write or the fsync failed and the rewind succeeded: the file is     *)
(* back at its length before the append, the table as it was.              *)
RewindAppend(p) ==
  /\ pending[p] # NoAppend
  /\ log' = SubSeq(log, 1, pending[p].before)
  /\ torn' = FALSE
  /\ synced' = pending[p].before
  /\ pending' = [pending EXCEPT ![p] = NoAppend]
  /\ UNCHANGED <<lockOwner, phase, cursor, table, poisoned, contractVars>>

(* The rewind failed too, before or after it cut the file: the log refuses *)
(* every append until the process restarts.                                *)
PoisonAppend(p) ==
  /\ pending[p] # NoAppend
  /\ \/ UNCHANGED <<log, torn>>
     \/ /\ log' = SubSeq(log, 1, pending[p].before)
        /\ torn' = FALSE
  /\ synced' = IF synced <= Len(log') THEN synced ELSE Len(log')
  /\ poisoned' = [poisoned EXCEPT ![p] = TRUE]
  /\ pending' = [pending EXCEPT ![p] = NoAppend]
  /\ UNCHANGED <<lockOwner, phase, cursor, table, contractVars>>

----------------------------------------------------------------------------
(* Renewal, in memory only.  Callers renew a lease an acquire returned to  *)
(* them: the leadership loop its tenure's, the intent drain its claim.     *)
RenewLease(p, r, h) ==
  /\ Idle(p)
  /\ CanRenew(table[p], r, h, now)
  /\ issued[r] # <<>> /\ table[p].leases[r].token = issued[r][Len(issued[r])]
  /\ table' = [table EXCEPT ![p] = Renew(@, r, now)]
  /\ claim' = [claim EXCEPT ![r].until = now + TtlOf[r]]
  /\ UNCHANGED <<fileVars, lockOwner, phase, cursor, poisoned, pending, now, issued>>

----------------------------------------------------------------------------
(* The environment.                                                        *)

Forget(dead) ==
  /\ phase' = [p \in Procs |-> IF p \in dead THEN "down" ELSE phase[p]]
  /\ pending' = [p \in Procs |-> IF p \in dead THEN NoAppend ELSE pending[p]]
  /\ lockOwner' = IF lockOwner \in dead THEN NoProc ELSE lockOwner
  /\ claim' = [r \in Resources |-> [claim[r] EXCEPT !.until = claim[r].term]]
  /\ cursor' = [p \in Procs |-> IF p \in dead THEN 0 ELSE cursor[p]]
  /\ table' = [p \in Procs |-> IF p \in dead THEN EmptyTable ELSE table[p]]
  /\ poisoned' = [p \in Procs |-> IF p \in dead THEN FALSE ELSE poisoned[p]]
  /\ UNCHANGED <<now, issued>>

(* The process ends or drops the table; the kernel keeps what was written. *)
ProcessDown(p) ==
  /\ lockOwner = p
  /\ Forget({p})
  /\ UNCHANGED fileVars

(* The machine goes down: of what was never fsynced, any prefix survives,  *)
(* possibly with a torn line after it.                                     *)
PowerLoss ==
  /\ lockOwner # NoProc
  /\ Forget(Procs)
  /\ \E kept \in synced..Len(log) :
       /\ log' = SubSeq(log, 1, kept)
       /\ torn' \in IF kept < Len(log) \/ torn THEN BOOLEAN ELSE {FALSE}
       /\ synced' = kept

Tick ==
  /\ now < MaxNow
  /\ now' = now + 1
  /\ UNCHANGED <<fileVars, procVars, issued, claim>>

----------------------------------------------------------------------------
Next ==
  \/ \E p \in Procs :
       \/ OpenWal(p) \/ ReplayLine(p) \/ ReplayDone(p)
       \/ CommitAppend(p) \/ RewindAppend(p) \/ PoisonAppend(p)
       \/ ProcessDown(p)
       \/ \E r \in Resources, h \in Holders :
            StageAcquire(p, r, h) \/ StageRelease(p, r, h) \/ RenewLease(p, r, h)
  \/ PowerLoss
  \/ Tick

Spec == Init /\ [][Next]_vars

----------------------------------------------------------------------------
(* Properties.                                                             *)

(* Every variable keeps its type; only the lock's owner has a live table   *)
(* or an append in flight (durable.rs, wal.rs).                            *)
TypeOK ==
  /\ log \in Seq(LogLines) /\ Len(log) <= MaxLog
  /\ torn \in BOOLEAN /\ synced \in 0..Len(log)
  /\ lockOwner \in Procs \cup {NoProc}
  /\ phase \in [Procs -> Phases]
  /\ \A p \in Procs : phase[p] \in {"replaying", "open"} <=> lockOwner = p
  /\ cursor \in [Procs -> Nat]
  /\ table \in [Procs -> LeaseTables]
  /\ poisoned \in [Procs -> BOOLEAN]
  /\ pending \in [Procs -> Appends \cup {NoAppend}]
  /\ \A p \in Procs : pending[p] # NoAppend => phase[p] = "open"
  /\ now \in 0..MaxNow
  /\ issued \in [Resources -> Seq(1..MaxToken)]
  /\ claim \in [Resources -> Contract!Claims]

(* No two grants of a resource, in any order of failed appends, crashes,   *)
(* power losses and restarts, ever carry the same fencing token, and later *)
(* grants carry larger ones (lease.rs: "never reused, never decremented"). *)
TokensIncrease ==
  \A r \in Resources : \A i, j \in 1..Len(issued[r]) :
    i < j => issued[r][i] < issued[r][j]

(* A token a caller holds is in a line of the log that a power loss cannot *)
(* take away (durable.rs: "no fencing token reaches a caller before the    *)
(* event recording it is fsynced").                                        *)
GrantsAreDurable ==
  \A r \in Resources : \A i \in 1..Len(issued[r]) :
    \E k \in 1..synced :
      /\ log[k].kind \in {"acquired", "reclaimed"}
      /\ log[k].res = r /\ log[k].lease.token = issued[r][i]

(* Whatever failures an append met, the log this code leaves behind is one *)
(* its own fail-closed replay accepts: a restart never refuses to serve.   *)
ReplayNeverRefuses == \A p \in Procs : phase[p] # "refused"

(* The table implements the contract its callers rely on: tokens increase, *)
(* and nobody is granted a resource while the latest grant of it runs - up *)
(* to its renewed expiry, or its durable one once a crash has forgotten    *)
(* the renewals.                                                           *)
ImplementsContract == Contract!ContractSpec
=============================================================================
