----------------------------- MODULE LeaseTable -----------------------------
(***************************************************************************)
(* The lease table of src/coordinator/lease.rs as a value: at most one     *)
(* lease per resource, plus the per-resource high-water fencing token,     *)
(* which outlives the leases.  Every operation is an operator from a table *)
(* and an injected clock to the next table, with a predicate that says     *)
(* when the code returns Ok; on the error path the code changes nothing.   *)
(*                                                                         *)
(* A watermark of 0 stands for "no watermark recorded": the code issues    *)
(* token 1 to such a resource, and successors of 0 start there too.        *)
(***************************************************************************)
EXTENDS Naturals

CONSTANTS
  Resources,   \* resource ids: "control-plane", "task-...", "intent-...", "farm-..."
  Holders,     \* holder ids
  NoLease,     \* the absent entry of the lease map
  TtlOf,       \* the one ttl every caller passes for a resource
  MaxTtl,      \* MAX_TTL
  MaxToken     \* the largest fencing token (u64::MAX in the code)

(* Every caller passes a compile-time ttl per kind of resource, inside the *)
(* range validate_ttl admits, and no map entry is confused with absence.   *)
ASSUME LeaseConstants ==
  /\ MaxToken \in Nat \ {0}
  /\ MaxTtl \in Nat \ {0}
  /\ TtlOf \in [Resources -> 1..MaxTtl]
  /\ NoLease \notin [holder: Holders, token: Nat, grantedAt: Nat, ttl: Nat]

Lease == [holder: Holders, token: 1..MaxToken, grantedAt: Nat, ttl: 1..MaxTtl]

LeaseTables == [leases: [Resources -> Lease \cup {NoLease}],
                marks:  [Resources -> 0..MaxToken]]

EmptyTable == [leases |-> [r \in Resources |-> NoLease],
               marks  |-> [r \in Resources |-> 0]]

ExpiresAt(lease) == lease.grantedAt + lease.ttl
IsExpired(lease, now) == now >= ExpiresAt(lease)

ValidTtl(ttl) == ttl > 0 /\ ttl <= MaxTtl

(* No token is ever minted past the largest one: the code reports an       *)
(* overflow instead of wrapping.                                           *)
TokenAvailable(table, r) == table.marks[r] < MaxToken
NextToken(table, r) == table.marks[r] + 1

----------------------------------------------------------------------------
(* The online operations.                                                  *)

Held(table, r) == table.leases[r] # NoLease

HeldBy(table, r, h) == Held(table, r) /\ table.leases[r].holder = h

(* acquire refuses a resource that is held and unexpired, even to its own  *)
(* holder; an expired lease is reclaimed by the same call.                 *)
CanAcquire(table, r, now) ==
  /\ ValidTtl(TtlOf[r])
  /\ Held(table, r) => IsExpired(table.leases[r], now)
  /\ TokenAvailable(table, r)

GrantedLease(table, r, h, now) ==
  [holder |-> h, token |-> NextToken(table, r), grantedAt |-> now, ttl |-> TtlOf[r]]

WithLease(table, r, lease) ==
  [leases |-> [table.leases EXCEPT ![r] = lease],
   marks  |-> [table.marks EXCEPT ![r] = lease.token]]

Acquire(table, r, h, now) == WithLease(table, r, GrantedLease(table, r, h, now))

(* renew needs the recorded holder and an unexpired lease; the token, and  *)
(* so the ownership epoch, is unchanged.                                   *)
CanRenew_Expired(table, r, h, now) ==      \* mutant: the expiry is not checked
  ValidTtl(TtlOf[r]) /\ HeldBy(table, r, h)

CanRenew(table, r, h, now) ==
  /\ ValidTtl(TtlOf[r])
  /\ HeldBy(table, r, h)
  /\ ~IsExpired(table.leases[r], now)

RenewedLease(lease, r, now) == [lease EXCEPT !.grantedAt = now, !.ttl = TtlOf[r]]

Renew(table, r, now) ==
  [table EXCEPT !.leases[r] = RenewedLease(@, r, now)]

(* release checks the holder and nothing else: an expired lease may still  *)
(* be released, and the watermark stays.                                   *)
CanRelease_AnyHolder(table, r, h) == Held(table, r)   \* mutant: holder unchecked

CanRelease(table, r, h) == HeldBy(table, r, h)

Release_Forgetful(table, r) ==             \* mutant: the watermark goes too
  [table EXCEPT !.leases[r] = NoLease, !.marks[r] = 0]

Release(table, r) == [table EXCEPT !.leases[r] = NoLease]

----------------------------------------------------------------------------
(* Replay: the events the log stores, and the fold step that checks the    *)
(* table's invariants again on the way in.                                 *)

EventKinds == {"acquired", "reclaimed", "renewed", "released"}

LeaseEvents == [kind: EventKinds, ts: Nat, res: Resources, holder: Holders,
                lease: Lease \cup {NoLease}]

GrantEvent(table, r, h, now) ==
  [kind   |-> IF Held(table, r) /\ IsExpired(table.leases[r], now)
              THEN "reclaimed" ELSE "acquired",
   ts     |-> now, res |-> r, holder |-> h,
   lease  |-> GrantedLease(table, r, h, now)]

ReleaseEvent(r, h, now) ==
  [kind |-> "released", ts |-> now, res |-> r, holder |-> h, lease |-> NoLease]

Distance(a, b) == IF a >= b THEN a - b ELSE b - a

(* A grant time further than MAX_TTL from the append time has no online    *)
(* equivalent and is refused.                                              *)
ValidEventLease(e) ==
  /\ ValidTtl(e.lease.ttl)
  /\ Distance(e.lease.grantedAt, e.ts) <= MaxTtl

(* The checks under which apply accepts an event; when they fail the whole *)
(* recovery is refused.                                                    *)
CanApply(table, e) ==
  \/ /\ e.kind \in {"acquired", "reclaimed"}
     /\ ValidEventLease(e)
     /\ table.marks[e.res] = 0 \/ e.lease.token > table.marks[e.res]
  \/ /\ e.kind = "renewed"
     /\ ValidEventLease(e)
     /\ HeldBy(table, e.res, e.lease.holder)
     /\ ~IsExpired(table.leases[e.res], e.ts)
     /\ table.leases[e.res].token = e.lease.token
  \/ /\ e.kind = "released"
     /\ HeldBy(table, e.res, e.holder)

Apply(table, e) ==
  CASE e.kind \in {"acquired", "reclaimed"} -> WithLease(table, e.res, e.lease)
    [] e.kind = "renewed"  -> [table EXCEPT !.leases[e.res] = e.lease]
    [] e.kind = "released" -> Release(table, e.res)
=============================================================================
