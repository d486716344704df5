------------------------------ MODULE LedgerFeed ------------------------------
(***************************************************************************)
(* The ledger (ledger.rs): the projector that turns events of the bus into *)
(* numbered rows, the ring that remembers the last of them, and the        *)
(* streams that replay from the ring and then follow                       *)
(* (server/handlers/events.rs), read by a client that comes back with the  *)
(* last id it saw (tui/poller.rs), also to a daemon that was restarted.    *)
(*                                                                         *)
(* A step is what happens under the ring's lock or between two awaits: the *)
(* projector and the streams run on different threads.  What a row says is *)
(* left out, except that one says how much is gone.                        *)
(***************************************************************************)
EXTENDS Naturals, Sequences

CONSTANTS
    FeedClients,     \* clients of /api/events
    FeedConfigs      \* the configurations explored

ASSUME LedgerFeedAssumption ==
    FeedConfigs \subseteq
        [ring : Nat \ {0},        \* rows the ring retains
         live : Nat \ {0},        \* rows the channel of a stream holds
         bus : Nat \ {0},         \* events the bus holds
         clients : SUBSET FeedClients,
         events : Nat,            \* bound: events of one process
         drops : Nat,             \* bound: connections that break
         boots : Nat \ {0}]       \* bound: processes

VARIABLES
    feed,        \* the configuration, fixed
    bus,         \* the projector's receiver: events pending, and lost to it
    ids,         \* next_id
    ring,        \* the ring
    projecting,  \* the row the projector has in hand
    client,      \* client[c]: a client and its stream
    fed          \* counts for the bounds

feedVars == <<feed, bus, ids, ring, projecting, client, fed>>

NotFollowing == [at |-> "off", cursor |-> 0, after |-> 0, live |-> <<>>, lag |-> 0, hand |-> <<>>, last |-> 0,
                 owed |-> 0, missed |-> 0, told |-> 0, ascending |-> TRUE, stale |-> FALSE]

FeedInit ==
    /\ feed \in FeedConfigs
    /\ bus = [pending |-> 0, lost |-> 0]
    /\ ids = 1 /\ ring = <<>>
    /\ projecting = [at |-> "idle", id |-> 0]
    /\ client = [c \in FeedClients |-> NotFollowing]
    /\ fed = [events |-> 0, drops |-> 0, boots |-> 1]

-----------------------------------------------------------------------------
(* The bus and the projector.                                              *)

\* Whoever emits never waits: the receiver's oldest event is overwritten.
Emit ==
    /\ fed.events < feed.events
    /\ bus' = IF bus.pending < feed.bus THEN [bus EXCEPT !.pending = @ + 1] ELSE [bus EXCEPT !.lost = @ + 1]
    /\ fed' = [fed EXCEPT !.events = @ + 1]
    /\ UNCHANGED <<feed, ids, ring, projecting, client>>

\* An event, or what was lost before it, gets the next id.
Project ==
    /\ projecting.at = "idle" /\ (bus.lost > 0 \/ bus.pending > 0)
    /\ bus' = IF bus.lost > 0 THEN [bus EXCEPT !.lost = 0] ELSE [bus EXCEPT !.pending = @ - 1]
    /\ projecting' = [at |-> "numbered", id |-> ids]
    /\ ids' = ids + 1
    /\ UNCHANGED <<feed, ring, client, fed>>

\* push: the ring under its lock, then the channel.
Store ==
    /\ projecting.at = "numbered"
    /\ ring' = Append(IF Len(ring) = feed.ring THEN Tail(ring) ELSE ring, projecting.id)
    /\ projecting' = [projecting EXCEPT !.at = "stored"]
    /\ UNCHANGED <<feed, bus, ids, client, fed>>

Broadcast ==
    /\ projecting.at = "stored"
    /\ client' = [c \in FeedClients |->
         IF client[c].at = "off" THEN client[c]
         ELSE IF Len(client[c].live) < feed.live
         THEN [client[c] EXCEPT !.live = Append(@, projecting.id)]
         ELSE [client[c] EXCEPT !.live = Append(Tail(@), projecting.id), !.lag = @ + 1]]
    /\ projecting' = [projecting EXCEPT !.at = "idle"]
    /\ UNCHANGED <<feed, bus, ids, ring, fed>>

-----------------------------------------------------------------------------
(* ledger_stream.  A cursor of 0 is that of a client that has seen nothing *)
(* and sends none.                                                         *)

feedRest == <<feed, bus, ids, ring, projecting, fed>>
Newest == ids - 1
Least(a, b) == IF a < b THEN a ELSE b

\* What a client is told, and what it has missed since the row before.
Row(r, id) ==
    [r EXCEPT !.last = id, !.cursor = id, !.owed = id + 1,
              !.ascending = @ /\ id >= r.owed,
              !.missed = IF r.owed > 0 /\ id > r.owed THEN @ + (id - r.owed) ELSE @]
Told(r, n) == [r EXCEPT !.told = @ + n, !.cursor = r.last]

\* The subscription comes before the replay.
Open(c) ==
    /\ c \in feed.clients /\ client[c].at = "off"
    /\ client' = [client EXCEPT ![c].at = "opened", ![c].live = <<>>, ![c].lag = 0, ![c].hand = <<>>]
    /\ UNCHANGED feedRest

\* A cursor from the future is that of the newest row.
Clamp(c) ==
    /\ client[c].at = "opened"
    /\ client' = [client EXCEPT ![c].at = "clamped", ![c].after = Least(client[c].cursor, Newest)]
    /\ UNCHANGED feedRest

\* The ids of the ring ascend, so the rows after a cursor are its end.
Since(after) ==
    LET gone == CHOOSE n \in 0..Len(ring) : \A i \in 1..Len(ring) : ring[i] > after <=> i > n
    IN  SubSeq(ring, gone + 1, Len(ring))
Replay(c) ==
    /\ client[c].at = "clamped"
    /\ client' = [client EXCEPT ![c].at = "replayed", ![c].last = client[c].after,
                                ![c].hand = Since(client[c].after)]
    /\ UNCHANGED feedRest

\* The rows the ring no longer has, looked at once more, are told first.
FirstKept == IF ring = <<>> THEN Newest + 1 ELSE Head(ring)
Expired_Late(after) == IF FirstKept > after + 2 THEN FirstKept - after - 2 ELSE 0  \* mutant: off by one
Expired(after) == IF FirstKept > after + 1 THEN FirstKept - after - 1 ELSE 0
SayExpired(c) ==
    /\ client[c].at = "replayed"
    /\ client' = [client EXCEPT ![c] =
          LET on == [@ EXCEPT !.at = "following"]
          IN  IF @.cursor > 0 /\ Expired(@.after) > 0 THEN Told(on, Expired(@.after)) ELSE on]
    /\ UNCHANGED feedRest

WriteReplayed(c) ==
    /\ client[c].at = "following" /\ client[c].hand # <<>>
    /\ client' = [client EXCEPT ![c] = Row([@ EXCEPT !.hand = Tail(client[c].hand)], Head(@.hand))]
    /\ UNCHANGED feedRest

\* A live row; one the replay had is dropped by its id.
StreamLive(c) == client[c].at = "following" /\ client[c].hand = <<>>
WriteLive(c) ==
    /\ StreamLive(c) /\ client[c].lag = 0 /\ client[c].live # <<>>
    /\ client' = [client EXCEPT ![c] =
          LET on == [@ EXCEPT !.live = Tail(client[c].live)]
          IN  IF Head(@.live) <= @.last THEN on ELSE Row(on, Head(@.live))]
    /\ UNCHANGED feedRest

SayLagged(c) ==
    /\ StreamLive(c) /\ client[c].lag > 0
    /\ client' = [client EXCEPT ![c] = Told([@ EXCEPT !.lag = 0], @.lag)]
    /\ UNCHANGED feedRest

\* A connection breaks; the client comes back with the last id it saw.
ConnectionBreaks(c) ==
    /\ client[c].at # "off" /\ fed.drops < feed.drops
    /\ client' = [client EXCEPT ![c].at = "off", ![c].live = <<>>, ![c].lag = 0, ![c].hand = <<>>]
    /\ fed' = [fed EXCEPT !.drops = @ + 1]
    /\ UNCHANGED <<feed, bus, ids, ring, projecting>>

\* The daemon is another process: ids start again.  The client keeps its
\* cursor, and is owed the rows of the new process.
DaemonRestarts ==
    /\ fed.boots < feed.boots
    /\ bus' = [pending |-> 0, lost |-> 0] /\ ids' = 1 /\ ring' = <<>>
    /\ projecting' = [at |-> "idle", id |-> 0]
    /\ client' = [c \in FeedClients |->
         [NotFollowing EXCEPT !.cursor = client[c].cursor, !.owed = IF client[c].cursor > 0 THEN 1 ELSE 0,
                              !.stale = client[c].cursor > 0]]
    /\ fed' = [fed EXCEPT !.boots = @ + 1, !.events = 0]
    /\ UNCHANGED feed

StreamSteps(c) ==
    Clamp(c) \/ Replay(c) \/ SayExpired(c) \/ WriteReplayed(c) \/ WriteLive(c) \/ SayLagged(c)
ProjectorSteps == Project \/ Store \/ Broadcast

FeedNext ==
    \/ Emit \/ ProjectorSteps \/ DaemonRestarts
    \/ \E c \in FeedClients : Open(c) \/ StreamSteps(c) \/ ConnectionBreaks(c)

\* The projector runs and a client that follows reads.
FeedFairness ==
    /\ WF_feedVars(ProjectorSteps)
    /\ \A c \in FeedClients : WF_feedVars(StreamSteps(c))

FeedSpec == FeedInit /\ [][FeedNext]_feedVars /\ FeedFairness
-----------------------------------------------------------------------------
(* Properties.                                                             *)

\* Types; neither the ring nor a channel is over its capacity.
FeedTypeOK ==
    /\ ids \in 1..(feed.events + 1) /\ Len(ring) <= feed.ring
    /\ bus.pending \in 0..feed.bus /\ bus.lost \in Nat
    /\ projecting.at \in {"idle", "numbered", "stored"}
    /\ \A c \in FeedClients :
          /\ client[c].at \in {"off", "opened", "clamped", "replayed", "following"}
          /\ Len(client[c].live) <= feed.live

\* A client is written every row once and in order, over its reconnects too,
\* wherever the replay and the channel overlap (ledger_stream).
RowsAscend == \A c \in FeedClients : client[c].ascending

\* A client that skips rows has been told of at least as many: those the
\* ring forgot while it was away, and those it was too slow for
\* (ledger_stream); unless its cursor is from a process that is gone.
MissedIsTold ==
    \A c \in FeedClients : ~client[c].stale => client[c].missed <= client[c].told

\* What the feed promises a client that comes and goes: rows ascend and none
\* is passed over in silence (push, since, ledger_stream).
FeedHolds == FeedTypeOK /\ RowsAscend /\ MissedIsTold

\* A client that stays connected is brought to the newest row, whatever its
\* cursor was (the clamp, push and the streams).
FollowersCatchUp ==
    \A c \in FeedClients : <>[](client[c].at # "off" => client[c].last = Newest)

-----------------------------------------------------------------------------
(* What the source says and the code does not do.                          *)

\* "A cursor older than the ring remembers: say how much is gone rather than
\* resuming silently past it": a cursor from the process before is clamped
\* to the newest row, and the rows before it are passed over.
SaysHowMuchIsGone ==
    \A c \in FeedClients : client[c].missed <= client[c].told
=============================================================================
