--------------------------- MODULE Conversations ---------------------------
(***************************************************************************)
(* The conversations of one pulse: the session store (session_store.rs),   *)
(* the turn that runs on a session under its lock (handlers/chat.rs and    *)
(* handlers/chat/steps.rs), the write-ahead log (wal.rs), the queue of     *)
(* session-file writes (persist.rs), the expiry sweep (setup.rs), manual   *)
(* resets, isolation mode, and the daemon's shutdown, crash and restart    *)
(* (daemon.rs).                                                            *)
(*                                                                         *)
(* Data: a message is the number of its turn and who speaks; a turn adds   *)
(* two, the user's and the reply.  A Note is what the code itself puts at  *)
(* the head of a conversation: the handoff of a reset, the summary of a    *)
(* compaction.  A session has two lanes, the trunk the default model is    *)
(* shown and the quarantine of the exchanges it refused and the fallback   *)
(* model answered.  A log entry is a sequence number and a message: the    *)
(* lane an entry carries changes nothing recovery does.  The voice calls'  *)
(* own set of sessions is not part of this module.  "Crash" is the death   *)
(* of the process: what was written to a file stays written.               *)
(***************************************************************************)
EXTENDS Integers, FiniteSets, SequencesExt

CONSTANTS
    Keys,          \* identities that hold conversations
    None,          \* no session, no turn, no file, no watermark
    MaxTurns,      \* bound: turns admitted in a behaviour
    MaxInFlight,   \* bound: turns in flight at once
    KeepRecent,    \* KEEP_RECENT, the messages compaction leaves alone
    MinMessages,   \* MIN_MESSAGES_FOR_COMPACTION
    MaxQuarantine, \* MAX_QUARANTINE_MESSAGES
    MaxFallbacks,  \* MAX_FALLBACKS_PER_SESSION
    Scenes         \* the circumstances explored, one of them in a behaviour

Turns == 1..MaxTurns
Note == <<0, "note">>
Question(t) == <<t, "user">>
Reply(t) == <<t, "assistant">>
Exchange(t) == {Question(t), Reply(t)}
Messages == {Note} \cup UNION {Exchange(t) : t \in Turns}

\* Crashes, orderly shutdowns, expired sessions found, resets asked for
\* through the API, and times isolation is entered or left.
BoundNames == {"crash", "stop", "expire", "reset", "flip"}

ASSUME ConversationsAssumption ==
    /\ IsFiniteSet(Keys) /\ Keys # {} /\ None \notin Keys \cup Nat
    /\ None \notin [trunk : Nat, lane : Nat]
    /\ None \notin [trunk : Seq(Messages), lane : Seq(Messages), fallbacks : Nat, seq : Nat]
    /\ MaxTurns \in Nat /\ MaxInFlight \in Nat
    /\ MinMessages \in Nat /\ KeepRecent \in 1..(MinMessages - 2)
    /\ MaxQuarantine \in Nat /\ MaxFallbacks \in Nat /\ 2 * MaxFallbacks <= MaxQuarantine
    /\ Scenes \subseteq
         [turns : 0..MaxTurns,            \* bound: turns admitted
          sessions : Nat \ {0},           \* sessions.max_sessions
          cap : Nat \ {0},                \* MAX_MESSAGES_PER_SESSION
          owner : Keys \cup {None},        \* the owner's identity, if it takes part
          budgets : SUBSET BOOLEAN,       \* whether a trunk is over the context budget
          archive : SUBSET BOOLEAN,       \* what writing an archive may answer
          due : SUBSET BOOLEAN,           \* what should_reset may answer
          slow : BOOLEAN,                 \* whether shutdown may outrun its windows
          budget : [BoundNames -> Nat]]   \* bounds, see Spend

Sids == 1..(Cardinality(Keys) + MaxTurns)

VARIABLES
    scene,      \* the circumstances, fixed
    isolated,   \* the isolation marker file exists
    stage,      \* the daemon: up, or how far its shutdown has come, or down
    pc,         \* pc[t]: how far turn t has come
    keyOf,      \* keyOf[t]: the identity turn t was resolved to
    iso,        \* iso[t]: TurnScope.isolated
    refused,    \* refused[t]: the default model refused, the fallback answered
    ref,        \* ref[t]: the session turn t holds an Arc to
    sess,       \* sess[s]: a session in memory, live or detached
    live,       \* live[k]: SessionStore.sessions
    staler,     \* pairs of live keys: the first was active less recently
    json,       \* json[k]: sessions/{k}.json
    queue,      \* session-file writes handed to the blocking pool
    wal,        \* wal[k]: sessions/wal/{k}.jsonl
    ckpt,       \* ckpt[k]: the checkpoint marker, 0 when there is none
    archived,   \* messages in a conversation archive, from which memory is made
    deadEnd,    \* messages in a file of archives/quarantine
    sweep,      \* keys the running sweep found expired
    resetting,  \* keys a manual reset has marked dirty and not yet persisted
    spent       \* how much of each bound is used

vars == <<scene, isolated, stage, pc, keyOf, iso, refused, ref, sess, live, staler, json, queue,
          wal, ckpt, archived, deadEnd, sweep, resetting, spent>>

mind == <<sess, live, staler>>              \* the store's memory
archives == <<archived, deadEnd>>
files == <<json, queue, wal, ckpt, archives>>
turnVars == <<pc, keyOf, iso, refused, ref>>
background == <<sweep, resetting>>

Spend(what) == /\ spent[what] < scene.budget[what]
               /\ spent' = [spent EXCEPT ![what] = @ + 1]

-----------------------------------------------------------------------------
(* Helpers.                                                                *)

NoLens == [trunk |-> 0, lane |-> 0]
Lens(r) == [trunk |-> Len(r.trunk), lane |-> Len(r.lane)]
NewSession == [trunk |-> <<>>, lane |-> <<>>, fallbacks |-> 0, mark |-> None, found |-> NoLens,
               seq |-> 0, dirty |-> FALSE, lock |-> None]

Live == {k \in Keys : live[k] # None}
Unlocked(s) == sess[s].lock = None
AllUnlocked == \A k \in Live : Unlocked(live[k])

Said(messages) == ToSet(messages) \ {Note}

\* Writing an archive either works or is logged and forgotten.  The trunk of a
\* session that ends goes to the conversations, its lane to a dead end.
Archived(ok, messages) == IF ok THEN archived \cup messages ELSE archived
ArchiveBoth(ok, ended) ==
    /\ archived' = Archived(ok, UNION {Said(sess[s].trunk) : s \in ended})
    /\ deadEnd' = deadEnd \cup IF ok THEN UNION {Said(sess[s].lane) : s \in ended} ELSE {}

FileOf(s) == [trunk |-> sess[s].trunk, lane |-> sess[s].lane, fallbacks |-> sess[s].fallbacks,
              seq |-> sess[s].seq]
WriteOf(k, s) == [key |-> k, file |-> FileOf(s)]

Cut(messages, len) == IF len < Len(messages) THEN SubSeq(messages, 1, len) ELSE messages
KeepLast(messages, n) ==
    IF n < Len(messages) THEN SubSeq(messages, Len(messages) - n + 1, Len(messages)) ELSE messages

\* An Arc<Session> nobody holds any more is gone.
Held(f) == [s \in Sids |-> IF \/ \E k \in Keys : live'[k] = s
                              \/ \E t \in Turns : ref'[t] = s
                           THEN f[s] ELSE NewSession]

FreshSid == CHOOSE s \in Sids : /\ \A k \in Keys : live[k] # s
                                /\ \A t \in Turns : ref[t] # s

\* Whom evict_lru picks, and the order of the live keys ks with k the latest.
Stalest == {v \in Live : \A k \in Live \ {v} : <<v, k>> \in staler}
Latest(k, ks) == {p \in staler : {p[1], p[2]} \subseteq ks \ {k}} \cup {<<j, k>> : j \in ks \ {k}}
InOrder(order, ks) ==
    /\ order \subseteq ks \X ks
    /\ \A j, k \in ks : j # k => (<<j, k>> \in order <=> <<k, j>> \notin order)
    /\ \A j, k, l \in ks : <<j, k>> \in order /\ <<k, l>> \in order => <<j, l>> \in order
    /\ \A k \in ks : <<k, k>> \notin order

\* Every dirty live session, as persist_all sees them.
DirtyKeys == {k \in Live : sess[live[k]].dirty}
DirtyWrites == {WriteOf(k, live[k]) : k \in DirtyKeys}
Clean(f, ks) == [s \in Sids |-> IF \E k \in ks : live[k] = s
                                THEN [f[s] EXCEPT !.dirty = FALSE] ELSE f[s]]

-----------------------------------------------------------------------------
Init ==
    /\ scene \in Scenes
    /\ isolated = FALSE
    /\ stage = "up"
    /\ pc = [t \in Turns |-> "new"]
    /\ keyOf = [t \in Turns |-> None]
    /\ iso = [t \in Turns |-> FALSE]
    /\ refused = [t \in Turns |-> FALSE]
    /\ ref = [t \in Turns |-> None]
    /\ sess = [s \in Sids |-> NewSession]
    /\ live = [k \in Keys |-> None]
    /\ staler = {}
    /\ json = [k \in Keys |-> None]
    /\ queue = {}
    /\ wal = [k \in Keys |-> <<>>]
    /\ ckpt = [k \in Keys |-> 0]
    /\ archived = {} /\ deadEnd = {}
    /\ sweep = {}
    /\ resetting = {}
    /\ spent = [what \in BoundNames |-> 0]

-----------------------------------------------------------------------------
(* A turn.                                                                 *)

InFlight == {"admitted", "opened", "running", "logging", "committing", "persisting"}

\* run_resolved_turn resolves the principal and samples the marker once.
Admit(t, k) ==
    /\ stage = "up" /\ t <= scene.turns
    /\ pc[t] = "new" /\ \A u \in Turns : u < t => pc[u] # "new"
    /\ Cardinality({u \in Turns : pc[u] \in InFlight}) < MaxInFlight
    /\ pc' = [pc EXCEPT ![t] = "admitted"]
    /\ keyOf' = [keyOf EXCEPT ![t] = k]
    /\ iso' = [iso EXCEPT ![t] = isolated]
    /\ UNCHANGED <<isolated, stage, refused, ref, mind, files, background, spent>>

\* open_session finds the identity's session: only an Arc is taken here.
OpenLive(t) ==
    /\ pc[t] = "admitted" /\ live[keyOf[t]] # None
    /\ pc' = [pc EXCEPT ![t] = "opened"]
    /\ ref' = [ref EXCEPT ![t] = live[keyOf[t]]]
    /\ UNCHANGED <<isolated, stage, keyOf, iso, refused, mind, files, background, spent>>

\* open_session creates one: nothing is read from disk.  At capacity
\* evict_lru goes first; it takes every session's lock in turn, so no turn is
\* in flight when it chooses, and hands the victim's file to the pool.
OpenNew(t) ==
    LET k == keyOf[t]
        full == Cardinality(Live) >= scene.sessions
        s == FreshSid
    IN  /\ pc[t] = "admitted" /\ live[k] = None
        /\ full => AllUnlocked
        /\ pc' = [pc EXCEPT ![t] = "opened"]
        /\ ref' = [ref EXCEPT ![t] = s]
        /\ \E evicted \in IF full THEN {{v} : v \in Stalest} ELSE {{}} :
              /\ live' = [j \in Keys |-> IF j = k THEN s
                                         ELSE IF j \in evicted THEN None ELSE live[j]]
              /\ staler' = Latest(k, (Live \ evicted) \cup {k})
              /\ queue' = queue \cup {WriteOf(v, live[v]) : v \in evicted}
        /\ sess' = Held(sess)
        /\ UNCHANGED <<isolated, stage, keyOf, iso, refused, json, wal, ckpt, archives,
                       background, spent>>

\* What track_isolation_window leaves of a session: an isolated turn anchors
\* the watermarks once, a normal turn takes them and drops the tails behind.
Windowed(r, isolatedTurn) ==
    IF isolatedTurn
    THEN [r EXCEPT !.mark = IF @ = None THEN Lens(r) ELSE @]
    ELSE IF r.mark = None THEN r
    ELSE [r EXCEPT !.trunk = Cut(@, r.mark.trunk), !.lane = Cut(@, r.mark.lane), !.mark = None]

\* begin_fresh: the log cursor and the watermarks are kept.
Begun(r) == IF r.trunk = <<>> /\ r.lane = <<>> THEN r
            ELSE [r EXCEPT !.trunk = IF @ = <<>> THEN <<>> ELSE <<Note>>,
                           !.lane = <<>>, !.fallbacks = 0]

\* maybe_reset_session is shed in isolation; push_user_turn.
ResetDue(t, due) == due /\ ~iso[t]
Pushed(r, t) == [r EXCEPT !.trunk = Append(@, Question(t)), !.lock = t]

\* compact_context of a turn that is not isolated: over the budget, the older
\* messages are archived, whatever comes of it, and a summary takes their
\* place, or nothing does (the provider failed, or failed thrice before: then
\* they are not archived either).
TooLong(r, t, over) == over /\ ~iso[t] /\ Len(r.trunk) >= MinMessages
Older(r) == Cut(r.trunk, Len(r.trunk) - KeepRecent)
Compacted(r, summed) ==
    [r EXCEPT !.trunk = (IF summed THEN <<Note>> ELSE <<>>) \o KeepLast(@, KeepRecent)]

\* The session lock is granted: touch, track_isolation_window, PreTurnMarks,
\* maybe_reset_session (which archives, whatever comes of it), push_user_turn
\* and compact_context, up to the provider call.
Start(t) ==
    LET s == ref[t]
        windowed == Windowed(sess[s], iso[t])
        r == [windowed EXCEPT !.found = Lens(windowed)]
    IN  /\ pc[t] = "opened" /\ Unlocked(s)
        /\ \E due \in scene.due, over \in scene.budgets, ok \in scene.archive, summed \in BOOLEAN :
              LET reset == ResetDue(t, due)
                  pushed == Pushed(IF reset THEN Begun(r) ELSE r, t)
                  long == TooLong(pushed, t, over)
              IN  /\ summed => long
                  /\ archived' = Archived(ok, (IF reset THEN Said(r.trunk) ELSE {})
                                               \cup IF long THEN Said(Older(pushed)) ELSE {})
                  /\ deadEnd' = deadEnd \cup IF reset /\ ok THEN Said(r.lane) ELSE {}
                  /\ sess' = [sess EXCEPT ![s] = IF long THEN Compacted(pushed, summed) ELSE pushed]
        /\ staler' = IF live[keyOf[t]] = s THEN Latest(keyOf[t], Live) ELSE staler
        /\ pc' = [pc EXCEPT ![t] = "running"]
        /\ UNCHANGED <<isolated, stage, keyOf, iso, refused, ref, live, json, queue, wal, ckpt,
                       background, spent>>

\* The turn is over and lets go of the lock and of its Arc.
Leave(t, state, r) ==
    /\ pc' = [pc EXCEPT ![t] = state]
    /\ ref' = [ref EXCEPT ![t] = None]
    /\ UNCHANGED <<live, staler>>
    /\ sess' = Held([sess EXCEPT ![ref[t]] = [r EXCEPT !.lock = None, !.found = NoLens]])

\* Where a rollback cuts: rearm_at_last_user looks for the user's message
\* again after the compaction.
Armed_Before(r) == r.found.trunk    \* mutant: where the turn found the conversation
Armed(r) == Len(r.trunk) - 1

\* The provider failed or refused for good, or the client went away and the
\* future was dropped: TurnGuard's Drop truncates before the lock is released.
Fail(t) ==
    LET r == sess[ref[t]]
    IN  /\ pc[t] = "running"
        /\ Leave(t, "failed", [r EXCEPT !.trunk = Cut(@, Armed(r))])
        /\ UNCHANGED <<isolated, stage, keyOf, iso, refused, files, background, spent>>

\* A client goes away while its turn waits for the session.
GiveUp(t) ==
    /\ pc[t] \in {"admitted", "opened"}
    /\ pc' = [pc EXCEPT ![t] = "failed"]
    /\ ref' = [ref EXCEPT ![t] = None]
    /\ UNCHANGED <<live, staler>>
    /\ sess' = Held(sess)
    /\ UNCHANGED <<isolated, stage, keyOf, iso, refused, files, background, spent>>

\* The default model refused and the fallback may answer: the owner's turn,
\* not isolated, under the cap.
MayFallBack(t) == /\ keyOf[t] = scene.owner /\ ~iso[t]
                  /\ sess[ref[t]].fallbacks < MaxFallbacks

\* The reply joins the trunk; or, from the fallback, the whole exchange goes
\* to the lane, of which the oldest messages are drained.
Replied(r, t) == [r EXCEPT !.trunk = Append(@, Reply(t))]
Quarantined_Said(r, t) ==           \* mutant: the refused message stays on the trunk
    [r EXCEPT !.lane = KeepLast(@ \o <<Question(t), Reply(t)>>, MaxQuarantine),
              !.fallbacks = @ + 1]
Quarantined(r, t) ==
    [r EXCEPT !.trunk = Cut(@, Armed(r)),
              !.lane = KeepLast(@ \o <<Question(t), Reply(t)>>, MaxQuarantine),
              !.fallbacks = @ + 1]

\* append_wal at the cursor's next number, and the cursor after it; both are
\* shed for an isolated turn.
Logged_Not(r, t, message, shed) == wal    \* mutant: the log is not written
Logged(r, t, message, shed) ==
    IF shed THEN wal
    ELSE [wal EXCEPT ![keyOf[t]] = Append(@, [seq |-> r.seq + 1, said |-> message])]
Advanced(r, shed) == IF shed THEN r ELSE [r EXCEPT !.seq = @ + 1]

\* anchor_isolation_after_turn: a turn that flipped while it ran anchors the
\* watermarks where it found the conversation, and drops what it quarantined.
Anchored_Not(r, quarantined) == r    \* mutant: a turn that flipped is not anchored
Anchored(r, quarantined) ==
    LET mark == IF r.mark = None THEN r.found ELSE r.mark
    IN  [r EXCEPT !.mark = mark, !.lane = IF quarantined THEN Cut(@, mark.lane) ELSE @]

\* A provider answered: the guard is disarmed, the marker sampled again, and
\* the user's message logged unless either sample saw isolation.
Answer(t) ==
    \E quarantined \in BOOLEAN :
       LET shed == iso[t] \/ isolated
           was == sess[ref[t]]
           told == IF quarantined THEN Quarantined(was, t) ELSE Replied(was, t)
           r == IF shed THEN Anchored(told, quarantined) ELSE told
       IN  /\ pc[t] = "running"
           /\ quarantined => MayFallBack(t)
           /\ iso' = [iso EXCEPT ![t] = shed]
           /\ refused' = [refused EXCEPT ![t] = quarantined]
           /\ pc' = [pc EXCEPT ![t] = "logging"]
           /\ wal' = Logged(r, t, Question(t), shed)
           /\ sess' = [sess EXCEPT ![ref[t]] = Advanced(r, shed)]
           /\ UNCHANGED <<isolated, stage, keyOf, ref, live, staler, json, queue, ckpt, archives,
                          background, spent>>

\* The reply is logged and enforce_message_cap drops the oldest messages.
LogReply(t) ==
    LET r == sess[ref[t]]
    IN  /\ pc[t] = "logging"
        /\ pc' = [pc EXCEPT ![t] = "committing"]
        /\ wal' = Logged(r, t, Reply(t), iso[t])
        /\ sess' = [sess EXCEPT ![ref[t]] =
                       [Advanced(r, iso[t]) EXCEPT !.trunk = KeepLast(@, scene.cap)]]
        /\ UNCHANGED <<isolated, stage, keyOf, iso, refused, ref, live, staler, json, queue, ckpt,
                       archives, background, spent>>

MaybeCheckpoint_Next(t) ==       \* mutant: the marker names the next number
    \E due \in BOOLEAN :
       /\ UNCHANGED deadEnd
       /\ IF due /\ ~iso[t]
          THEN /\ archived' = archived \cup Said(sess[ref[t]].trunk)
               /\ ckpt' = [ckpt EXCEPT ![keyOf[t]] = sess[ref[t]].seq + 1]
          ELSE UNCHANGED <<archived, ckpt>>

\* maybe_checkpoint: when one of its conditions holds, archive the trunk and,
\* if that worked, mark everything logged so far as archived.  There is
\* nothing to archive in an empty trunk, and the lane is not archived.
MaybeCheckpoint(t) ==
    LET r == sess[ref[t]]
    IN  /\ UNCHANGED deadEnd
        /\ \E due \in BOOLEAN, ok \in scene.archive :
              IF due /\ ok /\ ~iso[t] /\ r.trunk # <<>>
              THEN /\ archived' = Archived(ok, Said(r.trunk))
                   /\ ckpt' = [ckpt EXCEPT ![keyOf[t]] = r.seq]
              ELSE UNCHANGED <<archived, ckpt>>

\* The rest of commit_turn up to dropping the lock.  A turn that persists
\* marks the session dirty and goes on to persist it; for the others this is
\* where the client gets its reply.
Finish(t) ==
    LET r == sess[ref[t]]
    IN  /\ pc[t] = "committing"
        /\ MaybeCheckpoint(t)
        /\ Leave(t, IF iso[t] THEN "done" ELSE "persisting",
                 [r EXCEPT !.dirty = @ \/ ~iso[t]])
        /\ UNCHANGED <<isolated, stage, keyOf, iso, refused, json, queue, wal, background, spent>>

\* SessionStore::persist(k): whatever session the key now maps to is written
\* if it is dirty; its lock is taken for that.
Persist(k) ==
    IF live[k] = None THEN UNCHANGED <<sess, queue>>
    ELSE /\ Unlocked(live[k])
         /\ queue' = IF sess[live[k]].dirty THEN queue \cup {WriteOf(k, live[k])} ELSE queue
         /\ sess' = Clean(sess, {k})

\* The turn's own persist; then the client gets its reply.
PersistTurn(t) ==
    /\ pc[t] = "persisting"
    /\ pc' = [pc EXCEPT ![t] = "done"]
    /\ Persist(keyOf[t])
    /\ UNCHANGED <<isolated, stage, keyOf, iso, refused, ref, live, staler, json, wal, ckpt, archives,
                   background, spent>>

\* The client goes away while its turn is committing: the exchange stays in
\* the conversation and in the log, the session may be left clean.
Abandon(t) ==
    \/ /\ pc[t] = "committing"
       /\ MaybeCheckpoint(t)
       /\ Leave(t, "cut", sess[ref[t]])
       /\ UNCHANGED <<isolated, stage, keyOf, iso, refused, json, queue, wal, background, spent>>
    \/ /\ pc[t] = "persisting"
       /\ pc' = [pc EXCEPT ![t] = "cut"]
       /\ UNCHANGED <<isolated, stage, keyOf, iso, refused, ref, mind, files, background, spent>>

-----------------------------------------------------------------------------
(* Around the turns.                                                       *)

\* A blocking-pool thread carries out one queued write.  The pool has many
\* threads: the writes end in any order.
WriteFile(w) ==
    /\ w \in queue
    /\ queue' = queue \ {w}
    /\ json' = [json EXCEPT ![w.key] = w.file]
    /\ UNCHANGED <<isolated, stage, turnVars, mind, wal, ckpt, archives, background, spent>>

\* The owner enters or leaves isolation mode (a marker file).
Flip ==
    /\ Spend("flip")
    /\ isolated' = ~isolated
    /\ UNCHANGED <<stage, turnVars, mind, files, background>>

\* cleanup_expired, first half: the expired keys, read under the locks.
SweepCollect(expired) ==
    /\ stage = "up" /\ ~isolated /\ sweep = {}
    /\ expired # {} /\ expired \subseteq Live
    /\ AllUnlocked
    /\ Spend("expire")
    /\ sweep' = expired
    /\ UNCHANGED <<isolated, stage, turnVars, mind, files, resetting>>

\* Second half, under the store's write lock: each key still present is
\* archived and dropped with its file, without another look at its age; the
\* lane is not archived, the log and the checkpoint marker stay.  Then
\* persist_all.
SweepRemove ==
    LET gone == sweep \cap Live
        rest == DirtyKeys \ gone
    IN  /\ stage = "up" /\ sweep # {}
        /\ AllUnlocked
        /\ UNCHANGED deadEnd
        /\ \E ok \in scene.archive :
              archived' = Archived(ok, UNION {Said(sess[live[k]].trunk) : k \in gone})
        /\ json' = [k \in Keys |-> IF k \in gone THEN None ELSE json[k]]
        /\ live' = [k \in Keys |-> IF k \in gone THEN None ELSE live[k]]
        /\ staler' = {p \in staler : {p[1], p[2]} \cap gone = {}}
        /\ queue' = queue \cup {WriteOf(k, live[k]) : k \in rest}
        /\ sweep' = {}
        /\ UNCHANGED ref
        /\ sess' = Held(Clean(sess, rest))
        /\ UNCHANGED <<isolated, stage, pc, keyOf, iso, refused, wal, ckpt, resetting, spent>>

\* POST reset: refused in isolation; archives, starts afresh, marks dirty and
\* lets go of the lock before it persists.
Reset(k) ==
    /\ stage = "up" /\ ~isolated /\ k \in Live \ resetting
    /\ Unlocked(live[k]) /\ sess[live[k]].trunk # <<>>
    /\ Spend("reset")
    /\ \E ok \in scene.archive : ArchiveBoth(ok, {live[k]})
    /\ sess' = [sess EXCEPT ![live[k]] = [Begun(@) EXCEPT !.dirty = TRUE]]
    /\ staler' = Latest(k, Live)
    /\ resetting' = resetting \cup {k}
    /\ UNCHANGED <<isolated, stage, turnVars, live, json, queue, wal, ckpt, sweep>>

PersistReset(k) ==
    /\ k \in resetting
    /\ resetting' = resetting \ {k}
    /\ Persist(k)
    /\ UNCHANGED <<isolated, stage, turnVars, live, staler, json, wal, ckpt, archives, sweep, spent>>

-----------------------------------------------------------------------------
(* The process ends and starts again.                                      *)

\* Every task dies with the process; memory and queued writes are gone.
Die ==
    /\ stage' = "down"
    /\ pc' = [t \in Turns |-> CASE pc[t] \in {"admitted", "opened", "running"} -> "killed"
                                [] pc[t] \in {"logging", "committing", "persisting"} -> "cut"
                                [] OTHER -> pc[t]]
    /\ ref' = [t \in Turns |-> None]
    /\ sess' = [s \in Sids |-> NewSession]
    /\ live' = [k \in Keys |-> None]
    /\ staler' = {}
    /\ queue' = {}
    /\ sweep' = {} /\ resetting' = {}
    /\ UNCHANGED <<isolated, keyOf, iso, refused, json, wal, ckpt, archives>>

Crash == stage # "down" /\ Spend("crash") /\ Die

\* shut_down: from the signal on nothing new is admitted.
Stop ==
    /\ stage = "up" /\ Spend("stop")
    /\ stage' = "draining"
    /\ UNCHANGED <<isolated, turnVars, mind, files, background>>

\* drain_in_flight and flush_persistence are over: nothing is in flight, or
\* their windows have passed.
Drained == scene.slow \/ (queue = {} /\ \A t \in Turns : pc[t] \notin InFlight)

\* archive_all takes every session's lock; it ends with a persist_all.
ArchiveAll ==
    /\ AllUnlocked
    /\ \E ok \in scene.archive : ArchiveBoth(ok, {live[k] : k \in Live})
    /\ queue' = queue \cup DirtyWrites
    /\ sess' = Clean(sess, Live)

\* archive_sessions is shed in isolation.  The background tasks run on until
\* the exit.
ArchiveSessions ==
    /\ stage = "draining" /\ Drained
    /\ stage' = "archived"
    /\ IF isolated THEN UNCHANGED <<archives, queue, sess>> ELSE ArchiveAll
    /\ UNCHANGED <<isolated, turnVars, live, staler, json, wal, ckpt, background, spent>>

\* clean_up_wal: every log and marker, whatever was archived.
CleanUpWal ==
    /\ stage = "archived"
    /\ stage' = "exiting"
    /\ wal' = [k \in Keys |-> <<>>]
    /\ ckpt' = [k \in Keys |-> 0]
    /\ UNCHANGED <<isolated, turnVars, mind, json, queue, archives, background, spent>>

Exit == stage = "exiting" /\ Die /\ UNCHANGED spent

\* What read_after_checkpoint returns, and the session a file loads as.
PastCheckpoint(k) == {e \in ToSet(wal[k]) : e.seq > ckpt[k]}
Loaded(file) == [NewSession EXCEPT !.trunk = file.trunk, !.lane = file.lane,
                                   !.fallbacks = file.fallbacks, !.seq = file.seq]

\* load_persisted: the expired sessions are archived and their files removed,
\* the others are live again.
Load(loaded) ==
    LET arc == CHOOSE f \in [loaded -> Sids] : IsInjective(f)
    IN  /\ json' = [k \in Keys |-> IF k \in loaded THEN json[k] ELSE None]
        /\ live' = [k \in Keys |-> IF k \in loaded THEN arc[k] ELSE None]
        /\ sess' = [s \in Sids |->
                       IF \E k \in loaded : arc[k] = s
                       THEN Loaded(json[CHOOSE k \in loaded : arc[k] = s])
                       ELSE NewSession]
        /\ \E order \in SUBSET (loaded \X loaded) : InOrder(order, loaded) /\ staler' = order

\* Start: load_persisted, then recover_orphans takes each log whose key has
\* no session.  Its entries past the checkpoint, of either lane, are archived
\* and the log removed, unless the archive failed; a log with none is just
\* removed.  An expired session's lane is not archived.
Restart ==
    LET stored == {k \in Keys : json[k] # None}
    IN  /\ stage = "down"
        /\ stage' = "up"
        /\ \E expired \in SUBSET stored, ok \in scene.archive :
              LET orphans == {k \in Keys \ (stored \ expired) : wal[k] # <<>>}
                  cleared == {k \in orphans : ok \/ PastCheckpoint(k) = {}}
              IN  /\ IF expired = {} THEN UNCHANGED spent ELSE Spend("expire")
                  /\ Load(stored \ expired)
                  /\ archived' = Archived(ok,
                                    (UNION {Said(json[k].trunk) : k \in expired})
                                    \cup {e.said : e \in UNION {PastCheckpoint(k) : k \in orphans}})
                  /\ wal' = [k \in Keys |-> IF k \in cleared THEN <<>> ELSE wal[k]]
                  /\ ckpt' = [k \in Keys |-> IF k \in cleared THEN 0 ELSE ckpt[k]]
        /\ UNCHANGED <<isolated, turnVars, queue, deadEnd, background>>

-----------------------------------------------------------------------------
TurnStep(t) == \/ OpenLive(t) \/ OpenNew(t) \/ Start(t) \/ Fail(t) \/ GiveUp(t)
               \/ Answer(t) \/ LogReply(t) \/ Finish(t) \/ PersistTurn(t) \/ Abandon(t)

Next == /\ UNCHANGED scene
        /\ \/ \E t \in Turns, k \in Keys : Admit(t, k)
           \/ \E t \in Turns : TurnStep(t)
           \/ \E w \in queue : WriteFile(w)
           \/ Flip
           \/ \E expired \in SUBSET Live : SweepCollect(expired)
           \/ SweepRemove
           \/ \E k \in Keys : Reset(k) \/ PersistReset(k)
           \/ Crash \/ Stop \/ ArchiveSessions \/ CleanUpWal \/ Exit \/ Restart

Spec == Init /\ [][Next]_vars
-----------------------------------------------------------------------------
(* Properties.                                                             *)

Answered(t) == pc[t] = "done" /\ ~iso[t]
Stored == {json[k] : k \in {j \in Keys : json[j] # None}} \cup {w.file : w \in queue}
OnTrunks(copies) == UNION {Said(c.trunk) : c \in copies}
OnLanes(copies) == UNION {Said(c.lane) : c \in copies}
InMemory == {sess[s] : s \in Sids}
InLogs == UNION {{e.said : e \in ToSet(wal[k])} : k \in Keys}

\* Types of every variable of the store, the files and the turns.
Lens01 == [trunk : Nat, lane : Nat]
Files == [trunk : Seq(Messages), lane : Seq(Messages), fallbacks : 0..MaxFallbacks, seq : Nat]
TypeOK ==
    /\ isolated \in BOOLEAN
    /\ stage \in {"up", "draining", "archived", "exiting", "down"}
    /\ pc \in [Turns -> InFlight \cup {"new", "done", "cut", "failed", "killed"}]
    /\ keyOf \in [Turns -> Keys \cup {None}]
    /\ iso \in [Turns -> BOOLEAN] /\ refused \in [Turns -> BOOLEAN]
    /\ ref \in [Turns -> Sids \cup {None}]
    /\ \A s \in Sids : /\ FileOf(s) \in Files
                       /\ Len(sess[s].lane) <= MaxQuarantine
                       /\ sess[s].mark \in Lens01 \cup {None}
                       /\ sess[s].found \in Lens01
                       /\ sess[s].dirty \in BOOLEAN
                       /\ sess[s].lock \in Turns \cup {None}
    /\ live \in [Keys -> Sids \cup {None}]
    /\ InOrder(staler, Live)
    /\ \A k \in Keys : json[k] \in Files \cup {None}
    /\ queue \subseteq [key : Keys, file : Files]
    /\ wal \in [Keys -> Seq([seq : Nat, said : Messages])]
    /\ ckpt \in [Keys -> Nat]
    /\ archived \subseteq Messages /\ deadEnd \subseteq Messages
    /\ sweep \subseteq Keys /\ resetting \subseteq Keys
    /\ \A what \in BoundNames : spent[what] \in 0..scene.budget[what]

\* A turn no model answered (it failed, was refused, its client left, or the
\* process died under it) leaves no trace: not in a session other turns can
\* read, not in a log, a session file, a queued write or an archive
\* (TurnGuard's rollback and the deferred commit of commit_to_wal).
NoTraceOfUnanswered ==
    \A t \in Turns : pc[t] \in {"running", "failed", "killed"} =>
        /\ Exchange(t) \cap (OnTrunks(Stored) \cup OnLanes(Stored) \cup InLogs
                             \cup archived \cup deadEnd) = {}
        /\ \A s \in Sids : Exchange(t) \cap (Said(sess[s].trunk) \cup Said(sess[s].lane)) # {}
                           => sess[s].lock = t

\* A checkpoint covers what was logged and archives the trunk: a crash before
\* the first session file loses a refused exchange it covers.
LaneForgotten(t) == refused[t] /\ spent.crash > 0

\* A shutdown that outruns its windows ends turns as a crash does.
NeverCrashed == spent.crash = 0
NeverCut == NeverCrashed /\ (scene.slow => spent.stop = 0)

\* A session that was evicted or has expired starts again at 1 in the log it
\* had.
NeverForgotten == spent.expire = 0 /\ scene.sessions >= Cardinality(Keys)

\* The message cap drains what no archive has.
CapIsFar == scene.cap > 2 * scene.turns

\* A reset and a compaction go on when their archive failed, and the next
\* checkpoint covers what they forgot.
NothingDropped == NeverForgotten /\ CapIsFar /\ scene.archive = {TRUE}

\* An exchange whose reply was delivered stays somewhere, both messages of
\* it: in memory, in a session file written or queued, in a log, or in an
\* archive (commit_to_wal, recover_orphans, persist and archive_all between
\* them).  An orderly shutdown removes every log, whatever was archived: the
\* promise ends there; and after a crash it holds of what nothing dropped.
AnsweredStaysOnRecord == spent.stop = 0 /\ (NeverCrashed \/ NothingDropped) =>
    \A t \in Turns : Answered(t) /\ ~LaneForgotten(t) =>
        Exchange(t) \subseteq OnTrunks(InMemory \cup Stored) \cup OnLanes(InMemory \cup Stored)
                             \cup InLogs \cup archived \cup deadEnd

\* A checkpoint hides only what was archived: the entries recover_orphans
\* will skip are in an archive already (maybe_checkpoint, begin_fresh).  A
\* crash may leave an older session file, whose numbers were used since.
CheckpointCovers == NeverCut /\ NothingDropped =>
    \A k \in Keys : \A e \in ToSet(wal[k]) :
        e.seq <= ckpt[k] => \A t \in Turns : e.said \in Exchange(t) => refused[t] \/ e.said \in archived

\* The sequence numbers of a log increase (append_wal, begin_fresh).
LogIncreases == NeverCut /\ NeverForgotten =>
    \A k \in Keys : \A i, j \in 1..Len(wal[k]) : i < j => wal[k][i].seq < wal[k][j].seq

\* What the log promises the next boot: its entries are in order and those a
\* checkpoint hides are archived, for turns, resets, compactions and
\* evictions side by side (append_wal, maybe_checkpoint, begin_fresh).
LogHolds == TypeOK /\ CheckpointCovers /\ LogIncreases

\* Nothing takes messages off the head of a conversation: no reset, no
\* compaction, no cap.
HeadKept == scene.due = {FALSE} /\ scene.budgets = {FALSE} /\ CapIsFar /\ spent.reset = 0

\* What a normal turn shows a provider has nothing of an isolated exchange.
ShownNothingIsolated(t) ==
    pc[t] = "running" /\ ~iso[t] =>
        \A u \in Turns : iso[u] =>
            Exchange(u) \cap (Said(sess[ref[t]].trunk) \cup Said(sess[ref[t]].lane)) = {}

\* A normal turn never shows the provider an exchange made in isolation, not
\* even one of a turn isolation was entered under: the first of them drops
\* both tails (close_isolation_window, anchor_isolation_after_turn).  A
\* watermark is a length, is not moved when the head of the conversation goes,
\* and ends with the process.
IsolatedTailDropped == NeverCrashed /\ spent.stop = 0 /\ HeadKept => \A t \in Turns : ShownNothingIsolated(t)

\* What the default model refused is on no trunk, in memory or in a session
\* file, and in no archive memory is made from, until a log is recovered
\* (invoke_turn_with_refusal_fallback, reset_session, archive_on_shutdown).
RefusedStaysApart ==
    \A t \in Turns : refused[t] =>
        /\ Exchange(t) \cap OnTrunks(InMemory \cup Stored) = {}
        /\ NeverCrashed /\ spent.stop = 0 => Exchange(t) \cap archived = {}

\* And recovering a log keeps them apart as well (recover_orphans).
RefusedNotArchived == \A t \in Turns : refused[t] => Exchange(t) \cap archived = {}

-----------------------------------------------------------------------------
(* What the comments of the code say and the code does not do: no run      *)
(* checks these, the README tells how each of them fails.                  *)

\* While the daemon is up, an exchange whose reply was delivered is in its
\* conversation or in an archive: a crash does not lose it (recover_orphans).
AnsweredIsReplayed ==
    stage = "up" => \A t \in Turns :
        Answered(t) => Exchange(t) \subseteq OnTrunks(InMemory) \cup OnLanes(InMemory)
                                            \cup archived \cup deadEnd

\* IsolatedTailDropped, whatever happens to the head of a conversation.
IsolatedNeverShown == NeverCrashed => \A t \in Turns : ShownNothingIsolated(t)

\* An exchange made in isolation reaches no session file and no archive
\* (track_isolation_window).
IsolatedStaysInMemory ==
    \A t \in Turns : iso[t] =>
        Exchange(t) \cap (OnTrunks(Stored) \cup OnLanes(Stored) \cup archived \cup deadEnd) = {}
=============================================================================
