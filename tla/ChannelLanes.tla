---------------------------- MODULE ChannelLanes ----------------------------
(***************************************************************************)
(* The Discord text loop (plugins/discord_forwarder.rs): each message of   *)
(* the gateway is admitted against the memory of those seen, queued on the *)
(* lane of its channel, answered by a turn there, and posted once.  A lane *)
(* is a bounded queue and the worker that takes from it; a worker may      *)
(* panic, and a stop gives it a while and then asks it to end.             *)
(*                                                                         *)
(* The gateway may deliver a message again.  The wait for a slot and the   *)
(* turn are those of TurnRunner, here with the count of slots alone; what  *)
(* the gateway holds when the link stops is dropped unseen, so a message   *)
(* is taken the moment it comes.                                           *)
(***************************************************************************)
EXTENDS Integers, FiniteSets, Sequences, SequencesExt

CONSTANTS
    ChatMessages,   \* <<channel, name>>: what the gateway may deliver
    LaneDepth,      \* LANE_DEPTH
    LaneConfigs     \* the configurations explored

ASSUME ChannelLanesAssumption ==
    /\ LaneDepth \in Nat \ {0}
    /\ \A c \in LaneConfigs :
          /\ c.window \in Nat \ {0}   \* ids DedupState keeps (discord-echo)
          /\ c.slots \in Nat \ {0}    \* the plugin's pool
          /\ c.admits \in Nat         \* bound: messages admitted
          /\ c.panics \in Nat         \* bound: panics of workers
          /\ c.links \in Nat          \* bound: starts of the link

VARIABLES
    chatLaw,     \* the configuration, fixed
    link,        \* the DiscordLink: its number, whether it is up, its stop, panics so far
    dedup,       \* DedupState, which outlives the link
    senders,     \* Lanes.senders: senders[ch] is the place of its worker, 0 if none
    workers,     \* Lanes.workers, in the order they were spawned, every link's
    posts,       \* what Discord has got
    admissions   \* history: admissions, which number the messages

lanesVars == <<chatLaw, link, dedup, senders, workers, posts, admissions>>

Channels == {m[1] : m \in ChatMessages}
AtWork == {"slot", "turn", "reply", "posting", "landed"}
NoJob == <<>>
Jobs == ChatMessages \X Nat
\* A lane whose worker has not begun on its first message.
NewWorker(ch, job) ==
    [channel |-> ch, link |-> link.number, queue |-> <<job>>, at |-> "waits", job |-> NoJob,
     asked |-> FALSE]

LanesTypeOK ==
    /\ chatLaw \in LaneConfigs
    /\ link \in [number : Nat, is : {"down", "up", "ending"}, stopped : BOOLEAN,
                closing : BOOLEAN, panics : Nat]
    /\ dedup.seen \in Seq(ChatMessages) /\ Len(dedup.seen) <= chatLaw.window
    /\ dedup.responded \subseteq ChatMessages
    /\ senders \in [Channels -> 0..Len(workers)]
    /\ \A i \in DOMAIN workers :
          /\ workers[i].channel \in Channels /\ workers[i].link \in 1..link.number
          /\ workers[i].queue \in Seq(Jobs) /\ Len(workers[i].queue) <= LaneDepth
          /\ workers[i].at \in AtWork \cup {"waits", "dead"}
          /\ workers[i].job \in Jobs \cup {NoJob}
          /\ workers[i].asked \in BOOLEAN
    /\ \A i \in DOMAIN posts : posts[i].job \in Jobs
    /\ admissions \in Nat
    \* the slots of the pool cover the turns
    /\ Cardinality({i \in DOMAIN workers : workers[i].at = "turn"}) <= chatLaw.slots

LanesInit ==
    /\ chatLaw \in LaneConfigs
    /\ link = [number |-> 1, is |-> "up", stopped |-> FALSE, closing |-> FALSE, panics |-> 0]
    /\ dedup = [seen |-> <<>>, responded |-> {}]
    /\ senders = [ch \in Channels |-> 0]
    /\ workers = <<>>
    /\ posts = <<>>
    /\ admissions = 0

-----------------------------------------------------------------------------
(* The forwarder: run, admit and Lanes::queue.                             *)

\* check_and_record_seen of an id that is not in the window.
Record(m) ==
    dedup' = [dedup EXCEPT !.seen =
                 Append(IF Len(@) = chatLaw.window THEN Tail(@) ELSE @, m)]

\* A lane takes messages while its worker has not returned.
Alive(ch) == senders[ch] # 0 /\ workers[senders[ch]].at # "dead"

\* On the lane of the channel, which drops the message when it is full; or
\* on a new one, when there is none or its worker is gone.
Queue(ch, job) ==
    \/ /\ Alive(ch)
       /\ workers' = [workers EXCEPT ![senders[ch]].queue =
                         IF Len(@) < LaneDepth THEN Append(@, job) ELSE @]
       /\ UNCHANGED senders
    \/ /\ ~Alive(ch)
       /\ workers' = Append(workers, NewWorker(ch, job))
       /\ senders' = [senders EXCEPT ![ch] = Len(workers) + 1]

\* A message of the gateway, unless it is stale or was seen.
Arrive(m) ==
    /\ link.is = "up"
    /\ admissions < chatLaw.admits
    /\ m \notin Range(dedup.seen)
    /\ Record(m)
    /\ admissions' = admissions + 1
    /\ Queue(m[1], <<m, admissions'>>)
    /\ UNCHANGED <<chatLaw, link, posts>>

-----------------------------------------------------------------------------
(* A lane's worker: lane, answer and post_once.                            *)

Becomes(i, w) == workers' = [workers EXCEPT ![i] = w]
LaneRest == UNCHANGED <<chatLaw, link, senders, admissions>>

\* Dead, and what it had queued is gone.
Gone(i) == Becomes(i, [workers[i] EXCEPT !.at = "dead", !.queue = <<>>, !.job = NoJob])

\* Done with the message in hand.
PutsDown(i) == Becomes(i, [workers[i] EXCEPT !.at = "waits", !.job = NoJob])

\* The next message: the worker ends once its link is stopped or the whole
\* pulse refuses turns; a message too old is passed over.
TakeNext(i) ==
    /\ workers[i].at = "waits" /\ workers[i].queue # <<>>
    /\ ~workers[i].asked
    /\ \/ (link.closing \/ link.stopped) /\ Gone(i)
       \/ /\ ~(link.closing \/ link.stopped)
          /\ \/ Becomes(i, [workers[i] EXCEPT !.at = "slot", !.job = Head(workers[i].queue),
                                              !.queue = Tail(workers[i].queue)])
             \/ Becomes(i, [workers[i] EXCEPT !.queue = Tail(workers[i].queue)])
    /\ LaneRest /\ UNCHANGED <<dedup, posts>>

\* Nothing is queued and the forwarder has let go of its senders.
LaneEnds(i) ==
    /\ workers[i].at = "waits" /\ workers[i].queue = <<>>
    /\ link.is # "up" /\ ~workers[i].asked
    /\ Gone(i)
    /\ LaneRest /\ UNCHANGED <<dedup, posts>>

\* turns.run, waiting for a slot for ever: it looks at the stop of the
\* pulse and not at the link's.
StartTurn(i) ==
    /\ workers[i].at = "slot" /\ ~workers[i].asked
    /\ \/ link.closing /\ PutsDown(i)
       \/ /\ ~link.closing
          /\ Cardinality({j \in DOMAIN workers : workers[j].at = "turn"}) < chatLaw.slots
          /\ Becomes(i, [workers[i] EXCEPT !.at = "turn"])
    /\ LaneRest /\ UNCHANGED <<dedup, posts>>

\* A turn that failed or chose silence, or one with a reply.
TurnEnds(i, answers) ==
    /\ workers[i].at = "turn" /\ ~workers[i].asked
    /\ IF answers THEN Becomes(i, [workers[i] EXCEPT !.at = "reply"]) ELSE PutsDown(i)
    /\ LaneRest /\ UNCHANGED <<dedup, posts>>

\* Changed: has_responded is not asked.
LookAgain_Not(i) ==
    /\ workers[i].at = "reply" /\ ~workers[i].asked
    /\ Becomes(i, [workers[i] EXCEPT !.at = "posting"])
    /\ LaneRest /\ UNCHANGED <<dedup, posts>>

\* post_once asks has_responded before it posts ...
LookAgain(i) ==
    /\ workers[i].at = "reply" /\ ~workers[i].asked
    /\ IF workers[i].job[1] \in dedup.responded THEN PutsDown(i)
       ELSE Becomes(i, [workers[i] EXCEPT !.at = "posting"])
    /\ LaneRest /\ UNCHANGED <<dedup, posts>>

\* ... Discord takes the reply, from a worker asked to end too ...
PostLands(i) ==
    /\ workers[i].at = "posting"
    /\ posts' = Append(posts, [job |-> workers[i].job, link |-> workers[i].link, recorded |-> FALSE])
    /\ Becomes(i, [workers[i] EXCEPT !.at = "landed"])
    /\ LaneRest /\ UNCHANGED dedup

\* ... or refuses it, or the answer that it did is lost.
PostFails(i) ==
    /\ workers[i].at \in {"posting", "landed"} /\ ~workers[i].asked
    /\ PutsDown(i)
    /\ LaneRest /\ UNCHANGED <<dedup, posts>>

\* The reply is on record as given: the id will not be answered again.
RecordPost(i) ==
    /\ workers[i].at = "landed" /\ ~workers[i].asked
    /\ dedup' = [dedup EXCEPT !.responded = @ \cup {workers[i].job[1]}]
    /\ posts' = [k \in DOMAIN posts |->
                    IF posts[k].job = workers[i].job THEN [posts[k] EXCEPT !.recorded = TRUE] ELSE posts[k]]
    /\ PutsDown(i)
    /\ LaneRest

\* A panic wherever the worker is at work.
Panic(i) ==
    /\ workers[i].at \in AtWork /\ ~workers[i].asked
    /\ link.panics < chatLaw.panics
    /\ link' = [link EXCEPT !.panics = @ + 1]
    /\ Gone(i)
    /\ UNCHANGED <<chatLaw, senders, admissions, dedup, posts>>

\* The abort of abort_all reaches the worker where it waits.
Aborted(i) ==
    /\ workers[i].at # "dead" /\ workers[i].asked
    /\ Gone(i)
    /\ LaneRest /\ UNCHANGED <<dedup, posts>>

-----------------------------------------------------------------------------
(* The link.                                                               *)

\* The pulse starts to shut down, before its plugins are stopped.
RefuseTurns ==
    /\ ~link.closing
    /\ link' = [link EXCEPT !.closing = TRUE]
    /\ UNCHANGED <<chatLaw, dedup, senders, workers, posts, admissions>>

\* The gateway's task ends: the forwarder leaves its loop, and its lanes go
\* on with what they have queued.
GatewayEnds ==
    /\ link.is = "up"
    /\ link' = [link EXCEPT !.is = "ending"]
    /\ UNCHANGED <<chatLaw, dedup, senders, workers, posts, admissions>>

\* stop: the forwarder leaves its loop, if it has not, and the lanes start
\* on nothing more.
StopLink ==
    /\ ~link.stopped
    /\ link' = [link EXCEPT !.stopped = TRUE, !.is = IF @ = "up" THEN "ending" ELSE @]
    /\ UNCHANGED <<chatLaw, dedup, senders, workers, posts, admissions>>

\* finish: every worker has returned, or the grace is over and the rest are
\* asked to end.
FinishLanes ==
    /\ link.is = "ending"
    /\ link' = [link EXCEPT !.is = "down"]
    /\ senders' = [ch \in Channels |-> 0]
    /\ workers' = [i \in DOMAIN workers |->
                      IF workers[i].at # "dead" THEN [workers[i] EXCEPT !.asked = TRUE] ELSE workers[i]]
    /\ UNCHANGED <<chatLaw, dedup, posts, admissions>>

\* start after a stop: the memory is the plugin's.
StartLink ==
    /\ link.is = "down" /\ link.stopped /\ link.number < chatLaw.links
    /\ link' = [link EXCEPT !.is = "up", !.stopped = FALSE, !.number = @ + 1]
    /\ UNCHANGED <<chatLaw, dedup, senders, workers, posts, admissions>>

-----------------------------------------------------------------------------
WorkerSteps(i) ==
    \/ TakeNext(i) \/ LaneEnds(i) \/ StartTurn(i) \/ (\E answers \in BOOLEAN : TurnEnds(i, answers))
    \/ LookAgain(i) \/ PostLands(i) \/ PostFails(i) \/ RecordPost(i) \/ Aborted(i)

LanesNext ==
    \/ \E m \in ChatMessages : Arrive(m)
    \/ \E i \in DOMAIN workers : WorkerSteps(i) \/ Panic(i)
    \/ RefuseTurns \/ GatewayEnds \/ StopLink \/ FinishLanes \/ StartLink

LanesSpec == LanesInit /\ [][LanesNext]_lanesVars

\* The workers run, a turn ends and Discord answers.  The grace is a timeout,
\* which may not pass.
LanesFairness ==
    \A i \in 1..2 : WF_lanesVars(i \in DOMAIN workers /\ WorkerSteps(i))

-----------------------------------------------------------------------------
(* Properties.                                                             *)

\* The replies a channel gets over one link are in the order in which its
\* messages were admitted (the order the type Forwarder documents), whatever
\* was dropped, failed or lost with a worker in between.
RepliesInOrder ==
    \A j, k \in DOMAIN posts :
       j < k /\ posts[j].job[1][1] = posts[k].job[1][1] /\ posts[j].link = posts[k].link
          => posts[j].job[2] < posts[k].job[2]

\* A message is answered once, though it is delivered again after the window
\* has forgotten it, and though the link is restarted: only a reply whose
\* success was never recorded (a lost answer, a panic, an abort) may be
\* followed by another.
RepliedOnce ==
    \A m \in ChatMessages :
       Cardinality({k \in DOMAIN posts : posts[k].job[1] = m /\ posts[k].recorded}) <= 1

\* No lane takes messages that nobody will take off it: a worker that
\* panicked is noticed at the next message, which starts another.
QueuedIsHeard == \A i \in DOMAIN workers : workers[i].queue # <<>> => workers[i].at # "dead"

\* What the forwarder promises a channel, with redelivery, panics and a
\* restarted link: one recorded answer to a message, in order, and no queue
\* without a worker (admit, queue, post_once).
LanesHold == LanesTypeOK /\ RepliesInOrder /\ RepliedOnce /\ QueuedIsHeard

\* Once the forwarder has left its loop, the lanes come to their end without
\* the grace being over, whoever waits for a slot or has messages queued.
LanesEnd == link.is = "ending" ~> \A i \in DOMAIN workers : workers[i].at = "dead"
=============================================================================
