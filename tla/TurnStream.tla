------------------------------ MODULE TurnStream ------------------------------
(***************************************************************************)
(* What a streaming client is told of one turn: the tool loop that drives  *)
(* the provider's stream and speaks through a ProgressSink (tool_loop.rs), *)
(* the hold of a voice turn and its gate (speech_gate.rs), the refusal     *)
(* fallback and the guard's reset, and the stream that reads the bounded   *)
(* channel and the control plane beside it (server/handlers/chat.rs).      *)
(*                                                                         *)
(* The text of a round is a sequence of units; the guard keeps those up to *)
(* a mark the speaker does not know before the round is over, and the gate *)
(* never releases past it.  The two sides run on different threads; the    *)
(* producer never waits, and plans in one step what it then delivers event *)
(* by event.  What the turn stores is modelled in Conversations.           *)
(***************************************************************************)
EXTENDS Naturals, Sequences, SequencesExt

CONSTANTS
    StreamCapacity,    \* STREAM_CHANNEL_CAPACITY
    StreamConfigs      \* the configurations explored

ASSUME TurnStreamAssumption ==
    /\ StreamCapacity \in Nat \ {0}
    /\ \A c \in StreamConfigs :
          /\ c.voice \in BOOLEAN       \* hold_deltas
          /\ c.bounds \in BOOLEAN      \* the provider reports message boundaries
          /\ c.fallback \in BOOLEAN    \* an owner: a refused turn is run again
          /\ c.cap \in Nat             \* hold_byte_cap, in units
          /\ c.rounds \in Nat          \* MAX_TOOL_ROUNDS
          /\ c.text \in Nat \ {0}      \* bound: units of a round

VARIABLES
    stream,     \* the configuration, fixed
    speaker,    \* the turn: where it is, its rounds, what it is about to deliver
    hold,       \* HeldSpeech and its gate
    ctl,        \* ControlPlane
    lane,       \* the channel
    reader,     \* the response stream
    audience,   \* what the client has been told
    tried       \* history: the text and the resets handed over, whole turn

streamVars == <<stream, speaker, hold, ctl, lane, reader, audience, tried>>

Silent == [at |-> "next", tools |-> 0, said |-> <<>>, index |-> 0, own |-> FALSE,
           out |-> <<>>, saw |-> FALSE, outcome |-> "none", again |-> FALSE, kept |-> TRUE]
NothingHeld == [buf |-> 0, held |-> 0, released |-> 0, segs |-> <<>>, bytes |-> 0,
                over |-> FALSE, sealed |-> FALSE, ever |-> FALSE, handled |-> FALSE]

StreamInit ==
    /\ stream \in StreamConfigs
    /\ speaker = Silent
    /\ hold = NothingHeld
    /\ ctl = [resets |-> 0, asked |-> 0, segs |-> <<>>, accepted |-> 0, given |-> 0, notified |-> FALSE]
    /\ lane = <<>>
    /\ reader = [at |-> "top", hand |-> <<>>, event |-> <<>>, written |-> 0]
    /\ audience = [last |-> 0, inOrder |-> TRUE, index |-> 0, resets |-> 0, behind |-> 0,
               text |-> {}, over |-> "no"]
    /\ tried = <<>>

-----------------------------------------------------------------------------
(* Events.  Text names its round and unit; the whole reply is <<0, 0>>, and *)
(* a reset is <<0, 1>>.                                                    *)

Text(r, i) == [is |-> "text", of |-> <<r, i>>]
Whole == Text(0, 0)
SegmentAt(n) == [is |-> "segment", of |-> <<n, 0>>]
StatusIs == [is |-> "status", of |-> <<0, 0>>]
Reset == [is |-> "reset", of |-> <<0, 1>>]

Now == Len(speaker.said)
Units(r, from, to) == [k \in 1..(to - from) |-> Text(r, from + k)]
Spoken(events) == SelectSeq(events, LAMBDA e : e.is \in {"text", "reset"})
Truncated(r) == speaker.said[r].got > speaker.said[r].mark
Kept(r) == IF Truncated(r) THEN speaker.said[r].mark ELSE speaker.said[r].got
Optional(event, if) == IF if THEN <<event>> ELSE <<>>

\* The speaker plans events and goes on; h is the hold after it.
Plans(who, events, h) ==
    /\ speaker' = [who EXCEPT !.out = events]
    /\ hold' = h
    /\ tried' = tried \o [k \in DOMAIN Spoken(events) |-> Spoken(events)[k].of]
    /\ UNCHANGED <<stream, ctl, lane, reader, audience>>

At(place) == speaker.at = place /\ speaker.out = <<>>
Goes(place) == [speaker EXCEPT !.at = place]
Ends(outcome) == [speaker EXCEPT !.at = "ends", !.outcome = outcome]

-----------------------------------------------------------------------------
(* The hold of a voice turn.                                               *)

\* flush_held: what is held, less what the gate has let go of, then the
\* boundaries; the gate counts all of it as released.
Flushed(h) ==
    LET first == h.buf - h.held
        skip == IF h.released > first THEN h.released - first ELSE 0
    IN  Units(Now, first + skip, h.buf) \o [k \in DOMAIN h.segs |-> SegmentAt(h.segs[k])]
AfterFlush(h) == [h EXCEPT !.held = 0, !.segs = <<>>, !.released = h.buf]

ReleasedAny(h) == h.ever \/ h.released > 0
HoldDropped(h) == [h EXCEPT !.held = 0, !.segs = <<>>, !.bytes = 0]

\* begin_next_round: the text of a later round is held to its end.
RestartRound_Unsealed(h) ==       \* mutant: an earlier release is forgotten
    [h EXCEPT !.buf = 0, !.released = 0, !.sealed = TRUE]
RestartRound(h) ==
    [h EXCEPT !.ever = @ \/ h.released > 0, !.buf = 0, !.released = 0, !.sealed = TRUE]

\* SpeechGate::push: any clause that ends before the mark, or none.
MayRelease(h) ==
    IF h.sealed THEN {h.released}
    ELSE {p \in h.released..h.buf : p <= speaker.said[Now].mark}

\* finish_cut: the rest of what is kept, if this round has been heard; the
\* cut is settled too if only an earlier one has.
SettlesCut(h) == stream.voice /\ ~h.over /\ ReleasedAny(h)
CutRest(h) == IF h.released > 0 THEN Units(Now, h.released, Kept(Now)) ELSE <<>>

-----------------------------------------------------------------------------
(* invoke_with_tool_loop_streaming.                                        *)

\* The mark of the round is hidden: whatever the model says after it is cut.
NextRound ==
    /\ At("next")
    /\ \E mark \in 0..stream.text :
          Plans([speaker EXCEPT !.at = "round", !.said = Append(@, [got |-> 0, mark |-> mark])],
                <<StatusIs>>, IF speaker.tools > 0 THEN RestartRound(hold) ELSE hold)

\* A text delta, on a screen and to a voice.
Yields ==
    LET n == speaker.said[Now].got + 1
        on == [speaker EXCEPT !.said[Now].got = n]
        starts == Optional(StatusIs, n = 1)
        fed == [hold EXCEPT !.bytes = @ + 1, !.buf = @ + 1, !.held = @ + 1]
    IN  /\ At("round") /\ n <= stream.text
        /\ \/ ~stream.voice /\ Plans(on, starts \o <<Text(Now, n)>>, hold)
           \/ stream.voice /\ hold.over /\ Plans(on, starts, hold)
           \/ /\ stream.voice /\ ~hold.over /\ hold.bytes + 1 > stream.cap
              /\ Plans(on, starts \o <<Reset>>, [hold EXCEPT !.over = TRUE, !.held = 0, !.segs = <<>>])
           \/ /\ stream.voice /\ ~hold.over /\ hold.bytes + 1 <= stream.cap
              /\ \E p \in MayRelease(fed) :
                    Plans(on, starts \o Units(Now, fed.released, p),
                          [fed EXCEPT !.released = p, !.ever = @ \/ p > fed.released])

\* begin_text_block.
BlockEnds ==
    /\ At("round") /\ stream.voice /\ ~hold.sealed
    /\ Plans(speaker, <<>>, [hold EXCEPT !.sealed = TRUE])

\* The provider ends a message itself; an index is used up if it is accepted.
\* Bound: as many messages as units.
SegmentEnds ==
    LET taken == [speaker EXCEPT !.own = TRUE, !.index = @ + 1]
    IN  /\ At("round") /\ stream.bounds /\ speaker.index < speaker.said[Now].got
        /\ IF ~stream.voice THEN Plans(taken, <<SegmentAt(speaker.index)>>, hold)
           ELSE IF hold.over THEN Plans([speaker EXCEPT !.own = TRUE], <<>>, hold)
           ELSE Plans(taken, <<>>, [hold EXCEPT !.segs = Append(@, speaker.index)])

\* The round is over, and runs a tool.
RoundRunsTools ==
    LET announce == ~speaker.own
    IN  /\ At("round") /\ ~Truncated(Now) /\ speaker.tools < stream.rounds
        /\ Plans([speaker EXCEPT !.at = "tool", !.tools = @ + 1, !.index = IF announce THEN @ + 1 ELSE @],
                 Flushed(hold) \o (IF announce THEN <<SegmentAt(speaker.index), StatusIs>> ELSE <<>>),
                 AfterFlush(hold))

\* The calls return; a provider with its own boundaries has the tools named
\* afterwards.
ToolsReturn ==
    /\ At("tool")
    /\ Plans(Goes("next"), Optional(StatusIs, speaker.own), hold)

\* The turn is over with this round, asking for a tool past the cap or not.
LastRound ==
    /\ At("round") /\ ~Truncated(Now)
    /\ \E capped \in {FALSE} \cup (IF speaker.tools = stream.rounds THEN {TRUE} ELSE {}) :
          LET closes == ~speaker.own /\ (capped \/ speaker.tools > 0)
          IN  Plans([Ends("done") EXCEPT !.index = IF closes THEN @ + 1 ELSE @],
                    Flushed(hold) \o Optional(SegmentAt(speaker.index), closes),
                    AfterFlush(hold))

\* The guard cuts the round: a voice that has been heard goes on to the cut,
\* otherwise what was said is void.
VoidAndWhole == <<Reset>> \o Optional(Whole, stream.voice /\ \E r \in 1..Now : Kept(r) > 0)
RoundIsCut ==
    /\ At("round") /\ Truncated(Now)
    /\ IF SettlesCut(hold) THEN Plans(Ends("done"), CutRest(hold), [hold EXCEPT !.handled = TRUE])
       ELSE Plans(Ends("done"), VoidAndWhole, HoldDropped(hold))

\* An error, or a refusal nobody answers: a voice that was heard is told so.
TurnErrs ==
    /\ At("round") \/ At("again")
    /\ Plans(Ends("error"), Optional(Reset, stream.voice /\ ReleasedAny(hold)), hold)

\* A refusal: the fallback model answers, once the draft is void.
Refused ==
    /\ At("round") /\ stream.fallback
    /\ Plans([Goes("again") EXCEPT !.again = TRUE],
             Optional(Reset, speaker.saw \/ (stream.voice /\ hold.held > 0)) \o <<StatusIs>>,
             HoldDropped(hold))

\* The whole of what the guard keeps of its reply, and nothing if that is
\* nothing; a reply that was cut is void then, and a voice told once more.
FallbackAnswers ==
    /\ At("again")
    /\ \/ Plans(Ends("done"), <<StatusIs, Whole>>, hold)
       \/ \E kept \in BOOLEAN :
             Plans([Ends("done") EXCEPT !.kept = kept],
                   <<StatusIs, Whole, Reset>> \o Optional(Whole, stream.voice /\ kept),
                   HoldDropped(hold))

\* The sink is dropped with the turn, and the outcome goes to the stream.
TurnIsOver ==
    /\ At("ends") /\ speaker' = Goes("gone")
    /\ UNCHANGED <<stream, hold, ctl, lane, reader, audience, tried>>

-----------------------------------------------------------------------------
(* ProgressSink::deliver, for the next event that was planned.             *)

OnLane(event) ==
    /\ lane' = Append(lane, [no |-> ctl.given + 1, is |-> event.is, of |-> event.of])
    /\ ctl' = [ctl EXCEPT !.accepted = @ + 1, !.given = @ + 1]
    /\ speaker' = [speaker EXCEPT !.out = Tail(@), !.saw = @ \/ event.is = "text"]

DeliverReset ==
    /\ speaker.out # <<>> /\ Head(speaker.out).is = "reset"
    /\ ctl' = [ctl EXCEPT !.resets = @ + 1, !.asked = @ + 1, !.notified = TRUE]
    /\ speaker' = [speaker EXCEPT !.out = Tail(@)]
    /\ UNCHANGED <<stream, hold, lane, reader, audience, tried>>

DeliverEvent ==
    /\ speaker.out # <<>> /\ Head(speaker.out).is \notin {"reset", "parks"}
    /\ Len(lane) < StreamCapacity
    /\ OnLane(Head(speaker.out))
    /\ UNCHANGED <<stream, hold, reader, audience, tried>>

\* Nothing waits for room.  A segment is not lost: it is parked, and the
\* reader may have moved on before it is.
FindsFull ==
    /\ speaker.out # <<>> /\ Head(speaker.out).is \notin {"reset", "parks"}
    /\ Len(lane) = StreamCapacity
    /\ speaker' = [speaker EXCEPT !.out = IF Head(@).is = "segment"
                                          THEN <<[Head(@) EXCEPT !.is = "parks"]>> \o Tail(@) ELSE Tail(@)]
    /\ UNCHANGED <<stream, hold, ctl, lane, reader, audience, tried>>

Parked(after) ==
    /\ speaker.out # <<>> /\ Head(speaker.out).is = "parks"
    /\ ctl' = [ctl EXCEPT !.given = @ + 1, !.notified = TRUE,
                          !.segs = Append(@, [no |-> ctl.given + 1, is |-> "segment",
                                              of |-> Head(speaker.out).of, after |-> after])]
    /\ speaker' = [speaker EXCEPT !.out = Tail(@)]
    /\ UNCHANGED <<stream, hold, lane, reader, audience, tried>>
Park == Parked(ctl.accepted)

-----------------------------------------------------------------------------
(* The stream of the response.                                             *)

readerRest == <<stream, speaker, hold, tried>>
Reads(at) == reader.at = at /\ reader.hand = <<>>

\* The resets come first, at the top, before an event, and at the end.
DrainResets ==
    \E at \in {"top", "event", "closed"} :
        /\ Reads(at)
        /\ reader' = [reader EXCEPT !.hand = [k \in 1..ctl.resets |-> Reset],
                                    !.at = CASE at = "top" -> "due" [] at = "event" -> "event_due"
                                             [] at = "closed" -> "closed_due"]
        /\ ctl' = [ctl EXCEPT !.resets = 0]
        /\ UNCHANGED readerRest /\ UNCHANGED <<lane, audience>>

\* take_due.
TakeDue ==
    \E at \in {"due", "event_due", "closed_due"} :
        LET due(s) == at = "closed_due" \/ s.after <= reader.written
        IN  /\ Reads(at)
            /\ reader' = [reader EXCEPT !.hand = SelectSeq(ctl.segs, due),
                                        !.at = CASE at = "due" -> "select" [] at = "event_due" -> "write"
                                                 [] at = "closed_due" -> "last"]
            /\ ctl' = [ctl EXCEPT !.segs = SelectSeq(@, LAMBDA s : ~due(s))]
            /\ UNCHANGED readerRest /\ UNCHANGED <<lane, audience>>

\* select, biased towards the control plane.
SelectNotified ==
    /\ Reads("select") /\ ctl.notified
    /\ ctl' = [ctl EXCEPT !.notified = FALSE]
    /\ reader' = [reader EXCEPT !.at = "top"]
    /\ UNCHANGED readerRest /\ UNCHANGED <<lane, audience>>

SelectEvent ==
    /\ Reads("select") /\ ~ctl.notified /\ lane # <<>>
    /\ reader' = [reader EXCEPT !.at = "event", !.event = <<Head(lane)>>]
    /\ lane' = Tail(lane)
    /\ UNCHANGED readerRest /\ UNCHANGED <<ctl, audience>>

SelectClosed ==
    /\ Reads("select") /\ ~ctl.notified /\ lane = <<>> /\ speaker.at = "gone"
    /\ reader' = [reader EXCEPT !.at = "closed"]
    /\ UNCHANGED readerRest /\ UNCHANGED <<ctl, lane, audience>>

\* The client is told of an event.
Heard(e) ==
    CASE e.is = "reset" -> [audience EXCEPT !.resets = @ + 1, !.behind = 0]
      [] e.is = "segment" -> [audience EXCEPT !.last = e.no, !.index = @ + 1,
                                 !.inOrder = @ /\ e.no > audience.last /\ e.of[1] = audience.index]
      [] OTHER -> [audience EXCEPT !.last = e.no, !.inOrder = @ /\ e.no > audience.last,
                                 !.text = IF e.is = "text" THEN @ \cup {e.of} ELSE @]

YieldHand ==
    /\ reader.hand # <<>>
    /\ audience' = Heard(Head(reader.hand))
    /\ reader' = [reader EXCEPT !.hand = Tail(@)]
    /\ UNCHANGED readerRest /\ UNCHANGED <<ctl, lane>>

YieldEvent ==
    /\ Reads("write")
    /\ audience' = [Heard(reader.event[1]) EXCEPT !.behind = IF ctl.asked > audience.resets THEN @ + 1 ELSE 0]
    /\ reader' = [reader EXCEPT !.at = "top", !.event = <<>>, !.written = @ + 1]
    /\ UNCHANGED readerRest /\ UNCHANGED <<ctl, lane>>

\* done, or the error of the turn.
YieldEnd ==
    /\ Reads("last")
    /\ audience' = [audience EXCEPT !.over = speaker.outcome]
    /\ reader' = [reader EXCEPT !.at = "over"]
    /\ UNCHANGED readerRest /\ UNCHANGED <<ctl, lane>>

ReaderSteps ==
    \/ DrainResets \/ TakeDue \/ SelectNotified \/ SelectEvent \/ SelectClosed
    \/ YieldHand \/ YieldEvent \/ YieldEnd

StreamNext ==
    \/ NextRound \/ Yields \/ BlockEnds \/ SegmentEnds \/ RoundRunsTools \/ ToolsReturn
    \/ LastRound \/ RoundIsCut \/ TurnErrs \/ Refused \/ FallbackAnswers \/ TurnIsOver
    \/ DeliverReset \/ DeliverEvent \/ FindsFull \/ Park
    \/ ReaderSteps

\* The client reads; the model and its tools may stay silent for ever.
StreamFairness == WF_streamVars(ReaderSteps)

StreamSpec == StreamInit /\ [][StreamNext]_streamVars /\ StreamFairness
-----------------------------------------------------------------------------
(* Properties.                                                             *)

\* Types, and the channel never holds more than its capacity.
StreamTypeOK ==
    /\ speaker.at \in {"next", "round", "tool", "again", "ends", "gone"}
    /\ speaker.outcome \in {"none", "done", "error"}
    /\ hold.released <= hold.buf /\ hold.held <= hold.buf /\ hold.bytes <= stream.cap
    /\ Len(lane) <= StreamCapacity /\ reader.written <= ctl.accepted
    /\ audience.over \in {"no", "done", "error"}

\* Events are written in the order they were delivered in, parked segments
\* among them, and segments are numbered without a gap (push_segment,
\* take_due, the stream's loop).
WrittenInOrder == audience.inOrder

EarlierUnit(u, v) == u[1] < v[1] \/ (u[1] = v[1] /\ u[2] < v[2])

\* A voice hears no unit the guard cuts, and none twice or out of order
\* (the gate, flush_held, finish_cut).
HeardIsKept ==
    stream.voice =>
        /\ \A k \in DOMAIN tried :
              tried[k][1] > 0 => tried[k][2] <= speaker.said[tried[k][1]].mark
        /\ \A j, k \in DOMAIN tried :
              j < k /\ tried[k][1] > 0 => EarlierUnit(tried[j], tried[k])

KeptOf(r) == [i \in 1..Kept(r) |-> <<r, i>>]
AllKept == FlattenSeq([r \in 1..Now |-> KeptOf(r)])
LaterCut == hold.handled /\ hold.released = 0

\* What the voice of a finished turn was given: all that is kept, and no
\* reset; or a reset and the whole of it when nothing had been heard; unless
\* the hold overflowed, or a cut fell in a round of which nothing was heard
\* after an earlier one was (finish_cut, run_resolved_turn).
KeptIsHeard ==
    (stream.voice /\ speaker.outcome = "done" /\ ~speaker.again /\ ~hold.over /\ ~LaterCut) =>
        IF Truncated(Now) /\ ~hold.handled
        THEN tried = <<Reset.of>> \o Optional(Whole.of, AllKept # <<>>)
        ELSE tried = AllKept

\* What was handed over after the last reset, and what was not too late.
Standing == SubSeq(tried, SelectLastInSeq(tried, LAMBDA u : u = Reset.of) + 1, Len(tried))
Reached == audience.text \cup {e.of : e \in ToSet(lane \o reader.event)}

\* Once the fallback has answered, nothing of the refused draft that reached
\* the channel stands, and a voice is left with the reply exactly once, or
\* with nothing if the guard kept nothing (invoke_turn_with_refusal_fallback,
\* run_resolved_turn).
FallbackReplaces ==
    (speaker.again /\ speaker.outcome = "done") =>
        /\ \A k \in DOMAIN Standing : Standing[k][1] > 0 => Standing[k] \notin Reached
        /\ stream.voice =>
              SelectSeq(Standing, LAMBDA u : u = Whole.of) = Optional(Whole.of, speaker.kept)

\* A reset waits for no more than the event the reader has in hand
\* (drain_resets, the biased select).
ResetJumps == audience.behind <= 1

\* Whoever is told the end has been told every reset and segment before it:
\* the branch for a reset that was not delivered is never taken.
EndsKnowing ==
    audience.over # "no" => ctl.asked = audience.resets /\ ctl.segs = <<>> /\ speaker.out = <<>>

Final(u) == u[1] = 0 \/ (~speaker.again /\ u[2] <= Kept(u[1]))
Voided ==
    \/ audience.over = "done" /\ \E u \in audience.text : ~Final(u)
    \/ audience.over = "error" /\ stream.voice /\ audience.text # {}

\* Text the client was told that the final reply does not have, or that an
\* error ends, is withdrawn before the end (the guard's, the fallback's and
\* the error's reset).
VoidIsWithdrawn == Voided => audience.resets > 0

\* What a streamed reply promises its client, however text, boundaries,
\* resets and the end overtake each other: events in the order they were
\* written, the text heard is the text kept, and what is void is withdrawn
\* (Park, flush, restart_round, the loop of the stream).
StreamHolds ==
    /\ StreamTypeOK /\ WrittenInOrder /\ ResetJumps
    /\ HeardIsKept /\ KeptIsHeard /\ FallbackReplaces /\ VoidIsWithdrawn /\ EndsKnowing

\* A reset or a parked segment reaches a client that reads, however long
\* the model or a tool stays silent (notify_one, the loop of the stream).
NothingWaitsForTheModel == []<>(ctl.resets = 0 /\ ctl.segs = <<>>)

-----------------------------------------------------------------------------
(* What a document says and the code does not do.                          *)

\* "Once a voice-pool stream has released text, ... only the kept remainder
\* follows what was already said" (docs/http-api.md).
KeptRemainderFollows ==
    (stream.voice /\ speaker.outcome = "done" /\ ~hold.over /\ hold.handled) => tried = AllKept
=============================================================================
