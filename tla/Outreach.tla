------------------------------- MODULE Outreach -------------------------------
(***************************************************************************)
(* Messages the pulse sends of its own accord: admission against quiet     *)
(* hours, a daily cap and the operator's response rate (outreach/), by the *)
(* event listener, one candidate at a time, while the command line records *)
(* responses in the same file.  Every access is a locked read, change and  *)
(* rename, so one step.                                                    *)
(*                                                                         *)
(* A kind without a cap never tightens, and shares the log, whose oldest   *)
(* entries are pruned.  Whether a candidate passes the gate (referent,     *)
(* cost, novelty) is any answer.  Rejections are recorded by the code for  *)
(* reading only and left out, as is what becomes of an admitted message in *)
(* the intent queue: it is counted when it is admitted.                    *)
(***************************************************************************)
EXTENDS Integers, FiniteSets, Sequences

CONSTANTS
    MaxSent,           \* MAX_SENT
    MaxDamage,         \* bound: files damaged
    OutreachConfigs    \* the configurations explored

Finding == "finding"       \* stands for the capped kinds
Blocking == "blocking"

ASSUME OutreachAssumption ==
    /\ MaxSent \in Nat \ {0} /\ MaxDamage \in Nat
    /\ OutreachConfigs \subseteq
         [cap : Nat,               \* cap_for(finding)
          window : Nat \ {0},      \* feedback_window
          floor : 0..100]          \* response_rate_floor, in percent

VARIABLES
    policy,      \* OutreachConfig, fixed
    sent,        \* the log, oldest first
    announced,   \* the tightened cap the record says was told, or none
    quiet,       \* quiet hours
    unreadable,  \* the file does not parse
    listener,    \* what admit_salience is doing
    spent,       \* history: capped messages admitted today, up to one past the cap
    forgotten,   \* history: one of them has left the log
    toldOf,      \* history: told of the tightening in force
    unmarked,    \* history: told, and the record of it lost
    damage

outreachVars == <<policy, sent, announced, quiet, unreadable, listener,
                  spent, forgotten, toldOf, unmarked, damage>>

NotAnnounced == -1
NoNotice == [at |-> "idle", cap |-> NotAnnounced]

OutreachInit ==
    /\ policy \in OutreachConfigs
    /\ sent = <<>> /\ announced = NotAnnounced
    /\ quiet = FALSE /\ unreadable = FALSE
    /\ listener = NoNotice
    /\ spent = 0 /\ forgotten = FALSE /\ toldOf = FALSE /\ unmarked = FALSE
    /\ damage = 0

-----------------------------------------------------------------------------
(* The store.                                                              *)

OfKind(log, kind) == {i \in DOMAIN log : log[i].kind = kind}

\* recent: the last messages of the capped kind, as many as the window has.
Recent(log) ==
    {i \in OfKind(log, Finding) :
        Cardinality({j \in OfKind(log, Finding) : j > i}) < policy.window}

\* tightening: no verdict before the window is full.
Answered(log) == {i \in Recent(log) : log[i].answered}
Tightened(log) ==
    /\ Cardinality(Recent(log)) = policy.window
    /\ 100 * Cardinality(Answered(log)) < policy.floor * policy.window
TightenedCap == policy.cap \div 2

\* effective_cap.
EffectiveCap(log) == IF Tightened(log) THEN TightenedCap ELSE policy.cap
SentToday(log, kind) == Cardinality({i \in OfKind(log, kind) : log[i].today})

\* record_sent, with prune_front.
RecordSent(log, kind) ==
    LET longer == Append(log, [kind |-> kind, today |-> TRUE, answered |-> FALSE])
    IN  IF Len(longer) > MaxSent THEN Tail(longer) ELSE longer

\* check_quiet_hours and check_cap, in decide.
WithinCap(kind) == kind = Blocking \/ SentToday(sent, kind) < EffectiveCap(sent)
Admissible(kind) == (quiet => kind = Blocking) /\ WithinCap(kind)

\* reconcile_tightening: a tightening that has lifted must be told again.
Reconciled_Sticky(kind) == announced        \* mutant: it is remembered as told
Reconciled(kind) ==
    IF kind = Finding /\ ~Tightened(sent) THEN NotAnnounced ELSE announced

NoticeOwed_OnAdmission(kind, admitted) ==   \* mutant: only with a message
    kind = Finding /\ Tightened(sent) /\ announced # TightenedCap /\ admitted
NoticeOwed(kind, admitted) ==
    kind = Finding /\ Tightened(sent) /\ announced # TightenedCap

-----------------------------------------------------------------------------
(* The actors.                                                             *)

\* load_strict in a delta: a file that does not parse is set aside.
SetAside ==
    /\ unreadable' = FALSE
    /\ UNCHANGED <<sent, announced, spent, forgotten, toldOf>>

\* admit: reconcile, decide, and record the message, in one delta.
Admit(kind, passes) ==
    /\ listener.at = "idle"
    /\ UNCHANGED <<policy, quiet, unmarked, damage>>
    /\ IF unreadable THEN SetAside /\ UNCHANGED listener
       ELSE LET ok == Admissible(kind) /\ passes
                log == IF ok THEN RecordSent(sent, kind) ELSE sent
            IN  /\ sent' = log
                /\ announced' = Reconciled(kind)
                /\ listener' = IF NoticeOwed(kind, ok)
                               THEN [at |-> "telling", cap |-> TightenedCap] ELSE listener
                /\ spent' = IF ok /\ kind = Finding /\ spent <= policy.cap THEN spent + 1 ELSE spent
                /\ forgotten' = (forgotten \/ (Len(sent) = MaxSent /\ ok
                                               /\ Head(sent).kind = Finding /\ Head(sent).today))
                /\ toldOf' = (toldOf /\ Tightened(log))
                /\ UNCHANGED unreadable

\* announce_tightening: the webhook takes the notice, or it does not.
Tell ==
    /\ listener.at = "telling"
    /\ listener' = [listener EXCEPT !.at = "marking"]
    /\ toldOf' = Tightened(sent) /\ unmarked' = FALSE
    /\ UNCHANGED <<policy, sent, announced, quiet, unreadable, spent, forgotten, damage>>

TellFails ==
    /\ listener.at = "telling"
    /\ listener' = NoNotice
    /\ UNCHANGED <<policy, sent, announced, quiet, unreadable, spent, forgotten, toldOf, unmarked, damage>>

\* mark_announced, a delta of its own.
MarkAnnounced ==
    /\ listener.at = "marking"
    /\ listener' = NoNotice
    /\ UNCHANGED <<policy, quiet, damage>>
    /\ IF unreadable THEN SetAside /\ unmarked' = toldOf
       ELSE /\ announced' = listener.cap
            /\ UNCHANGED <<sent, unreadable, spent, forgotten, toldOf, unmarked>>

\* The daemon ends and comes back: its notice is gone.
ListenerRestarts ==
    /\ listener.at # "idle"
    /\ unmarked' = (unmarked \/ (listener.at = "marking" /\ toldOf))
    /\ listener' = NoNotice
    /\ UNCHANGED <<policy, sent, announced, quiet, unreadable, spent, forgotten, toldOf, damage>>

\* record_response, by the command line.
Respond(i) ==
    /\ UNCHANGED <<policy, quiet, listener, unmarked, damage>>
    /\ IF unreadable THEN SetAside
       ELSE /\ i \in DOMAIN sent /\ ~sent[i].answered
            /\ sent' = [sent EXCEPT ![i].answered = TRUE]
            /\ toldOf' = (toldOf /\ Tightened(sent'))
            /\ UNCHANGED <<announced, unreadable, spent, forgotten>>

\* The operator's local midnight, and the ends of the quiet hours.
Midnight ==
    /\ sent' = [i \in DOMAIN sent |-> [sent[i] EXCEPT !.today = FALSE]]
    /\ spent' = 0 /\ forgotten' = FALSE
    /\ UNCHANGED <<policy, announced, quiet, unreadable, listener, toldOf, unmarked, damage>>

QuietHours ==
    /\ quiet' = ~quiet
    /\ UNCHANGED <<policy, sent, announced, unreadable, listener, spent, forgotten, toldOf, unmarked, damage>>

\* The file is damaged: what it held is lost.
FileDamaged ==
    /\ damage < MaxDamage /\ damage' = damage + 1
    /\ unreadable' = TRUE
    /\ sent' = <<>> /\ announced' = NotAnnounced
    /\ forgotten' = (spent > 0) /\ toldOf' = FALSE
    /\ UNCHANGED <<policy, quiet, listener, spent, unmarked>>

OutreachNext ==
    \/ \E kind \in {Finding, Blocking}, passes \in BOOLEAN : Admit(kind, passes)
    \/ Tell \/ TellFails \/ MarkAnnounced \/ ListenerRestarts
    \/ \E i \in 1..MaxSent : Respond(i)
    \/ Midnight \/ QuietHours \/ FileDamaged

\* Candidates of the capped kind keep coming, the listener goes on, and a
\* webhook that is asked for ever answers at last.
OutreachFairness ==
    /\ WF_outreachVars(\E passes \in BOOLEAN : Admit(Finding, passes))
    /\ SF_outreachVars(Tell)
    /\ WF_outreachVars(Tell \/ TellFails)
    /\ WF_outreachVars(MarkAnnounced)

OutreachSpec == OutreachInit /\ [][OutreachNext]_outreachVars /\ OutreachFairness
-----------------------------------------------------------------------------
(* Properties.                                                             *)

\* Types of the store and of the listener; the log is within its bound.
OutreachTypeOK ==
    /\ Len(sent) <= MaxSent
    /\ \A i \in DOMAIN sent : /\ sent[i].kind \in {Finding, Blocking}
                              /\ sent[i].today \in BOOLEAN /\ sent[i].answered \in BOOLEAN
    /\ announced \in {NotAnnounced, TightenedCap}
    /\ listener.at \in {"idle", "telling", "marking"}

\* No day sees more messages of a kind than its cap, however often the
\* daemon restarts and responses come between (admit and decide in one
\* delta), unless the log has lost one of that day's messages.
CapPerDay == ~forgotten => spent <= policy.cap

\* The record never says that the operator knows of the tightening in force
\* when nobody told him of this one: not after a failed webhook, not after
\* the cap was restored and halved again, and not when the mark comes after
\* a response has lifted it (admit_salience, mark_announced,
\* reconcile_tightening).
AnnouncedIsTold == Tightened(sent) /\ announced = TightenedCap => toldOf

\* It is told "once and only once", except that a mark that was lost lets it
\* be told again (reconcile_tightening, announce_tightening).
ToldOnce == listener.at = "telling" /\ toldOf => unmarked

\* What outreach promises the operator: no more messages a day than the cap,
\* a log that is pruned, and a tightening that is told and told once
\* (admit, mark_announced, reconcile_tightening).
OutreachHolds == OutreachTypeOK /\ CapPerDay /\ AnnouncedIsTold /\ ToldOnce

\* A cap that is halved is told or restored in the end, also when it is
\* halved to nothing and admits no message that could carry the notice
\* (Admission::pending_notice).
NoSilentDeath == Tightened(sent) ~> toldOf \/ ~Tightened(sent)
=============================================================================
