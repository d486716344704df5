---------------------------- MODULE MarkerRefusals ----------------------------
(***************************************************************************)
(* Refused prediction markers, told to the pulse once                      *)
(* (prediction/refusals.rs).  A turn reads the pending notice into its     *)
(* prompt, and clears what the notice showed once the turn has succeeded.  *)
(* The task loops and the intent drain run such turns side by side, over   *)
(* one file whose every access is one critical section.                    *)
(*                                                                         *)
(* The file holds counts.  Here an entry holds the refusals themselves,    *)
(* numbered in the order they were made, so that what a notice showed can  *)
(* be told from what it did not.  Failed reads and writes (logged) are     *)
(* left out.                                                               *)
(***************************************************************************)
EXTENDS Naturals, SequencesExt, Filters

CONSTANTS
    NoticeTurns,    \* the turns that may run side by side
    MaxRefusals     \* bound: refusals made

ASSUME RefusalsAssumption == MaxRefusals \in Nat

VARIABLES
    refusalFile,    \* State: next_id, shown_through and the entries
    turns,          \* turns[t]: the notice t carries
    made,           \* history: refusals made
    told,           \* history: refusals shown in a turn that succeeded
    cleared,        \* history: refusals no longer pending
    excused         \* history: cleared after the numbering had started again

refusalVars == <<refusalFile, turns, made, told, cleared, excused>>

NoFile == [next_id |-> 0, shown_through |-> 0, entries |-> <<>>]
NoTurn == [running |-> FALSE, upto |-> 0, showed |-> {}, renumbered |-> FALSE]

RefusalsInit ==
    /\ refusalFile = NoFile
    /\ turns = [t \in NoticeTurns |-> NoTurn]
    /\ made = 0
    /\ told = {} /\ cleared = {} /\ excused = {}

PendingIn(f) == UNION {e.what : e \in ToSet(f.entries)}

\* A state with no entry is no file: the numbering starts again.
Stored(f) == IF f.entries = <<>> THEN NoFile ELSE f

\* peek_notice: what the notice shows is marked as shown.
BeginTurn(t) ==
    LET upto == IF refusalFile.entries = <<>> THEN 0 ELSE Last(refusalFile.entries).id
    IN  /\ ~turns[t].running
        /\ refusalFile' = IF upto > refusalFile.shown_through
                          THEN [refusalFile EXCEPT !.shown_through = upto] ELSE refusalFile
        /\ turns' = [turns EXCEPT ![t] = [running |-> TRUE, upto |-> upto, renumbered |-> FALSE,
                                          showed |-> PendingIn(refusalFile)]]
        /\ UNCHANGED <<made, told, cleared, excused>>

\* The call to the provider fails: the notice stays for the next turn.
FailTurn(t) ==
    /\ turns[t].running
    /\ turns' = [turns EXCEPT ![t] = NoTurn]
    /\ UNCHANGED <<refusalFile, made, told, cleared, excused>>

\* Counts made after the last notice was shown go to an entry of their own.
Recorded_Joined(f, r) ==         \* mutant: they join the last entry, shown or not
    IF f.entries # <<>>
    THEN [f EXCEPT !.entries[Len(f.entries)].what = @ \cup {r}]
    ELSE [f EXCEPT !.next_id = @ + 1, !.entries = <<[id |-> f.next_id + 1, what |-> {r}]>>]
Recorded(f, r) ==
    IF f.entries # <<>> /\ Last(f.entries).id > f.shown_through
    THEN [f EXCEPT !.entries[Len(f.entries)].what = @ \cup {r}]
    ELSE [f EXCEPT !.next_id = @ + 1,
                   !.entries = Append(@, [id |-> f.next_id + 1, what |-> {r}])]

\* acknowledge: a turn that carried a notice clears the entries up to its
\* number.  (A turn whose prompt had no notice has nothing to acknowledge.)
Acknowledge(t) ==
    LET kept == Those(refusalFile.entries, {e \in ToSet(refusalFile.entries) : e.id > turns[t].upto})
        after == Stored([refusalFile EXCEPT !.entries = kept])
        gone == PendingIn(refusalFile) \ PendingIn(after)
    IN  /\ turns[t].running /\ turns[t].showed # {}
        /\ refusalFile' = after
        /\ told' = told \cup turns[t].showed
        /\ cleared' = cleared \cup gone
        /\ excused' = IF turns[t].renumbered THEN excused \cup gone ELSE excused
        /\ turns' = [u \in NoticeTurns |->
              IF u = t THEN [turns[t] EXCEPT !.showed = {}]
              ELSE [turns[u] EXCEPT !.renumbered = @ \/ (turns[u].running /\ kept = <<>>)]]
        /\ UNCHANGED made

\* refuse_markers at the end of the turn, when its output had markers.
EndTurn(t, refuses) ==
    /\ turns[t].running /\ turns[t].showed = {}
    /\ refuses => made < MaxRefusals
    /\ refusalFile' = IF refuses THEN Recorded(refusalFile, made + 1) ELSE refusalFile
    /\ made' = IF refuses THEN made + 1 ELSE made
    /\ turns' = [turns EXCEPT ![t] = NoTurn]
    /\ UNCHANGED <<told, cleared, excused>>

RefusalsNext ==
    \E t \in NoticeTurns :
        \/ BeginTurn(t) \/ FailTurn(t) \/ Acknowledge(t)
        \/ \E refuses \in BOOLEAN : EndTurn(t, refuses)

\* Turns go on, and not every one of them fails.
RefusalsFairness ==
    \A t \in NoticeTurns : /\ WF_refusalVars(BeginTurn(t))
                           /\ SF_refusalVars(Acknowledge(t))
                           /\ WF_refusalVars(EndTurn(t, FALSE))

RefusalsSpec == RefusalsInit /\ [][RefusalsNext]_refusalVars /\ RefusalsFairness
-----------------------------------------------------------------------------
(* Properties.                                                             *)

\* The file: entries in the order of their numbers, none empty, and nothing
\* counted as shown that was never numbered (record, peek_notice and store).
RefusalsTypeOK ==
    /\ \A i \in DOMAIN refusalFile.entries :
          LET e == refusalFile.entries[i]
          IN  /\ e.what # {} /\ e.what \subseteq 1..made
              /\ e.id \in 1..refusalFile.next_id
              /\ i > 1 => refusalFile.entries[i - 1].id < e.id
    /\ refusalFile.shown_through \in 0..refusalFile.next_id
    /\ \A t \in NoticeTurns : turns[t].running \in BOOLEAN /\ turns[t].upto \in 0..MaxRefusals
    /\ made \in 0..MaxRefusals

\* A refusal is cleared only by a turn whose prompt showed it, as long as
\* the file was not emptied while that turn ran (record, peek_notice and
\* acknowledge between two turns that overlap).
NoticesAreTold == cleared \subseteq told \cup excused

\* The file's ids ascend and stay below next_id through its reset, and only
\* what was shown is cleared (record, store, acknowledge).
RefusalsHold == RefusalsTypeOK /\ NoticesAreTold

\* Without that condition, as the doc of the state has it: "an
\* acknowledgement clears exactly the entries its notice showed".
AcknowledgesWhatItShowed == cleared \subseteq told

\* Every refusal is told in the end, or given up by the loss above.
RefusalsTold == \A r \in 1..MaxRefusals : made >= r ~> r \in told \cup cleared
=============================================================================
