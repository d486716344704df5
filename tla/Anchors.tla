------------------------------- MODULE Anchors -------------------------------
(***************************************************************************)
(* Receipt anchors (oneself/anchor/*.rs, `receipts anchor` in              *)
(* cli/receipts.rs): the head of the receipt chain is appended to a local  *)
(* file and to a file of the month in a remote repository, so that a chain *)
(* rewritten later disagrees with what was anchored.                       *)
(*                                                                         *)
(* Runs of the command side by side, over a chain that grows and may be    *)
(* rewritten; answers of the repository get lost, and a lost request may   *)
(* arrive late.  A line is the chain up to its row, which is what seq and  *)
(* head say of it.  Owners, modes, tokens, caps and `--dry-run` are left   *)
(* out.                                                                    *)
(***************************************************************************)
EXTENDS Naturals, Sequences, SequencesExt

CONSTANTS
    AnchorRuns,       \* runs of the command, side by side
    AnchorConfigs     \* the configurations explored

ASSUME AnchorsAssumption ==
    /\ AnchorConfigs \subseteq
        [backends : SUBSET {"local", "github"},
         runs : Nat,              \* bound: runs ever started
         rows : Nat \ {0},        \* bound: rows of the chain
         rewrites : Nat,          \* bound: times it is rewritten
         months : Nat \ {0},      \* bound: months
         faults : Nat]            \* bound: failures of a file, a request or a run
    /\ "none" \notin AnchorRuns

VARIABLES
    site,       \* the configuration, fixed
    chain,      \* receipts.jsonl: for each row, by which writing of it
    writing,    \* how often the chain was rewritten, plus one
    month,      \* the month it is
    local,      \* anchors.log: its lines, and whether the last is torn
    remote,     \* remote[m]: the lines of the file of month m
    late,       \* requests to the repository that may still arrive
    run,        \* run[r]: where a run is
    ledgerLock, \* the run that holds anchors.lock, or "none"
    count       \* runs, faults and requests that arrived late, so far

anchorVars == <<site, chain, writing, month, local, remote, late, run, ledgerLock, count>>

NotRunning == [at |-> "idle", index |-> <<>>, left |-> {}, pending |-> {}, failed |-> FALSE,
               alarm |-> FALSE, path |-> 0, has |-> FALSE, seen |-> <<>>,
               retried |-> FALSE]

AnchorsInit ==
    /\ site \in AnchorConfigs
    /\ chain = <<1>> /\ writing = 1 /\ month = 1
    /\ local = [lines |-> <<>>, torn |-> FALSE]
    /\ remote = [m \in 1..site.months |-> <<>>]
    /\ late = {} /\ ledgerLock = "none"
    /\ run = [r \in AnchorRuns |-> NotRunning]
    /\ count = [runs |-> 0, faults |-> 0, arrived |-> 0]

-----------------------------------------------------------------------------
(* What the runs are given.                                                *)

runsRest == UNCHANGED <<site, run, ledgerLock>>

ReceiptWritten ==
    /\ Len(chain) < site.rows /\ chain' = Append(chain, writing)
    /\ UNCHANGED <<writing, month, local, remote, late>> /\ UNCHANGED count /\ runsRest

ChainRewritten ==
    /\ writing <= site.rewrites /\ writing' = writing + 1
    /\ \E n \in 0..(Len(chain) - 1) : chain' = Append(SubSeq(chain, 1, n), writing + 1)
    /\ UNCHANGED <<month, local, remote, late>> /\ UNCHANGED count /\ runsRest

MonthPasses ==
    /\ month < site.months /\ month' = month + 1
    /\ UNCHANGED <<chain, writing, local, remote, late>> /\ UNCHANGED count /\ runsRest

\* The operator removes the partial line.
TornLineRemoved ==
    /\ local.torn /\ local' = [local EXCEPT !.torn = FALSE]
    /\ UNCHANGED <<chain, writing, month, remote, late>> /\ UNCHANGED count /\ runsRest

\* A request whose answer was given up; the sha in it is that of a file.
LateArrives_Unchecked(p) ==      \* mutant: whatever the file has become
    /\ remote' = [remote EXCEPT ![p.path] = Append(p.seen, p.line)]
    /\ late' = late \ {p} /\ count' = [count EXCEPT !.arrived = @ + 1]
    /\ UNCHANGED <<chain, writing, month, local>> /\ runsRest
LateArrives(p) ==
    /\ remote' = IF remote[p.path] = p.seen THEN [remote EXCEPT ![p.path] = Append(@, p.line)] ELSE remote
    /\ late' = late \ {p} /\ count' = [count EXCEPT !.arrived = @ + 1]
    /\ UNCHANGED <<chain, writing, month, local>> /\ runsRest

-----------------------------------------------------------------------------
(* One run.                                                                *)

\* history: the one local file, or those of the months in their order.
Files(b) == IF b = "local" THEN <<local.lines>> ELSE remote
LinesOf(files) == UNION {ToSet(files[m]) : m \in DOMAIN files}

\* judge: a line is shorter than one before it; then some line is shorter
\* than the one just before.
Backwards(files) ==
    \E m, n \in DOMAIN files : \E i \in DOMAIN files[m], j \in DOMAIN files[n] :
        /\ m < n \/ (m = n /\ i < j)
        /\ Len(files[n][j]) < Len(files[m][i])
Disagrees(files, index) == \E line \in LinesOf(files) : ~IsPrefix(line, index)
NeedsPublish(files, index) == \A line \in LinesOf(files) : Len(line) < Len(index)

worldRest == UNCHANGED <<site, chain, writing, month>>
Puts(r, to) == run' = [run EXCEPT ![r] = to]
SiteFault == count.faults < site.faults /\ count' = [count EXCEPT !.faults = @ + 1]

\* anchor: the receipt file is read before anything is locked.
ReadsReceipt(r) ==
    /\ run[r].at = "idle" /\ count.runs < site.runs
    /\ count' = [count EXCEPT !.runs = @ + 1]
    /\ Puts(r, [NotRunning EXCEPT !.at = "preview", !.index = chain, !.left = site.backends])
    /\ UNCHANGED <<local, remote, late, ledgerLock>> /\ worldRest

\* assess, of one backend.
Assess(r, b) ==
    LET files == Files(b)
        judged == IF Backwards(files) \/ Disagrees(files, run[r].index) THEN [run[r] EXCEPT !.alarm = TRUE]
                  ELSE IF NeedsPublish(files, run[r].index) THEN [run[r] EXCEPT !.pending = @ \cup {b}]
                  ELSE run[r]
    IN  /\ run[r].at \in {"preview", "sync"} /\ b \in run[r].left
        /\ ~(b = "local" /\ local.torn)
        /\ Puts(r, [judged EXCEPT !.left = @ \ {b}])
        /\ UNCHANGED <<local, remote, late, ledgerLock, count>> /\ worldRest
AssessFails(r, b) ==
    /\ run[r].at \in {"preview", "sync"} /\ b \in run[r].left
    /\ IF b = "local" /\ local.torn THEN UNCHANGED count ELSE SiteFault
    /\ Puts(r, [run[r] EXCEPT !.left = @ \ {b}, !.failed = TRUE])
    /\ UNCHANGED <<local, remote, late, ledgerLock>> /\ worldRest

\* Nothing is wrong: the lock, or another run has it.
TakesLock(r) ==
    /\ run[r].at = "preview" /\ run[r].left = {} /\ ~run[r].alarm /\ ~run[r].failed
    /\ IF ledgerLock = "none"
       THEN /\ ledgerLock' = r
            /\ Puts(r, [NotRunning EXCEPT !.at = "sync", !.index = run[r].index, !.left = site.backends])
       ELSE UNCHANGED ledgerLock /\ Puts(r, NotRunning)
    /\ UNCHANGED <<local, remote, late, count>> /\ worldRest

\* sync: an alarm publishes nothing; otherwise whatever is pending.
MayPublish(r, b) ==
    run[r].at = "sync" /\ run[r].left = {} /\ ~run[r].alarm /\ b \in run[r].pending

\* append_line: one write, then sync_all; a torn tail is refused.
PublishLocal(r) ==
    /\ MayPublish(r, "local") /\ ~local.torn
    /\ local' = [local EXCEPT !.lines = Append(@, run[r].index)]
    /\ Puts(r, [run[r] EXCEPT !.pending = @ \ {"local"}])
    /\ UNCHANGED <<remote, late, ledgerLock, count>> /\ worldRest
PublishLocalFails(r) ==
    /\ MayPublish(r, "local")
    /\ IF local.torn THEN UNCHANGED <<local, count>>
       ELSE /\ SiteFault
            /\ local' \in {local, [local EXCEPT !.torn = TRUE],
                           [local EXCEPT !.lines = Append(@, run[r].index)]}
    /\ Puts(r, [run[r] EXCEPT !.pending = @ \ {"local"}, !.failed = TRUE])
    /\ UNCHANGED <<remote, late, ledgerLock>> /\ worldRest

\* publish_path: the file of the month and its sha, then the file with the
\* line; one more try when the sha is no longer that of the file.
GetsMonth(r) ==
    LET path == IF run[r].path = 0 THEN month ELSE run[r].path
    IN  /\ MayPublish(r, "github") /\ ~run[r].has
        /\ Puts(r, [run[r] EXCEPT !.path = path, !.has = TRUE, !.seen = remote[path]])
        /\ UNCHANGED <<local, remote, late, ledgerLock, count>> /\ worldRest

Putting(r) == MayPublish(r, "github") /\ run[r].has
WithLine(r) == [remote EXCEPT ![run[r].path] = Append(run[r].seen, run[r].index)]
GitHubFails(r) == [run[r] EXCEPT !.pending = @ \ {"github"}, !.failed = TRUE]
PutMonth(r) ==
    /\ Putting(r) /\ remote[run[r].path] = run[r].seen
    /\ remote' = WithLine(r)
    /\ Puts(r, [run[r] EXCEPT !.pending = @ \ {"github"}])
    /\ UNCHANGED <<local, late, ledgerLock, count>> /\ worldRest
\* 409: the file has changed, or the branch has moved under another pulse.
PutConflicts(r) ==
    /\ Putting(r)
    /\ IF remote[run[r].path] # run[r].seen THEN UNCHANGED count ELSE SiteFault
    /\ Puts(r, IF run[r].retried THEN GitHubFails(r)
               ELSE [run[r] EXCEPT !.retried = TRUE, !.has = FALSE, !.seen = <<>>])
    /\ UNCHANGED <<local, remote, late, ledgerLock>> /\ worldRest
\* No answer: the request was carried out, will be, or was not.
PutIsLost(r) ==
    /\ Putting(r) /\ SiteFault
    /\ \/ remote[run[r].path] = run[r].seen /\ remote' = WithLine(r) /\ UNCHANGED late
       \/ late' = late \cup {[path |-> run[r].path, seen |-> run[r].seen, line |-> run[r].index]}
          /\ UNCHANGED remote
       \/ UNCHANGED <<remote, late>>
    /\ Puts(r, GitHubFails(r))
    /\ UNCHANGED <<local, ledgerLock>> /\ worldRest

\* The report; and a process that is killed at any step.
RunOver(r) ==
    /\ run[r].at # "idle" /\ run[r].left = {}
    /\ \/ run[r].alarm
       \/ IF run[r].at = "preview" THEN run[r].failed ELSE run[r].pending = {}
EndsRun(r) ==
    /\ Puts(r, NotRunning)
    /\ ledgerLock' = IF ledgerLock = r THEN "none" ELSE ledgerLock
    /\ UNCHANGED <<local, remote, late>> /\ worldRest
Reports(r) == RunOver(r) /\ EndsRun(r) /\ UNCHANGED count
RunDies(r) == run[r].at # "idle" /\ SiteFault /\ EndsRun(r)

AnchorsNext ==
    \/ ReceiptWritten \/ ChainRewritten \/ MonthPasses \/ TornLineRemoved
    \/ \E p \in late : LateArrives(p)
    \/ \E r \in AnchorRuns :
          \/ ReadsReceipt(r) \/ TakesLock(r) \/ PublishLocal(r) \/ PublishLocalFails(r)
          \/ GetsMonth(r) \/ PutMonth(r) \/ PutConflicts(r) \/ PutIsLost(r)
          \/ Reports(r) \/ RunDies(r)
          \/ \E b \in site.backends : Assess(r, b) \/ AssessFails(r, b)

AnchorsSpec == AnchorsInit /\ [][AnchorsNext]_anchorVars
-----------------------------------------------------------------------------
(* Properties.                                                             *)

\* Types; one run works under the lock.
AnchorsTypeOK ==
    /\ Len(chain) \in 1..site.rows /\ month \in 1..site.months
    /\ \A r \in AnchorRuns :
          /\ run[r].pending \cup run[r].left \subseteq site.backends
          /\ run[r].at = "sync" <=> ledgerLock = r

\* The lines of a backend never go backwards: it would be taken for a file
\* somebody tampered with, for ever (judge, sync, publish_path).  A request
\* that arrives late is another matter, see AscendsAlways.
AnchorsAscend == count.arrived = 0 => \A b \in site.backends : ~Backwards(Files(b))

\* What is anchored stays anchored, whatever arrives late (put_once).
AnchoredStays ==
    [][\A b \in site.backends : LinesOf(Files(b)) \subseteq LinesOf(Files(b))']_anchorVars

\* A run that ends well has compared with everything that is anchored: all
\* of it is on the chain it read, and every backend reaches the head of it
\* (anchor, assess).
EndsWell(r) ==
    /\ run[r].at = "sync" /\ run[r].left = {} /\ run[r].pending = {}
    /\ ~run[r].alarm /\ ~run[r].failed
EndsCompared ==
    \A r \in AnchorRuns : EndsWell(r) /\ count.arrived = 0 =>
        \A b \in site.backends :
            /\ ~Disagrees(Files(b), run[r].index)
            /\ \E line \in LinesOf(Files(b)) : Len(line) >= Len(run[r].index)

\* What the anchors promise the chain, with runs side by side, crashes and
\* lost or late requests: no backend goes backwards or loses a line, and a
\* run that ends well has compared with all of them (assess, sync, put_once).
AnchorsHold == [](AnchorsTypeOK /\ AnchorsAscend /\ EndsCompared) /\ AnchoredStays

-----------------------------------------------------------------------------
(* What the source says and the code does not do.                          *)

\* "A seq past the local chain is `rewind`" (docs/receipts.md:80): a run that
\* read the file before another published a later row reports one, though
\* nothing was rewritten.
AlarmIsTrue == \A r \in AnchorRuns : run[r].alarm => writing > 1

\* "A backwards sequence is `mismatch` (the anchor file was tampered with)"
\* (docs/receipts.md:80): a run with an older head that compared before a
\* lost request of another arrived reads the file anew, with the later line,
\* and appends to it without comparing again (publish_path).
AscendsAlways == \A b \in site.backends : ~Backwards(Files(b))
=============================================================================
