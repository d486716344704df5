------------------------------- MODULE Pidfile -------------------------------
(***************************************************************************)
(* The record of the running daemon (pidfile.rs): the daemon writes it     *)
(* once it has its port and removes it when it stops (server/daemon.rs);   *)
(* `down` and `status` read it, check that it still names a process, and   *)
(* signal that process or delete the file (cli/down.rs, cli/status.rs).    *)
(*                                                                         *)
(* Processes come and go, pids are used again, daemons crash, the machine  *)
(* reboots; a step is one system call.  A process is known by its number,  *)
(* which stands for its start time.  Users, pid namespaces, units of       *)
(* systemd and files of the older form are refusals, and are left out.     *)
(***************************************************************************)
EXTENDS Naturals, FiniteSets

CONSTANTS
    Pids,            \* pids the kernel hands out
    Stoppers,        \* runs of `down` and of `status`
    PidfileConfigs   \* the configurations explored

ASSUME PidfileAssumption ==
    PidfileConfigs \subseteq
        [procs : Nat,             \* bound: processes ever started
         stoppers : SUBSET Stoppers,
         reboots : Nat]           \* bound: reboots

VARIABLES
    os,         \* the configuration, fixed
    procs,      \* processes by number: their pid, what they are, where they are
    started,    \* how many there have been
    port,       \* the daemon that listens, or 0
    pidfile,    \* the record in the file; the process number 0 is no file
    boot,       \* boot_id
    stopper,    \* stopper[s]: where a command is
    erased,     \* history: daemons whose record someone else deleted
    hit         \* history: what was signalled, and for which record

pidfileVars == <<os, procs, started, port, pidfile, boot, stopper, erased, hit>>

NoRecord == [proc |-> 0, pid |-> CHOOSE p \in Pids : TRUE, boot |-> 0]
Unborn == [pid |-> CHOOSE p \in Pids : TRUE, is |-> "none", at |-> "dead"]
NoCommand == [at |-> "idle", stops |-> FALSE, rec |-> NoRecord, fd |-> 0]

PidfileInit ==
    /\ os \in PidfileConfigs
    /\ procs = [n \in 1..os.procs |-> Unborn]
    /\ started = 0 /\ port = 0
    /\ pidfile = NoRecord /\ boot = 1
    /\ stopper = [s \in Stoppers |-> NoCommand]
    /\ erased = {} /\ hit = {}

-----------------------------------------------------------------------------
(* Processes.                                                              *)

Alive(n) == n # 0 /\ procs[n].at # "dead"
Holder(pid) == {n \in 1..started : Alive(n) /\ procs[n].pid = pid}
Steps(n, from, to) == procs[n].at = from /\ procs' = [procs EXCEPT ![n].at = to]
commands == <<os, stopper, hit>>

\* A daemon, or a stranger to whom the kernel gives a pid that is free.
ProcessStarts(pid, what) ==
    /\ started < os.procs /\ Holder(pid) = {}
    /\ started' = started + 1
    /\ procs' = [procs EXCEPT ![started + 1] =
          [pid |-> pid, is |-> what, at |-> IF what = "daemon" THEN "booting" ELSE "stranger"]]
    /\ UNCHANGED <<os, port, pidfile, boot, stopper, erased, hit>>

\* bind_listener: a daemon without the port does not come up.
Binds(n) ==
    /\ procs[n].is = "daemon"
    /\ IF port = 0 THEN Steps(n, "booting", "bound") /\ port' = n
       ELSE Steps(n, "booting", "dead") /\ UNCHANGED port
    /\ UNCHANGED <<started, pidfile, boot, erased>> /\ UNCHANGED commands

\* write: a new file renamed over the name.
WritesRecord(n) ==
    /\ Steps(n, "bound", "serving")
    /\ pidfile' = [proc |-> n, pid |-> procs[n].pid, boot |-> boot]
    /\ erased' = erased \ {n}
    /\ UNCHANGED <<started, port, boot>> /\ UNCHANGED commands

\* The signal, of `down` or another: the listener is closed first, the
\* record goes last.
Closes(n) ==
    /\ \/ Steps(n, "serving", "closing") \/ Steps(n, "signalled", "closing")
    /\ port' = 0
    /\ UNCHANGED <<started, pidfile, boot, erased>> /\ UNCHANGED commands

\* remove: only a record with the pid of this process.
RemoveReads(n) ==
    /\ IF pidfile.proc # 0 /\ pidfile.pid = procs[n].pid
       THEN Steps(n, "closing", "removing") ELSE Steps(n, "closing", "dead")
    /\ UNCHANGED <<started, port, pidfile, boot, erased>> /\ UNCHANGED commands

\* delete: the name, whatever it names by now.
Deleted(by) ==
    /\ pidfile' = NoRecord
    /\ erased' = IF pidfile.proc \notin {0, by} THEN erased \cup {pidfile.proc} ELSE erased
RemoveDeletes(n) ==
    /\ Steps(n, "removing", "dead") /\ Deleted(n)
    /\ UNCHANGED <<started, port, boot>> /\ UNCHANGED commands

\* Killed, or over.
Dies(n) ==
    /\ Alive(n)
    /\ procs' = [procs EXCEPT ![n].at = "dead"]
    /\ port' = IF port = n THEN 0 ELSE port
    /\ UNCHANGED <<started, pidfile, boot, erased>> /\ UNCHANGED commands

Reboots ==
    /\ boot <= os.reboots /\ boot' = boot + 1
    /\ procs' = [n \in 1..os.procs |-> [procs[n] EXCEPT !.at = "dead"]]
    /\ port' = 0
    /\ stopper' = [s \in Stoppers |-> NoCommand]
    /\ UNCHANGED <<os, started, pidfile, erased, hit>>

-----------------------------------------------------------------------------
(* down and status.                                                        *)

world == <<os, procs, started, port, pidfile, boot, erased>>
Command(s, r) == stopper' = [stopper EXCEPT ![s] = r] /\ UNCHANGED world /\ UNCHANGED hit

\* read: no file, nothing to do.
ReadsRecord(s, stops) ==
    /\ s \in os.stoppers /\ stopper[s].at = "idle" /\ pidfile.proc # 0
    /\ Command(s, [at |-> "read", stops |-> stops, rec |-> pidfile, fd |-> 0])

\* verify: the boot, then a pidfd, and only then the start time of whoever
\* has the pid.
ChecksBoot(s) ==
    /\ stopper[s].at = "read"
    /\ Command(s, [stopper[s] EXCEPT !.at = IF stopper[s].rec.boot = boot THEN "open" ELSE "gone"])

OpensPidfd(s) ==
    LET holder == Holder(stopper[s].rec.pid)
    IN  /\ stopper[s].at = "open"
        /\ IF holder = {} THEN Command(s, [stopper[s] EXCEPT !.at = "gone"])
           ELSE \E n \in holder : Command(s, [at |-> "confirm", stops |-> stopper[s].stops,
                                               rec |-> stopper[s].rec, fd |-> n])

Confirms_Pid(s) ==               \* mutant: any process with the pid will do
    LET holder == Holder(stopper[s].rec.pid)
    IN  /\ stopper[s].at = "confirm"
        /\ Command(s, IF holder = {} THEN [stopper[s] EXCEPT !.at = "gone"]
                      ELSE IF ~stopper[s].stops THEN NoCommand
                      ELSE [stopper[s] EXCEPT !.at = "ours"])
Confirms(s) ==
    LET holder == Holder(stopper[s].rec.pid)
    IN  /\ stopper[s].at = "confirm"
        /\ Command(s, IF holder = {} THEN [stopper[s] EXCEPT !.at = "gone"]
                      ELSE IF holder # {stopper[s].rec.proc} \/ ~stopper[s].stops THEN NoCommand
                      ELSE [stopper[s] EXCEPT !.at = "ours"])

\* terminate: through the pidfd, or an error.
Terminates(s) ==
    LET n == stopper[s].fd
    IN  /\ stopper[s].at = "ours"
        /\ IF Alive(n)
           THEN /\ procs' = [procs EXCEPT ![n].at = IF @ = "serving" THEN "signalled" ELSE @]
                /\ hit' = hit \cup {<<n, stopper[s].rec.proc>>}
                /\ stopper' = [stopper EXCEPT ![s].at = "waiting"]
           ELSE stopper' = [stopper EXCEPT ![s] = NoCommand] /\ UNCHANGED <<procs, hit>>
        /\ UNCHANGED <<os, started, port, pidfile, boot, erased>>

\* wait_exit: the process has gone, or the wait is over.
SeesExit(s) ==
    /\ stopper[s].at = "waiting" /\ ~Alive(stopper[s].fd)
    /\ Command(s, [stopper[s] EXCEPT !.at = "gone"])
WaitIsOver(s) ==
    /\ stopper[s].at = "waiting" /\ Alive(stopper[s].fd)
    /\ Command(s, NoCommand)

DeletesStale(s) ==
    /\ stopper[s].at = "gone" /\ Deleted(stopper[s].rec.proc)
    /\ stopper' = [stopper EXCEPT ![s] = NoCommand]
    /\ UNCHANGED <<os, procs, started, port, boot, hit>>

PidfileNext ==
    \/ \E pid \in Pids, what \in {"daemon", "stranger"} : ProcessStarts(pid, what)
    \/ \E n \in 1..started : \/ Binds(n) \/ WritesRecord(n) \/ Closes(n)
                             \/ RemoveReads(n) \/ RemoveDeletes(n) \/ Dies(n)
    \/ Reboots
    \/ \E s \in Stoppers : \/ \E stops \in BOOLEAN : ReadsRecord(s, stops)
                           \/ ChecksBoot(s) \/ OpensPidfd(s) \/ Confirms(s) \/ Terminates(s)
                           \/ SeesExit(s) \/ WaitIsOver(s) \/ DeletesStale(s)

PidfileSpec == PidfileInit /\ [][PidfileNext]_pidfileVars
-----------------------------------------------------------------------------
(* Properties.                                                             *)

\* Types; a pid has one process, and one daemon has the port.
PidfileTypeOK ==
    /\ pidfile.proc \in 0..started /\ port \in 0..started
    /\ \A pid \in Pids : Cardinality(Holder(pid)) <= 1
    /\ \A n \in 1..started : procs[n].at \in {"serving", "signalled"} => port = n

\* Nobody but the daemon of the record is ever signalled, however pids are
\* used again between the read, the pidfd, the check and the signal
\* (verify, terminate).
NoStrangerSignalled == \A h \in hit : h[1] = h[2]

\* A daemon that serves has its record in the file: nothing but a delete
\* that was under way when it was written takes it (write, remove).
ServingIsRecorded ==
    \A n \in 1..started :
        procs[n].at = "serving" /\ n \notin erased => pidfile.proc = n

\* A command deletes a record only when the process of the record it read is
\* dead: a missing pid, another boot or an ended wait never passes for the
\* end of a process that runs on ("the file is deleted only when that
\* process is gone", status).
DeletesTheDead ==
    \A s \in Stoppers : stopper[s].at = "gone" => ~Alive(stopper[s].rec.proc)

\* What the pid file promises the commands that read it, with pids used again
\* and daemons that come and go meanwhile (identity, write, remove, stop).
PidfileHolds == PidfileTypeOK /\ NoStrangerSignalled /\ ServingIsRecorded /\ DeletesTheDead

-----------------------------------------------------------------------------
(* What the source says and the code does not do.                          *)

\* "A record for some other pid is left in place" (remove), and "the file is
\* deleted only when that process is gone" (status): the daemon that is
\* stopping closes its port long before its record goes, and its successor
\* has written its own by then.
ServingKeepsItsRecord ==
    \A n \in 1..started : procs[n].at = "serving" => pidfile.proc = n
=============================================================================
