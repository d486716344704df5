----------------------------- MODULE GraphServer -----------------------------
(***************************************************************************)
(* The graph server in `spawn` mode (surrealdb_manager.rs, its place in a  *)
(* boot and a shutdown in server/daemon.rs): the daemons of several pulses *)
(* on a host share one SurrealDB, its data directory and its root          *)
(* password.  Whoever finds no server starts one, which outlives a daemon  *)
(* that dies; and each pulse defines itself a user, once.                  *)
(*                                                                         *)
(* A password is the daemon that generated it, a server process the daemon *)
(* that spawned it.  The server's start time and pidfd are in Pidfile; the *)
(* search for the binary and .recall-echo.toml are left out.               *)
(***************************************************************************)
EXTENDS Naturals, FiniteSets

CONSTANTS
    GraphDaemons,     \* processes of the daemon, one boot each
    GraphPulses,      \* pulses that share the server
    NoDaemon,         \* no process, no password
    HostConfigs       \* the circumstances explored

ASSUME GraphAssumption ==
    /\ NoDaemon \notin GraphDaemons
    /\ HostConfigs \subseteq
        [alone : BOOLEAN,         \* one daemon at a time boots or shuts down
         twins : BOOLEAN,         \* two may be of one pulse
         boots : Nat,             \* bound: boots
         faults : Nat]            \* bound: crashes and failures

VARIABLES
    host,         \* the circumstances, fixed
    daemon,       \* daemon[d]: how far it is, its pulse, the root password it read
    server,       \* server[d]: the process it spawned
    db,           \* the users of the database and their passwords
    rootFile,     \* surrealdb/root-password
    graphFile,    \* graphFile[x]: secrets/graph-password of pulse x
    surrealPid,   \* surrealdb/surreal.pid
    graphFaults   \* failures so far

graphVars == <<host, daemon, server, db, rootFile, graphFile, surrealPid, graphFaults>>
graphFiles == <<rootFile, graphFile, surrealPid>>

GraphInit ==
    /\ host \in HostConfigs /\ graphFaults = 0
    /\ daemon = [d \in GraphDaemons |->
          [at |-> "unborn", pulse |-> CHOOSE x \in GraphPulses : TRUE, root |-> NoDaemon]]
    /\ server = [d \in GraphDaemons |-> "none"]
    /\ db = [root |-> NoDaemon, user |-> [x \in GraphPulses |-> NoDaemon]]
    /\ rootFile = NoDaemon /\ surrealPid = NoDaemon
    /\ graphFile = [x \in GraphPulses |-> NoDaemon]

AtStep(d, step) == daemon[d].at = step
GoesTo(d, step) == daemon' = [daemon EXCEPT ![d].at = step]
BusyDaemon(d) == daemon[d].at \notin {"unborn", "up", "gone"}
Serving == \E d \in GraphDaemons : server[d] \in {"serving", "stopping"}
FaultOccurs == graphFaults < host.faults /\ graphFaults' = graphFaults + 1
noFault == UNCHANGED graphFaults
Born == {d \in GraphDaemons : ~AtStep(d, "unborn")}
NoneBusy == \A d \in GraphDaemons : ~BusyDaemon(d)

-----------------------------------------------------------------------------
(* ensure_running, in the boot of daemon d.                                *)

BootStarts(d, x) ==
    /\ AtStep(d, "unborn") /\ Cardinality(Born) < host.boots /\ (host.alone => NoneBusy)
    /\ d = CHOOSE e \in GraphDaemons : AtStep(e, "unborn")    \* they are alike
    /\ ~host.twins => \A e \in GraphDaemons :
          daemon[e].pulse = x => daemon[e].at \in {"unborn", "gone"}
    /\ daemon' = [daemon EXCEPT ![d].at = "looks", ![d].pulse = x]
    /\ UNCHANGED <<host, server, db, graphFiles>> /\ noFault

Looks(d) ==
    /\ AtStep(d, "looks") /\ GoesTo(d, IF Serving THEN "provisions" ELSE "reads")
    /\ UNCHANGED <<host, server, db, graphFiles>> /\ noFault

\* ensure_root_password.
ReadsRoot(d) ==
    /\ AtStep(d, "reads")
    /\ daemon' = [daemon EXCEPT ![d].root = rootFile,
                     ![d].at = IF rootFile = NoDaemon THEN "generates" ELSE "spawns"]
    /\ UNCHANGED <<host, server, db, graphFiles>> /\ noFault
WritesRoot(d) ==
    /\ AtStep(d, "generates")
    /\ rootFile' = d /\ daemon' = [daemon EXCEPT ![d].root = d, ![d].at = "spawns"]
    /\ UNCHANGED <<host, server, db, graphFile, surrealPid>> /\ noFault

\* The server is remembered, then its pid is written down, for nobody.
Spawns(d) ==
    /\ AtStep(d, "spawns") /\ GoesTo(d, "records")
    /\ server' = [server EXCEPT ![d] = "starting"]
    /\ UNCHANGED <<host, db, graphFiles>> /\ noFault
RecordsPid(d) ==
    /\ AtStep(d, "records") /\ surrealPid' = d /\ GoesTo(d, "awaits")
    /\ UNCHANGED <<host, server, db, rootFile, graphFile>> /\ noFault

\* Until the port answers, whoever's server that is, or 15 s are over.
Awaits(d) ==
    /\ AtStep(d, "awaits") /\ GoesTo(d, IF Serving THEN "provisions" ELSE "gone")
    /\ UNCHANGED <<host, server, db, graphFiles>> /\ noFault

-----------------------------------------------------------------------------
(* provision_pulse, and the rest of the boot.                              *)

ChecksProvisioned_Never(d) ==    \* mutant: the file is not looked for
    /\ AtStep(d, "provisions") /\ GoesTo(d, "signs in")
    /\ UNCHANGED <<host, server, db, graphFiles>> /\ noFault
ChecksProvisioned(d) ==
    /\ AtStep(d, "provisions")
    /\ GoesTo(d, IF graphFile[daemon[d].pulse] # NoDaemon THEN "binds" ELSE "signs in")
    /\ UNCHANGED <<host, server, db, graphFiles>> /\ noFault
SignsIn(d) ==
    /\ AtStep(d, "signs in")
    /\ GoesTo(d, IF Serving /\ rootFile = db.root THEN "defines" ELSE "gone")
    /\ UNCHANGED <<host, server, db, graphFiles>> /\ noFault

\* DEFINE USER IF NOT EXISTS ... PASSWORD.
WithUser(x, password) ==
    IF db.user[x] = NoDaemon THEN [db EXCEPT !.user[x] = password] ELSE db
DefinesUser(d) ==
    /\ AtStep(d, "defines")
    /\ IF Serving THEN db' = WithUser(daemon[d].pulse, d) /\ GoesTo(d, "writes")
       ELSE UNCHANGED db /\ GoesTo(d, "gone")
    /\ UNCHANGED <<host, server, graphFiles>> /\ noFault
\* Carried out, but the answer did not come: a failure, or a server that stops.
AnswerIsLost(d) ==
    /\ AtStep(d, "defines") /\ Serving /\ FaultOccurs
    /\ db' = WithUser(daemon[d].pulse, d) /\ GoesTo(d, "gone")
    /\ UNCHANGED <<host, server, graphFiles>>
WritesGraphPassword(d) ==
    /\ AtStep(d, "writes") /\ graphFile' = [graphFile EXCEPT ![daemon[d].pulse] = d]
    /\ GoesTo(d, "binds")
    /\ UNCHANGED <<host, server, db, rootFile, surrealPid>> /\ noFault
\* Another daemon of the pulse has its port, or not.
FinishesBoot(d) ==
    /\ AtStep(d, "binds")
    /\ GoesTo(d, IF \E e \in GraphDaemons : AtStep(e, "up") /\ daemon[e].pulse = daemon[d].pulse
                 THEN "gone" ELSE "up")
    /\ UNCHANGED <<host, server, db, graphFiles>> /\ noFault

\* Killed, or a file or a child that cannot be had: the boot ends, and the
\* server goes on; only one that cannot be remembered is killed.
DaemonEnds(d) ==
    /\ daemon[d].at \notin {"unborn", "gone"} /\ FaultOccurs /\ GoesTo(d, "gone")
    /\ \/ UNCHANGED server
       \/ AtStep(d, "records") /\ server' = [server EXCEPT ![d] = "gone"]
    /\ UNCHANGED <<host, db, graphFiles>>

-----------------------------------------------------------------------------
(* shutdown_if_owner.                                                      *)

Signalled(d) ==
    [server EXCEPT ![d] = IF @ \in {"starting", "serving"} THEN "stopping" ELSE @]
StopsServer(d) ==
    /\ AtStep(d, "up") /\ (host.alone => NoneBusy)
    /\ server' = Signalled(d) /\ GoesTo(d, IF server[d] = "none" THEN "gone" ELSE "stops")
    /\ UNCHANGED <<host, db, graphFiles>> /\ noFault
\* It has exited, was gone, or has not within 5 s: the record goes if it is its own.
ForgetsServer(d) ==
    /\ AtStep(d, "stops") /\ GoesTo(d, "gone")
    /\ surrealPid' = IF surrealPid = d THEN NoDaemon ELSE surrealPid
    /\ UNCHANGED <<host, server, db, rootFile, graphFile>> /\ noFault

-----------------------------------------------------------------------------
(* The server: one at a time has the port and the data; the first ever     *)
(* makes the root user.                                                    *)

ServerBinds(d) ==
    /\ server[d] = "starting"
    /\ IF Serving THEN server' = [server EXCEPT ![d] = "gone"] /\ UNCHANGED db
       ELSE /\ server' = [server EXCEPT ![d] = "serving"]
            /\ db' = [db EXCEPT !.root = IF @ = NoDaemon THEN daemon[d].root ELSE @]
    /\ UNCHANGED <<host, daemon, graphFiles>> /\ noFault
ServerExits(d) ==
    /\ IF server[d] = "stopping" THEN noFault
       ELSE server[d] \in {"starting", "serving"} /\ FaultOccurs
    /\ server' = [server EXCEPT ![d] = "gone"]
    /\ UNCHANGED <<host, daemon, db, graphFiles>>

GraphNext ==
    \E d \in GraphDaemons :
       \/ \E x \in GraphPulses : BootStarts(d, x)
       \/ Looks(d) \/ ReadsRoot(d) \/ WritesRoot(d) \/ Spawns(d) \/ RecordsPid(d) \/ Awaits(d)
       \/ ChecksProvisioned(d) \/ SignsIn(d) \/ DefinesUser(d) \/ AnswerIsLost(d)
       \/ WritesGraphPassword(d) \/ FinishesBoot(d) \/ DaemonEnds(d)
       \/ StopsServer(d) \/ ForgetsServer(d) \/ ServerBinds(d) \/ ServerExits(d)

GraphSpec == GraphInit /\ [][GraphNext]_graphVars
-----------------------------------------------------------------------------
(* Properties.                                                             *)

\* Types; a pid on record is that of a process there is or was.
GraphTypeOK ==
    /\ \A d \in GraphDaemons : server[d] \in {"none", "starting", "serving", "stopping", "gone"}
    /\ \A e, d \in GraphDaemons :
          e # d => ~(server[e] = "serving" /\ server[d] = "serving")
    /\ surrealPid # NoDaemon => server[surrealPid] # "none"

RootFits == db.root # NoDaemon => rootFile = db.root
UserFits(x) == graphFile[x] # NoDaemon => graphFile[x] = db.user[x]

\* Daemons that boot and stop one at a time, however they crash, keep the
\* root password that opens the database, and those that do not crash the
\* passwords of their pulses (ensure_root_password, provision_pulse).
PasswordsFit ==
    host.alone => RootFits /\ (graphFaults = 0 => \A x \in GraphPulses : UserFits(x))

\* A pulse whose password opens its database keeps it, through crashes and
\* other pulses' boots (provision_pulse).
SignInStays ==
    [][\A x \in GraphPulses :
          ~host.twins /\ graphFile[x] # NoDaemon /\ UserFits(x) => UserFits(x)']_graphVars

\* The server of another daemon is never signalled: "A pid read from
\* `surreal.pid` is never signalled" (shutdown_if_owner).
OnlyOwnStopped ==
    [][\A d \in GraphDaemons :
          server[d] # "stopping" /\ server'[d] = "stopping" => AtStep(d, "up")]_graphVars

\* What the host's graph server promises its pulses: the passwords on disk
\* are the database's, one that opens it keeps doing so, and nobody stops
\* the server of another (ensure_root_password, provision_pulse,
\* shutdown_if_owner).
GraphHolds == [](GraphTypeOK /\ PasswordsFit) /\ SignInStays /\ OnlyOwnStopped

-----------------------------------------------------------------------------
(* What the source says and the code does not do.                          *)

\* "If password file exists, the pulse is already provisioned"
\* (provision_pulse): after a boot that ended between the user's definition
\* and the password's write, the next one finds the user and keeps it, and
\* writes another password.
AlreadyProvisioned == ~host.twins => \A x \in GraphPulses : UserFits(x)
=============================================================================
