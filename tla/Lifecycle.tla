----------------------------- MODULE Lifecycle -----------------------------
(***************************************************************************)
(* How the daemon comes up and goes down: serve (src/combadge/daemon.py)   *)
(* with the port, the socket and the pid file it takes and leaves, and the *)
(* commands start and stop (cli.py), any number of them at once.           *)
(*                                                                         *)
(* The kernel is external: a port or socket is closed when its process     *)
(* dies, the two files stay.  Start-up and shutdown go on in steps that    *)
(* the steps of other processes may come between.                          *)
(***************************************************************************)
EXTENDS Naturals

CONSTANTS
    Pids,       \* processes that may become daemons
    Starters,   \* commands: combadge start
    None,
    MaxFaults   \* bound on signals, crashes and start-up failures

ASSUME LifecycleAssumption == None \notin Pids /\ MaxFaults \in Nat

VARIABLES
    proc,       \* where in serve a process is
    port,       \* the process that listens on ui_port
    sock,       \* the socket file: the process that created it
    pidfile,
    start,      \* where in start a command is
    overtaken,  \* history: a daemon took the port while another was leaving
    faults

vars == <<proc, port, sock, pidfile, start, overtaken, faults>>

Starting == {"build", "recover", "http", "unlink", "unix", "pid"}
Leaving == {"close", "remove_socket", "remove_pid"}
Gone == {"unused", "dead"}

Init ==
    /\ proc = [p \in Pids |-> "unused"]
    /\ port = None /\ sock = None /\ pidfile = None
    /\ start = [s \in Starters |-> "idle"]
    /\ overtaken = FALSE
    /\ faults = 0

Fault == faults < MaxFaults /\ faults' = faults + 1

-----------------------------------------------------------------------------
(* serve.                                                                  *)

\* Mutant: the old socket goes before the port shows that nobody uses it.
AfterSocketFirst ==
    [build |-> "recover", recover |-> "unlink", unlink |-> "http", http |-> "unix",
     unix |-> "pid", pid |-> "serving"]

\* Mutant: the pid is written as soon as the port is taken.
AfterPidFirst ==
    [build |-> "recover", recover |-> "http", http |-> "pid", pid |-> "unlink",
     unlink |-> "unix", unix |-> "serving"]

\* The order of the steps of build_service and serve.
After ==
    [build |-> "recover", recover |-> "http", http |-> "unlink", unlink |-> "unix",
     unix |-> "pid", pid |-> "serving"]

At(p, pc) == proc[p] = pc /\ UNCHANGED <<start, faults>>
Goes(p, pc) == proc' = [proc EXCEPT ![p] = pc]
GoesOn(p) == Goes(p, After[proc[p]])
Dies(p) == Goes(p, "dead") /\ port' = IF port = p THEN None ELSE port

\* combadge agents serve, by hand.
Serve(p) ==
    /\ At(p, "unused")
    /\ Goes(p, "build")
    /\ UNCHANGED <<port, sock, pidfile, overtaken>>

\* build_service, then recover, whose exceptions do not count.
Prepare(p) ==
    /\ At(p, "build") \/ At(p, "recover")
    /\ GoesOn(p)
    /\ UNCHANGED <<port, sock, pidfile, overtaken>>

\* The port is taken, or the process ends with the exception.
BindHttp(p) ==
    /\ At(p, "http")
    /\ IF port = None THEN GoesOn(p) /\ port' = p ELSE Dies(p)
    /\ overtaken' = (overtaken \/ (port = None /\ \E q \in Pids : proc[q] \in Leaving))
    /\ UNCHANGED <<sock, pidfile>>

\* Mutant: the socket a dead daemon has left is left there.
UnlinkedNot(file) == file

Unlinked(file) == None

UnlinkSocket(p) ==
    /\ At(p, "unlink")
    /\ GoesOn(p)
    /\ sock' = Unlinked(sock)
    /\ UNCHANGED <<port, pidfile, overtaken>>

BindUnix(p) ==
    /\ At(p, "unix")
    /\ IF sock = None THEN GoesOn(p) /\ sock' = p /\ UNCHANGED port ELSE Dies(p) /\ UNCHANGED sock
    /\ UNCHANGED <<pidfile, overtaken>>

WritePid(p) ==
    /\ At(p, "pid")
    /\ GoesOn(p)
    /\ pidfile' = p
    /\ UNCHANGED <<port, sock, overtaken>>

\* serve_forever ends with KeyboardInterrupt and the finally clause follows;
\* the files it removes are those that are there.
Interrupt(p) ==
    /\ proc[p] = "serving" /\ Fault
    /\ Goes(p, "close")
    /\ UNCHANGED <<port, sock, pidfile, start, overtaken>>

Leave(p) ==
    \/ /\ At(p, "close") /\ Goes(p, "remove_socket")
       /\ port' = None
       /\ UNCHANGED <<sock, pidfile, overtaken>>
    \/ /\ At(p, "remove_socket") /\ Goes(p, "remove_pid")
       /\ sock' = None
       /\ UNCHANGED <<port, pidfile, overtaken>>
    \/ /\ At(p, "remove_pid") /\ Goes(p, "dead")
       /\ pidfile' = None
       /\ UNCHANGED <<port, sock, overtaken>>

\* SIGKILL, SIGTERM, a crash, a failure of build_service, or an interrupt before
\* serve_forever.
Crash(p) ==
    /\ proc[p] \notin Gone /\ Fault
    /\ Dies(p)
    /\ UNCHANGED <<sock, pidfile, start, overtaken>>

\* Another program gets the pid.
GivePid(p) ==
    /\ At(p, "dead")
    /\ Goes(p, "other")
    /\ UNCHANGED <<port, sock, pidfile, overtaken>>

-----------------------------------------------------------------------------
(* The commands.                                                           *)

\* _pid: the pid in the file, if a process has it.
Running == pidfile # None /\ proc[pidfile] \notin Gone

CommandAt(s, pc, next) ==
    /\ start[s] = pc
    /\ start' = [start EXCEPT ![s] = next]
    /\ UNCHANGED <<port, sock, pidfile, overtaken, faults>>

StartCheck(s) ==
    /\ CommandAt(s, "idle", IF Running THEN "ok" ELSE "spawn")
    /\ UNCHANGED proc

StartSpawn(s) ==
    /\ CommandAt(s, "spawn", "wait")
    /\ \E p \in Pids : proc[p] = "unused" /\ Goes(p, "build")

StartReady(s) ==
    /\ Running /\ sock # None
    /\ CommandAt(s, "wait", "ok")
    /\ UNCHANGED proc

\* 600 polls, no daemon.
StartGivesUp(s) ==
    /\ CommandAt(s, "wait", "failed")
    /\ UNCHANGED proc

\* stop: SIGTERM, which nobody handles.
Stop ==
    /\ Running /\ Fault
    /\ Dies(pidfile)
    /\ UNCHANGED <<sock, pidfile, start, overtaken>>

-----------------------------------------------------------------------------

ServeStep(p) == Prepare(p) \/ BindHttp(p) \/ UnlinkSocket(p) \/ BindUnix(p) \/ WritePid(p) \/ Leave(p)

Next ==
    \/ \E p \in Pids : ServeStep(p) \/ Serve(p) \/ Interrupt(p) \/ Crash(p) \/ GivePid(p)
    \/ \E s \in Starters : StartCheck(s) \/ StartSpawn(s) \/ StartReady(s) \/ StartGivesUp(s)
    \/ Stop

\* A process runs on, each request of recover having a timeout, and so does a
\* command.
Spec ==
    /\ Init /\ [][Next]_vars
    /\ \A p \in Pids : WF_vars(ServeStep(p))
    /\ \A s \in Starters : WF_vars(StartSpawn(s))

-----------------------------------------------------------------------------
(* Properties.                                                             *)

\* Every variable keeps to the values the code gives it, and the port is held
\* from the step that takes it to the one that gives it up.
TypeOK ==
    /\ proc \in [Pids -> Gone \cup Starting \cup Leaving \cup {"serving", "other"}]
    /\ \A p \in Pids : port = p <=> proc[p] \in {"unlink", "unix", "pid", "serving", "close"}
    /\ {port, sock, pidfile} \subseteq Pids \cup {None}
    /\ start \in [Starters -> {"idle", "spawn", "wait", "ok", "failed"}]
    /\ overtaken \in BOOLEAN /\ faults \in 0..MaxFaults

Succeeds(s) == start[s] # "ok" /\ start'[s] = "ok"

\* When start reports success a daemon serves or is leaving, not one that is
\* still coming up beside the files of a dead one, unless another program has
\* the pid of a dead one (start, _pid, serve).
StartedIsServing ==
    [][\A s \in Starters : Succeeds(s) => proc[pidfile] \in {"serving", "other"} \cup Leaving]_vars

\* The same without the exception.
StartEnsuresDaemon ==
    [][\A s \in Starters : Succeeds(s) => proc[pidfile] \in {"serving"} \cup Leaving]_vars

\* A serving daemon can be reached and stopped: the socket and the pid file are
\* its own, whatever other daemons try to come up and whatever dead ones have
\* left.  The exception is a daemon that took the port of one that was leaving,
\* which then removes the newcomer's files (serve).
ServingIsReachable ==
    \A p \in Pids : proc[p] = "serving" /\ ~overtaken => port = p /\ sock = p /\ pidfile = p

\* A start that found no daemon has one serving in the end, whatever files
\* earlier daemons have left, unless something fails from then on or a daemon
\* was just leaving (start, serve).
StartBringsUp ==
    \A s \in Starters :
        (/\ start[s] = "spawn" /\ \E p \in Pids : proc[p] = "unused"
         /\ faults = MaxFaults /\ \A p \in Pids : proc[p] \notin Leaving)
            ~> \E p \in Pids : proc[p] = "serving"

=============================================================================
