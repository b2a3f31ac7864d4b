-------------------------- MODULE LifecycleProofs --------------------------
(***************************************************************************)
(* Theorems about Lifecycle, for any processes, commands and number of     *)
(* faults.  The port is what keeps daemons apart: between the step that    *)
(* takes it and the one that gives it up nobody else touches the files,    *)
(* unless somebody is still leaving.                                       *)
(***************************************************************************)
EXTENDS Lifecycle, TLAPS

Holding == {"unlink", "unix", "pid", "serving", "close"}
Removing == {"remove_socket", "remove_pid"}

\* A process past the step that makes a file has made the file there is.
Owned ==
    \A p \in Pids : ~overtaken =>
        /\ proc[p] \in {"pid", "serving"} => sock = p
        /\ proc[p] = "serving" => pidfile = p

\* While the port is held nobody is about to remove files.
NobodyRemoves == port # None /\ ~overtaken => \A p \in Pids : proc[p] \notin Removing

\* The pid in the file is that of a process that has come up.
PidOfDaemon ==
    pidfile # None => proc[pidfile] \in {"serving", "other", "dead"} \cup Leaving

IndInv == TypeOK /\ Owned /\ NobodyRemoves /\ PidOfDaemon

Step(p) == Serve(p) \/ Interrupt(p) \/ Crash(p) \/ GivePid(p) \/ Prepare(p) \/ BindHttp(p)
              \/ UnlinkSocket(p) \/ BindUnix(p) \/ WritePid(p) \/ Leave(p)

Command(s) == StartCheck(s) \/ StartReady(s) \/ StartGivesUp(s)

-----------------------------------------------------------------------------

\* Every step is one of a process, a command that looks only, one that starts a
\* process, or a signal to the process of the pid file.
LEMMA NextCases ==
    ASSUME Next
    PROVE  \/ \E p \in Pids : Step(p)
           \/ \E s \in Starters : Command(s)
           \/ \E s \in Starters : StartSpawn(s)
           \/ Stop
BY DEF Next, Step, ServeStep, Command

\* Where a step of serve goes from each place.
LEMMA AfterPlaces ==
    /\ After["build"] = "recover" /\ After["recover"] = "http" /\ After["http"] = "unlink"
    /\ After["unlink"] = "unix" /\ After["unix"] = "pid" /\ After["pid"] = "serving"
BY DEF After

\* A process that ends gives up the port if it holds it, and only then.
LEMMA DyingKeepsTypes ==
    ASSUME TypeOK, NEW p \in Pids, Dies(p)
    PROVE  /\ proc' \in [Pids -> Gone \cup Starting \cup Leaving \cup {"serving", "other"}]
           /\ \A q \in Pids : port' = q <=> proc'[q] \in Holding
           /\ port' \in Pids \cup {None}
BY LifecycleAssumption DEF TypeOK, Dies, Goes, Gone, Holding

\* A process that goes on in serve keeps the port where it holds it.
LEMMA GoingKeepsTypes ==
    ASSUME TypeOK, NEW p \in Pids, NEW pc \in Gone \cup Starting \cup Leaving \cup {"serving", "other"},
           Goes(p, pc), UNCHANGED port, pc \in Holding <=> proc[p] \in Holding
    PROVE  /\ proc' \in [Pids -> Gone \cup Starting \cup Leaving \cup {"serving", "other"}]
           /\ \A q \in Pids : port' = q <=> proc'[q] \in Holding
           /\ port' \in Pids \cup {None}
BY DEF TypeOK, Goes, Holding

\* The steps of a process keep the types.
LEMMA StepKeepsTypes ==
    ASSUME TypeOK, NEW p \in Pids, Step(p)
    PROVE  TypeOK'
<1> DEFINE Places == Gone \cup Starting \cup Leaving \cup {"serving", "other"}
<1> USE DEF Gone, Starting, Leaving, Holding
<1>1. SUFFICES /\ proc' \in [Pids -> Places]
               /\ \A q \in Pids : port' = q <=> proc'[q] \in Holding
               /\ port' \in Pids \cup {None}
               /\ {sock, pidfile}' \subseteq Pids \cup {None}
               /\ UNCHANGED start /\ overtaken' \in BOOLEAN /\ faults' \in 0..MaxFaults
  BY DEF TypeOK
<1>2. CASE Serve(p)
  <2>1. Goes(p, "build") /\ proc[p] = "unused"
    BY <1>2 DEF Serve, At
  <2> QED BY <1>2, <2>1, GoingKeepsTypes DEF Serve, At, TypeOK
<1>3. CASE Interrupt(p)
  BY <1>3, GoingKeepsTypes, LifecycleAssumption DEF Interrupt, Fault, TypeOK
<1>4. CASE Crash(p)
  BY <1>4, DyingKeepsTypes, LifecycleAssumption DEF Crash, Fault, TypeOK
<1>5. CASE GivePid(p)
  BY <1>5, GoingKeepsTypes DEF GivePid, At, TypeOK
<1>6. CASE Prepare(p)
  BY <1>6, GoingKeepsTypes, AfterPlaces DEF Prepare, At, GoesOn, TypeOK
<1>7. CASE BindHttp(p)
  <2>1. CASE port = None
    <3>1. /\ proc' = [proc EXCEPT ![p] = "unlink"] /\ port' = p
      BY <1>7, <2>1, AfterPlaces DEF BindHttp, At, GoesOn, Goes
    <3>2. \A q \in Pids : proc[q] \notin Holding
      BY <2>1, LifecycleAssumption DEF TypeOK
    <3> QED BY <1>7, <3>1, <3>2 DEF BindHttp, At, TypeOK
  <2>2. CASE port # None
    BY <1>7, <2>2, DyingKeepsTypes DEF BindHttp, At, TypeOK
  <2> QED BY <2>1, <2>2
<1>8. CASE UnlinkSocket(p)
  BY <1>8, GoingKeepsTypes, AfterPlaces DEF UnlinkSocket, At, GoesOn, Unlinked, TypeOK
<1>9. CASE BindUnix(p)
  <2>1. CASE sock = None
    BY <1>9, <2>1, GoingKeepsTypes, AfterPlaces DEF BindUnix, At, GoesOn, TypeOK
  <2>2. CASE sock # None
    BY <1>9, <2>2, DyingKeepsTypes DEF BindUnix, At, TypeOK
  <2> QED BY <2>1, <2>2
<1>10. CASE WritePid(p)
  BY <1>10, GoingKeepsTypes, AfterPlaces DEF WritePid, At, GoesOn, TypeOK
<1>11. CASE Leave(p)
  <2>1. CASE At(p, "close") /\ Goes(p, "remove_socket") /\ port' = None /\ UNCHANGED <<sock, pidfile, overtaken>>
    <3>1. port = p
      BY <2>1 DEF At, TypeOK
    <3>2. \A q \in Pids \ {p} : proc[q] \notin Holding
      BY <3>1 DEF TypeOK
    <3> QED BY <2>1, <3>2, LifecycleAssumption DEF At, Goes, TypeOK
  <2>2. CASE At(p, "remove_socket") /\ Goes(p, "remove_pid") /\ sock' = None /\ UNCHANGED <<port, pidfile, overtaken>>
    BY <2>2, GoingKeepsTypes DEF At, TypeOK
  <2>3. CASE At(p, "remove_pid") /\ Goes(p, "dead") /\ pidfile' = None /\ UNCHANGED <<port, sock, overtaken>>
    BY <2>3, GoingKeepsTypes DEF At, TypeOK
  <2> QED BY <1>11, <2>1, <2>2, <2>3 DEF Leave
<1> QED BY <1>2, <1>3, <1>4, <1>5, <1>6, <1>7, <1>8, <1>9, <1>10, <1>11 DEF Step

\* The types are inductive.
LEMMA TypeInductive ==
    ASSUME TypeOK, [Next]_vars
    PROVE  TypeOK'
<1>1. CASE \E p \in Pids : Step(p)
  BY <1>1, StepKeepsTypes
<1>2. CASE \E s \in Starters : Command(s)
  BY <1>2 DEF Command, StartCheck, StartReady, StartGivesUp, CommandAt, TypeOK
<1>3. CASE \E s \in Starters : StartSpawn(s)
  <2>1. PICK s \in Starters, p \in Pids :
            CommandAt(s, "spawn", "wait") /\ proc[p] = "unused" /\ Goes(p, "build")
    BY <1>3 DEF StartSpawn
  <2>2. /\ proc' \in [Pids -> Gone \cup Starting \cup Leaving \cup {"serving", "other"}]
        /\ \A q \in Pids : port' = q <=> proc'[q] \in Holding
    BY <2>1, GoingKeepsTypes DEF CommandAt, Holding, Starting
  <2> QED BY <2>1, <2>2 DEF CommandAt, TypeOK, Holding
<1>4. CASE Stop
  <2>1. pidfile \in Pids /\ Dies(pidfile)
    BY <1>4 DEF Stop, Running, TypeOK
  <2> QED BY <1>4, <2>1, DyingKeepsTypes, LifecycleAssumption DEF Stop, Fault, TypeOK, Holding
<1>5. CASE UNCHANGED vars
  BY <1>5 DEF vars, TypeOK
<1> QED BY <1>1, <1>2, <1>3, <1>4, <1>5, NextCases

\* The first state is well typed.
LEMMA InitTypes == Init => TypeOK
<1> SUFFICES ASSUME Init PROVE TypeOK
  OBVIOUS
<1>1. proc \in [Pids -> {"unused"}] /\ \A p \in Pids : proc[p] = "unused"
  BY DEF Init
<1>2. port = None /\ sock = None /\ pidfile = None
  BY DEF Init
<1>3. start \in [Starters -> {"idle", "spawn", "wait", "ok", "failed"}]
  BY DEF Init
<1>4. /\ overtaken \in BOOLEAN
      /\ faults \in 0..MaxFaults
  <2>1. overtaken \in BOOLEAN
    BY Zenon DEF Init
  <2>2. faults = 0
    BY DEF Init
  <2> QED BY <2>1, <2>2, LifecycleAssumption
<1>5. proc \in [Pids -> Gone \cup Starting \cup Leaving \cup {"serving", "other"}]
  BY <1>1 DEF Gone
<1> QED BY <1>1, <1>2, <1>3, <1>4, <1>5, LifecycleAssumption DEF TypeOK

\* Every state of the life cycle is well typed, and one process at most has the
\* port, from the step of serve that takes it to the one that gives it up.
THEOREM TypeCorrect == Spec => []TypeOK
<1>1. Init => TypeOK
  BY InitTypes
<1>2. TypeOK /\ [Next]_vars => TypeOK'
  BY TypeInductive
<1> QED BY <1>1, <1>2, PTL DEF Spec

-----------------------------------------------------------------------------

\* A process that ends, or comes up, disturbs nobody's files.
LEMMA EndKeepsInv ==
    ASSUME IndInv, TypeOK', NEW p \in Pids, UNCHANGED <<sock, pidfile, overtaken>>,
           \/ Dies(p)
           \/ proc[p] = "unused" /\ Goes(p, "build") /\ UNCHANGED port
    PROVE  IndInv'
<1>1. \E pc \in {"dead", "build"} : proc' = [proc EXCEPT ![p] = pc]
  BY DEF Dies, Goes
<1>2. port' # None => port # None
  BY DEF Dies
<1>3. Owned'
  BY <1>1 DEF IndInv, Owned, TypeOK
<1>4. NobodyRemoves'
  BY <1>1, <1>2 DEF IndInv, NobodyRemoves, Removing, TypeOK
<1>5. PidOfDaemon'
  <2>1. CASE Dies(p)
    BY <2>1, LifecycleAssumption DEF IndInv, PidOfDaemon, Dies, Goes, TypeOK
  <2>2. CASE proc[p] = "unused" /\ Goes(p, "build")
    BY <2>2, LifecycleAssumption DEF IndInv, PidOfDaemon, Goes, TypeOK, Leaving
  <2> QED BY <2>1, <2>2
<1> QED BY <1>3, <1>4, <1>5 DEF IndInv

\* A step of a process keeps the invariant.
LEMMA StepKeepsInv ==
    ASSUME IndInv, TypeOK', NEW p \in Pids, Step(p)
    PROVE  IndInv'
<1> SUFFICES Owned' /\ NobodyRemoves' /\ PidOfDaemon'
  BY DEF IndInv
<1> USE LifecycleAssumption DEF IndInv, Owned, NobodyRemoves, PidOfDaemon
<1>1. CASE Serve(p)
  BY <1>1, EndKeepsInv DEF Serve, At
<1>2. CASE Crash(p)
  BY <1>2, EndKeepsInv DEF Crash
<1>3. CASE Interrupt(p)
  BY <1>3 DEF Interrupt, Goes, TypeOK, Leaving, Removing
<1>4. CASE GivePid(p)
  BY <1>4 DEF GivePid, At, Goes, TypeOK, Leaving, Removing
<1>5. CASE Prepare(p)
  <2>1. \E pc \in {"recover", "http"} : proc' = [proc EXCEPT ![p] = pc]
    BY <1>5, AfterPlaces DEF Prepare, At, GoesOn, Goes
  <2> QED BY <1>5, <2>1 DEF Prepare, At, TypeOK, Leaving, Removing
<1>6. CASE BindHttp(p)
  <2>1. CASE port = None
    <3>1. proc' = [proc EXCEPT ![p] = "unlink"] /\ proc[p] = "http" /\ UNCHANGED <<sock, pidfile>>
      BY <1>6, <2>1, AfterPlaces DEF BindHttp, At, GoesOn, Goes
    <3>2. Removing \subseteq Leaving
      BY DEF Removing, Leaving
    <3>3. ~overtaken' => ~overtaken /\ \A q \in Pids : proc[q] \notin Leaving
      BY <1>6, <2>1 DEF BindHttp, TypeOK
    <3>4. NobodyRemoves'
      BY <3>1, <3>2, <3>3 DEF TypeOK, Removing
    <3>5. Owned'
      BY <3>1, <3>3 DEF TypeOK
    <3>6. PidOfDaemon'
      BY <3>1 DEF TypeOK, Leaving
    <3> QED BY <3>4, <3>5, <3>6
  <2>2. CASE port # None
    <3>1. Dies(p) /\ UNCHANGED <<sock, pidfile, overtaken>>
      BY <1>6, <2>2 DEF BindHttp, TypeOK
    <3> QED BY <3>1, EndKeepsInv
  <2> QED BY <2>1, <2>2
<1>7. CASE UnlinkSocket(p)
  <2>1. /\ proc' = [proc EXCEPT ![p] = "unix"] /\ proc[p] = "unlink"
        /\ UNCHANGED <<port, pidfile, overtaken>>
    BY <1>7, AfterPlaces DEF UnlinkSocket, At, GoesOn, Goes
  <2>2. \A q \in Pids \ {p} : proc[q] \notin {"pid", "serving"}
    BY <2>1 DEF TypeOK
  <2> QED BY <2>1, <2>2 DEF TypeOK, Leaving, Removing
<1>8. CASE BindUnix(p)
  <2>1. CASE sock = None
    <3>1. /\ proc' = [proc EXCEPT ![p] = "pid"] /\ proc[p] = "unix" /\ sock' = p
          /\ UNCHANGED <<port, pidfile, overtaken>>
      BY <1>8, <2>1, AfterPlaces DEF BindUnix, At, GoesOn, Goes
    <3>2. \A q \in Pids \ {p} : proc[q] \notin {"pid", "serving"}
      BY <3>1 DEF TypeOK
    <3> QED BY <3>1, <3>2 DEF TypeOK, Leaving, Removing
  <2>2. CASE sock # None
    BY <1>8, <2>2, EndKeepsInv DEF BindUnix
  <2> QED BY <2>1, <2>2
<1>9. CASE WritePid(p)
  <2>1. /\ proc' = [proc EXCEPT ![p] = "serving"] /\ proc[p] = "pid" /\ pidfile' = p
        /\ UNCHANGED <<port, sock, overtaken>>
    BY <1>9, AfterPlaces DEF WritePid, At, GoesOn, Goes
  <2>2. \A q \in Pids \ {p} : proc[q] \notin {"pid", "serving"}
    BY <2>1 DEF TypeOK
  <2> QED BY <2>1, <2>2 DEF TypeOK, Leaving, Removing
<1>10. CASE Leave(p)
  <2>1. CASE At(p, "close") /\ Goes(p, "remove_socket") /\ port' = None /\ UNCHANGED <<sock, pidfile, overtaken>>
    BY <2>1 DEF At, Goes, TypeOK, Leaving
  <2>2. ASSUME proc[p] \in Removing, proc' = [proc EXCEPT ![p] = IF proc[p] = "remove_socket" THEN "remove_pid" ELSE "dead"],
               UNCHANGED <<port, overtaken>>, pidfile' \in {pidfile, None}
        PROVE  Owned' /\ NobodyRemoves' /\ PidOfDaemon'
    <3>1. ~overtaken => \A q \in Pids : proc[q] \notin Holding
      BY <2>2 DEF TypeOK, Holding
    <3>2. Owned'
      BY <2>2, <3>1 DEF TypeOK, Holding
    <3>3. NobodyRemoves'
      BY <2>2 DEF TypeOK
    <3>4. PidOfDaemon'
      BY <2>2 DEF TypeOK, Leaving
    <3> QED BY <3>2, <3>3, <3>4
  <2> QED BY <1>10, <2>1, <2>2 DEF Leave, At, Goes, Removing
<1> QED BY <1>1, <1>2, <1>3, <1>4, <1>5, <1>6, <1>7, <1>8, <1>9, <1>10 DEF Step

\* The invariant is inductive.
LEMMA InvInductive ==
    ASSUME IndInv, [Next]_vars
    PROVE  IndInv'
<1>1. TypeOK'
  BY TypeInductive DEF IndInv
<1>2. CASE \E p \in Pids : Step(p)
  BY <1>1, <1>2, StepKeepsInv
<1>3. CASE \E s \in Starters : Command(s)
  BY <1>1, <1>3 DEF Command, StartCheck, StartReady, StartGivesUp, CommandAt,
     IndInv, Owned, NobodyRemoves, PidOfDaemon
<1>4. CASE \E s \in Starters : StartSpawn(s)
  BY <1>1, <1>4, EndKeepsInv DEF StartSpawn, CommandAt
<1>5. CASE Stop
  BY <1>1, <1>5, EndKeepsInv DEF Stop, Running, IndInv, TypeOK
<1>6. CASE UNCHANGED vars
  BY <1>1, <1>6 DEF vars, IndInv, Owned, NobodyRemoves, PidOfDaemon
<1> QED BY <1>2, <1>3, <1>4, <1>5, <1>6, NextCases

\* The invariant behind the two properties below.
THEOREM Invariant == Spec => []IndInv
<1>1. Init => IndInv
  <2> SUFFICES ASSUME Init PROVE IndInv
    OBVIOUS
  <2>1. TypeOK
    BY InitTypes
  <2> QED BY <2>1 DEF Init, IndInv, Owned, NobodyRemoves, PidOfDaemon
<1>2. IndInv /\ [Next]_vars => IndInv'
  BY InvInductive
<1> QED BY <1>1, <1>2, PTL DEF Spec

\* A serving daemon has the port, the socket and the pid file, whatever other
\* daemons try and dead ones have left, unless it overtook one that was leaving
\* (serve).
THEOREM Reachable == Spec => []ServingIsReachable
<1>1. IndInv => ServingIsReachable
  BY DEF IndInv, TypeOK, Owned, ServingIsReachable
<1> QED BY <1>1, Invariant, PTL

\* start reports success only beside a daemon that has come up and has not been
\* killed, or beside a program that has the pid of one that was (start, _pid).
THEOREM StartTellsTruth == Spec => StartedIsServing
<1>1. ASSUME IndInv, [Next]_vars, NEW s \in Starters, Succeeds(s)
      PROVE  proc[pidfile] \in {"serving", "other"} \cup Leaving
  <2>1. Running => proc[pidfile] \in {"serving", "other"} \cup Leaving
    <3>1. PidOfDaemon
      BY <1>1 DEF IndInv
    <3> QED BY <3>1 DEF PidOfDaemon, Running, Gone
  <2>2. Running
    <3>1. CASE \E p \in Pids : Step(p)
      BY <1>1, <3>1 DEF Succeeds, Step, Serve, Interrupt, Crash, GivePid, Prepare, BindHttp,
         UnlinkSocket, BindUnix, WritePid, Leave, At
    <3>2. CASE \E r \in Starters : Command(r)
      BY <1>1, <3>2 DEF Succeeds, Command, StartCheck, StartReady, StartGivesUp, CommandAt, IndInv, TypeOK
    <3>3. CASE \E r \in Starters : StartSpawn(r)
      BY <1>1, <3>3 DEF Succeeds, StartSpawn, CommandAt, IndInv, TypeOK
    <3>4. CASE Stop
      BY <3>4 DEF Stop
    <3>5. CASE UNCHANGED vars
      BY <1>1, <3>5 DEF Succeeds, vars
    <3> QED BY <1>1, <3>1, <3>2, <3>3, <3>4, <3>5, NextCases
  <2> QED BY <2>1, <2>2
<1>2. IndInv /\ [Next]_vars =>
        [\A s \in Starters : Succeeds(s) => proc[pidfile] \in {"serving", "other"} \cup Leaving]_vars
  BY <1>1
<1> QED BY <1>2, Invariant, PTL DEF Spec, StartedIsServing

=============================================================================
