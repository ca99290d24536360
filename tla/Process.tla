------------------------------ MODULE Process ------------------------------
(***************************************************************************)
(* The processes of the server program: Application::init(), run() and     *)
(* main() (application.cpp), start_daemon() with its parent that forks the *)
(* server again after a crash (daemon.cpp), and the pid file that is to    *)
(* keep a second server from starting (FSUtil::IsRunningPidFile()).        *)
(*                                                                         *)
(* An instance is one invocation of the program.  With "-d" it is a parent *)
(* and a server process, with "-s" the server alone.  The pid of a server  *)
(* process is its instance and how often that has forked.                  *)
(***************************************************************************)
EXTENDS Integers

CONSTANTS
    Instance,        \* the invocations of the program
    Configured,      \* the instances whose configuration has servers
    MaxCrashes       \* crashes and failed starts of all server processes together

ASSUME ProcessAssumption == Configured \subseteq Instance /\ MaxCrashes \in Nat

VARIABLES
    parent,          \* parent[i]: where init() or the parent of i is
    server,          \* server[i]: where the server process of i is
    forks,           \* forks[i]: the server processes i has had
    pidFile,         \* [kind, pid]: absent, empty, or the pid that was written
    port,            \* the instances whose server has the port (one at most)
    crashes

processVars == <<parent, server, forks, pidFile, port, crashes>>

ParentPc == {"absent", "checked", "fork", "wait", "sleep", "terminal", "refused", "forkError", "finished"}
ServerPc == {"none", "main", "opened", "serving", "finished", "failed", "crashed"}

NoPid == [kind |-> "absent", pid |-> <<>>]

ProcessTypeOK ==
    /\ parent \in [Instance -> ParentPc] /\ server \in [Instance -> ServerPc]
    /\ forks \in [Instance -> Nat]
    /\ pidFile.kind \in {"absent", "empty", "written"}
    /\ port \subseteq Instance /\ crashes \in 0..MaxCrashes

ProcessInit ==
    /\ parent = [i \in Instance |-> "absent"] /\ server = [i \in Instance |-> "none"]
    /\ forks = [i \in Instance |-> 0]
    /\ pidFile = NoPid /\ port = {} /\ crashes = 0

-----------------------------------------------------------------------------
(* Faulty variant: the parent does not look at the status of the child.    *)

AlwaysFinished(i) == "finished"

-----------------------------------------------------------------------------
Running(i) == server[i] \in {"main", "opened", "serving"}

\* The file has a pid and kill(pid, 0) finds that process.
IsRunningPidFile ==
    /\ pidFile.kind = "written"
    /\ \E i \in Instance : Running(i) /\ pidFile.pid = <<i, forks[i]>>

\* init(): the pid file is looked at.  Without "-s" or "-d", or with a bad
\* argument, the help is printed and the program ends, as when a server runs.
InitApp(i) == \E refuse \in {IsRunningPidFile, TRUE} :
    /\ parent[i] = "absent"
    /\ parent' = [parent EXCEPT ![i] = IF refuse THEN "refused" ELSE "checked"]
    /\ UNCHANGED <<server, forks, pidFile, port, crashes>>

\* run() with "-s": this process is the server.
StartTerminal(i) ==
    /\ parent[i] = "checked"
    /\ parent' = [parent EXCEPT ![i] = "terminal"]
    /\ server' = [server EXCEPT ![i] = "main"]
    /\ forks' = [forks EXCEPT ![i] = @ + 1]
    /\ UNCHANGED <<pidFile, port, crashes>>

\* run() with "-d": daemon(1, 0), which may fail.
StartDaemon(i) == \E ok \in BOOLEAN :
    /\ parent[i] = "checked"
    /\ parent' = [parent EXCEPT ![i] = IF ok THEN "fork" ELSE "forkError"]
    /\ UNCHANGED <<server, forks, pidFile, port, crashes>>

\* fork(), which may fail: then the parent returns -1.
Fork(i) == \E ok \in BOOLEAN :
    /\ parent[i] = "fork"
    /\ parent' = [parent EXCEPT ![i] = IF ok THEN "wait" ELSE "forkError"]
    /\ IF ok THEN /\ server' = [server EXCEPT ![i] = "main"]
                  /\ forks' = [forks EXCEPT ![i] = @ + 1]
             ELSE UNCHANGED <<server, forks>>
    /\ UNCHANGED <<pidFile, port, crashes>>

\* What waitpid()'s status makes of the parent: a status of 0 ends it too.
AfterChild(i) == IF server[i] = "finished" THEN "finished" ELSE "sleep"

WaitPid(i) ==
    /\ parent[i] = "wait" /\ server[i] \in {"finished", "failed", "crashed"}
    /\ parent' = [parent EXCEPT ![i] = AfterChild(i)]
    /\ UNCHANGED <<server, forks, pidFile, port, crashes>>

\* sleep(daemon.restart_interval) is over.
Restart(i) ==
    /\ parent[i] = "sleep"
    /\ parent' = [parent EXCEPT ![i] = "fork"]
    /\ UNCHANGED <<server, forks, pidFile, port, crashes>>

\* main() opens the pid file, which empties it; the pid stays in the buffer of
\* the stream.  If it cannot be opened main() returns -1.
OpenPidFile(i) == \E ok \in BOOLEAN :
    /\ server[i] = "main" /\ (ok \/ crashes < MaxCrashes)
    /\ server' = [server EXCEPT ![i] = IF ok THEN "opened" ELSE "failed"]
    /\ pidFile' = IF ok THEN [kind |-> "empty", pid |-> <<>>] ELSE pidFile
    /\ crashes' = IF ok THEN crashes ELSE crashes + 1
    /\ UNCHANGED <<parent, forks, port>>

\* run_coroutine(): bind and start the servers; _exit(0) if the port is taken.
\* The IOManager does not stop while they wait for connections.
StartServers(i) ==
    /\ server[i] = "opened" /\ i \in Configured
    /\ server' = [server EXCEPT ![i] = IF port = {} THEN "serving" ELSE "finished"]
    /\ port' = IF port = {} THEN {i} ELSE port
    /\ UNCHANGED <<parent, forks, pidFile, crashes>>

\* Without a server in the configuration stop() returns, main() returns 0 and
\* the stream of the pid file is flushed.
MainReturns(i) ==
    /\ server[i] = "opened" /\ i \notin Configured
    /\ server' = [server EXCEPT ![i] = "finished"]
    /\ pidFile' = [kind |-> "written", pid |-> <<i, forks[i]>>]
    /\ UNCHANGED <<parent, forks, port, crashes>>

\* The server process ends by a signal or a failed assertion.
CrashServer(i) ==
    /\ Running(i) /\ crashes < MaxCrashes
    /\ server' = [server EXCEPT ![i] = "crashed"]
    /\ port' = port \ {i}
    /\ crashes' = crashes + 1
    /\ UNCHANGED <<parent, forks, pidFile>>

ProcessStep(i) == WaitPid(i) \/ Restart(i) \/ Fork(i)

ProcessNext == \E i \in Instance :
    \/ InitApp(i) \/ StartTerminal(i) \/ StartDaemon(i)
    \/ Fork(i) \/ WaitPid(i) \/ Restart(i)
    \/ OpenPidFile(i) \/ StartServers(i) \/ MainReturns(i) \/ CrashServer(i)

\* The parent is woken by the end of its child and by the end of its sleep.
ProcessFairness == \A i \in Instance : WF_processVars(ProcessStep(i))

-----------------------------------------------------------------------------
(* Properties.                                                             *)

\* A server process that crashed, or could not start, under a parent is started
\* again, whatever the other instances do, unless fork() fails (daemon.cpp:79-116).
CrashRestarts == \A i \in Instance :
    (parent[i] = "wait" /\ server[i] \in {"crashed", "failed"})
        ~> (server[i] = "main" \/ parent[i] = "forkError")

\* "server is running!" (application.cpp:189): a second instance is refused
\* while a server is up.
OneServer == [][ \A i, j \in Instance :
    (parent[i] = "absent" /\ parent'[i] = "checked") => server[j] # "serving" ]_processVars

-----------------------------------------------------------------------------
(* The specification without fairness, and its invariant.                  *)

ProcessSpec == ProcessInit /\ [][ProcessNext]_processVars

\* A parent that sleeps or forks has no server process; an instance that never got
\* past init() never had one.
ParentsAlone == \A i \in Instance :
    /\ parent[i] \in {"absent", "checked", "refused"} => server[i] = "none" /\ forks[i] = 0
    /\ parent[i] \in {"fork", "sleep", "forkError"} => server[i] \in {"none", "failed", "crashed"}

\* The pid in the file is that of a process that has ended: the stream it was
\* written to is flushed when main() returns.
PidEnded == pidFile.kind = "written" =>
    \E i \in Instance : \E k \in 0..forks[i] :
        pidFile.pid = <<i, k>> /\ (k = forks[i] => server[i] = "finished")

\* The port belongs to the server that serves, and there is one at most.
PortOwned ==
    /\ port = {i \in Instance : server[i] = "serving"}
    /\ \A i, j \in port : i = j

ProcessInv == ProcessTypeOK /\ ParentsAlone /\ PidEnded /\ PortOwned

\* No instance is ever refused for the sake of a server that runs: a server's pid
\* reaches the file only when the server is over (application.cpp:189, :234-248).
NobodyRefused == ~IsRunningPidFile

\* A parent forks a server process only when it has none, so that no instance ever
\* has two (daemon.cpp:79-116).
OneChild == [][\A i \in Instance : forks'[i] # forks[i] => ~Running(i)]_processVars

=============================================================================
