------------------------------ MODULE XrayCore ------------------------------
(***************************************************************************)
(* The life of one Xray object (src/backend/xray/xray.go, core.go,         *)
(* jobs.go): New, requests that restart the process, the health check,     *)
(* Shutdown, and the operating system's processes under them.              *)
(*                                                                         *)
(* x.mu is the variable mux.  c.mu is held for a whole step, and by a      *)
(* Stop that waits for its process across steps (see CoreFree).  Started   *)
(* is read without a lock, as in the code.  A node that is killed leaves   *)
(* its Xray behind, which init then owns.                                  *)
(***************************************************************************)
EXTENDS Integers, FiniteSets

CONSTANTS
    Pids,           \* process ids; an id is used again once it has been reaped
    Clients,        \* request goroutines that restart the process (SyncUsers)
    MaxFailures,    \* maxFailures of checkXrayHealth, 10 in the code
    None            \* no process, no lock holder

ASSUME XrayCoreAssumption ==
    /\ None \notin Pids \cup Clients
    /\ MaxFailures \in Nat \ {0}
    /\ Clients \cap {"owner", "health"} = {}

Threads == Clients \cup {"owner", "health"}

VARIABLES
    proc,       \* pid -> "none", "boot", "ready" or "zombie"
    killed,     \* pids that were sent SIGKILL and are not reaped yet
    orphans,    \* Xray processes of an earlier node, now children of init
    mine,       \* the processes this object has started: they share its API port
    socket,     \* the file of a unix socket inbound exists
    process,    \* c.process
    exited,     \* c.process.ProcessState # nil: Wait has returned
    stopping,   \* c.stopping
    restarting, \* c.restarting
    exits,      \* exit handlers that have not run: the pid and whether it was killed
    reported,   \* exits logged as unexpected: whether the node had killed the process
    startup,    \* log phase and startup diagnostics: TRUE from Start on
    failure,    \* c.startupFailure # ""
    mux,        \* holder of x.mu
    pc,         \* where each goroutine is
    failures,   \* consecutiveFailures of the health check
    cancelled,  \* x.cancelFunc was called
    life,       \* "none", "checking" (in New), "up", "closed"
    good        \* Xray accepts the config

osVars == <<proc, killed, orphans, mine, socket>>
coreVars == <<process, exited, stopping, restarting, exits, reported, startup, failure>>
vars == <<proc, killed, orphans, mine, socket, process, exited, stopping, restarting,
          exits, reported, startup, failure, mux, pc, failures, cancelled, life, good>>

Alive(p) == proc[p] \in {"boot", "ready"}
Own(p) == Alive(p) /\ p \notin orphans

(* No Stop is waiting, so c.mu can be taken.                               *)
CoreFree == \A t \in Threads : pc[t] # "wait"

Goto(t, l) == pc' = [pc EXCEPT ![t] = l]

(* c.Started()                                                             *)
Started == process # None /\ ~exited

(* The API of this object answers: one of its processes is up.             *)
Answers == \E p \in mine : proc[p] = "ready"
-----------------------------------------------------------------------------
(* The operating system and the Xray program.                              *)

(* Ports and the socket file of the inbounds can be bound.                 *)
CanListen == ~socket /\ \A q \in Pids : proc[q] # "ready"

BootReady(p) ==
    /\ proc[p] = "boot" /\ p \notin killed
    /\ p \in mine => good
    /\ CanListen
    /\ proc' = [proc EXCEPT ![p] = "ready"]
    /\ socket' = TRUE
    /\ UNCHANGED <<killed, orphans, mine, coreVars, mux, pc, failures, cancelled, life, good>>

(* captureProcessLogs, RecordStartupLog: a failure line counts when it is  *)
(* read in the startup phase, by the reader that the last Start made.      *)
Recorded(p) == startup /\ p = process

(* An Xray that cannot listen or refuses its config logs why and exits;    *)
(* Wait closes the pipe, so the line may be lost.                          *)
BootFails(p) ==
    /\ proc[p] = "boot" /\ p \notin killed
    /\ (p \in mine => ~good) \/ ~CanListen
    /\ proc' = [proc EXCEPT ![p] = IF p \in orphans THEN "none" ELSE "zombie"]
    /\ orphans' = orphans \ {p}
    /\ \E seen \in BOOLEAN : failure' = (failure \/ (seen /\ Recorded(p)))
    /\ UNCHANGED <<killed, mine, socket, process, exited, stopping, restarting, exits,
                   reported, startup, mux, pc, failures, cancelled, life, good>>

(* Xray dies of a signal or by itself; init reaps at once, the socket file *)
(* stays.                                                                  *)
Dies(p) ==
    /\ Alive(p) /\ (p \in killed \/ proc[p] = "ready")
    /\ proc' = [proc EXCEPT ![p] = IF p \in orphans THEN "none" ELSE "zombie"]
    /\ orphans' = orphans \ {p}
    /\ killed' = IF p \in orphans THEN killed \ {p} ELSE killed
    /\ UNCHANGED <<mine, socket, coreVars, mux, pc, failures, cancelled, life, good>>

(* cmd.Wait returns and waitDone is closed.                                *)
Reap(p) ==
    /\ proc[p] = "zombie"
    /\ proc' = [proc EXCEPT ![p] = "none"]
    /\ killed' = killed \ {p} /\ mine' = mine \ {p}
    /\ exits' = exits \cup {[pid |-> p, killed |-> p \in killed]}
    /\ exited' = (exited \/ p = process)
    /\ UNCHANGED <<orphans, socket, process, stopping, restarting, reported, startup,
                   failure, mux, pc, failures, cancelled, life, good>>

(* Faulty variant: only the stopping flag is looked at.                    *)
UnexpectedUnlessStopping(p) == ~stopping

(* ~expected in handleProcessExit                                          *)
Unexpected(p) == ~stopping /\ process = p

(* handleProcessExit; its message has none of the failure keywords.        *)
HandleExit(e) ==
    /\ CoreFree
    /\ exits' = exits \ {e}
    /\ reported' = reported \cup (IF Unexpected(e.pid) THEN {e.killed} ELSE {})
    /\ UNCHANGED <<osVars, process, exited, stopping, restarting, startup, failure,
                   mux, pc, failures, cancelled, life, good>>
-----------------------------------------------------------------------------
(* What /proc shows of the processes that run this executable.             *)
findXrayProcesses ==
    {[pid |-> p, zombie |-> proc[p] = "zombie",
      parent |-> IF p \in orphans THEN "init" ELSE "node"] :
        p \in {q \in Pids : proc[q] # "none"}}

(* Faulty variant: nothing is cleaned up.                                  *)
NoLeftovers == {}

(* Faulty variant: every process that runs this executable.                *)
AllXrays == {i.pid : i \in findXrayProcesses}

(* The processes that Start kills: children of this node, and zombies of   *)
(* init.                                                                   *)
cleanupOrphanedProcesses ==
    {i.pid : i \in {j \in findXrayProcesses :
                        \/ j.parent = "node"
                        \/ j.zombie /\ j.parent = "init"}}

(* Signals reach processes that are alive, whether they die of them in the *)
(* second it waits or later.                                               *)
killProcessTree(S) == killed' = killed \cup {p \in S : Alive(p)}

(* EnableStartupDiagnostics and setStartupLogPhase.                        *)
EnableStartupDiagnostics == startup' = TRUE /\ failure' = FALSE

SwitchToRuntimeLogPhase == startup' = FALSE /\ failure' = FALSE

(* The config has one unix socket inbound; its file is removed.            *)
removeUnixSocketFiles == socket' = FALSE

(* The part of Start before cmd.Start.                                     *)
Prepare ==
    /\ EnableStartupDiagnostics
    /\ killProcessTree(cleanupOrphanedProcesses)
    /\ removeUnixSocketFiles

(* The end of Start: a new process and its watcher, next to those that     *)
(* this object started earlier.                                            *)
Launch(p, earlier) ==
    /\ proc[p] = "none" /\ \A e \in exits : e.pid # p
    /\ Prepare
    /\ proc' = [proc EXCEPT ![p] = "boot"]
    /\ mine' = earlier \cup {p}
    /\ process' = p /\ exited' = FALSE /\ stopping' = FALSE
    /\ UNCHANGED <<orphans, exits, reported>>

(* Start fails after it has cleaned up (pipe, log files, cmd.Start).       *)
LaunchFails ==
    /\ Prepare
    /\ process' = None /\ exited' = FALSE
    /\ UNCHANGED <<proc, orphans, mine, stopping, exits, reported>>

(* The end of Stop.                                                        *)
Stopped ==
    /\ process' = None /\ exited' = FALSE /\ stopping' = FALSE
    /\ removeUnixSocketFiles
    /\ SwitchToRuntimeLogPhase
    /\ UNCHANGED <<proc, killed, orphans, mine, restarting, exits, reported>>

AfterStop(t) == IF restarting THEN "start" ELSE "close"

(* Stop takes c.mu and kills a process that has not been reaped.           *)
StopKill(t) ==
    /\ pc[t] = "stop" /\ CoreFree
    /\ IF Started
       THEN /\ killProcessTree({process})
            /\ stopping' = TRUE
            /\ Goto(t, "wait")
            /\ UNCHANGED <<proc, orphans, mine, socket, process, exited, restarting,
                           exits, reported, startup, failure>>
       ELSE Stopped /\ Goto(t, AfterStop(t))
    /\ UNCHANGED <<mux, failures, cancelled, life, good>>

(* The watcher has closed waitDone, or the time is up.                     *)
StopDone(t) ==
    /\ pc[t] = "wait"
    /\ Stopped
    /\ Goto(t, AfterStop(t))
    /\ UNCHANGED <<mux, failures, cancelled, life, good>>
-----------------------------------------------------------------------------
(* Where a goroutine goes on after x.Restart: a request to its own         *)
(* checkXrayStatus, the health check to its next turn.                     *)
AfterRestart(t) == IF t = "health" THEN "top" ELSE "check"

(* x.Restart takes x.mu, core.Restart sets its flag.                       *)
RestartLock(t) ==
    /\ pc[t] = "restart" /\ mux = None /\ CoreFree
    /\ mux' = t
    /\ restarting' = TRUE
    /\ Goto(t, "stop")
    /\ UNCHANGED <<osVars, process, exited, stopping, exits, reported, startup, failure,
                   failures, cancelled, life, good>>

RestartLaunches(t) ==
    /\ pc[t] = "start" /\ CoreFree
    /\ \E p \in Pids : Launch(p, mine)
    /\ restarting' = FALSE /\ mux' = None
    /\ failures' = IF t = "health" THEN 0 ELSE failures
    /\ Goto(t, AfterRestart(t))
    /\ UNCHANGED <<cancelled, life, good>>

RestartFails(t) ==
    /\ pc[t] = "start" /\ CoreFree
    /\ LaunchFails
    /\ restarting' = FALSE /\ mux' = None
    /\ Goto(t, IF t = "health" THEN "top" ELSE "idle")
    /\ UNCHANGED <<failures, cancelled, life, good>>

(* A request restarts the process of the backend it got hold of.           *)
ClientRestart(t) ==
    /\ pc[t] = "idle" /\ life = "up"
    /\ Goto(t, "restart")
    /\ UNCHANGED <<osVars, coreVars, mux, failures, cancelled, life, good>>
-----------------------------------------------------------------------------
(* New starts its own core; no goroutine of an earlier object is left.     *)
New ==
    /\ life \in {"none", "closed"} /\ mux = None /\ CoreFree
    /\ \A t \in Threads : pc[t] = "idle"
    /\ \E p \in Pids : Launch(p, {})
    /\ good' \in BOOLEAN
    /\ life' = "checking" /\ cancelled' = FALSE /\ failures' = 0
    /\ Goto("owner", "check")
    /\ UNCHANGED <<restarting, mux>>

(* What checkXrayStatus leads to: New goes on to the health check or to    *)
(* Shutdown, a request returns.                                            *)
CheckPassed(t) ==
    IF t = "owner"
    THEN life' = "up" /\ pc' = [pc EXCEPT !["owner"] = "idle", !["health"] = "top"]
    ELSE Goto(t, "idle") /\ UNCHANGED life

CheckRefused(t) == Goto(t, IF t = "owner" THEN "shutdown" ELSE "idle") /\ UNCHANGED life

(* The API answers.                                                        *)
CheckOK(t) ==
    /\ pc[t] = "check" /\ life # "closed" /\ Answers
    /\ CheckPassed(t)
    /\ SwitchToRuntimeLogPhase
    /\ UNCHANGED <<osVars, process, exited, stopping, restarting, exits, reported, mux,
                   failures, cancelled, good>>

LatestStartupFailure == startup /\ failure

(* Faulty variant: only the log is consulted.                              *)
StartFailedInLog == LatestStartupFailure

(* The process logged a failure, or is gone before its API answered.       *)
StartFailed == LatestStartupFailure \/ ~Started

CheckFails(t) ==
    /\ pc[t] = "check" /\ life # "closed" /\ StartFailed
    /\ CheckRefused(t)
    /\ UNCHANGED <<osVars, coreVars, mux, failures, cancelled, good>>

(* The request is cancelled, or it panics on the closed API client and the *)
(* router recovers.                                                        *)
CheckCancelled(t) ==
    /\ pc[t] = "check"
    /\ CheckRefused(t)
    /\ UNCHANGED <<osVars, coreVars, mux, failures, cancelled, good>>
-----------------------------------------------------------------------------
(* checkXrayHealth: one turn of the loop is Top, Probe, and a restart.     *)
HealthTop ==
    /\ pc["health"] = "top"
    /\ Goto("health", IF cancelled THEN "idle" ELSE "ask")
    /\ UNCHANGED <<osVars, coreVars, mux, failures, cancelled, life, good>>

HealthAsk ==
    /\ pc["health"] = "ask" /\ CoreFree
    /\ IF restarting
       THEN failures' = 0 /\ Goto("health", "top")
       ELSE UNCHANGED failures /\ Goto("health", "probe")
    /\ UNCHANGED <<osVars, coreVars, mux, cancelled, life, good>>

HealthOK ==
    /\ pc["health"] = "probe" /\ Answers /\ ~cancelled
    /\ failures' = 0
    /\ Goto("health", "top")
    /\ UNCHANGED <<osVars, coreVars, mux, cancelled, life, good>>

(* Faulty variant: a process that is gone is not looked for.               *)
NeedsRestartIfSlow(n) == Started /\ n >= MaxFailures

NeedsRestart(n) == ~Started \/ n >= MaxFailures

(* A failed call, also one of a cancelled context: GetSysStats wraps the   *)
(* error, so errors.Is(err, context.Canceled) is false.  It counts only    *)
(* while the client is open: see HealthPanics.                             *)
HealthFails ==
    /\ pc["health"] = "probe" /\ life # "closed"
    /\ LET n == IF failures < MaxFailures THEN failures + 1 ELSE MaxFailures
       IN  /\ failures' = n
           /\ Goto("health", IF NeedsRestart(n) THEN "restart" ELSE "top")
    /\ UNCHANGED <<osVars, coreVars, mux, cancelled, life, good>>
-----------------------------------------------------------------------------
(* Shutdown of a backend that is up.                                       *)
Shutdown ==
    /\ life = "up" /\ pc["owner"] = "idle"
    /\ Goto("owner", "shutdown")
    /\ UNCHANGED <<osVars, coreVars, mux, failures, cancelled, life, good>>

ShutdownLock ==
    /\ pc["owner"] = "shutdown" /\ mux = None
    /\ mux' = "owner"
    /\ cancelled' = TRUE
    /\ Goto("owner", "stop")
    /\ UNCHANGED <<osVars, coreVars, failures, life, good>>

(* handler.Close(); a nil client from here on.                             *)
ShutdownClose ==
    /\ pc["owner"] = "close"
    /\ life' = "closed" /\ mux' = None
    /\ Goto("owner", "idle")
    /\ UNCHANGED <<osVars, coreVars, failures, cancelled, good>>

(* The agent is killed, or its health check calls a client that Shutdown   *)
(* has closed and panics.  Xray has its own process group and survives.    *)
NodeDies ==
    /\ life # "none" /\ orphans = {}
    /\ orphans' = {p \in Pids : Alive(p)} /\ mine' = {}
    /\ proc' = [p \in Pids |-> IF Alive(p) THEN proc[p] ELSE "none"]
    /\ killed' = {p \in killed : Alive(p)}
    /\ process' = None /\ exited' = FALSE /\ stopping' = FALSE /\ restarting' = FALSE
    /\ exits' = {} /\ reported' = {} /\ startup' = FALSE /\ failure' = FALSE
    /\ mux' = None /\ pc' = [t \in Threads |-> "idle"]
    /\ failures' = 0 /\ cancelled' = FALSE /\ life' = "none"
    /\ UNCHANGED <<socket, good>>

HealthPanics == pc["health"] = "probe" /\ life = "closed" /\ NodeDies
-----------------------------------------------------------------------------
Init ==
    /\ proc = [p \in Pids |-> "none"]
    /\ killed = {} /\ orphans = {} /\ mine = {} /\ socket = FALSE
    /\ process = None /\ exited = FALSE /\ stopping = FALSE /\ restarting = FALSE
    /\ exits = {} /\ reported = {} /\ startup = FALSE /\ failure = FALSE
    /\ mux = None /\ pc = [t \in Threads |-> "idle"]
    /\ failures = 0 /\ cancelled = FALSE /\ life = "none" /\ good = TRUE

Thread(t) ==
    \/ StopKill(t) \/ StopDone(t)
    \/ RestartLock(t) \/ RestartLaunches(t) \/ RestartFails(t)
    \/ CheckOK(t) \/ CheckFails(t) \/ CheckCancelled(t)

Health == HealthTop \/ HealthAsk \/ HealthOK \/ HealthFails

Next ==
    \/ \E p \in Pids : BootReady(p) \/ BootFails(p) \/ Dies(p) \/ Reap(p)
    \/ \E e \in exits : HandleExit(e)
    \/ \E t \in Threads : Thread(t)
    \/ \E t \in Clients : ClientRestart(t)
    \/ New \/ Shutdown \/ ShutdownLock \/ ShutdownClose
    \/ Health \/ HealthPanics \/ NodeDies

Spec == Init /\ [][Next]_vars

(* Goroutines run and the health check gets x.mu in its turn; killed       *)
(* processes die, and exits are seen; of repeated starts some get past     *)
(* cmd.Start, and some finish booting before the next restart.             *)
FairSpec ==
    /\ Spec
    /\ WF_vars(Health) /\ WF_vars(ShutdownLock \/ ShutdownClose)
    /\ WF_vars(CheckOK("owner") \/ CheckFails("owner"))
    /\ WF_vars(\E t \in Threads : StopKill(t) \/ StopDone(t)
                                   \/ RestartLaunches(t) \/ RestartFails(t))
    /\ SF_vars(RestartLock("health"))
    /\ SF_vars(\E t \in Threads : RestartLaunches(t))
    /\ SF_vars(\E p \in mine : BootReady(p))
    /\ \A p \in Pids : WF_vars(\/ p \in killed /\ Dies(p)
                              \/ Reap(p) \/ BootFails(p)
                              \/ \E e \in exits : e.pid = p /\ HandleExit(e))
-----------------------------------------------------------------------------
(* Whatever restarts, health checks and failed kills interleave, at most   *)
(* one Xray of this node is meant to run: all others have been killed.     *)
OneOwnProcess == Cardinality({p \in Pids : Own(p) /\ p \notin killed}) <= 1

(* Start's cleanup only kills processes of this node, never one that       *)
(* another node (or an earlier run of this one) left behind.               *)
OnlyOwnKilled == [][\A p \in orphans : p \in killed' => p \in killed]_vars

(* handleProcessExit never reports the exit of a process that Stop or      *)
(* Start itself has killed as unexpected.                                  *)
NoFalseAlarm == TRUE \notin reported

(* New comes to an end: an Xray that refuses its config, cannot listen or  *)
(* dies without a word ends in an error, not in an endless check.          *)
StartEnds == (life = "checking") ~> (life # "checking")

(* While the backend is up, a process that is gone is replaced by one that *)
(* answers, unless an orphan holds its ports.                              *)
HealedEventually ==
    (life = "up" /\ ~Answers) ~> (Answers \/ life # "up" \/ orphans # {})

(* Once Shutdown has returned no Xray of this node is meant to run.        *)
ShutdownIsFinal ==
    life = "closed" => \A p \in Pids : Own(p) => p \in killed
=============================================================================
