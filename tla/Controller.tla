----------------------------- MODULE Controller -----------------------------
(***************************************************************************)
(* A node with one backend, driven by panels over REST or gRPC             *)
(* (src/controller/controller.go, src/controller/rest, src/controller/rpc, *)
(* src/cmd/node/main.go).  Every request runs in a goroutine of its own,   *)
(* every session started with a keep-alive has a tracker goroutine, and    *)
(* the main goroutine disconnects at the end (it counts as one more that   *)
(* serves).  Each step is what one goroutine does between two points where *)
(* another can run: Disconnect in particular is three steps.  Backends are  *)
(* black boxes that run or not.                                            *)
(***************************************************************************)
EXTENDS Integers, FiniteSets

CONSTANTS
    Clients,    \* goroutines that serve requests
    MaxStarts   \* bound: backends started, which number backends and sessions

ASSUME ControllerAssumption ==
    MaxStarts \in Nat /\ IsFiniteSet(Clients) /\ Clients \intersect Nat = {}

Sessions == 1..MaxStarts
Threads == Clients \union Sessions

VARIABLES
    backend,    \* the current backend, 0 for nil
    up,         \* backends that run
    starts,     \* backends started so far
    cancelFunc, \* the session c.cancelFunc ends
    alive,      \* sessions whose context is not cancelled
    trackers,   \* sessions whose keepAliveTracker runs
    kept,       \* history: live sessions started with a keep-alive
    fresh,      \* whether the last request is within the keep-alive
    pc,         \* goroutine -> [at, method, b]
    raced       \* history: two starts, stops or timeouts have overlapped

ctlVars == <<backend, up, starts, cancelFunc, alive, trackers, kept, fresh, pc, raced>>

Idle == [at |-> "idle", method |-> "", b |-> 0]

(* Whether checkBackendMiddleware lets a request on a backend pass         *)
checkBackend == backend \in up

(* Threads in the middle of a start or a Disconnect                        *)
Changing(at) == {t \in Threads : at[t].at \in {"start", "connect", "cancel", "shutdown", "clear"}}

Done(t) == pc' = [pc EXCEPT ![t] = Idle] /\ UNCHANGED raced

Serving == \A c \in Clients : pc[c].at # "gone"

session == <<cancelFunc, alive, trackers, kept>>
-----------------------------------------------------------------------------
(* Requests.  One without the node's API key is refused before this.       *)

Arrive(c, method, at) ==
    /\ pc[c] = Idle
    /\ pc' = [pc EXCEPT ![c] = [at |-> at, method |-> method, b |-> 0]]
    /\ raced' = (raced \/ Cardinality(Changing(pc')) > 1)
    /\ UNCHANGED <<backend, up, starts, session, fresh>>

(* Faulty variant: the previous backend is not taken away.                 *)
StartWithoutTakeover(c) == Arrive(c, "Start", "start")

(* Start: a backend there is is disconnected first.                        *)
Start(c) == Arrive(c, "Start", IF backend # 0 THEN "cancel" ELSE "start")

Stop(c) == checkBackend /\ Arrive(c, "Stop", "cancel")

(* A method that uses s.Backend() as it is: the syncs and the statistics   *)
Call(c) == checkBackend /\ Arrive(c, "Call", "call")

(* A successful answer counts as a request of the panel.                   *)
NewRequest == fresh' = TRUE

(* BaseInfoResponse, SystemStats and OutboundsLatency take no backend as   *)
(* well as one.                                                            *)
Snapshot == NewRequest /\ UNCHANGED <<backend, up, starts, session, pc, raced>>

StartBackend(c) ==
    /\ pc[c].at = "start" /\ starts < MaxStarts
    /\ starts' = starts + 1
    /\ backend' = starts + 1 /\ up' = up \union {starts + 1}
    /\ pc' = [pc EXCEPT ![c] = [@ EXCEPT !.at = "connect", !.b = starts + 1]]
    /\ UNCHANGED <<session, fresh, raced>>

StartBackendFails(c) ==
    /\ pc[c].at = "start"
    /\ Done(c)
    /\ UNCHANGED <<backend, up, starts, session, fresh>>

Connect(c, keepAlive) ==
    /\ pc[c].at = "connect"
    /\ cancelFunc' = pc[c].b /\ alive' = alive \union {pc[c].b}
    /\ IF keepAlive THEN /\ trackers' = trackers \union {pc[c].b}
                         /\ kept' = kept \union {pc[c].b}
       ELSE UNCHANGED <<trackers, kept>>
    /\ fresh' = TRUE
    /\ Done(c)
    /\ UNCHANGED <<backend, up, starts>>

(* A call on the backend read anew: it answers or returns an error.        *)
CallBackend(c) ==
    /\ pc[c].at = "call" /\ backend # 0
    /\ NewRequest \/ UNCHANGED fresh
    /\ Done(c)
    /\ UNCHANGED <<backend, up, starts, session>>

(* The backend was cleared after the check: REST recovers the panic.       *)
CallNil(c) ==
    /\ pc[c].at = "call" /\ backend = 0
    /\ Done(c)
    /\ UNCHANGED <<backend, up, starts, session, fresh>>

(* The same over gRPC ends the process; it is started again.               *)
CallNilPanics(c) ==
    /\ pc[c].at = "call" /\ backend = 0
    /\ pc' = [t \in Threads |-> Idle]
    /\ up' = {} /\ cancelFunc' = 0 /\ alive' = {} /\ trackers' = {} /\ kept' = {}
    /\ fresh' = FALSE /\ raced' = FALSE
    /\ UNCHANGED <<backend, starts>>

-----------------------------------------------------------------------------
(* Disconnect, in three steps of the goroutine that calls it                *)

CancelAndRead(t) ==
    /\ pc[t].at = "cancel"
    /\ alive' = alive \ {cancelFunc} /\ kept' = kept \ {cancelFunc}
    /\ pc' = [pc EXCEPT ![t] = [@ EXCEPT !.at = "shutdown", !.b = backend]]
    /\ UNCHANGED <<backend, up, starts, cancelFunc, trackers, fresh, raced>>

ShutdownBackend(t) ==
    /\ pc[t].at = "shutdown"
    /\ up' = up \ {pc[t].b}
    /\ pc' = [pc EXCEPT ![t].at = "clear"]
    /\ UNCHANGED <<backend, starts, session, fresh, raced>>

(* Where the caller of Disconnect goes on; a tracker goes on watching.     *)
Resume(t) ==
    CASE pc[t].method = "Start" -> [pc[t] EXCEPT !.at = "start", !.b = 0]
      [] pc[t].method = "Exit" -> [pc[t] EXCEPT !.at = "gone", !.b = 0]
      [] OTHER -> Idle

(* Faulty variant: the backend that was shut down stays the current one.   *)
KeepBackend(t) ==
    /\ pc[t].at = "clear"
    /\ fresh' = (fresh \/ pc[t].method = "Stop")
    /\ pc' = [pc EXCEPT ![t] = Resume(t)]
    /\ UNCHANGED <<backend, up, starts, session, raced>>

ClearBackend(t) ==
    /\ pc[t].at = "clear"
    /\ backend' = 0
    /\ fresh' = (fresh \/ pc[t].method = "Stop")
    /\ pc' = [pc EXCEPT ![t] = Resume(t)]
    /\ UNCHANGED <<up, starts, session, raced>>
-----------------------------------------------------------------------------
(* keepAliveTracker.  Its select may take the tick although the context is *)
(* already cancelled.                                                      *)

TimePasses ==
    /\ fresh /\ fresh' = FALSE
    /\ UNCHANGED <<backend, up, starts, session, pc, raced>>

Tick(s) ==
    /\ s \in trackers /\ pc[s] = Idle /\ ~fresh
    /\ pc' = [pc EXCEPT ![s] = [at |-> "cancel", method |-> "Tick", b |-> 0]]
    /\ raced' = (raced \/ Cardinality(Changing(pc')) > 1)
    /\ UNCHANGED <<backend, up, starts, session, fresh>>

(* Faulty variant: the tracker also ends when a request was in time.       *)
EndsWhenFresh(s) ==
    /\ s \in trackers /\ pc[s] = Idle /\ (s \notin alive \/ fresh)
    /\ trackers' = trackers \ {s}
    /\ UNCHANGED <<backend, up, starts, cancelFunc, alive, kept, fresh, pc, raced>>

TrackerEnds(s) ==
    /\ s \in trackers /\ pc[s] = Idle /\ s \notin alive
    /\ trackers' = trackers \ {s}
    /\ UNCHANGED <<backend, up, starts, cancelFunc, alive, kept, fresh, pc, raced>>

(* A signal: the server is shut down, waiting ten seconds at most for its  *)
(* requests, and the deferred Disconnect runs.                             *)
Exit(c) == Arrive(c, "Exit", "cancel")
-----------------------------------------------------------------------------
CtlInit ==
    /\ backend = 0 /\ up = {} /\ starts = 0
    /\ cancelFunc = 0 /\ alive = {} /\ trackers = {} /\ kept = {}
    /\ fresh = FALSE
    /\ pc = [t \in Threads |-> Idle]
    /\ raced = FALSE

Disconnect(t) == CancelAndRead(t) \/ ShutdownBackend(t) \/ ClearBackend(t)

Request(c) == Start(c) \/ Stop(c) \/ Call(c) \/ Exit(c)

Handle(c) ==
    \/ StartBackend(c) \/ StartBackendFails(c)
    \/ \E keepAlive \in BOOLEAN : Connect(c, keepAlive)
    \/ CallBackend(c) \/ CallNil(c) \/ CallNilPanics(c)

Tracker(s) == Tick(s) \/ TrackerEnds(s)

CtlNext ==
    /\ Serving
    /\ \/ \E c \in Clients : Request(c) \/ Handle(c)
       \/ \E t \in Threads : Disconnect(t)
       \/ \E s \in Sessions : Tracker(s)
       \/ TimePasses \/ Snapshot

(* Goroutines that can run do run, and the ticker keeps ticking.           *)
CtlFairness ==
    /\ \A t \in Threads : WF_ctlVars(Serving /\ Disconnect(t))
    /\ \A c \in Clients : WF_ctlVars(Serving /\ Handle(c))
    /\ \A s \in Sessions : WF_ctlVars(Serving /\ Tracker(s))

(* Whatever requests, timeouts and the exit interleave, a backend that was *)
(* shut down is the current one only until the Disconnect that shut it     *)
(* down has cleared it: no request finds a dead backend for good.          *)
CurrentBackendUsable ==
    backend # 0 /\ backend \notin up => \E t \in Threads : pc[t].at = "clear"

(* As long as no two of the starts, stops and timeouts overlap, no backend *)
(* but the current one runs, and no session but the one cancelFunc ends is *)
(* alive: a Start takes control away from the previous panel, a failed     *)
(* one leaves nothing behind, and after the exit nothing runs.             *)
OneBackendAtATime == ~raced => up \subseteq {backend} /\ alive \subseteq {cancelFunc}

(* A session with a keep-alive whose panel falls silent is ended: its      *)
(* tracker does not stop watching before the session is over.              *)
KeepAliveEnds ==
    \A s \in Sessions :
        s \in kept /\ ~fresh /\ backend # 0
            ~> fresh \/ backend = 0 \/ s \notin kept \/ ~Serving
=============================================================================
