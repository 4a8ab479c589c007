--------------------------- MODULE ServiceProofs ----------------------------
(***************************************************************************)
(* Theorems about the single-backend node (Controller) and the traffic of  *)
(* an interface (LinkCounters), for any number of goroutines, starts,      *)
(* directions and bytes.                                                   *)
(***************************************************************************)
EXTENDS Controller, LinkCounters, FiniteSetTheorems, TLAPS

LinkSpec == LinkInit /\ [][LinkNext]_linkVars

LinkTypeOK ==
    /\ link \in [LinkDirs -> Nat] /\ base \in [LinkDirs -> Nat]
    /\ delta \in [LinkDirs -> Int] /\ told \in [LinkDirs -> Int]
    /\ carried \in [LinkDirs -> Nat] /\ baseSet \in BOOLEAN

(* What the next request may still be told fits into what was carried.     *)
LinkInv ==
    /\ LinkTypeOK
    /\ LinkTrafficSound
    /\ ~baseSet => told = NoBytes
    /\ baseSet => \A d \in LinkDirs : told[d] + (link[d] - base[d]) <= carried[d]

(* Baseline never lies above the counters it is compared with.             *)
LEMMA BaselineBelow ==
    ASSUME LinkTypeOK
    PROVE  LET from == Baseline(baseSet, base, link)
           IN  /\ from \in [LinkDirs -> Nat]
               /\ \A d \in LinkDirs : from[d] <= link[d]
               /\ ~baseSet => from = link
               /\ from = base \/ from = link
BY DEF LinkTypeOK, Baseline

(* Before the first request nothing has been told.                         *)
LEMMA LinkStart == LinkInit => LinkInv
<1> SUFFICES ASSUME LinkInit PROVE LinkInv
  OBVIOUS
<1>1. NoBytes \in [LinkDirs -> Nat] /\ \A d \in LinkDirs : NoBytes[d] = 0
  BY DEF NoBytes
<1>2. LinkTypeOK
  <2>1. baseSet \in BOOLEAN
    BY DEF LinkInit
  <2> QED BY <1>1, <2>1 DEF LinkInit, LinkTypeOK
<1>3. LinkTrafficSound
  BY <1>1 DEF LinkInit, LinkTrafficSound
<1>4. baseSet = FALSE /\ told = NoBytes
  BY DEF LinkInit
<1> QED BY <1>2, <1>3, <1>4 DEF LinkInv

(* Every answer, every byte and every new interface preserves it.          *)
LEMMA LinkStep == LinkInv /\ [LinkNext]_linkVars => LinkInv'
<1> SUFFICES ASSUME LinkInv, [LinkNext]_linkVars PROVE LinkInv'
  OBVIOUS
<1> USE DEF LinkInv, LinkTypeOK, LinkTrafficSound, NoBytes
<1>1. CASE NewLink
  BY <1>1 DEF NewLink
<1>2. ASSUME NEW d \in LinkDirs, Carry(d) PROVE LinkInv'
  BY <1>2 DEF Carry
<1>3. ASSUME NEW reset \in BOOLEAN, Delta(reset) PROVE LinkInv'
  <2> DEFINE from == Baseline(baseSet, base, link)
  <2>1. /\ from \in [LinkDirs -> Nat]
        /\ \A d \in LinkDirs : from[d] <= link[d]
        /\ ~baseSet => from = link
        /\ from = base \/ from = link
    BY BaselineBelow
  <2>2. /\ delta' = [d \in LinkDirs |-> link[d] - from[d]]
        /\ base' = IF reset THEN link ELSE from
        /\ baseSet' = TRUE
        /\ told' = IF reset THEN [d \in LinkDirs |-> told[d] + delta'[d]] ELSE told
        /\ carried' = IF baseSet THEN carried ELSE NoBytes
        /\ link' = link
    BY <1>3 DEF Delta
  <2> HIDE DEF from
  <2>3. LinkTypeOK'
    BY <2>1, <2>2
  <2>4. ASSUME NEW d \in LinkDirs
        PROVE  /\ delta'[d] >= 0 /\ told'[d] <= carried'[d]
               /\ told'[d] + (link'[d] - base'[d]) <= carried'[d]
    <3>1. CASE ~baseSet
      BY <2>1, <2>2, <3>1
    <3>2. CASE baseSet /\ from = base
      BY <2>1, <2>2, <3>2
    <3>3. CASE baseSet /\ from = link
      BY <2>1, <2>2, <3>3
    <3> QED BY <2>1, <3>1, <3>2, <3>3
  <2> QED BY <2>2, <2>3, <2>4
<1>4. CASE UNCHANGED linkVars
  BY <1>4 DEF linkVars
<1> QED BY <1>1, <1>2, <1>3, <1>4 DEF LinkNext

(* However often the interface is made anew and whichever requests reset,  *)
(* Delta never answers with a negative number, and the answers with reset  *)
(* never add up to more than was carried.                                  *)
THEOREM LinkTrafficIsSound == LinkSpec => []LinkTrafficSound
<1>1. LinkInv => LinkTrafficSound
  BY DEF LinkInv
<1> QED BY LinkStart, LinkStep, <1>1, PTL DEF LinkSpec
-----------------------------------------------------------------------------
CtlSpec == CtlInit /\ [][CtlNext]_ctlVars

Places == {"idle", "start", "connect", "cancel", "shutdown", "clear", "call", "gone"}
Methods == {"", "Start", "Stop", "Call", "Exit", "Tick"}
Frames == [at : Places, method : Methods, b : Nat]

CtlTypeOK ==
    /\ starts \in Nat /\ backend \in Nat
    /\ up \subseteq Nat \ {0}
    /\ pc \in [Threads -> Frames]

(* As long as nothing overlapped, one goroutine at most is in the middle   *)
(* of a start or a Disconnect, nothing lives without a current backend,    *)
(* and each point of that goroutine knows what is gone already.            *)
Alone ==
    /\ \A t, u \in Changing(pc) : t = u
    /\ up \subseteq {backend} /\ alive \subseteq {cancelFunc}
    /\ backend = 0 => alive = {}
    /\ \A t \in Threads :
          /\ pc[t].at = "start" => backend = 0
          /\ pc[t].at = "connect" => backend # 0
          /\ pc[t].at \in {"connect", "shutdown", "clear"} => alive = {}
          /\ pc[t].at = "shutdown" => pc[t].b = backend
          /\ pc[t].at = "clear" => up = {}

CtlInv == CtlTypeOK /\ CurrentBackendUsable /\ (~raced => Alone)

(* A finite set with no more than one element has no two.                  *)
LEMMA AtMostOne ==
    ASSUME NEW S, IsFiniteSet(S), ~(Cardinality(S) > 1)
    PROVE  \A x, y \in S : x = y
<1> SUFFICES ASSUME NEW x \in S, NEW y \in S, x # y PROVE FALSE
  OBVIOUS
<1>1. Cardinality(S) \in Nat
  BY FS_CardinalityType
<1>2. IsFiniteSet(S \ {x}) /\ Cardinality(S \ {x}) = Cardinality(S) - 1
  BY FS_RemoveElement
<1>3. Cardinality(S \ {x}) = 0
  BY <1>1, <1>2, FS_CardinalityType
<1> QED BY <1>2, <1>3, FS_EmptySet

(* There are finitely many goroutines, so Changing can be counted.         *)
LEMMA ChangingFinite == \A at : IsFiniteSet(Changing(at))
<1>1. IsFiniteSet(Sessions)
  BY ControllerAssumption, FS_Interval DEF Sessions
<1>2. IsFiniteSet(Threads)
  BY <1>1, ControllerAssumption, FS_Union DEF Threads
<1> QED BY <1>2, FS_Subset DEF Changing

Busy == {"start", "connect", "cancel", "shutdown", "clear"}

(* A goroutine with nothing to do is in the middle of nothing.             *)
LEMMA IdleFrame == Idle \in Frames /\ Idle.at = "idle"
BY DEF Idle, Frames, Places, Methods

Moved(f, p, n) == [f EXCEPT !.at = p, !.b = n]

(* A goroutine that moves to a place with a backend is there with it.      *)
LEMMA MovedFrame ==
    ASSUME NEW f \in Frames, NEW p \in Places, NEW n \in Nat
    PROVE  Moved(f, p, n) \in Frames /\ Moved(f, p, n).at = p /\ Moved(f, p, n).b = n
BY DEF Frames, Moved

Placed(f, p) == [f EXCEPT !.at = p]

(* The same for one that keeps its backend.                                *)
LEMMA PlacedFrame ==
    ASSUME NEW f \in Frames, NEW p \in Places
    PROVE  Placed(f, p) \in Frames /\ Placed(f, p).at = p
BY DEF Frames, Placed

(* Nothing runs at first.                                                  *)
LEMMA CtlStart == CtlInit => CtlInv
<1> SUFFICES ASSUME CtlInit PROVE CtlInv
  OBVIOUS
<1>1. \A t \in Threads : pc[t] = Idle
  BY DEF CtlInit
<1>2. CtlTypeOK
  BY IdleFrame DEF CtlInit, CtlTypeOK
<1>3. Changing(pc) = {}
  BY <1>1, IdleFrame DEF Changing
<1>4. Alone
  BY <1>1, <1>3, IdleFrame DEF Alone, CtlInit
<1>5. CurrentBackendUsable
  BY DEF CurrentBackendUsable, CtlInit
<1> QED BY <1>2, <1>4, <1>5 DEF CtlInv

(* A request or a timeout begins: unless it overlaps another, it is the    *)
(* only one, and it starts from what the node is in.                       *)
LEMMA BeginStep ==
    ASSUME CtlInv, NEW t \in Threads, NEW at \in {"start", "cancel", "call"},
           NEW method \in Methods, pc[t] = Idle,
           pc' = [pc EXCEPT ![t] = [at |-> at, method |-> method, b |-> 0]],
           raced' = (raced \/ Cardinality(Changing(pc')) > 1),
           at = "start" => backend = 0,
           UNCHANGED <<backend, up, starts, cancelFunc, alive>>
    PROVE  CtlInv'
<1> DEFINE frame == [at |-> at, method |-> method, b |-> 0]
<1>f. frame \in Frames /\ frame.at = at
  BY DEF Frames, Places
<1> HIDE DEF frame
<1>1. CtlTypeOK'
  BY <1>f DEF CtlInv, CtlTypeOK, frame
<1>2. \A u \in Threads : pc[u].at = "clear" => pc'[u].at = "clear"
  BY IdleFrame DEF CtlInv, CtlTypeOK
<1>3. CurrentBackendUsable'
  BY <1>2 DEF CtlInv, CurrentBackendUsable
<1>4. ASSUME ~raced' PROVE Alone'
  <2>1. ~raced /\ ~(Cardinality(Changing(pc')) > 1)
    BY <1>4
  <2>2. Alone
    BY <2>1 DEF CtlInv
  <2>3. \A u, v \in Changing(pc') : u = v
    BY <2>1, ChangingFinite, AtMostOne
  <2>4. \A u \in Threads : u # t => pc'[u] = pc[u]
    BY DEF CtlInv, CtlTypeOK
  <2>5. pc'[t].at = at
    BY DEF CtlInv, CtlTypeOK
  <2> QED BY <2>2, <2>3, <2>4, <2>5 DEF Alone, Changing
<1> QED BY <1>1, <1>3, <1>4 DEF CtlInv

(* The goroutine in the middle of a start or a Disconnect moves on: it     *)
(* remains the only one.                                                   *)
LEMMA MoveStep ==
    ASSUME CtlInv, NEW t \in Threads, NEW frame \in Frames,
           pc[t].at \in Busy, pc' = [pc EXCEPT ![t] = frame], UNCHANGED raced
    PROVE  /\ pc' \in [Threads -> Frames] /\ pc'[t] = frame
           /\ \A u \in Threads \ {t} : pc'[u] = pc[u]
           /\ ~raced => /\ Alone
                        /\ \A u, v \in Changing(pc') : u = v
                        /\ \A u \in Threads \ {t} : pc[u].at \notin Busy
<1>1. /\ pc' \in [Threads -> Frames] /\ pc'[t] = frame
      /\ \A u \in Threads \ {t} : pc'[u] = pc[u]
  BY DEF CtlInv, CtlTypeOK
<1>2. ASSUME ~raced
      PROVE  /\ Alone
             /\ \A u, v \in Changing(pc') : u = v
             /\ \A u \in Threads \ {t} : pc[u].at \notin Busy
  <2>1. Alone
    BY <1>2 DEF CtlInv
  <2>2. \A u \in Threads \ {t} : pc[u].at \notin Busy
    BY <2>1 DEF Alone, Changing, Busy
  <2>3. Changing(pc') \subseteq {t}
    BY <1>1, <2>2 DEF Changing, Busy
  <2> QED BY <2>1, <2>2, <2>3
<1> QED BY <1>1, <1>2

(* No step of a request, a Disconnect, a tracker or the clock breaks it.   *)
LEMMA CtlStep == CtlInv /\ [CtlNext]_ctlVars => CtlInv'
<1> SUFFICES ASSUME CtlInv, [CtlNext]_ctlVars PROVE CtlInv'
  OBVIOUS
<1>c. /\ \A c \in Clients : c \in Threads
      /\ \A s \in Sessions : s \in Threads
  BY DEF Threads
<1>1. ASSUME NEW c \in Clients, Request(c) PROVE CtlInv'
  <2> USE DEF Arrive, session
  <2>1. CASE Start(c)
    <3>1. CASE backend = 0
      BY <1>c, <2>1, <3>1, BeginStep DEF Start, Methods
    <3>2. CASE backend # 0
      BY <1>c, <2>1, <3>2, BeginStep DEF Start, Methods
    <3> QED BY <3>1, <3>2
  <2>2. CASE Stop(c)
    BY <1>c, <2>2, BeginStep DEF Stop, Methods
  <2>3. CASE Call(c)
    BY <1>c, <2>3, BeginStep DEF Call, Methods
  <2>4. CASE Exit(c)
    BY <1>c, <2>4, BeginStep DEF Exit, Methods
  <2> QED BY <1>1, <2>1, <2>2, <2>3, <2>4 DEF Request
<1>2. ASSUME NEW c \in Clients, StartBackend(c) PROVE CtlInv'
  <2> DEFINE frame == Moved(pc[c], "connect", starts + 1)
  <2>1. frame \in Frames /\ frame.at = "connect"
    <3>1. pc[c] \in Frames /\ starts + 1 \in Nat /\ "connect" \in Places
      BY <1>c DEF CtlInv, CtlTypeOK, Places
    <3> QED BY <3>1, MovedFrame
  <2>2. pc[c].at = "start" /\ pc' = [pc EXCEPT ![c] = frame] /\ UNCHANGED raced
    BY <1>2 DEF StartBackend, Moved
  <2>3. UNCHANGED <<cancelFunc, alive>> /\ backend' = starts + 1 /\ starts' = starts + 1
        /\ up' = up \union {starts + 1}
    BY <1>2 DEF StartBackend, session
  <2> HIDE DEF frame
  <2>4. CtlTypeOK'
    BY <1>c, <2>1, <2>2, <2>3, MoveStep DEF CtlInv, CtlTypeOK, Busy
  <2>5. CurrentBackendUsable'
    BY <2>3 DEF CurrentBackendUsable
  <2>6. ~raced' => Alone'
    <3> SUFFICES ASSUME ~raced' PROVE Alone'
      OBVIOUS
    <3>1. /\ Alone /\ pc'[c] = frame
          /\ \A u, v \in Changing(pc') : u = v
          /\ \A u \in Threads \ {c} : pc'[u] = pc[u] /\ pc[u].at \notin Busy
      BY <1>c, <2>1, <2>2, MoveStep DEF Busy
    <3>2. backend = 0 /\ alive = {} /\ up = {} /\ starts + 1 # 0
      BY <1>c, <2>2, <3>1 DEF Alone, CtlInv, CtlTypeOK
    <3> QED BY <1>c, <2>1, <2>3, <3>1, <3>2 DEF Alone, Busy
  <2> QED BY <2>4, <2>5, <2>6 DEF CtlInv
<1>3. ASSUME NEW c \in Clients, StartBackendFails(c) PROVE CtlInv'
  <2>1. pc[c].at = "start" /\ pc' = [pc EXCEPT ![c] = Idle]
        /\ UNCHANGED <<raced, backend, up, starts, cancelFunc, alive>>
    BY <1>3 DEF StartBackendFails, Done, session
  <2>2. /\ pc' \in [Threads -> Frames] /\ pc'[c] = Idle
        /\ \A u \in Threads \ {c} : pc'[u] = pc[u]
        /\ ~raced => /\ Alone
                     /\ \A u, v \in Changing(pc') : u = v
                     /\ \A u \in Threads \ {c} : pc[u].at \notin Busy
    BY <1>c, <2>1, IdleFrame, MoveStep DEF Busy
  <2>3. CtlTypeOK'
    BY <2>1, <2>2 DEF CtlInv, CtlTypeOK
  <2>4. CurrentBackendUsable'
    BY <2>1, <2>2 DEF CtlInv, CurrentBackendUsable
  <2>5. ~raced' => Alone'
    BY <2>1, <2>2, IdleFrame DEF Alone
  <2> QED BY <2>3, <2>4, <2>5 DEF CtlInv
<1>4. ASSUME NEW c \in Clients, NEW keepAlive \in BOOLEAN, Connect(c, keepAlive)
      PROVE  CtlInv'
  <2>1. pc[c].at = "connect" /\ pc' = [pc EXCEPT ![c] = Idle]
        /\ cancelFunc' = pc[c].b /\ alive' = alive \union {pc[c].b}
        /\ UNCHANGED <<raced, backend, up, starts>>
    BY <1>4 DEF Connect, Done
  <2>2. /\ pc' \in [Threads -> Frames] /\ pc'[c] = Idle
        /\ \A u \in Threads \ {c} : pc'[u] = pc[u]
        /\ ~raced => /\ Alone
                     /\ \A u, v \in Changing(pc') : u = v
                     /\ \A u \in Threads \ {c} : pc[u].at \notin Busy
    BY <1>c, <2>1, IdleFrame, MoveStep DEF Busy
  <2>3. CtlTypeOK'
    BY <2>1, <2>2 DEF CtlInv, CtlTypeOK
  <2>4. CurrentBackendUsable'
    BY <2>1, <2>2 DEF CtlInv, CurrentBackendUsable
  <2>5. ASSUME ~raced' PROVE Alone'
    <3>1. backend # 0 /\ alive = {}
      BY <1>c, <2>1, <2>2, <2>5 DEF Alone
    <3> QED BY <2>1, <2>2, <2>5, <3>1, IdleFrame DEF Alone, Busy
  <2> QED BY <2>3, <2>4, <2>5 DEF CtlInv
<1>5. ASSUME NEW c \in Clients, CallBackend(c) \/ CallNil(c) PROVE CtlInv'
  <2>1. pc[c].at = "call" /\ pc' = [pc EXCEPT ![c] = Idle]
        /\ UNCHANGED <<raced, backend, up, starts, cancelFunc, alive>>
    BY <1>5 DEF CallBackend, CallNil, Done, session
  <2>2. /\ pc' \in [Threads -> Frames] /\ pc'[c] = Idle
        /\ \A u \in Threads \ {c} : pc'[u] = pc[u]
    BY <1>c, <2>1, IdleFrame DEF CtlInv, CtlTypeOK
  <2>3. CtlTypeOK'
    BY <2>1, <2>2 DEF CtlInv, CtlTypeOK
  <2>4. CurrentBackendUsable'
    BY <2>1, <2>2 DEF CtlInv, CurrentBackendUsable
  <2>5. ASSUME ~raced' PROVE Alone'
    <3>1. Alone
      BY <2>1, <2>5 DEF CtlInv
    <3>2. Changing(pc') \subseteq Changing(pc)
      BY <2>2, IdleFrame DEF Changing
    <3> QED BY <2>1, <2>2, <3>1, <3>2, IdleFrame DEF Alone
  <2> QED BY <2>3, <2>4, <2>5 DEF CtlInv
<1>6. ASSUME NEW c \in Clients, CallNilPanics(c) PROVE CtlInv'
  <2>1. /\ \A u \in Threads : pc'[u] = Idle
        /\ pc' \in [Threads -> Frames]
    BY <1>6, IdleFrame DEF CallNilPanics
  <2>2. backend' = 0 /\ up' = {} /\ alive' = {} /\ starts' = starts
    BY <1>6 DEF CallNilPanics
  <2>3. Changing(pc') = {}
    BY <2>1, IdleFrame DEF Changing
  <2>4. Alone'
    BY <2>1, <2>2, <2>3, IdleFrame DEF Alone
  <2> QED BY <2>1, <2>2, <2>4 DEF CtlInv, CtlTypeOK, CurrentBackendUsable
<1>7. ASSUME NEW t \in Threads, CancelAndRead(t) PROVE CtlInv'
  <2> DEFINE frame == Moved(pc[t], "shutdown", backend)
  <2>1. frame \in Frames /\ frame.at = "shutdown" /\ frame.b = backend
    <3>1. pc[t] \in Frames /\ backend \in Nat /\ "shutdown" \in Places
      BY DEF CtlInv, CtlTypeOK, Places
    <3> QED BY <3>1, MovedFrame
  <2>2. pc[t].at = "cancel" /\ pc' = [pc EXCEPT ![t] = frame]
        /\ alive' = alive \ {cancelFunc}
        /\ UNCHANGED <<raced, backend, up, starts, cancelFunc>>
    BY <1>7 DEF CancelAndRead, session, Moved
  <2> HIDE DEF frame
  <2>3. /\ pc' \in [Threads -> Frames] /\ pc'[t] = frame
        /\ \A u \in Threads \ {t} : pc'[u] = pc[u]
        /\ ~raced => /\ Alone
                     /\ \A u, v \in Changing(pc') : u = v
                     /\ \A u \in Threads \ {t} : pc[u].at \notin Busy
    BY <2>1, <2>2, MoveStep DEF Busy
  <2>4. CtlTypeOK'
    BY <2>2, <2>3 DEF CtlInv, CtlTypeOK
  <2>5. CurrentBackendUsable'
    BY <2>1, <2>2, <2>3 DEF CtlInv, CurrentBackendUsable
  <2>6. ASSUME ~raced' PROVE Alone'
    <3>1. alive' = {}
      BY <2>2, <2>3, <2>6 DEF Alone
    <3> QED BY <2>1, <2>2, <2>3, <2>6, <3>1 DEF Alone, Busy
  <2> QED BY <2>4, <2>5, <2>6 DEF CtlInv
<1>8. ASSUME NEW t \in Threads, ShutdownBackend(t) PROVE CtlInv'
  <2> DEFINE frame == Placed(pc[t], "clear")
  <2>1. frame \in Frames /\ frame.at = "clear"
    <3>1. pc[t] \in Frames /\ "clear" \in Places
      BY DEF CtlInv, CtlTypeOK, Places
    <3> QED BY <3>1, PlacedFrame
  <2>2. pc[t].at = "shutdown" /\ pc' = [pc EXCEPT ![t] = frame]
        /\ up' = up \ {pc[t].b}
        /\ UNCHANGED <<raced, backend, starts, cancelFunc, alive>>
    BY <1>8 DEF ShutdownBackend, session, Placed
  <2> HIDE DEF frame
  <2>3. /\ pc' \in [Threads -> Frames] /\ pc'[t] = frame
        /\ \A u \in Threads \ {t} : pc'[u] = pc[u]
        /\ ~raced => /\ Alone
                     /\ \A u, v \in Changing(pc') : u = v
                     /\ \A u \in Threads \ {t} : pc[u].at \notin Busy
    BY <2>1, <2>2, MoveStep DEF Busy
  <2>4. CtlTypeOK'
    BY <2>2, <2>3 DEF CtlInv, CtlTypeOK
  <2>5. CurrentBackendUsable'
    BY <2>1, <2>2, <2>3 DEF CtlInv, CurrentBackendUsable
  <2>6. ASSUME ~raced' PROVE Alone'
    <3>1. up' = {} /\ alive = {}
      BY <2>2, <2>3, <2>6 DEF Alone
    <3> QED BY <2>1, <2>2, <2>3, <2>6, <3>1 DEF Alone, Busy
  <2> QED BY <2>4, <2>5, <2>6 DEF CtlInv
<1>9. ASSUME NEW t \in Threads, ClearBackend(t) PROVE CtlInv'
  <2> DEFINE frame == Resume(t)
  <2>1. frame \in Frames /\ frame.at \in {"start", "gone", "idle"}
    <3>1. pc[t] \in Frames /\ {"start", "gone"} \subseteq Places
      BY DEF CtlInv, CtlTypeOK, Places
    <3>2. Resume(t) \in {Moved(pc[t], "start", 0), Moved(pc[t], "gone", 0), Idle}
      BY DEF Resume, Moved
    <3> QED BY <3>1, <3>2, MovedFrame, IdleFrame
  <2>2. pc[t].at = "clear" /\ pc' = [pc EXCEPT ![t] = frame]
        /\ backend' = 0
        /\ UNCHANGED <<raced, up, starts, cancelFunc, alive>>
    BY <1>9 DEF ClearBackend, session
  <2> HIDE DEF frame
  <2>3. /\ pc' \in [Threads -> Frames] /\ pc'[t] = frame
        /\ \A u \in Threads \ {t} : pc'[u] = pc[u]
        /\ ~raced => /\ Alone
                     /\ \A u, v \in Changing(pc') : u = v
                     /\ \A u \in Threads \ {t} : pc[u].at \notin Busy
    BY <2>1, <2>2, MoveStep DEF Busy
  <2>4. CtlTypeOK'
    BY <2>2, <2>3 DEF CtlInv, CtlTypeOK
  <2>5. CurrentBackendUsable'
    BY <2>1, <2>2, <2>3 DEF CtlInv, CurrentBackendUsable
  <2>6. ASSUME ~raced' PROVE Alone'
    <3>1. up = {} /\ alive = {}
      BY <2>2, <2>3, <2>6 DEF Alone
    <3> QED BY <2>1, <2>2, <2>3, <2>6, <3>1 DEF Alone, Busy
  <2> QED BY <2>4, <2>5, <2>6 DEF CtlInv
<1>10. ASSUME NEW s \in Sessions, Tick(s) PROVE CtlInv'
  BY <1>c, <1>10, BeginStep DEF Tick, Methods, session
<1>11. CASE \/ TimePasses \/ Snapshot \/ UNCHANGED ctlVars
            \/ \E s \in Sessions : TrackerEnds(s)
  <2>1. UNCHANGED <<backend, up, starts, cancelFunc, alive, pc, raced>>
    BY <1>11 DEF TimePasses, Snapshot, TrackerEnds, ctlVars, session
  <2> QED BY <2>1 DEF CtlInv, CtlTypeOK, CurrentBackendUsable, Alone, Changing
<1> QED BY <1>1, <1>2, <1>3, <1>4, <1>5, <1>6, <1>7, <1>8, <1>9, <1>10, <1>11
        DEF CtlNext, Handle, Disconnect, Tracker

(* Whatever requests, timeouts and the exit interleave, in whatever        *)
(* number, a backend that Disconnect has shut down is the current one only *)
(* until that Disconnect clears it.                                        *)
THEOREM DeadBackendIsCleared == CtlSpec => []CurrentBackendUsable
<1>1. CtlInv => CurrentBackendUsable
  BY DEF CtlInv
<1> QED BY CtlStart, CtlStep, <1>1, PTL DEF CtlSpec

(* While starts, stops and timeouts do not overlap, Start takes over from  *)
(* the previous session and Disconnect leaves nothing: one backend and one *)
(* session at a time.                                                      *)
THEOREM BackendsFollowOneAnother == CtlSpec => []OneBackendAtATime
<1>1. CtlInv => OneBackendAtATime
  BY DEF CtlInv, Alone, OneBackendAtATime
<1> QED BY CtlStart, CtlStep, <1>1, PTL DEF CtlSpec
=============================================================================
