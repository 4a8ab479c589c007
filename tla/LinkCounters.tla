---------------------------- MODULE LinkCounters ----------------------------
(***************************************************************************)
(* Traffic of the whole WireGuard interface, reported as differences of    *)
(* the kernel's counters (src/pkg/stats/interface_counters.go, called by   *)
(* handleInterfaceOutboundStats).  The interface may be made anew under a  *)
(* tracker, and its counters then start from zero.                         *)
(***************************************************************************)
EXTENDS Integers

CONSTANTS
    LinkDirs,   \* rx and tx
    MaxLink     \* bound: bytes carried in each direction

VARIABLES
    link,       \* the interface's counters
    base,       \* the tracker's baseline
    baseSet,    \* whether there is one
    delta,      \* what the last request was told
    told,       \* history: what the requests with reset were told
    carried     \* history: bytes carried since the first request

linkVars == <<link, base, baseSet, delta, told, carried>>

NoBytes == [d \in LinkDirs |-> 0]

(* Faulty variant: a counter that went back is not noticed.                *)
RebaseFirst(set, from, now) == IF set THEN from ELSE now

(* The baseline of a request: the first sample, and one whose counters     *)
(* went back, set it anew.                                                 *)
Baseline(set, from, now) ==
    IF set /\ \A d \in LinkDirs : now[d] >= from[d] THEN from ELSE now

Delta(reset) ==
    LET from == Baseline(baseSet, base, link)
    IN  /\ delta' = [d \in LinkDirs |-> link[d] - from[d]]
        /\ base' = IF reset THEN link ELSE from
        /\ baseSet' = TRUE
        /\ told' = IF reset THEN [d \in LinkDirs |-> told[d] + delta'[d]] ELSE told
        /\ carried' = IF baseSet THEN carried ELSE NoBytes
        /\ UNCHANGED link

Carry(d) ==
    /\ carried[d] < MaxLink
    /\ link' = [link EXCEPT ![d] = @ + 1]
    /\ carried' = [carried EXCEPT ![d] = @ + 1]
    /\ UNCHANGED <<base, baseSet, delta, told>>

NewLink == link' = NoBytes /\ UNCHANGED <<base, baseSet, delta, told, carried>>
-----------------------------------------------------------------------------
LinkInit ==
    /\ link = NoBytes /\ base = NoBytes /\ baseSet = FALSE
    /\ delta = NoBytes /\ told = NoBytes /\ carried = NoBytes

LinkNext ==
    \/ NewLink
    \/ \E reset \in BOOLEAN : Delta(reset)
    \/ \E d \in LinkDirs : Carry(d)

(* Whenever the interface is made anew, no request is told a negative      *)
(* number, and what is told never exceeds what was carried.                *)
LinkTrafficSound ==
    \A d \in LinkDirs : delta[d] >= 0 /\ told[d] <= carried[d]
=============================================================================
