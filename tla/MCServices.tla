----------------------------- MODULE MCServices -----------------------------
(***************************************************************************)
(* The controller of a node and the small machines beside it.  They share  *)
(* no state, so a behaviour exercises one of them, chosen at its start.    *)
(***************************************************************************)
EXTENDS Controller, HostRouting, LogRing, LinkCounters, Uploads, Updates

CONSTANTS
    c1, c2,     \* goroutines of the controller
    o1, o2,     \* owners of routing rules
    admin,      \* the administrator of the host
    u1,         \* the one update request
    v1, v2,     \* releases of a binary
    hole,       \* a block never written
    a, b        \* users of an upload, and log lines

VARIABLE
    focus       \* the machine this behaviour exercises

MCSizes == -1..3
MCNat == [name |-> "postrouting", hook |-> "postrouting", family |-> "ip"]
MCChains == {[name |-> "filter", hook |-> "forward", family |-> "ip"],
             [name |-> "firewalld", hook |-> "forward", family |-> "inet"],
             [name |-> "local", hook |-> "input", family |-> "ip"]}
MCChunkUsers == {<<>>, <<a>>, <<b, a>>}
MCBlocks == v1 :> 1 @@ v2 :> 2

others(machine) ==
    /\ focus = machine /\ UNCHANGED focus
    /\ machine # "controller" => UNCHANGED ctlVars
    /\ machine # "host" => UNCHANGED hostVars
    /\ machine # "ring" => UNCHANGED ringVars
    /\ machine # "link" => UNCHANGED linkVars
    /\ machine # "upload" => UNCHANGED uploadVars
    /\ machine # "update" => UNCHANGED updVars

Machines == {"controller", "host", "ring", "link", "upload", "update"}

Init ==
    /\ focus \in Machines
    /\ CtlInit /\ HostInit /\ RingInit /\ LinkInit /\ UploadInit /\ UpdInit
    /\ focus # "ring" => ring = newStartupLogRing(0)
    /\ focus # "update" => files[1] = Whole(v1)

Next ==
    \/ others("controller") /\ CtlNext
    \/ others("host") /\ HostNext
    \/ others("ring") /\ RingNext
    \/ others("link") /\ LinkNext
    \/ others("upload") /\ UploadNext
    \/ others("update") /\ UpdNext

allVars == <<focus, ctlVars, hostVars, ringVars, linkVars, uploadVars, updVars>>

Spec == Init /\ [][Next]_allVars /\ CtlFairness
=============================================================================
