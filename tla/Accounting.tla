----------------------------- MODULE Accounting -----------------------------
(***************************************************************************)
(* What tenants are charged against what their users really used: Manager  *)
(* with history variables that record, beside every step, the bytes Xray   *)
(* carried and the bytes CollectAndEnforce charged.  No step of the system *)
(* reads them.                                                             *)
(***************************************************************************)
EXTENDS Manager

CONSTANT MaxCarried     \* bound: bytes the users of one tenant use in all

ASSUME AccountingAssumption == MaxCarried \in Nat

VARIABLES
    carried,    \* tenant id -> bytes its users' connections carried
    charged,    \* tenant id -> bytes added to its usage, over all periods
    dropped,    \* emails whose accounting entries were deleted
    missed,     \* tenant id -> bytes not yet collected when a process ended
    stale       \* whether lastSeen may hold totals of a process that ended

history == <<carried, charged, dropped, missed, stale>>

CarriedNow(id) == \E n \in Names(id) : counter'[n] > counter[n]

(* The usage a step adds to a tenant; a new period starts from zero.       *)
ChargedNow(id) ==
    IF id \in DOMAIN byID \cap DOMAIN byID' /\ byID'[id].period = byID[id].period
    THEN byID'[id].used - byID[id].used ELSE 0

ProcessEnded == \E n \in AllNames : counter'[n] < counter[n]

Observe ==
    /\ carried' = [id \in Ids |-> carried[id] + IF CarriedNow(id) THEN 1 ELSE 0]
    /\ \A id \in Ids : carried'[id] <= MaxCarried
    /\ charged' = [id \in Ids |-> charged[id] + ChargedNow(id)]
    /\ \A id \in Ids : charged'[id] <= MaxCarried + 1
    /\ dropped' = dropped \cup (DOMAIN emailTo \ DOMAIN emailTo')
    /\ missed' = IF ProcessEnded THEN [id \in Ids |-> carried[id] - charged[id]] ELSE missed
    /\ stale' = ((stale \/ ProcessEnded) /\ lastSeen' # Zero)

AccInit ==
    /\ Init
    /\ carried = [id \in Ids |-> 0] /\ charged = [id \in Ids |-> 0]
    /\ dropped = {} /\ missed = [id \in Ids |-> 0] /\ stale = FALSE

AccNext == Next /\ Observe

AccSpec == AccInit /\ [][AccNext]_<<vars, history>>
-----------------------------------------------------------------------------
(* Bytes carried and not yet collected.                                    *)
Uncollected(id) ==
    FoldFunctionOnSet(+, 0, [n \in Names(id) |-> counter[n] - lastSeen[n]], Names(id))

(* A tenant whose users have not been removed is never charged more than   *)
(* they used, whatever syncs, suspensions, period resets, config pushes,   *)
(* process restarts and agent restarts happened in between.                *)
NeverOverchargedUnlessDropped ==
    \A id \in Ids : Names(id) \cap dropped = {} => charged[id] <= carried[id]

(* As long as no user is removed and lastSeen holds no total of an Xray    *)
(* process that ended, every byte carried has been charged, is still to be *)
(* collected, or was not collected before its process ended.               *)
ExactAccounting ==
    \A id \in Ids : (Names(id) \cap dropped = {} /\ ~stale)
        => carried[id] = charged[id] + missed[id] + Uncollected(id)
=============================================================================
