------------------------------ MODULE Registry ------------------------------
(***************************************************************************)
(* The tenant registry of the agent (src/tenant): an in-memory index of    *)
(* tenants, byID and byKey, written through to a bbolt bucket, the store.  *)
(* Every method runs under the registry's mutex, so a method is one step.  *)
(*                                                                         *)
(* Most methods change the tenant in memory first and save it afterwards;  *)
(* when the save fails the change stays in memory.  The outcome of a save  *)
(* is the parameter "saved" of an action.  CreateTenant and Delete touch   *)
(* the store first and change nothing when it fails, so their failures are *)
(* stuttering steps.  A bbolt transaction is atomic and durable, so a      *)
(* crash at any point is one of these outcomes followed by Restart.        *)
(***************************************************************************)
EXTENDS Integers, FiniteSets, TLC, Maps

CONSTANTS
    Ids,            \* tenant ids the panel uses
    Keys,           \* raw customer API keys
    Quotas,         \* values of quota_bytes in requests
    Credits,        \* values of credit_limit_bytes
    Expires,        \* values of expire_at; 0 means "never"
    Periods,        \* values of period_id in create requests; 0 means "default"
    Deltas,         \* byte deltas handed to AddUsage, negative ones included
    Times,          \* readings of the clock, in unix seconds
    IntMax,         \* the largest int64, shrunk in small instances
    MaxUsed,        \* bound: no tenant carries more bytes than this
    MaxPeriod,      \* bound: no more period resets than this
    StoreMayFail    \* whether a save can return an error

ASSUME RegistryAssumption ==
    /\ IntMax \in Nat /\ MaxUsed \in 0..IntMax /\ MaxPeriod \in Nat \ {0}
    /\ Quotas \subseteq Int /\ Credits \subseteq Int
    /\ Expires \subseteq Int /\ Times \subseteq Int /\ Deltas \subseteq Int
    /\ Periods \subseteq 0..MaxPeriod
    /\ StoreMayFail \in BOOLEAN

VARIABLES
    byID,   \* tenant id -> tenant, in memory
    byKey,  \* API key hash -> tenant id, in memory
    store   \* tenant id -> tenant, on disk

regVars == <<byID, byKey, store>>

Status == {"active", "suspended", "deleted"}
Reason == {"none", "quota", "expired", "manual"}

(* The SHA-256 of a key: a value that differs from every raw key and that  *)
(* no two keys share.                                                      *)
HashKey(key) == <<"sha256", key>>

Tenant == [hash : {HashKey(k) : k \in Keys}, status : Status, reason : Reason,
           period : Nat, quota : Int, used : Nat, credit : Int, expireAt : Int]

(* Two's complement int64 arithmetic, in the width IntMax gives.           *)
Wrap(n) == ((n + IntMax + 1) % (2 * (IntMax + 1))) - (IntMax + 1)

(* Faulty variant: the credit is forgotten.                                *)
limitWithoutCredit(t) == Wrap(t.quota)

effectiveLimit(t) == Wrap(t.quota + t.credit)

Expired(t, now) == t.expireAt > 0 /\ now > t.expireAt
OverLimit(t) == t.used >= effectiveLimit(t)

SaveOutcomes == IF StoreMayFail THEN BOOLEAN ELSE {TRUE}
-----------------------------------------------------------------------------
(* Faulty variant: suspended tenants are not indexed when they are loaded. *)
ActiveOnly(s) == {i \in DOMAIN s : s[i].status = "active"}

(* The key indexes NewRegistry can build from what LoadTenants returns: a  *)
(* hash that several tenants share goes to the last one loaded.            *)
KeyedTenants(s) == {i \in DOMAIN s : s[i].status # "deleted"}

KeyIndexes(s) ==
    {keys \in [{s[i].hash : i \in KeyedTenants(s)} -> KeyedTenants(s)] :
        \A h \in DOMAIN keys : s[keys[h]].hash = h}

RegInit ==
    /\ byID = EmptyMap
    /\ byKey = EmptyMap
    /\ store = EmptyMap

NewTenant(key, quota, credit, expireAt, period) ==
    [hash |-> HashKey(key), status |-> "active", reason |-> "none",
     period |-> IF period = 0 THEN 1 ELSE period,
     quota |-> quota, used |-> 0, credit |-> credit, expireAt |-> expireAt]

(* Faulty variant: the tenant is served but never saved.                   *)
CreateUnsaved(id, key, quota, credit, expireAt, period) ==
    LET t == NewTenant(key, quota, credit, expireAt, period) IN
    /\ id \notin DOMAIN byID
    /\ t.hash \notin DOMAIN byKey
    /\ byID' = Put(byID, id, t)
    /\ byKey' = Put(byKey, t.hash, id)
    /\ UNCHANGED store

CreateTenant(id, key, quota, credit, expireAt, period) ==
    LET t == NewTenant(key, quota, credit, expireAt, period) IN
    /\ id \notin DOMAIN byID
    /\ t.hash \notin DOMAIN byKey
    /\ store' = Put(store, id, t)
    /\ byID' = Put(byID, id, t)
    /\ byKey' = Put(byKey, t.hash, id)

(* Faulty variant: an error after the write reverts memory, not the disk.  *)
UpdateReverted(id, t, saved) ==
    /\ byID' = IF saved THEN Put(byID, id, t) ELSE byID
    /\ store' = Put(store, id, t)
    /\ UNCHANGED byKey

(* The common tail of the methods below: the tenant is changed in memory,  *)
(* then saved.                                                             *)
Update(id, t, saved) ==
    /\ byID' = Put(byID, id, t)
    /\ store' = IF saved THEN Put(store, id, t) ELSE store
    /\ UNCHANGED byKey

(* The tenants those methods write.                                        *)
WithQuota(t, q, c, e) == [t EXCEPT !.quota = q, !.credit = c, !.expireAt = e]
Suspended(t, reason) == [t EXCEPT !.status = "suspended", !.reason = reason]
Activated(t) == [t EXCEPT !.status = "active", !.reason = "none"]

NextPeriod(t) == [Activated(t) EXCEPT !.used = 0, !.period = @ + 1]

MoreUsed(t, delta) == [t EXCEPT !.used = @ + IF delta < 0 THEN 0 ELSE delta]

AddUsage(id, delta, saved) ==
    /\ id \in DOMAIN byID
    /\ MoreUsed(byID[id], delta).used <= MaxUsed
    /\ Update(id, MoreUsed(byID[id], delta), saved)

SetQuota(id, quota, credit, expireAt, saved) ==
    /\ id \in DOMAIN byID
    /\ Update(id, WithQuota(byID[id], quota, credit, expireAt), saved)

Suspend(id, reason, saved) ==
    /\ id \in DOMAIN byID
    /\ Update(id, Suspended(byID[id], reason), saved)

Resume(id, saved) ==
    /\ id \in DOMAIN byID
    /\ Update(id, Activated(byID[id]), saved)

ResetPeriod(id, saved) ==
    /\ id \in DOMAIN byID
    /\ byID[id].period < MaxPeriod
    /\ Update(id, NextPeriod(byID[id]), saved)

(* Faulty variant: the key index keeps the hash of a tenant that is gone.  *)
DeleteKeepsKey(id) ==
    /\ id \in DOMAIN byID
    /\ store' = Without(store, {id})
    /\ byID' = Without(byID, {id})
    /\ UNCHANGED byKey

Delete(id) ==
    /\ id \in DOMAIN byID
    /\ store' = Without(store, {id})
    /\ byKey' = Without(byKey, {byID[id].hash})
    /\ byID' = Without(byID, {id})

(* Faulty variant: expiry is left to Authorize.                            *)
QuotaChanges(tenants, now) ==
    {i \in DOMAIN tenants : tenants[i].status = "active" /\ OverLimit(tenants[i])}

(* The tenants Enforce suspends at a time, and why: expiry is tested first *)
(* and quota only when the tenant has not expired.                         *)
Changes(tenants, now) ==
    {i \in DOMAIN tenants : /\ tenants[i].status = "active"
                            /\ Expired(tenants[i], now) \/ OverLimit(tenants[i])}

Enforced(t, now) ==
    Suspended(t, IF Expired(t, now) THEN "expired" ELSE "quota")

EnforcedTenants(tenants, now) ==
    [i \in DOMAIN tenants |-> IF i \in Changes(tenants, now)
                               THEN Enforced(tenants[i], now) ELSE tenants[i]]

(* The disk after the tenants in ids have been saved.                      *)
Persisted(disk, tenants, ids) ==
    [i \in DOMAIN disk \cup ids |-> IF i \in ids THEN tenants[i] ELSE disk[i]]

(* Enforce ignores the error of each save: the changed tenants in "saved"  *)
(* reach the disk, the other changed ones do not.                          *)
Enforce(now, saved) ==
    /\ byID' = EnforcedTenants(byID, now)
    /\ store' = Persisted(store, byID', Changes(byID, now) \cap saved)
    /\ UNCHANGED byKey

EnforceSaves == IF StoreMayFail THEN SUBSET Ids ELSE {Ids}

(* The agent process stops at any point and starts again on its database:  *)
(* NewRegistry on what the store holds.                                    *)
Restart ==
    /\ byID' = store
    /\ byKey' \in KeyIndexes(store)
    /\ UNCHANGED store
-----------------------------------------------------------------------------
(* The decision Authorize takes on a customer's key: the code, and the     *)
(* reason sent along with a refusal.                                       *)
Decision(code, reason) == [allowed |-> code = "ok", code |-> code, reason |-> reason]

Authorize(key, now) ==
    LET hash == HashKey(key)
        known == hash \in DOMAIN byKey /\ byKey[hash] \in DOMAIN byID
        t == byID[byKey[hash]]
    IN  IF ~known THEN Decision("unauthenticated", "none")
        ELSE IF t.status = "deleted" THEN Decision("unauthenticated", "none")
        ELSE IF t.status = "suspended" THEN Decision("permission_denied", t.reason)
        ELSE IF Expired(t, now) THEN Decision("permission_denied", "expired")
        ELSE IF OverLimit(t) THEN Decision("resource_exhausted", "quota")
        ELSE Decision("ok", "none")
-----------------------------------------------------------------------------
(* The calls the agent makes on a running registry.                        *)
Serve ==
    \/ \E id \in Ids, key \in Keys, q \in Quotas, c \in Credits, e \in Expires,
          p \in Periods : CreateTenant(id, key, q, c, e, p)
    \/ \E id \in Ids, d \in Deltas, ok \in SaveOutcomes : AddUsage(id, d, ok)
    \/ \E id \in Ids, q \in Quotas, c \in Credits, e \in Expires,
          ok \in SaveOutcomes : SetQuota(id, q, c, e, ok)
    \/ \E id \in Ids, ok \in SaveOutcomes : Suspend(id, "manual", ok)
    \/ \E id \in Ids, ok \in SaveOutcomes : Resume(id, ok)
    \/ \E id \in Ids, ok \in SaveOutcomes : ResetPeriod(id, ok)
    \/ \E id \in Ids : Delete(id)
    \/ \E now \in Times, saved \in EnforceSaves : Enforce(now, saved)

RegNext == Serve \/ Restart

RegSpec == RegInit /\ [][RegNext]_regVars
-----------------------------------------------------------------------------
(* Every tenant, in memory and on disk, is a well-formed Tenant, and the   *)
(* key index maps hashes to ids.                                           *)
RegTypeOK ==
    /\ DOMAIN byID \subseteq Ids /\ byID \in [DOMAIN byID -> Tenant]
    /\ DOMAIN store \subseteq Ids /\ store \in [DOMAIN store -> Tenant]
    /\ byKey \in [DOMAIN byKey -> Ids]

(* The two indexes of the registry describe the same tenants: every key    *)
(* hash leads to the one tenant that has it, every tenant is found by its  *)
(* hash, and no key leads to a tenant that is gone.  Nothing else keeps    *)
(* two tenants from answering to one key after creates, deletes, failed    *)
(* saves and restarts in any order.                                        *)
KeyIndexInverse ==
    /\ \A h \in DOMAIN byKey : byKey[h] \in DOMAIN byID /\ byID[byKey[h]].hash = h
    /\ \A i \in DOMAIN byID : byID[i].hash \in DOMAIN byKey /\ byKey[byID[i].hash] = i

(* Disk and memory hold the same tenants with the same keys, whatever      *)
(* saves failed: CreateTenant and Delete go to the store first.            *)
StoreCoversMemory ==
    /\ DOMAIN store = DOMAIN byID
    /\ \A i \in DOMAIN byID : store[i].hash = byID[i].hash

(* Usage u of a tenant is the same or a later one than t: a later billing  *)
(* period, or more bytes in the same one.                                  *)
NoLater(t, u) == t.period < u.period \/ (t.period = u.period /\ t.used <= u.used)

(* No tenant, in memory or on disk, carries the status "deleted": nothing  *)
(* assigns it, so NewRegistry indexes every tenant it loads.               *)
NoTombstone ==
    /\ \A i \in DOMAIN byID : byID[i].status # "deleted"
    /\ \A i \in DOMAIN store : store[i].status # "deleted"

(* What is on disk is never ahead of memory, so a restart never charges a  *)
(* tenant bytes it was not charged before (AddUsage and ResetPeriod change *)
(* memory before they save).                                               *)
StoreNeverAhead ==
    \A i \in DOMAIN byID \cap DOMAIN store : NoLater(store[i], byID[i])

(* The inductive invariant the proofs use.                                 *)
RegInv == RegTypeOK /\ KeyIndexInverse /\ StoreCoversMemory /\ StoreNeverAhead /\ NoTombstone

(* Restarting the agent leaves every API key with the tenant it belonged   *)
(* to: NewRegistry rebuilds from disk exactly the key index that was lost. *)
RestartKeepsKeys == [][Restart => byKey' = byKey]_regVars

(* Between restarts the usage of a tenant only grows within its period and *)
(* only a new period starts it again from zero: no call of the registry    *)
(* loses bytes already counted.                                            *)
BillingMonotone ==
    [][~Restart => \A i \in DOMAIN byID \cap DOMAIN byID' :
                       NoLater(byID[i], byID'[i])]_regVars

(* A running registry that suspends an active tenant for its quota finds   *)
(* it has used its quota plus its credit, in unbounded arithmetic: the     *)
(* comment of effectiveLimit.                                              *)
SuspendedOnlyOverQuota ==
    [][~Restart => \A i \in DOMAIN byID \cap DOMAIN byID' :
          (byID[i].status = "active" /\ byID'[i].status = "suspended"
             /\ byID'[i].reason = "quota")
          => byID'[i].used >= byID'[i].quota + byID'[i].credit]_regVars

(* The two copies of the enforcement rule agree: at any time, Authorize    *)
(* lets a tenant in exactly when it is active and Enforce, run at the same *)
(* time, would leave it so.                                                *)
AuthorizeAgreesWithEnforce ==
    \A key \in Keys, now \in Times :
        Authorize(key, now).allowed <=>
            \E i \in DOMAIN byID : /\ byID[i].hash = HashKey(key)
                                  /\ byID[i].status = "active"
                                  /\ i \notin Changes(byID, now)
=============================================================================
