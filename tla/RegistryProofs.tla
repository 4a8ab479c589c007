--------------------------- MODULE RegistryProofs ---------------------------
(***************************************************************************)
(* Proofs about Registry, for all sets of tenants, keys and quotas and     *)
(* whichever saves fail.                                                   *)
(***************************************************************************)
EXTENDS Registry, TLAPS

(* The common tail of AddUsage, SetQuota, Suspend, Resume and ResetPeriod  *)
(* keeps the invariant when the new tenant has the old one's key and its   *)
(* usage is no earlier.                                                    *)
LEMMA UpdateKeeps ==
    ASSUME RegInv, NEW id \in DOMAIN byID, NEW t \in Tenant, NEW saved \in BOOLEAN,
           t.hash = byID[id].hash, t.status # "deleted", NoLater(byID[id], t),
           Update(id, t, saved)
    PROVE  RegInv'
<1>. USE DEF RegInv
<1>1. /\ DOMAIN byID' = DOMAIN byID
      /\ byID'[id] = t
      /\ \A i \in DOMAIN byID : i # id => byID'[i] = byID[i]
      /\ byID' \in [DOMAIN byID -> Tenant]
  BY DEF Update, Put, RegTypeOK
<1>2. /\ DOMAIN store' = DOMAIN store
      /\ store'[id] \in {store[id], t}
      /\ \A i \in DOMAIN store : i # id => store'[i] = store[i]
      /\ store' \in [DOMAIN store -> Tenant]
  <2>1. CASE saved
    BY <2>1 DEF Update, Put, RegTypeOK, StoreCoversMemory
  <2>2. CASE ~saved
    BY <2>2 DEF Update, RegTypeOK
  <2>. QED  BY <2>1, <2>2
<1>3. byKey' = byKey
  BY DEF Update
<1>4. RegTypeOK'
  BY <1>1, <1>2, <1>3 DEF RegTypeOK
<1>5. KeyIndexInverse'
  BY <1>1, <1>3 DEF KeyIndexInverse
<1>6. StoreCoversMemory'
  BY <1>1, <1>2 DEF StoreCoversMemory
<1>7. StoreNeverAhead'
  <2>. SUFFICES ASSUME NEW i \in DOMAIN byID
                PROVE  NoLater(store'[i], byID'[i])
    BY <1>1, <1>2 DEF StoreNeverAhead
  <2>1. CASE i # id
    BY <2>1, <1>1, <1>2 DEF StoreNeverAhead, StoreCoversMemory
  <2>2. CASE i = id
    <3>1. store[id] \in Tenant /\ byID[id] \in Tenant
      BY DEF RegTypeOK, StoreCoversMemory
    <3>2. NoLater(store[id], byID[id])
      BY DEF StoreNeverAhead, StoreCoversMemory
    <3>3. NoLater(store[id], t) /\ NoLater(t, t)
      BY <3>1, <3>2 DEF NoLater, Tenant
    <3>. QED  BY <2>2, <3>3, <1>1, <1>2
  <2>. QED  BY <2>1, <2>2
<1>8. NoTombstone'
  BY <1>1, <1>2 DEF NoTombstone
<1>. QED  BY <1>4, <1>5, <1>6, <1>7, <1>8

(* The usage order is reflexive on tenants.                                *)
LEMMA NoLaterReflexive == \A t \in Tenant : NoLater(t, t)
BY DEF NoLater, Tenant

(* CreateTenant keeps the invariant: a new id and a new key, stored first. *)
LEMMA CreateTenantKeeps ==
    ASSUME RegInv, NEW id \in Ids, NEW key \in Keys, NEW q \in Quotas,
           NEW c \in Credits, NEW e \in Expires, NEW p \in Periods,
           CreateTenant(id, key, q, c, e, p)
    PROVE  RegInv'
<1>. USE DEF RegInv
<1>. DEFINE t == NewTenant(key, q, c, e, p)
<1>1. t \in Tenant /\ t.status = "active"
  BY RegistryAssumption DEF NewTenant, Tenant, Status, Reason
<1>2. /\ byID' = Put(byID, id, t) /\ store' = Put(store, id, t)
      /\ byKey' = Put(byKey, t.hash, id)
      /\ id \notin DOMAIN byID /\ t.hash \notin DOMAIN byKey
  BY DEF CreateTenant
<1>. HIDE DEF t
<1>3. RegTypeOK'
  BY <1>1, <1>2 DEF RegTypeOK, Put
<1>4. KeyIndexInverse'
  BY <1>2 DEF KeyIndexInverse, Put
<1>5. StoreCoversMemory'
  BY <1>2 DEF StoreCoversMemory, Put
<1>6. StoreNeverAhead'
  BY <1>1, <1>2, NoLaterReflexive DEF StoreNeverAhead, Put
<1>7. NoTombstone'
  BY <1>1, <1>2 DEF NoTombstone, Put
<1>. QED  BY <1>3, <1>4, <1>5, <1>6, <1>7

(* Delete keeps the invariant: the tenant leaves both indexes and the disk. *)
LEMMA DeleteKeeps ==
    ASSUME RegInv, NEW id \in Ids, Delete(id)
    PROVE  RegInv'
<1>. USE DEF RegInv, Delete, Without, Restrict
<1>1. RegTypeOK'
  BY DEF RegTypeOK
<1>2. KeyIndexInverse'
  BY DEF KeyIndexInverse
<1>3. StoreCoversMemory'
  BY DEF StoreCoversMemory
<1>4. StoreNeverAhead'
  BY DEF StoreNeverAhead
<1>5. NoTombstone'
  BY DEF NoTombstone
<1>. QED  BY <1>1, <1>2, <1>3, <1>4, <1>5

(* What Enforce does to a tenant it suspends.                              *)
LEMMA EnforcedFacts ==
    ASSUME NEW t \in Tenant, NEW now \in Int
    PROVE  /\ Enforced(t, now) \in Tenant
           /\ Enforced(t, now).hash = t.hash
           /\ Enforced(t, now).status = "suspended"
           /\ Enforced(t, now).used = t.used
           /\ Enforced(t, now).period = t.period
           /\ Enforced(t, now).quota = t.quota
           /\ Enforced(t, now).credit = t.credit
           /\ ~Expired(t, now) => Enforced(t, now).reason = "quota"
           /\ Expired(t, now) => Enforced(t, now).reason = "expired"
BY DEF Enforced, Suspended, Tenant, Status, Reason

(* The effect of Enforce on one tenant, in memory and on disk.             *)
LEMMA EnforceFacts ==
    ASSUME RegInv, NEW now \in Times, NEW saved, Enforce(now, saved)
    PROVE  /\ DOMAIN byID' = DOMAIN byID /\ DOMAIN store' = DOMAIN byID
           /\ byID' \in [DOMAIN byID -> Tenant]
           /\ store' \in [DOMAIN byID -> Tenant]
           /\ byKey' = byKey
           /\ \A i \in DOMAIN byID :
                 /\ byID'[i] \in {byID[i], Enforced(byID[i], now)}
                 /\ store'[i] \in {store[i], byID'[i]}
<1>. USE DEF RegInv
<1>1. DOMAIN byID' = DOMAIN byID /\ DOMAIN store = DOMAIN byID
  BY DEF Enforce, EnforcedTenants, StoreCoversMemory
<1>2. Changes(byID, now) \subseteq DOMAIN byID
  BY DEF Changes
<1>3. DOMAIN store' = DOMAIN byID
  BY <1>1, <1>2 DEF Enforce, EnforcedTenants, Persisted
<1>4. \A i \in DOMAIN byID : /\ byID'[i] \in {byID[i], Enforced(byID[i], now)}
                             /\ store'[i] \in {store[i], byID'[i]}
  BY <1>1, <1>2 DEF Enforce, EnforcedTenants, Persisted
<1>5. \A i \in DOMAIN byID : byID[i] \in Tenant /\ store[i] \in Tenant
                             /\ Enforced(byID[i], now) \in Tenant
  BY <1>1, EnforcedFacts, RegistryAssumption DEF RegTypeOK
<1>6. byID' \in [DOMAIN byID -> Tenant]
  BY <1>1, <1>4, <1>5 DEF Enforce, EnforcedTenants
<1>7. store' \in [DOMAIN byID -> Tenant]
  BY <1>3, <1>4, <1>5, <1>6 DEF Enforce, Persisted
<1>. QED  BY <1>1, <1>3, <1>4, <1>6, <1>7 DEF Enforce

(* Enforce keeps the invariant, whichever of its saves fail.               *)
LEMMA EnforceKeeps ==
    ASSUME RegInv, NEW now \in Times, NEW saved, Enforce(now, saved)
    PROVE  RegInv'
<1>. USE DEF RegInv
<1>0. \A i \in DOMAIN byID : byID[i] \in Tenant /\ store[i] \in Tenant /\ i \in DOMAIN store
  BY DEF RegTypeOK, StoreCoversMemory
<1>1. \A i \in DOMAIN byID :
         /\ byID'[i].hash = byID[i].hash /\ byID'[i].status # "deleted"
         /\ byID'[i].used = byID[i].used /\ byID'[i].period = byID[i].period
  BY <1>0, EnforceFacts, EnforcedFacts, RegistryAssumption DEF NoTombstone
<1>2. RegTypeOK'
  BY EnforceFacts DEF RegTypeOK
<1>3. KeyIndexInverse'
  BY <1>1, EnforceFacts DEF KeyIndexInverse
<1>4. StoreCoversMemory'
  BY <1>1, EnforceFacts DEF StoreCoversMemory
<1>5. StoreNeverAhead'
  <2>. SUFFICES ASSUME NEW i \in DOMAIN byID
                PROVE  NoLater(store'[i], byID'[i])
    BY EnforceFacts DEF StoreNeverAhead
  <2>1. NoLater(store[i], byID'[i])
    BY <1>0, <1>1 DEF StoreNeverAhead, NoLater
  <2>2. NoLater(byID'[i], byID'[i])
    BY NoLaterReflexive, EnforceFacts
  <2>. QED  BY <2>1, <2>2, EnforceFacts
<1>6. NoTombstone'
  BY <1>0, <1>1, EnforceFacts DEF NoTombstone
<1>. QED  BY <1>2, <1>3, <1>4, <1>5, <1>6

(* The key index rebuilt from disk is the one that was in memory.          *)
LEMMA RestartRebuildsKeys ==
    ASSUME RegInv, Restart
    PROVE  byKey' = byKey
<1>. USE DEF RegInv
<1>1. KeyedTenants(store) = DOMAIN byID
  BY DEF KeyedTenants, NoTombstone, StoreCoversMemory
<1>2. {store[i].hash : i \in KeyedTenants(store)} = DOMAIN byKey
  <2>1. \A i \in DOMAIN byID : store[i].hash = byID[i].hash
    BY DEF StoreCoversMemory
  <2>2. \A i \in DOMAIN byID : store[i].hash \in DOMAIN byKey
    BY <2>1 DEF KeyIndexInverse
  <2>3. \A h \in DOMAIN byKey : byKey[h] \in DOMAIN byID /\ h = store[byKey[h]].hash
    BY <2>1 DEF KeyIndexInverse
  <2>. QED  BY <1>1, <2>2, <2>3
<1>3. /\ byKey' \in [DOMAIN byKey -> DOMAIN byID]
      /\ \A h \in DOMAIN byKey : store[byKey'[h]].hash = h
  BY <1>1, <1>2 DEF Restart, KeyIndexes
<1>4. \A h \in DOMAIN byKey : byKey'[h] = byKey[h]
  <2>. SUFFICES ASSUME NEW h \in DOMAIN byKey
                PROVE  byKey'[h] = byKey[h]
    OBVIOUS
  <2>1. byKey'[h] \in DOMAIN byID /\ byID[byKey'[h]].hash = h
    BY <1>3 DEF StoreCoversMemory
  <2>. QED  BY <2>1 DEF KeyIndexInverse
<1>. QED  BY <1>3, <1>4 DEF RegTypeOK

(* Loading the store again keeps the invariant.                            *)
LEMMA RestartKeeps ==
    ASSUME RegInv, Restart
    PROVE  RegInv'
<1>. USE DEF RegInv
<1>1. byID' = store /\ store' = store /\ byKey' = byKey
  BY RestartRebuildsKeys DEF Restart
<1>2. RegTypeOK' /\ NoTombstone' /\ StoreCoversMemory'
  BY <1>1 DEF RegTypeOK, NoTombstone, StoreCoversMemory
<1>3. KeyIndexInverse'
  BY <1>1 DEF KeyIndexInverse, StoreCoversMemory
<1>4. StoreNeverAhead'
  BY <1>1, NoLaterReflexive DEF StoreNeverAhead, RegTypeOK
<1>. QED  BY <1>2, <1>3, <1>4
-----------------------------------------------------------------------------
(* A call that ends in Update: which tenant is written, and the facts that *)
(* UpdateKeeps and the billing theorem ask for.                            *)
Rewrites(id, t, saved) ==
    /\ id \in DOMAIN byID /\ t \in Tenant /\ saved \in BOOLEAN
    /\ t.hash = byID[id].hash /\ t.status # "deleted" /\ NoLater(byID[id], t)
    /\ t.status = "suspended" => byID[id].status = "suspended" \/ t.reason = "manual"
    /\ Update(id, t, saved)

(* The tenants those calls write keep the key and do not lose usage.       *)
LEMMA RewrittenTenants ==
    ASSUME NEW u \in Tenant
    PROVE  /\ \A d \in Int : LET t == MoreUsed(u, d) IN
                 t \in Tenant /\ NoLater(u, t) /\ t.hash = u.hash /\ t.status = u.status
           /\ \A q \in Int, c \in Int, e \in Int : LET t == WithQuota(u, q, c, e) IN
                 t \in Tenant /\ NoLater(u, t) /\ t.hash = u.hash /\ t.status = u.status
           /\ LET t == Suspended(u, "manual") IN
                 t \in Tenant /\ NoLater(u, t) /\ t.hash = u.hash
                 /\ t.status = "suspended" /\ t.reason = "manual"
           /\ \A t \in {Activated(u), NextPeriod(u)} :
                 t \in Tenant /\ NoLater(u, t) /\ t.hash = u.hash /\ t.status = "active"
<1>. USE DEF Tenant, NoLater, Status, Reason
<1>1. \A d \in Int : LET t == MoreUsed(u, d) IN
         t \in Tenant /\ NoLater(u, t) /\ t.hash = u.hash /\ t.status = u.status
  BY DEF MoreUsed
<1>2. \A q \in Int, c \in Int, e \in Int : LET t == WithQuota(u, q, c, e) IN
         t \in Tenant /\ NoLater(u, t) /\ t.hash = u.hash /\ t.status = u.status
  <2>. TAKE q \in Int, c \in Int, e \in Int
  <2>1. WithQuota(u, q, c, e) \in Tenant
    BY DEF WithQuota
  <2>2. /\ WithQuota(u, q, c, e).hash = u.hash
        /\ WithQuota(u, q, c, e).status = u.status
    BY DEF WithQuota
  <2>3. NoLater(u, WithQuota(u, q, c, e))
    BY DEF WithQuota
  <2>. QED  BY <2>1, <2>2, <2>3
<1>3. LET t == Suspended(u, "manual") IN
         t \in Tenant /\ NoLater(u, t) /\ t.hash = u.hash
         /\ t.status = "suspended" /\ t.reason = "manual"
  <2>1. Suspended(u, "manual") \in Tenant
    BY DEF Suspended
  <2>2. /\ Suspended(u, "manual").hash = u.hash
        /\ Suspended(u, "manual").status = "suspended"
        /\ Suspended(u, "manual").reason = "manual"
    BY DEF Suspended
  <2>3. NoLater(u, Suspended(u, "manual"))
    BY DEF Suspended
  <2>. QED  BY <2>1, <2>2, <2>3
<1>4. \A t \in {Activated(u), NextPeriod(u)} :
         t \in Tenant /\ NoLater(u, t) /\ t.hash = u.hash /\ t.status = "active"
  <2>1. /\ Activated(u) \in Tenant
        /\ Activated(u).hash = u.hash /\ Activated(u).status = "active"
        /\ Activated(u).used = u.used /\ Activated(u).period = u.period
    BY DEF Activated
  <2>2. NextPeriod(u) \in Tenant
    <3>1. \A a \in Tenant, n \in Nat : [a EXCEPT !.used = 0, !.period = n] \in Tenant
      OBVIOUS
    <3>2. NextPeriod(u) = [Activated(u) EXCEPT !.used = 0, !.period = u.period + 1]
      BY <2>1 DEF NextPeriod
    <3>3. u.period + 1 \in Nat
      OBVIOUS
    <3>. HIDE DEF Tenant, Status, Reason
    <3>. QED  BY <2>1, <3>1, <3>2, <3>3
  <2>3. /\ NextPeriod(u).hash = u.hash /\ NextPeriod(u).status = "active"
        /\ NextPeriod(u).period = u.period + 1
    BY <2>1 DEF NextPeriod
  <2>. QED  BY <2>1, <2>2, <2>3
<1>. QED  BY <1>1, <1>2, <1>3, <1>4

(* Every call of a running registry creates, deletes or enforces, or is a  *)
(* rewrite of one tenant.                                                  *)
LEMMA ServeCases ==
    ASSUME RegInv, Serve
    PROVE  \/ \E id \in Ids, key \in Keys, q \in Quotas, c \in Credits, e \in Expires,
                 p \in Periods : CreateTenant(id, key, q, c, e, p)
           \/ \E id \in Ids : Delete(id)
           \/ \E now \in Times, saved \in EnforceSaves : Enforce(now, saved)
           \/ \E id \in Ids, t \in Tenant, saved \in BOOLEAN : Rewrites(id, t, saved)
<1>. USE DEF RegInv
<1>0. /\ \A i \in DOMAIN byID : byID[i] \in Tenant /\ byID[i].status # "deleted"
      /\ SaveOutcomes \subseteq BOOLEAN
  BY DEF RegTypeOK, NoTombstone, SaveOutcomes
<1>1. ASSUME NEW id \in Ids, NEW d \in Deltas, NEW ok \in SaveOutcomes, AddUsage(id, d, ok)
      PROVE  \E t \in Tenant : Rewrites(id, t, ok)
  <2>1. id \in DOMAIN byID /\ Update(id, MoreUsed(byID[id], d), ok)
    BY <1>1 DEF AddUsage
  <2>. QED  BY <1>0, <2>1, RewrittenTenants, RegistryAssumption DEF Rewrites
<1>2. ASSUME NEW id \in Ids, NEW q \in Quotas, NEW c \in Credits, NEW e \in Expires,
             NEW ok \in SaveOutcomes, SetQuota(id, q, c, e, ok)
      PROVE  \E t \in Tenant : Rewrites(id, t, ok)
  <2>1. id \in DOMAIN byID /\ Update(id, WithQuota(byID[id], q, c, e), ok)
    BY <1>2 DEF SetQuota
  <2>. QED  BY <1>0, <2>1, RewrittenTenants, RegistryAssumption DEF Rewrites
<1>3. ASSUME NEW id \in Ids, NEW ok \in SaveOutcomes, Suspend(id, "manual", ok)
      PROVE  \E t \in Tenant : Rewrites(id, t, ok)
  <2>1. id \in DOMAIN byID /\ Update(id, Suspended(byID[id], "manual"), ok)
    BY <1>3 DEF Suspend
  <2>. QED  BY <1>0, <2>1, RewrittenTenants, RegistryAssumption DEF Rewrites
<1>4. ASSUME NEW id \in Ids, NEW ok \in SaveOutcomes, Resume(id, ok)
      PROVE  \E t \in Tenant : Rewrites(id, t, ok)
  <2>1. id \in DOMAIN byID /\ Update(id, Activated(byID[id]), ok)
    BY <1>4 DEF Resume
  <2>. QED  BY <1>0, <2>1, RewrittenTenants, RegistryAssumption DEF Rewrites
<1>5. ASSUME NEW id \in Ids, NEW ok \in SaveOutcomes, ResetPeriod(id, ok)
      PROVE  \E t \in Tenant : Rewrites(id, t, ok)
  <2>1. id \in DOMAIN byID /\ Update(id, NextPeriod(byID[id]), ok)
    BY <1>5 DEF ResetPeriod
  <2>. QED  BY <1>0, <2>1, RewrittenTenants, RegistryAssumption DEF Rewrites
<1>. QED  BY <1>0, <1>1, <1>2, <1>3, <1>4, <1>5 DEF Serve
-----------------------------------------------------------------------------
(* The registry's state is well formed, its two indexes are inverse to     *)
(* each other, disk and memory hold the same tenants and keys, and the     *)
(* disk is never ahead of memory, whichever saves fail and whenever the    *)
(* agent restarts.                                                         *)
THEOREM RegistrySafe == RegSpec => []RegInv
<1>1. RegInit => RegInv
  BY DEF RegInit, EmptyMap, RegInv, RegTypeOK, KeyIndexInverse, StoreCoversMemory,
         StoreNeverAhead, NoTombstone
<1>2. RegInv /\ [RegNext]_regVars => RegInv'
  <2>. SUFFICES ASSUME RegInv, [RegNext]_regVars
                PROVE  RegInv'
    OBVIOUS
  <2>1. CASE Serve
    BY <2>1, ServeCases, CreateTenantKeeps, DeleteKeeps, EnforceKeeps, UpdateKeeps
       DEF Rewrites
  <2>2. CASE Restart
    BY <2>2, RestartKeeps
  <2>3. CASE UNCHANGED regVars
    BY <2>3 DEF regVars, RegInv, RegTypeOK, KeyIndexInverse, StoreCoversMemory,
                StoreNeverAhead, NoTombstone
  <2>. QED  BY <2>1, <2>2, <2>3 DEF RegNext
<1>. QED  BY <1>1, <1>2, PTL DEF RegSpec

(* Type correctness of the registry.                                       *)
THEOREM RegTypeCorrect == RegSpec => []RegTypeOK
<1>1. RegInv => RegTypeOK
  BY DEF RegInv
<1>. QED  BY <1>1, RegistrySafe, PTL

(* A key belongs to exactly one tenant, the one it was created with, in    *)
(* every state of the registry.                                            *)
THEOREM KeysIdentifyTenants == RegSpec => []KeyIndexInverse
<1>1. RegInv => KeyIndexInverse
  BY DEF RegInv
<1>. QED  BY <1>1, RegistrySafe, PTL

(* A restart never charges a tenant for bytes it was not charged before.   *)
THEOREM DiskNeverAhead == RegSpec => []StoreNeverAhead
<1>1. RegInv => StoreNeverAhead
  BY DEF RegInv
<1>. QED  BY <1>1, RegistrySafe, PTL

(* A restart gives every API key back to its tenant.                       *)
THEOREM RestartsKeepKeys == RegSpec => RestartKeepsKeys
<1>1. RegInv /\ [RegNext]_regVars => [Restart => byKey' = byKey]_regVars
  BY RestartRebuildsKeys
<1>. QED  BY <1>1, RegistrySafe, PTL DEF RegSpec, RestartKeepsKeys

(* No call of a running registry loses counted bytes.                      *)
THEOREM UsageNeverLost == RegSpec => BillingMonotone
<1>. DEFINE Grows == \A i \in DOMAIN byID \cap DOMAIN byID' : NoLater(byID[i], byID'[i])
<1>1. RegInv /\ [RegNext]_regVars => [~Restart => Grows]_regVars
  <2>. SUFFICES ASSUME RegInv, Serve
                PROVE  Grows
    BY DEF RegNext
  <2>0. \A i \in DOMAIN byID : byID[i] \in Tenant /\ NoLater(byID[i], byID[i])
    BY NoLaterReflexive DEF RegInv, RegTypeOK
  <2>1. ASSUME NEW id \in Ids, NEW t, byID' = Put(byID, id, t),
               id \in DOMAIN byID => NoLater(byID[id], t)
        PROVE  Grows
    BY <2>0, <2>1 DEF Put
  <2>2. ASSUME NEW id \in Ids, Delete(id)
        PROVE  Grows
    BY <2>0, <2>2 DEF Delete, Without, Restrict
  <2>3. ASSUME NEW now \in Times, NEW saved, Enforce(now, saved)
        PROVE  Grows
    <3>1. \A i \in DOMAIN byID : byID'[i].used = byID[i].used
                                 /\ byID'[i].period = byID[i].period
      BY <2>0, <2>3, EnforceFacts, EnforcedFacts, RegistryAssumption
    <3>. QED  BY <2>0, <3>1 DEF NoLater
  <2>. QED  BY <2>1, <2>2, <2>3, ServeCases DEF CreateTenant, Rewrites, Update
<1>. QED  BY <1>1, RegistrySafe, PTL DEF RegSpec, BillingMonotone
=============================================================================
