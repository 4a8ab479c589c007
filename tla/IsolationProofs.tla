-------------------------- MODULE IsolationProofs ---------------------------
(***************************************************************************)
(* Proof that the Xray process never accepts one credential for users of   *)
(* two tenants, and nobody for a tenant that is not active, as long as     *)
(* calls on the core and saves succeed and tenant ids contain no dots.     *)
(*                                                                         *)
(* The argument: whatever the process accepts, or would load when it is    *)
(* restarted, is on record for an active tenant (LiveInv); and the records *)
(* of two tenants have no credential in common (RecordsStayIsolated).      *)
(***************************************************************************)
EXTENDS ManagerProofs

(* Credential c of user n is on record for an active tenant.               *)
Recorded(n, c) ==
    \E id \in Ids : Active(id) /\ n \in DOMAIN users[id] /\ c \in users[id][n]

LiveRecorded == \A n \in AllNames : \A c \in live[n] \cup clients[n] : Recorded(n, c)

(* No process, no users.                                                   *)
NobodyOffline == ~core => \A n \in AllNames : live[n] = {} /\ clients[n] = {}

(* Users are on record under emails of their tenant.                       *)
OwnNames == \A id \in Ids : DOMAIN users[id] \subseteq Names(id)

(* Tenants are records with a status, in memory and on disk.               *)
StatusKnown ==
    /\ \A i \in DOMAIN byID : "status" \in DOMAIN byID[i]
    /\ \A i \in DOMAIN store : "status" \in DOMAIN store[i]

LiveInv ==
    /\ RecInv /\ StatusKnown /\ OwnNames
    /\ LiveRecorded /\ NobodyOffline /\ core \in BOOLEAN

Reliable == NoDots /\ ~CoreMayFail /\ ~StoreMayFail
-----------------------------------------------------------------------------
(* With a core whose calls succeed, nothing is stuck and loops reach every *)
(* user.                                                                   *)
LEMMA CallsSucceed ==
    ASSUME ~CoreMayFail
    PROVE  /\ \A S : Stuck(S) = {{}}
           /\ \A us, applies : Loops(us, applies) = {[done |-> DOMAIN us, failed |-> {}]}
<1>1. ASSUME NEW S PROVE Stuck(S) = {{}}
  BY DEF Stuck
<1>2. ASSUME NEW us, NEW applies
      PROVE  Loops(us, applies) = {[done |-> DOMAIN us, failed |-> {}]}
  BY DEF Loops
<1> QED
  BY <1>1, <1>2

(* What the process accepts after calls that succeed is on record, if the  *)
(* users synced are and those not touched still are.                       *)
LEMMA CallsKeepLive ==
    ASSUME NEW removed, NEW synced, CoreCalls(removed, synced, {}, {}),
           \A n \in AllNames : n \in DOMAIN synced => \A c \in synced[n] : Recorded(n, c)',
           \A n \in AllNames : (n \notin removed /\ n \notin DOMAIN synced)
               => \A c \in live[n] \cup clients[n] : Recorded(n, c)'
    PROVE  LiveRecorded'
<1> SUFFICES ASSUME NEW n \in AllNames, NEW c \in live'[n] \cup clients'[n]
             PROVE  Recorded(n, c)'
  BY DEF LiveRecorded, AllNames, Names, namespacedEmail
<1>1. CASE n \in DOMAIN synced
  <2>1. live'[n] = synced[n] \cap Usable /\ clients'[n] = synced[n] \cap Usable
    BY <1>1 DEF CoreCalls
  <2> QED
    BY <1>1, <2>1
<1>2. CASE n \notin DOMAIN synced /\ n \in removed
  <2>1. live'[n] = {} /\ clients'[n] = {}
    BY <1>2 DEF CoreCalls
  <2> QED
    BY <2>1
<1>3. CASE n \notin DOMAIN synced /\ n \notin removed
  <2>1. live'[n] = live[n] /\ clients'[n] = clients[n]
    BY <1>3 DEF CoreCalls
  <2> QED
    BY <1>3, <2>1
<1> QED
  BY <1>1, <1>2, <1>3

(* A core that is not running stays without users.                         *)
LEMMA CallsKeepOffline ==
    ASSUME NobodyOffline, NEW removed, NEW synced, CoreCalls(removed, synced, {}, {}),
           core' = core, ~core => DOMAIN synced = {}
    PROVE  NobodyOffline'
<1> SUFFICES ASSUME ~core, NEW n \in AllNames
             PROVE  live'[n] = {} /\ clients'[n] = {}
  BY DEF NobodyOffline, AllNames, Names, namespacedEmail
<1> QED
  BY DEF CoreCalls, NobodyOffline
-----------------------------------------------------------------------------
(* The steps as seen from the records: who is active after them.           *)

(* No tenant outside S stops being active.                                 *)
StillActive(S) == \A t \in Ids \ S : Active(t) => Active(t)'

(* A method that writes one tenant changes the status of no other.         *)
LEMMA UpdateActive ==
    ASSUME NEW id \in Ids, NEW u, NEW saved, Update(id, u, saved)
    PROVE  /\ StillActive({id})
           /\ u.status = "active" => Active(id)'
           /\ (StatusKnown /\ "status" \in DOMAIN u) => StatusKnown'
<1>1. /\ DOMAIN byID' = DOMAIN byID \cup {id} /\ byID'[id] = u
      /\ \A t \in DOMAIN byID : t # id => byID'[t] = byID[t]
  BY DEF Update, Put
<1>2. \A t \in DOMAIN store' : \/ t \in DOMAIN store /\ store'[t] = store[t]
                               \/ store'[t] = u
  BY DEF Update, Put
<1>3. StillActive({id})
  BY <1>1 DEF StillActive, Active
<1>4. u.status = "active" => Active(id)'
  BY <1>1 DEF Active
<1>5. (StatusKnown /\ "status" \in DOMAIN u) => StatusKnown'
  BY <1>1, <1>2 DEF StatusKnown
<1> QED
  BY <1>3, <1>4, <1>5

(* What the registry's methods write has a status, and which.              *)
LEMMA WrittenStatus ==
    ASSUME NEW u, "status" \in DOMAIN u
    PROVE  /\ \A q, c, e : /\ "status" \in DOMAIN WithQuota(u, q, c, e)
                          /\ WithQuota(u, q, c, e).status = u.status
           /\ \A r : "status" \in DOMAIN Suspended(u, r)
           /\ "status" \in DOMAIN Activated(u) /\ Activated(u).status = "active"
           /\ "status" \in DOMAIN NextPeriod(u) /\ NextPeriod(u).status = "active"
<1>1. ASSUME NEW q, NEW c, NEW e
      PROVE  "status" \in DOMAIN WithQuota(u, q, c, e) /\ WithQuota(u, q, c, e).status = u.status
  BY DEF WithQuota
<1>2. ASSUME NEW r PROVE "status" \in DOMAIN Suspended(u, r)
  BY DEF Suspended
<1>3. "status" \in DOMAIN Activated(u) /\ Activated(u).status = "active"
  BY DEF Activated
<1>4. "status" \in DOMAIN NextPeriod(u) /\ NextPeriod(u).status = "active"
  BY DEF NextPeriod, Activated
<1> QED
  BY <1>1, <1>2, <1>3, <1>4

(* Billing changes no status.                                              *)
LEMMA BilledStatus ==
    ASSUME StatusKnown, NEW S
    PROVE  /\ DOMAIN Billed(S) = DOMAIN byID
           /\ \A i \in DOMAIN byID : /\ "status" \in DOMAIN Billed(S)[i]
                                     /\ Billed(S)[i].status = byID[i].status
<1>1. ASSUME NEW u, "status" \in DOMAIN u, NEW d
      PROVE  /\ "status" \in DOMAIN Capped(MoreUsed(u, d))
             /\ Capped(MoreUsed(u, d)).status = u.status
  BY <1>1 DEF Capped, MoreUsed
<1>2. DOMAIN Billed(S) = DOMAIN byID
  BY DEF Billed
<1>3. ASSUME NEW i \in DOMAIN byID
      PROVE  "status" \in DOMAIN Billed(S)[i] /\ Billed(S)[i].status = byID[i].status
  <2>1. Billed(S)[i] = IF i \in S THEN Capped(MoreUsed(byID[i], Bill(i))) ELSE byID[i]
    BY DEF Billed
  <2>2. "status" \in DOMAIN byID[i]
    BY DEF StatusKnown
  <2> QED
    BY <1>1, <2>1, <2>2
<1> QED
  BY <1>2, <1>3

(* Saving tenants that have a status keeps the disk in order.              *)
LEMMA PersistedStatus ==
    ASSUME NEW disk, NEW tenants, NEW ids, ids \subseteq DOMAIN tenants,
           \A i \in DOMAIN disk : "status" \in DOMAIN disk[i],
           \A i \in DOMAIN tenants : "status" \in DOMAIN tenants[i]
    PROVE  \A i \in DOMAIN Persisted(disk, tenants, ids) :
               "status" \in DOMAIN Persisted(disk, tenants, ids)[i]
BY DEF Persisted

(* Enforce leaves every tenant active that it does not report.             *)
LEMMA EnforceActive ==
    ASSUME NEW tenants, NEW disk, NEW now, NEW saved,
           DOMAIN tenants = DOMAIN byID,
           \A i \in DOMAIN tenants : /\ "status" \in DOMAIN tenants[i]
                                     /\ tenants[i].status = byID[i].status,
           \A i \in DOMAIN disk : "status" \in DOMAIN disk[i],
           byID' = EnforcedTenants(tenants, now),
           store' = Persisted(disk, byID', Changes(tenants, now) \cap saved)
    PROVE  StillActive(Changes(tenants, now)) /\ StatusKnown'
<1>1. DOMAIN byID' = DOMAIN tenants
  BY DEF EnforcedTenants
<1>2. \A i \in DOMAIN tenants :
         byID'[i] = IF i \in Changes(tenants, now) THEN Enforced(tenants[i], now) ELSE tenants[i]
  BY DEF EnforcedTenants
<1>3. \A i \in DOMAIN byID' : "status" \in DOMAIN byID'[i]
  BY <1>1, <1>2 DEF Enforced, Suspended
<1>4. StillActive(Changes(tenants, now))
  BY <1>1, <1>2 DEF StillActive, Active
<1>5. Changes(tenants, now) \cap saved \subseteq DOMAIN byID'
  BY <1>1 DEF Changes
<1>6. \A i \in DOMAIN store' : "status" \in DOMAIN store'[i]
  BY <1>3, <1>5, PersistedStatus
<1> QED
  BY <1>3, <1>4, <1>6 DEF StatusKnown
-----------------------------------------------------------------------------
(* Steps that leave the core and the records alone and suspend nobody.     *)
LEMMA QuietKeeps ==
    ASSUME LiveInv, UNCHANGED <<users, live, clients, core>>, StillActive({})
    PROVE  LiveRecorded' /\ NobodyOffline' /\ OwnNames' /\ (core \in BOOLEAN)'
<1>1. \A n, c : Recorded(n, c) => Recorded(n, c)'
  BY DEF Recorded, StillActive
<1>2. LiveRecorded'
  BY <1>1 DEF LiveInv, LiveRecorded, AllNames, Names, namespacedEmail
<1>3. NobodyOffline' /\ OwnNames' /\ (core \in BOOLEAN)'
  BY DEF LiveInv, NobodyOffline, OwnNames, AllNames, Names, namespacedEmail
<1> QED
  BY <1>2, <1>3

(* Steps that take the users of the tenants in S out of the core and       *)
(* suspend or drop nobody else.                                            *)
LEMMA RemovalKeeps ==
    ASSUME Reliable, LiveInv, NEW S, NEW removed,
           \A t \in Ids \cap S : DOMAIN users[t] \subseteq removed,
           CoreCalls(removed, EmptyMap, {}, {}), StillActive(S), core' = core,
           \A t \in Ids \ S : users'[t] = users[t]
    PROVE  LiveRecorded' /\ NobodyOffline'
<1>1. DOMAIN EmptyMap = {}
  BY DEF EmptyMap
<1>2. ASSUME NEW n \in AllNames, n \notin removed, NEW c \in live[n] \cup clients[n]
      PROVE  Recorded(n, c)'
  <2>1. PICK t \in Ids : Active(t) /\ n \in DOMAIN users[t] /\ c \in users[t][n]
    BY <1>2 DEF LiveInv, LiveRecorded, Recorded
  <2>2. t \notin S
    BY <1>2, <2>1
  <2> QED
    BY <2>1, <2>2 DEF Recorded, StillActive
<1>3. LiveRecorded'
  BY <1>1, <1>2, CallsKeepLive
<1>4. NobodyOffline'
  BY <1>1, CallsKeepOffline DEF LiveInv
<1> QED
  BY <1>3, <1>4
-----------------------------------------------------------------------------
(* One lemma per operation that changes the users of the core.             *)

(* What a loop has synced, when calls succeed.                             *)
LEMMA SyncedAll ==
    ASSUME NEW us, NEW applies
    PROVE  LET synced == Synced(us, applies, [done |-> DOMAIN us, failed |-> {}]) IN
           /\ applies => DOMAIN synced = DOMAIN us /\ \A n \in DOMAIN us : synced[n] = us[n]
           /\ ~applies => DOMAIN synced = {}
BY DEF Synced, Restrict, EmptyMap

(* SetTenantUsers leaves live what it has synced and what others have.     *)
LEMMA SetTenantUsersLive ==
    ASSUME Reliable, LiveInv, NEW id \in Ids, NEW us \in UserSets(id), SetTenantUsers(id, us)
    PROVE  LiveRecorded' /\ NobodyOffline' /\ OwnNames'
<1> DEFINE applies == Active(id) /\ core
           gone == DOMAIN users[id] \ DOMAIN us
           synced == Synced(us, applies, [done |-> DOMAIN us, failed |-> {}])
<1>1. /\ CoreCalls(gone, synced, {}, {})
      /\ users' = [users EXCEPT ![id] = us] /\ UNCHANGED <<byID, core>>
  <2>1. PICK loop \in Loops(us, applies), stuck \in Stuck(gone \cup DOMAIN us) :
           /\ CoreCalls(gone, Synced(us, applies, loop), loop.failed, stuck)
           /\ users' = IF loop.failed = {} THEN [users EXCEPT ![id] = us] ELSE users
    BY DEF SetTenantUsers
  <2>2. loop = [done |-> DOMAIN us, failed |-> {}] /\ stuck = {}
    BY CallsSucceed DEF Reliable
  <2>3. loop.failed = {}
    BY <2>2
  <2>4. UNCHANGED <<byID, core>>
    BY DEF SetTenantUsers, regVars
  <2> QED
    BY <2>1, <2>2, <2>3, <2>4
<1>2. /\ applies => DOMAIN synced = DOMAIN us /\ \A n \in DOMAIN us : synced[n] = us[n]
      /\ ~applies => DOMAIN synced = {}
  BY SyncedAll
<1>3. users'[id] = us /\ (\A t \in Ids \ {id} : users'[t] = users[t]) /\ DOMAIN us \subseteq Names(id)
  BY <1>1 DEF LiveInv, RecInv, UserSets
<1>4. \A t : Active(t)' <=> Active(t)
  BY <1>1 DEF Active
<1> HIDE DEF synced
<1>5. ASSUME NEW n \in AllNames, n \in DOMAIN synced, NEW c \in synced[n]
      PROVE  Recorded(n, c)'
  BY <1>5, <1>2, <1>3, <1>4 DEF Recorded
<1>6. ASSUME NEW n \in AllNames, n \notin gone, n \notin DOMAIN synced,
             NEW c \in live[n] \cup clients[n]
      PROVE  Recorded(n, c)'
  <2>1. PICK t \in Ids : Active(t) /\ n \in DOMAIN users[t] /\ c \in users[t][n]
    BY <1>6 DEF LiveInv, LiveRecorded, Recorded
  <2>2. core
    BY <1>6 DEF LiveInv, NobodyOffline
  <2>3. t # id
    BY <1>6, <1>2, <2>1, <2>2
  <2> QED
    BY <2>1, <2>3, <1>3, <1>4 DEF Recorded
<1>7. LiveRecorded'
  BY <1>1, <1>5, <1>6, CallsKeepLive
<1>8. NobodyOffline'
  BY <1>1, <1>2, CallsKeepOffline DEF LiveInv
<1>9. OwnNames'
  BY <1>3 DEF LiveInv, OwnNames, Names, namespacedEmail
<1> QED
  BY <1>7, <1>8, <1>9

(* An added user is live with the credentials on record.                   *)
LEMMA AddTenantUserLive ==
    ASSUME Reliable, LiveInv, NEW id \in Ids, NEW m \in Names(id), NEW cs \in SUBSET Creds,
           AddTenantUser(id, m, cs)
    PROVE  LiveRecorded' /\ NobodyOffline' /\ OwnNames'
<1> DEFINE us == Put(EmptyMap, m, cs)
           applies == Active(id) /\ core
           synced == Synced(us, applies, [done |-> DOMAIN us, failed |-> {}])
<1>1. /\ CoreCalls({}, synced, {}, {})
      /\ users' = [users EXCEPT ![id] = Put(@, m, cs)] /\ UNCHANGED <<byID, core>>
  <2>1. PICK loop \in Loops(us, applies), stuck \in Stuck({m}) :
           CoreCalls({}, Synced(us, applies, loop), loop.failed, stuck)
    BY DEF AddTenantUser
  <2>2. loop = [done |-> DOMAIN us, failed |-> {}] /\ stuck = {}
    BY CallsSucceed DEF Reliable
  <2>3. loop.failed = {}
    BY <2>2
  <2>4. users' = [users EXCEPT ![id] = Put(@, m, cs)] /\ UNCHANGED <<byID, core>>
    BY DEF AddTenantUser, regVars
  <2> QED
    BY <2>1, <2>2, <2>3, <2>4
<1>2. DOMAIN us = {m} /\ us[m] = cs
  BY DEF Put, EmptyMap
<1>3. /\ applies => DOMAIN synced = {m} /\ synced[m] = cs
      /\ ~applies => DOMAIN synced = {}
  BY <1>2, SyncedAll
<1>4. /\ users'[id] = Put(users[id], m, cs) /\ (\A t \in Ids \ {id} : users'[t] = users[t])
      /\ DOMAIN users'[id] = DOMAIN users[id] \cup {m} /\ users'[id][m] = cs
      /\ \A n \in DOMAIN users[id] : n # m => users'[id][n] = users[id][n]
  BY <1>1 DEF LiveInv, RecInv, Put
<1>5. \A t : Active(t)' <=> Active(t)
  BY <1>1 DEF Active
<1> HIDE DEF synced
<1>6. ASSUME NEW n \in AllNames, n \in DOMAIN synced, NEW c \in synced[n]
      PROVE  Recorded(n, c)'
  BY <1>6, <1>3, <1>4, <1>5 DEF Recorded
<1>7. ASSUME NEW n \in AllNames, n \notin DOMAIN synced, NEW c \in live[n] \cup clients[n]
      PROVE  Recorded(n, c)'
  <2>1. PICK t \in Ids : Active(t) /\ n \in DOMAIN users[t] /\ c \in users[t][n]
    BY <1>7 DEF LiveInv, LiveRecorded, Recorded
  <2>2. core
    BY <1>7 DEF LiveInv, NobodyOffline
  <2>3. t = id => n # m
    BY <1>7, <1>3, <2>1, <2>2
  <2>4. n \in DOMAIN users'[t] /\ users'[t][n] = users[t][n]
    BY <2>1, <2>3, <1>4
  <2> QED
    BY <2>1, <2>4, <1>5 DEF Recorded
<1>8. LiveRecorded'
  BY <1>1, <1>6, <1>7, CallsKeepLive
<1>9. NobodyOffline'
  BY <1>1, <1>3, CallsKeepOffline DEF LiveInv
<1>10. OwnNames'
  BY <1>4 DEF LiveInv, OwnNames, Names, namespacedEmail
<1> QED
  BY <1>8, <1>9, <1>10

(* SuspendTenant takes the tenant's users out of the core.                 *)
LEMMA SuspendTenantLive ==
    ASSUME Reliable, LiveInv, NEW id \in Ids, SuspendTenant(id, TRUE)
    PROVE  LiveRecorded' /\ NobodyOffline' /\ StatusKnown'
<1>1. /\ id \in DOMAIN byID /\ Update(id, Suspended(byID[id], "manual"), TRUE)
      /\ UNCHANGED <<users, core>>
  BY DEF SuspendTenant, Suspend, tables
<1>2. CoreCalls(DOMAIN users[id], EmptyMap, {}, {})
  BY CallsSucceed DEF SuspendTenant, Reliable
<1>3. "status" \in DOMAIN Suspended(byID[id], "manual")
  BY <1>1, WrittenStatus DEF LiveInv, StatusKnown
<1>4. StillActive({id}) /\ StatusKnown'
  BY <1>1, <1>3, UpdateActive DEF LiveInv
<1>5. \A t \in Ids \cap {id} : DOMAIN users[t] \subseteq DOMAIN users[id]
  OBVIOUS
<1>6. \A t \in Ids \ {id} : users'[t] = users[t]
  BY <1>1
<1> QED
  BY <1>1, <1>2, <1>4, <1>5, <1>6, RemovalKeeps

(* ResumeTenant adds back users of a tenant it has made active.            *)
LEMMA ResumeTenantLive ==
    ASSUME Reliable, LiveInv, NEW id \in Ids, ResumeTenant(id, TRUE)
    PROVE  LiveRecorded' /\ NobodyOffline' /\ StatusKnown'
<1> DEFINE synced == Synced(users[id], core, [done |-> DOMAIN users[id], failed |-> {}])
<1>1. /\ id \in DOMAIN byID /\ Update(id, Activated(byID[id]), TRUE)
      /\ UNCHANGED <<users, core>>
  BY DEF ResumeTenant, Resume, tables
<1>2. CoreCalls({}, synced, {}, {})
  <2>1. PICK loop \in Loops(users[id], core), stuck \in Stuck(DOMAIN users[id]) :
           CoreCalls({}, Synced(users[id], core, loop), loop.failed, stuck)
    BY DEF ResumeTenant
  <2>2. loop = [done |-> DOMAIN users[id], failed |-> {}] /\ stuck = {}
    BY CallsSucceed DEF Reliable
  <2>3. loop.failed = {}
    BY <2>2
  <2> QED
    BY <2>1, <2>2, <2>3
<1>3. "status" \in DOMAIN Activated(byID[id]) /\ Activated(byID[id]).status = "active"
  BY <1>1, WrittenStatus DEF LiveInv, StatusKnown
<1>4. StillActive({id}) /\ Active(id)' /\ StatusKnown'
  BY <1>1, <1>3, UpdateActive DEF LiveInv
<1>5. \A n, c : Recorded(n, c) => Recorded(n, c)'
  BY <1>1, <1>4 DEF Recorded, StillActive
<1>6. /\ core => DOMAIN synced = DOMAIN users[id]
                 /\ \A n \in DOMAIN users[id] : synced[n] = users[id][n]
      /\ ~core => DOMAIN synced = {}
  BY SyncedAll
<1> HIDE DEF synced
<1>7. ASSUME NEW n \in AllNames, n \in DOMAIN synced, NEW c \in synced[n]
      PROVE  Recorded(n, c)'
  BY <1>7, <1>1, <1>4, <1>6 DEF Recorded
<1>8. ASSUME NEW n \in AllNames, NEW c \in live[n] \cup clients[n]
      PROVE  Recorded(n, c)'
  BY <1>8, <1>5 DEF LiveInv, LiveRecorded
<1>9. LiveRecorded'
  BY <1>2, <1>7, <1>8, CallsKeepLive
<1>10. NobodyOffline'
  BY <1>1, <1>2, <1>6, CallsKeepOffline DEF LiveInv
<1> QED
  BY <1>4, <1>9, <1>10

(* DeleteTenant leaves no user of the tenant live, known to the registry   *)
(* or not.                                                                 *)
LEMMA DeleteTenantLive ==
    ASSUME Reliable, LiveInv, NEW id \in Ids, DeleteTenant(id, TRUE)
    PROVE  LiveRecorded' /\ NobodyOffline' /\ StatusKnown' /\ OwnNames'
<1>1. CoreCalls(DOMAIN users[id], EmptyMap, {}, {}) /\ core' = core
  BY CallsSucceed DEF DeleteTenant, Reliable
<1>2. \/ UNCHANGED <<byID, store, users>>
      \/ /\ byID' = Without(byID, {id}) /\ store' = Without(store, {id})
         /\ users' = [users EXCEPT ![id] = EmptyMap]
  BY DEF DeleteTenant, Delete, regVars, tables
<1>3. /\ \A t \in Ids \ {id} : users'[t] = users[t]
      /\ users'[id] = users[id] \/ users'[id] = EmptyMap
  BY <1>2 DEF LiveInv, RecInv
<1>4. StillActive({id})
  BY <1>2 DEF StillActive, Active, Without, Restrict
<1>5. StatusKnown'
  BY <1>2 DEF LiveInv, StatusKnown, Without, Restrict
<1>6. OwnNames'
  BY <1>3 DEF LiveInv, OwnNames, Names, namespacedEmail, EmptyMap
<1>7. \A t \in Ids \cap {id} : DOMAIN users[t] \subseteq DOMAIN users[id]
  OBVIOUS
<1> QED
  BY <1>1, <1>3, <1>4, <1>5, <1>6, <1>7, RemovalKeeps

(* The users of the tenants that enforcement suspends leave the core.      *)
LEMMA EnforceLive ==
    ASSUME Reliable, LiveInv, NEW tenants, NEW disk, NEW now,
           DOMAIN tenants = DOMAIN byID,
           \A i \in DOMAIN tenants : /\ "status" \in DOMAIN tenants[i]
                                     /\ tenants[i].status = byID[i].status,
           \A i \in DOMAIN disk : "status" \in DOMAIN disk[i],
           EnforceOn(tenants, disk, now), UNCHANGED <<users, core>>
    PROVE  LiveRecorded' /\ NobodyOffline' /\ StatusKnown'
<1> DEFINE changed == Changes(tenants, now)
           gone == UNION {DOMAIN users[i] : i \in changed}
<1>1. CoreCalls(gone, EmptyMap, {}, {})
  BY CallsSucceed DEF EnforceOn, Reliable
<1>2. PICK saved : store' = Persisted(disk, byID', changed \cap saved)
  BY DEF EnforceOn
<1>3. byID' = EnforcedTenants(tenants, now)
  BY DEF EnforceOn
<1>4. StillActive(changed) /\ StatusKnown'
  BY <1>2, <1>3, EnforceActive
<1>5. \A t \in Ids \cap changed : DOMAIN users[t] \subseteq gone
  OBVIOUS
<1>6. \A t \in Ids \ changed : users'[t] = users[t]
  OBVIOUS
<1> HIDE DEF gone, changed
<1> QED
  BY <1>1, <1>4, <1>5, <1>6, RemovalKeeps

(* A collection suspends only tenants whose users it takes out of the      *)
(* core; one that ends in an error suspends nobody.                        *)
LEMMA CollectAndEnforceLive ==
    ASSUME Reliable, LiveInv, NEW now, CollectAndEnforce(now)
    PROVE  LiveRecorded' /\ NobodyOffline' /\ StatusKnown'
<1>1. UNCHANGED <<users, core>>
  BY DEF CollectAndEnforce
<1>2. CASE BillingFails
  <2>1. PICK bad \in Payers, done \in SUBSET Payers :
           /\ done \subseteq DOMAIN byID
           /\ byID' = Billed(done \cup {bad})
           /\ store' = Persisted(store, byID', done)
    BY <1>2 DEF BillingFails
  <2>2. /\ DOMAIN byID' = DOMAIN byID
        /\ \A i \in DOMAIN byID : /\ "status" \in DOMAIN byID'[i]
                                  /\ byID'[i].status = byID[i].status
    BY <2>1, BilledStatus DEF LiveInv
  <2>3. \A i \in DOMAIN store' : "status" \in DOMAIN store'[i]
    BY <2>1, <2>2, PersistedStatus DEF LiveInv, StatusKnown
  <2>4. StillActive({}) /\ StatusKnown'
    BY <2>2, <2>3 DEF StillActive, Active, StatusKnown
  <2>5. UNCHANGED <<live, clients>>
    BY <1>2 DEF BillingFails
  <2> QED
    BY <1>1, <2>4, <2>5, QuietKeeps
<1>3. CASE /\ Payers \subseteq DOMAIN byID
           /\ EnforceOn(Billed(Payers), Persisted(store, Billed(Payers), Payers), now)
  <2> DEFINE tenants == Billed(Payers)
             disk == Persisted(store, tenants, Payers)
  <2>1. /\ DOMAIN tenants = DOMAIN byID
        /\ \A i \in DOMAIN tenants : /\ "status" \in DOMAIN tenants[i]
                                     /\ tenants[i].status = byID[i].status
    BY BilledStatus DEF LiveInv
  <2> HIDE DEF tenants
  <2>2. \A i \in DOMAIN disk : "status" \in DOMAIN disk[i]
    BY <1>3, <2>1, PersistedStatus DEF LiveInv, StatusKnown
  <2>3. EnforceOn(tenants, disk, now)
    BY <1>3 DEF tenants
  <2> HIDE DEF disk
  <2> QED
    BY <1>1, <2>1, <2>2, <2>3, EnforceLive
<1> QED
  BY <1>2, <1>3 DEF CollectAndEnforce, Reliable

(* ApplyConfig starts a process that knows nobody and adds the users of    *)
(* active tenants.                                                         *)
LEMMA ApplyLive ==
    ASSUME Reliable, LiveInv, NEW cfg, Apply(cfg)
    PROVE  LiveRecorded' /\ NobodyOffline' /\ core'
<1>1. UNCHANGED <<byID, users>> /\ core' = TRUE
  BY DEF Apply, Reliable, regVars, tables
<1>2. PICK us \in UsersOf({i \in Ids : Active(i)}) :
         CoreCalls(AllNames, Synced(us, TRUE, [done |-> DOMAIN us, failed |-> {}]), {}, {})
  <2>1. PICK us \in UsersOf({i \in Ids : Active(i)}) : \E loop \in Loops(us, TRUE) :
           CoreCalls(AllNames, Synced(us, TRUE, loop), loop.failed, {})
    BY DEF Apply, Reliable
  <2>2. PICK loop \in Loops(us, TRUE) :
           CoreCalls(AllNames, Synced(us, TRUE, loop), loop.failed, {})
    BY <2>1
  <2>3. loop = [done |-> DOMAIN us, failed |-> {}]
    BY DEF Loops, Reliable
  <2>4. loop.failed = {}
    BY <2>3
  <2> QED
    BY <2>2, <2>3, <2>4
<1> DEFINE synced == Synced(us, TRUE, [done |-> DOMAIN us, failed |-> {}])
<1>3. DOMAIN synced = DOMAIN us /\ \A n \in DOMAIN us : synced[n] = us[n]
  BY SyncedAll
<1> HIDE DEF synced
<1>4. ASSUME NEW n \in AllNames, n \in DOMAIN synced, NEW c \in synced[n]
      PROVE  Recorded(n, c)'
  <2>1. PICK i \in Ids : Active(i) /\ n \in DOMAIN users[i] /\ us[n] = users[i][n]
    <3> DEFINE A == {i \in Ids : Active(i)}
    <3>1. \A m \in DOMAIN us : \E i \in A : m \in DOMAIN users[i] /\ us[m] = users[i][m]
      BY Zenon DEF UsersOf
    <3> QED
      BY <1>3, <1>4, <3>1
  <2>2. Active(i)'
    BY <1>1, <2>1 DEF Active
  <2> QED
    BY <1>1, <1>3, <1>4, <2>1, <2>2 DEF Recorded
<1>5. CoreCalls(AllNames, synced, {}, {})
  BY <1>2 DEF synced
<1>6. LiveRecorded'
  BY <1>4, <1>5, CallsKeepLive
<1> QED
  BY <1>1, <1>6 DEF NobodyOffline
-----------------------------------------------------------------------------
(* A process that accepts nobody and would load nobody has nothing wrong.  *)
LEMMA EmptyCore ==
    ASSUME live' = Nobody, clients' = Nobody
    PROVE  LiveRecorded' /\ NobodyOffline'
<1>1. \A n \in AllNames : live'[n] = {} /\ clients'[n] = {}
  BY DEF Nobody
<1> QED
  BY <1>1 DEF LiveRecorded, NobodyOffline, AllNames, Names, namespacedEmail

(* Every step of the manager, of the handlers and of Xray preserves        *)
(* LiveInv when calls and saves succeed.                                   *)
LEMMA LiveInvStep ==
    ASSUME Reliable, LiveInv, [Next]_vars
    PROVE  LiveInv'
<1> DEFINE Goal == /\ StatusKnown' /\ OwnNames' /\ LiveRecorded' /\ NobodyOffline'
                   /\ (core \in BOOLEAN)'
<1>1. RecInv'
  BY RecInvStep DEF Reliable, LiveInv
<1> SUFFICES Goal
  BY <1>1 DEF LiveInv
<1>2. SaveOutcomes = {TRUE}
  BY DEF SaveOutcomes, Reliable
<1>3. UNCHANGED users => OwnNames'
  BY DEF LiveInv, OwnNames, Names, namespacedEmail
<1>4. UNCHANGED <<byID, store>> => StatusKnown' /\ StillActive({})
  BY DEF LiveInv, StatusKnown, StillActive, Active
<1>5. UNCHANGED core => (core \in BOOLEAN)'
  BY DEF LiveInv
<1>6. ASSUME NEW id \in Ids, NEW key, NEW q, NEW c, NEW e, NEW p,
             HandleCreate(id, key, q, c, e, p)
      PROVE  Goal
  <2> DEFINE t == NewTenant(key, q, c, e, p)
  <2>1. /\ id \notin DOMAIN byID /\ byID' = Put(byID, id, t) /\ store' = Put(store, id, t)
        /\ UNCHANGED <<users, live, clients, core>>
    BY <1>6 DEF HandleCreate, CreateTenant, mgrVars
  <2>2. "status" \in DOMAIN t
    BY DEF NewTenant
  <2> HIDE DEF t
  <2>3. StatusKnown' /\ StillActive({})
    BY <2>1, <2>2 DEF LiveInv, StatusKnown, StillActive, Active, Put
  <2> QED
    BY <2>1, <2>3, QuietKeeps
<1>7. ASSUME NEW id \in Ids, NEW q, NEW c, NEW e, HandleSetQuota(id, q, c, e, TRUE)
      PROVE  Goal
  <2> DEFINE t == WithQuota(byID[id], q, c, e)
  <2>1. id \in DOMAIN byID /\ Update(id, t, TRUE) /\ UNCHANGED <<users, live, clients, core>>
    BY <1>7 DEF HandleSetQuota, SetQuota, mgrVars
  <2>2. "status" \in DOMAIN t /\ t.status = byID[id].status
    BY <2>1, WrittenStatus DEF LiveInv, StatusKnown
  <2> HIDE DEF t
  <2>3. StatusKnown' /\ StillActive({id}) /\ (Active(id) => Active(id)')
    BY <2>1, <2>2, UpdateActive DEF LiveInv, Active
  <2> QED
    BY <2>1, <2>3, QuietKeeps DEF StillActive
<1>8. ASSUME NEW id \in Ids, ResetTenantPeriod(id, TRUE)
      PROVE  Goal
  <2> DEFINE t == NextPeriod(byID[id])
  <2>1. id \in DOMAIN byID /\ Update(id, t, TRUE) /\ UNCHANGED <<users, live, clients, core>>
    BY <1>8 DEF ResetTenantPeriod, ResetPeriod, tables, xray
  <2>2. "status" \in DOMAIN t /\ t.status = "active"
    BY <2>1, WrittenStatus DEF LiveInv, StatusKnown
  <2> HIDE DEF t
  <2>3. StatusKnown' /\ StillActive({id}) /\ Active(id)'
    BY <2>1, <2>2, UpdateActive DEF LiveInv
  <2> QED
    BY <2>1, <2>3, QuietKeeps DEF StillActive
<1>9. ASSUME NEW id \in Ids, NEW us \in UserSets(id), SetTenantUsers(id, us)
      PROVE  Goal
  <2>1. UNCHANGED <<byID, store, core>>
    BY <1>9 DEF SetTenantUsers, regVars
  <2> QED
    BY <1>9, <2>1, <1>4, <1>5, SetTenantUsersLive
<1>10. ASSUME NEW id \in Ids, NEW n \in Names(id), NEW cs \in SUBSET Creds,
              AddTenantUser(id, n, cs)
       PROVE  Goal
  <2>1. UNCHANGED <<byID, store, core>>
    BY <1>10 DEF AddTenantUser, regVars
  <2> QED
    BY <1>10, <2>1, <1>4, <1>5, AddTenantUserLive
<1>11. ASSUME NEW id \in Ids, SuspendTenant(id, TRUE) PROVE Goal
  <2>1. UNCHANGED <<users, core>>
    BY <1>11 DEF SuspendTenant, tables
  <2> QED
    BY <1>11, <2>1, <1>3, <1>5, SuspendTenantLive
<1>12. ASSUME NEW id \in Ids, ResumeTenant(id, TRUE) PROVE Goal
  <2>1. UNCHANGED <<users, core>>
    BY <1>12 DEF ResumeTenant, tables
  <2> QED
    BY <1>12, <2>1, <1>3, <1>5, ResumeTenantLive
<1>13. CASE UNCHANGED <<byID, store, users, live, clients, core>>
  BY <1>13, <1>4, QuietKeeps
<1>14. ASSUME NEW id \in Ids, HandleResume(id, TRUE) \/ ResetTenantResume(id, TRUE) PROVE Goal
  BY <1>14, <1>12, <1>13 DEF HandleResume, ResetTenantResume, regVars, tables, xray
<1>15. ASSUME NEW id \in Ids, DeleteTenant(id, TRUE) PROVE Goal
  <2>1. UNCHANGED core
    BY <1>15 DEF DeleteTenant
  <2> QED
    BY <1>15, <2>1, <1>5, DeleteTenantLive
<1>16. ASSUME NEW now, CollectAndEnforce(now) PROVE Goal
  <2>1. UNCHANGED <<users, core>>
    BY <1>16 DEF CollectAndEnforce
  <2> QED
    BY <1>16, <2>1, <1>3, <1>5, CollectAndEnforceLive
<1>17. ASSUME NEW cfg, Apply(cfg) PROVE Goal
  <2>1. UNCHANGED <<byID, store, users>> /\ (core \in BOOLEAN)'
    BY <1>17 DEF Apply, Stopped, regVars, tables
  <2> QED
    BY <1>17, <2>1, <1>3, <1>4, ApplyLive
<1>18. CASE Stop
  <2>1. /\ UNCHANGED <<byID, store, users>> /\ core' = FALSE
        /\ live' = Nobody /\ clients' = Nobody
    BY <1>18 DEF Stop, Stopped, regVars, tables
  <2> QED
    BY <2>1, <1>3, <1>4, EmptyCore
<1>19. CASE XrayRestart
  <2>1. /\ UNCHANGED <<byID, store, users, clients, core>> /\ core /\ live' = clients
    BY <1>19 DEF XrayRestart, regVars, tables
  <2>2. \A n, c : Recorded(n, c) => Recorded(n, c)'
    BY <2>1 DEF Recorded, Active
  <2>3. LiveRecorded' /\ NobodyOffline'
    BY <2>1, <2>2 DEF LiveInv, LiveRecorded, NobodyOffline, AllNames, Names, namespacedEmail
  <2> QED
    BY <2>1, <2>3, <1>3, <1>4, <1>5
<1>20. CASE AgentRestart
  <2>1. /\ byID' = store /\ store' = store /\ users' = NoUsers /\ core' = FALSE
        /\ live' = Nobody /\ clients' = Nobody
    BY <1>20 DEF AgentRestart, Restart, Stopped
  <2>2. StatusKnown' /\ OwnNames'
    BY <2>1 DEF LiveInv, StatusKnown, OwnNames, NoUsers, EmptyMap
  <2> QED
    BY <2>1, <2>2, EmptyCore
<1>21. CASE RestartCoreRead \/ (\E n \in AllNames : Traffic(n)) \/ UNCHANGED vars
  BY <1>21, <1>13 DEF RestartCoreRead, Traffic, vars, regVars, tables, xray
<1>22. ASSUME NEW cfg, ApplyConfig(cfg) \/ RestartCoreApply(cfg) PROVE Goal
  BY <1>22, <1>17 DEF ApplyConfig, RestartCoreApply
<1> HIDE DEF Goal
<1> QED
  BY <1>2, <1>6, <1>7, <1>8, <1>9, <1>10, <1>11, <1>14, <1>15, <1>16, <1>18, <1>19,
     <1>20, <1>21, <1>22 DEF Next
-----------------------------------------------------------------------------
(* What is live is on record, each user is on record for one tenant, and   *)
(* the records of tenants are apart.                                       *)
LEMMA LiveInvIsolates == ASSUME Reliable, LiveInv PROVE CredentialIsolation
<1> SUFFICES ASSUME NEW s \in Ids, NEW t \in Ids, s # t, NEW m \in Names(s), NEW n \in Names(t),
                    NEW c \in live[m] \cap live[n]
             PROVE  FALSE
  BY DEF CredentialIsolation
<1>1. ASSUME NEW r \in Ids, NEW k \in Names(r), c \in live[k]
      PROVE  c \in CredsOf(users[r])
  <2>1. k \in AllNames /\ OwnedBy(k, r)
    BY NamesOwned DEF AllNames
  <2>2. PICK i \in Ids : k \in DOMAIN users[i] /\ c \in users[i][k]
    BY <1>1, <2>1 DEF LiveInv, LiveRecorded, Recorded
  <2>3. OwnedBy(k, i)
    BY <2>2, NamesOwned DEF LiveInv, OwnNames
  <2>4. i = r
    BY <2>1, <2>3, OneOwner DEF Reliable
  <2> QED
    BY <2>2, <2>4 DEF CredsOf
<1>2. c \in CredsOf(users[s]) /\ c \in CredsOf(users[t])
  BY <1>1
<1> QED
  BY <1>2, RecInvIsolates DEF RecordsIsolated, LiveInv, Reliable

(* With ids that contain no dots, and as long as calls on the core and     *)
(* saves succeed, no sequence of user syncs, suspensions, resumes, resets, *)
(* deletions, collections, config pushes and restarts makes the Xray       *)
(* process accept one credential for users of two tenants.                 *)
THEOREM CredentialsStayIsolated ==
    ASSUME Reliable
    PROVE  Spec => []CredentialIsolation
<1>1. Init => LiveInv
  <2> SUFFICES ASSUME Init PROVE LiveInv
    OBVIOUS
  <2>1. RecInv
    BY NothingOnRecord DEF Init, AgentInit, RecInv
  <2>2. DOMAIN EmptyMap = {}
    BY DEF EmptyMap
  <2>3. StatusKnown
    BY <2>2 DEF Init, RegInit, StatusKnown
  <2>4. OwnNames
    BY <2>2 DEF Init, AgentInit, OwnNames, NoUsers
  <2>5. \A n \in AllNames : live[n] = {} /\ clients[n] = {}
    BY DEF Init, AgentInit, Nobody
  <2>6. LiveRecorded /\ NobodyOffline /\ core \in BOOLEAN
    BY <2>5 DEF Init, AgentInit, LiveRecorded, NobodyOffline
  <2> QED
    BY <2>1, <2>3, <2>4, <2>6 DEF LiveInv
<1>2. LiveInv /\ [Next]_vars => LiveInv'
  BY LiveInvStep
<1>3. LiveInv => CredentialIsolation
  BY LiveInvIsolates
<1> QED
  BY <1>1, <1>2, <1>3, PTL DEF Spec
=============================================================================
