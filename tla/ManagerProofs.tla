--------------------------- MODULE ManagerProofs ----------------------------
(***************************************************************************)
(* Proof that the manager never has one credential on record for two       *)
(* tenants, as long as calls on the core succeed and tenant ids contain no *)
(* dots; saves of the registry may fail and the agent may restart.         *)
(*                                                                         *)
(* RecordsIsolated is not inductive: it says nothing about creds, which    *)
(* the uniqueness checks look at.  The strengthening, RecInv, says that    *)
(* creds knows the owner of every credential on record.                    *)
(***************************************************************************)
EXTENDS Manager, TLAPS, SequenceTheorems

UserTables == UNION {[S -> SUBSET Creds] : S \in SUBSET AllNames}

(* A credential on record is in creds, under an email of its tenant.       *)
Registered(us, cs, id) ==
    \A n \in DOMAIN us : \A c \in us[n] : c \in DOMAIN cs /\ OwnedBy(cs[c], id)

RecInv ==
    /\ users \in [Ids -> UserTables]
    /\ \A c \in DOMAIN creds : creds[c] \in AllNames
    /\ \A id \in Ids : Registered(users[id], creds, id)

NoDots == \A id \in Ids : Len(id) = 1
-----------------------------------------------------------------------------
(* An email namespaced for a tenant carries the prefix of that tenant:     *)
(* what namespacedEmail builds, strings.HasPrefix recognises.              *)
LEMMA NamesOwned == \A id \in Ids : \A n \in Names(id) : OwnedBy(n, id)
<1> SUFFICES ASSUME NEW id \in Ids, NEW e \in Emails
             PROVE  OwnedBy(id \o e, id)
  BY DEF Names, namespacedEmail
<1>1. id \in Seq(Segments) /\ e \in Seq(Segments) /\ e # <<>>
  BY ManagerAssumption
<1>2. Len(e) > 0 /\ Len(id) \in Nat /\ Len(e) \in Nat
  BY <1>1, EmptySeq
<1>3. Len(id \o e) = Len(id) + Len(e)
  BY <1>1
<1>4. SubSeq(id \o e, 1, Len(id)) = id
  BY <1>1, <1>2, <1>3
<1> QED
  BY <1>2, <1>3, <1>4 DEF OwnedBy

(* Without dots in ids no email carries the prefixes of two tenants.       *)
LEMMA OneOwner ==
    ASSUME NoDots, NEW s \in Ids, NEW t \in Ids, NEW n \in AllNames,
           OwnedBy(n, s), OwnedBy(n, t)
    PROVE  s = t
<1>1. SubSeq(n, 1, 1) = s /\ SubSeq(n, 1, 1) = t
  BY DEF OwnedBy, NoDots
<1> QED
  BY <1>1

-----------------------------------------------------------------------------
(* A credential another tenant has on record is not one of this tenant's.  *)
LEMMA OthersCredentials ==
    ASSUME NoDots, RecInv, NEW s \in Ids, NEW t \in Ids, s # t,
           NEW n \in DOMAIN users[t], NEW c \in users[t][n]
    PROVE  /\ c \in DOMAIN creds /\ OwnedBy(creds[c], t) /\ ~OwnedBy(creds[c], s)
           /\ c \notin CredsOf(users[s])
<1>1. c \in DOMAIN creds /\ OwnedBy(creds[c], t) /\ creds[c] \in AllNames
  BY DEF RecInv, Registered
<1>2. ~OwnedBy(creds[c], s)
  BY <1>1, OneOwner
<1>3. c \notin CredsOf(users[s])
  BY <1>2 DEF CredsOf, RecInv, Registered
<1> QED
  BY <1>1, <1>2, <1>3

(* When tenant id claims the credentials of the users in us, all of them   *)
(* free or its own, and gives up some of its own, creds knows the owners   *)
(* of id's new users and still knows those of the other tenants' users.    *)
LEMMA ClaimKeepsOwners ==
    ASSUME NoDots, RecInv, NEW id \in Ids, NEW us, DOMAIN us \subseteq Names(id),
           NEW given, given \subseteq CredsOf(users[id]),
           NEW old, DOMAIN old = DOMAIN creds \ given, \A c \in DOMAIN old : old[c] = creds[c],
           \A n \in DOMAIN us : \A c \in us[n] : c \in DOMAIN creds => OwnedBy(creds[c], id)
    PROVE  LET cs == Claim(old, us, DOMAIN us) IN
           /\ \A c \in DOMAIN cs : cs[c] \in AllNames
           /\ Registered(us, cs, id)
           /\ \A t \in Ids \ {id} : Registered(users[t], cs, t)
           /\ \A c \in DOMAIN creds \ given :
                 c \in DOMAIN cs /\ (OwnedBy(creds[c], id) => OwnedBy(cs[c], id))
<1> DEFINE cs == Claim(old, us, DOMAIN us)
<1>1. DOMAIN old = DOMAIN creds \ given /\ \A c \in DOMAIN old : old[c] = creds[c]
  OBVIOUS
<1>2. /\ DOMAIN cs = DOMAIN old \cup UNION {us[n] : n \in DOMAIN us}
      /\ \A n \in DOMAIN us : \A c \in us[n] : \E m \in DOMAIN us : c \in us[m] /\ cs[c] = m
      /\ \A c \in DOMAIN old : (\A n \in DOMAIN us : c \notin us[n]) => cs[c] = old[c]
  <2>1. DOMAIN cs = DOMAIN old \cup UNION {us[n] : n \in DOMAIN us}
    BY DEF Claim
  <2>2. ASSUME NEW n \in DOMAIN us, NEW c \in us[n]
        PROVE  \E m \in DOMAIN us : c \in us[m] /\ cs[c] = m
    <3> DEFINE m == CHOOSE x \in DOMAIN us : c \in us[x]
    <3>1. m \in DOMAIN us /\ c \in us[m]
      OBVIOUS
    <3>2. cs[c] = m
      BY DEF Claim
    <3> QED
      BY <3>1, <3>2
  <2>3. ASSUME NEW c \in DOMAIN old, \A n \in DOMAIN us : c \notin us[n]
        PROVE  cs[c] = old[c]
    BY <2>3 DEF Claim
  <2> QED
    BY <2>1, <2>2, <2>3
<1> HIDE DEF cs
<1>3. \A n \in DOMAIN us : \A c \in us[n] :
         c \in DOMAIN cs /\ cs[c] \in AllNames /\ OwnedBy(cs[c], id)
  <2> SUFFICES ASSUME NEW n \in DOMAIN us, NEW c \in us[n]
               PROVE  c \in DOMAIN cs /\ cs[c] \in AllNames /\ OwnedBy(cs[c], id)
    OBVIOUS
  <2>1. c \in DOMAIN cs
    BY <1>2
  <2>2. cs[c] \in Names(id)
    BY <1>2
  <2> QED
    BY <2>1, <2>2, NamesOwned DEF AllNames
<1>4. \A c \in DOMAIN cs : cs[c] \in AllNames
  <2> SUFFICES ASSUME NEW c \in DOMAIN cs, \A n \in DOMAIN us : c \notin us[n]
               PROVE  cs[c] \in AllNames
    BY <1>3
  <2>1. c \in DOMAIN old
    BY <1>2
  <2> QED
    BY <2>1, <1>1, <1>2 DEF RecInv
<1>5. Registered(us, cs, id)
  BY <1>3 DEF Registered
<1>6. ASSUME NEW t \in Ids \ {id} PROVE Registered(users[t], cs, t)
  <2> SUFFICES ASSUME NEW n \in DOMAIN users[t], NEW c \in users[t][n]
               PROVE  c \in DOMAIN cs /\ OwnedBy(cs[c], t)
    BY DEF Registered
  <2>1. /\ c \in DOMAIN creds /\ OwnedBy(creds[c], t) /\ ~OwnedBy(creds[c], id)
        /\ c \notin CredsOf(users[id])
    BY OthersCredentials
  <2>2. c \in DOMAIN old /\ \A m \in DOMAIN us : c \notin us[m]
    BY <2>1, <1>1
  <2> QED
    BY <2>1, <2>2, <1>1, <1>2
<1>7. \A c \in DOMAIN creds \ given :
         c \in DOMAIN cs /\ (OwnedBy(creds[c], id) => OwnedBy(cs[c], id))
  BY <1>1, <1>2, <1>3
<1> QED
  BY <1>4, <1>5, <1>6, <1>7 DEF cs
-----------------------------------------------------------------------------
(* One lemma per operation that changes users or creds.                    *)
LEMMA SetTenantUsersKeeps ==
    ASSUME NoDots, ~CoreMayFail, RecInv, NEW id \in Ids, NEW us \in UserSets(id),
           SetTenantUsers(id, us)
    PROVE  RecInv'
<1> DEFINE gone == DOMAIN users[id] \ DOMAIN us
           given == UNION {users[id][n] : n \in gone}
           old == Without(creds, given)
<1>1. DOMAIN us \subseteq Names(id) /\ us \in UserTables
  BY DEF UserSets, UserTables, AllNames
<1>2. users' = [users EXCEPT ![id] = us] /\ creds' = Claim(old, us, DOMAIN us)
  BY DEF SetTenantUsers, Loops
<1>3. given \subseteq CredsOf(users[id])
  BY DEF CredsOf
<1>4. \A n \in DOMAIN us : \A c \in us[n] : c \in DOMAIN creds => OwnedBy(creds[c], id)
  BY DEF SetTenantUsers, CredsFree, CredsOf
<1>5. DOMAIN old = DOMAIN creds \ given /\ \A c \in DOMAIN old : old[c] = creds[c]
  BY DEF Without, Restrict
<1> HIDE DEF given, old
<1>6. /\ \A c \in DOMAIN creds' : creds'[c] \in AllNames
      /\ Registered(us, creds', id)
      /\ \A t \in Ids \ {id} : Registered(users[t], creds', t)
  BY <1>1, <1>2, <1>3, <1>4, <1>5, ClaimKeepsOwners
<1>7. /\ users' \in [Ids -> UserTables]
      /\ users'[id] = us
      /\ \A t \in Ids \ {id} : users'[t] = users[t]
  BY <1>1, <1>2 DEF RecInv
<1> QED
  BY <1>6, <1>7 DEF RecInv

LEMMA AddTenantUserKeeps ==
    ASSUME NoDots, RecInv, NEW id \in Ids, NEW n \in Names(id), NEW cs \in SUBSET Creds,
           AddTenantUser(id, n, cs)
    PROVE  RecInv'
<1> DEFINE us == Put(EmptyMap, n, cs)
<1>1. DOMAIN us = {n} /\ us[n] = cs
  BY DEF Put, EmptyMap
<1>2. users' = [users EXCEPT ![id] = Put(@, n, cs)] /\ creds' = Claim(creds, us, DOMAIN us)
  BY <1>1 DEF AddTenantUser
<1>3. \A m \in DOMAIN us : \A c \in us[m] : c \in DOMAIN creds => OwnedBy(creds[c], id)
  <2>1. \A c \in cs : c \in DOMAIN creds => creds[c] = n \/ OwnedBy(creds[c], id)
    BY DEF AddTenantUser
  <2> QED
    BY <1>1, <2>1, NamesOwned
<1>4. n \in AllNames
  BY DEF AllNames
<1> HIDE DEF us
<1>5. /\ \A c \in DOMAIN creds' : creds'[c] \in AllNames
      /\ Registered(us, creds', id)
      /\ \A t \in Ids \ {id} : Registered(users[t], creds', t)
      /\ \A c \in DOMAIN creds :
            c \in DOMAIN creds' /\ (OwnedBy(creds[c], id) => OwnedBy(creds'[c], id))
  <2>1. DOMAIN us \subseteq Names(id) /\ {} \subseteq CredsOf(users[id])
    BY <1>1
  <2>2. DOMAIN creds = DOMAIN creds \ {} /\ \A c \in DOMAIN creds : creds[c] = creds[c]
    OBVIOUS
  <2> QED
    BY <1>2, <1>3, <2>1, <2>2, ClaimKeepsOwners
<1>6. /\ users'[id] = Put(users[id], n, cs)
      /\ \A t \in Ids \ {id} : users'[t] = users[t]
      /\ users' \in [Ids -> UserTables]
  <2>1. users[id] \in UserTables
    BY DEF RecInv
  <2>2. PICK S \in SUBSET AllNames : users[id] \in [S -> SUBSET Creds]
    BY <2>1 DEF UserTables
  <2>3. Put(users[id], n, cs) \in [S \cup {n} -> SUBSET Creds]
    BY <2>2 DEF Put
  <2>4. Put(users[id], n, cs) \in UserTables
    BY <2>2, <2>3, <1>4 DEF UserTables
  <2> QED
    BY <1>2, <2>4 DEF RecInv
<1>7. Registered(users'[id], creds', id)
  <2> SUFFICES ASSUME NEW m \in DOMAIN Put(users[id], n, cs),
                      NEW c \in Put(users[id], n, cs)[m]
               PROVE  c \in DOMAIN creds' /\ OwnedBy(creds'[c], id)
    BY <1>6 DEF Registered
  <2>1. CASE m = n
    BY <2>1, <1>1, <1>5 DEF Put, Registered
  <2>2. CASE m # n
    <3>1. m \in DOMAIN users[id] /\ c \in users[id][m]
      BY <2>2 DEF Put
    <3> QED
      BY <3>1, <1>5 DEF RecInv, Registered
  <2> QED
    BY <2>1, <2>2
<1> QED
  BY <1>5, <1>6, <1>7 DEF RecInv

LEMMA DeleteTenantKeeps ==
    ASSUME NoDots, RecInv, NEW id \in Ids, NEW saved, DeleteTenant(id, saved)
    PROVE  RecInv'
<1>1. CASE UNCHANGED <<users, creds>>
  BY <1>1 DEF RecInv, Registered, UserTables
<1>2. CASE /\ creds' = Without(creds, CredsOf(users[id]))
           /\ users' = [users EXCEPT ![id] = EmptyMap]
  <2>1. /\ DOMAIN creds' = DOMAIN creds \ CredsOf(users[id])
        /\ \A c \in DOMAIN creds' : creds'[c] = creds[c]
    BY <1>2 DEF Without, Restrict
  <2>2. EmptyMap \in UserTables /\ DOMAIN EmptyMap = {}
    <3>1. EmptyMap \in [{} -> SUBSET Creds]
      BY DEF EmptyMap
    <3> QED
      BY <3>1 DEF UserTables, EmptyMap
  <2>3. /\ users' \in [Ids -> UserTables] /\ users'[id] = EmptyMap
        /\ \A t \in Ids \ {id} : users'[t] = users[t]
    BY <1>2, <2>2 DEF RecInv
  <2>4. Registered(users'[id], creds', id)
    BY <2>2, <2>3 DEF Registered
  <2>5. ASSUME NEW t \in Ids \ {id} PROVE Registered(users'[t], creds', t)
    BY <2>1, <2>3, OthersCredentials DEF Registered
  <2> QED
    BY <2>1, <2>3, <2>4, <2>5 DEF RecInv
<1> QED
  BY <1>1, <1>2 DEF DeleteTenant, tables

(* After NewManager there is nothing on record.                            *)
LEMMA NothingOnRecord ==
    ASSUME NEW us, us = NoUsers, NEW cs, cs = EmptyMap
    PROVE  /\ us \in [Ids -> UserTables]
           /\ \A c \in DOMAIN cs : cs[c] \in AllNames
           /\ \A id \in Ids : Registered(us[id], cs, id)
<1>1. EmptyMap \in [{} -> SUBSET Creds] /\ DOMAIN EmptyMap = {}
  BY DEF EmptyMap
<1>2. EmptyMap \in UserTables
  BY <1>1 DEF UserTables
<1> QED
  BY <1>1, <1>2 DEF NoUsers, Registered

(* Every step of the manager, of the handlers and of Xray preserves RecInv *)
(* when calls on the core succeed.                                         *)
LEMMA RecInvStep ==
    ASSUME NoDots, ~CoreMayFail, RecInv, [Next]_vars
    PROVE  RecInv'
<1>1. CASE UNCHANGED <<users, creds>>
  BY <1>1 DEF RecInv, Registered, UserTables
<1>2. ASSUME NEW id \in Ids, NEW us \in UserSets(id), SetTenantUsers(id, us) PROVE RecInv'
  BY <1>2, SetTenantUsersKeeps
<1>3. ASSUME NEW id \in Ids, NEW n \in Names(id), NEW cs \in SUBSET Creds,
             AddTenantUser(id, n, cs)
      PROVE  RecInv'
  BY <1>3, AddTenantUserKeeps
<1>4. ASSUME NEW id \in Ids, NEW saved \in SaveOutcomes, DeleteTenant(id, saved) PROVE RecInv'
  BY <1>4, DeleteTenantKeeps
<1>5. CASE AgentRestart
  BY <1>5, NothingOnRecord DEF AgentRestart, RecInv
<1>6. ASSUME NEW id \in Ids, NEW saved \in SaveOutcomes,
             SuspendTenant(id, saved) \/ HandleResume(id, saved)
               \/ ResetTenantPeriod(id, saved) \/ ResetTenantResume(id, saved)
      PROVE  UNCHANGED <<users, creds>>
  BY <1>6 DEF SuspendTenant, HandleResume, ResumeTenant, ResetTenantPeriod,
              ResetTenantResume, tables
<1>7. ASSUME NEW now \in Times, CollectAndEnforce(now) PROVE UNCHANGED <<users, creds>>
  BY <1>7 DEF CollectAndEnforce
<1>8. ASSUME NEW cfg \in Configs, ApplyConfig(cfg) \/ RestartCoreApply(cfg)
      PROVE  UNCHANGED <<users, creds>>
  BY <1>8 DEF ApplyConfig, RestartCoreApply, Apply, tables
<1>9. CASE RestartCoreRead \/ Stop \/ XrayRestart
  BY <1>9, <1>1 DEF RestartCoreRead, Stop, XrayRestart, tables
<1>10. ASSUME NEW n \in AllNames, Traffic(n) PROVE UNCHANGED <<users, creds>>
  BY <1>10 DEF Traffic, tables
<1>11. CASE UNCHANGED vars
  BY <1>11, <1>1 DEF vars
<1>12. CASE \E id \in Ids, key \in Keys, q \in Quotas, c \in Credits, e \in Expires,
              p \in Periods : HandleCreate(id, key, q, c, e, p)
  BY <1>12, <1>1 DEF HandleCreate, mgrVars
<1>13. CASE \E id \in Ids, q \in Quotas, c \in Credits, e \in Expires,
              ok \in SaveOutcomes : HandleSetQuota(id, q, c, e, ok)
  BY <1>13, <1>1 DEF HandleSetQuota, mgrVars
<1> QED
  BY <1>1, <1>2, <1>3, <1>4, <1>5, <1>6, <1>7, <1>8, <1>9, <1>10, <1>11, <1>12, <1>13
     DEF Next

(* The invariant keeps the records of tenants apart: creds has one owner   *)
(* for a credential, and an email one tenant.                              *)
LEMMA RecInvIsolates == ASSUME NoDots, RecInv PROVE RecordsIsolated
BY OthersCredentials DEF RecordsIsolated, CredsOf

(* With ids that contain no dots, and as long as calls on the core         *)
(* succeed, SetTenantUsers, AddTenantUsers and DeleteTenant never leave    *)
(* one credential on record for two tenants, whatever saves of the         *)
(* registry fail and whenever the agent restarts.                          *)
THEOREM RecordsStayIsolated ==
    ASSUME NoDots, ~CoreMayFail
    PROVE  Spec => []RecordsIsolated
<1>1. Init => RecInv
  BY NothingOnRecord DEF Init, AgentInit, RecInv
<1>2. RecInv /\ [Next]_vars => RecInv'
  BY RecInvStep
<1>3. RecInv => RecordsIsolated
  BY RecInvIsolates
<1> QED
  BY <1>1, <1>2, <1>3, PTL DEF Spec
=============================================================================
