------------------------------ MODULE Manager -------------------------------
(***************************************************************************)
(* The shared manager (src/shared/manager.go) composed with the tenant     *)
(* registry and with the one Xray process all tenants share.               *)
(*                                                                         *)
(* Every method of the manager holds m.mu to its end, so a method is one   *)
(* step.  Three things run outside that lock and are steps of their own:   *)
(* the registry calls the HTTP handlers make directly (createTenant,       *)
(* setQuota, the first half of resetTenant), the gap between reading the   *)
(* config and applying it in RestartCore, and the Xray process.            *)
(*                                                                         *)
(* A user is the set of credentials it carries.  Go iterates over maps in  *)
(* any order and a loop over users stops at the first SyncUser that fails, *)
(* so a loop is described by the set of users it got to (see Loops).       *)
(***************************************************************************)
EXTENDS Registry, Sequences

CONSTANTS
    Emails,         \* emails a customer's panel sends, as dot-separated segments
    Creds,          \* credentials (uuid or password, tagged with the protocol)
    Usable,         \* the credentials some inbound of the core can accept
    Configs,        \* core configs the master pushes
    MaxBytes,       \* bound: bytes per user that one Xray process carries
    CoreMayFail     \* whether a call on the Xray API or a start can fail

(* The parts of ids and emails between their dots; "" is one part.         *)
Segments == UNION {Range(s) : s \in Ids \cup Emails}

ASSUME ManagerAssumption ==
    /\ Ids \subseteq Seq(Segments) /\ Emails \subseteq Seq(Segments) \ {<<>>}
    /\ Usable \subseteq Creds
    /\ MaxBytes \in Nat
    /\ CoreMayFail \in BOOLEAN

VARIABLES
    users,      \* tenant id -> namespaced email -> credentials
    emailTo,    \* namespaced email -> tenant id
    creds,      \* credential -> namespaced email that owns it
    lastSeen,   \* namespaced email -> traffic total at the last collection
    core,       \* m.core # nil
    config,     \* the running config; NoConfig before the first one
    live,       \* Xray process: email -> credentials it accepts
    clients,    \* Xray config: email -> credentials a process restart loads
    counter,    \* Xray process: email -> bytes carried since it started
    resetting,  \* tenants between the two halves of resetTenant
    restarting  \* configs RestartCore has read and not yet applied

tables == <<users, emailTo, creds, lastSeen>>
xray == <<core, config, live, clients, counter>>
inFlight == <<resetting, restarting>>
mgrVars == <<users, emailTo, creds, lastSeen, core, config, live, clients, counter,
             resetting, restarting>>
vars == <<byID, byKey, store, users, emailTo, creds, lastSeen, core, config, live,
          clients, counter, resetting, restarting>>

NoConfig == "no config"

(* Ids and emails are sequences of segments, the parts between the dots.   *)
namespacedEmail(id, email) == id \o email

(* strings.HasPrefix(ne, "t" + id + ".")                                   *)
OwnedBy(ne, id) == Len(id) < Len(ne) /\ SubSeq(ne, 1, Len(id)) = id

Names(id) == {namespacedEmail(id, e) : e \in Emails}
AllNames == UNION {Names(id) : id \in Ids}

(* The user sets a tenant's panel can send.                                *)
UserSets(id) == UNION {[S -> SUBSET Creds] : S \in SUBSET Names(id)}

Active(id) == id \in DOMAIN byID /\ byID[id].status = "active"

CredsOf(us) == UNION {us[n] : n \in DOMAIN us}
-----------------------------------------------------------------------------
(* Calls on the Xray core.  SyncUser takes the user out of every inbound   *)
(* and adds it to those that accept one of its credentials; UpdateUsers    *)
(* with no inbounds takes it out of all.  The errors of removals are       *)
(* ignored: the users in "stuck" keep what the process accepted before.    *)
(* The users in "failed" could not be added; the config has them anyway.   *)
CoreCalls(removed, synced, failed, stuck) ==
    LET kept(n) == IF n \in stuck THEN live[n] ELSE {}
        accepted(n) == synced[n] \cap Usable
    IN  /\ live' = [n \in AllNames |->
                      IF n \in DOMAIN synced
                      THEN kept(n) \cup (IF n \in failed THEN {} ELSE accepted(n))
                      ELSE IF n \in removed THEN kept(n) ELSE live[n]]
        /\ clients' = [n \in AllNames |->
                         IF n \in DOMAIN synced THEN accepted(n)
                         ELSE IF n \in removed THEN {} ELSE clients[n]]

Stuck(names) == IF CoreMayFail THEN SUBSET names ELSE {{}}

(* The outcomes of a loop that syncs the users in "us": all of them, or    *)
(* those up to the first that fails; only calls that reach the core fail.  *)
Loops(us, applies) ==
    {[done |-> DOMAIN us, failed |-> {}]} \cup
    IF CoreMayFail /\ applies
    THEN {[done |-> S \cup {n}, failed |-> {n}] :
             S \in SUBSET DOMAIN us, n \in {m \in DOMAIN us : us[m] \cap Usable # {}}}
    ELSE {}

(* The users such a loop has synced with the core.                         *)
Synced(us, applies, loop) == IF applies THEN Restrict(us, loop.done) ELSE EmptyMap
-----------------------------------------------------------------------------
(* Faulty variant: other tenants' credentials are not looked at.           *)
BatchFree(id, us) == \A m, n \in DOMAIN us : m # n => us[m] \cap us[n] = {}

(* The uniqueness check of SetTenantUsers: within the batch, and against   *)
(* the credentials that other tenants own.                                 *)
CredsFree(id, us) ==
    /\ \A m, n \in DOMAIN us : m # n => us[m] \cap us[n] = {}
    /\ \A c \in CredsOf(us) : c \in DOMAIN creds => OwnedBy(creds[c], id)

(* creds after the users in S claim their credentials.                     *)
Claim(cs, us, S) ==
    [c \in DOMAIN cs \cup UNION {us[n] : n \in S} |->
        IF \E n \in S : c \in us[n] THEN CHOOSE n \in S : c \in us[n] ELSE cs[c]]

(* SetTenantUsers: drop the users that are gone, then claim credentials    *)
(* and sync the users sent, one by one; users changes only at the end.     *)
SetTenantUsers(id, us) ==
    LET gone == DOMAIN users[id] \ DOMAIN us
        applies == Active(id) /\ core
    IN  /\ id \in DOMAIN byID
        /\ CredsFree(id, us)
        /\ \E loop \in Loops(us, applies), stuck \in Stuck(gone \cup DOMAIN us) :
              /\ emailTo' = [n \in (DOMAIN emailTo \ gone) \cup loop.done |->
                                IF n \in loop.done THEN id ELSE emailTo[n]]
              /\ lastSeen' = [n \in AllNames |-> IF n \in gone THEN 0 ELSE lastSeen[n]]
              /\ creds' = Claim(Without(creds, UNION {users[id][n] : n \in gone}),
                                us, loop.done)
              /\ CoreCalls(gone, Synced(us, applies, loop), loop.failed, stuck)
              /\ users' = IF loop.failed = {} THEN [users EXCEPT ![id] = us] ELSE users
        /\ UNCHANGED <<regVars, core, config, counter, inFlight>>

(* Faulty variant: an added user's credentials are not checked.            *)
AddUnchecked(id, n, cs) ==
    LET us == Put(EmptyMap, n, cs)
        applies == Active(id) /\ core
    IN  /\ id \in DOMAIN byID
        /\ users' = [users EXCEPT ![id] = Put(@, n, cs)]
        /\ emailTo' = Put(emailTo, n, id)
        /\ creds' = Claim(creds, us, {n})
        /\ \E loop \in Loops(us, applies), stuck \in Stuck({n}) :
              CoreCalls({}, Synced(us, applies, loop), loop.failed, stuck)
        /\ UNCHANGED <<regVars, lastSeen, core, config, counter, inFlight>>

(* AddTenantUsers with one user; a longer list is a run of such calls that *)
(* ends at the first error.                                                *)
AddTenantUser(id, n, cs) ==
    LET us == Put(EmptyMap, n, cs)
        applies == Active(id) /\ core
    IN  /\ id \in DOMAIN byID
        /\ \A c \in cs : c \in DOMAIN creds => creds[c] = n \/ OwnedBy(creds[c], id)
        /\ users' = [users EXCEPT ![id] = Put(@, n, cs)]
        /\ emailTo' = Put(emailTo, n, id)
        /\ creds' = Claim(creds, us, {n})
        /\ \E loop \in Loops(us, applies), stuck \in Stuck({n}) :
              CoreCalls({}, Synced(us, applies, loop), loop.failed, stuck)
        /\ UNCHANGED <<regVars, lastSeen, core, config, counter, inFlight>>

(* Faulty variant: the users stay in the core.                             *)
SuspendOnPaper(id, saved) ==
    Suspend(id, "manual", saved) /\ UNCHANGED <<tables, xray, inFlight>>

(* SuspendTenant returns before it touches the core when the registry      *)
(* could not save the suspension.                                          *)
SuspendTenant(id, saved) ==
    /\ Suspend(id, "manual", saved)
    /\ IF saved
       THEN \E stuck \in Stuck(DOMAIN users[id]) :
               CoreCalls(DOMAIN users[id], EmptyMap, {}, stuck)
       ELSE UNCHANGED <<live, clients>>
    /\ UNCHANGED <<tables, core, config, counter, inFlight>>

(* Faulty variant: the users are not added back.                           *)
ResumeOnPaper(id, saved) == Resume(id, saved) /\ UNCHANGED <<tables, xray>>

(* ResumeTenant: nothing is added back when the save failed.               *)
ResumeTenant(id, saved) ==
    /\ Resume(id, saved)
    /\ IF saved
       THEN \E loop \in Loops(users[id], core), stuck \in Stuck(DOMAIN users[id]) :
               CoreCalls({}, Synced(users[id], core, loop), loop.failed, stuck)
       ELSE UNCHANGED <<live, clients>>
    /\ UNCHANGED <<tables, core, config, counter>>

(* Faulty variant: the email index keeps the users of a tenant that is     *)
(* gone.                                                                   *)
DeleteKeepsEmails(id, saved) ==
    /\ \E stuck \in Stuck(DOMAIN users[id]) :
          CoreCalls(DOMAIN users[id], EmptyMap, {}, stuck)
    /\ IF saved /\ id \in DOMAIN byID
       THEN /\ Delete(id)
            /\ creds' = Without(creds, CredsOf(users[id]))
            /\ users' = [users EXCEPT ![id] = EmptyMap]
            /\ UNCHANGED <<emailTo, lastSeen>>
       ELSE UNCHANGED <<regVars, tables>>
    /\ UNCHANGED <<core, config, counter, inFlight>>

(* DeleteTenant takes the users out of the core before it asks the         *)
(* registry, and stops there when the registry refuses.                    *)
DeleteTenant(id, saved) ==
    /\ \E stuck \in Stuck(DOMAIN users[id]) :
          CoreCalls(DOMAIN users[id], EmptyMap, {}, stuck)
    /\ IF saved /\ id \in DOMAIN byID
       THEN /\ Delete(id)
            /\ emailTo' = Without(emailTo, DOMAIN users[id])
            /\ lastSeen' = [n \in AllNames |-> IF n \in DOMAIN users[id] THEN 0 ELSE lastSeen[n]]
            /\ creds' = Without(creds, CredsOf(users[id]))
            /\ users' = [users EXCEPT ![id] = EmptyMap]
       ELSE UNCHANGED <<regVars, tables>>
    /\ UNCHANGED <<core, config, counter, inFlight>>
-----------------------------------------------------------------------------
(* CollectAndEnforce.  The process reports a row for every user it has     *)
(* carried bytes for; a total below the last one seen means the process    *)
(* was restarted.                                                          *)
Rows == {n \in AllNames : counter[n] > 0}

(* Faulty variant: every collection charges the whole total.               *)
WholeTotal(n) == counter[n]

Delta(n) == IF counter[n] >= lastSeen[n] THEN counter[n] - lastSeen[n] ELSE counter[n]

Payers == {emailTo[n] : n \in Rows \cap DOMAIN emailTo}

(* Faulty variant: a tenant is charged for one of its users.               *)
BillOneUser(id) ==
    LET rows == {n \in Rows \cap DOMAIN emailTo : emailTo[n] = id}
    IN  IF rows = {} THEN 0 ELSE Delta(CHOOSE n \in rows : TRUE)

Bill(id) == LET rows == {n \in Rows \cap DOMAIN emailTo : emailTo[n] = id}
            IN  FoldFunctionOnSet(+, 0, [n \in rows |-> Delta(n)], rows)

(* The registry after the tenants in S have been billed in memory.  The    *)
(* bound MaxUsed saturates here: a guard would stop the ticker.            *)
Capped(t) == IF t.used <= MaxUsed THEN t ELSE [t EXCEPT !.used = MaxUsed]

(* Faulty variant: the bill replaces the usage.                            *)
BilledAnew(S) ==
    [i \in DOMAIN byID |-> IF i \in S THEN [byID[i] EXCEPT !.used = Bill(i)] ELSE byID[i]]

Billed(S) ==
    [i \in DOMAIN byID |-> IF i \in S THEN Capped(MoreUsed(byID[i], Bill(i))) ELSE byID[i]]

(* Billing stops at the first tenant whose AddUsage returns an error,      *)
(* because it is gone or because it could not be saved; enforcement is     *)
(* then skipped.                                                           *)
BillingFails ==
    \E bad \in Payers, done \in SUBSET Payers :
        /\ bad \notin done /\ done \subseteq DOMAIN byID
        /\ bad \in DOMAIN byID => StoreMayFail
        /\ byID' = Billed(done \cup {bad})
        /\ store' = Persisted(store, byID', done)
        /\ UNCHANGED <<live, clients>>

(* Enforce, and the users of the tenants it suspended leave the core.      *)
EnforceOn(tenants, disk, now) ==
    LET changed == Changes(tenants, now)
        gone == UNION {DOMAIN users[i] : i \in changed}
    IN  /\ byID' = EnforcedTenants(tenants, now)
        /\ \E saved \in EnforceSaves : store' = Persisted(disk, byID', changed \cap saved)
        /\ \E stuck \in Stuck(gone) : CoreCalls(gone, EmptyMap, {}, stuck)

(* Faulty variant: nothing is enforced when no user has traffic.           *)
CollectTraffic(now) ==
    /\ core /\ Rows # {}
    /\ lastSeen' = [n \in AllNames |-> IF n \in Rows THEN counter[n] ELSE lastSeen[n]]
    /\ Payers \subseteq DOMAIN byID
    /\ EnforceOn(Billed(Payers), Persisted(store, Billed(Payers), Payers), now)
    /\ UNCHANGED <<byKey, users, emailTo, creds, core, config, counter, inFlight>>

(* A failed read of the counters skips the billing only.                   *)
CollectAndEnforce(now) ==
    /\ core
    /\ \/ /\ lastSeen' = [n \in AllNames |-> IF n \in Rows THEN counter[n] ELSE lastSeen[n]]
          /\ \/ BillingFails
             \/ /\ Payers \subseteq DOMAIN byID
                /\ EnforceOn(Billed(Payers), Persisted(store, Billed(Payers), Payers), now)
       \/ /\ CoreMayFail
          /\ EnforceOn(byID, store, now)
          /\ UNCHANGED lastSeen
    /\ UNCHANGED <<byKey, users, emailTo, creds, core, config, counter, inFlight>>
-----------------------------------------------------------------------------
(* The life of the core.                                                   *)
Nobody == [n \in AllNames |-> {}]
Zero == [n \in AllNames |-> 0]

Stopped == core' = FALSE /\ live' = Nobody /\ clients' = Nobody /\ counter' = Zero

Stop == Stopped /\ UNCHANGED <<regVars, tables, config, inFlight>>

(* The users of the tenants in S, as one loop over the tenants meets them. *)
UsersOf(S) ==
    {us \in [UNION {DOMAIN users[i] : i \in S} -> SUBSET Creds] :
        \A n \in DOMAIN us : \E i \in S : n \in DOMAIN users[i] /\ us[n] = users[i][n]}

(* Faulty variant: the users of all tenants are added back.                *)
ApplyToAll(cfg) ==
    /\ core' = TRUE /\ config' = cfg /\ counter' = Zero
    /\ \E us \in UsersOf(Ids) : CoreCalls(AllNames, us, {}, {})
    /\ UNCHANGED <<regVars, tables, resetting>>

(* ApplyConfig: stop, start on the new config, add back the users of the   *)
(* active tenants, one tenant after the other, up to the first error.      *)
Apply(cfg) ==
    /\ \/ CoreMayFail /\ Stopped /\ UNCHANGED config
       \/ /\ core' = TRUE /\ config' = cfg /\ counter' = Zero
          /\ \E us \in UsersOf({i \in Ids : Active(i)}) :
             \E loop \in Loops(us, TRUE) :
                /\ \A i \in Ids : Active(i) =>
                      \/ DOMAIN users[i] \cap loop.failed # {}
                      \/ DOMAIN users[i] \cap loop.done \in {{}, DOMAIN users[i]}
                /\ CoreCalls(AllNames, Synced(us, TRUE, loop), loop.failed, {})
    /\ UNCHANGED <<regVars, tables, resetting>>

ApplyConfig(cfg) == Apply(cfg) /\ UNCHANGED restarting

(* RestartCore reads the config under the lock, lets go of the lock, and   *)
(* applies what it has read.                                               *)
RestartCoreRead ==
    /\ config # NoConfig
    /\ restarting' = restarting \cup {config}
    /\ UNCHANGED <<regVars, tables, xray, resetting>>

RestartCoreApply(cfg) ==
    /\ cfg \in restarting
    /\ restarting' = restarting \ {cfg}
    /\ Apply(cfg)

(* The health check restarts an Xray process that died or does not answer: *)
(* the new process loads the clients of the config and counts from zero.   *)
XrayRestart ==
    /\ core
    /\ live' = clients
    /\ counter' = Zero
    /\ UNCHANGED <<regVars, tables, core, config, clients, inFlight>>

(* A live user's connections carry a byte.                                 *)
Traffic(n) ==
    /\ core /\ live[n] # {} /\ counter[n] < MaxBytes
    /\ counter' = [counter EXCEPT ![n] = @ + 1]
    /\ UNCHANGED <<regVars, tables, core, config, live, clients, inFlight>>
-----------------------------------------------------------------------------
(* The handlers of the admin API that call the registry directly.          *)
HandleCreate(id, key, quota, credit, expireAt, period) ==
    CreateTenant(id, key, quota, credit, expireAt, period) /\ UNCHANGED mgrVars

HandleSetQuota(id, quota, credit, expireAt, saved) ==
    SetQuota(id, quota, credit, expireAt, saved) /\ UNCHANGED mgrVars

HandleResume(id, saved) == ResumeTenant(id, saved) /\ UNCHANGED inFlight

(* resetTenant: ResetPeriod on the registry, then ResumeTenant on the      *)
(* manager; bound: one reset of a tenant at a time.                        *)
ResetTenantPeriod(id, saved) ==
    /\ id \notin resetting
    /\ ResetPeriod(id, saved)
    /\ resetting' = IF saved THEN resetting \cup {id} ELSE resetting
    /\ UNCHANGED <<tables, xray, restarting>>

ResetTenantResume(id, saved) ==
    /\ id \in resetting
    /\ resetting' = resetting \ {id}
    /\ UNCHANGED restarting
    /\ \/ ResumeTenant(id, saved)
       \/ id \notin DOMAIN byID /\ UNCHANGED <<regVars, tables, xray>>

(* NewManager: the tables start empty.                                     *)
NoUsers == [i \in Ids |-> EmptyMap]

AgentInit ==
    /\ users = NoUsers /\ emailTo = EmptyMap /\ creds = EmptyMap /\ lastSeen = Zero
    /\ core = FALSE /\ config = NoConfig
    /\ live = Nobody /\ clients = Nobody /\ counter = Zero
    /\ resetting = {} /\ restarting = {}

(* The agent stops, and Xray with it, and starts again on its database:    *)
(* the manager's tables are not persisted.                                 *)
AgentRestart ==
    /\ Restart
    /\ users' = NoUsers /\ emailTo' = EmptyMap /\ creds' = EmptyMap /\ lastSeen' = Zero
    /\ Stopped /\ config' = NoConfig
    /\ resetting' = {} /\ restarting' = {}

Init == RegInit /\ AgentInit

Next ==
    \/ \E id \in Ids, key \in Keys, q \in Quotas, c \in Credits, e \in Expires,
          p \in Periods : HandleCreate(id, key, q, c, e, p)
    \/ \E id \in Ids, q \in Quotas, c \in Credits, e \in Expires,
          ok \in SaveOutcomes : HandleSetQuota(id, q, c, e, ok)
    \/ \E id \in Ids : \E us \in UserSets(id) : SetTenantUsers(id, us)
    \/ \E id \in Ids : \E n \in Names(id), cs \in SUBSET Creds : AddTenantUser(id, n, cs)
    \/ \E id \in Ids, ok \in SaveOutcomes : SuspendTenant(id, ok)
    \/ \E id \in Ids, ok \in SaveOutcomes : HandleResume(id, ok)
    \/ \E id \in Ids, ok \in SaveOutcomes : DeleteTenant(id, ok)
    \/ \E id \in Ids, ok \in SaveOutcomes : ResetTenantPeriod(id, ok)
    \/ \E id \in Ids, ok \in SaveOutcomes : ResetTenantResume(id, ok)
    \/ \E now \in Times : CollectAndEnforce(now)
    \/ \E cfg \in Configs : ApplyConfig(cfg)
    \/ RestartCoreRead
    \/ \E cfg \in Configs : RestartCoreApply(cfg)
    \/ Stop
    \/ XrayRestart
    \/ \E n \in AllNames : Traffic(n)
    \/ AgentRestart

Spec == Init /\ [][Next]_vars
-----------------------------------------------------------------------------
(* The tables, the process and the requests in flight are well formed.     *)
TypeOK ==
    /\ users \in [Ids -> UNION {[S -> SUBSET Creds] : S \in SUBSET AllNames}]
    /\ DOMAIN emailTo \subseteq AllNames /\ emailTo \in [DOMAIN emailTo -> Ids]
    /\ DOMAIN creds \subseteq Creds /\ creds \in [DOMAIN creds -> AllNames]
    /\ lastSeen \in [AllNames -> Nat] /\ counter \in [AllNames -> Nat]
    /\ core \in BOOLEAN /\ config \in Configs \cup {NoConfig}
    /\ live \in [AllNames -> SUBSET Usable] /\ clients \in [AllNames -> SUBSET Usable]
    /\ resetting \subseteq Ids /\ restarting \subseteq Configs

(* No credential opens the shared inbound for users of two tenants: the    *)
(* uuid or password is all the inbound sees, so a shared one would mix     *)
(* their connections and their bills.                                      *)
CredentialIsolation ==
    \A s, t \in Ids : s # t =>
        \A m \in Names(s), n \in Names(t) : live[m] \cap live[n] = {}

(* No two tenants have a credential on record in common: a config push or  *)
(* a resume adds users from the records without checking again.            *)
RecordsIsolated ==
    \A s, t \in Ids : s # t => CredsOf(users[s]) \cap CredsOf(users[t]) = {}

(* The Xray process serves only what the manager has on record: every user *)
(* it accepts is a user of an active tenant, with the credentials last     *)
(* synced.  In particular a suspended or deleted tenant has nobody live.   *)
LiveMatchesRecords ==
    \A n \in AllNames : live[n] # {} =>
        \E id \in Ids : /\ Active(id)
                        /\ n \in DOMAIN users[id]
                        /\ live[n] = users[id][n] \cap Usable

(* The email index that decides who pays for a user's traffic is exactly   *)
(* the users on record, and only existing tenants have users: no traffic   *)
(* goes unbilled or to the wrong tenant, and billing never meets a tenant  *)
(* that is gone (AddUsage would fail and end every collection early).      *)
EmailIndexExact ==
    /\ \A id \in Ids : {n \in DOMAIN emailTo : emailTo[n] = id} = DOMAIN users[id]
    /\ \A id \in Ids : users[id] # EmptyMap => id \in DOMAIN byID

(* The users of an active tenant are live while the core runs, except      *)
(* between the two halves of a reset: whatever suspends, resumes, syncs,   *)
(* config pushes and process restarts came before.                         *)
ActiveTenantsServed ==
    core => \A id \in Ids \ resetting : Active(id) =>
        \A n \in DOMAIN users[id] : live[n] = users[id][n] \cap Usable

(* A config push puts right what earlier failures left behind: whatever it *)
(* returns, the new process serves users on record of active tenants only. *)
ConfigPushRepairs == [][(\E cfg \in Configs : ApplyConfig(cfg)) => LiveMatchesRecords']_vars

(* The users of a tenant over its limit are disconnected by the            *)
(* enforcement loop, unless the core stops or the limit is raised first.   *)
OverLimitDisconnected ==
    \A id \in Ids :
        (core /\ id \in DOMAIN byID /\ OverLimit(byID[id]))
        ~> \/ ~core \/ id \notin DOMAIN byID \/ ~OverLimit(byID[id])
           \/ \A n \in Names(id) : live[n] = {}
=============================================================================
