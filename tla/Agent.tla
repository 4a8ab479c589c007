------------------------------- MODULE Agent --------------------------------
(***************************************************************************)
(* The two doors of the agent, its HTTP API (src/controller/agent) and the *)
(* gRPC service panels speak (src/controller/grpccompat), in front of the  *)
(* shared manager.  A caller is authorized when its request arrives and    *)
(* the request is performed when its body or stream has been read: what    *)
(* the master, the ticker and other callers do in between is between them. *)
(***************************************************************************)
EXTENDS Manager

CONSTANTS
    MasterKey,  \* the key of the main panel's HTTP API
    CoreKey,    \* the key that gives a gRPC caller the core scope
    MaxCalls    \* bound: requests authorized and not yet performed

ASSUME AgentAssumption == MasterKey # CoreKey /\ Keys \intersect {MasterKey, CoreKey} = {}

VARIABLE
    calls       \* authorized requests not yet performed, [scope, id]

agentVars == <<vars, calls>>

CoreCall == [scope |-> "core", id |-> <<>>]
TenantCall(id) == [scope |-> "tenant", id |-> id]
-----------------------------------------------------------------------------
Authenticate(key, now) ==
    IF key = MasterKey THEN [scope |-> "master", allowed |-> TRUE]
    ELSE [scope |-> "tenant", allowed |-> Authorize(key, now).allowed]

(* The callers a door lets in.  The master's requests go straight to the   *)
(* manager (see Admin): its key does not change under them.                *)
authMiddleware(key, now) ==
    LET decision == Authenticate(key, now)
    IN  IF decision.scope = "tenant" /\ decision.allowed
        THEN {TenantCall(byKey[HashKey(key)])} ELSE {}

resolveCaller(key, now) == IF key = CoreKey THEN {CoreCall} ELSE authMiddleware(key, now)

Arrive(key, now) ==
    /\ Cardinality(calls) < MaxCalls
    /\ \E call \in resolveCaller(key, now) : calls' = calls \union {call}
    /\ UNCHANGED vars

Performed(call) == call \in calls /\ calls' = calls \ {call}

(* A list of users: syncUsers over HTTP; Start, SyncUsers and              *)
(* SyncUsersChunked over gRPC.                                             *)
SyncUsers(id, us) == Performed(TenantCall(id)) /\ SetTenantUsers(id, us)

(* A stream of users, of one user here (see AddTenantUser)                 *)
SyncUser(id, n, cs) == Performed(TenantCall(id)) /\ AddTenantUser(id, n, cs)

(* Start with the core scope; Stop, and users sent with that scope, are    *)
(* accepted and ignored.                                                   *)
CoreStart(cfg) == Performed(CoreCall) /\ ApplyConfig(cfg)

(* A request that ends without a call on the manager, or in a call the     *)
(* manager refuses: a body that does not decode, a user without an email,  *)
(* a broken stream, a tenant that is gone, a credential that is taken.     *)
Ignored(call) == Performed(call) /\ UNCHANGED vars

(* The agent's restart loses the requests in flight.                       *)
RestartAgent == AgentRestart /\ calls' = {}

(* The master's requests, the ticker, Xray and its traffic                 *)
Admin ==
    \/ \E id \in Ids, key \in Keys, q \in Quotas, c \in Credits, e \in Expires,
          p \in Periods : HandleCreate(id, key, q, c, e, p)
    \/ \E id \in Ids, q \in Quotas, c \in Credits, e \in Expires,
          ok \in SaveOutcomes : HandleSetQuota(id, q, c, e, ok)
    \/ \E id \in Ids, ok \in SaveOutcomes :
          \/ SuspendTenant(id, ok) \/ HandleResume(id, ok) \/ DeleteTenant(id, ok)
          \/ ResetTenantPeriod(id, ok) \/ ResetTenantResume(id, ok)
    \/ \E cfg \in Configs : ApplyConfig(cfg) \/ RestartCoreApply(cfg)
    \/ RestartCoreRead \/ Stop

Tick == (\E now \in Times : CollectAndEnforce(now)) /\ UNCHANGED calls

Core == XrayRestart \/ \E n \in AllNames : Traffic(n)

AgentNext ==
    \/ \E key \in Keys \union {MasterKey, CoreKey}, now \in Times : Arrive(key, now)
    \/ \E id \in Ids : \E us \in UserSets(id) : SyncUsers(id, us)
    \/ \E id \in Ids : \E n \in Names(id), cs \in SUBSET Creds : SyncUser(id, n, cs)
    \/ \E cfg \in Configs : CoreStart(cfg)
    \/ \E call \in calls : Ignored(call)
    \/ (Admin \/ Core) /\ UNCHANGED calls
    \/ Tick
    \/ RestartAgent

(* The ticker never stops; a tick while an active tenant is over its      *)
(* limit is all the properties need of it.                                 *)
AgentSpec ==
    /\ Init /\ calls = {}
    /\ [][AgentNext]_agentVars
    /\ WF_agentVars((\E id \in Ids : Active(id) /\ OverLimit(byID[id])) /\ Tick)
-----------------------------------------------------------------------------
(* What a tenant's request must leave alone: the tenants, the core, and    *)
(* the records, the credentials and the live users of everyone else.       *)
OthersUntouched(id) ==
    /\ UNCHANGED <<regVars, core, config>>
    /\ \A s \in Ids \ {id} :
          /\ users'[s] = users[s]
          /\ \A n \in Names(s) : live'[n] = live[n] /\ clients'[n] = clients[n]
          /\ \A c \in DOMAIN creds : creds[c] \in Names(s) =>
                c \in DOMAIN creds' /\ creds'[c] = creds[c]

(* However long ago it was authorized, and whatever became of its tenant   *)
(* since, a tenant's request changes nothing of another tenant, and a      *)
(* request with the core scope changes no tenant and no tenant's users.    *)
CallsStayInScope ==
    [][\A call \in calls \ calls' :
            \/ RestartAgent
            \/ IF call.scope = "tenant" THEN OthersUntouched(call.id)
               ELSE UNCHANGED <<regVars, tables>>]_agentVars
=============================================================================
