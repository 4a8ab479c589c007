----------------------------- MODULE XrayUsers ------------------------------
(***************************************************************************)
(* Users of the Xray backend: the clients each inbound has in the config   *)
(* (src/backend/xray/config.go) against those the running process accepts, *)
(* under the calls of src/backend/xray/user.go and process restarts.       *)
(*                                                                         *)
(* One request runs at a time, as the shared manager's lock ensures; the   *)
(* process goes down and comes back at any moment, with the clients that   *)
(* ToBytes found.  API calls fail while it is down, and may fail always.   *)
(***************************************************************************)
EXTENDS Maps, XrayConfig, TLC

CONSTANTS
    Emails,         \* users
    Tags,           \* inbounds that are not excluded
    Protocol,       \* tag -> protocol
    Method,         \* tag -> length of the key, for Shadowsocks 2022; 0 otherwise
    UserKinds,      \* what a user may be sent with: its inbounds and proxies
    RawDocs         \* documents a config push may bring

(* Protocols whose account is made from a uuid, which may not parse.       *)
UuidProtocols == {"vmess", "vless"}
Bad == "not a uuid"

ASSUME XrayUsersAssumption ==
    /\ Protocol \in [Tags -> STRING] /\ Method \in [Tags -> Nat]
    /\ \A k \in UserKinds : k.inbounds \subseteq Tags

VARIABLES
    doc,        \* the document of New, until New returns
    clients,    \* tag -> email -> account in the config
    live,       \* tag -> email -> account the process accepts
    proc,       \* "off", "down", "boot" or "up"
    loaded,     \* the clients that the booting process was given
    req,        \* the request that runs
    sent        \* email -> the user last sent, and how that request ended

vars == <<doc, clients, live, proc, loaded, req, sent>>

NoClients == [t \in Tags |-> EmptyMap]
Idle == [op |-> "none"]
-----------------------------------------------------------------------------
(* EnsureBase64Password: a key of the right length stays, anything else is *)
(* hashed to one.                                                          *)
checkShadowsocks2022(t, account) ==
    IF account.size = Method[t] THEN account
    ELSE [key |-> <<"hash", account.key>>, size |-> Method[t]]

(* NewVmessAccount and NewVlessAccount fail when the uuid does not parse.  *)
Parses(p, key) == p \in UuidProtocols => key # Bad

(* An account carries the password or id; its size is not checked yet.     *)
NewAccount(key) == [key |-> key, size |-> 0]

(* setupUserAccount: the accounts that could be made, by protocol          *)
setupUserAccount(user) == {p \in DOMAIN user.proxies : Parses(p, user.proxies[p])}

(* isActiveInbound and the account it returns                              *)
isActiveInbound(t, user) == t \in user.inbounds /\ Protocol[t] \in setupUserAccount(user)

ActiveAccount(t, user) ==
    LET account == NewAccount(user.proxies[Protocol[t]])
    IN  IF Method[t] > 0 THEN checkShadowsocks2022(t, account) ELSE account

(* Inbound.updateUser and updateUsers convert the account once more.       *)
StoredAccount(t, user) ==
    LET account == ActiveAccount(t, user)
    IN  IF Method[t] > 0 THEN checkShadowsocks2022(t, account) ELSE account

(* Faulty variant: users that are not active are left alone.               *)
AddActive(t, cs, us) ==
    LET active == {e \in DOMAIN us : isActiveInbound(t, us[e])}
    IN  [e \in DOMAIN cs \cup active |->
            IF e \in active THEN StoredAccount(t, us[e]) ELSE cs[e]]

(* buildInboundUpdates and Inbound.updateUsers for the users in us; with   *)
(* one user, updateUser or removeUser.                                     *)
updateUsers(t, cs, us) ==
    LET active == {e \in DOMAIN us : isActiveInbound(t, us[e])}
    IN  [e \in (DOMAIN cs \ DOMAIN us) \cup active |->
            IF e \in active THEN StoredAccount(t, us[e]) ELSE cs[e]]

(* Inbound.syncUsers: the clients are built anew, per protocol.            *)
syncUsers(t, us) ==
    LET made == {e \in DOMAIN us :
                    /\ t \in us[e].inbounds /\ Protocol[t] \in DOMAIN us[e].proxies
                    /\ Parses(Protocol[t], us[e].proxies[Protocol[t]])}
    IN  [e \in made |-> LET account == NewAccount(us[e].proxies[Protocol[t]])
                        IN  IF Method[t] > 0 THEN checkShadowsocks2022(t, account)
                            ELSE account]

Batches == UNION {[S -> UserKinds] : S \in SUBSET Emails}
-----------------------------------------------------------------------------
(* The process.                                                            *)

(* NewConfig and ApplyAPI of a config push, and the users it starts with.  *)
New ==
    /\ proc = "off"
    /\ doc' \in {ApplyAPI(d) : d \in RawDocs}
    /\ \E us \in Batches :
          /\ clients' = [t \in Tags |-> syncUsers(t, us)]
          /\ sent' = [e \in DOMAIN us |-> [user |-> us[e], ok |-> FALSE, clean |-> FALSE]]
    /\ proc' = "down"
    /\ UNCHANGED <<live, loaded, req>>

(* New gives up on a process that does not come up.                        *)
NewFails ==
    /\ doc # Absent
    /\ doc' = Absent /\ proc' = "off"
    /\ clients' = NoClients /\ loaded' = NoClients /\ sent' = EmptyMap
    /\ UNCHANGED <<live, req>>

(* The process dies, or a health check's restart stops it.                 *)
Down ==
    /\ proc \in {"boot", "up"} /\ doc = Absent
    /\ proc' = "down" /\ live' = NoClients
    /\ UNCHANGED <<doc, clients, loaded, req, sent>>

(* ToBytes: the clients in the config go to the new process.               *)
ToBytes ==
    /\ proc = "down"
    /\ proc' = "boot" /\ loaded' = clients
    /\ UNCHANGED <<doc, clients, live, req, sent>>

Boot ==
    /\ proc = "boot"
    /\ proc' = "up" /\ live' = loaded /\ loaded' = NoClients /\ doc' = Absent
    /\ UNCHANGED <<clients, req, sent>>
-----------------------------------------------------------------------------
(* A request as the calls it makes, in order.                              *)
Call(what, t, e) == [what |-> what, tag |-> t, email |-> e]

(* Faulty variant: the process learns of the user before the config does.  *)
SyncProcessFirst(t, e, us) ==
    <<Call("remove", t, e)>> \o
    (IF isActiveInbound(t, us[e]) THEN <<Call("add", t, e)>> ELSE <<>>) \o
    <<Call("update", t, e)>>

(* SyncUser at one inbound                                                 *)
SyncUserAt(t, e, us) ==
    <<Call("remove", t, e), Call("update", t, e)>> \o
    (IF isActiveInbound(t, us[e]) THEN <<Call("add", t, e)>> ELSE <<>>)

(* Faulty variant: the process forgets the user before the config does.    *)
UpdateProcessFirst(t, us) ==
    FlattenSeq([i \in 1..Cardinality(DOMAIN us) |->
        LET e == SetToSeq(DOMAIN us)[i]
        IN  <<Call("remove", t, e)>> \o
            (IF isActiveInbound(t, us[e]) THEN <<Call("add", t, e)>> ELSE <<>>)])
    \o <<Call("update", t, Absent)>>

(* UpdateUsers at one inbound: first the config, for all users             *)
UpdateUsersAt(t, us) ==
    <<Call("update", t, Absent)>> \o
    FlattenSeq([i \in 1..Cardinality(DOMAIN us) |->
        LET e == SetToSeq(DOMAIN us)[i]
        IN  <<Call("remove", t, e)>> \o
            (IF isActiveInbound(t, us[e]) THEN <<Call("add", t, e)>> ELSE <<>>)])

Each(tags, At(_)) == FlattenSeq([i \in DOMAIN tags |-> At(tags[i])])

Restart == <<Call("restart", Absent, Absent), Call("check", Absent, Absent)>>

(* SyncUsers and UpdateUsersAndRestart                                     *)
ThenRestart(op, us, tags) ==
    Each(tags, LAMBDA t : <<Call(op, t, Absent)>>) \o Restart

Sent(us, ok, clean) == [e \in DOMAIN us |-> [user |-> us[e], ok |-> ok, clean |-> clean]]

Begin(op, us, calls) ==
    /\ proc # "off" /\ doc = Absent /\ req = Idle
    /\ req' = [op |-> op, users |-> us, calls |-> calls, err |-> FALSE, missed |-> FALSE]
    /\ sent' = IF op = "SyncUsers" THEN Sent(us, FALSE, FALSE)
               ELSE Sent(us, FALSE, FALSE) @@ sent
    /\ UNCHANGED <<doc, clients, live, proc, loaded>>

(* Inbounds come in the order of the config, or of a Go map.               *)
Orders == SetToSeqs(Tags)

SyncUser(e, user) ==
    LET us == Put(EmptyMap, e, user)
    IN  \E tags \in Orders : Begin("SyncUser", us, Each(tags, LAMBDA t : SyncUserAt(t, e, us)))

UpdateUsers(us) ==
    \E tags \in Orders : Begin("UpdateUsers", us, Each(tags, LAMBDA t : UpdateUsersAt(t, us)))

UpdateUsersAndRestart(us) ==
    \E tags \in Orders : Begin("UpdateUsersAndRestart", us, ThenRestart("update", us, tags))

SyncUsers(us) ==
    \E tags \in Orders : Begin("SyncUsers", us, ThenRestart("sync", us, tags))

Running(what) == req # Idle /\ req.calls # <<>> /\ Head(req.calls).what = what
Called == [req EXCEPT !.calls = Tail(@)]

(* Inbound.updateUser, removeUser, updateUsers or syncUsers, under its lock *)
ConfigCall ==
    /\ Running("update") \/ Running("sync")
    /\ LET t == Head(req.calls).tag
       IN  clients' = [clients EXCEPT ![t] = IF Running("sync") THEN syncUsers(t, req.users)
                                             ELSE updateUsers(t, @, req.users)]
    /\ req' = Called
    /\ UNCHANGED <<doc, live, proc, loaded, sent>>

(* RemoveInboundUser; its error is ignored.                                *)
RemoveInboundUser ==
    /\ Running("remove")
    /\ LET c == Head(req.calls)
       IN  \/ /\ proc = "up"
              /\ live' = [live EXCEPT ![c.tag] = Without(@, {c.email})]
              /\ req' = Called
           \/ UNCHANGED live /\ req' = [Called EXCEPT !.missed = TRUE]
    /\ UNCHANGED <<doc, clients, proc, loaded, sent>>

(* AddInboundUser: Xray refuses an email that the inbound has.             *)
AddInboundUser ==
    /\ Running("add")
    /\ LET c == Head(req.calls)
       IN  \/ /\ proc = "up" /\ c.email \notin DOMAIN live[c.tag]
              /\ live' = [live EXCEPT ![c.tag] =
                             Put(@, c.email, ActiveAccount(c.tag, req.users[c.email]))]
              /\ req' = Called
           \/ UNCHANGED live /\ req' = [Called EXCEPT !.err = TRUE]
    /\ UNCHANGED <<doc, clients, proc, loaded, sent>>

(* x.Restart stops the process and gives ToBytes to the next.  A start     *)
(* that fails leaves the process down, for the health check.               *)
RestartCall ==
    /\ Running("restart")
    /\ live' = NoClients
    /\ \/ proc' = "boot" /\ loaded' = clients /\ req' = Called
       \/ proc' = "down" /\ loaded' = NoClients /\ req' = [req EXCEPT !.calls = <<>>, !.err = TRUE]
    /\ UNCHANGED <<doc, clients, sent>>

(* checkXrayStatus waits for the API, or gives up.                         *)
CheckCall ==
    /\ Running("check")
    /\ \/ proc = "up" /\ req' = Called
       \/ req' = [Called EXCEPT !.err = TRUE]
    /\ UNCHANGED <<doc, clients, live, proc, loaded, sent>>

(* The request returns; no call of a clean one has been missed.            *)
Return ==
    /\ req # Idle /\ req.calls = <<>>
    /\ sent' = Sent(req.users, ~req.err, ~req.err /\ ~req.missed /\ req.op # "SyncUser")
               @@ sent
    /\ req' = Idle
    /\ UNCHANGED <<doc, clients, live, proc, loaded>>
-----------------------------------------------------------------------------
Init ==
    /\ doc = Absent
    /\ clients = NoClients /\ live = NoClients /\ loaded = NoClients
    /\ proc = "off" /\ req = Idle /\ sent = EmptyMap

Next ==
    \/ New \/ NewFails \/ Down \/ ToBytes \/ Boot
    \/ \E e \in Emails, user \in UserKinds : SyncUser(e, user)
    \/ \E us \in Batches : UpdateUsers(us) \/ UpdateUsersAndRestart(us) \/ SyncUsers(us)
    \/ ConfigCall \/ RemoveInboundUser \/ AddInboundUser
    \/ RestartCall \/ CheckCall \/ Return

Spec == Init /\ [][Next]_vars
-----------------------------------------------------------------------------
(* What the inbound accepts now, or will once the process is back.         *)
Served(t) == CASE proc = "up" -> live[t] [] proc = "boot" -> loaded[t] [] OTHER -> clients[t]

(* Whatever mix of single, partial and full syncs built it, the config has *)
(* for every user exactly what a full sync of the users last sent gives.   *)
ConfigIsLastSent ==
    req = Idle =>
        \A t \in Tags : clients[t] = syncUsers(t, [e \in DOMAIN sent |-> sent[e].user])

(* A request that returned without an error stands: through any number of  *)
(* crashes and restarts the user is accepted where it was added.           *)
AddedUsersServed ==
    \A e \in DOMAIN sent, t \in Tags :
        sent[e].ok /\ isActiveInbound(t, sent[e].user) =>
            e \in DOMAIN Served(t) /\ Served(t)[e] = ActiveAccount(t, sent[e].user)

(* A user that UpdateUsers or a full sync took away, with every call that  *)
(* it made answered, does not come back with a restart.                    *)
RevokedUsersGone ==
    \A e \in DOMAIN sent, t \in Tags :
        sent[e].clean /\ ~isActiveInbound(t, sent[e].user) => e \notin DOMAIN Served(t)

(* UpdateUsers that returned without an error has removed the users it was *)
(* told to remove.                                                         *)
RemovedWhenReported ==
    \A e \in DOMAIN sent, t \in Tags :
        sent[e].ok /\ ~isActiveInbound(t, sent[e].user) => e \notin DOMAIN Served(t)

(* The document of a start lets the node reach its API and counts traffic, *)
(* and applying the API to it once more would change nothing.              *)
DocumentReady ==
    doc # Absent => NodeRulesLead(doc) /\ TrafficCounted(doc) /\ ApplyAPI(doc) = doc
=============================================================================
