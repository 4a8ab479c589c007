--------------------------- MODULE WireGuardPeers ---------------------------
(***************************************************************************)
(* How the WireGuard backend turns a list of users into a change of the    *)
(* kernel's peers and of its own store (src/backend/wireguard:             *)
(* user_common.go, peer_store.go), and what the kernel makes of it.        *)
(*                                                                         *)
(* A store has two indexes: peers, from the key to its email and           *)
(* addresses, and emailToKey.  Desired peers are keyed by the text of the  *)
(* key, as in the code.                                                    *)
(***************************************************************************)
EXTENDS Integers, Maps, SequencesExt

CONSTANTS ParseKey, Invalid, NoKey, Pool, BadIP

(***************************************************************************)
(* Requests                                                                *)
(***************************************************************************)
(* Faulty variant: the first usable user of each email.                    *)
normalizeKeepsFirst(users) ==
    LET usable == SelectSeq(users, LAMBDA u : u.key # NoKey /\ u.ips # <<>>)
    IN  {usable[i] : i \in {j \in DOMAIN usable :
                              \A l \in DOMAIN usable : l < j => usable[l].email # usable[j].email}}

(* The last usable user of each email.                                     *)
normalizeUsers(users) ==
    LET usable == SelectSeq(users, LAMBDA u : u.key # NoKey /\ u.ips # <<>>)
    IN  {usable[i] : i \in {j \in DOMAIN usable :
                              \A l \in DOMAIN usable : l > j => usable[l].email # usable[j].email}}

shouldIncludeUserInInterface(u) == u.on

peerIPAllowedOnInterface(ip) == ip \in Pool

(* The addresses that collectDesiredPeers comes to before one that does    *)
(* not parse; those of the interface it notes in seenIPs.                  *)
AllowedIPs(u) ==
    LET bad == {i \in DOMAIN u.ips : u.ips[i] = BadIP}
        read == IF bad = {} THEN u.ips ELSE SubSeq(u.ips, 1, Min(bad) - 1)
    IN  SelectSeq(read, peerIPAllowedOnInterface)

Considered(users) ==
    {u \in users : shouldIncludeUserInInterface(u) /\ ParseKey[u.key] # Invalid}

Desired(users) ==
    {u \in Considered(users) : BadIP \notin Range(u.ips) /\ AllowedIPs(u) # <<>>}

(* The errors of collectDesiredPeers: an address, or a key, for two users. *)
CollectFails(users) ==
    \/ \E u, v \in Considered(users) :
          u.email # v.email /\ Range(AllowedIPs(u)) \cap Range(AllowedIPs(v)) # {}
    \/ \E u, v \in Desired(users) : u.email # v.email /\ u.key = v.key

collectDesiredPeers(users) ==
    [text \in {u.key : u \in Desired(users)} |->
        LET u == CHOOSE v \in Desired(users) : v.key = text
        IN  [email |-> u.email, key |-> ParseKey[text], ips |-> AllowedIPs(u)]]

(***************************************************************************)
(* The diff and the kernel                                                 *)
(***************************************************************************)
buildAddConfig(peer, replace) ==
    [key |-> peer.key, ips |-> Range(peer.ips), replace |-> replace, remove |-> FALSE]

buildRemoveConfig(key) == [key |-> key, ips |-> {}, replace |-> FALSE, remove |-> TRUE]

(* Faulty variant: a peer whose addresses changed is not configured anew.  *)
DiffWithoutUpdates(existing, desired) ==
    [remove |-> DOMAIN existing \ DOMAIN desired,
     upsert |-> {desired[k] : k \in {l \in DOMAIN desired : l \notin DOMAIN existing
                    \/ existing[l].email # desired[l].email
                    \/ existing[l].ips # desired[l].ips}},
     update |-> {},
     add |-> {buildAddConfig(desired[k], FALSE) : k \in DOMAIN desired \ DOMAIN existing}]

(* buildSyncDiff, with its configs still in sets: updates first, then      *)
(* additions in the order of a Go map, then removals.                      *)
buildSyncDiff(existing, desired) ==
    LET both == DOMAIN existing \cap DOMAIN desired
        moved == {k \in both : existing[k].ips # desired[k].ips}
        new == DOMAIN desired \ DOMAIN existing
    IN  [remove |-> DOMAIN existing \ DOMAIN desired,
         upsert |-> {desired[k] : k \in new \cup moved \cup
                                        {l \in both : existing[l].email # desired[l].email}},
         update |-> {buildAddConfig(desired[k], TRUE) : k \in moved},
         add |-> {buildAddConfig(desired[k], FALSE) : k \in new}]

PeerConfigs(diff) ==
    {u \o a \o r : u \in SetToSeqs(diff.update), a \in SetToSeqs(diff.add),
                   r \in {SetToSeq({buildRemoveConfig(k) : k \in diff.remove})}}

(* buildTargetPeerConfigs and buildPeerConfigsForRestart                   *)
TargetPeerConfigs(peers) == SetToSeqs({buildAddConfig(p, FALSE) : p \in peers})

(* The kernel on one peer config: an address belongs to one peer, and the  *)
(* last to ask for it gets it.  A new peer counts from zero.               *)
Configure(kernel, c, zero) ==
    LET others == DOMAIN kernel \ {c.key}
        kept == [k \in others |-> [kernel[k] EXCEPT !.ips = @ \ c.ips]]
        mine == IF c.key \in DOMAIN kernel THEN kernel[c.key]
                ELSE [ips |-> {}, bytes |-> zero]
    IN  IF c.remove THEN Without(kernel, {c.key})
        ELSE Put(kept, c.key,
                 [mine EXCEPT !.ips = (IF c.replace THEN {} ELSE @) \cup c.ips])

ConfigureAll(kernel, configs, zero) ==
    FoldLeft(LAMBDA kern, c : Configure(kern, c, zero), kernel, configs)

(***************************************************************************)
(* The store                                                               *)
(***************************************************************************)
NewPeerStore == [peers |-> EmptyMap, emailToKey |-> EmptyMap]

(* Init, into an empty store, and ReplaceAll                               *)
ReplaceAllPeers(peers) ==
    [peers |-> [k \in {p.key : p \in peers} |->
                   LET p == CHOOSE q \in peers : q.key = k
                   IN  [email |-> p.email, ips |-> p.ips]],
     emailToKey |-> [e \in {p.email : p \in peers} |->
                        (CHOOSE q \in peers : q.email = e).key]]

RemoveKey(store, k) ==
    IF k \in DOMAIN store.peers
    THEN [peers |-> Without(store.peers, {k}),
          emailToKey |-> Without(store.emailToKey, {store.peers[k].email})]
    ELSE store

(* Faulty variant: the email that loses its key keeps its index entry.     *)
UpsertKeepsEmail(store, p) ==
    LET e2k == store.emailToKey
        old == IF p.email \in DOMAIN e2k THEN {e2k[p.email]} \ {p.key} ELSE {}
    IN  [peers |-> Put(Without(store.peers, old), p.key, [email |-> p.email, ips |-> p.ips]),
         emailToKey |-> Put(e2k, p.email, p.key)]

(* One peer of ApplyChanges: its email gives up its old key, and its key   *)
(* its old email.                                                          *)
UpsertPeer(store, p) ==
    LET e2k == store.emailToKey
        old == IF p.email \in DOMAIN e2k THEN {e2k[p.email]} \ {p.key} ELSE {}
        peers == Without(store.peers, old)
        owner == IF p.key \in DOMAIN peers THEN {peers[p.key].email} \ {p.email} ELSE {}
    IN  [peers |-> Put(peers, p.key, [email |-> p.email, ips |-> p.ips]),
         emailToKey |-> Put(Without(e2k, owner), p.email, p.key)]

(* ApplyChanges: all removals, then the upserts in the order of their keys *)
ApplyChanges(store, remove, upserts) ==
    FoldLeft(UpsertPeer, FoldLeft(RemoveKey, store, SetToSeq(remove)), upserts)

GetByEmail(store, e) == IF e \in DOMAIN store.emailToKey THEN {store.emailToKey[e]} ELSE {}

GetEmailMap(store) == [k \in DOMAIN store.peers |-> store.peers[k].email]
=============================================================================
