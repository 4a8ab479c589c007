----------------------------- MODULE WireGuard ------------------------------
(***************************************************************************)
(* The WireGuard backend (src/backend/wireguard) on a kernel interface:    *)
(* user syncs under syncMu, the loop that samples the peers' counters,     *)
(* statistics requests, Restart, Shutdown, and a node that is killed.      *)
(*                                                                         *)
(* A sync works on the kernel, then on the store, then on the tracker, one *)
(* step each; everything else may come in between.  The kernel may refuse  *)
(* a batch half way.  Objects follow one another: what a goroutine of an   *)
(* earlier object still does touches nothing of the next.                  *)
(***************************************************************************)
EXTENDS WireGuardPeers, Tracker

CONSTANTS
    Keys,           \* public keys
    Plans           \* what may happen: the lists of users that callers send,
                    \* a bound on the bytes the peers send, and whether a
                    \* batch of peer configs may fail half way

Requests == UNION {p.requests : p \in Plans}

ASSUME WireGuardAssumption ==
    /\ \A p \in Plans : p.maxTraffic \in Nat /\ p.kernelMayFail \in BOOLEAN
    /\ \A us \in Requests : \A i \in DOMAIN us : us[i].key \in DOMAIN ParseKey \cup {NoKey}
    /\ \A text \in DOMAIN ParseKey : ParseKey[text] \in Keys \cup {Invalid}

VARIABLES
    plan,       \* one of Plans, fixed
    store,      \* wg.peerStore
    kernel,     \* the peers of the interface: addresses and counters
    life,       \* "off", "running" or "stopped"
    op,         \* what the holder of syncMu is doing
    stats,      \* wg.statsTracker
    poll,       \* what the sampling loop is doing
    torn,       \* history: a batch failed half way, and no full one followed
    moved,      \* history: an update gave away an address of a user it did
                \* not name, and no full sync followed
    sent,       \* history: bytes each peer has sent, by direction
    reported,   \* history: bytes reported for each key
    dropped,    \* history: keys the tracker dropped while a sample was on its way
    late        \* history: dropped keys that were sampled all the same

vars == <<plan, store, kernel, life, op, stats, poll, torn, moved, sent, reported, dropped, late>>
history == <<plan, sent, reported, dropped, late>>

Idle == [at |-> "idle"]

(* A new object counts from nothing.                                       *)
NoTraffic ==
    /\ sent' = [k \in Keys |-> Zero] /\ reported' = [k \in Keys |-> Zero]
    /\ dropped' = {} /\ late' = {} /\ UNCHANGED plan
-----------------------------------------------------------------------------
(* New: the interface is made anew, with the peers in the same call.       *)
New(us) ==
    LET users == normalizeUsers(us)
        peers == Range(collectDesiredPeers(users))
    IN  /\ life # "running" /\ op = Idle /\ poll = Idle
        /\ ~CollectFails(users)
        /\ \E configs \in TargetPeerConfigs(peers) :
              kernel' = ConfigureAll(EmptyMap, configs, Zero)
        /\ store' = ReplaceAllPeers(peers)
        /\ stats' = EmptyMap
        /\ life' = "running" /\ torn' = FALSE /\ moved' = FALSE
        /\ NoTraffic
        /\ UNCHANGED <<op, poll>>

(* InitializeWithPeers fails: the interface is removed, unless that fails. *)
NewFails ==
    /\ life # "running" /\ op = Idle /\ poll = Idle
    /\ kernel' \in {EmptyMap, kernel}
    /\ store' = NewPeerStore /\ stats' = EmptyMap /\ life' = "off"
    /\ torn' = FALSE /\ moved' = FALSE /\ NoTraffic
    /\ UNCHANGED <<op, poll>>

(* Shutdown waits for wg.mu, not for syncMu.                               *)
Shutdown ==
    /\ life = "running"
    /\ life' = "stopped"
    /\ kernel' \in {EmptyMap, kernel}
    /\ UNCHANGED <<store, op, stats, poll, torn, moved, history>>

(* The node is killed; the interface stays.                                *)
Kill ==
    /\ life # "off"
    /\ life' = "off" /\ op' = Idle /\ poll' = Idle
    /\ store' = NewPeerStore /\ stats' = EmptyMap
    /\ torn' = FALSE /\ moved' = FALSE /\ NoTraffic
    /\ UNCHANGED kernel
-----------------------------------------------------------------------------
(* Requests take syncMu and work out what to do; those that are refused or *)
(* change nothing are not steps.                                           *)

(* syncUsersFull                                                           *)
SyncUsers(us) ==
    LET users == normalizeUsers(us)
        desired == collectDesiredPeers(users)
        diff == buildSyncDiff(store.peers, desired)
    IN  /\ op = Idle /\ life # "off"
        /\ ~CollectFails(users)
        /\ diff.remove # {} \/ diff.upsert # {}
        /\ op' = [at |-> "replace", peers |-> Range(desired)]
        /\ UNCHANGED <<store, kernel, life, stats, poll, torn, moved, history>>

(* A key of the request belongs to nobody, or to a user of the request.    *)
KeysFree(desired, touched) ==
    \A text \in DOMAIN desired \cap DOMAIN store.peers :
        store.peers[text].email \in touched \cup {desired[text].email}

(* syncUsersPartialReconcile for SyncUser, UpdateUsers and                 *)
(* UpdateUsersAndRestart                                                   *)
UpdateUsers(us, restart) ==
    LET users == normalizeUsers(us)
        touched == {u.email : u \in users}
        keys == UNION {GetByEmail(store, e) : e \in touched}
        desired == collectDesiredPeers(users)
    IN  /\ op = Idle /\ life # "off"
        /\ ~CollectFails(users) /\ KeysFree(desired, touched)
        /\ op' = [at |-> "apply", restart |-> restart,
                  diff |-> buildSyncDiff([k \in keys |-> store.peers[k]], desired)]
        /\ UNCHANGED <<store, kernel, life, stats, poll, torn, moved, history>>

Restart ==
    /\ op = Idle /\ life # "off"
    /\ op' = [at |-> "restart"]
    /\ UNCHANGED <<store, kernel, life, stats, poll, torn, moved, history>>

(* The batches that a failing call leaves applied.                         *)
PartOf(batches) == UNION {{SubSeq(b, 1, n) : n \in 0..Len(b)} : b \in batches}

(* One ConfigureDevice: all of a batch and on to next, or a part of it and *)
(* an error.  With ReplacePeers it starts from no peers.  A backend that   *)
(* is shut down refuses.                                                   *)
ConfigureDevice(replacePeers, batches, next) ==
    LET from == IF replacePeers THEN EmptyMap ELSE kernel
    IN  \/ /\ life = "running"
           /\ \E b \in batches : kernel' = ConfigureAll(from, b, Zero)
           /\ op' = next
           /\ torn' = (torn /\ ~replacePeers)
        \/ /\ life = "running" /\ plan.kernelMayFail
           /\ \E b \in PartOf(batches) : kernel' = ConfigureAll(from, b, Zero)
           /\ op' = Idle /\ torn' = TRUE
        \/ /\ life # "running"
           /\ op' = Idle
           /\ UNCHANGED <<kernel, torn>>

(* ApplyPeersReplaceAll                                                    *)
ApplyPeersReplaceAll ==
    /\ op.at = "replace"
    /\ ConfigureDevice(TRUE, TargetPeerConfigs(op.peers), [op EXCEPT !.at = "store"])
    /\ UNCHANGED <<store, life, stats, poll, moved, history>>

(* ApplyPeers, left out when the batch is empty.                           *)
ApplyPeers ==
    /\ op.at = "apply"
    /\ IF PeerConfigs(op.diff) = {<<>>}
       THEN op' = [op EXCEPT !.at = "change"] /\ UNCHANGED <<kernel, torn>>
       ELSE ConfigureDevice(FALSE, PeerConfigs(op.diff), [op EXCEPT !.at = "change"])
    /\ UNCHANGED <<store, life, stats, poll, moved, history>>

Forget(keys, restart) == [at |-> "forget", keys |-> keys, restart |-> restart]

(* The store after a full sync                                             *)
CommitAll ==
    /\ op.at = "store"
    /\ store' = ReplaceAllPeers(op.peers)
    /\ op' = Forget(DOMAIN store.peers \ DOMAIN store'.peers, FALSE)
    /\ moved' = FALSE
    /\ UNCHANGED <<kernel, life, stats, poll, torn, history>>

(* The store after a partial one                                           *)
CommitChanges ==
    /\ op.at = "change"
    /\ \E upserts \in SetToSeqs(op.diff.upsert) :
          store' = ApplyChanges(store, op.diff.remove, upserts)
    /\ op' = Forget(op.diff.remove \cap DOMAIN store.peers, op.restart)
    /\ moved' = (moved \/ \E k, l \in DOMAIN store'.peers :
           k # l /\ Range(store'.peers[k].ips) \cap Range(store'.peers[l].ips) # {})
    /\ UNCHANGED <<kernel, life, stats, poll, torn, history>>

(* The loop over RemoveStats, and the end of the request.                  *)
ForgetStats1 ==
    /\ op.at = "forget"
    /\ IF op.keys # {}
       THEN \E k \in op.keys :
               /\ stats' = RemoveStats(stats, k)
               /\ op' = [op EXCEPT !.keys = @ \ {k}]
       ELSE /\ op' = IF op.restart THEN [at |-> "restart"] ELSE Idle
            /\ UNCHANGED stats
    /\ UNCHANGED <<store, kernel, life, poll, torn, moved, history>>

Stored == {[key |-> k, email |-> store.peers[k].email, ips |-> store.peers[k].ips] :
               k \in DOMAIN store.peers}

(* restartLocked; the store holds no peer without addresses.               *)
restartLocked ==
    /\ op.at = "restart"
    /\ ConfigureDevice(TRUE, TargetPeerConfigs(Stored), Idle)
    /\ UNCHANGED <<store, life, stats, poll, moved, history>>
-----------------------------------------------------------------------------
(* updateConnectedPeers: the device, then the store's emails, then the     *)
(* tracker.  Peers without a recent handshake are skipped; a peer that had *)
(* one has sent something.                                                 *)
GetDevice ==
    /\ poll = Idle /\ life = "running"
    /\ \E recent \in SUBSET {k \in DOMAIN kernel : kernel[k].bytes # Zero} \ {{}} :
          poll' = [at |-> "emails", device |-> [k \in recent |-> kernel[k].bytes]]
    /\ UNCHANGED <<store, kernel, life, op, stats, torn, moved, history>>

ReadEmails ==
    /\ poll.at = "emails"
    /\ poll' = [at |-> "update", samples |->
           [k \in DOMAIN poll.device \cap DOMAIN GetEmailMap(store) |-> poll.device[k]]]
    /\ UNCHANGED <<store, kernel, life, op, stats, torn, moved, history>>

UpdateStats ==
    /\ poll.at = "update"
    /\ stats' = UpdateStatsBatch(stats, poll.samples)
    /\ late' = late \cup (dropped \cap DOMAIN poll.samples)
    /\ poll' = Idle /\ dropped' = {}
    /\ UNCHANGED <<store, kernel, life, op, torn, moved, sent, reported, plan>>

(* A statistics request with reset, for all keys or for one; that one was  *)
(* looked up before, so it may be any that the tracker knows.              *)
GetStats(keys) ==
    /\ life = "running" /\ keys # {}
    /\ reported' = [k \in Keys |->
           IF k \in keys
           THEN [d \in Dirs |-> Min({plan.maxTraffic + 1, reported[k][d] + Reported(stats, k)[d]})]
           ELSE reported[k]]
    /\ stats' = AfterReset(stats, keys)
    /\ dropped' = IF poll = Idle THEN {} ELSE dropped \cup (DOMAIN stats \ DOMAIN stats')
    /\ UNCHANGED <<store, kernel, life, op, poll, torn, moved, sent, late, plan>>

cleanupOfflineUsers ==
    /\ life = "running"
    /\ stats' = CleanupDeletedEntries(stats)
    /\ dropped' = IF poll = Idle THEN {} ELSE dropped \cup (DOMAIN stats \ DOMAIN stats')
    /\ UNCHANGED <<store, kernel, life, op, poll, torn, moved, sent, reported, late, plan>>

Total == MapThenSumSet(LAMBDA k : MapThenSumSet(LAMBDA d : sent[k][d], Dirs), Keys)

(* A peer with an address sends a byte.                                    *)
Traffic(k, d) ==
    /\ life = "running" /\ Total < plan.maxTraffic
    /\ k \in DOMAIN kernel /\ kernel[k].ips # {}
    /\ kernel' = [kernel EXCEPT ![k].bytes[d] = @ + 1]
    /\ sent' = [sent EXCEPT ![k][d] = @ + 1]
    /\ UNCHANGED <<store, life, op, stats, poll, torn, moved, reported, dropped, late, plan>>
-----------------------------------------------------------------------------
Init ==
    /\ plan \in Plans
    /\ store = NewPeerStore /\ kernel = EmptyMap /\ life = "off"
    /\ op = Idle /\ stats = EmptyMap /\ poll = Idle
    /\ torn = FALSE /\ moved = FALSE
    /\ sent = [k \in Keys |-> Zero] /\ reported = [k \in Keys |-> Zero]
    /\ dropped = {} /\ late = {}

Next ==
    \/ \E us \in plan.requests : New(us) \/ SyncUsers(us)
    \/ \E us \in plan.requests, restart \in BOOLEAN : UpdateUsers(us, restart)
    \/ NewFails \/ Shutdown \/ Kill \/ Restart
    \/ ApplyPeersReplaceAll \/ ApplyPeers \/ CommitAll \/ CommitChanges
    \/ ForgetStats1 \/ restartLocked
    \/ GetDevice \/ ReadEmails \/ UpdateStats \/ cleanupOfflineUsers
    \/ GetStats(DOMAIN stats) \/ \E k \in DOMAIN stats : GetStats({k})
    \/ \E k \in Keys, d \in Dirs : Traffic(k, d)

Spec == Init /\ [][Next]_vars
-----------------------------------------------------------------------------
(* The two indexes of the store are inverse: one key per user, one user    *)
(* per key, whatever keys and emails change hands.                         *)
StoreOneToOne ==
    /\ \A e \in DOMAIN store.emailToKey :
          /\ store.emailToKey[e] \in DOMAIN store.peers
          /\ store.peers[store.emailToKey[e]].email = e
    /\ \A k \in DOMAIN store.peers :
          /\ store.peers[k].email \in DOMAIN store.emailToKey
          /\ store.emailToKey[store.peers[k].email] = k

(* Between syncs the kernel has the peers of the store, and accepts from   *)
(* each only addresses the store gives it; all of them, unless an update   *)
(* took an address away from a user it did not name.                       *)
KernelMatchesStore ==
    life = "running" /\ ~torn /\ op.at \in {"idle", "forget", "restart"} =>
        /\ DOMAIN kernel = DOMAIN store.peers
        /\ \A k \in DOMAIN kernel :
              /\ kernel[k].ips \subseteq Range(store.peers[k].ips)
              /\ ~moved => kernel[k].ips = Range(store.peers[k].ips)

Billed(k, d) ==
    reported[k][d] + (IF k \in DOMAIN stats THEN Reported(stats, k)[d] ELSE 0)

(* What the tracker has seen it reports, once: whatever peers are removed, *)
(* added again, reset and cleaned up, no byte it holds is lost.            *)
NothingForgotten ==
    [][life = "running" /\ life' = "running" =>
          \A k \in Keys \ late', d \in Dirs : Billed(k, d)' >= Billed(k, d)]_vars

(* No peer is reported with more than it sent, unless a late sample came   *)
(* after the tracker had dropped its entry.                                *)
NeverOverReported ==
    \A k \in Keys \ late, d \in Dirs : Billed(k, d) <= sent[k][d]

(* The store as a table of users                                           *)
Table ==
    [e \in DOMAIN store.emailToKey |->
        [key |-> store.emailToKey[e], ips |-> store.peers[store.emailToKey[e]].ips]]

Abstract == INSTANCE PeerTable WITH table <- Table

(* The store, seen as a table of users, changes as PeerTable says: a sync  *)
(* gives exactly what its users ask for, or nothing.                       *)
ImplementsPeerTable == Abstract!Spec
=============================================================================
