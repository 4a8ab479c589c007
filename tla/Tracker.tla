------------------------------ MODULE Tracker -------------------------------
(***************************************************************************)
(* Traffic of WireGuard peers (src/pkg/stats/tracker.go): a map from the   *)
(* public key to an entry, fed with the kernel's cumulative counters.      *)
(*                                                                         *)
(* An entry keeps the last sample, the part of it that has been reported   *)
(* (base), and what was pending when its peer was removed (lastDelta).     *)
(* The email it is reported under, the endpoint and the time of the last   *)
(* activity are left out.                                                  *)
(***************************************************************************)
EXTENDS Integers, Maps

CONSTANT Dirs       \* the directions that are counted, rx and tx

Zero == [d \in Dirs |-> 0]
Minus(a, b) == [d \in Dirs |-> a[d] - b[d]]
Positive(a) == [d \in Dirs |-> IF a[d] > 0 THEN a[d] ELSE 0]
-----------------------------------------------------------------------------
NewEntry == [current |-> Zero, base |-> Zero, lastDelta |-> Zero, deleted |-> FALSE]

Pending(entry) == Minus(entry.current, entry.base)

(* The baseline that keeps what is pending when the counter went back.     *)
Rebase(entry, bytes) == Minus(bytes, Positive(Pending(entry)))

(* applySampleLocked: the entry of a key after a sample                    *)
applySample(stats, key, bytes) ==
    LET old == IF key \in DOMAIN stats THEN stats[key] ELSE NewEntry
        readded == old.lastDelta # Zero
        back == \E d \in Dirs : bytes[d] < old.current[d]
    IN  [current |-> bytes,
         base |-> CASE readded -> Minus(bytes, old.lastDelta)
                    [] ~readded /\ back -> Rebase(old, bytes)
                    [] OTHER -> old.base,
         lastDelta |-> Zero, deleted |-> FALSE]

UpdateStatsBatch(stats, samples) ==
    [k \in DOMAIN stats \cup DOMAIN samples |->
        IF k \in DOMAIN samples THEN applySample(stats, k, samples[k]) ELSE stats[k]]

(* GetStats and GetUsersStats with reset: what is reported for the keys,   *)
(* and the entries that remain.                                            *)
Reported(stats, k) == Positive(Pending(stats[k]))

AfterReset(stats, keys) ==
    [k \in {l \in DOMAIN stats : l \in keys => ~stats[l].deleted} |->
        IF k \in keys THEN [stats[k] EXCEPT !.base = stats[k].current] ELSE stats[k]]

(* Faulty variant: all that was counted is kept, not what is pending.      *)
RemoveKeepsAll(stats, k) ==
    IF k \in DOMAIN stats
    THEN [stats EXCEPT ![k].lastDelta = stats[k].current, ![k].deleted = TRUE]
    ELSE stats

RemoveStats(stats, k) ==
    IF k \in DOMAIN stats
    THEN [stats EXCEPT ![k].lastDelta = Pending(stats[k]), ![k].deleted = TRUE]
    ELSE stats

(* Faulty variant: entries go whether or not their bytes were reported.    *)
CleanupAllDeleted(stats) ==
    Without(stats, {k \in DOMAIN stats : stats[k].deleted})

CleanupDeletedEntries(stats) ==
    Without(stats, {k \in DOMAIN stats : stats[k].deleted /\ stats[k].current = stats[k].base})
=============================================================================
