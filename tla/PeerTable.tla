----------------------------- MODULE PeerTable ------------------------------
(***************************************************************************)
(* What the WireGuard backend promises its callers: a table of users, one  *)
(* public key per user and one user per key.  A request changes it as a    *)
(* whole or not at all.  Only a new backend or a lost one starts over.     *)
(*                                                                         *)
(* A request is a list of users.  A user has an email, a flag that says    *)
(* whether it is assigned to the interface, a key and a list of addresses; *)
(* ParseKey gives the key its text stands for, Pool the addresses of the   *)
(* interface.                                                              *)
(***************************************************************************)
EXTENDS Integers, SequencesExt, TLC

CONSTANTS
    Requests,       \* the lists of users that callers send
    ParseKey,       \* text of a key -> the key, or Invalid
    Invalid,        \* not a key
    NoKey,          \* the user has no WireGuard settings
    Pool,           \* addresses inside the networks of the interface
    BadIP           \* an address that does not parse

VARIABLE table      \* email -> its key and addresses

Nobody == <<>>

(* A user counts when it has a key and addresses; the last one with an     *)
(* email wins.                                                             *)
Usable(u) == u.key # NoKey /\ u.ips # <<>>

Touched(us) == {us[i].email : i \in {j \in DOMAIN us : Usable(us[j])}}

LastOf(us, e) == us[Max({i \in DOMAIN us : us[i].email = e /\ Usable(us[i])})]

(* A user gets a row when it is on the interface, its key and addresses    *)
(* parse, and one of them is of the interface.                             *)
Admitted(u) ==
    /\ u.on /\ ParseKey[u.key] # Invalid
    /\ BadIP \notin Range(u.ips) /\ Range(u.ips) \cap Pool # {}

Row(u) == [key |-> ParseKey[u.key], ips |-> SelectSeq(u.ips, LAMBDA a : a \in Pool)]

Want(us) ==
    [e \in {d \in Touched(us) : Admitted(LastOf(us, d))} |-> Row(LastOf(us, e))]

OneToOne(t) == \A d, e \in DOMAIN t : t[d].key = t[e].key => d = e

(* The users of the request and nobody else.                               *)
Replace(us) ==
    /\ OneToOne(Want(us))
    /\ table' = Want(us)

(* The users of the request, and everybody it does not mention.            *)
Update(us) ==
    LET rest == [e \in DOMAIN table \ Touched(us) |-> table[e]]
    IN  /\ OneToOne(Want(us) @@ rest)
        /\ table' = Want(us) @@ rest

(* The node or its backend is gone.                                        *)
Lose == table' = Nobody

Init == table = Nobody

Next == (\E us \in Requests : Replace(us) \/ Update(us)) \/ Lose

Spec == Init /\ [][Next]_table
=============================================================================
