---------------------------- MODULE HostRouting -----------------------------
(***************************************************************************)
(* The nftables rules a WireGuard backend puts on its host and takes away  *)
(* at its shutdown (src/backend/wireguard/host_routing_linux.go).  Several *)
(* backends, each with an owner id of its own, share the host's chains     *)
(* with its administrator.  A routine is the list of nft commands it still *)
(* has to run; each is atomic, may fail, and then ends its part of the     *)
(* routine.                                                                *)
(***************************************************************************)
EXTENDS Integers, SequencesExt

CONSTANTS
    Owners,     \* owner ids, one for every backend started (newHostRoutingOwnerID)
    Admin,      \* owner of the rules that carry no comment of a node
    NatChain,   \* the postrouting chain of the node's own table
    Chains      \* the host's other base chains, [name, hook, family]

ASSUME HostRoutingAssumption == Admin \notin Owners

VARIABLES
    present,    \* base chains of the host, NatChain among them once made
    rules,      \* rules of the host, [chain, owner, kind]
    phase,      \* owner -> where its backend is
    todo,       \* owner -> commands left of its running routine
    failed      \* owners of whose cleanup a command failed

hostVars == <<present, rules, phase, todo, failed>>


Command(op, part, chain, o, kind) ==
    [op |-> op, part |-> part, chain |-> chain, owner |-> o, kind |-> kind]

nftForwardFamilySupported(family) == family \in {"ip", "inet"}

(* The chains of the ruleset as listed now                                 *)
nftForwardBaseChains ==
    {c \in present : c.hook = "forward" /\ nftForwardFamilySupported(c.family)}

(* Faulty variant: every rule with a node's comment.                       *)
RulesOfNodes(chain, o) == {r \in rules : r.chain = chain /\ r.owner # Admin}

(* The rules whose comment starts with the owner's prefix; the space that  *)
(* ends the prefix keeps one owner id from matching a longer one.          *)
nftRuleHandlesWithComment(chain, o) == {r \in rules : r.chain = chain /\ r.owner = o}

RemoveRules(part, chain, o) == <<Command("list", part, chain, o, "")>>

ensureNFTMasquerade(o) ==
    <<Command("make", "nat", NatChain, o, "")>>
    \o RemoveRules("nat", NatChain, o) \o <<Command("add", "nat", NatChain, o, "nat")>>

insertNFTForwardRule(chain, o, kind) == <<Command("add", "forward", chain, o, kind)>>

ensureNFTForwarding(chains, o) ==
    FlattenSeq([i \in DOMAIN chains |->
        RemoveRules("forward", chains[i], o)
        \o insertNFTForwardRule(chains[i], o, "return")
        \o insertNFTForwardRule(chains[i], o, "outbound")])

applyLinuxHostRouting(o) ==
    ensureNFTMasquerade(o) \o <<Command("chains", "forward", NatChain, o, "")>>

(* Faulty variant: only the node's own chain is cleaned.                   *)
CleanupOwnChain(o) == RemoveRules(NatChain.name, NatChain, o)

cleanupLinuxHostRouting(o) ==
    RemoveRules(NatChain.name, NatChain, o) \o <<Command("chains", "cleanup", NatChain, o, "")>>

(* The loop of the cleanup over the chains: each is a part of its own.     *)
CleanChains(chains, o) ==
    FlattenSeq([i \in DOMAIN chains |-> RemoveRules(chains[i].name, chains[i], o)])

(* removeNFTRulesWithCommentPrefix: a deletion for every rule listed       *)
Deletions(c) ==
    LET found == SetToSeq(nftRuleHandlesWithComment(c.chain, c.owner))
    IN  [i \in DOMAIN found |->
            Command("delete", c.part, c.chain, found[i].owner, found[i].kind)]

(* What a command turns into: a listing into the commands on what it lists *)
Expand(c) ==
    CASE c.op = "list" -> Deletions(c)
      [] c.op = "chains" -> LET chains == SetToSeq(nftForwardBaseChains)
                            IN  IF c.part = "forward" THEN ensureNFTForwarding(chains, c.owner)
                                ELSE CleanChains(chains, c.owner)
      [] OTHER -> <<>>

Rule(c) == [chain |-> c.chain, owner |-> c.owner, kind |-> c.kind]

(* The effect of a command that succeeds                                   *)
Effect(c) ==
    /\ c.op \in {"list", "add", "delete"} => c.chain \in present
    /\ c.op = "delete" => Rule(c) \in rules
    /\ present' = IF c.op = "make" THEN present \union {NatChain} ELSE present
    /\ rules' = CASE c.op = "add" -> rules \union {Rule(c)}
                  [] c.op = "delete" -> rules \ {Rule(c)}
                  [] OTHER -> rules
-----------------------------------------------------------------------------
HostInit ==
    /\ present = Chains
    /\ rules = {[chain |-> c, owner |-> Admin, kind |-> "policy"] : c \in Chains}
    /\ phase = [o \in Owners |-> "new"]
    /\ todo = [o \in Owners |-> <<>>]
    /\ failed = {}

Apply(o) ==
    /\ phase[o] = "new"
    /\ phase' = [phase EXCEPT ![o] = "apply"]
    /\ todo' = [todo EXCEPT ![o] = applyLinuxHostRouting(o)]
    /\ UNCHANGED <<present, rules, failed>>

Cleanup(o) ==
    /\ phase[o] = "apply" /\ todo[o] = <<>>
    /\ phase' = [phase EXCEPT ![o] = "cleanup"]
    /\ todo' = [todo EXCEPT ![o] = cleanupLinuxHostRouting(o)]
    /\ UNCHANGED <<present, rules, failed>>

runNFT(o) ==
    /\ todo[o] # <<>>
    /\ Effect(Head(todo[o]))
    /\ todo' = [todo EXCEPT ![o] = Expand(Head(@)) \o Tail(@)]
    /\ UNCHANGED <<phase, failed>>

(* A command fails: the rest of its part is given up.                      *)
runNFTFails(o) ==
    /\ todo[o] # <<>>
    /\ todo' = [todo EXCEPT ![o] = SelectSeq(@, LAMBDA c : c.part # Head(@).part)]
    /\ failed' = IF phase[o] = "cleanup" THEN failed \union {o} ELSE failed
    /\ UNCHANGED <<present, rules, phase>>

(* The node is killed; its rules stay, and no later owner id is its.       *)
KillOwner(o) ==
    /\ phase[o] \in {"apply", "cleanup"}
    /\ phase' = [phase EXCEPT ![o] = "killed"]
    /\ todo' = [todo EXCEPT ![o] = <<>>]
    /\ UNCHANGED <<present, rules, failed>>

(* The administrator deletes a chain with its rules.                       *)
DeleteChain(c) ==
    /\ present' = present \ {c} /\ rules' = {r \in rules : r.chain # c}
    /\ UNCHANGED <<phase, todo, failed>>

HostNext ==
    \/ \E o \in Owners : Apply(o) \/ Cleanup(o) \/ runNFT(o) \/ runNFTFails(o) \/ KillOwner(o)
    \/ \E c \in nftForwardBaseChains \union ({NatChain} \intersect present) : DeleteChain(c)

(* A rule that goes away while its chain stays is a rule of the backend    *)
(* that runs the command: neither another backend's rules nor those of the *)
(* administrator are ever touched by an apply or a cleanup.                *)
OnlyOwnRulesRemoved ==
    [][\A r \in rules \ rules' :
           r.chain \in present' => r.owner \in Owners /\ todo'[r.owner] # todo[r.owner]]_hostVars

(* A cleanup that ran to its end and none of whose commands failed leaves  *)
(* no rule of its backend on the host, however the commands of the         *)
(* backends interleave and however the apply ended.                        *)
CleanupLeavesNothing ==
    \A o \in Owners \ failed :
        phase[o] = "cleanup" /\ todo[o] = <<>> => \A r \in rules : r.owner # o
=============================================================================
