----------------------------- MODULE XrayConfig -----------------------------
(***************************************************************************)
(* What the node does to a config document before Xray gets it             *)
(* (src/backend/xray/config.go, ApplyAPI): its API inbound and rule, the   *)
(* guard rule for malformed domains, the statistics policy.                *)
(*                                                                         *)
(* A document is a record.  Its inbounds are tags; an outbound has a tag   *)
(* (a number, compared as the strings are) and a protocol; a rule has the  *)
(* inbounds it matches, its outbound, its ruleTag and its address lists;   *)
(* a level of the policy and its system part may be absent.  JSON that     *)
(* does not parse ends ApplyAPI with an error and is left out, and so are  *)
(* documents with two inbounds tagged API_INBOUND.                         *)
(***************************************************************************)
EXTENDS Integers, SequencesExt

CONSTANTS
    PrivateCIDRs,   \* the networks that geoip:private stands for
    HostAddrs,      \* apiRuleSources: the addresses of this host
    Absent          \* a part the document does not have

APIInbound == "API_INBOUND"
APITag == -1
GuardTag == "PG_NODE_MALFORMED_DOMAIN_GUARD"
GeoIPPrivate == "geoip:private"
-----------------------------------------------------------------------------
replaceGeoIPPrivate(ips) ==
    IF GeoIPPrivate \in ips THEN (ips \ {GeoIPPrivate}) \cup PrivateCIDRs ELSE ips

normalizeGeoIPPrivateRules(rules) ==
    [i \in DOMAIN rules |-> [rules[i] EXCEPT !.ip = replaceGeoIPPrivate(@),
                                             !.source = replaceGeoIPPrivate(@)]]

(* Faulty variant: rules to the API go, guard rules of an earlier call     *)
(* stay.                                                                   *)
filterAPIRules(rules) == SelectSeq(rules, LAMBDA r : r.outbound # APITag)

filterRules(rules) ==
    SelectSeq(rules, LAMBDA r : r.outbound # APITag /\ r.ruleTag # GuardTag)

(* The last outbound with a tag gives its protocol.                        *)
outboundProtocolByTag(outbounds) ==
    [t \in {outbounds[i].tag : i \in DOMAIN outbounds} |->
        LET same == {i \in DOMAIN outbounds : outbounds[i].tag = t}
        IN  outbounds[Max(same)].protocol]

(* The first tag in sorted order whose protocol is blackhole, if any.      *)
blackholeOutboundTags(outbounds) ==
    LET protocol == outboundProtocolByTag(outbounds)
        holes == {t \in DOMAIN protocol : protocol[t] = "blackhole"}
    IN  IF holes = {} THEN {} ELSE {Min(holes)}

observatoryExcludedProtocols == {"blackhole", "dns", "loopback"}

sanitizeObservatorySelectors(selectors, outbounds) ==
    LET protocol == outboundProtocolByTag(outbounds)
    IN  SelectSeq(selectors, LAMBDA t :
            t \in DOMAIN protocol => protocol[t] \notin observatoryExcludedProtocols)

APIRule ==
    [inbound |-> {APIInbound}, outbound |-> APITag, ruleTag |-> "",
     ip |-> {}, source |-> HostAddrs]

malformedDomainGuardRule(tag) ==
    [inbound |-> {}, outbound |-> tag, ruleTag |-> GuardTag, ip |-> {}, source |-> {}]

(* Traffic of users and of outbounds is counted; what the document says    *)
(* about the rest stays.                                                   *)
checkPolicy(policy) ==
    [level0 |-> IF policy.level0 = Absent
                THEN [up |-> TRUE, down |-> TRUE, online |-> FALSE]
                ELSE [policy.level0 EXCEPT !.up = TRUE, !.down = TRUE],
     system |-> IF policy.system = Absent
                THEN [outbound |-> TRUE, inbound |-> FALSE]
                ELSE [policy.system EXCEPT !.outbound = TRUE]]

ApplyAPI(doc) ==
    LET rules == filterRules(normalizeGeoIPPrivateRules(doc.rules))
        guards == {malformedDomainGuardRule(t) : t \in blackholeOutboundTags(doc.outbounds)}
    IN  [inbounds |-> <<APIInbound>> \o
                      SelectSeq(doc.inbounds, LAMBDA t : t # APIInbound),
         outbounds |-> doc.outbounds,
         rules |-> <<APIRule>> \o SetToSeq(guards) \o rules,
         selectors |-> sanitizeObservatorySelectors(doc.selectors, doc.outbounds),
         policy |-> checkPolicy(doc.policy)]
-----------------------------------------------------------------------------
(* A generated document reaches the node's API first and from this host    *)
(* only: the API rule leads, no other rule leads to the API, one inbound   *)
(* is tagged API_INBOUND, and one guard rule, to an outbound that drops,   *)
(* follows exactly when there is such an outbound.                         *)
NodeRulesLead(doc) ==
    LET drops == {o \in Range(doc.outbounds) : o.protocol = "blackhole"}
        guards == {i \in DOMAIN doc.rules : doc.rules[i].ruleTag = GuardTag}
    IN  /\ doc.rules[1] = APIRule
        /\ \A i \in 2..Len(doc.rules) : doc.rules[i].outbound # APITag
        /\ guards = IF drops = {} THEN {} ELSE {2}
        /\ \A i \in guards : \E o \in drops : o.tag = doc.rules[i].outbound
        /\ {i \in DOMAIN doc.inbounds : doc.inbounds[i] = APIInbound} = {1}

(* Every user's traffic is counted, which billing rests on.                *)
TrafficCounted(doc) ==
    /\ doc.policy.level0.up /\ doc.policy.level0.down
    /\ doc.policy.system.outbound
=============================================================================
