---------------------------- MODULE MCXrayUsers -----------------------------
(***************************************************************************)
(* Instances of XrayUsers for TLC: one VLESS and one Shadowsocks 2022      *)
(* inbound, and config documents with every kind of rule and outbound.     *)
(***************************************************************************)
EXTENDS XrayUsers

CONSTANTS e1, e2, Vless, SS

MCTags == {Vless, SS}
MCProtocol == [t \in MCTags |-> IF t = Vless THEN "vless" ELSE "shadowsocks"]
MCMethod == [t \in MCTags |-> IF t = Vless THEN 0 ELSE 16]

Kind(inbounds, uuid) ==
    [inbounds |-> inbounds, proxies |-> [p \in {"vless", "shadowsocks"} |->
                                            IF p = "vless" THEN uuid ELSE "password"]]

(* A user on both inbounds, on one with another uuid, with a uuid that     *)
(* does not parse, and one that is to be removed.                          *)
MCUserKinds ==
    {Kind(MCTags, "uuid1"), Kind({Vless}, "uuid2"), Kind(MCTags, Bad), Kind({}, "uuid1")}

Rule(outbound, ruleTag, ip) ==
    [inbound |-> {}, outbound |-> outbound, ruleTag |-> ruleTag, ip |-> ip, source |-> {}]

MCRules ==
    {Rule(1, "", {GeoIPPrivate, "net0"}), Rule(2, "", {}), Rule(APITag, "", {}),
     Rule(2, GuardTag, {})}

Outbound(tag, protocol) == [tag |-> tag, protocol |-> protocol]

MCOutbounds ==
    {<<>>, <<Outbound(1, "freedom")>>, <<Outbound(2, "blackhole"), Outbound(1, "blackhole")>>,
     <<Outbound(1, "freedom"), Outbound(3, "dns"), Outbound(2, "blackhole")>>}

MCPolicies ==
    [level0 : {Absent, [up |-> FALSE, down |-> TRUE, online |-> TRUE]},
     system : {Absent, [outbound |-> FALSE, inbound |-> TRUE]}]

MCRawDocs ==
    [inbounds : {<<"in1">>, <<"in1", APIInbound, "in2">>}, outbounds : MCOutbounds,
     rules : BoundedSeq(MCRules, 2), selectors : {<<1, 2, 3>>}, policy : MCPolicies]

MCEmails == {e1, e2}
=============================================================================
