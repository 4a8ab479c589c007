---------------------------- MODULE MCWireGuard -----------------------------
(***************************************************************************)
(* Two users and two keys, each of which may change hands, two addresses   *)
(* of the interface, one that is not, one that does not parse, and one key *)
(* that does not parse.                                                    *)
(***************************************************************************)
EXTENDS WireGuard

CONSTANTS k1, k2, badKey, unparsed

MCKeys == {k1, k2}
MCParseKey == (k1 :> k1) @@ (k2 :> k2) @@ (badKey :> unparsed)
MCPool == {"ip1", "ip2"}

U(e, k, ips) == [email |-> e, on |-> TRUE, key |-> k, ips |-> ips]

Few == {<<>>, <<U("a", k1, <<"ip1">>)>>, <<U("b", k1, <<"ip1">>)>>}

Many == Few \cup
    { <<U("a", k1, <<"ip2">>), U("a", k2, <<"ip2", "away">>)>>,
      <<U("a", k1, <<"ip1">>), U("b", k2, <<"ip2">>)>>,
      <<U("b", k1, <<"ip2">>), U("a", k2, <<"ip1">>)>>,
      <<U("a", k1, <<"ip1">>), U("b", k1, <<"ip2">>)>>,
      <<[U("b", k2, <<"ip2">>) EXCEPT !.on = FALSE], U("b", NoKey, <<"ip1">>),
        U("a", badKey, <<"ip1">>), U("c", k1, <<"bad">>)>> }

MCPlans ==
    { [requests |-> Many, maxTraffic |-> 1, kernelMayFail |-> TRUE],
      [requests |-> Few, maxTraffic |-> 3, kernelMayFail |-> FALSE] }
=============================================================================
