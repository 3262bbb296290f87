----------------------------- MODULE MCDataPath -----------------------------
(* The way of a connection, in parts that share no state: the TUN server it   *)
(* may enter by, the rules that route it, and the protocols it may leave by,  *)
(* VLESS and Trojan streams, AnyTLS and Hysteria.  A behaviour runs one part, *)
(* with one scenario of it; part says which.                                  *)
EXTENDS RuleNet, Hysteria, ProxyStream, AnyTls, TunGateway

CONSTANTS p1, p2,    \* two source ports of the TUN server's clients
          MaxTraffic \* bound: what goes both ways through a stream, in tokens

VARIABLE part
vars == <<ruleVars, hyVars, proxyVars, anyVars, tunVars, part>>

\* Rules of four kinds, and requests from two sources for an address or a domain.
MCIps == {<<"10", "1">>, <<"20", "1">>}
MCCountry(ip) == IF ip[1] = "20" THEN "CN" ELSE ""
Com == <<"ex", ".", "com">>
Pre == <<"pre", "ex", ".", "com">>
M(type, method, list, country) == [type |-> type, method |-> method, list |-> list, country |-> country]
MCRules == <<[target |-> "p", matcher |-> M("domain", "match", << <<"+", ".">> \o Com>>, "")],
             [target |-> "d", matcher |-> M("src_ipcidr", "", << <<"10">> >>, "")],
             [target |-> "q", matcher |-> M("domain", "keyword", << <<"pre">> >>, "")],
             [target |-> "p", matcher |-> M("geoip", "", <<>>, "CN")]>>
Wants(src, kind, name, tcp) == [src |-> <<src, "1">>, addr |-> [kind |-> kind, name |-> name], tcp |-> tcp]
MCRequests == {Wants("10", "ip", <<"20", "1">>, TRUE), Wants("20", "ip", <<"20", "1">>, TRUE),
               Wants("10", "domain", <<"20", "1">>, FALSE)}
MCAnswers == {[query |-> Com, cnames |-> {}, ips |-> {<<"20", "1">>}],
              [query |-> Pre, cnames |-> {Com}, ips |-> {}],
              [query |-> Com, cnames |-> {Pre}, ips |-> {}]}

\* The records of three padding schemes: one that splits, one that pads and one whose
\* second packet asks for more padding than a frame can hold.
MCSchemes == {<< <<3, 2, Check, 4>>, <<4>> >>, << <<1>>, <<2, Check, 1, 1>>, <<3>> >>,
              << <<2>>, <<8>> >>}

\* A connection attempt; packets of both sizes; a name's packets and their replies; a
\* client of another make, whose sessions have two addresses.
HyScenario == \/ HyInit(NoConn, NoConn, "ip", {"ip"}, {1}, 0, 0)
              \/ HyInit("up", "open", "ip", {"ip"}, 1..2, 3, 0)
              \/ HyInit("up", "open", "name", {"name"}, {1}, 2, 2)
              \/ HyInit("up", "open", "ip", {"ip", "other"}, {2}, 2, 0)

\* Vision over REALITY between two of ours and from an Xray client, over TLS to an
\* Xray server; VLESS without Vision; Trojan.
ProxyScenario == \/ ProxyInit("vision", TRUE, "ours", "connect")
                 \/ ProxyInit("vision", TRUE, "client", "connect")
                 \/ ProxyInit("vision", FALSE, "server", "connect")
                 \/ ProxyInit("none", TRUE, "ours", "connect")
                 \/ ProxyInit("trojan", FALSE, "ours", "connect")

TunScenario == TunInit([p \in Ports |-> IF p = p1 THEN MaxFlows ELSE 1])

Init == /\ part \in {"route", "hysteria", "proxy", "anytls", "tun"}
        /\ RuleInit
        /\ IF part = "hysteria" THEN HyScenario ELSE HyInit("lost", "open", "ip", {"ip"}, {1}, 0, 0)
        /\ IF part = "proxy" THEN ProxyScenario ELSE ProxyInit("vision", TRUE, "ours", "off")
        /\ AnyInit(part = "anytls")
        /\ IF part = "tun" THEN TunScenario ELSE TunInit([p \in Ports |-> 0])
Next == \/ part = "route" /\ RuleNext /\ UNCHANGED <<hyVars, proxyVars, anyVars, tunVars, part>>
        \/ part = "hysteria" /\ HyNext /\ UNCHANGED <<ruleVars, proxyVars, anyVars, tunVars, part>>
        \/ /\ part = "proxy" /\ ProxyNext /\ (dir["up"].sent + dir["down"].sent)' <= MaxTraffic
           /\ UNCHANGED <<ruleVars, hyVars, anyVars, tunVars, part>>
        \/ /\ part = "anytls" /\ AnyNext /\ (seen.wrote + seen.pushed)' <= MaxTraffic
           /\ UNCHANGED <<ruleVars, hyVars, proxyVars, tunVars, part>>
        \/ part = "tun" /\ TunNext /\ UNCHANGED <<ruleVars, hyVars, proxyVars, anyVars, part>>
Spec == Init /\ [][Next]_vars
=============================================================================
