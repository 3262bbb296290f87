----------------------------- MODULE MCControl -----------------------------
(* From a configuration to running nets, in parts that share no state:        *)
(* "graph", "select" and "clash" take a graph of nets or import a document    *)
(* and build it, "stream" follows the sources of a configuration, "api" is    *)
(* the web UI's session.  doc is what the behaviour began with.               *)
EXTENDS NetBuild, ConfigStream, ApiSession, Relation

VARIABLE doc
vars == <<buildVars, streamVars, apiVars, doc>>

N(x) == Name(<<x>>)
MCTypes == {"alias", "select", "rule", "shadowsocks", "obfs", "local", "noop", "blackhole"}

\* Names and addresses the rules of imported documents are asked about.
MCIps == {<<"10", "1">>, <<"20", "1">>}
MCCountry(ip) == IF ip[1] = "20" THEN "CN" ELSE ""
Com == <<"ex", ".", "com">>

\* Graphs of three nets: chains, cycles, dangling names, unknown types, a selection
\* from nothing, options that do not deserialise or are refused, and a nested net.
With(opt, net) == [net EXCEPT !.opt = opt]
NetChoices == {Net("alias", <<N(x)>>) : x \in {"a", "b", "local", "gone"}}
              \cup {Net("select", <<N(x), N(x), N("local")>>) : x \in {"b", "c"}}
              \cup {Net("select", <<N("local")>>), Net("mystery", <<>>),
                    With("malformed", Net("alias", <<N("gone")>>)), With("refused", Net("alias", <<N("c")>>)),
                    Net("shadowsocks", <<Inline(Net("obfs", <<N("c")>>))>>)}
\* Selections that change a net, that name what does not run, and of nets that are
\* no select net or not there.
MCSelections == {<< <<"a">>, <<"local">> >>, << <<"a">>, <<"b">> >>, << <<"b">>, <<"c">> >>,
                 << <<"a">>, <<"gone">> >>, << <<"c">>, <<"gone">> >>, << <<"gone">>, <<"b">> >>}
Server(n, opt, x) == [name |-> <<n>>, opt |-> opt, refs |-> <<N(x)>>]
Servers(x) == <<Server("s", "valid", x), Server("t", "valid", "c")>>
\* The NetRefs of these graphs; the ones of imported documents are not among them.
MCRefs == {N(x) : x \in {"a", "b", "c", "local", "gone"}} \cup {Inline(Net("obfs", <<N("c")>>))}
Graphs == [{<<"a">>, <<"b">>, <<"c">>} -> NetChoices]
GraphDocs == [kind : {"graph"}, nets : Graphs, servers : {Servers("a"), Servers("b")}]
             \cup [kind : {"graph"}, nets : {[n \in {<<"a">>} |-> Net("alias", <<N(x)>>)] : x \in {"local", "gone"}},
                   servers : {<<Server("s", opt, "a")>> : opt \in {"malformed", "refused"}}]
\* In some of them selections are changed while they run.
SelectDocs == [kind : {"select"}, servers : {Servers("a")},
               nets : {g \in Graphs : g[<<"a">>] = Net("select", <<N("b"), N("b"), N("local")>>)
                                     /\ g[<<"b">>].type \in {"select", "shadowsocks"}}]

\* Clash documents with a proxy that is supported, its parameters good or bad, and one
\* that is not, two groups and three rules.
Proxy(x, type, opt) == [name |-> <<x>>, type |-> type, opt |-> opt]
Group(x, type, list) == [name |-> <<x>>, type |-> type, proxies |-> list]
Rule(type, value, x) == [type |-> type, value |-> value, target |-> <<x>>, loaded |-> TRUE, behavior |-> "domain"]
ClashDocs ==
  [kind : {"clash"},
   proxies : {<<Proxy("A", "shadowsocks", opt), Proxy("B", "unsupported", "valid")>> :
                opt \in {"valid", "malformed", "refused"}}
             \cup {<<Proxy("A", "ss-obfs", "valid"), Proxy("B", "unsupported", "valid")>>},
   groups : {<<Group("G", type, l), Group("H", "select", m)>> :
               type \in {"select", "relay", "load-balance"},
               l \in {<< <<"A">> >>, << <<"A">>, <<"DIRECT">> >>, << <<"H">> >>, <<>>},
               m \in {<< <<"B">> >>, << <<"G">> >>}},
   rules : {<<r, s, Rule("MATCH", <<>>, "G")>> :
              r \in {Rule("DOMAIN", Com, "A"), Rule("DOMAIN-KEYWORD", <<"ex">>, "A"),
                     [Rule("RULE-SET", <<Com>>, "A") EXCEPT !.loaded = FALSE]},
              s \in {Rule("DOMAIN-SUFFIX", Com, "A"), Rule("DOMAIN-SUFFIX", Com, "H"),
                     Rule("DOMAIN", <<"a", ".">> \o Com, "A"), Rule("GEOIP", "CN", "Nobody")}},
   o : [prefix : {None, <<"p">>}, direct : {None}, reject : {None}, net : {None},
        rule_name : {<<"rule">>}, select : {None, <<"all">>}, disable_proxy_group : {FALSE}]]

Layouts == {<<"path", "poll">>, <<"poll", "text">>, <<"poll-once", "path">>, <<"storage", "poll-once">>}

\* Events that lag behind; a call beside a subscription; two subscriptions in turn.
ApiScenario == \/ ApiInit("engine.events", 1, 0, 1) \/ ApiInit("connections", 1, 1, 2)
               \/ ApiInit("connections", 2, 0, 3)

Init == /\ doc \in GraphDocs \cup SelectDocs \cup ClashDocs \cup [kind : {"stream", "api"}]
        /\ CASE doc.kind \in {"graph", "select"} -> BuildInit(doc.nets, doc.servers)
             [] doc.kind = "clash" -> BuildInit(ClashProcess(doc, doc.o, <<>>), <<Server("s", "valid", "rule")>>)
             [] OTHER -> BuildInit(<<>>, <<>>)
        /\ IF doc.kind = "stream" THEN \E kinds \in Layouts : StreamInit(kinds, "load")
           ELSE StreamInit(<<"text", "text">>, "ended")
        /\ IF doc.kind = "api" THEN ApiScenario ELSE ApiInit("connections", 0, 0, LastVersion)
Next == \/ doc.kind \in {"graph", "clash"} /\ BuildStep /\ UNCHANGED <<streamVars, apiVars, doc>>
        \/ doc.kind = "select" /\ BuildNext /\ UNCHANGED <<streamVars, apiVars, doc>>
        \/ doc.kind = "stream" /\ StreamNext /\ UNCHANGED <<buildVars, apiVars, doc>>
        \/ doc.kind = "api" /\ ApiNext /\ UNCHANGED <<buildVars, streamVars, doc>>
Spec == Init /\ [][Next]_vars /\ StreamFairness /\ ApiFairness

-----------------------------------------------------------------------------
\* An imported document builds, whatever is in it that cannot be translated, unless the
\* rules lead to a hole that Clash::process left: a proxy whose parameters, copied unseen,
\* its builder does not take; a group that it cannot translate, a selection without
\* members, groups in a cycle; or a proxy with the obfs plugin.  Then it does not.
Entries(c) == c.proxies \o c.groups
Members(c) == {Entries(c)[i].name : i \in 1..Len(Entries(c))}
Lists(c) == [p \in Members(c) \X Members(c) |->
                  \E i \in 1..Len(c.groups) : c.groups[i].name = p[1] /\ p[2] \in ToSet(c.groups[i].proxies)]
Reached(c) == LET Leads == TransitiveClosure(Lists(c), Members(c)) IN
  {n \in Members(c) : \E i \in 1..Len(c.rules) :
     /\ RuleToRule(c, c.o, c.rules[i]) # <<>>
     /\ n = c.rules[i].target \/ (c.rules[i].target \in Members(c) /\ Leads[c.rules[i].target, n])}
Refused(p) == p.type # "unsupported" /\ p.opt # "valid"
Unmade(c, g) == \/ ProxyGroupToNet(c, c.o, g) = <<>> \/ (g.type # "relay" /\ g.proxies = <<>>)
                \/ TransitiveClosure(Lists(c), Members(c))[g.name, g.name]
Hole(c) == \/ \E i \in 1..Len(c.proxies) : c.proxies[i].name \in Reached(c) /\ Refused(c.proxies[i])
           \/ \E i \in 1..Len(c.groups) : c.groups[i].name \in Reached(c) /\ Unmade(c, c.groups[i])
Plugged(c) == \E i \in 1..Len(c.proxies) : c.proxies[i].name \in Reached(c) /\ c.proxies[i].type = "ss-obfs"
ImportBuilds == doc.kind = "clash" => /\ built = "failed" => Hole(doc) \/ Plugged(doc)
                                      /\ built = "ok" => ~(Hole(doc) \/ Plugged(doc))

\* Merging neighbouring rules of one target changes no decision, where the domain
\* rules among them have one method (Matcher::merge takes the first one's).
OneMethod(rules) == \A i \in 1..Len(rules) - 1 : Mergeable(rules[i], rules[i + 1]) =>
                      rules[i].matcher.method = rules[i + 1].matcher.method
Targets(d) == [address |-> [kind |-> "domain", name |-> d], src |-> <<"20", "1">>, dest_ip |-> None, dest_domain |-> None]
MergeKeepsRouting ==
  doc.kind = "clash" =>
    LET plain == Translated(doc, doc.o)  merged == MergedRules(doc, doc.o) IN
    OneMethod(plain) =>
      \A d \in {Com, <<"a", ".">> \o Com, <<"ex">>} :
        LET i == FirstMatch(plain, Targets(d))  j == FirstMatch(merged, Targets(d)) IN
        (i = 0 <=> j = 0) /\ (i # 0 => plain[i].target = merged[j].target)
=============================================================================
