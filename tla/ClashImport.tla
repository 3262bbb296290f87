---------------------------- MODULE ClashImport ----------------------------
(* The importers of src/config/importer: what a Clash document becomes, how   *)
(* documents are merged, and how stored selections are applied.  A name is a  *)
(* sequence of parts, so that a prefix is one more part; an operation that    *)
(* may fail returns a sequence of one result, or the empty one for an error.  *)
EXTENDS RuleMatch, Functions

\* A NetRef names a net or holds one (rd_interface::config::NetRef).
Name(n) == [name |-> n, net |-> None]
Inline(net) == [name |-> None, net |-> net]
\* config::Net: the type, what becomes of the options ("valid", "malformed": they do not
\* deserialise, "refused": the builder returns an error), the NetRefs in them in the
\* order they are visited.
Net(type, refs) == [type |-> type, opt |-> "valid", refs |-> refs, rule |-> <<>>]
Select(selected, list) == Net("select", <<Name(selected)>> \o [i \in 1..Len(list) |-> Name(list[i])])
Insert(nets, n, net) == [x \in DOMAIN nets \cup {n} |-> IF x = n THEN net ELSE nets[x]]

Local == <<"local">>
Noop == <<"noop">>
Blackhole == <<"blackhole">>
Or(x, default) == IF x = None THEN default ELSE x

-----------------------------------------------------------------------------
(* Proxies and groups.  c is the document, o the options of the importer.     *)
GhostNet == Net("alias", <<Name(Noop)>>)
BaseProxyNet(o) == Net("alias", <<Name(Or(o.net, Local))>>)
\* The obfs plugin becomes {"obfs_mode": ..}, and ObfsNetConfig knows no such field:
\* it wants "http" or "plain".
ObfsNet(target) == [Net("obfs", <<target>>) EXCEPT !.opt = "malformed"]
\* proxy_to_net: parameters that do not parse, an unsupported type, plugin or
\* network are errors; with a plugin the proxy stands on an obfs net of its own.
\* Cipher, id, flow and keys are copied unseen: p.opt is what the builder says to them.
ProxyToNet(p, target) ==
  LET Translation(type, ref) == <<[Net(type, <<ref>>) EXCEPT !.opt = p.opt]>> IN
  CASE p.type = "unsupported" -> <<>>
    [] p.type = "ss-obfs" -> Translation("shadowsocks", Inline(ObfsNet(target)))
    [] OTHER -> Translation(p.type, target)

Prefixed(o, n) == IF o.prefix = None THEN n ELSE o.prefix \o n
Named(list, n) == \E i \in 1..Len(list) : list[i].name = n
\* name_map holds the proxies and, unless they are disabled, the groups.
InNameMap(c, o, n) == Named(c.proxies, n) \/ (~o.disable_proxy_group /\ Named(c.groups, n))
\* Mutant of GetTarget: a name is not looked up.
GetTargetUnchecked(c, o, t) == <<Prefixed(o, t)>>
GetTarget(c, o, t) ==
  CASE t = <<"DIRECT">> -> <<Or(o.direct, Local)>>
    [] t = <<"REJECT">> -> <<Or(o.reject, Blackhole)>>
    [] OTHER -> IF InNameMap(c, o, t) THEN <<Prefixed(o, t)>> ELSE <<>>

\* The fold of a relay: the map of proxies is asked for the translated names.
RelayNet(c, o, list) ==
  FoldLeft(LAMBDA acc, x :
             LET ps == SelectSeq(c.proxies, LAMBDA p : p.name = x) IN
             IF acc = <<>> \/ ps = <<>> THEN <<>> ELSE ProxyToNet(Last(ps), Inline(acc[1])),
           <<BaseProxyNet(o)>>, list)
ProxyGroupToNet(c, o, g) ==
  LET targets == [i \in 1..Len(g.proxies) |-> GetTarget(c, o, g.proxies[i])]
      list == FlattenSeq(targets) IN
  CASE \E i \in 1..Len(targets) : targets[i] = <<>> -> <<>>
    [] g.type \in {"select", "url-test", "fallback"} ->
         <<Select(IF list = <<>> THEN Noop ELSE list[1], list)>>
    [] g.type = "relay" -> RelayNet(c, o, list)
    [] OTHER -> <<>>

-----------------------------------------------------------------------------
(* Rules.                                                                     *)
Method(type) == CASE type = "DOMAIN-SUFFIX" -> "suffix"
                  [] type = "DOMAIN-KEYWORD" -> "keyword"
                  [] OTHER -> "match"
Matcher(type, method, list, country) ==
  [type |-> type, method |-> method, list |-> list, country |-> country]
\* rule_to_rule; a rule set is fetched (loaded), of behavior domain or ipcidr.
RuleToRule(c, o, r) ==
  LET target == GetTarget(c, o, r.target)
      Item(m) == IF target = <<>> THEN <<>> ELSE <<[target |-> target[1], matcher |-> m]>> IN
  CASE r.type \in {"DOMAIN", "DOMAIN-SUFFIX", "DOMAIN-KEYWORD"} ->
         Item(Matcher("domain", Method(r.type), <<r.value>>, ""))
    [] r.type = "IP-CIDR" -> Item(Matcher("ipcidr", "", <<r.value>>, ""))
    [] r.type = "SRC-IP-CIDR" -> Item(Matcher("src_ipcidr", "", <<r.value>>, ""))
    [] r.type = "MATCH" -> Item(Matcher("any", "", <<>>, ""))
    [] r.type = "GEOIP" -> Item(Matcher("geoip", "", <<>>, r.value))
    [] r.type = "RULE-SET" /\ r.loaded /\ r.behavior = "domain" -> Item(Matcher("domain", "match", r.value, ""))
    [] r.type = "RULE-SET" /\ r.loaded /\ r.behavior = "ipcidr" -> Item(Matcher("ipcidr", "", r.value, ""))
    [] OTHER -> <<>>

\* Mutant of MergeItem: the list of the first matcher is replaced.
MergeReplacing(a, b) == [a EXCEPT !.matcher.list = b.matcher.list]
\* Matcher::merge does not look at the method of a domain matcher.
Mergeable(a, b) == /\ a.target = b.target /\ a.matcher.type = b.matcher.type
                   /\ a.matcher.type # "geoip"
MergeItem(a, b) == [a EXCEPT !.matcher.list = @ \o b.matcher.list]
Translated(c, o) == FlattenSeq([i \in 1..Len(c.rules) |-> RuleToRule(c, o, c.rules[i])])
MergedRules(c, o) ==
  FoldLeft(LAMBDA state, item : IF state # <<>> /\ Mergeable(Last(state), item)
                                THEN Append(Front(state), MergeItem(Last(state), item))
                                ELSE Append(state, item),
           <<>>, Translated(c, o))
RuleNetOf(rules) == [Net("rule", [i \in 1..Len(rules) |-> Name(rules[i].target)]) EXCEPT !.rule = rules]

-----------------------------------------------------------------------------
(* Importer::process of Clash, of Merge, and SelectMap::apply_config.         *)
AddProxies(c, o, nets) ==
  FoldLeft(LAMBDA acc, p : LET net == ProxyToNet(p, Name(Or(o.net, Local))) IN
                           Insert(acc, Prefixed(o, p.name), IF net = <<>> THEN GhostNet ELSE net[1]),
           nets, c.proxies)
AddGroups(c, o, nets) ==
  IF o.disable_proxy_group THEN nets
  ELSE FoldLeft(LAMBDA acc, g : LET net == ProxyGroupToNet(c, o, g) IN
                                IF net = <<>> THEN acc ELSE Insert(acc, Prefixed(o, g.name), net[1]),
                nets, c.groups)
AddRule(c, o, nets) == IF o.rule_name = None THEN nets
                       ELSE Insert(nets, o.rule_name, RuleNetOf(MergedRules(c, o)))
AddSelect(c, o, nets) ==
  LET added == [i \in 1..Len(c.proxies) |-> Prefixed(o, c.proxies[i].name)] IN
  IF o.select = None THEN nets
  ELSE Insert(nets, o.select, Select(IF added = <<>> THEN Noop ELSE added[1], added))
ClashProcess(c, o, nets) == AddSelect(c, o, AddRule(c, o, AddGroups(c, o, AddProxies(c, o, nets))))

MergeProcess(nets, other) == [n \in DOMAIN nets \cup DOMAIN other |->
                                IF n \in DOMAIN other THEN other[n] ELSE nets[n]]
ListOf(net) == {net.refs[i].name : i \in 2..Len(net.refs)}
ApplySelectMap(map, nets) ==
  [n \in DOMAIN nets |->
     IF n \in DOMAIN map /\ nets[n].type = "select" /\ map[n] \in ListOf(nets[n])
     THEN [nets[n] EXCEPT !.refs[1] = Name(map[n])] ELSE nets[n]]
=============================================================================
