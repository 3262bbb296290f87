----------------------------- MODULE RuleMatch -----------------------------
(* The rule list of rd-std (rule/): which rule an address and its context    *)
(* match.  A domain is a sequence of tokens, "." among them; an IP address is *)
(* a sequence of parts, so that a CIDR is a prefix of it.  Ports are left out.*)
EXTENDS Naturals, Sequences, SequencesExt

CONSTANTS Ips,        \* IP addresses
          Country(_)  \* the country of an IP in the GeoIP database, "" if none

None == <<>>

\* Address::to_normalized: a domain that reads as an IP address is one.
Normal(addr) == IF addr.name \in Ips THEN [kind |-> "ip", name |-> addr.name] ELSE addr
\* MatchContext::from_context_address.
MatchContext(ctx, addr) == [address |-> Normal(addr), src |-> ctx.src,
                            dest_ip |-> ctx.dest_ip, dest_domain |-> ctx.dest_domain]
GetDomain(mc) == IF mc.address.kind = "domain" THEN mc.address.name ELSE mc.dest_domain
GetSocketAddr(mc) == IF mc.address.kind = "ip" THEN mc.address.name ELSE mc.dest_ip

Within(s, p) == \E i \in 0..Len(s) : IsPrefix(p, SubSeq(s, i + 1, Len(s)))
\* DomainMatcher::test; a pattern of method match may begin with "+".
TestDomain(method, p, d) ==
  CASE method = "keyword" -> Within(d, p)
    [] method = "suffix" -> IsSuffix(p, d)
    [] method = "match" -> IF p[1] = "+" THEN IsSuffix(Tail(p), d) \/ d = Tail(Tail(p)) ELSE d = p
TestCidrs(cidrs, ip) == ip # None /\ \E p \in ToSet(cidrs) : IsPrefix(p, ip)

\* Matcher::match_rule.
MatchRule(m, mc) ==
  CASE m.type = "any" -> TRUE
    [] m.type = "domain" -> /\ GetDomain(mc) # None
                            /\ \E p \in ToSet(m.list) : TestDomain(m.method, p, GetDomain(mc))
    [] m.type = "ipcidr" -> TestCidrs(m.list, GetSocketAddr(mc))
    [] m.type = "src_ipcidr" -> TestCidrs(m.list, mc.src)
    [] m.type = "geoip" -> GetSocketAddr(mc) # None /\ Country(GetSocketAddr(mc)) = m.country

\* The loop of Rule::get_rule over a sequence of [target, matcher]: the first that
\* matches, 0 for NotMatched.
Matching(rules, mc) == {i \in 1..Len(rules) : MatchRule(rules[i].matcher, mc)}
FirstMatch(rules, mc) == IF Matching(rules, mc) = {} THEN 0
                         ELSE CHOOSE i \in Matching(rules, mc) : \A j \in Matching(rules, mc) : i <= j
=============================================================================
