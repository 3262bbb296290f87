------------------------------ MODULE RuleNet ------------------------------
(* A rule net with its cache of decisions, shared by concurrent connections, *)
(* behind a dns_sniffer net that recovers the domain of an address from the  *)
(* DNS answers that passed.  A connection enters at RunningServerNet.         *)
EXTENDS RuleMatch, FiniteSets, Functions

CONSTANTS Rules,       \* the rules: sequence of [target, matcher]
          Tasks,       \* concurrent connections
          Requests,    \* bound: what connections ask for: [src, addr, tcp]
          Answers,     \* DNS answers that may pass: [query, cnames, ips]
          CacheSize,   \* lru_cache_size
          CnameLimit   \* steps reverse_lookup follows (16)

ASSUME RuleAssumption == CacheSize \in Nat \ {0} /\ CnameLimit \in Nat
\* An address is an IP address or a domain.
ASSUME RequestAssumption ==
  \A r \in Requests : /\ r.tcp \in BOOLEAN /\ r.addr = [kind |-> r.addr.kind, name |-> r.addr.name]
                      /\ r.addr.kind = "domain" \/ (r.addr.kind = "ip" /\ r.addr.name \in Ips)

VARIABLES task,    \* each connection: where get_rule is, its MatchContext, its route
          lru,   \* LruCache<MatchContext, usize>, least recently used first
          dns      \* ReverseLookup: records (IP -> domain) and cname_map
ruleVars == <<task, lru, dns>>

Empty == [x \in {} |-> None]
RuleInit == /\ task = [t \in Tasks |-> [pc |-> "idle", mc |-> None, rule |-> 0]]
            /\ lru = <<>>
            /\ dns = [records |-> Empty, cname_map |-> Empty, seen |-> {}]

-----------------------------------------------------------------------------
(* ReverseLookup.                                                            *)
Put(f, x, y) == [z \in DOMAIN f \cup {x} |-> IF z = x THEN y ELSE f[z]]
PutAll(f, xs, y) == [z \in DOMAIN f \cup xs |-> IF z \in xs THEN y ELSE f[z]]
\* Mutant of RecordPacket: the question leads to its aliases.
RecordDownwards(a) ==
  /\ dns' = [records |-> PutAll(dns.records, a.ips, a.query),
             cname_map |-> IF a.cnames = {} THEN dns.cname_map
                           ELSE Put(dns.cname_map, a.query, CHOOSE d \in a.cnames : TRUE),
             seen |-> dns.seen \cup {a}]
  /\ UNCHANGED <<task, lru>>
\* record_packet: every address and alias of the answer leads to the question.
\* seen is the history the property needs.
RecordPacket(a) ==
  /\ dns' = [records |-> PutAll(dns.records, a.ips, a.query),
             cname_map |-> PutAll(dns.cname_map, a.cnames, a.query),
             seen |-> dns.seen \cup {a}]
  /\ UNCHANGED <<task, lru>>
\* An entry expires or is the oldest of 128.
Forget == /\ \/ \E ip \in DOMAIN dns.records :
                  dns' = [dns EXCEPT !.records = Restrict(@, DOMAIN @ \ {ip})]
             \/ \E d \in DOMAIN dns.cname_map :
                  dns' = [dns EXCEPT !.cname_map = Restrict(@, DOMAIN @ \ {d})]
          /\ UNCHANGED <<task, lru>>
\* reverse_lookup: up the aliases, as far as the limit or where they end.
Up(d) == IF d \in DOMAIN dns.cname_map THEN dns.cname_map[d] ELSE d
Climb(d) == LET up[n \in 0..CnameLimit] == IF n = 0 THEN d ELSE Up(up[n - 1]) IN up[CnameLimit]
ReverseLookup(ip) == IF ip \in DOMAIN dns.records THEN Climb(dns.records[ip]) ELSE None

-----------------------------------------------------------------------------
(* One connection.                                                           *)
\* RunningServerNet::tcp_connect fills the context, DNSSnifferNet::tcp_connect
\* puts the recovered domain in the place of the address; udp_bind of a rule
\* net asks with the source only.
Begin(t) ==
  /\ task[t].pc = "idle"
  /\ \E r \in Requests :
     LET byIp == r.tcp /\ r.addr.kind = "ip"
         name == IF byIp THEN ReverseLookup(r.addr.name) ELSE None
         ctx == [src |-> r.src, dest_ip |-> IF byIp THEN r.addr.name ELSE None,
                 dest_domain |-> IF ~r.tcp THEN None ELSE IF byIp THEN name ELSE r.addr.name]
         seen == IF name = None THEN r.addr ELSE [kind |-> "domain", name |-> name]
     IN task' = [task EXCEPT ![t] = [pc |-> "lookup", mc |-> MatchContext(ctx, seen), rule |-> 0]]
  /\ UNCHANGED <<lru, dns>>

\* Mutant of CacheKey: the source address is left out.
KeyWithoutSource(mc) == [mc EXCEPT !.src = None]
\* MatchContext is the key, with all its parts (derive(Eq, Ord)).
CacheKey(mc) == mc
Cached(mc) == {i \in 1..Len(lru) : lru[i].key = CacheKey(mc)}
Hit(t) == /\ task[t].pc = "lookup"
          /\ \E i \in Cached(task[t].mc) :
               /\ lru' = Append(RemoveAt(lru, i), lru[i])
               /\ task' = [task EXCEPT ![t] = [pc |-> "idle", mc |-> None, rule |-> lru[i].rule]]
          /\ UNCHANGED dns
Miss(t) == /\ task[t].pc = "lookup" /\ Cached(task[t].mc) = {}
           /\ task' = [task EXCEPT ![t].pc = "match"]
           /\ UNCHANGED <<lru, dns>>
\* What an insert keeps: all but the key's own entry, else all but the oldest of a
\* full cache.
Kept(mc) == IF Cached(mc) # {} THEN RemoveAt(lru, CHOOSE i \in Cached(mc) : TRUE)
            ELSE IF Len(lru) = CacheSize THEN Tail(lru) ELSE lru
\* The loop over the rules and the insert; another task may have inserted since.
Match(t) == LET mc == task[t].mc  i == FirstMatch(Rules, mc) IN
            /\ task[t].pc = "match"
            /\ task' = [task EXCEPT ![t] = [pc |-> "idle", mc |-> None, rule |-> i]]
            /\ lru' = IF i = 0 THEN lru ELSE Append(Kept(mc), [key |-> CacheKey(mc), rule |-> i])
            /\ UNCHANGED dns

RuleStep(t) == Begin(t) \/ Hit(t) \/ Miss(t) \/ Match(t)
RuleNext == (\E t \in Tasks : RuleStep(t)) \/ (\E a \in Answers : RecordPacket(a)) \/ Forget

-----------------------------------------------------------------------------
(* Properties.                                                               *)

\* The cache does not show: with entries used, evicted and inserted twice by
\* connections from different sources, to addresses and to recovered domains,
\* every connection takes the rule that Rule::get_rule would take without one.
KnownNames == {None} \cup {a.query : a \in Answers} \cup {r.addr.name : r \in Requests}
AllContexts == [address : [kind : {"domain", "ip"}, name : KnownNames \cup Ips],
                src : {r.src : r \in Requests}, dest_ip : Ips \cup {None}, dest_domain : KnownNames]
Uncached == INSTANCE RuleSpec WITH Contexts <- AllContexts,
              asked <- [t \in Tasks |-> task[t].mc], routed <- [t \in Tasks |-> task[t].rule]
CacheTransparent == Uncached!RoutesByFirstMatch

\* The domain recovered for an address is one whose DNS answers lead to it, over
\* the aliases seen so far (it is in every set that has the questions answered with
\* the address and is closed under aliases), though answers overwrite and expire,
\* and aliases of different answers may point at each other.
RecoveredAnswered ==
  \A ip \in DOMAIN dns.records, names \in SUBSET {a.query : a \in dns.seen} :
    /\ \A a \in dns.seen : ip \in a.ips => a.query \in names
    /\ \A a \in dns.seen : a.cnames \cap names # {} => a.query \in names
    => ReverseLookup(ip) \in names
=============================================================================
