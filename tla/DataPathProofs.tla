--------------------------- MODULE DataPathProofs ---------------------------
(* Proofs about the parts of the data path: the rules with their cache and   *)
(* the recovered names, the TUN gateway, Hysteria's reassembly, and AnyTLS   *)
(* for every padding scheme and every number of writes.  The parts share no  *)
(* state; each has an inductive invariant of its own.                        *)
EXTENDS RuleNet, TunGateway, Hysteria, AnyTls, Integers, SequenceTheorems, FiniteSetTheorems,
        WellFoundedInduction, TLAPS

-----------------------------------------------------------------------------
(* Sequences and numbers.                                                    *)

\* A sequence without one of its elements.
LEMMA WithoutOne ==
  ASSUME NEW S, NEW t \in Seq(S), NEW e \in 1..Len(t)
  PROVE  /\ RemoveAt(t, e) \in Seq(S) /\ Len(RemoveAt(t, e)) = Len(t) - 1
         /\ \A k \in 1..Len(t) - 1 : RemoveAt(t, e)[k] = IF k < e THEN t[k] ELSE t[k + 1]
<1>1. Len(t) \in Nat /\ e \in Nat /\ e >= 1 /\ e <= Len(t)
  OBVIOUS
<1>2. /\ SubSeq(t, 1, e - 1) \in Seq(S) /\ Len(SubSeq(t, 1, e - 1)) = e - 1
      /\ \A k \in 1..e - 1 : SubSeq(t, 1, e - 1)[k] = t[k]
  BY <1>1
<1>3. /\ SubSeq(t, e + 1, Len(t)) \in Seq(S) /\ Len(SubSeq(t, e + 1, Len(t))) = Len(t) - e
      /\ \A k \in 1..Len(t) - e : SubSeq(t, e + 1, Len(t))[k] = t[k + e]
  BY <1>1
<1> DEFINE a == SubSeq(t, 1, e - 1)
           b == SubSeq(t, e + 1, Len(t))
<1>4. RemoveAt(t, e) = a \o b
  BY DEF RemoveAt
<1>5. a \in Seq(S) /\ b \in Seq(S) /\ Len(a) = e - 1 /\ Len(b) = Len(t) - e
  BY <1>2, <1>3
<1> HIDE DEF a, b
<1>6. /\ a \o b \in Seq(S) /\ Len(a \o b) = Len(t) - 1
      /\ \A k \in 1..Len(t) - 1 : (a \o b)[k] = IF k < e THEN a[k] ELSE b[k - (e - 1)]
  <2>1. /\ a \o b \in Seq(S) /\ Len(a \o b) = Len(a) + Len(b)
        /\ \A k \in 1..Len(a) + Len(b) : (a \o b)[k] = IF k <= Len(a) THEN a[k] ELSE b[k - Len(a)]
    BY <1>5, ConcatProperties
  <2>2. Len(a) + Len(b) = Len(t) - 1 /\ \A k \in 1..Len(t) - 1 : k <= Len(a) <=> k < e
    BY <1>1, <1>5
  <2> QED
    BY <1>5, <2>1, <2>2
<1>7. ASSUME NEW k \in 1..Len(t) - 1
      PROVE  RemoveAt(t, e)[k] = IF k < e THEN t[k] ELSE t[k + 1]
  <2>1. CASE k < e
    <3>1. k \in 1..e - 1
      BY <1>1, <2>1
    <3> QED
      BY <1>2, <1>4, <1>6, <2>1, <3>1 DEF a
  <2>2. CASE ~(k < e)
    <3>1. k - (e - 1) \in 1..Len(t) - e /\ k - (e - 1) + e = k + 1
      BY <1>1, <2>2
    <3> QED
      BY <1>3, <1>4, <1>6, <2>2, <3>1 DEF b
  <2> QED
    BY <2>1, <2>2
<1> QED
  BY <1>4, <1>6, <1>7

\* A set of numbers up to n has a least one.
LEMMA LeastUpTo ==
  ASSUME NEW n \in Nat, NEW T \in SUBSET (0..n), T # {}
  PROVE  \E x \in T : \A y \in T : x <= y
<1> DEFINE D == {1..k : k \in T}
<1>1. \A k \in 0..n : 1..k \subseteq 1..n
  OBVIOUS
<1>2. IsWellFoundedOn(StrictSubsetOrdering(1..n), SUBSET (1..n))
  <2>1. IsFiniteSet(1..n)
    BY FS_Interval
  <2> QED
    BY <2>1, FS_FiniteSubsetsOfFinite, FS_StrictSubsetOrderingWellFounded, Zenon
<1>3. D \subseteq SUBSET (1..n) /\ D # {}
  BY <1>1
<1>4. PICK x \in D : \A y \in D : ~ (<<y, x>> \in StrictSubsetOrdering(1..n))
  <2> HIDE DEF D
  <2> QED
    BY <1>2, <1>3, WFMin
<1>5. PICK k \in T : x = 1..k
  BY <1>4
<1>6. ASSUME NEW j \in T, j < k PROVE FALSE
  <2>1. 1..j \in D /\ 1..j \subseteq 1..k /\ 1..k \subseteq 1..n /\ k \in 1..k /\ k \notin 1..j
    BY <1>6
  <2>2. <<1..j, 1..k>> \in StrictSubsetOrdering(1..n)
    BY <2>1 DEF StrictSubsetOrdering
  <2> QED
    BY <2>1, <2>2, <1>4, <1>5
<1> QED
  BY <1>6

-----------------------------------------------------------------------------
(* The rule net and the dns_sniffer before it.                               *)
RoutingSpec == RuleInit /\ [][RuleNext]_ruleVars

\* The inductive invariant: every entry of the cache holds the verdict of its key,
\* and every record and alias is one of an answer that passed.
Verdicts == {FirstMatch(Rules, mc) : mc \in AllContexts} \cup {0}
TaskType == [pc : {"idle", "lookup", "match"}, mc : AllContexts \cup {None}, rule : Verdicts]
CachedType == [key : AllContexts, rule : Verdicts]
RuleTypeOK == task \in [Tasks -> TaskType] /\ lru \in Seq(CachedType)
Asking == \A t \in Tasks : IF task[t].pc = "idle" THEN task[t].mc = None ELSE task[t].mc \in AllContexts
CacheSound == \A i \in 1..Len(lru) : lru[i].rule = FirstMatch(Rules, lru[i].key)
Answered ==
  /\ dns = [records |-> dns.records, cname_map |-> dns.cname_map, seen |-> dns.seen]
  /\ dns.seen \subseteq Answers
  /\ \A ip \in DOMAIN dns.records : \E a \in dns.seen : ip \in a.ips /\ dns.records[ip] = a.query
  /\ \A d \in DOMAIN dns.cname_map : \E a \in dns.seen : d \in a.cnames /\ dns.cname_map[d] = a.query
RuleInv == RuleTypeOK /\ Asking /\ CacheSound /\ Answered

\* The recursion of Climb has a solution: there is none that is the first to lack one.
Climbed(f, d, n) == f = [m \in 0..n |-> IF m = 0 THEN d ELSE Up(f[m - 1])]
LEMMA ClimbDefined ==
  ASSUME NEW d PROVE \E f : Climbed(f, d, CnameLimit)
<1> DEFINE T == {n \in 0..CnameLimit : ~\E f : Climbed(f, d, n)}
<1>1. SUFFICES ASSUME T # {} PROVE FALSE
  BY RuleAssumption
<1>2. PICK x \in T : \A y \in T : x <= y
  <2>1. T \in SUBSET (0..CnameLimit)
    OBVIOUS
  <2> HIDE DEF T
  <2> QED
    BY <1>1, <2>1, RuleAssumption, LeastUpTo
<1>3. x \in 0..CnameLimit /\ ~\E f : Climbed(f, d, x)
  BY <1>2
<1>4. CASE x = 0
  <2> DEFINE g == [m \in 0..0 |-> d]
  <2>1. g = [m \in 0..0 |-> IF m = 0 THEN d ELSE Up(g[m - 1])]
    OBVIOUS
  <2>2. Climbed(g, d, 0)
    BY <2>1 DEF Climbed
  <2> QED
    BY <1>3, <1>4, <2>2
<1>5. CASE x # 0
  <2>1. x - 1 \in 0..CnameLimit /\ x - 1 < x
    BY <1>3, <1>5, RuleAssumption
  <2>2. PICK f : Climbed(f, d, x - 1)
    <3>1. x - 1 \notin T
      BY <1>2, <1>3, <2>1, RuleAssumption
    <3> QED
      BY <2>1, <3>1
  <2> DEFINE g == [m \in 0..x |-> IF m = 0 THEN d ELSE Up(f[m - 1])]
  <2>3. ASSUME NEW m \in 0..x, m # 0 PROVE g[m - 1] = f[m - 1]
    <3>1. m - 1 \in 0..x - 1 /\ m - 1 \in 0..x
      BY <1>3, <2>3, RuleAssumption
    <3>2. f[m - 1] = IF m - 1 = 0 THEN d ELSE Up(f[m - 1 - 1])
      BY <2>2, <3>1 DEF Climbed
    <3> QED
      BY <3>1, <3>2
  <2>4. \A m \in 0..x : (IF m = 0 THEN d ELSE Up(f[m - 1])) = (IF m = 0 THEN d ELSE Up(g[m - 1]))
    <3> HIDE DEF g
    <3> QED
      BY <2>3
  <2>5. Climbed(g, d, x)
    <3>1. [m \in 0..x |-> IF m = 0 THEN d ELSE Up(f[m - 1])] = [m \in 0..x |-> IF m = 0 THEN d ELSE Up(g[m - 1])]
      <4> HIDE DEF g
      <4> QED
        BY <2>4
    <3> QED
      BY <3>1 DEF Climbed
  <2> QED
    BY <1>3, <2>5
<1> QED
  BY <1>4, <1>5

\* What a set closed under aliases holds of a climb, it holds of its end.
LEMMA ClimbStays ==
  ASSUME NEW S, NEW d \in S, \A e \in S : Up(e) \in S
  PROVE  Climb(d) \in S
<1> DEFINE f == CHOOSE g : Climbed(g, d, CnameLimit)
<1>1. Climbed(f, d, CnameLimit)
  BY ClimbDefined
<1>2. Climb(d) = f[CnameLimit]
  BY DEF Climb, Climbed
<1> HIDE DEF f
<1> DEFINE T == {n \in 0..CnameLimit : f[n] \notin S}
<1>3. SUFFICES ASSUME T # {} PROVE FALSE
  BY <1>2, RuleAssumption
<1>4. PICK x \in T : \A y \in T : x <= y
  <2>1. T \in SUBSET (0..CnameLimit)
    OBVIOUS
  <2> HIDE DEF T
  <2> QED
    BY <1>3, <2>1, RuleAssumption, LeastUpTo
<1>5. x \in 0..CnameLimit /\ f[x] \notin S
  BY <1>4
<1>6. f[x] = IF x = 0 THEN d ELSE Up(f[x - 1])
  BY <1>1, <1>5 DEF Climbed
<1>7. x # 0 /\ x - 1 \in 0..CnameLimit /\ x - 1 < x
  BY <1>5, <1>6, RuleAssumption
<1>8. f[x - 1] \in S
  BY <1>4, <1>7, <1>5, RuleAssumption
<1> QED
  BY <1>5, <1>6, <1>7, <1>8

\* An idle connection's mc is told from every context.
LEMMA NotAsked == None \notin AllContexts
<1> SUFFICES ASSUME None \in AllContexts PROVE FALSE
  OBVIOUS
<1>1. DOMAIN None = {"address", "src", "dest_ip", "dest_domain"}
  BY DEF AllContexts
<1>2. DOMAIN None = {}
  BY DEF None
<1> QED
  BY <1>1, <1>2

\* A recovered name is a question of some answer.
LEMMA LookedUpKnown ==
  ASSUME Answered, NEW ip PROVE ReverseLookup(ip) \in KnownNames
<1> DEFINE S == {a.query : a \in Answers}
<1>1. CASE ip \in DOMAIN dns.records
  <2>1. dns.records[ip] \in S
    BY <1>1 DEF Answered
  <2>2. \A e \in S : Up(e) \in S
    BY DEF Answered, Up
  <2>3. Climb(dns.records[ip]) \in S
    <3> HIDE DEF S
    <3> QED
      BY <2>1, <2>2, ClimbStays
  <2> QED
    BY <1>1, <2>3 DEF ReverseLookup, KnownNames
<1>2. CASE ip \notin DOMAIN dns.records
  BY <1>2 DEF ReverseLookup, KnownNames
<1> QED
  BY <1>1, <1>2

\* What a new connection asks for.
LEMMA Asked ==
  ASSUME RuleInv, NEW r \in Requests, NEW name \in KnownNames, NEW byIp \in BOOLEAN,
         byIp => r.addr.kind = "ip"
  PROVE  MatchContext([src |-> r.src, dest_ip |-> IF byIp THEN r.addr.name ELSE None,
                       dest_domain |-> IF ~r.tcp THEN None ELSE IF byIp THEN name ELSE r.addr.name],
                      IF name = None THEN r.addr ELSE [kind |-> "domain", name |-> name]) \in AllContexts
<1>1. /\ r.addr = [kind |-> r.addr.kind, name |-> r.addr.name]
      /\ r.addr.kind \in {"domain", "ip"} /\ (r.addr.kind = "ip" => r.addr.name \in Ips)
  BY RequestAssumption
<1>2. r.addr.name \in KnownNames /\ None \in KnownNames
  BY DEF KnownNames
<1> DEFINE ctx == [src |-> r.src, dest_ip |-> IF byIp THEN r.addr.name ELSE None,
                   dest_domain |-> IF ~r.tcp THEN None ELSE IF byIp THEN name ELSE r.addr.name]
           addr == IF name = None THEN r.addr ELSE [kind |-> "domain", name |-> name]
<1>3. ctx.src = r.src /\ ctx.dest_ip \in Ips \cup {None} /\ ctx.dest_domain \in KnownNames
  BY <1>1, <1>2
<1>4. addr = [kind |-> addr.kind, name |-> addr.name] /\ addr.kind \in {"domain", "ip"} /\ addr.name \in KnownNames
  BY <1>1, <1>2
<1> HIDE DEF ctx, addr
<1>5. Normal(addr) \in [kind : {"domain", "ip"}, name : KnownNames \cup Ips]
  BY <1>4 DEF Normal
<1>6. MatchContext(ctx, addr) \in AllContexts
  BY <1>3, <1>5 DEF MatchContext, AllContexts
<1> QED
  BY <1>6 DEF ctx, addr

\* A cache whose entries hold their verdicts keeps them when one is removed, moved or added.
Correct(q) == q \in Seq(CachedType) /\ \A i \in 1..Len(q) : q[i].rule = FirstMatch(Rules, q[i].key)
LEMMA CorrectKept ==
  ASSUME NEW q, Correct(q)
  PROVE  /\ \A i \in 1..Len(q) : Correct(RemoveAt(q, i))
         /\ q # <<>> => Correct(Tail(q))
         /\ \A e \in CachedType : e.rule = FirstMatch(Rules, e.key) => Correct(Append(q, e))
<1>1. q \in Seq(CachedType) /\ Len(q) \in Nat
  BY DEF Correct
<1>2. ASSUME NEW i \in 1..Len(q) PROVE Correct(RemoveAt(q, i))
  <2> DEFINE r == RemoveAt(q, i)
  <2>1. /\ r \in Seq(CachedType) /\ Len(r) = Len(q) - 1
        /\ \A k \in 1..Len(q) - 1 : r[k] = IF k < i THEN q[k] ELSE q[k + 1]
    BY <1>1, WithoutOne
  <2> HIDE DEF r
  <2>2. ASSUME NEW k \in 1..Len(r) PROVE r[k].rule = FirstMatch(Rules, r[k].key)
    <3>1. k \in 1..Len(q) - 1 /\ k \in 1..Len(q) /\ k + 1 \in 1..Len(q)
      BY <1>1, <2>1
    <3>2. r[k] = q[k] \/ r[k] = q[k + 1]
      BY <2>1, <3>1
    <3> QED
      BY <3>1, <3>2 DEF Correct
  <2>3. Correct(r)
    BY <2>1, <2>2 DEF Correct
  <2> QED
    BY <2>3 DEF r
<1>3. ASSUME q # <<>> PROVE Correct(Tail(q))
  <2>1. Tail(q) \in Seq(CachedType) /\ Len(Tail(q)) = Len(q) - 1 /\ \A k \in 1..Len(q) - 1 : Tail(q)[k] = q[k + 1]
    BY <1>1, <1>3
  <2>2. ASSUME NEW k \in 1..Len(Tail(q)) PROVE Tail(q)[k].rule = FirstMatch(Rules, Tail(q)[k].key)
    <3>1. k \in 1..Len(q) - 1 /\ k + 1 \in 1..Len(q)
      BY <1>1, <2>1
    <3> QED
      BY <2>1, <3>1 DEF Correct
  <2> QED
    BY <2>1, <2>2 DEF Correct
<1>4. ASSUME NEW e \in CachedType, e.rule = FirstMatch(Rules, e.key) PROVE Correct(Append(q, e))
  <2>1. /\ Append(q, e) \in Seq(CachedType) /\ Len(Append(q, e)) = Len(q) + 1
        /\ Append(q, e)[Len(q) + 1] = e /\ \A k \in 1..Len(q) : Append(q, e)[k] = q[k]
    BY <1>1
  <2>2. ASSUME NEW k \in 1..Len(q) + 1 PROVE Append(q, e)[k].rule = FirstMatch(Rules, Append(q, e)[k].key)
    <3>1. k = Len(q) + 1 \/ k \in 1..Len(q)
      BY <1>1
    <3> QED
      BY <1>4, <2>1, <3>1 DEF Correct
  <2> QED
    BY <2>1, <2>2 DEF Correct
<1> QED
  BY <1>2, <1>3, <1>4

\* What a lookup finds is the verdict of the loop over the rules.
LEMMA CachedRight ==
  ASSUME RuleInv, NEW mc \in AllContexts, NEW i \in Cached(mc)
  PROVE  i \in 1..Len(lru) /\ lru[i] \in CachedType /\ lru[i].key = mc /\ lru[i].rule = FirstMatch(Rules, mc)
BY DEF RuleInv, RuleTypeOK, CacheSound, Cached, CacheKey

\* What an insert keeps.
LEMMA KeptCorrect ==
  ASSUME RuleInv, NEW mc \in AllContexts PROVE Correct(Kept(mc))
<1>1. Correct(lru)
  BY DEF RuleInv, RuleTypeOK, CacheSound, Correct
<1>2. CASE Cached(mc) # {}
  <2>1. PICK i \in Cached(mc) : i = CHOOSE j \in Cached(mc) : TRUE
    BY <1>2
  <2>2. i \in 1..Len(lru)
    BY CachedRight
  <2> QED
    BY <1>1, <1>2, <2>1, <2>2, CorrectKept DEF Kept
<1>3. CASE Cached(mc) = {} /\ Len(lru) = CacheSize
  <2>1. lru # <<>>
    BY <1>3, RuleAssumption
  <2> QED
    BY <1>1, <1>3, <2>1, CorrectKept DEF Kept
<1>4. CASE Cached(mc) = {} /\ Len(lru) # CacheSize
  BY <1>1, <1>4 DEF Kept
<1> QED
  BY <1>2, <1>3, <1>4

\* The step of one connection, as the invariant and the refinement see it.
Moved(t, x) == task' = [task EXCEPT ![t] = x]
LEMMA TaskMoves ==
  ASSUME RuleInv, NEW t \in Tasks, NEW x \in TaskType, Moved(t, x), Correct(lru'), dns' = dns,
         IF x.pc = "idle" THEN x.mc = None ELSE x.mc \in AllContexts
  PROVE  RuleInv'
<1>1. RuleTypeOK'
  BY DEF RuleInv, RuleTypeOK, Moved, Correct
<1>2. Asking'
  BY DEF RuleInv, RuleTypeOK, Asking, Moved
<1>3. CacheSound' /\ Answered'
  BY DEF RuleInv, CacheSound, Correct, Answered
<1> QED
  BY <1>1, <1>2, <1>3 DEF RuleInv

\* The four steps of a connection: what it asks for and what it is given.
BeginsWith(t, mc) == task[t].pc = "idle" /\ Moved(t, [pc |-> "lookup", mc |-> mc, rule |-> 0])
Decides(t) == /\ task[t].pc # "idle"
              /\ Moved(t, [pc |-> "idle", mc |-> None, rule |-> FirstMatch(Rules, task[t].mc)])
LEMMA StepShapes ==
  ASSUME RuleInv, NEW t \in Tasks, RuleStep(t)
  PROVE  /\ RuleInv'
         /\ \/ \E mc \in AllContexts : BeginsWith(t, mc)
            \/ Decides(t)
            \/ Moved(t, [task[t] EXCEPT !.pc = "match"])
<1>1. /\ task[t] \in TaskType /\ Correct(lru) /\ 0 \in Verdicts
      /\ \A mc \in AllContexts : FirstMatch(Rules, mc) \in Verdicts
      /\ (task[t].pc # "idle" => task[t].mc \in AllContexts)
  BY DEF RuleInv, RuleTypeOK, CacheSound, Correct, Verdicts, Asking
<1>2. CASE Begin(t)
  <2>1. PICK r \in Requests :
          LET byIp == r.tcp /\ r.addr.kind = "ip"
              name == IF byIp THEN ReverseLookup(r.addr.name) ELSE None
              ctx == [src |-> r.src, dest_ip |-> IF byIp THEN r.addr.name ELSE None,
                      dest_domain |-> IF ~r.tcp THEN None ELSE IF byIp THEN name ELSE r.addr.name]
              addr == IF name = None THEN r.addr ELSE [kind |-> "domain", name |-> name]
          IN Moved(t, [pc |-> "lookup", mc |-> MatchContext(ctx, addr), rule |-> 0])
    BY <1>2 DEF Begin, Moved
  <2> DEFINE byIp == r.tcp /\ r.addr.kind = "ip"
             name == IF byIp THEN ReverseLookup(r.addr.name) ELSE None
  <2>2. byIp \in BOOLEAN /\ (byIp => r.addr.kind = "ip") /\ name \in KnownNames
    <3>1. Answered /\ None \in KnownNames
      BY DEF RuleInv, KnownNames
    <3> QED
      BY <3>1, LookedUpKnown
  <2> HIDE DEF byIp, name
  <2> DEFINE ctx == [src |-> r.src, dest_ip |-> IF byIp THEN r.addr.name ELSE None,
                     dest_domain |-> IF ~r.tcp THEN None ELSE IF byIp THEN name ELSE r.addr.name]
             addr == IF name = None THEN r.addr ELSE [kind |-> "domain", name |-> name]
             mc == MatchContext(ctx, addr)
  <2>3. mc \in AllContexts
    BY <2>2, Asked
  <2>4. Moved(t, [pc |-> "lookup", mc |-> mc, rule |-> 0])
    BY <2>1 DEF byIp, name
  <2> HIDE DEF mc
  <2>5. BeginsWith(t, mc) /\ [pc |-> "lookup", mc |-> mc, rule |-> 0] \in TaskType /\ lru' = lru /\ dns' = dns
    BY <1>1, <1>2, <2>3, <2>4 DEF BeginsWith, Begin, TaskType
  <2>6. RuleInv'
    BY <1>1, <2>3, <2>4, <2>5, TaskMoves
  <2> QED
    BY <2>3, <2>5, <2>6
<1>3. CASE Hit(t)
  <2>0. task[t].pc = "lookup" /\ task[t].mc \in AllContexts
    BY <1>1, <1>3 DEF Hit
  <2>1. PICK i \in Cached(task[t].mc) :
          /\ lru' = Append(RemoveAt(lru, i), lru[i])
          /\ Moved(t, [pc |-> "idle", mc |-> None, rule |-> lru[i].rule])
    BY <1>3 DEF Hit, Moved
  <2>2. /\ i \in 1..Len(lru) /\ lru[i] \in CachedType /\ lru[i].key = task[t].mc
        /\ lru[i].rule = FirstMatch(Rules, task[t].mc)
    BY <2>0, CachedRight
  <2>3. Correct(lru')
    BY <1>1, <2>1, <2>2, CorrectKept
  <2> DEFINE x == [pc |-> "idle", mc |-> None, rule |-> FirstMatch(Rules, task[t].mc)]
  <2>4. x \in TaskType /\ Moved(t, x) /\ x.pc = "idle" /\ x.mc = None
    BY <1>1, <2>0, <2>1, <2>2 DEF TaskType
  <2>5. Decides(t) /\ dns' = dns
    BY <1>3, <2>0, <2>4 DEF Decides, Hit
  <2> HIDE DEF x
  <2>6. RuleInv'
    BY <2>3, <2>4, <2>5, TaskMoves
  <2> QED
    BY <2>5, <2>6
<1>4. CASE Miss(t)
  <2> DEFINE x == [task[t] EXCEPT !.pc = "match"]
  <2>1. x \in TaskType /\ Moved(t, x) /\ x.pc = "match" /\ x.mc = task[t].mc
    BY <1>1, <1>4 DEF Miss, Moved, TaskType
  <2>2. task[t].mc \in AllContexts /\ lru' = lru /\ dns' = dns
    BY <1>1, <1>4 DEF Miss
  <2>3. Moved(t, [task[t] EXCEPT !.pc = "match"])
    BY <2>1
  <2> HIDE DEF x
  <2>4. RuleInv'
    BY <1>1, <2>1, <2>2, TaskMoves
  <2> QED
    BY <2>3, <2>4
<1>5. CASE Match(t)
  <2> DEFINE mc == task[t].mc
             i == FirstMatch(Rules, mc)
             x == [pc |-> "idle", mc |-> None, rule |-> i]
  <2>1. /\ task[t].pc = "match" /\ mc \in AllContexts /\ Moved(t, x) /\ dns' = dns
        /\ lru' = IF i = 0 THEN lru ELSE Append(Kept(mc), [key |-> mc, rule |-> i])
    BY <1>1, <1>5 DEF Match, Moved, CacheKey
  <2>2. x \in TaskType /\ x.pc = "idle" /\ x.mc = None
    BY <1>1, <2>1 DEF TaskType
  <2>3. Decides(t)
    BY <2>1 DEF Decides
  <2>4. Correct(lru')
    <3>1. [key |-> mc, rule |-> i] \in CachedType
      BY <1>1, <2>1 DEF CachedType
    <3>2. Correct(Kept(mc))
      BY <2>1, KeptCorrect
    <3>3. Correct(Append(Kept(mc), [key |-> mc, rule |-> i]))
      BY <3>1, <3>2, CorrectKept
    <3> QED
      BY <1>1, <2>1, <3>3
  <2> HIDE DEF x
  <2>5. RuleInv'
    BY <2>1, <2>2, <2>4, TaskMoves
  <2> QED
    BY <2>3, <2>5
<1> QED
  BY <1>2, <1>3, <1>4, <1>5 DEF RuleStep

\* Answers pass and are forgotten; connections and cache stay.
LEMMA DnsSteps ==
  ASSUME RuleInv, (\E a \in Answers : RecordPacket(a)) \/ Forget
  PROVE  RuleInv' /\ task' = task
<1>1. task' = task /\ lru' = lru
  BY DEF RecordPacket, Forget
<1>2. ASSUME NEW a \in Answers, RecordPacket(a) PROVE Answered'
  <2> DEFINE rs == PutAll(dns.records, a.ips, a.query)
             cs == PutAll(dns.cname_map, a.cnames, a.query)
             sa == dns.seen \cup {a}
  <2>1. dns'.records = rs /\ dns'.cname_map = cs /\ dns'.seen = sa /\ dns' = [records |-> rs, cname_map |-> cs, seen |-> sa]
    BY <1>2 DEF RecordPacket
  <2>2. sa \subseteq Answers
    BY DEF RuleInv, Answered
  <2>3. \A ip \in DOMAIN rs : \E b \in sa : ip \in b.ips /\ rs[ip] = b.query
    BY DEF RuleInv, Answered, PutAll
  <2>4. \A d \in DOMAIN cs : \E b \in sa : d \in b.cnames /\ cs[d] = b.query
    BY DEF RuleInv, Answered, PutAll
  <2> HIDE DEF rs, cs, sa
  <2> QED
    BY <2>1, <2>2, <2>3, <2>4 DEF Answered
<1>3. ASSUME Forget PROVE Answered'
  <2>1. CASE \E ip \in DOMAIN dns.records : dns' = [dns EXCEPT !.records = Restrict(@, DOMAIN @ \ {ip})]
    <3>1. PICK ip \in DOMAIN dns.records : dns' = [dns EXCEPT !.records = Restrict(@, DOMAIN @ \ {ip})]
      BY <2>1
    <3> DEFINE rs == Restrict(dns.records, DOMAIN dns.records \ {ip})
    <3>2. \A x \in DOMAIN rs : x \in DOMAIN dns.records /\ rs[x] = dns.records[x]
      BY DEF Restrict
    <3>3. dns' = [records |-> rs, cname_map |-> dns.cname_map, seen |-> dns.seen]
      BY <3>1 DEF RuleInv, Answered
    <3> HIDE DEF rs
    <3> QED
      BY <3>2, <3>3 DEF RuleInv, Answered
  <2>2. CASE \E d \in DOMAIN dns.cname_map : dns' = [dns EXCEPT !.cname_map = Restrict(@, DOMAIN @ \ {d})]
    <3>1. PICK d \in DOMAIN dns.cname_map : dns' = [dns EXCEPT !.cname_map = Restrict(@, DOMAIN @ \ {d})]
      BY <2>2
    <3> DEFINE cs == Restrict(dns.cname_map, DOMAIN dns.cname_map \ {d})
    <3>2. \A x \in DOMAIN cs : x \in DOMAIN dns.cname_map /\ cs[x] = dns.cname_map[x]
      BY DEF Restrict
    <3>3. dns' = [records |-> dns.records, cname_map |-> cs, seen |-> dns.seen]
      BY <3>1 DEF RuleInv, Answered
    <3> HIDE DEF cs
    <3> QED
      BY <3>2, <3>3 DEF RuleInv, Answered
  <2> QED
    BY <1>3, <2>1, <2>2 DEF Forget
<1>4. Answered'
  BY <1>2, <1>3
<1> QED
  BY <1>1, <1>4 DEF RuleInv, RuleTypeOK, Asking, CacheSound

\* The cache starts empty.
LEMMA RuleInitInv == RuleInit => RuleInv
<1> SUFFICES ASSUME RuleInit PROVE RuleInv
  OBVIOUS
<1>1. RuleTypeOK
  BY DEF RuleInit, RuleTypeOK, TaskType, Verdicts
<1>2. Asking
  BY DEF RuleInit, Asking
<1>3. CacheSound
  BY DEF RuleInit, CacheSound
<1>4. Answered
  BY DEF RuleInit, Answered, Empty
<1> QED
  BY <1>1, <1>2, <1>3, <1>4 DEF RuleInv

\* So it holds always.
LEMMA RuleInvariant == RoutingSpec => []RuleInv
<1>1. RuleInv /\ [RuleNext]_ruleVars => RuleInv'
  <2> SUFFICES ASSUME RuleInv, [RuleNext]_ruleVars PROVE RuleInv'
    OBVIOUS
  <2>1. CASE UNCHANGED ruleVars
    BY <2>1 DEF ruleVars, RuleInv, RuleTypeOK, Asking, CacheSound, Answered
  <2> QED
    BY <2>1, StepShapes, DnsSteps DEF RuleNext
<1> QED
  BY <1>1, RuleInitInv, PTL DEF RoutingSpec

\* The name dns_sniffer puts in the place of an address (reverse_lookup) is one whose
\* answers lead to the address, for any answers, any limit on aliases and whatever is
\* overwritten or expires, cyclic aliases included.
THEOREM RecoveredNamesAnswered == RoutingSpec => []RecoveredAnswered
<1>1. RuleInv => RecoveredAnswered
  <2> SUFFICES ASSUME RuleInv, NEW ip \in DOMAIN dns.records, NEW names \in SUBSET {a.query : a \in dns.seen},
                      \A a \in dns.seen : ip \in a.ips => a.query \in names,
                      \A a \in dns.seen : a.cnames \cap names # {} => a.query \in names
               PROVE  ReverseLookup(ip) \in names
    BY DEF RecoveredAnswered
  <2>1. dns.records[ip] \in names
    BY DEF RuleInv, Answered
  <2>2. \A d \in names : Up(d) \in names
    BY DEF RuleInv, Answered, Up
  <2> QED
    BY <2>1, <2>2, ClimbStays DEF ReverseLookup
<1> QED
  BY <1>1, RuleInvariant, PTL

\* The abstract specification matches rules as the model does.
LEMMA SameRules ==
  ASSUME NEW mc PROVE Uncached!FirstMatch(Rules, mc) = FirstMatch(Rules, mc)
BY DEF Uncached!FirstMatch, FirstMatch, Uncached!Matching, Matching, Uncached!MatchRule, MatchRule,
       Uncached!GetDomain, GetDomain, Uncached!GetSocketAddr, GetSocketAddr, Uncached!TestCidrs, TestCidrs,
       Uncached!TestDomain, TestDomain, Uncached!Within, Within, Uncached!IsPrefix, IsPrefix,
       Uncached!IsSuffix, IsSuffix, Uncached!Reverse, Reverse, Uncached!ToSet, ToSet, Uncached!None, None

\* The start is one of the abstract specification.
LEMMA RouteInit == RuleInit => Uncached!SpecInit
BY DEF RuleInit, Uncached!SpecInit, Uncached!None, None

\* A step of a connection, seen without the cache.
LEMMA RouteStep == RuleInv /\ [RuleNext]_ruleVars => [Uncached!SpecNext]_(Uncached!specVars)
<1> SUFFICES ASSUME RuleInv, [RuleNext]_ruleVars PROVE Uncached!SpecNext \/ UNCHANGED Uncached!specVars
  OBVIOUS
<1> DEFINE asked == [t \in Tasks |-> task[t].mc]
           routed == [t \in Tasks |-> task[t].rule]
<1>1. CASE task' = task
  BY <1>1 DEF Uncached!specVars
<1>2. ASSUME NEW t \in Tasks, RuleStep(t) PROVE Uncached!SpecNext \/ UNCHANGED Uncached!specVars
  <2>0. task \in [Tasks -> TaskType] /\ task[t] \in TaskType
    BY DEF RuleInv, RuleTypeOK
  <2>1. ASSUME NEW x \in TaskType, Moved(t, x)
        PROVE  /\ asked' = [asked EXCEPT ![t] = x.mc] /\ routed' = [routed EXCEPT ![t] = x.rule]
               /\ asked'[t] = x.mc /\ asked[t] = task[t].mc /\ routed[t] = task[t].rule
    BY <2>0, <2>1 DEF Moved
  <2>2. 0 \in Verdicts /\ \A mc \in AllContexts : FirstMatch(Rules, mc) \in Verdicts
    BY DEF Verdicts
  <2>3. ASSUME NEW mc \in AllContexts, BeginsWith(t, mc) PROVE Uncached!Ask(t)
    <3> DEFINE x == [pc |-> "lookup", mc |-> mc, rule |-> 0]
    <3>1. x \in TaskType /\ Moved(t, x) /\ x.mc = mc /\ x.rule = 0 /\ task[t].mc = None
      BY <2>2, <2>3 DEF BeginsWith, TaskType, RuleInv, Asking
    <3> HIDE DEF x
    <3>2. /\ asked[t] = None /\ asked'[t] \in AllContexts /\ asked' = [asked EXCEPT ![t] = asked'[t]]
          /\ routed' = [routed EXCEPT ![t] = 0]
      BY <2>1, <3>1
    <3> QED
      BY <3>2 DEF Uncached!Ask, Uncached!None, None
  <2>4. ASSUME Decides(t) PROVE Uncached!Route(t)
    <3> DEFINE x == [pc |-> "idle", mc |-> None, rule |-> FirstMatch(Rules, task[t].mc)]
    <3>1. task[t].mc \in AllContexts
      BY <2>4 DEF Decides, RuleInv, Asking
    <3>2. x \in TaskType /\ Moved(t, x) /\ x.mc = None /\ x.rule = FirstMatch(Rules, task[t].mc)
      BY <2>2, <2>4, <3>1 DEF Decides, TaskType
    <3> HIDE DEF x
    <3>3. /\ asked[t] # None /\ asked' = [asked EXCEPT ![t] = None]
          /\ routed' = [routed EXCEPT ![t] = FirstMatch(Rules, asked[t])]
      BY <2>1, <3>1, <3>2, NotAsked
    <3>4. routed' = [routed EXCEPT ![t] = Uncached!FirstMatch(Rules, asked[t])]
      BY <3>3, SameRules
    <3> QED
      BY <3>3, <3>4 DEF Uncached!Route, Uncached!None, None
  <2>5. ASSUME Moved(t, [task[t] EXCEPT !.pc = "match"]) PROVE UNCHANGED Uncached!specVars
    <3> DEFINE x == [task[t] EXCEPT !.pc = "match"]
    <3>1. x \in TaskType /\ Moved(t, x) /\ x.mc = task[t].mc /\ x.rule = task[t].rule
      BY <2>0, <2>5 DEF TaskType
    <3> HIDE DEF x
    <3>2. asked' = [asked EXCEPT ![t] = asked[t]] /\ routed' = [routed EXCEPT ![t] = routed[t]]
      BY <2>1, <3>1
    <3>3. asked' = asked /\ routed' = routed
      BY <3>2
    <3> QED
      BY <3>3 DEF Uncached!specVars
  <2>6. (\E mc \in AllContexts : BeginsWith(t, mc)) \/ Decides(t) \/ Moved(t, [task[t] EXCEPT !.pc = "match"])
    BY <1>2, StepShapes
  <2> QED
    BY <2>3, <2>4, <2>5, <2>6 DEF Uncached!SpecNext
<1>3. CASE UNCHANGED ruleVars
  BY <1>1, <1>3 DEF ruleVars
<1> QED
  BY <1>1, <1>2, <1>3, DnsSteps DEF RuleNext

\* The rule net with its cache implements the rule net without one (Rule::get_rule),
\* for any rules, cache size and number of connections that look up and insert at once.
THEOREM CacheDoesNotShow == RoutingSpec => CacheTransparent
<1>1. RoutingSpec => Uncached!SpecInit
  BY RouteInit DEF RoutingSpec
<1> QED
  BY <1>1, RouteStep, RuleInvariant, PTL DEF RoutingSpec, CacheTransparent, Uncached!RoutesByFirstMatch

-----------------------------------------------------------------------------
(* The TUN gateway.                                                          *)
TunSpec == (\E flows \in [Ports -> Nat] : TunInit(flows)) /\ [][TunNext]_tunVars

\* The inductive invariant: pool and map are consistent, and every step on the way of
\* a connection, from the answered query to the accepted socket, has its destination.
MapType == [key : Ports, value : 0..PoolSize]
FlowType == [state : {"idle", "resolved", "open"}, left : Int, name : Names \cup {Nobody}, dst : 0..PoolSize,
             stale : BOOLEAN, evicted : BOOLEAN, reached : Names \cup {Nobody, "address"}, source : Nat]
SocketType == [port : Ports, flow : Int, state : {"queued", "accepted"}, dst : Nat]
TunTypeOK == flow \in [Ports -> FlowType] /\ sockets \subseteq SocketType

\* The two maps of the pool are inverse to each other.
Inverses(q) ==
  /\ q.cursor \in Nat
  /\ \A n \in DOMAIN q.d2i : /\ q.d2i[n] \in 0..PoolSize - 1 /\ q.d2i[n] \in DOMAIN q.i2d
                             /\ q.i2d[q.d2i[n]] = n
  /\ \A i \in DOMAIN q.i2d : /\ q.i2d[i] \in Names /\ q.i2d[i] \in DOMAIN q.d2i
                             /\ q.d2i[q.i2d[i]] = i
Entries(m) == {m[i] : i \in 1..Len(m)}
OnePlace(m) == m \in Seq(MapType) /\ \A i, j \in 1..Len(m) : m[i].key = m[j].key => i = j

\* The address a client dials is that of the name it looked up, until it is stale.
Dialled(f) == IF f.name = Nobody THEN ~f.stale => f.dst = Real
              ELSE f.dst < PoolSize /\ (~f.stale => f.dst \in DOMAIN pool.i2d /\ pool.i2d[f.dst] = f.name)
\* The map has the destination of an open connection, or dropped it.
Tracked(p, f) == /\ \A e \in Entries(map) : e.key = p => e.value = f.dst
                 /\ p \notin Keys(map) => f.evicted
Reaches(f) == /\ f.reached # Nobody /\ ~f.stale =>
                    f.reached = (IF f.name = Nobody THEN "address" ELSE f.name)
              /\ f.source \in {Unset, f.dst} \/ f.evicted
FlowOK(p, f) == /\ f.state # "idle" => Dialled(f)
                /\ f.state # "open" => f.reached = Nobody
                /\ f.state = "open" => Tracked(p, f) /\ Reaches(f)
\* A socket of the port's present connection has its destination.
SocketOK(s, f) == /\ s.flow >= f.left
                  /\ f.state # "open" => s.flow > f.left
                  /\ s.state = "accepted" /\ f.state = "open" /\ s.flow = f.left => s.dst = f.dst
TunInv == /\ TunTypeOK /\ Inverses(pool) /\ OnePlace(map)
          /\ \A p \in Ports : FlowOK(p, flow[p])
          /\ \A s \in sockets : SocketOK(s, flow[s.port])

\* allocate keeps the two maps inverse, and takes the address of one name at most.
LEMMA Allocated ==
  ASSUME Inverses(pool), NEW name \in Names
  PROVE  LET after == allocate(name) IN
         /\ Inverses(after) /\ name \in DOMAIN after.d2i
         /\ \A i \in DOMAIN pool.i2d : after.i2d = pool.i2d \/ i # next_ip
                => i \in DOMAIN after.i2d /\ after.i2d[i] = pool.i2d[i]
<1>1. CASE name \in DOMAIN pool.d2i
  BY <1>1 DEF allocate
<1>2. CASE name \notin DOMAIN pool.d2i
  <2> DEFINE left == IF next_ip \in DOMAIN pool.i2d THEN Except(pool.d2i, pool.i2d[next_ip]) ELSE pool.d2i
             d2i == With(left, name, next_ip)
             i2d == With(pool.i2d, next_ip, name)
             after == allocate(name)
  <2>1. /\ after.cursor = (pool.cursor + 1) % PoolSize /\ after.d2i = d2i /\ after.i2d = i2d
    BY <1>2 DEF allocate
  <2>2. after.cursor \in Nat /\ next_ip \in 0..PoolSize - 1
    BY <2>1, TunGatewayAssumption DEF next_ip, Inverses
  <2>3. /\ DOMAIN left = {n \in DOMAIN pool.d2i : pool.d2i[n] # next_ip}
        /\ \A n \in DOMAIN left : left[n] = pool.d2i[n]
    <3>1. CASE next_ip \in DOMAIN pool.i2d
      <4>1. \A n \in DOMAIN pool.d2i : n = pool.i2d[next_ip] <=> pool.d2i[n] = next_ip
        BY <3>1 DEF Inverses
      <4> QED
        BY <3>1, <4>1 DEF Except, Restrict
    <3>2. CASE next_ip \notin DOMAIN pool.i2d
      BY <3>2 DEF Inverses
    <3> QED
      BY <3>1, <3>2
  <2> HIDE DEF left
  <2>4. /\ DOMAIN d2i = DOMAIN left \cup {name} /\ d2i[name] = next_ip
        /\ \A n \in DOMAIN left : d2i[n] = pool.d2i[n]
    BY <1>2, <2>3 DEF With
  <2>5. /\ DOMAIN i2d = DOMAIN pool.i2d \cup {next_ip} /\ i2d[next_ip] = name
        /\ \A i \in DOMAIN pool.i2d : i # next_ip => i2d[i] = pool.i2d[i]
    BY DEF With
  <2> HIDE DEF d2i, i2d, after
  <2>6. ASSUME NEW n \in DOMAIN d2i
        PROVE  d2i[n] \in 0..PoolSize - 1 /\ d2i[n] \in DOMAIN i2d /\ i2d[d2i[n]] = n
    <3>1. CASE n = name
      BY <2>2, <2>4, <2>5, <3>1
    <3>2. CASE n # name
      <4>1. n \in DOMAIN pool.d2i /\ d2i[n] = pool.d2i[n] /\ pool.d2i[n] # next_ip
        BY <2>3, <2>4, <3>2
      <4> QED
        BY <2>5, <4>1 DEF Inverses
    <3> QED
      BY <3>1, <3>2
  <2>7. ASSUME NEW i \in DOMAIN i2d
        PROVE  i2d[i] \in Names /\ i2d[i] \in DOMAIN d2i /\ d2i[i2d[i]] = i
    <3>1. CASE i = next_ip
      BY <2>4, <2>5, <3>1
    <3>2. CASE i # next_ip
      <4>1. i \in DOMAIN pool.i2d /\ i2d[i] = pool.i2d[i]
        BY <2>5, <3>2
      <4>2. pool.i2d[i] \in Names /\ pool.i2d[i] \in DOMAIN pool.d2i /\ pool.d2i[pool.i2d[i]] = i
        BY <4>1 DEF Inverses
      <4>3. pool.i2d[i] \in DOMAIN left
        BY <2>3, <3>2, <4>2
      <4> QED
        BY <2>4, <4>1, <4>2, <4>3
    <3> QED
      BY <3>1, <3>2
  <2>8. Inverses(after)
    BY <2>1, <2>2, <2>6, <2>7 DEF Inverses
  <2>9. name \in DOMAIN after.d2i
    BY <2>1, <2>4
  <2>10. ASSUME NEW i \in DOMAIN pool.i2d, after.i2d = pool.i2d \/ i # next_ip
         PROVE  i \in DOMAIN after.i2d /\ after.i2d[i] = pool.i2d[i]
    BY <2>1, <2>5, <2>10
  <2> QED
    BY <2>8, <2>9, <2>10 DEF after
<1> QED
  BY <1>1, <1>2

\* What removing and adding do to the entries of the map.
LEMMA Taken ==
  ASSUME OnePlace(map), NEW key \in Keys(map)
  PROVE  /\ Place(key) \in 1..Len(map) /\ map[Place(key)].key = key
         /\ OnePlace(Others(key)) /\ key \notin Keys(Others(key))
         /\ Entries(map) = Entries(Others(key)) \cup {map[Place(key)]}
<1> DEFINE e == Place(key)
           r == Others(key)
<1>1. e \in 1..Len(map) /\ map[e].key = key
  BY DEF Keys, Place
<1>2. map \in Seq(MapType) /\ Len(map) \in Nat
  BY DEF OnePlace
<1> HIDE DEF e
<1>3. r = RemoveAt(map, e)
  BY DEF Others, e
<1>4. /\ r \in Seq(MapType) /\ Len(r) = Len(map) - 1
      /\ \A k \in 1..Len(map) - 1 : r[k] = IF k < e THEN map[k] ELSE map[k + 1]
  BY <1>1, <1>2, <1>3, WithoutOne
<1> HIDE DEF r
<1> DEFINE from(k) == IF k < e THEN k ELSE k + 1
<1>5. ASSUME NEW k \in 1..Len(r)
      PROVE  from(k) \in 1..Len(map) /\ from(k) # e /\ r[k] = map[from(k)]
  BY <1>1, <1>2, <1>4
<1>6. ASSUME NEW k \in 1..Len(map), k # e
      PROVE  \E j \in 1..Len(r) : r[j] = map[k]
  <2>1. CASE k < e
    <3>1. k \in 1..Len(r) /\ k \in 1..Len(map) - 1
      BY <1>1, <1>2, <1>4, <2>1
    <3> QED
      BY <1>4, <2>1, <3>1
  <2>2. CASE k > e
    <3>1. k - 1 \in 1..Len(r) /\ k - 1 \in 1..Len(map) - 1 /\ ~(k - 1 < e) /\ (k - 1) + 1 = k
      BY <1>1, <1>2, <1>4, <2>2
    <3> QED
      BY <1>4, <3>1
  <2> QED
    BY <1>1, <1>6, <2>1, <2>2
<1>7. \A j, k \in 1..Len(r) : from(j) = from(k) => j = k
  BY <1>1, <1>2, <1>4
<1> HIDE DEF from
<1>8. OnePlace(r)
  <2> SUFFICES ASSUME NEW j \in 1..Len(r), NEW k \in 1..Len(r), r[j].key = r[k].key PROVE j = k
    BY <1>4 DEF OnePlace
  <2>1. from(j) = from(k)
    BY <1>5 DEF OnePlace
  <2> QED
    BY <1>7, <2>1
<1>9. key \notin Keys(r)
  <2> SUFFICES ASSUME NEW k \in 1..Len(r), r[k].key = key PROVE FALSE
    BY DEF Keys
  <2> QED
    BY <1>1, <1>5 DEF OnePlace
<1>10. Entries(map) = Entries(r) \cup {map[e]}
  <2>1. \A x \in Entries(map) : x \in Entries(r) \cup {map[e]}
    BY <1>6 DEF Entries
  <2>2. \A x \in Entries(r) : x \in Entries(map)
    BY <1>5 DEF Entries
  <2>3. map[e] \in Entries(map)
    BY <1>1 DEF Entries
  <2> QED
    BY <2>1, <2>2, <2>3
<1> QED
  BY <1>1, <1>8, <1>9, <1>10 DEF e, r

\* A key that is new gets one place.
LEMMA Added ==
  ASSUME NEW m, OnePlace(m), NEW e \in MapType, e.key \notin Keys(m)
  PROVE  OnePlace(Append(m, e)) /\ Entries(Append(m, e)) = Entries(m) \cup {e}
<1> DEFINE a == Append(m, e)
<1>1. m \in Seq(MapType) /\ Len(m) \in Nat
  BY DEF OnePlace
<1>2. /\ a \in Seq(MapType) /\ Len(a) = Len(m) + 1 /\ a[Len(m) + 1] = e
      /\ \A k \in 1..Len(m) : a[k] = m[k]
  BY <1>1
<1> HIDE DEF a
<1>3. \A k \in 1..Len(a) : k = Len(m) + 1 \/ k \in 1..Len(m)
  BY <1>1, <1>2
<1>4. \A k \in 1..Len(m) : k \in 1..Len(a) /\ m[k].key # e.key
  BY <1>1, <1>2 DEF Keys
<1>5. Len(m) + 1 \in 1..Len(a)
  BY <1>1, <1>2
<1>6. OnePlace(a)
  <2> SUFFICES ASSUME NEW j \in 1..Len(a), NEW k \in 1..Len(a), a[j].key = a[k].key PROVE j = k
    BY <1>2 DEF OnePlace
  <2> QED
    BY <1>2, <1>3, <1>4 DEF OnePlace
<1>7. Entries(a) = Entries(m) \cup {e}
  BY <1>2, <1>3, <1>4, <1>5 DEF Entries
<1> QED
  BY <1>6, <1>7 DEF a

\* The keys are those of the entries.
LEMMA KeysOfEntries ==
  ASSUME NEW m PROVE Keys(m) = {e.key : e \in Entries(m)}
BY DEF Keys, Entries

\* get moves an entry and changes none.
LEMMA Got ==
  ASSUME OnePlace(map), NEW key
  PROVE  /\ OnePlace(get(key)) /\ Entries(get(key)) = Entries(map) /\ Keys(get(key)) = Keys(map)
         /\ key \in Keys(map) => \E e \in Entries(map) : e.key = key /\ e.value = Mapped(key)
         /\ key \notin Keys(map) => Mapped(key) = Override
<1>1. CASE key \notin Keys(map)
  BY <1>1 DEF get, Mapped
<1>2. CASE key \in Keys(map)
  <2>1. /\ Place(key) \in 1..Len(map) /\ map[Place(key)].key = key
        /\ OnePlace(Others(key)) /\ key \notin Keys(Others(key))
        /\ Entries(map) = Entries(Others(key)) \cup {map[Place(key)]}
    BY <1>2, Taken
  <2>2. map[Place(key)] \in MapType
    BY <2>1 DEF OnePlace
  <2>3. get(key) = Append(Others(key), map[Place(key)]) /\ Mapped(key) = map[Place(key)].value
    BY <1>2 DEF get, Mapped
  <2>4. OnePlace(get(key)) /\ Entries(get(key)) = Entries(map)
    BY <2>1, <2>2, <2>3, Added
  <2>5. Keys(get(key)) = Keys(map)
    BY <2>4, KeysOfEntries
  <2> QED
    BY <1>2, <2>1, <2>3, <2>4, <2>5
<1> QED
  BY <1>1, <1>2

\* insert gives its key the value, and drops one other key at most.
LEMMA Inserted ==
  ASSUME OnePlace(map), NEW key \in Ports, NEW value \in 0..PoolSize
  PROVE  LET new == [key |-> key, value |-> value] IN
         /\ OnePlace(insert(key, value)) /\ new \in Entries(insert(key, value))
         /\ \A e \in Entries(insert(key, value)) : e = new \/ (e.key # key /\ e \in Entries(map))
<1> DEFINE new == [key |-> key, value |-> value]
           o == Others(key)
           a == Append(o, new)
<1>1. OnePlace(o) /\ key \notin Keys(o) /\ Entries(o) \subseteq Entries(map)
  <2>1. CASE key \in Keys(map)
    BY <2>1, Taken
  <2>2. CASE key \notin Keys(map)
    BY <2>2 DEF Others
  <2> QED
    BY <2>1, <2>2
<1>2. new \in MapType /\ new.key = key
  BY DEF MapType
<1> HIDE DEF o, new
<1>3. OnePlace(a) /\ Entries(a) = Entries(o) \cup {new}
  BY <1>1, <1>2, Added
<1>4. \A e \in Entries(o) : e.key # key
  BY <1>1, KeysOfEntries
<1>5. o \in Seq(MapType) /\ Len(o) \in Nat
  BY <1>1 DEF OnePlace
<1>6. insert(key, value) = Bounded(a)
  BY DEF insert, a, o, new
<1>7. CASE ~(Len(a) > MapSize)
  BY <1>1, <1>3, <1>4, <1>6, <1>7 DEF Bounded, new
<1>8. CASE Len(a) > MapSize
  <2> DEFINE t == Tail(a)
  <2>1. a \in Seq(MapType) /\ Len(a) = Len(o) + 1 /\ Len(a) >= 2 /\ a[Len(a)] = new
    BY <1>2, <1>5, <1>8, TunGatewayAssumption
  <2> HIDE DEF a
  <2>2. t \in Seq(MapType) /\ Len(t) = Len(a) - 1 /\ Len(a) \in Nat /\ \A k \in 1..Len(a) - 1 : t[k] = a[k + 1]
    BY <2>1
  <2> HIDE DEF t
  <2>3. \A k \in 1..Len(t) : k + 1 \in 1..Len(a) /\ t[k] = a[k + 1]
    BY <2>1, <2>2
  <2>4. OnePlace(t)
    <3> SUFFICES ASSUME NEW j \in 1..Len(t), NEW k \in 1..Len(t), t[j].key = t[k].key PROVE j = k
      BY <2>2 DEF OnePlace
    <3>1. j + 1 = k + 1
      BY <1>3, <2>3, SMTT(30) DEF OnePlace
    <3> QED
      BY <3>1
  <2>5. Entries(t) \subseteq Entries(a)
    BY <2>3 DEF Entries
  <2>6. new \in Entries(t)
    <3>1. Len(a) - 1 \in 1..Len(t) /\ t[Len(a) - 1] = new
      BY <2>1, <2>2
    <3> QED
      BY <3>1 DEF Entries
  <2>7. insert(key, value) = t
    BY <1>6, <1>8 DEF Bounded, t
  <2> QED
    BY <1>1, <1>3, <1>4, <2>4, <2>5, <2>6, <2>7 DEF new
<1> QED
  BY <1>7, <1>8

\* One lemma per step.
LEMMA QueryInv ==
  ASSUME TunInv, NEW p \in Ports, NEW name \in Names, Query(p, name) PROVE TunInv'
<1> DEFINE after == allocate(name)
           ip == after.d2i[name]
           gone(q) == after.i2d # pool.i2d /\ flow[q].dst = next_ip
<1>1. /\ Inverses(after) /\ name \in DOMAIN after.d2i
      /\ \A i \in DOMAIN pool.i2d : after.i2d = pool.i2d \/ i # next_ip
             => i \in DOMAIN after.i2d /\ after.i2d[i] = pool.i2d[i]
  BY Allocated DEF TunInv
<1>2. ip \in 0..PoolSize - 1 /\ ip \in DOMAIN after.i2d /\ after.i2d[ip] = name /\ ip \in 0..PoolSize /\ ip < PoolSize
  BY <1>1, TunGatewayAssumption DEF Inverses
<1>3. pool' = after /\ map' = map /\ sockets' = sockets /\ flow[p].state = "idle"
  BY DEF Query, generate_fake_response
<1>4. /\ flow' = [q \in Ports |-> IF q = p THEN [flow[q] EXCEPT !.state = "resolved", !.name = name, !.stale = FALSE, !.dst = ip]
                                  ELSE [flow[q] EXCEPT !.stale = @ \/ gone(q)]]
  BY <1>3 DEF Query, generate_fake_response
<1> HIDE DEF after, ip, gone
<1>5. \A q \in Ports : flow[q] \in FlowType
  BY DEF TunInv, TunTypeOK
<1>6. /\ flow'[p] \in FlowType /\ flow'[p].state = "resolved" /\ flow'[p].name = name /\ flow'[p].dst = ip
      /\ ~flow'[p].stale /\ flow'[p].reached = flow[p].reached /\ flow'[p].left = flow[p].left
  BY <1>2, <1>4, <1>5 DEF FlowType
<1>7. ASSUME NEW q \in Ports, q # p
      PROVE  /\ flow'[q] \in FlowType /\ flow'[q].stale = (flow[q].stale \/ gone(q))
             /\ flow'[q].state = flow[q].state /\ flow'[q].name = flow[q].name /\ flow'[q].dst = flow[q].dst
             /\ flow'[q].reached = flow[q].reached /\ flow'[q].left = flow[q].left
             /\ flow'[q].evicted = flow[q].evicted /\ flow'[q].source = flow[q].source
  <2>1. flow'[q] = [flow[q] EXCEPT !.stale = flow[q].stale \/ gone(q)] /\ (flow[q].stale \/ gone(q)) \in BOOLEAN
    BY <1>4, <1>5, <1>7
  <2> QED
    BY <1>5, <2>1 DEF FlowType
<1>8. TunTypeOK'
  BY <1>3, <1>4, <1>6, <1>7 DEF TunInv, TunTypeOK
<1>9. FlowOK(p, flow[p])'
  <2>1. flow[p].reached = Nobody /\ name # Nobody
    BY <1>3, NamesAssumption DEF TunInv, FlowOK
  <2> QED
    BY <1>2, <1>3, <1>6, <2>1 DEF FlowOK, Dialled
<1>10. ASSUME NEW q \in Ports, q # p PROVE FlowOK(q, flow[q])'
  <2>1. FlowOK(q, flow[q])
    BY DEF TunInv
  <2>2. flow[q].state # "idle" => Dialled(flow[q])'
    BY <1>1, <1>3, <1>7, <1>10, <2>1 DEF FlowOK, Dialled, gone
  <2>3. flow[q].state = "open" => Tracked(q, flow[q])' /\ Reaches(flow[q])'
    BY <1>3, <1>7, <1>10, <2>1, ZenonT(60) DEF FlowOK, Tracked, Reaches, Entries, Keys
  <2> QED
    BY <1>7, <1>10, <2>1, <2>2, <2>3 DEF FlowOK
<1>11. ASSUME NEW s \in sockets PROVE SocketOK(s, flow'[s.port])
  <2>1. s.port \in Ports /\ SocketOK(s, flow[s.port])
    BY DEF TunInv, TunTypeOK, SocketType
  <2> QED
    BY <1>3, <1>6, <1>7, <2>1 DEF SocketOK
<1> QED
  BY <1>1, <1>3, <1>8, <1>9, <1>10, <1>11 DEF TunInv

\* A step that changes one flow, and neither the pool nor the map's entries.
LEMMA OneFlow ==
  ASSUME TunInv, NEW p \in Ports, NEW f \in FlowType, flow' = [flow EXCEPT ![p] = f], pool' = pool,
         OnePlace(map'), Entries(map') = Entries(map), sockets' \subseteq SocketType,
         FlowOK(p, f), \A s \in sockets' : s.port = p => SocketOK(s, f),
         \A s \in sockets' : s.port # p => SocketOK(s, flow[s.port])
  PROVE  TunInv'
<1>1. flow \in [Ports -> FlowType] /\ flow' \in [Ports -> FlowType]
  BY DEF TunInv, TunTypeOK
<1>2. flow'[p] = f /\ \A q \in Ports : q # p => flow'[q] = flow[q]
  BY <1>1
<1>3. Keys(map') = Keys(map)
  BY KeysOfEntries
<1>4. ASSUME NEW q \in Ports PROVE FlowOK(q, flow[q])'
  <2>1. FlowOK(q, flow'[q])
    BY <1>2 DEF TunInv
  <2> QED
    BY <1>3, <2>1 DEF FlowOK, Dialled, Tracked, Reaches, Entries, Keys
<1>5. ASSUME NEW s \in sockets' PROVE SocketOK(s, flow'[s.port])
  <2>1. s.port \in Ports
    BY DEF SocketType
  <2> QED
    BY <1>2, <2>1
<1> QED
  BY <1>1, <1>4, <1>5 DEF TunInv, TunTypeOK

\* What the invariant says of one port.
LEMMA FlowFacts ==
  ASSUME TunInv, NEW p \in Ports
  PROVE  /\ flow[p] \in FlowType /\ FlowOK(p, flow[p]) /\ flow = [flow EXCEPT ![p] = flow[p]]
         /\ OnePlace(map) /\ sockets \subseteq SocketType
         /\ \A s \in sockets : s.port \in Ports /\ SocketOK(s, flow[s.port])
BY DEF TunInv, TunTypeOK, SocketType

\* The steps of the gateway, one by one.
LEMMA UseAddressInv == ASSUME TunInv, NEW p \in Ports, NEW ip \in 0..Real, UseAddress(p, ip) PROVE TunInv'
<1> DEFINE f == [flow[p] EXCEPT !.state = "resolved", !.name = Nobody, !.dst = ip, !.stale = contains(ip)]
<1>1. flow' = [flow EXCEPT ![p] = f] /\ UNCHANGED <<pool, map, sockets>> /\ flow[p].state = "idle"
  BY DEF UseAddress
<1>2. f \in FlowType
  <2>1. flow[p] \in FlowType /\ ip \in 0..PoolSize /\ contains(ip) \in BOOLEAN
    BY FlowFacts DEF Real, contains
  <2> QED
    BY <2>1 DEF FlowType
<1>3. /\ f.state = "resolved" /\ f.name = Nobody /\ f.dst = ip /\ f.stale = contains(ip)
      /\ f.reached = flow[p].reached /\ f.left = flow[p].left
  BY FlowFacts DEF FlowType
<1> HIDE DEF f
<1>4. FlowOK(p, f)
  <2>1. ~contains(ip) => ip = Real
    BY TunGatewayAssumption DEF contains, Real
  <2> QED
    BY <1>1, <1>3, <2>1, FlowFacts DEF FlowOK, Dialled
<1>5. ASSUME NEW s \in sockets, s.port = p PROVE SocketOK(s, f)
  BY <1>1, <1>3, <1>5, FlowFacts DEF SocketOK
<1> QED
  BY <1>1, <1>2, <1>4, <1>5, FlowFacts, OneFlow

\* A port is given up.
LEMMA LeavePortInv == ASSUME TunInv, NEW p \in Ports, LeavePort(p) PROVE TunInv'
<1> DEFINE less == flow[p].left - 1
           f == [flow[p] EXCEPT !.state = "idle", !.left = less, !.name = Nobody, !.dst = Real,
                                !.evicted = FALSE, !.reached = Nobody, !.source = Unset]
<1>1. flow' = [flow EXCEPT ![p] = f] /\ UNCHANGED <<pool, map, sockets>> /\ flow[p].state = "open"
  BY FlowFacts DEF LeavePort, FlowType
<1>2. flow[p].left \in Int /\ flow[p].left - 1 \in Int /\ Real \in 0..PoolSize /\ Unset \in Nat
  BY FlowFacts, TunGatewayAssumption DEF FlowType, Real, Unset
<1>3. f \in FlowType
  <2>1. flow[p] \in FlowType /\ less \in Int
    BY <1>2, FlowFacts
  <2> HIDE DEF less
  <2> QED
    BY <1>2, <2>1 DEF FlowType
<1>4. f.state = "idle" /\ f.reached = Nobody /\ f.left = flow[p].left - 1
  BY <1>2, FlowFacts DEF FlowType
<1> HIDE DEF f
<1>5. FlowOK(p, f)
  BY <1>4 DEF FlowOK
<1>6. ASSUME NEW s \in sockets, s.port = p PROVE SocketOK(s, f)
  <2>1. s.flow \in Int /\ s.flow >= flow[p].left
    BY <1>6, FlowFacts DEF SocketOK, SocketType
  <2> QED
    BY <1>2, <1>4, <2>1 DEF SocketOK
<1> QED
  BY <1>1, <1>3, <1>5, <1>6, FlowFacts, OneFlow

\* A packet leaves.
LEMMA LeavesInv == ASSUME TunInv, NEW p \in Ports, Leaves(p) PROVE TunInv'
<1> DEFINE f == [flow[p] EXCEPT !.source = Mapped(p)]
<1>1. flow' = [flow EXCEPT ![p] = f] /\ map' = get(p) /\ UNCHANGED <<pool, sockets>> /\ flow[p].state = "open"
  BY DEF Leaves
<1>2. OnePlace(map') /\ Entries(map') = Entries(map)
  BY <1>1, FlowFacts, Got
<1>3. Tracked(p, flow[p]) /\ Reaches(flow[p]) /\ flow[p].dst \in 0..PoolSize
  BY <1>1, FlowFacts DEF FlowOK, FlowType
<1>4. Mapped(p) = flow[p].dst \/ (Mapped(p) = Override /\ flow[p].evicted)
  BY <1>3, FlowFacts, Got DEF Tracked
<1>5. Mapped(p) \in Nat
  BY <1>3, <1>4, TunGatewayAssumption DEF Override
<1>6. f \in FlowType
  BY <1>5, FlowFacts DEF FlowType
<1>7. /\ f.source = Mapped(p) /\ f.state = flow[p].state /\ f.name = flow[p].name /\ f.dst = flow[p].dst
      /\ f.stale = flow[p].stale /\ f.evicted = flow[p].evicted /\ f.reached = flow[p].reached
      /\ f.left = flow[p].left
  BY FlowFacts DEF FlowType
<1> HIDE DEF f
<1>8. FlowOK(p, f)
  BY <1>1, <1>3, <1>4, <1>7, FlowFacts DEF FlowOK, Dialled, Tracked, Reaches
<1>9. ASSUME NEW s \in sockets, s.port = p PROVE SocketOK(s, f)
  BY <1>7, <1>9, FlowFacts DEF SocketOK
<1> QED
  BY <1>1, <1>2, <1>6, <1>8, <1>9, FlowFacts, OneFlow

\* A connection is accepted.
LEMMA AcceptInv == ASSUME TunInv, NEW s \in sockets, Accept(s) PROVE TunInv'
<1> DEFINE p == s.port
           t == [s EXCEPT !.state = "accepted", !.dst = Mapped(s.port)]
<1>1. /\ map' = get(p) /\ UNCHANGED <<pool, flow>>
      /\ sockets' = (sockets \ {s}) \cup (IF p \in Keys(map) THEN {t} ELSE {})
  BY DEF Accept
<1>2. s \in SocketType /\ p \in Ports /\ OnePlace(map)
  BY DEF TunInv, TunTypeOK, SocketType
<1>3. SocketOK(s, flow[p]) /\ FlowOK(p, flow[p]) /\ flow[p] \in FlowType
  BY <1>2, FlowFacts
<1>4. OnePlace(map') /\ Entries(map') = Entries(map)
  BY <1>1, <1>2, Got
<1>5. ASSUME p \in Keys(map) PROVE t \in SocketType /\ t.port = p /\ SocketOK(t, flow[p])
  <2>1. PICK e \in Entries(map) : e.key = p /\ e.value = Mapped(p)
    BY <1>2, <1>5, Got
  <2>2. e \in MapType
    BY <1>2 DEF OnePlace, Entries
  <2>3. Mapped(p) \in Nat
    BY <2>1, <2>2, TunGatewayAssumption DEF MapType
  <2>4. t \in SocketType
    BY <1>2, <2>3 DEF SocketType
  <2>5. t.port = p /\ t.flow = s.flow /\ t.dst = Mapped(p)
    BY <1>2 DEF SocketType
  <2> HIDE DEF t
  <2>6. flow[p].state = "open" => Mapped(p) = flow[p].dst
    BY <1>3, <2>1 DEF FlowOK, Tracked
  <2> QED
    BY <1>3, <2>4, <2>5, <2>6 DEF SocketOK
<1>6. \A x \in sockets' : x \in SocketType /\ SocketOK(x, flow[x.port])
  <2>1. ASSUME NEW x \in sockets' PROVE x \in SocketType /\ SocketOK(x, flow[x.port])
    <3>1. CASE x \in sockets
      BY <3>1 DEF TunInv, TunTypeOK
    <3>2. CASE x = t /\ p \in Keys(map)
      BY <1>5, <3>2
    <3> QED
      BY <1>1, <3>1, <3>2
  <2> QED
    BY <2>1
<1>7. flow' = [flow EXCEPT ![p] = flow[p]] /\ pool' = pool
  BY <1>1, <1>2, FlowFacts
<1>8. sockets' \subseteq SocketType /\ \A x \in sockets' : x.port = p => SocketOK(x, flow[p])
  BY <1>6
<1> HIDE DEF p
<1> QED
  BY <1>2, <1>3, <1>4, <1>6, <1>7, <1>8, OneFlow

\* It is connected to its target.
LEMMA ConnectTargetInv == ASSUME TunInv, NEW s \in sockets, ConnectTarget(s) PROVE TunInv'
<1> DEFINE p == s.port
           target == Target(s.dst)
<1>1. /\ s.state = "accepted" /\ sockets' = sockets \ {s} /\ UNCHANGED <<pool, map>>
      /\ flow' = IF flow[p].left = s.flow /\ flow[p].state = "open"
                 THEN [flow EXCEPT ![p].reached = target] ELSE flow
  BY DEF ConnectTarget
<1>2. s \in SocketType /\ p \in Ports
  BY DEF TunInv, TunTypeOK, SocketType
<1>3. /\ flow[p] \in FlowType /\ FlowOK(p, flow[p]) /\ flow = [flow EXCEPT ![p] = flow[p]]
      /\ OnePlace(map) /\ sockets \subseteq SocketType
      /\ \A x \in sockets : x.port \in Ports /\ SocketOK(x, flow[x.port])
  BY <1>2, FlowFacts
<1>4. CASE flow[p].left = s.flow /\ flow[p].state = "open"
  <2> DEFINE f == [flow[p] EXCEPT !.reached = target]
  <2>1. s.dst = flow[p].dst /\ s.dst \in 0..PoolSize
    BY <1>1, <1>3, <1>4 DEF SocketOK, FlowType
  <2>2. target \in Names \cup {Nobody, "address"}
    BY DEF Target, lookup, TunInv, Inverses
  <2>3. f \in FlowType
    BY <1>3, <2>2 DEF FlowType
  <2>4. flow' = [flow EXCEPT ![p] = f]
    BY <1>1, <1>3, <1>4
  <2>5. /\ f.source = flow[p].source /\ f.state = flow[p].state /\ f.name = flow[p].name /\ f.dst = flow[p].dst
        /\ f.stale = flow[p].stale /\ f.evicted = flow[p].evicted /\ f.reached = target
        /\ f.left = flow[p].left
    BY <1>3 DEF FlowType
  <2>6. ~flow[p].stale => target = (IF flow[p].name = Nobody THEN "address" ELSE flow[p].name)
    <3> HAVE ~flow[p].stale
    <3>1. Dialled(flow[p])
      BY <1>3, <1>4 DEF FlowOK
    <3>2. CASE flow[p].name = Nobody
      <4>1. ~contains(s.dst)
        BY <2>1, <3>1, <3>2, TunGatewayAssumption DEF Dialled, Real, contains
      <4> QED
        BY <3>2, <4>1 DEF Target
    <3>3. CASE flow[p].name # Nobody
      BY <2>1, <3>1, <3>3 DEF Dialled, contains, lookup, Target
    <3> QED
      BY <3>2, <3>3
  <2> HIDE DEF f, target
  <2>7. FlowOK(p, f)
    BY <1>3, <1>4, <2>5, <2>6 DEF FlowOK, Dialled, Tracked, Reaches
  <2>8. \A x \in sockets' : x.port = p => SocketOK(x, f)
    BY <1>1, <1>3, <2>5 DEF SocketOK
  <2>9. \A x \in sockets' : x.port # p => SocketOK(x, flow[x.port])
    BY <1>1, <1>3
  <2> QED
    BY <1>1, <1>2, <1>3, <2>3, <2>4, <2>7, <2>8, <2>9, OneFlow
<1>5. CASE ~(flow[p].left = s.flow /\ flow[p].state = "open")
  <2>1. flow' = [flow EXCEPT ![p] = flow[p]] /\ pool' = pool /\ map' = map
    BY <1>1, <1>3, <1>5
  <2>2. /\ sockets' \subseteq SocketType /\ \A x \in sockets' : SocketOK(x, flow[x.port])
        /\ \A x \in sockets' : x.port = p => SocketOK(x, flow[p])
    BY <1>1, <1>3
  <2> HIDE DEF p
  <2> QED
    BY <1>2, <1>3, <2>1, <2>2, OneFlow
<1> QED
  BY <1>4, <1>5

\* A packet comes in.
LEMMA EnterInv == ASSUME TunInv, NEW p \in Ports, Enter(p) PROVE TunInv'
<1> DEFINE v == flow[p].dst
           new == [key |-> p, value |-> v]
           sock == [port |-> p, flow |-> flow[p].left, state |-> "queued", dst |-> Override]
           lost(q) == q \in Keys(map) /\ q \notin Keys(map')
<1>0. flow[p] \in FlowType /\ FlowOK(p, flow[p]) /\ OnePlace(map) /\ v \in 0..PoolSize
  BY FlowFacts DEF FlowType
<1>1. /\ map' = insert(p, v) /\ pool' = pool /\ flow[p].state \in {"resolved", "open"}
      /\ flow' = [q \in Ports |->
                    IF q = p THEN [flow[q] EXCEPT !.state = "open", !.evicted = FALSE, !.source = Unset]
                    ELSE [flow[q] EXCEPT !.evicted = @ \/ lost(q)]]
      /\ sockets' = IF flow[p].state = "resolved" THEN sockets \cup {sock} ELSE sockets
  BY DEF Enter
<1>2. /\ OnePlace(map') /\ new \in Entries(map')
      /\ \A e \in Entries(map') : e = new \/ (e.key # p /\ e \in Entries(map))
  BY <1>0, <1>1, Inserted
<1>3. p \in Keys(map')
  <2>1. new.key = p
    OBVIOUS
  <2> HIDE DEF new
  <2> QED
    BY <1>2, <2>1, KeysOfEntries
<1> HIDE DEF lost
<1>4. Unset \in Nat
  BY TunGatewayAssumption DEF Unset
<1>5. /\ flow'[p] \in FlowType /\ flow'[p].state = "open" /\ flow'[p].evicted = FALSE /\ flow'[p].source = Unset
      /\ flow'[p].name = flow[p].name /\ flow'[p].dst = v /\ flow'[p].stale = flow[p].stale
      /\ flow'[p].reached = flow[p].reached /\ flow'[p].left = flow[p].left
  BY <1>0, <1>1, <1>4 DEF FlowType
<1>6. ASSUME NEW q \in Ports, q # p
      PROVE  /\ flow'[q] \in FlowType /\ flow'[q].evicted = (flow[q].evicted \/ lost(q))
             /\ flow'[q].state = flow[q].state /\ flow'[q].name = flow[q].name /\ flow'[q].dst = flow[q].dst
             /\ flow'[q].reached = flow[q].reached /\ flow'[q].left = flow[q].left
             /\ flow'[q].stale = flow[q].stale /\ flow'[q].source = flow[q].source
  <2>1. flow[q] \in FlowType
    BY FlowFacts
  <2>2. flow'[q] = [flow[q] EXCEPT !.evicted = flow[q].evicted \/ lost(q)] /\ (flow[q].evicted \/ lost(q)) \in BOOLEAN
    BY <1>1, <1>6, <2>1
  <2> QED
    BY <2>1, <2>2 DEF FlowType
<1>7. FlowOK(p, flow[p])'
  <2>1. Tracked(p, flow[p])'
    <3>1. \A e \in Entries(map') : e.key = p => e.value = v
      BY <1>2
    <3> QED
      BY <1>3, <1>5, <3>1 DEF Tracked, Entries, Keys
  <2>2. Dialled(flow[p])'
    BY <1>0, <1>1, <1>5 DEF FlowOK, Dialled
  <2>3. Reaches(flow[p])'
    <3>1. flow[p].reached # Nobody /\ ~flow[p].stale =>
             flow[p].reached = (IF flow[p].name = Nobody THEN "address" ELSE flow[p].name)
      BY <1>0, <1>1 DEF FlowOK, Reaches
    <3> QED
      BY <1>5, <3>1 DEF Reaches
  <2> QED
    BY <1>5, <2>1, <2>2, <2>3 DEF FlowOK
<1>8. ASSUME NEW q \in Ports, q # p PROVE FlowOK(q, flow[q])'
  <2>1. FlowOK(q, flow[q])
    BY FlowFacts
  <2>2. flow[q].state = "open" => Tracked(q, flow[q])'
    <3> SUFFICES ASSUME flow[q].state = "open" PROVE Tracked(q, flow[q])'
      OBVIOUS
    <3>1. Tracked(q, flow[q])
      BY <2>1 DEF FlowOK
    <3>2. \A e \in Entries(map') : e.key = q => e.value = flow[q].dst
      BY <1>2, <1>8, <3>1 DEF Tracked
    <3>3. q \notin Keys(map') => flow'[q].evicted
      BY <1>6, <1>8, <3>1 DEF Tracked, lost
    <3> QED
      BY <1>6, <1>8, <3>2, <3>3 DEF Tracked, Entries, Keys
  <2>3. flow[q].state # "idle" => Dialled(flow[q])'
    BY <1>1, <1>6, <1>8, <2>1, ZenonT(60) DEF FlowOK, Dialled
  <2>4. flow[q].state = "open" => Reaches(flow[q])'
    BY <1>6, <1>8, <2>1 DEF FlowOK, Reaches
  <2> QED
    BY <1>6, <1>8, <2>1, <2>2, <2>3, <2>4 DEF FlowOK
<1>9. ASSUME NEW s \in sockets PROVE s \in SocketType /\ SocketOK(s, flow'[s.port])
  <2>1. s \in SocketType /\ s.port \in Ports /\ SocketOK(s, flow[s.port]) /\ s.flow \in Int /\ flow[p].left \in Int
    BY <1>0, FlowFacts DEF SocketType, FlowType
  <2>2. CASE s.port # p
    BY <1>6, <2>1, <2>2 DEF SocketOK
  <2>3. CASE s.port = p /\ flow[p].state = "open"
    BY <1>5, <2>1, <2>3 DEF SocketOK
  <2>4. CASE s.port = p /\ flow[p].state = "resolved"
    <3>1. s.flow > flow[p].left
      BY <2>1, <2>4 DEF SocketOK
    <3> QED
      BY <1>5, <2>1, <2>4, <3>1 DEF SocketOK
  <2> QED
    BY <1>1, <2>2, <2>3, <2>4
<1>10. sock \in SocketType /\ SocketOK(sock, flow'[sock.port])
  <2>1. flow[p].left \in Int /\ Override \in Nat
    BY <1>0, TunGatewayAssumption DEF FlowType, Override
  <2>2. sock \in SocketType
    BY <2>1 DEF SocketType
  <2>3. sock.port = p /\ sock.flow = flow[p].left /\ sock.state = "queued"
    OBVIOUS
  <2> HIDE DEF sock
  <2> QED
    BY <1>5, <2>1, <2>2, <2>3 DEF SocketOK
<1> HIDE DEF sock
<1>11. \A s \in sockets' : s \in SocketType /\ SocketOK(s, flow'[s.port])
  BY <1>1, <1>9, <1>10
<1>12. flow' \in [Ports -> FlowType]
  BY <1>1, <1>5, <1>6
<1>13. \A q \in Ports : FlowOK(q, flow[q])'
  BY <1>7, <1>8
<1> QED
  BY <1>1, <1>2, <1>11, <1>12, <1>13 DEF TunInv, TunTypeOK

\* Before the first packet.
LEMMA TunInitInv ==
  ASSUME NEW flows \in [Ports -> Nat], TunInit(flows) PROVE TunInv
<1>1. Inverses(pool)
  <2>1. DOMAIN pool.d2i = {} /\ DOMAIN pool.i2d = {} /\ pool.cursor = 0
    BY DEF TunInit
  <2> QED
    BY <2>1 DEF Inverses
<1>2. OnePlace(map)
  BY DEF TunInit, OnePlace
<1>3. Real \in 0..PoolSize /\ Unset \in Nat /\ \A p \in Ports : flows[p] \in Int
  BY TunGatewayAssumption DEF Real, Unset
<1>4. ASSUME NEW p \in Ports PROVE flow[p] \in FlowType /\ FlowOK(p, flow[p])
  <2>1. flow[p] = [state |-> "idle", left |-> flows[p], name |-> Nobody, dst |-> Real,
                   stale |-> FALSE, evicted |-> FALSE, reached |-> Nobody, source |-> Unset]
    BY DEF TunInit
  <2> QED
    BY <1>3, <2>1 DEF FlowType, FlowOK
<1>5. flow \in [Ports -> FlowType] /\ sockets = {}
  BY <1>4 DEF TunInit
<1> QED
  BY <1>1, <1>2, <1>4, <1>5 DEF TunInv, TunTypeOK

\* So it holds always.
LEMMA TunInvariant == TunSpec => []TunInv
<1>1. TunInv /\ [TunNext]_tunVars => TunInv'
  <2> SUFFICES ASSUME TunInv, [TunNext]_tunVars PROVE TunInv'
    OBVIOUS
  <2>1. CASE UNCHANGED tunVars
    BY <2>1 DEF tunVars, TunInv, TunTypeOK, Inverses, OnePlace, FlowOK, Dialled, Tracked, Reaches, Entries, Keys, SocketOK
  <2>2. CASE TunNext
    BY <2>2, QueryInv, UseAddressInv, EnterInv, LeavePortInv, LeavesInv, AcceptInv, ConnectTargetInv DEF TunNext
  <2> QED
    BY <2>1, <2>2
<1>2. (\E flows \in [Ports -> Nat] : TunInit(flows)) => TunInv
  BY TunInitInv
<1> QED
  BY <1>1, <1>2, PTL DEF TunSpec

\* A connection through the TUN server reaches what its client dialled and its replies
\* come from there (map_in, map_out, serve_tcp, FakeIpPool), for any pool, map size,
\* number of clients and of connections per port, with the excuses TunReaches names.
THEOREM ReachesDialled == TunSpec => []TunReaches
<1>1. TunInv => TunReaches
  BY DEF TunInv, FlowOK, Reaches, TunReaches
<1> QED
  BY <1>1, TunInvariant, PTL

-----------------------------------------------------------------------------
(* Hysteria.  The client is this net, whose sessions have one address each.  *)
HySpec == /\ \E state \in {NoConn, "up", "lost"}, tcp \in {NoConn, "open"}, target \in Targets,
                sizes \in SUBSET (1..MaxFragments), up, down \in Nat :
                HyInit(state, tcp, target, {target}, sizes, up, down)
          /\ [][HyNext]_hyVars

\* The inductive invariant.  Two facts carry it: a key's packet id is used again only
\* when every fragment and entry of its former packet is gone or stale, since the
\* sender knows when it used the id last (Held), and a loop that forgets what it used
\* was idle for longer than an entry lives.

\* What a sender knows of its packet ids.
UsedType == UNION {[ids -> Nat] : ids \in SUBSET Nat}
IdsType == [used : UsedType, next : Nat]
LoopType == [sess : Nat, state : {"runs", "leaves", "gone"}, last : Nat, ids : IdsType]
ClientShape(c) == c = [sess |-> c.sess, resolving |-> c.resolving, next |-> c.next, ids |-> c.ids,
                       target |-> c.target, addrs |-> c.addrs, sizes |-> c.sizes, left |-> c.left, table |-> c.table]
ServerShape(v) == v = [sess |-> v.sess, addr |-> v.addr, tasks |-> v.tasks, loops |-> v.loops,
                       left |-> v.left, table |-> v.table]
TaskOK(k, n) == /\ k = [sess |-> k.sess, packet |-> k.packet, pc |-> k.pc, loop |-> k.loop] /\ k.sess \in Nat
                /\ k.pc = "send" => k.loop \in 1..n

Past(used) == \A id \in DOMAIN used : used[id] <= clock
ClientOK(c) == /\ ClientShape(c) /\ c.next \in Nat
               /\ \A s \in DOMAIN c.ids : s \in Nat /\ s < c.next /\ c.ids[s] \in IdsType /\ Past(c.ids[s].used)
               /\ \A t \in DOMAIN c.sess : c.sess[t] \in DOMAIN c.ids
LoopOK(l) == /\ l.last <= clock
             /\ \A id \in DOMAIN l.ids.used : l.ids.used[id] <= l.last
             /\ l.state = "leaves" => clock - l.last >= Idle
\* The session of a loop that is not gone is that loop's.
ServerOK(v) == /\ ServerShape(v) /\ v.loops \in Seq(LoopType)
               /\ \A k \in v.tasks : TaskOK(k, Len(v.loops))
               /\ \A i \in 1..Len(v.loops) : LoopOK(v.loops[i])
               /\ \A i \in 1..Len(v.loops) : v.loops[i].state # "gone" =>
                     v.loops[i].sess \in DOMAIN v.sess /\ v.sess[v.loops[i].sess] = i
               /\ \A s \in DOMAIN v.sess : v.sess[s] \in 1..Len(v.loops) /\ v.loops[v.sess[s]].sess = s

\* Id of session s in direction dir was used at time t or later, or t is long past.
UsedUp(c, s, id, t) == s \in DOMAIN c.ids /\ id \in DOMAIN c.ids[s].used /\ t <= c.ids[s].used[id]
UsedDown(v, s, id, t) == /\ s \in DOMAIN v.sess
                         /\ id \in DOMAIN v.loops[v.sess[s]].ids.used
                         /\ t <= v.loops[v.sess[s]].ids.used[id]
Held(dir, s, id, t) == \/ clock - t > ReassemblyTtl
                       \/ dir = "up" /\ UsedUp(hyClient, s, id, t)
                       \/ dir = "down" /\ UsedDown(hyServer, s, id, t)

FragOK(f) == /\ f.dir \in {"up", "down"} /\ f.sess \in Nat
             /\ f.count \in Nat /\ f.frag \in 0..f.count - 1
             /\ f.packet[1] = f.dir /\ f.packet[2] = f.sess
SameKey(f, g) == f.dir = g.dir /\ Key(f) = Key(g)
WireOK(w) == /\ \A f \in w : FragOK(f) /\ Held(f.dir, f.sess, f.id, clock)
             /\ \A f, g \in w : SameKey(f, g) => f.packet = g.packet /\ f.count = g.count

\* The fragments of an entry are of one packet.
Pieces(e, packet) == \A g \in e.frags : g = <<g[1], packet>> /\ g[1] \in 0..e.count - 1
EntryOK(dir, key, e) ==
  /\ e = [count |-> e.count, frags |-> e.frags, at |-> e.at]
  /\ e.count \in Nat /\ e.at \in Nat /\ e.at <= clock
  /\ Held(dir, key[1], key[2], e.at)
  /\ \A f \in wire : f.dir = dir /\ Key(f) = key =>
       clock - e.at > ReassemblyTtl \/ (e.at = clock /\ Pieces(e, f.packet))
TableOK(dir, table) == /\ table = [tab |-> table.tab, pruned |-> table.pruned]
                       /\ \A key \in DOMAIN table.tab : EntryOK(dir, key, table.tab[key])
\* Once the connection is lost nothing is sent or received on it again.
HyInv == /\ clock \in Nat /\ HandedWhole
         /\ quic # "lost" => /\ ClientOK(hyClient) /\ ServerOK(hyServer) /\ WireOK(wire)
                             /\ TableOK("down", hyClient.table) /\ TableOK("up", hyServer.table)

\* Of a session of this net the server has seen one address only.
Addressed(a, w, addr) == /\ \A f \in w : f.dir = "up" => f.to = a
                         /\ \A s \in DOMAIN addr : addr[s] = a
OneAddress == quic # "lost" => \E a : hyClient.addrs = {a} /\ Addressed(a, wire, hyServer.addr)

\* As many pieces of one packet as it has are all of it.
LEMMA AllPieces ==
  ASSUME NEW e, NEW packet, Pieces(e, packet), e.count \in Nat, Cardinality(e.frags) = e.count
  PROVE  e.frags = {<<i, packet>> : i \in 0..e.count - 1}
<1> DEFINE n == e.count
           whole == {<<i, packet>> : i \in 0..n - 1}
           g == [i \in 0..n - 1 |-> <<i, packet>>]
<1>1. e.frags \subseteq whole
  BY DEF Pieces
<1>2. IsFiniteSet(0..n - 1) /\ Cardinality(0..n - 1) = n
  <2>1. 0 \in Int /\ n - 1 \in Int
    OBVIOUS
  <2>2. IsFiniteSet(0..n - 1) /\ Cardinality(0..n - 1) = IF 0 > n - 1 THEN 0 ELSE (n - 1) - 0 + 1
    BY <2>1, FS_Interval
  <2> QED
    BY <2>2
<1>3. g \in Bijection(0..n - 1, whole)
  BY DEF Bijection, Injection, Surjection, IsInjective
<1>4. IsFiniteSet(whole) /\ Cardinality(whole) = n
  <2> HIDE DEF g, whole
  <2> QED
    BY <1>2, <1>3, FS_Bijection DEF ExistsBijection
<1>5. e.frags = whole
  <2> HIDE DEF whole
  <2> QED
    BY <1>1, <1>4, FS_Subset
<1> QED
  BY <1>5

\* prune_reassembly only takes entries away.
LEMMA PrunedTable ==
  ASSUME NEW dir, NEW table, TableOK(dir, table) PROVE TableOK(dir, Prune(table))
<1>1. CASE Prune(table) = table
  BY <1>1
<1>2. CASE Prune(table) # table
  <2> DEFINE keep == {k \in DOMAIN table.tab : clock - table.tab[k].at <= ReassemblyTtl}
             kept == Restrict(table.tab, keep)
             new == IF Cardinality(DOMAIN kept) > MaxEntries THEN <<>> ELSE kept
  <2>1. Prune(table) = [tab |-> new, pruned |-> clock]
    BY <1>2 DEF Prune
  <2>2. DOMAIN kept = keep /\ \A k \in keep : kept[k] = table.tab[k]
    BY DEF Restrict
  <2>3. \A k \in DOMAIN new : k \in DOMAIN table.tab /\ new[k] = table.tab[k]
    <3>1. DOMAIN <<>> = {}
      OBVIOUS
    <3> HIDE DEF kept
    <3> QED
      BY <2>2, <3>1
  <2> HIDE DEF new
  <2> QED
    BY <2>1, <2>3 DEF TableOK
<1> QED
  BY <1>1, <1>2

\* What a table becomes, and hands on, when fragment f arrives.
LEMMA Arrives ==
  ASSUME HyInv, quic # "lost", NEW f \in wire, NEW table, TableOK(f.dir, table)
  PROVE  /\ Complete(table, f) # {} => Complete(table, f) = {<<i, f.packet>> : i \in 0..f.count - 1}
         /\ Received(table, f) = [tab |-> Received(table, f).tab, pruned |-> table.pruned]
         /\ \A key \in DOMAIN Received(table, f).tab : EntryOK(f.dir, key, Received(table, f).tab[key])
<1> DEFINE e == Partial(table, f)
           a == Assembled(e, f)
           k == Key(f)
<1>1. FragOK(f) /\ Held(f.dir, f.sess, f.id, clock) /\ clock \in Nat /\ ReassemblyTtl \in Nat
  BY HysteriaAssumption DEF HyInv, WireOK
<1>2. \A key \in DOMAIN table.tab : EntryOK(f.dir, key, table.tab[key])
  BY DEF TableOK
<1>3. k[1] = f.sess /\ k[2] = f.id
  BY DEF Key
<1>4. \A g \in wire : g.dir = f.dir /\ Key(g) = k => g.packet = f.packet
  BY DEF HyInv, WireOK, SameKey
<1>5. EntryOK(f.dir, k, e)
  <2>1. CASE k \in DOMAIN table.tab
    BY <1>2, <2>1 DEF Partial
  <2>2. CASE k \notin DOMAIN table.tab
    <3>1. e = [count |-> f.count, frags |-> {}, at |-> clock]
      BY <2>2 DEF Partial
    <3>2. e.count = f.count /\ e.frags = {} /\ e.at = clock
      BY <3>1
    <3> HIDE DEF e, k
    <3> QED
      BY <1>1, <1>3, <3>1, <3>2 DEF EntryOK, Pieces, FragOK
  <2> QED
    BY <2>1, <2>2
<1> HIDE DEF e, k
<1>6. ASSUME ~Stale(e, f)
      PROVE  /\ EntryOK(f.dir, k, a) /\ Pieces(a, f.packet) /\ a.count = f.count
  <2>1. e.count = f.count /\ ~(clock - e.at > ReassemblyTtl) /\ e.count \in Nat
    BY <1>5, <1>6 DEF Stale, EntryOK
  <2>2. e.at = clock /\ Pieces(e, f.packet)
    BY <1>5, <2>1 DEF EntryOK, k
  <2>3. e = [count |-> e.count, frags |-> e.frags, at |-> e.at]
    BY <1>5 DEF EntryOK
  <2>4. CASE a = e
    BY <1>5, <2>1, <2>2, <2>4
  <2>5. CASE a # e
    <3>1. a = [count |-> e.count, frags |-> e.frags \cup {<<f.frag, f.packet>>}, at |-> e.at]
      BY <2>3, <2>5 DEF Assembled
    <3>2. a.count = e.count /\ a.at = e.at /\ a.frags = e.frags \cup {<<f.frag, f.packet>>}
      BY <3>1
    <3> HIDE DEF a
    <3>3. Pieces(a, f.packet)
      BY <1>1, <2>1, <2>2, <3>2 DEF Pieces, FragOK
    <3>4. EntryOK(f.dir, k, a)
      BY <1>4, <1>5, <2>2, <3>1, <3>2, <3>3 DEF EntryOK
    <3> QED
      BY <2>1, <3>2, <3>3, <3>4
  <2> QED
    BY <2>4, <2>5
<1> HIDE DEF a
<1>7. ASSUME Complete(table, f) # {} PROVE Complete(table, f) = {<<i, f.packet>> : i \in 0..f.count - 1}
  <2>1. CASE f.count <= 1
    <3>1. f.count = 1 /\ f.frag = 0 /\ 0..f.count - 1 = {0}
      BY <1>1, <2>1 DEF FragOK
    <3>2. Complete(table, f) = {<<f.frag, f.packet>>}
      BY <2>1 DEF Complete
    <3> QED
      BY <3>1, <3>2
  <2>2. CASE ~(f.count <= 1)
    <3>1. ~Stale(e, f) /\ Cardinality(a.frags) = f.count /\ Complete(table, f) = a.frags
      BY <1>7, <2>2 DEF Complete, a, e
    <3>2. Pieces(a, f.packet) /\ a.count = f.count /\ f.count \in Nat
      BY <1>1, <1>6, <3>1 DEF FragOK
    <3> QED
      BY <3>1, <3>2, AllPieces
  <2> QED
    BY <2>1, <2>2
<1>8. CASE Received(table, f) = table
  <2>1. table = [tab |-> table.tab, pruned |-> table.pruned]
    BY DEF TableOK
  <2> QED
    BY <1>2, <1>7, <1>8, <2>1
<1>9. CASE Received(table, f) # table /\ (Stale(e, f) \/ Complete(table, f) # {})
  <2> DEFINE tab == Restrict(table.tab, DOMAIN table.tab \ {k})
  <2>1. Received(table, f) = [table EXCEPT !.tab = tab]
    BY <1>9 DEF Received, e, k
  <2>2. Received(table, f) = [tab |-> tab, pruned |-> table.pruned]
    BY <2>1 DEF TableOK
  <2>3. \A key \in DOMAIN tab : key \in DOMAIN table.tab /\ tab[key] = table.tab[key]
    BY DEF Restrict
  <2> HIDE DEF tab
  <2> QED
    BY <1>2, <1>7, <2>2, <2>3
<1>10. CASE Received(table, f) # table /\ ~(Stale(e, f) \/ Complete(table, f) # {})
  <2> DEFINE tab == Insert(table.tab, k, a)
  <2>1. Received(table, f) = [table EXCEPT !.tab = tab]
    BY <1>10 DEF Received, e, k, a
  <2>2. Received(table, f) = [tab |-> tab, pruned |-> table.pruned]
    BY <2>1 DEF TableOK
  <2>3. /\ DOMAIN tab = DOMAIN table.tab \cup {k} /\ tab[k] = a
        /\ \A y \in DOMAIN table.tab : y # k => tab[y] = table.tab[y]
    BY DEF Insert
  <2> HIDE DEF tab
  <2> QED
    BY <1>2, <1>6, <1>7, <1>10, <2>2, <2>3
<1> QED
  BY <1>7, <1>8, <1>9, <1>10

\* No sender forgets an id it used lately.
HeldStays == \A dir, s, id : \A t \in 0..clock : Held(dir, s, id, t) => Held(dir, s, id, t)'

\* A step that sends nothing and keeps what is known of the ids.
LEMMA Shrinks ==
  ASSUME HyInv, quic # "lost", clock' = clock, wire' \subseteq wire, HeldStays
  PROVE  /\ WireOK(wire)' /\ \A dir, table : TableOK(dir, table) => TableOK(dir, table)'
<1>0. clock \in Nat /\ clock \in 0..clock
  BY DEF HyInv
<1>1. WireOK(wire)'
  <2>1. \A f \in wire : FragOK(f) /\ Held(f.dir, f.sess, f.id, clock)
    BY DEF HyInv, WireOK
  <2>2. \A f \in wire : Held(f.dir, f.sess, f.id, clock)'
    BY <1>0, <2>1 DEF HeldStays
  <2> QED
    BY <2>1, <2>2 DEF HyInv, WireOK, FragOK, SameKey, Key
<1>2. ASSUME NEW dir, NEW key, NEW e, EntryOK(dir, key, e) PROVE EntryOK(dir, key, e)'
  <2>1. Held(dir, key[1], key[2], e.at)'
    <3>1. e.at \in 0..clock /\ Held(dir, key[1], key[2], e.at)
      BY <1>0, <1>2 DEF EntryOK
    <3> QED
      BY <3>1 DEF HeldStays
  <2>2. \A f \in wire' : f.dir = dir /\ Key(f) = key =>
          clock - e.at > ReassemblyTtl \/ (e.at = clock /\ Pieces(e, f.packet))
    BY <1>2 DEF EntryOK
  <2> QED
    BY <1>2, <2>1, <2>2 DEF EntryOK, Key, Pieces
<1>3. ASSUME NEW dir, NEW table, TableOK(dir, table) PROVE TableOK(dir, table)'
  BY <1>2, <1>3 DEF TableOK
<1> QED
  BY <1>1, <1>3

\* In particular when neither table changes.
LEMMA Settles ==
  ASSUME HyInv, quic # "lost", clock' = clock, wire' \subseteq wire, HeldStays,
         hyClient'.table = hyClient.table, hyServer'.table = hyServer.table
  PROVE  WireOK(wire)' /\ TableOK("down", hyClient.table)' /\ TableOK("up", hyServer.table)'
<1>1. WireOK(wire)' /\ \A dir, table : TableOK(dir, table) => TableOK(dir, table)'
  BY Shrinks
<1>2. TableOK("down", hyClient.table) /\ TableOK("up", hyServer.table)
  BY DEF HyInv
<1>3. TableOK("down", hyClient.table)' /\ TableOK("up", hyServer.table)'
  BY <1>1, <1>2 DEF TableOK
<1> QED
  BY <1>1, <1>3

\* A step that sends a packet under an id that was not used for long.
LEMMA SendsPacket ==
  ASSUME HyInv, quic # "lost", clock' = clock, HeldStays,
         hyClient'.table = hyClient.table, hyServer'.table = hyServer.table,
         NEW dir \in {"up", "down"}, NEW s \in Nat, NEW id, NEW count \in Nat, NEW packet,
         packet[1] = dir, packet[2] = s, NEW to, wire' = wire \cup Cut(dir, to, s, id, count, packet),
         \A t \in 0..clock : Held(dir, s, id, t) => clock - t > ReassemblyTtl,
         Held(dir, s, id, clock)'
  PROVE  WireOK(wire)' /\ TableOK("down", hyClient.table)' /\ TableOK("up", hyServer.table)'
<1> DEFINE new == Cut(dir, to, s, id, count, packet)
<1>0. clock \in Nat /\ clock \in 0..clock /\ ReassemblyTtl \in Nat /\ ~(clock - clock > ReassemblyTtl)
  BY HysteriaAssumption DEF HyInv
<1>1. \A f \in new : /\ f.dir = dir /\ f.sess = s /\ f.id = id /\ f.count = count /\ f.packet = packet
                     /\ f.frag \in 0..count - 1 /\ Key(f) = <<s, id>>
  BY DEF Cut, Key
<1> HIDE DEF new
<1>2. \A f \in wire : FragOK(f) /\ Held(f.dir, f.sess, f.id, clock)
  BY DEF HyInv, WireOK
<1>3. \A f \in wire : ~(f.dir = dir /\ Key(f) = <<s, id>>)
  <2> SUFFICES ASSUME NEW f \in wire, f.dir = dir, Key(f) = <<s, id>> PROVE FALSE
    OBVIOUS
  <2>1. f.sess = s /\ f.id = id
    BY DEF Key
  <2>2. Held(dir, s, id, clock)
    BY <1>2, <2>1
  <2> QED
    BY <1>0, <2>2
<1>4. WireOK(wire)'
  <2>1. \A f \in wire : Held(f.dir, f.sess, f.id, clock)'
    BY <1>0, <1>2 DEF HeldStays
  <2>2. \A f \in new : FragOK(f) /\ Held(f.dir, f.sess, f.id, clock)'
    <3>1. \A f \in new : FragOK(f)
      BY <1>1 DEF FragOK
    <3>2. ASSUME NEW f \in new PROVE Held(f.dir, f.sess, f.id, clock)'
      <4>1. f.dir = dir /\ f.sess = s /\ f.id = id
        BY <1>1
      <4> QED
        BY <4>1
    <3> QED
      BY <3>1, <3>2
  <2>3. \A f \in wire' : FragOK(f) /\ Held(f.dir, f.sess, f.id, clock)'
    BY <1>2, <2>1, <2>2 DEF new
  <2>4. ASSUME NEW f \in wire', NEW g \in wire', SameKey(f, g)
        PROVE  f.packet = g.packet /\ f.count = g.count
    <3>1. f \in wire /\ g \in wire => f.packet = g.packet /\ f.count = g.count
      BY <2>4 DEF HyInv, WireOK
    <3>2. (f \in wire \/ f \in new) /\ (g \in wire \/ g \in new)
      BY DEF new
    <3> QED
      BY <1>1, <1>3, <2>4, <3>1, <3>2 DEF SameKey
  <2> QED
    BY <2>3, <2>4 DEF WireOK, FragOK, SameKey, Key
<1>5. ASSUME NEW d, NEW key, NEW e, EntryOK(d, key, e) PROVE EntryOK(d, key, e)'
  <2>0. e.at \in 0..clock /\ Held(d, key[1], key[2], e.at)
    BY <1>0, <1>5 DEF EntryOK
  <2>1. Held(d, key[1], key[2], e.at)'
    BY <2>0 DEF HeldStays
  <2>2. ASSUME NEW f \in wire', f.dir = d, Key(f) = key
        PROVE  clock - e.at > ReassemblyTtl \/ (e.at = clock /\ Pieces(e, f.packet))
    <3>1. CASE f \in wire
      BY <1>5, <2>2, <3>1 DEF EntryOK
    <3>2. CASE f \in new
      <4>1. d = dir /\ key[1] = s /\ key[2] = id
        BY <1>1, <2>2, <3>2
      <4> QED
        BY <2>0, <4>1
    <3> QED
      BY <3>1, <3>2 DEF new
  <2> QED
    BY <1>5, <2>1, <2>2 DEF EntryOK, Key, Pieces
<1>6. ASSUME NEW d, NEW table, TableOK(d, table) PROVE TableOK(d, table)'
  BY <1>5, <1>6 DEF TableOK
<1>7. TableOK("down", hyClient.table) /\ TableOK("up", hyServer.table)
  BY DEF HyInv
<1>8. TableOK("down", hyClient.table)' /\ TableOK("up", hyServer.table)'
  BY <1>6, <1>7 DEF TableOK
<1> QED
  BY <1>4, <1>8

\* Using the next id.
LEMMA UsesId ==
  ASSUME clock \in Nat, NEW ids \in IdsType
  PROVE  LET id == ids.next  new == Use(ids, id) IN
         /\ id \in Nat /\ new \in IdsType /\ DOMAIN new.used = DOMAIN ids.used \cup {id} /\ new.used[id] = clock
         /\ \A x \in DOMAIN ids.used : x # id => new.used[x] = ids.used[x]
         /\ \A x \in DOMAIN ids.used : ids.used[x] \in Nat
<1> DEFINE id == ids.next
           u == ids.used
           w == Insert(u, id, clock)
<1>1. id \in Nat /\ u \in UsedType
  BY DEF IdsType
<1>2. DOMAIN u \in SUBSET Nat /\ \A x \in DOMAIN u : u[x] \in Nat
  BY <1>1 DEF UsedType
<1>3. /\ DOMAIN w = DOMAIN u \cup {id} /\ w[id] = clock /\ \A x \in DOMAIN u : x # id => w[x] = u[x]
      /\ w \in [DOMAIN u \cup {id} -> Nat]
  BY <1>2 DEF Insert
<1>4. w \in UsedType
  BY <1>1, <1>2, <1>3 DEF UsedType
<1>5. (ids.next + 1) % PacketIds \in Nat
  BY <1>1, HysteriaAssumption
<1>6. Use(ids, id) = [used |-> w, next |-> (ids.next + 1) % PacketIds]
  BY DEF Use
<1> HIDE DEF w
<1>7. Use(ids, id) \in IdsType /\ Use(ids, id).used = w
  BY <1>4, <1>5, <1>6 DEF IdsType
<1> QED
  BY <1>1, <1>2, <1>3, <1>7

\* No ids are used yet.
LEMMA FreshIds == [used |-> <<>>, next |-> 0] \in IdsType /\ DOMAIN <<>> = {}
<1>1. <<>> \in [{} -> Nat] /\ {} \in SUBSET Nat
  OBVIOUS
<1>2. <<>> \in UsedType
  BY <1>1 DEF UsedType
<1> QED
  BY <1>2 DEF IdsType

\* A new session of the net.
LEMMA NewSession ==
  ASSUME clock \in Nat, NEW c, ClientOK(c), NEW t
  PROVE  LET n == NewUdpSession(c, t) IN
         /\ ClientOK(n) /\ t \in DOMAIN n.sess /\ n.table = c.table
         /\ \A s \in DOMAIN c.ids : s \in DOMAIN n.ids /\ n.ids[s] = c.ids[s]
         /\ n.ids[n.sess[t]].used = <<>> /\ n.sess[t] \notin DOMAIN c.ids
<1> DEFINE n == NewUdpSession(c, t)
           sess == Insert(c.sess, t, c.next)
           fresh == [used |-> <<>>, next |-> 0]
           ids == Insert(c.ids, c.next, fresh)
           res == c.resolving /\ t # "name"
           next == c.next + 1
<1>1. ClientShape(c) /\ c.next \in Nat /\ next \in Nat /\ c.next < next
  BY DEF ClientOK
<1>2. n = [c EXCEPT !.sess = sess, !.next = next, !.resolving = res, !.ids = ids]
  BY DEF NewUdpSession
<1>3. /\ DOMAIN sess = DOMAIN c.sess \cup {t} /\ sess[t] = c.next
      /\ \A x \in DOMAIN c.sess : x # t => sess[x] = c.sess[x]
  BY DEF Insert
<1>4. c.next \notin DOMAIN c.ids
  BY <1>1 DEF ClientOK
<1>5. /\ DOMAIN ids = DOMAIN c.ids \cup {c.next} /\ ids[c.next] = fresh
      /\ \A x \in DOMAIN c.ids : ids[x] = c.ids[x]
  BY <1>4 DEF Insert
<1> HIDE DEF sess, ids, res, next, n
<1>6. n = [sess |-> sess, resolving |-> res, next |-> next, ids |-> ids,
           target |-> c.target, addrs |-> c.addrs, sizes |-> c.sizes, left |-> c.left, table |-> c.table]
  BY <1>1, <1>2 DEF ClientShape
<1>7. /\ ClientShape(n) /\ n.sess = sess /\ n.next = next /\ n.ids = ids /\ n.table = c.table
  BY <1>6 DEF ClientShape
<1>8. fresh \in IdsType /\ fresh.used = <<>> /\ Past(fresh.used)
  BY FreshIds DEF Past
<1> HIDE DEF fresh
<1>9. ASSUME NEW s \in DOMAIN ids
      PROVE  s \in Nat /\ s < next /\ ids[s] \in IdsType /\ Past(ids[s].used)
  <2>1. CASE s = c.next
    BY <1>1, <1>5, <1>8, <2>1
  <2>2. CASE s \in DOMAIN c.ids
    <3>1. s \in Nat /\ s < c.next /\ c.ids[s] \in IdsType /\ Past(c.ids[s].used)
      BY <2>2 DEF ClientOK
    <3> QED
      BY <1>1, <1>5, <2>2, <3>1
  <2> QED
    BY <1>5, <2>1, <2>2
<1>10. \A x \in DOMAIN sess : sess[x] \in DOMAIN ids
  BY <1>3, <1>5 DEF ClientOK
<1>11. ClientOK(n)
  BY <1>1, <1>7, <1>9, <1>10 DEF ClientOK
<1> QED
  BY <1>3, <1>4, <1>5, <1>7, <1>8, <1>11 DEF n

\* hyServer and clock stay.
LEMMA ServerStays ==
  ASSUME ServerOK(hyServer), hyServer' = hyServer, clock' = clock PROVE ServerOK(hyServer)'
BY DEF ServerOK, ServerShape, TaskOK, LoopOK

\* hyClient and clock stay.
LEMMA ClientStays ==
  ASSUME ClientOK(hyClient), hyClient' = hyClient, clock' = clock PROVE ClientOK(hyClient)'
BY DEF ClientOK, ClientShape, Past

\* The net sends.
LEMMA SendInv ==
  ASSUME HyInv, NEW target \in Targets, NEW count \in 1..MaxFragments, Send(target, count)
  PROVE  HyInv'
<1> DEFINE c == IF target \in DOMAIN hyClient.sess THEN hyClient ELSE NewUdpSession(hyClient, target)
           s == c.sess[target]
           id == c.ids[s].next
           packet == <<"up", s, hyClient.left>>
           use == Use(c.ids[s], id)
           less == c.left - 1
<1>1. /\ quic = "up" /\ quic' = quic /\ hyServer' = hyServer /\ clock' = clock /\ handed' = {}
      /\ SlowEnough(c.ids[s].used, id)
      /\ hyClient' = [c EXCEPT !.left = less, !.ids[s] = use]
      /\ \E to \in hyClient.addrs : wire' = wire \cup Cut("up", to, s, id, count, packet)
  BY DEF Send
<1>2. clock \in Nat /\ ReassemblyTtl \in Nat /\ ClientOK(hyClient) /\ ServerOK(hyServer) /\ MaxFragments \in Nat
  BY <1>1, HysteriaAssumption DEF HyInv
<1>3. /\ ClientOK(c) /\ target \in DOMAIN c.sess /\ c.table = hyClient.table
      /\ \A x \in DOMAIN hyClient.ids : x \in DOMAIN c.ids /\ c.ids[x] = hyClient.ids[x]
      /\ s \in DOMAIN hyClient.ids \/ c.ids[s].used = <<>>
  <2>1. CASE target \in DOMAIN hyClient.sess
    <3>1. c = hyClient
      BY <2>1
    <3> HIDE DEF c
    <3> QED
      BY <1>2, <2>1, <3>1 DEF ClientOK
  <2>2. CASE target \notin DOMAIN hyClient.sess
    <3>1. c = NewUdpSession(hyClient, target)
      BY <2>2
    <3> HIDE DEF c
    <3> QED
      BY <1>2, <3>1, NewSession
  <2> QED
    BY <2>1, <2>2
<1> HIDE DEF c
<1>4. s \in DOMAIN c.ids /\ s \in Nat /\ c.ids[s] \in IdsType
  BY <1>3 DEF ClientOK
<1>5. /\ id \in Nat /\ use \in IdsType /\ DOMAIN use.used = DOMAIN c.ids[s].used \cup {id} /\ use.used[id] = clock
      /\ \A x \in DOMAIN c.ids[s].used : x # id => use.used[x] = c.ids[s].used[x]
      /\ \A x \in DOMAIN c.ids[s].used : c.ids[s].used[x] \in Nat
  BY <1>2, <1>4, UsesId
<1> HIDE DEF use, id, s, less
<1> DEFINE ids == [c.ids EXCEPT ![s] = use]
<1>6. /\ DOMAIN ids = DOMAIN c.ids /\ ids[s] = use /\ \A x \in DOMAIN c.ids : x # s => ids[x] = c.ids[x]
  BY <1>4
<1>7. hyClient' = [sess |-> c.sess, resolving |-> c.resolving, next |-> c.next, ids |-> ids,
                   target |-> c.target, addrs |-> c.addrs, sizes |-> c.sizes, left |-> less, table |-> c.table]
  <2>1. ClientShape(c)
    BY <1>3 DEF ClientOK
  <2> QED
    BY <1>1, <2>1 DEF ClientShape
<1> HIDE DEF ids
<1>8. /\ ClientShape(hyClient') /\ hyClient'.sess = c.sess /\ hyClient'.next = c.next /\ hyClient'.ids = ids
      /\ hyClient'.table = hyClient.table
  BY <1>3, <1>7 DEF ClientShape
<1>9. \A x \in DOMAIN use.used : use.used[x] <= clock
  <2>1. \A x \in DOMAIN c.ids[s].used : c.ids[s].used[x] <= clock
    BY <1>3, <1>4 DEF ClientOK, Past
  <2> QED
    BY <1>2, <1>5, <2>1
<1>10. ClientOK(hyClient)'
  <2>1. ASSUME NEW x \in DOMAIN ids
        PROVE  x \in Nat /\ x < c.next /\ ids[x] \in IdsType /\ \A y \in DOMAIN ids[x].used : ids[x].used[y] <= clock
    BY <1>3, <1>5, <1>6, <1>9 DEF ClientOK, Past
  <2> QED
    BY <1>1, <1>3, <1>6, <1>8, <2>1 DEF ClientOK, Past, ClientShape
<1>11. ASSUME NEW dir, NEW x, NEW y, NEW t \in 0..clock, Held(dir, x, y, t) PROVE Held(dir, x, y, t)'
  <2>1. CASE clock - t > ReassemblyTtl
    BY <1>1, <2>1 DEF Held
  <2>2. CASE dir = "down" /\ UsedDown(hyServer, x, y, t)
    BY <1>1, <2>2 DEF Held, UsedDown
  <2>3. CASE dir = "up" /\ UsedUp(hyClient, x, y, t)
    <3>1. x \in DOMAIN c.ids /\ y \in DOMAIN c.ids[x].used /\ t <= c.ids[x].used[y]
      BY <1>3, <2>3 DEF UsedUp
    <3>2. x \in DOMAIN ids /\ y \in DOMAIN ids[x].used /\ t <= ids[x].used[y]
      <4>1. CASE x # s
        BY <1>6, <3>1, <4>1
      <4>2. CASE x = s
        BY <1>2, <1>5, <1>6, <3>1, <4>2
      <4> QED
        BY <4>1, <4>2
    <3>3. UsedUp(hyClient', x, y, t)
      BY <1>8, <3>2 DEF UsedUp
    <3> QED
      BY <2>3, <3>3 DEF Held, UsedUp
  <2> QED
    BY <1>11, <2>1, <2>2, <2>3 DEF Held
<1>12. HeldStays
  BY <1>11 DEF HeldStays
<1>13. ASSUME NEW t \in 0..clock, Held("up", s, id, t) PROVE clock - t > ReassemblyTtl
  <2>1. CASE clock - t > ReassemblyTtl
    BY <2>1
  <2>2. CASE UsedUp(hyClient, s, id, t)
    <3>1. s \in DOMAIN hyClient.ids /\ id \in DOMAIN hyClient.ids[s].used /\ t <= hyClient.ids[s].used[id]
      BY <2>2 DEF UsedUp
    <3>2. c.ids[s] = hyClient.ids[s]
      BY <1>3, <3>1
    <3>3. clock - c.ids[s].used[id] > ReassemblyTtl /\ c.ids[s].used[id] \in Nat
      BY <1>1, <1>5, <3>1, <3>2 DEF SlowEnough
    <3> QED
      BY <1>2, <3>1, <3>2, <3>3
  <2> QED
    BY <1>13, <2>1, <2>2 DEF Held
<1>14. PICK m, j, pk : m \in Nat /\ j \in Nat /\ m = s /\ j = id /\ pk = packet
  BY <1>4, <1>5
<1>15. /\ \A t \in 0..clock : Held("up", m, j, t) => clock - t > ReassemblyTtl
       /\ pk[1] = "up" /\ pk[2] = m /\ count \in Nat
       /\ \E to \in hyClient.addrs : wire' = wire \cup Cut("up", to, m, j, count, pk)
  BY <1>1, <1>2, <1>13, <1>14
<1>16. WireOK(wire)' /\ TableOK("down", hyClient.table)' /\ TableOK("up", hyServer.table)'
  <2>1. UsedUp(hyClient', m, j, clock)
    BY <1>2, <1>4, <1>5, <1>6, <1>8, <1>14 DEF UsedUp
  <2>2. Held("up", m, j, clock)'
    BY <1>1, <2>1 DEF Held, UsedUp
  <2>3. hyServer'.table = hyServer.table /\ quic # "lost" /\ "up" \in {"up", "down"}
    BY <1>1
  <2> QED
    <3>1. m \in Nat /\ clock' = clock /\ hyClient'.table = hyClient.table
      BY <1>1, <1>8, <1>14
    <3> QED
      BY <1>12, <1>15, <2>2, <2>3, <3>1, SendsPacket
<1>17. ServerOK(hyServer)'
  BY <1>1, <1>2, ServerStays
<1>18. HandedWhole' /\ clock' \in Nat
  BY <1>1, <1>2 DEF HandedWhole
<1> QED
  BY <1>10, <1>16, <1>17, <1>18 DEF HyInv

\* A step of the server that sends nothing.
LEMMA ServerChange ==
  ASSUME HyInv, quic = "up", quic' = quic, hyClient' = hyClient, clock' = clock, wire' = wire, handed' = {},
         ServerOK(hyServer'), hyServer'.table = hyServer.table,
         \A s, id : \A t \in 0..clock :
           UsedDown(hyServer, s, id, t) => clock - t > ReassemblyTtl \/ UsedDown(hyServer', s, id, t)
  PROVE  HyInv'
<1>1. clock \in Nat /\ ClientOK(hyClient)
  BY DEF HyInv
<1>2. ASSUME NEW dir, NEW x, NEW y, NEW t \in 0..clock, Held(dir, x, y, t) PROVE Held(dir, x, y, t)'
  <2>1. CASE clock - t > ReassemblyTtl
    BY <2>1 DEF Held
  <2>2. CASE dir = "up" /\ UsedUp(hyClient, x, y, t)
    BY <2>2 DEF Held, UsedUp
  <2>3. CASE dir = "down" /\ UsedDown(hyServer, x, y, t)
    <3>1. clock - t > ReassemblyTtl \/ UsedDown(hyServer', x, y, t)
      BY <2>3
    <3> QED
      BY <2>3, <3>1 DEF Held, UsedDown
  <2> QED
    BY <1>2, <2>1, <2>2, <2>3 DEF Held
<1>3. HeldStays
  BY <1>2 DEF HeldStays
<1>4. quic # "lost" /\ wire' \subseteq wire /\ hyClient'.table = hyClient.table
  OBVIOUS
<1>5. WireOK(wire)' /\ TableOK("down", hyClient.table)' /\ TableOK("up", hyServer.table)'
  BY <1>3, <1>4, Settles
<1>6. ClientOK(hyClient)'
  BY <1>1, ClientStays
<1>7. ServerOK(hyServer)'
  BY DEF ServerOK, ServerShape, TaskOK, LoopOK
<1>8. HandedWhole' /\ clock' \in Nat
  BY <1>1 DEF HandedWhole
<1> QED
  BY <1>5, <1>6, <1>7, <1>8 DEF HyInv

\* The server with other tasks.
LEMMA OtherTasks ==
  ASSUME NEW v, ServerOK(v), NEW ts, \A k \in ts : TaskOK(k, Len(v.loops))
  PROVE  LET w == [v EXCEPT !.tasks = ts] IN
         ServerOK(w) /\ w.table = v.table /\ w.sess = v.sess /\ w.loops = v.loops
<1> DEFINE w == [v EXCEPT !.tasks = ts]
<1>1. w = [sess |-> v.sess, addr |-> v.addr, tasks |-> ts, loops |-> v.loops, left |-> v.left, table |-> v.table]
  BY DEF ServerOK, ServerShape
<1> HIDE DEF w
<1>2. ServerShape(w) /\ w.sess = v.sess /\ w.tasks = ts /\ w.loops = v.loops /\ w.table = v.table
  BY <1>1 DEF ServerShape
<1>3. ServerOK(w)
  BY <1>2 DEF ServerOK
<1> QED
  BY <1>2, <1>3 DEF w

\* The server with loop i of it changed, and what does not matter here.
LEMMA OtherLoop ==
  ASSUME NEW v, ServerOK(v), NEW i \in 1..Len(v.loops), NEW l \in LoopType, LoopOK(l),
         l.sess = v.loops[i].sess, l.state # "gone" => v.loops[i].state # "gone",
         NEW ts, \A k \in ts : TaskOK(k, Len(v.loops)), NEW addr, NEW left
  PROVE  LET w == [sess |-> v.sess, addr |-> addr, tasks |-> ts, loops |-> [v.loops EXCEPT ![i] = l],
                   left |-> left, table |-> v.table]
         IN  ServerOK(w)
<1> DEFINE loops == [v.loops EXCEPT ![i] = l]
           w == [sess |-> v.sess, addr |-> addr, tasks |-> ts, loops |-> loops, left |-> left, table |-> v.table]
<1>1. v.loops \in Seq(LoopType) /\ Len(v.loops) \in Nat
  BY DEF ServerOK
<1>2. /\ loops \in Seq(LoopType) /\ Len(loops) = Len(v.loops) /\ loops[i] = l
      /\ \A j \in 1..Len(v.loops) : j # i => loops[j] = v.loops[j]
  BY <1>1
<1> HIDE DEF loops
<1>3. ServerShape(w) /\ w.sess = v.sess /\ w.tasks = ts /\ w.loops = loops
  BY DEF ServerShape
<1> HIDE DEF w
<1>4. \A j \in 1..Len(loops) : LoopOK(loops[j])
  BY <1>2 DEF ServerOK
<1>5. \A j \in 1..Len(loops) : loops[j].sess = v.loops[j].sess /\ (loops[j].state # "gone" => v.loops[j].state # "gone")
  BY <1>2
<1>6. \A j \in 1..Len(loops) : loops[j].state # "gone" =>
          loops[j].sess \in DOMAIN v.sess /\ v.sess[loops[j].sess] = j
  BY <1>2, <1>5 DEF ServerOK
<1>7. \A s \in DOMAIN v.sess : v.sess[s] \in 1..Len(loops) /\ loops[v.sess[s]].sess = s
  BY <1>2, <1>5 DEF ServerOK
<1>8. ServerOK(w)
  BY <1>2, <1>3, <1>4, <1>6, <1>7 DEF ServerOK
<1> QED
  BY <1>8 DEF w, loops

\* A step of the server's tasks and loops.
ServerStep(A) == A /\ quic = "up" /\ handed' = {} /\ UNCHANGED <<quic, stream, hyClient, wire, clock>>

\* A step that changes the tasks only.
LEMMA TasksStep ==
  ASSUME HyInv, NEW ts, \A k \in ts : TaskOK(k, Len(hyServer.loops)),
         ServerStep(hyServer' = [hyServer EXCEPT !.tasks = ts])
  PROVE  HyInv'
<1>1. ServerOK(hyServer) /\ quic = "up"
  BY DEF HyInv, ServerStep
<1>2. ServerOK(hyServer') /\ hyServer'.table = hyServer.table /\ hyServer'.sess = hyServer.sess /\ hyServer'.loops = hyServer.loops
  BY <1>1, OtherTasks DEF ServerStep
<1>3. \A s, id : \A t \in 0..clock : UsedDown(hyServer, s, id, t) => UsedDown(hyServer', s, id, t)
  BY <1>2 DEF UsedDown
<1> QED
  BY <1>2, <1>3, ServerChange DEF ServerStep

\* A step that changes loop i, and neither its session nor its ids.
LEMMA LoopStep ==
  ASSUME HyInv, NEW i \in 1..Len(hyServer.loops), NEW l \in LoopType, LoopOK(l),
         l.sess = hyServer.loops[i].sess, l.ids = hyServer.loops[i].ids,
         l.state # "gone" => hyServer.loops[i].state # "gone",
         NEW ts, \A k \in ts : TaskOK(k, Len(hyServer.loops)),
         ServerStep(hyServer' = [hyServer EXCEPT !.tasks = ts, !.loops = [hyServer.loops EXCEPT ![i] = l]])
  PROVE  HyInv'
<1> DEFINE loops == [hyServer.loops EXCEPT ![i] = l]
<1>1. ServerOK(hyServer) /\ quic = "up"
  BY DEF HyInv, ServerStep
<1>2. hyServer' = [sess |-> hyServer.sess, addr |-> hyServer.addr, tasks |-> ts, loops |-> loops,
                   left |-> hyServer.left, table |-> hyServer.table]
  <2> HIDE DEF loops
  <2>1. hyServer' = [hyServer EXCEPT !.tasks = ts, !.loops = loops]
    BY DEF ServerStep, loops
  <2> QED
    BY <1>1, <2>1 DEF ServerOK, ServerShape
<1>3. ServerOK(hyServer')
  BY <1>1, <1>2, OtherLoop
<1>4. hyServer'.table = hyServer.table /\ hyServer'.sess = hyServer.sess /\ hyServer'.loops = loops
  BY <1>2
<1>5. /\ \A s \in DOMAIN hyServer.sess : hyServer.sess[s] \in 1..Len(hyServer.loops)
      /\ hyServer.loops \in Seq(LoopType)
  BY <1>1 DEF ServerOK
<1>6. \A j \in 1..Len(hyServer.loops) : loops[j].ids = hyServer.loops[j].ids
  BY <1>5
<1> HIDE DEF loops
<1>7. \A s, id : \A t \in 0..clock : UsedDown(hyServer, s, id, t) => UsedDown(hyServer', s, id, t)
  BY <1>4, <1>5, <1>6 DEF UsedDown
<1> QED
  BY <1>3, <1>4, <1>7, ServerChange DEF ServerStep

\* A task that goes on.
LEMMA TaskStates ==
  ASSUME NEW n \in Nat, NEW k, TaskOK(k, n)
  PROVE  TaskOK([k EXCEPT !.pc = "bind"], n) /\ \A i \in 1..n : TaskOK([k EXCEPT !.pc = "send", !.loop = i], n)
<1>1. k = [sess |-> k.sess, packet |-> k.packet, pc |-> k.pc, loop |-> k.loop] /\ k.sess \in Nat
  BY DEF TaskOK
<1>2. [k EXCEPT !.pc = "bind"] = [sess |-> k.sess, packet |-> k.packet, pc |-> "bind", loop |-> k.loop]
  BY <1>1
<1>3. ASSUME NEW i
      PROVE  [k EXCEPT !.pc = "send", !.loop = i] = [sess |-> k.sess, packet |-> k.packet, pc |-> "send", loop |-> i]
  <2> DEFINE b == [k EXCEPT !.pc = "send"]
  <2>1. b = [sess |-> k.sess, packet |-> k.packet, pc |-> "send", loop |-> k.loop]
    BY <1>1
  <2>2. [b EXCEPT !.loop = i] = [sess |-> k.sess, packet |-> k.packet, pc |-> "send", loop |-> i]
    <3> HIDE DEF b
    <3> QED
      BY <2>1
  <2> QED
    BY <2>2
<1> QED
  BY <1>1, <1>2, <1>3 DEF TaskOK

\* The steps of a send task that make no loop.
LEMMA TaskInv ==
  ASSUME HyInv, NEW k \in hyServer.tasks,
         \/ ServerStep(TaskLooks(k)) \/ ServerStep(TaskBindFails(k)) \/ ServerStep(TaskSends(k))
         \/ ServerStep(TaskBinds(k)) /\ k.sess \in DOMAIN hyServer.sess
  PROVE  HyInv'
<1> DEFINE n == Len(hyServer.loops)
           rest == hyServer.tasks \ {k}
<1>1. quic = "up" /\ ServerOK(hyServer) /\ clock \in Nat
  BY DEF HyInv, ServerStep
<1>2. /\ \A x \in hyServer.tasks : TaskOK(x, n)
      /\ n \in Nat /\ hyServer.loops \in Seq(LoopType)
      /\ \A s \in DOMAIN hyServer.sess : hyServer.sess[s] \in 1..n
  BY <1>1 DEF ServerOK
<1>3. TaskOK([k EXCEPT !.pc = "bind"], n) /\ \A i \in 1..n : TaskOK([k EXCEPT !.pc = "send", !.loop = i], n)
  BY <1>2, TaskStates
<1>4. CASE ServerStep(TaskBindFails(k))
  <2>1. ServerStep(hyServer' = [hyServer EXCEPT !.tasks = rest])
    BY <1>4 DEF ServerStep, TaskBindFails
  <2>2. PICK ts : ts = rest
    OBVIOUS
  <2>3. \A x \in ts : TaskOK(x, Len(hyServer.loops))
    BY <1>2, <2>2
  <2>4. ServerStep(hyServer' = [hyServer EXCEPT !.tasks = ts])
    BY <2>1, <2>2 DEF ServerStep
  <2> QED
    BY <2>3, <2>4, TasksStep
<1>5. CASE ServerStep(TaskLooks(k))
  <2> DEFINE more == IF k.sess \in DOMAIN hyServer.sess
                       THEN {[k EXCEPT !.pc = "send", !.loop = hyServer.sess[k.sess]]}
                     ELSE IF k.sess \in DOMAIN hyServer.addr THEN {[k EXCEPT !.pc = "bind"]}
                     ELSE {}
  <2>1. PICK ts : ts = rest \cup more
    OBVIOUS
  <2>2. \A x \in more : TaskOK(x, n)
    BY <1>2, <1>3
  <2>3. \A x \in ts : TaskOK(x, Len(hyServer.loops))
    BY <1>2, <2>1, <2>2
  <2>4. ServerStep(hyServer' = [hyServer EXCEPT !.tasks = ts])
    BY <1>5, <2>1 DEF ServerStep, TaskLooks
  <2> QED
    BY <2>3, <2>4, TasksStep
<1>6. CASE ServerStep(TaskBinds(k)) /\ k.sess \in DOMAIN hyServer.sess
  <2>1. PICK ts : ts = rest \cup {[k EXCEPT !.pc = "send", !.loop = hyServer.sess[k.sess]]}
    OBVIOUS
  <2>2. \A x \in ts : TaskOK(x, Len(hyServer.loops))
    BY <1>2, <1>3, <1>6, <2>1
  <2>3. ServerStep(hyServer' = [hyServer EXCEPT !.tasks = ts])
    BY <1>6, <2>1 DEF ServerStep, TaskBinds, Install
  <2> QED
    BY <2>2, <2>3, TasksStep
<1>7. CASE ServerStep(TaskSends(k))
  <2>1. k.loop \in 1..n
    BY <1>2, <1>7 DEF ServerStep, TaskSends, TaskOK
  <2> DEFINE o == hyServer.loops[k.loop]
             at == IF o.state = "runs" THEN clock ELSE o.last
             lp == [o EXCEPT !.last = at]
  <2>2. o \in LoopType /\ LoopOK(o)
    BY <1>1, <1>2, <2>1 DEF ServerOK
  <2>3. at \in Nat /\ at <= clock /\ o.last <= at /\ (o.state = "leaves" => at = o.last)
    BY <1>1, <2>2 DEF LoopType, LoopOK
  <2> HIDE DEF at
  <2>4. lp \in LoopType /\ lp.sess = o.sess /\ lp.state = o.state /\ lp.last = at /\ lp.ids = o.ids
    BY <2>2, <2>3 DEF LoopType
  <2>5. LoopOK(lp)
    <3>1. o.last \in Nat /\ o.ids \in IdsType
      BY <2>2 DEF LoopType
    <3>2. \A id \in DOMAIN o.ids.used : o.ids.used[id] \in Nat
      BY <1>1, <3>1, UsesId
    <3> HIDE DEF lp, o
    <3> QED
      BY <1>1, <2>2, <2>3, <2>4, <3>1, <3>2 DEF LoopOK
  <2>6. PICK i, l, ts : i = k.loop /\ l = lp /\ ts = rest
    OBVIOUS
  <2>7. hyServer' = [hyServer EXCEPT !.tasks = rest, !.loops = [hyServer.loops EXCEPT ![k.loop] = lp]]
    <3>1. hyServer' = [hyServer EXCEPT !.tasks = rest, !.loops[k.loop].last = at]
      BY <1>7, <2>1 DEF ServerStep, TaskSends, at
    <3>2. ServerShape(hyServer)
      BY <1>1 DEF ServerOK
    <3> QED
      BY <3>1, <3>2 DEF ServerShape
  <2>8. ServerStep(hyServer' = [hyServer EXCEPT !.tasks = ts, !.loops = [hyServer.loops EXCEPT ![i] = l]])
    BY <1>7, <2>6, <2>7 DEF ServerStep
  <2>9. /\ i \in 1..Len(hyServer.loops) /\ l \in LoopType /\ LoopOK(l)
        /\ l.sess = hyServer.loops[i].sess /\ l.ids = hyServer.loops[i].ids /\ l.state = hyServer.loops[i].state
        /\ \A x \in ts : TaskOK(x, Len(hyServer.loops))
    <3> HIDE DEF lp
    <3> QED
      BY <1>2, <2>1, <2>4, <2>5, <2>6
  <2> QED
    BY <2>8, <2>9, LoopStep
<1> QED
  BY <1>4, <1>5, <1>6, <1>7

\* The first task of a session to bind makes its loop.
LEMMA BindInv ==
  ASSUME HyInv, NEW k \in hyServer.tasks, ServerStep(TaskBinds(k)), k.sess \notin DOMAIN hyServer.sess
  PROVE  HyInv'
<1> DEFINE v == hyServer
           n == Len(v.loops)
           i == n + 1
           ts == (v.tasks \ {k}) \cup {[k EXCEPT !.pc = "send", !.loop = i]}
           new == NewLoop(k.sess)
           loops == Append(v.loops, new)
           sess == Insert(v.sess, k.sess, i)
<1>1. quic = "up" /\ ServerOK(v) /\ clock \in Nat
  BY DEF HyInv, ServerStep
<1>2. /\ \A x \in v.tasks : TaskOK(x, n)
      /\ n \in Nat /\ i \in Nat /\ i \in 1..i /\ v.loops \in Seq(LoopType) /\ ServerShape(v)
      /\ \A s \in DOMAIN v.sess : v.sess[s] \in 1..n /\ v.loops[v.sess[s]].sess = s
      /\ k.sess \in Nat
  BY <1>1 DEF ServerOK, TaskOK
<1>3. hyServer' = [v EXCEPT !.tasks = ts, !.loops = loops, !.sess = sess]
  BY DEF ServerStep, TaskBinds, Install, InstallAlways
<1>4. \A x \in ts : TaskOK(x, i)
  <2>1. ASSUME NEW x, TaskOK(x, n) PROVE TaskOK(x, i)
    BY <1>2, <2>1 DEF TaskOK
  <2>2. TaskOK([k EXCEPT !.pc = "send", !.loop = i], i)
    BY <1>2, <2>1, TaskStates
  <2> QED
    BY <1>2, <2>1, <2>2
<1>5. new \in LoopType /\ new.sess = k.sess /\ new.state = "runs" /\ LoopOK(new)
  <2>1. new = [sess |-> k.sess, state |-> "runs", last |-> clock, ids |-> [used |-> <<>>, next |-> 0]]
    BY DEF NewLoop
  <2>2. new \in LoopType
    BY <1>1, <1>2, <2>1, FreshIds DEF LoopType
  <2>3. new.sess = k.sess /\ new.state = "runs" /\ new.last = clock /\ new.ids.used = <<>>
    BY <2>1
  <2> HIDE DEF new
  <2> QED
    BY <1>1, <2>2, <2>3, FreshIds DEF LoopOK
<1>6. /\ loops \in Seq(LoopType) /\ Len(loops) = i /\ loops[i] = new /\ \A j \in 1..n : loops[j] = v.loops[j]
  <2> HIDE DEF new
  <2> QED
    BY <1>2, <1>5
<1>7. /\ DOMAIN sess = DOMAIN v.sess \cup {k.sess} /\ sess[k.sess] = i
      /\ \A s \in DOMAIN v.sess : sess[s] = v.sess[s]
  BY DEF Insert
<1> HIDE DEF i, ts, new, loops, sess
<1>8. hyServer' = [sess |-> sess, addr |-> v.addr, tasks |-> ts, loops |-> loops, left |-> v.left, table |-> v.table]
  BY <1>2, <1>3 DEF ServerShape
<1>9. /\ ServerShape(hyServer') /\ hyServer'.sess = sess /\ hyServer'.tasks = ts /\ hyServer'.loops = loops
      /\ hyServer'.table = v.table
  BY <1>8 DEF ServerShape
<1>10. \A j \in 1..i : j = i \/ j \in 1..n
  BY <1>2 DEF i
<1>11. ServerOK(hyServer')
  <2>1. \A j \in 1..i : LoopOK(loops[j])
    BY <1>1, <1>5, <1>6, <1>10 DEF ServerOK
  <2>2. ASSUME NEW j \in 1..i, loops[j].state # "gone" PROVE loops[j].sess \in DOMAIN sess /\ sess[loops[j].sess] = j
    <3>1. CASE j = i
      BY <1>5, <1>6, <1>7, <3>1
    <3>2. CASE j \in 1..n
      <4>1. v.loops[j].sess \in DOMAIN v.sess /\ v.sess[v.loops[j].sess] = j
        BY <1>1, <1>6, <2>2, <3>2 DEF ServerOK
      <4> QED
        BY <1>6, <1>7, <3>2, <4>1
    <3> QED
      BY <1>10, <3>1, <3>2
  <2>3. ASSUME NEW s \in DOMAIN sess PROVE sess[s] \in 1..i /\ loops[sess[s]].sess = s
    <3>1. CASE s = k.sess
      BY <1>2, <1>5, <1>6, <1>7, <3>1
    <3>2. CASE s \in DOMAIN v.sess
      BY <1>2, <1>6, <1>7, <3>2 DEF i
    <3> QED
      BY <1>7, <3>1, <3>2
  <2> QED
    BY <1>4, <1>6, <1>9, <2>1, <2>2, <2>3 DEF ServerOK
<1>12. \A s, id : \A t \in 0..clock : UsedDown(hyServer, s, id, t) => UsedDown(hyServer', s, id, t)
  BY <1>2, <1>6, <1>7, <1>9 DEF UsedDown
<1> QED
  BY <1>9, <1>11, <1>12, ServerChange DEF ServerStep

\* A loop fails, or is idle.
LEMMA LoopInv ==
  ASSUME HyInv, NEW i \in DOMAIN hyServer.loops, ServerStep(LoopFails(i)) \/ ServerStep(LoopIdle(i))
  PROVE  HyInv'
<1> DEFINE o == hyServer.loops[i]
<1>1. quic = "up" /\ ServerOK(hyServer) /\ clock \in Nat /\ Idle \in Nat
  BY HysteriaAssumption DEF HyInv, ServerStep
<1>2. /\ \A x \in hyServer.tasks : TaskOK(x, Len(hyServer.loops))
      /\ hyServer.loops \in Seq(LoopType) /\ ServerShape(hyServer)
      /\ o \in LoopType /\ LoopOK(o) /\ i \in 1..Len(hyServer.loops)
  BY <1>1 DEF ServerOK
<1>3. PICK state : /\ state \in {"leaves", "gone"} /\ o.state = "runs"
                   /\ hyServer' = [hyServer EXCEPT !.loops[i].state = state]
                   /\ state = "leaves" => clock - o.last >= Idle
  BY DEF ServerStep, LoopFails, LoopIdle
<1> DEFINE lp == [o EXCEPT !.state = state]
<1>4. lp \in LoopType /\ lp.sess = o.sess /\ lp.state = state /\ lp.last = o.last /\ lp.ids = o.ids
  BY <1>2, <1>3 DEF LoopType
<1>5. LoopOK(lp)
  <2> HIDE DEF lp
  <2> QED
    BY <1>2, <1>3, <1>4 DEF LoopOK
<1>6. PICK l, ts : l = lp /\ ts = hyServer.tasks
  OBVIOUS
<1>7. hyServer' = [hyServer EXCEPT !.tasks = hyServer.tasks, !.loops = [hyServer.loops EXCEPT ![i] = lp]]
  BY <1>2, <1>3 DEF ServerShape
<1>8. ServerStep(hyServer' = [hyServer EXCEPT !.tasks = ts, !.loops = [hyServer.loops EXCEPT ![i] = l]])
  BY <1>6, <1>7 DEF ServerStep
<1>9. /\ i \in 1..Len(hyServer.loops) /\ l \in LoopType /\ LoopOK(l)
      /\ l.sess = hyServer.loops[i].sess /\ l.ids = hyServer.loops[i].ids /\ hyServer.loops[i].state # "gone"
      /\ \A x \in ts : TaskOK(x, Len(hyServer.loops))
  <2> HIDE DEF lp
  <2> QED
    BY <1>2, <1>3, <1>4, <1>5, <1>6
<1> QED
  BY <1>8, <1>9, LoopStep

\* A loop that was idle forgets its session's packet ids: none of them was used lately.
LEMMA IdleLeavesInv ==
  ASSUME HyInv, NEW i \in DOMAIN hyServer.loops, ServerStep(LoopLeaves(i))
  PROVE  HyInv'
<1> DEFINE v == hyServer
           o == v.loops[i]
           left == o.sess
           lp == [o EXCEPT !.state = "gone"]
           loops == [v.loops EXCEPT ![i] = lp]
           sess == Restrict(v.sess, DOMAIN v.sess \ {left})
           addr == Restrict(v.addr, DOMAIN v.addr \ {left})
<1>1. /\ quic = "up" /\ ServerOK(v) /\ clock \in Nat /\ Idle \in Nat /\ ReassemblyTtl \in Nat
      /\ Idle > ReassemblyTtl
  BY HysteriaAssumption DEF HyInv, ServerStep
<1>2. /\ \A x \in v.tasks : TaskOK(x, Len(v.loops))
      /\ v.loops \in Seq(LoopType) /\ ServerShape(v) /\ Len(v.loops) \in Nat
      /\ o \in LoopType /\ LoopOK(o) /\ i \in 1..Len(v.loops)
      /\ \A s \in DOMAIN v.sess : v.sess[s] \in 1..Len(v.loops) /\ v.loops[v.sess[s]].sess = s
  BY <1>1 DEF ServerOK
<1>3. o.state = "leaves" /\ v.sess[left] = i
  BY <1>1, <1>2 DEF ServerStep, LoopLeaves, ServerOK
<1>4. hyServer' = [v EXCEPT !.loops = loops, !.sess = sess, !.addr = addr]
  <2>1. hyServer' = [v EXCEPT !.loops[i].state = "gone", !.sess = sess, !.addr = addr]
    BY DEF ServerStep, LoopLeaves
  <2> QED
    BY <1>2, <2>1 DEF ServerShape
<1>5. lp \in LoopType /\ lp.sess = o.sess /\ lp.state = "gone" /\ lp.last = o.last /\ lp.ids = o.ids
  BY <1>2 DEF LoopType
<1>6. LoopOK(lp)
  <2> HIDE DEF lp
  <2> QED
    BY <1>2, <1>5 DEF LoopOK
<1> HIDE DEF lp
<1>7. /\ loops \in Seq(LoopType) /\ Len(loops) = Len(v.loops) /\ loops[i] = lp
      /\ \A j \in 1..Len(v.loops) : j # i => loops[j] = v.loops[j]
  BY <1>2, <1>5
<1>8. DOMAIN sess = DOMAIN v.sess \ {left} /\ \A s \in DOMAIN sess : sess[s] = v.sess[s]
  BY DEF Restrict
<1> HIDE DEF loops, sess, addr
<1>9. hyServer' = [sess |-> sess, addr |-> addr, tasks |-> v.tasks, loops |-> loops, left |-> v.left, table |-> v.table]
  BY <1>2, <1>4 DEF ServerShape
<1>10. /\ ServerShape(hyServer') /\ hyServer'.sess = sess /\ hyServer'.tasks = v.tasks /\ hyServer'.loops = loops
       /\ hyServer'.table = v.table
  BY <1>9 DEF ServerShape
<1>11. ServerOK(hyServer')
  <2>1. \A j \in 1..Len(loops) : LoopOK(loops[j])
    BY <1>1, <1>6, <1>7 DEF ServerOK
  <2>2. ASSUME NEW j \in 1..Len(loops), loops[j].state # "gone"
        PROVE  loops[j].sess \in DOMAIN sess /\ sess[loops[j].sess] = j
    <3>1. j # i /\ loops[j] = v.loops[j]
      BY <1>5, <1>7, <2>2
    <3>2. v.loops[j].sess \in DOMAIN v.sess /\ v.sess[v.loops[j].sess] = j
      BY <1>1, <1>7, <2>2, <3>1 DEF ServerOK
    <3> QED
      BY <1>3, <1>8, <3>1, <3>2
  <2>3. \A s \in DOMAIN sess : sess[s] \in 1..Len(loops) /\ loops[sess[s]].sess = s
    BY <1>2, <1>5, <1>7, <1>8
  <2> QED
    BY <1>2, <1>7, <1>10, <2>1, <2>2, <2>3 DEF ServerOK
<1>12. ASSUME NEW s, NEW id, NEW t \in 0..clock, UsedDown(hyServer, s, id, t)
       PROVE  clock - t > ReassemblyTtl \/ UsedDown(hyServer', s, id, t)
  <2>1. s \in DOMAIN v.sess /\ id \in DOMAIN v.loops[v.sess[s]].ids.used /\ t <= v.loops[v.sess[s]].ids.used[id]
    BY <1>12 DEF UsedDown
  <2>2. CASE s = left
    <3>1. t <= o.ids.used[id] /\ o.ids.used[id] <= o.last /\ clock - o.last >= Idle
      BY <1>2, <1>3, <2>1, <2>2 DEF LoopOK
    <3>2. o.last \in Nat /\ o.ids \in IdsType
      BY <1>2 DEF LoopType
    <3>3. o.ids.used[id] \in Nat
      BY <1>1, <1>3, <2>1, <2>2, <3>2, UsesId
    <3> HIDE DEF o
    <3> QED
      BY <1>1, <3>1, <3>2, <3>3
  <2>3. CASE s # left
    <3>1. s \in DOMAIN sess /\ sess[s] = v.sess[s] /\ v.sess[s] \in 1..Len(v.loops)
      BY <1>2, <1>8, <2>1, <2>3
    <3>2. loops[v.sess[s]].ids = v.loops[v.sess[s]].ids
      BY <1>5, <1>7, <3>1
    <3> QED
      BY <1>10, <2>1, <3>1, <3>2 DEF UsedDown
  <2> QED
    BY <2>2, <2>3
<1> QED
  BY <1>10, <1>11, <1>12, ServerChange DEF ServerStep

\* A loop sends a reply.
LEMMA ReplyInv ==
  ASSUME HyInv, NEW i \in DOMAIN hyServer.loops, NEW count \in 1..MaxFragments, LoopReplies(i, count),
         quic = "up", handed' = {}, UNCHANGED <<quic, stream, hyClient, clock>>
  PROVE  HyInv'
<1> DEFINE v == hyServer
           o == v.loops[i]
           s == o.sess
           id == o.ids.next
           use == Use(o.ids, id)
           packet == <<"down", s, v.left>>
           less == v.left - 1
           lp == [o EXCEPT !.last = clock, !.ids = use]
           loops == [v.loops EXCEPT ![i] = lp]
<1>1. /\ o.state = "runs" /\ SlowEnough(o.ids.used, id)
      /\ hyServer' = [v EXCEPT !.left = less, !.loops[i] = lp]
      /\ wire' = wire \cup Cut("down", "client", s, id, count, packet)
  BY DEF LoopReplies
<1>2. /\ clock \in Nat /\ ReassemblyTtl \in Nat /\ ClientOK(hyClient) /\ ServerOK(v) /\ MaxFragments \in Nat
      /\ quic' = quic /\ hyClient' = hyClient /\ clock' = clock
  BY HysteriaAssumption DEF HyInv
<1>3. /\ \A x \in v.tasks : TaskOK(x, Len(v.loops))
      /\ v.loops \in Seq(LoopType) /\ ServerShape(v) /\ Len(v.loops) \in Nat
      /\ o \in LoopType /\ LoopOK(o) /\ i \in 1..Len(v.loops)
      /\ \A x \in DOMAIN v.sess : v.sess[x] \in 1..Len(v.loops)
  BY <1>2 DEF ServerOK
<1>4. s \in DOMAIN v.sess /\ v.sess[s] = i
  BY <1>1, <1>2, <1>3 DEF ServerOK
<1>5. s \in Nat /\ o.ids \in IdsType /\ o.last \in Nat
  BY <1>3 DEF LoopType
<1>6. /\ id \in Nat /\ use \in IdsType /\ DOMAIN use.used = DOMAIN o.ids.used \cup {id} /\ use.used[id] = clock
      /\ \A x \in DOMAIN o.ids.used : x # id => use.used[x] = o.ids.used[x]
      /\ \A x \in DOMAIN o.ids.used : o.ids.used[x] \in Nat
  BY <1>2, <1>5, UsesId
<1> HIDE DEF use, id, less
<1>7. lp \in LoopType /\ lp.sess = s /\ lp.state = "runs" /\ lp.last = clock /\ lp.ids = use
  BY <1>1, <1>2, <1>3, <1>6 DEF LoopType
<1> HIDE DEF lp
<1>8. LoopOK(lp)
  <2>1. \A x \in DOMAIN o.ids.used : o.ids.used[x] <= clock
    BY <1>2, <1>3, <1>5, <1>6 DEF LoopOK
  <2> QED
    BY <1>2, <1>6, <1>7, <2>1 DEF LoopOK
<1>9. hyServer' = [sess |-> v.sess, addr |-> v.addr, tasks |-> v.tasks, loops |-> loops, left |-> less, table |-> v.table]
  BY <1>1, <1>3 DEF ServerShape
<1>10. ServerOK(hyServer')
  <2>1. lp.sess = v.loops[i].sess /\ v.loops[i].state # "gone" /\ lp \in LoopType
    BY <1>1, <1>7
  <2>2. ServerOK([sess |-> v.sess, addr |-> v.addr, tasks |-> v.tasks, loops |-> [v.loops EXCEPT ![i] = lp],
                  left |-> less, table |-> v.table])
    BY <1>2, <1>3, <1>8, <2>1, OtherLoop
  <2> QED
    BY <1>9, <2>2
<1>11. loops[i] = lp /\ \A j \in 1..Len(v.loops) : j # i => loops[j] = v.loops[j]
  BY <1>3
<1>12. hyServer'.sess = v.sess /\ hyServer'.loops = loops /\ hyServer'.table = v.table
  BY <1>9
<1> HIDE DEF loops
<1>13. ASSUME NEW dir, NEW x, NEW y, NEW t \in 0..clock, Held(dir, x, y, t) PROVE Held(dir, x, y, t)'
  <2>1. CASE clock - t > ReassemblyTtl
    BY <1>2, <2>1 DEF Held
  <2>2. CASE dir = "up" /\ UsedUp(hyClient, x, y, t)
    BY <1>2, <2>2 DEF Held, UsedUp
  <2>3. CASE dir = "down" /\ UsedDown(hyServer, x, y, t)
    <3>1. x \in DOMAIN v.sess /\ y \in DOMAIN v.loops[v.sess[x]].ids.used /\ t <= v.loops[v.sess[x]].ids.used[y]
      BY <2>3 DEF UsedDown
    <3>2. y \in DOMAIN loops[v.sess[x]].ids.used /\ t <= loops[v.sess[x]].ids.used[y]
      <4>1. CASE v.sess[x] # i
        BY <1>3, <1>11, <3>1, <4>1
      <4>2. CASE v.sess[x] = i
        <5>1. loops[v.sess[x]].ids = use
          BY <1>7, <1>11, <4>2
        <5>2. y \in DOMAIN o.ids.used /\ t <= o.ids.used[y]
          BY <3>1, <4>2
        <5> QED
          BY <1>2, <1>6, <5>1, <5>2
      <4> QED
        BY <4>1, <4>2
    <3>3. UsedDown(hyServer', x, y, t)
      BY <1>12, <3>1, <3>2 DEF UsedDown
    <3> QED
      BY <2>3, <3>3 DEF Held, UsedDown
  <2> QED
    BY <1>13, <2>1, <2>2, <2>3 DEF Held
<1>14. HeldStays
  BY <1>13 DEF HeldStays
<1>15. ASSUME NEW t \in 0..clock, Held("down", s, id, t) PROVE clock - t > ReassemblyTtl
  <2>1. CASE clock - t > ReassemblyTtl
    BY <2>1
  <2>2. CASE UsedDown(hyServer, s, id, t)
    <3>1. id \in DOMAIN o.ids.used /\ t <= o.ids.used[id]
      BY <1>4, <2>2 DEF UsedDown
    <3>2. clock - o.ids.used[id] > ReassemblyTtl /\ o.ids.used[id] \in Nat
      BY <1>1, <1>6, <3>1 DEF SlowEnough
    <3> QED
      BY <1>2, <3>1, <3>2
  <2> QED
    BY <1>15, <2>1, <2>2 DEF Held
<1>16. PICK m, j, pk : m \in Nat /\ j \in Nat /\ m = s /\ j = id /\ pk = packet
  BY <1>5, <1>6
<1>17. /\ \A t \in 0..clock : Held("down", m, j, t) => clock - t > ReassemblyTtl
       /\ pk[1] = "down" /\ pk[2] = m /\ count \in Nat /\ wire' = wire \cup Cut("down", "client", m, j, count, pk)
  BY <1>1, <1>2, <1>15, <1>16
<1>18. WireOK(wire)' /\ TableOK("down", hyClient.table)' /\ TableOK("up", hyServer.table)'
  <2>1. loops[v.sess[s]].ids = use
    BY <1>4, <1>7, <1>11
  <2>2. UsedDown(hyServer', m, j, clock)
    <3>1. m \in DOMAIN v.sess /\ loops[v.sess[m]].ids = use
      BY <1>4, <1>16, <2>1
    <3>2. j \in DOMAIN use.used /\ use.used[j] = clock /\ clock <= clock
      BY <1>2, <1>6, <1>16
    <3> QED
      BY <1>12, <3>1, <3>2 DEF UsedDown
  <2>3. Held("down", m, j, clock)'
    BY <1>2, <2>2 DEF Held, UsedDown
  <2>4. /\ hyClient'.table = hyClient.table /\ hyServer'.table = hyServer.table /\ quic # "lost"
        /\ "down" \in {"up", "down"} /\ m \in Nat /\ clock' = clock
    BY <1>2, <1>12, <1>16
  <2> QED
    BY <1>14, <1>17, <2>3, <2>4, SendsPacket
<1>19. ServerOK(hyServer)'
  BY <1>2, <1>10 DEF ServerOK, ServerShape, TaskOK, LoopOK
<1>20. HandedWhole' /\ clock' \in Nat /\ ClientOK(hyClient)'
  BY <1>2, ClientStays DEF HandedWhole
<1> QED
  BY <1>18, <1>19, <1>20 DEF HyInv

\* What is handed on when fragment f arrives at a table.
LEMMA HandsWhole ==
  ASSUME NEW f, FragOK(f), NEW frags, frags # {} => frags = {<<i, f.packet>> : i \in 0..f.count - 1},
         handed' = IF frags = {} THEN {} ELSE {Handed(f, frags)}
  PROVE  HandedWhole'
<1>1. CASE frags = {}
  BY <1>1 DEF HandedWhole
<1>2. CASE frags # {}
  <2> DEFINE h == Handed(f, frags)
  <2>1. handed' = {h}
    BY <1>2
  <2>2. h.frags = frags /\ h.sess = f.sess /\ h.dir = f.dir /\ h.count = f.count
    BY DEF Handed
  <2>3. PICK g \in frags : g[2] = f.packet
    BY <1>2
  <2>4. f.packet \in {x[2] : x \in h.frags}
    BY <2>2, <2>3
  <2>5. h.frags = {<<i, f.packet>> : i \in 0..h.count - 1} /\ f.packet[1] = h.dir /\ f.packet[2] = h.sess
    BY <1>2, <2>2 DEF FragOK
  <2> HIDE DEF h
  <2> QED
    BY <2>1, <2>4, <2>5 DEF HandedWhole
<1> QED
  BY <1>1, <1>2

\* The table of one end after fragment f arrived, whatever else the step did.
LEMMA TablesAfter ==
  ASSUME HyInv, quic # "lost", clock' = clock, HeldStays, NEW f \in wire, wire' = wire \ {f},
         NEW table, TableOK(f.dir, table),
         handed' = IF Complete(table, f) = {} THEN {} ELSE {Handed(f, Complete(table, f))}
  PROVE  /\ WireOK(wire)' /\ HandedWhole' /\ FragOK(f)
         /\ \E r : r = Received(table, f) /\ TableOK(f.dir, r)'
         /\ \A dir, x : TableOK(dir, x) => TableOK(dir, x)'
<1>1. /\ Complete(table, f) # {} => Complete(table, f) = {<<i, f.packet>> : i \in 0..f.count - 1}
      /\ Received(table, f) = [tab |-> Received(table, f).tab, pruned |-> table.pruned]
      /\ \A key \in DOMAIN Received(table, f).tab : EntryOK(f.dir, key, Received(table, f).tab[key])
  BY Arrives
<1>2. FragOK(f)
  BY DEF HyInv, WireOK
<1>3. HandedWhole'
  <2>1. PICK frags : frags = Complete(table, f)
    OBVIOUS
  <2> QED
    BY <1>1, <1>2, <2>1, HandsWhole
<1>4. PICK r : r = Received(table, f)
  OBVIOUS
<1>5. TableOK(f.dir, r)
  BY <1>1, <1>4 DEF TableOK
<1>6. WireOK(wire)' /\ \A dir, x : TableOK(dir, x) => TableOK(dir, x)'
  BY Shrinks
<1>7. TableOK(f.dir, r)'
  BY <1>5, <1>6
<1> QED
  BY <1>2, <1>3, <1>4, <1>6, <1>7

\* A fragment arrives at the net, or at the server.
LEMMA ClientReceivesInv ==
  ASSUME HyInv, NEW f \in wire, ClientReceives(f) PROVE HyInv'
<1>1. PICK table : table = Prune(hyClient.table)
  OBVIOUS
<1>2. /\ quic = "up" /\ f.dir = "down" /\ wire' = wire \ {f} /\ quic' = quic /\ hyServer' = hyServer /\ clock' = clock
      /\ hyClient' = [hyClient EXCEPT !.table = Received(table, f)]
      /\ handed' = IF Complete(table, f) = {} THEN {} ELSE {Handed(f, Complete(table, f))}
  BY <1>1 DEF ClientReceives
<1>3. /\ quic # "lost" /\ clock \in Nat /\ ClientOK(hyClient) /\ ServerOK(hyServer)
      /\ TableOK("down", hyClient.table) /\ TableOK("up", hyServer.table)
  BY <1>2 DEF HyInv
<1>4. TableOK(f.dir, table)
  BY <1>1, <1>2, <1>3, PrunedTable
<1>5. hyClient' = [sess |-> hyClient.sess, resolving |-> hyClient.resolving, next |-> hyClient.next,
                   ids |-> hyClient.ids, target |-> hyClient.target, addrs |-> hyClient.addrs, sizes |-> hyClient.sizes,
                   left |-> hyClient.left, table |-> Received(table, f)]
  BY <1>2, <1>3 DEF ClientOK, ClientShape
<1>6. /\ ClientShape(hyClient') /\ hyClient'.sess = hyClient.sess /\ hyClient'.next = hyClient.next
      /\ hyClient'.ids = hyClient.ids /\ hyClient'.table = Received(table, f)
  BY <1>5 DEF ClientShape
<1>7. HeldStays
  BY <1>2, <1>6 DEF HeldStays, Held, UsedUp, UsedDown
<1>8. /\ WireOK(wire)' /\ HandedWhole' /\ FragOK(f)
      /\ \E r : r = Received(table, f) /\ TableOK(f.dir, r)'
      /\ \A dir, x : TableOK(dir, x) => TableOK(dir, x)'
  BY <1>2, <1>3, <1>4, <1>7, TablesAfter
<1>9. TableOK("down", hyClient.table)' /\ TableOK("up", hyServer.table)'
  <2>1. TableOK("up", hyServer.table)'
    BY <1>2, <1>3, <1>8 DEF TableOK
  <2>2. PICK r : r = hyClient'.table /\ TableOK("down", r)'
    BY <1>2, <1>6, <1>8
  <2>3. TableOK("down", hyClient.table)'
    BY <2>2 DEF TableOK
  <2> QED
    BY <2>1, <2>3
<1>10. ClientOK(hyClient)' /\ ServerOK(hyServer)'
  <2>1. ClientOK(hyClient)'
    BY <1>2, <1>3, <1>6 DEF ClientOK, ClientShape, Past
  <2> QED
    BY <1>2, <1>3, <2>1, ServerStays
<1> QED
  BY <1>2, <1>3, <1>8, <1>9, <1>10 DEF HyInv

\* The server reassembles.
LEMMA ServerReceivesInv ==
  ASSUME HyInv, OneAddress, NEW f \in wire, ServerReceives(f) PROVE HyInv'
<1>1. PICK table : table = Prune(hyServer.table)
  OBVIOUS
<1> DEFINE v == hyServer
           ts == IF Complete(table, f) = {} THEN v.tasks ELSE v.tasks \cup {SendTask(f)}
           addr == Insert(v.addr, f.sess, f.to)
           moved == f.sess \in DOMAIN v.addr /\ v.addr[f.sess] # f.to
<1>2. /\ quic = "up" /\ f.dir = "up" /\ wire' = wire \ {f} /\ quic' = quic /\ hyClient' = hyClient /\ clock' = clock
      /\ hyServer' = [v EXCEPT !.table = Received(table, f), !.addr = addr, !.tasks = ts,
                               !.sess = IF moved THEN Restrict(v.sess, DOMAIN v.sess \ {f.sess}) ELSE v.sess]
      /\ handed' = IF Complete(table, f) = {} THEN {} ELSE {Handed(f, Complete(table, f))}
  BY <1>1 DEF ServerReceives
<1>3. /\ quic # "lost" /\ clock \in Nat /\ ClientOK(hyClient) /\ ServerOK(v)
      /\ TableOK("down", hyClient.table) /\ TableOK("up", v.table)
  BY <1>2 DEF HyInv
<1>4. TableOK(f.dir, table)
  BY <1>1, <1>2, <1>3, PrunedTable
<1>0. ~moved
  <2>1. PICK a : Addressed(a, wire, v.addr)
    BY <1>2 DEF OneAddress
  <2> QED
    BY <1>2, <2>1 DEF Addressed
<1> HIDE DEF ts, addr, moved
<1>5. hyServer' = [sess |-> v.sess, addr |-> addr, tasks |-> ts, loops |-> v.loops, left |-> v.left,
                   table |-> Received(table, f)]
  BY <1>0, <1>2, <1>3 DEF ServerOK, ServerShape
<1>6. /\ ServerShape(hyServer') /\ hyServer'.sess = v.sess /\ hyServer'.loops = v.loops /\ hyServer'.tasks = ts
      /\ hyServer'.table = Received(table, f)
  BY <1>5 DEF ServerShape
<1>7. HeldStays
  BY <1>2, <1>6 DEF HeldStays, Held, UsedUp, UsedDown
<1>8. /\ WireOK(wire)' /\ HandedWhole' /\ FragOK(f)
      /\ \E r : r = Received(table, f) /\ TableOK(f.dir, r)'
      /\ \A dir, x : TableOK(dir, x) => TableOK(dir, x)'
  BY <1>2, <1>3, <1>4, <1>7, TablesAfter
<1>9. TableOK("down", hyClient.table)' /\ TableOK("up", hyServer.table)'
  <2>1. TableOK("down", hyClient.table)'
    BY <1>2, <1>3, <1>8 DEF TableOK
  <2>2. PICK r : r = hyServer'.table /\ TableOK("up", r)'
    BY <1>2, <1>6, <1>8
  <2>3. TableOK("up", hyServer.table)'
    BY <2>2 DEF TableOK
  <2> QED
    BY <2>1, <2>3
<1>10. \A k \in ts : TaskOK(k, Len(v.loops))
  <2>1. TaskOK(SendTask(f), Len(v.loops))
    BY <1>8 DEF SendTask, TaskOK, FragOK
  <2> QED
    BY <1>3, <2>1 DEF ServerOK, ts
<1>11. ServerOK(hyServer')
  BY <1>3, <1>6, <1>10 DEF ServerOK
<1>12. ServerOK(hyServer)'
  <2>1. clock' = clock
    BY <1>2
  <2> QED
    BY <1>11, <2>1 DEF ServerOK, ServerShape, TaskOK, LoopOK
<1>13. ClientOK(hyClient)'
  BY <1>2, <1>3, ClientStays
<1> QED
  BY <1>2, <1>3, <1>8, <1>9, <1>12, <1>13 DEF HyInv

\* The two ends stay as they are; datagrams may be lost.
LEMMA QuietInv ==
  ASSUME HyInv, quic' # "lost" => quic # "lost", UNCHANGED <<hyClient, hyServer, clock>>, wire' \subseteq wire, handed' = {}
  PROVE  HyInv'
<1>1. clock' \in Nat /\ HandedWhole'
  BY DEF HyInv, HandedWhole
<1>2. ASSUME quic' # "lost"
      PROVE  /\ ClientOK(hyClient)' /\ ServerOK(hyServer)' /\ WireOK(wire)'
             /\ TableOK("down", hyClient.table)' /\ TableOK("up", hyServer.table)'
  <2>1. quic # "lost" /\ ClientOK(hyClient) /\ ServerOK(hyServer)
    BY <1>2 DEF HyInv
  <2>2. HeldStays
    BY DEF HeldStays, Held, UsedUp, UsedDown
  <2> QED
    BY <2>1, <2>2, Settles, ClientStays, ServerStays
<1> QED
  BY <1>1, <1>2 DEF HyInv

\* The lookup of a name begins, or fails.
LEMMA ResolveInv ==
  ASSUME HyInv, SendResolving \/ LookupFails PROVE HyInv'
<1>1. PICK res, left : hyClient' = [hyClient EXCEPT !.resolving = res, !.left = left]
  <2>1. CASE SendResolving
    <3>1. ClientShape(hyClient) /\ hyClient' = [hyClient EXCEPT !.resolving = TRUE]
      BY <2>1 DEF SendResolving, HyInv, ClientOK
    <3>2. hyClient' = [hyClient EXCEPT !.resolving = TRUE, !.left = hyClient.left]
      BY <3>1 DEF ClientShape
    <3> QED
      BY <3>2
  <2>2. CASE LookupFails
    BY <2>2 DEF LookupFails
  <2> QED
    BY <2>1, <2>2
<1>2. quic = "up" /\ UNCHANGED <<quic, stream, hyServer, wire, clock>> /\ handed' = {}
  BY DEF SendResolving, LookupFails
<1>3. quic # "lost" /\ clock \in Nat /\ ClientOK(hyClient) /\ ServerOK(hyServer)
  BY <1>2 DEF HyInv
<1>4. hyClient' = [sess |-> hyClient.sess, resolving |-> res, next |-> hyClient.next,
                   ids |-> hyClient.ids, target |-> hyClient.target, addrs |-> hyClient.addrs, sizes |-> hyClient.sizes,
                   left |-> left, table |-> hyClient.table]
  BY <1>1, <1>3 DEF ClientOK, ClientShape
<1>5. /\ ClientShape(hyClient') /\ hyClient'.sess = hyClient.sess /\ hyClient'.next = hyClient.next
      /\ hyClient'.ids = hyClient.ids /\ hyClient'.table = hyClient.table
  BY <1>4 DEF ClientShape
<1>6. HeldStays
  BY <1>2, <1>5 DEF HeldStays, Held, UsedUp, UsedDown
<1>7. ClientOK(hyClient)' /\ ServerOK(hyServer)'
  <2>1. ClientOK(hyClient)'
    BY <1>2, <1>3, <1>5 DEF ClientOK, ClientShape, Past
  <2> QED
    BY <1>2, <1>3, <2>1, ServerStays
<1>8. WireOK(wire)' /\ TableOK("down", hyClient.table)' /\ TableOK("up", hyServer.table)'
  BY <1>2, <1>3, <1>5, <1>6, Settles
<1> QED
  BY <1>2, <1>3, <1>7, <1>8 DEF HyInv, HandedWhole

\* Time passes when nothing is under way.
LEMMA TickInv ==
  ASSUME HyInv, HyTick PROVE HyInv'
<1>1. /\ quic = "up" /\ wire = {} /\ wire' = {} /\ handed' = {} /\ clock' = clock + 1
      /\ hyClient' = hyClient /\ hyServer' = hyServer /\ quic' = quic
  BY DEF HyTick
<1>2. /\ clock \in Nat /\ clock' \in Nat /\ clock <= clock' /\ ReassemblyTtl \in Nat /\ Idle \in Nat
      /\ ClientOK(hyClient) /\ ServerOK(hyServer)
      /\ TableOK("down", hyClient.table) /\ TableOK("up", hyServer.table)
  BY <1>1, HysteriaAssumption DEF HyInv
<1>3. ClientOK(hyClient)'
  <2>1. ASSUME NEW x \in DOMAIN hyClient.ids, NEW y \in DOMAIN hyClient.ids[x].used
        PROVE  hyClient.ids[x].used[y] <= clock'
    <3>1. hyClient.ids[x] \in IdsType /\ hyClient.ids[x].used[y] <= clock
      BY <1>2 DEF ClientOK, Past
    <3>2. hyClient.ids[x].used[y] \in Nat
      BY <1>2, <3>1, UsesId
    <3> QED
      BY <1>2, <3>1, <3>2
  <2> QED
    BY <1>1, <1>2, <2>1 DEF ClientOK, ClientShape, Past
<1>4. ServerOK(hyServer)'
  <2>1. ASSUME NEW l \in LoopType, LoopOK(l) PROVE LoopOK(l)'
    <3>1. l.last \in Nat
      BY DEF LoopType
    <3> QED
      BY <1>1, <1>2, <2>1, <3>1 DEF LoopOK
  <2>2. hyServer.loops \in Seq(LoopType) /\ \A i \in 1..Len(hyServer.loops) : LoopOK(hyServer.loops[i])
    BY <1>2 DEF ServerOK
  <2>3. \A i \in 1..Len(hyServer.loops) : hyServer.loops[i] \in LoopType
    BY <2>2
  <2>4. ASSUME NEW i \in 1..Len(hyServer.loops) PROVE LoopOK(hyServer.loops[i])'
    <3>1. PICK l : l = hyServer.loops[i]
      OBVIOUS
    <3>2. LoopOK(l)'
      BY <2>1, <2>2, <2>3, <3>1
    <3> QED
      BY <1>1, <3>1, <3>2 DEF LoopOK
  <2> QED
    BY <1>1, <1>2, <2>4 DEF ServerOK, ServerShape, TaskOK
<1>5. ASSUME NEW dir, NEW x, NEW y, NEW t \in Nat, Held(dir, x, y, t) PROVE Held(dir, x, y, t)'
  <2>1. clock - t > ReassemblyTtl => clock' - t > ReassemblyTtl
    BY <1>1, <1>2
  <2> QED
    BY <1>1, <1>5, <2>1 DEF Held, UsedUp, UsedDown
<1>6. ASSUME NEW dir, NEW key, NEW e, EntryOK(dir, key, e) PROVE EntryOK(dir, key, e)'
  <2>1. e.at \in Nat /\ Held(dir, key[1], key[2], e.at) /\ e.at <= clock'
    BY <1>2, <1>6 DEF EntryOK
  <2>2. Held(dir, key[1], key[2], e.at)'
    BY <1>5, <2>1
  <2> QED
    BY <1>1, <1>6, <2>1, <2>2 DEF EntryOK
<1>7. \A dir, table : TableOK(dir, table) => TableOK(dir, table)'
  BY <1>6 DEF TableOK
<1>8. TableOK("down", hyClient.table)' /\ TableOK("up", hyServer.table)'
  BY <1>1, <1>2, <1>7 DEF TableOK
<1>9. WireOK(wire)' /\ HandedWhole'
  BY <1>1 DEF WireOK, HandedWhole
<1> QED
  BY <1>2, <1>3, <1>4, <1>8, <1>9 DEF HyInv

\* Every scenario starts well.
LEMMA HyStart ==
  ASSUME NEW state, NEW tcp, NEW target, NEW addrs, NEW sizes, NEW up, NEW down,
         HyInit(state, tcp, target, addrs, sizes, up, down)
  PROVE  HyInv
<1>0. DOMAIN <<>> = {} /\ <<>> \in Seq(LoopType) /\ Len(<<>>) = 0 /\ 1..0 = {}
  OBVIOUS
<1>1. hyClient = [sess |-> <<>>, resolving |-> FALSE, next |-> 0, ids |-> <<>>,
                  target |-> target, addrs |-> addrs, sizes |-> sizes, left |-> up, table |-> [tab |-> <<>>, pruned |-> 0]]
  BY DEF HyInit
<1>2. ClientOK(hyClient) /\ hyClient.table = [tab |-> <<>>, pruned |-> 0]
  <2>1. ClientShape(hyClient) /\ hyClient.sess = <<>> /\ hyClient.ids = <<>> /\ hyClient.next = 0
    BY <1>1 DEF ClientShape
  <2> QED
    BY <1>0, <1>1, <2>1 DEF ClientOK
<1>3. hyServer = [sess |-> <<>>, addr |-> <<>>, tasks |-> {}, loops |-> <<>>, left |-> down, table |-> [tab |-> <<>>, pruned |-> 0]]
  BY DEF HyInit
<1>4. ServerOK(hyServer) /\ hyServer.table = [tab |-> <<>>, pruned |-> 0]
  <2>1. ServerShape(hyServer) /\ hyServer.sess = <<>> /\ hyServer.tasks = {} /\ hyServer.loops = <<>>
    BY <1>3 DEF ServerShape
  <2> QED
    BY <1>0, <1>3, <2>1 DEF ServerOK
<1>5. TableOK("down", hyClient.table) /\ TableOK("up", hyServer.table)
  BY <1>0, <1>2, <1>4 DEF TableOK
<1>6. wire = {} /\ handed = {} /\ clock = 0
  BY DEF HyInit
<1> QED
  BY <1>2, <1>4, <1>5, <1>6 DEF HyInv, WireOK, HandedWhole

\* Every step keeps the invariant.
LEMMA HyStep ==
  ASSUME HyInv, OneAddress, [HyNext]_hyVars PROVE HyInv'
<1>1. CASE UNCHANGED hyVars
  <2>1. HandedWhole'
    BY <1>1 DEF hyVars, HyInv, HandedWhole
  <2>2. /\ UNCHANGED <<hyClient, hyServer, clock>> /\ wire' \subseteq wire /\ quic' = quic /\ clock' \in Nat
    BY <1>1 DEF hyVars, HyInv
  <2>3. ASSUME quic # "lost"
        PROVE  /\ ClientOK(hyClient)' /\ ServerOK(hyServer)' /\ WireOK(wire)'
               /\ TableOK("down", hyClient.table)' /\ TableOK("up", hyServer.table)'
    <3>1. ClientOK(hyClient) /\ ServerOK(hyServer)
      BY <2>3 DEF HyInv
    <3>2. HeldStays
      BY <2>2 DEF HeldStays, Held, UsedUp, UsedDown
    <3> QED
      BY <2>2, <2>3, <3>1, <3>2, Settles, ClientStays, ServerStays
  <2> QED
    BY <2>1, <2>2, <2>3 DEF HyInv
<1>2. CASE Connect \/ ConnectFails \/ serve_endpoint \/ hy2_auth \/ \E ok \in BOOLEAN : Authenticate(ok)
  <2>1. /\ quic \in {NoConn, "dialled", "connected", "auth"} /\ wire' \subseteq wire /\ handed' = {}
        /\ UNCHANGED <<hyClient, hyServer, clock>>
    BY <1>2 DEF Connect, ConnectFails, serve_endpoint, hy2_auth, Authenticate, Goes
  <2> QED
    BY <2>1, QuietInv DEF NoConn
<1>3. CASE Lose
  BY <1>3 DEF Lose, HyInv, HandedWhole
<1>4. CASE Tcp
  <2>1. /\ quic' = quic /\ wire' \subseteq wire /\ handed' = {} /\ UNCHANGED <<hyClient, hyServer, clock>>
    BY <1>4 DEF Tcp
  <2> QED
    BY <2>1, QuietInv
<1>5. CASE SendResolving \/ LookupFails
  BY <1>5, ResolveInv
<1>6. CASE \E t \in Targets, count \in 1 .. MaxFragments : Send(t, count)
  BY <1>6, SendInv
<1>7. CASE \E f \in wire : ClientReceives(f) \/ ServerReceives(f)
  BY <1>7, ClientReceivesInv, ServerReceivesInv
<1>8. CASE \E f \in wire : LoseDatagram(f)
  <2>1. /\ quic' = quic /\ wire' \subseteq wire /\ handed' = {} /\ UNCHANGED <<hyClient, hyServer, clock>>
    BY <1>8 DEF LoseDatagram
  <2> QED
    BY <2>1, QuietInv
<1>9. CASE ServerTasks
  <2>1. CASE \E k \in hyServer.tasks : TaskLooks(k) \/ TaskBinds(k) \/ TaskBindFails(k) \/ TaskSends(k)
    <3>1. PICK k \in hyServer.tasks : \/ ServerStep(TaskLooks(k)) \/ ServerStep(TaskBinds(k))
                                      \/ ServerStep(TaskBindFails(k)) \/ ServerStep(TaskSends(k))
      BY <1>9, <2>1 DEF ServerTasks, ServerStep
    <3> QED
      BY <3>1, TaskInv, BindInv
  <2>2. CASE \E i \in DOMAIN hyServer.loops : LoopFails(i) \/ LoopIdle(i) \/ LoopLeaves(i)
    <3>1. PICK i \in DOMAIN hyServer.loops : \/ ServerStep(LoopFails(i)) \/ ServerStep(LoopIdle(i))
                                             \/ ServerStep(LoopLeaves(i))
      BY <1>9, <2>2 DEF ServerTasks, ServerStep
    <3> QED
      BY <3>1, LoopInv, IdleLeavesInv
  <2> QED
    BY <1>9, <2>1, <2>2 DEF ServerTasks
<1>10. CASE Replies
  BY <1>10, ReplyInv DEF Replies
<1>11. CASE HyTick
  BY <1>11, TickInv
<1> QED
  BY <1>1, <1>2, <1>3, <1>4, <1>5, <1>6, <1>7, <1>8, <1>9, <1>10, <1>11 DEF HyNext

\* The packets of a session keep their one address.
LEMMA AddressStart ==
  ASSUME NEW state, NEW tcp, NEW target, NEW sizes, NEW up, NEW down,
         HyInit(state, tcp, target, {target}, sizes, up, down)
  PROVE  OneAddress
<1>1. hyClient.addrs = {target} /\ wire = {} /\ hyServer.addr = <<>>
  BY DEF HyInit
<1>2. DOMAIN <<>> = {}
  OBVIOUS
<1> QED
  BY <1>1, <1>2 DEF OneAddress, Addressed

LEMMA AddressStep ==
  ASSUME HyInv, OneAddress, [HyNext]_hyVars PROVE OneAddress'
<1> SUFFICES ASSUME quic' # "lost" PROVE \E a : hyClient'.addrs = {a} /\ Addressed(a, wire', hyServer'.addr)
  BY DEF OneAddress
<1>1. quic # "lost"
  BY DEF HyNext, hyVars, Connect, ConnectFails, serve_endpoint, hy2_auth, Authenticate, Goes, Lose, Tcp, NoConn,
         SendResolving, LookupFails, Send, ClientReceives, ServerReceives, LoseDatagram, ServerTasks, Replies, HyTick
<1>2. ClientShape(hyClient) /\ ServerShape(hyServer)
  BY <1>1 DEF HyInv, ClientOK, ServerOK
<1>3. PICK a : hyClient.addrs = {a} /\ Addressed(a, wire, hyServer.addr)
  BY <1>1 DEF OneAddress
<1>4. ASSUME wire' \subseteq wire, hyServer'.addr = hyServer.addr, hyClient'.addrs = hyClient.addrs
      PROVE  hyClient'.addrs = {a} /\ Addressed(a, wire', hyServer'.addr)
  BY <1>3, <1>4 DEF Addressed
<1>5. CASE UNCHANGED <<wire, hyServer, hyClient>>
  BY <1>4, <1>5
<1>6. CASE Lose
  BY <1>6 DEF Lose
<1>7. CASE SendResolving \/ LookupFails
  <2>1. wire' = wire /\ hyServer' = hyServer
    BY <1>7 DEF SendResolving, LookupFails
  <2>2. hyClient'.addrs = hyClient.addrs
    BY <1>2, <1>7 DEF SendResolving, LookupFails, ClientShape
  <2> QED
    BY <1>4, <2>1, <2>2
<1>8. CASE \E t \in Targets, count \in 1 .. MaxFragments : Send(t, count)
  <2>1. PICK t \in Targets, count \in 1 .. MaxFragments : Send(t, count)
    BY <1>8
  <2> DEFINE c == IF t \in DOMAIN hyClient.sess THEN hyClient ELSE NewUdpSession(hyClient, t)
             s == c.sess[t]
             id == c.ids[s].next
             packet == <<"up", s, hyClient.left>>
  <2>2. c.addrs = hyClient.addrs /\ ClientShape(c)
    BY <1>2 DEF NewUdpSession, ClientShape
  <2>3. PICK to \in hyClient.addrs : wire' = wire \cup Cut("up", to, s, id, count, packet)
    BY <2>1 DEF Send
  <2>4. \E less, use : hyClient' = [c EXCEPT !.left = less, !.ids[s] = use]
    BY <2>1 DEF Send
  <2>5. hyServer' = hyServer
    BY <2>1 DEF Send
  <2> HIDE DEF c, s, id, packet
  <2>6. hyClient'.addrs = hyClient.addrs
    BY <2>2, <2>4 DEF ClientShape
  <2>7. \A f \in Cut("up", to, s, id, count, packet) : f.to = a
    BY <1>3, <2>3 DEF Cut
  <2> QED
    BY <1>3, <2>3, <2>5, <2>6, <2>7 DEF Addressed
<1>9. CASE \E f \in wire : ClientReceives(f) \/ LoseDatagram(f)
  <2>1. wire' \subseteq wire /\ hyServer' = hyServer
    BY <1>9 DEF ClientReceives, LoseDatagram
  <2>2. hyClient'.addrs = hyClient.addrs
    BY <1>2, <1>9 DEF ClientReceives, LoseDatagram, ClientShape
  <2> QED
    BY <1>4, <2>1, <2>2
<1>10. CASE \E f \in wire : ServerReceives(f)
  <2>1. PICK f \in wire : ServerReceives(f)
    BY <1>10
  <2>2. wire' \subseteq wire /\ hyClient' = hyClient /\ f.to = a
    BY <1>3, <2>1 DEF ServerReceives, Addressed
  <2>3. hyServer'.addr = Insert(hyServer.addr, f.sess, f.to)
    BY <1>2, <2>1 DEF ServerReceives, ServerShape
  <2> QED
    BY <1>3, <2>2, <2>3 DEF Addressed, Insert
<1>11. CASE ServerTasks
  <2>1. wire' = wire /\ hyClient' = hyClient
    BY <1>11 DEF ServerTasks
  <2>2. CASE \E k \in hyServer.tasks : TaskLooks(k) \/ TaskBinds(k) \/ TaskBindFails(k) \/ TaskSends(k)
    <3>1. hyServer'.addr = hyServer.addr
      BY <1>2, <2>2 DEF TaskLooks, TaskBinds, Install, InstallAlways, TaskBindFails, TaskSends, ServerShape
    <3> QED
      BY <1>4, <2>1, <3>1
  <2>3. CASE \E i \in DOMAIN hyServer.loops : LoopFails(i) \/ LoopIdle(i)
    <3>1. hyServer'.addr = hyServer.addr
      BY <1>2, <2>3 DEF LoopFails, LoopIdle, ServerShape
    <3> QED
      BY <1>4, <2>1, <3>1
  <2>4. CASE \E i \in DOMAIN hyServer.loops : LoopLeaves(i)
    <3>1. PICK s : hyServer'.addr = Restrict(hyServer.addr, DOMAIN hyServer.addr \ {s})
      BY <1>2, <2>4 DEF LoopLeaves, ServerShape
    <3> QED
      BY <1>3, <2>1, <3>1 DEF Addressed, Restrict
  <2> QED
    BY <1>11, <2>2, <2>3, <2>4 DEF ServerTasks
<1>12. CASE Replies
  <2>1. PICK i \in DOMAIN hyServer.loops, count \in 1 .. MaxFragments : LoopReplies(i, count)
    BY <1>12 DEF Replies
  <2>2. hyServer'.addr = hyServer.addr /\ hyClient' = hyClient
    BY <1>2, <1>12, <2>1 DEF Replies, LoopReplies, ServerShape
  <2>3. PICK s, id, packet : wire' = wire \cup Cut("down", "client", s, id, count, packet)
    BY <2>1 DEF LoopReplies
  <2>4. \A f \in Cut("down", "client", s, id, count, packet) : f.dir = "down"
    BY DEF Cut
  <2> QED
    BY <1>3, <2>2, <2>3, <2>4 DEF Addressed
<1>13. CASE \/ UNCHANGED hyVars \/ HyTick \/ Tcp
            \/ Connect \/ ConnectFails \/ serve_endpoint \/ hy2_auth \/ \E ok \in BOOLEAN : Authenticate(ok)
  BY <1>5, <1>13 DEF hyVars, HyTick, Tcp, Connect, ConnectFails, serve_endpoint, hy2_auth, Authenticate, Goes
<1> QED
  BY <1>6, <1>7, <1>8, <1>9, <1>10, <1>11, <1>12, <1>13 DEF HyNext

\* What either end's reassembly hands on is one packet the other end sent in that
\* session (Hy2UdpState, hy2_udp_loop), for any number of packet ids,
\* fragments, sessions and table entries, any time to live and any longer idle timeout.
THEOREM PacketsHandedWhole == HySpec => []HandedWhole
<1>1. ASSUME HyInv PROVE HandedWhole
  BY <1>1 DEF HyInv
<1>2. (\E state \in {NoConn, "up", "lost"}, tcp \in {NoConn, "open"}, target \in Targets,
                sizes \in SUBSET (1..MaxFragments), up, down \in Nat :
                HyInit(state, tcp, target, {target}, sizes, up, down)) => HyInv /\ OneAddress
  BY HyStart, AddressStart
<1> QED
  BY <1>1, <1>2, HyStep, AddressStep, PTL DEF HySpec

-----------------------------------------------------------------------------
(* AnyTLS.                                                                   *)

(* The folds of the model, by name.                                        *)
Op(k, x, y) == IF k = "parse" THEN ParseOne(x, y) ELSE PadOne(x, y)

(* A set of numbers up to n has a greatest one.                            *)
LEMMA GreatestUpTo ==
    ASSUME NEW n \in Nat, NEW T \in SUBSET (1..n), T # {}
    PROVE  Max(T) \in T /\ \A y \in T : Max(T) >= y
  <1> DEFINE D == {n - k : k \in T}
  <1>1. D \in SUBSET (0..n) /\ D # {}
    <2>1. \A k \in T : n - k \in 0..n
      OBVIOUS
    <2> QED
      BY <2>1
  <1>2. PICK d \in D : \A y \in D : d <= y
    <2> HIDE DEF D
    <2> QED
      BY <1>1, LeastUpTo
  <1>3. PICK k \in T : d = n - k
    BY <1>2
  <1>4. \A y \in T : k >= y
    <2> TAKE y \in T
    <2>1. n - y \in D
      OBVIOUS
    <2>2. n - k <= n - y
      BY <1>2, <1>3, <2>1
    <2>3. k \in 1..n /\ y \in 1..n
      OBVIOUS
    <2> QED
      BY <2>2, <2>3
  <1>5. \E x \in T : \A y \in T : x >= y
    BY <1>4
  <1> QED
    BY <1>5 DEF Max

(* A set of subsets of a finite set has a smallest one.                    *)
LEMMA SmallestSubset ==
    ASSUME NEW S, IsFiniteSet(S), NEW T \in SUBSET (SUBSET S), T # {}
    PROVE  \E t \in T : \A u \in T : u \subseteq t => u = t
  <1>1. IsWellFoundedOn(StrictSubsetOrdering(S), SUBSET S)
    BY FS_FiniteSubsetsOfFinite, FS_StrictSubsetOrderingWellFounded, Zenon
  <1>2. PICK t \in T : \A u \in T : ~ (<<u, t>> \in StrictSubsetOrdering(S))
    BY <1>1, WFMin
  <1>3. ASSUME NEW u \in T, u \subseteq t, u # t PROVE FALSE
    <2>1. <<u, t>> \in StrictSubsetOrdering(S)
      BY <1>3 DEF StrictSubsetOrdering
    <2> QED
      BY <1>2, <2>1
  <1> QED
    BY <1>3

(* Sets of places that have a last one, and so have their subsets.         *)
Places(S) == IsFiniteSet(S) /\ \A u \in SUBSET S : u # {} => Max(u) \in u

\* The first n places.
LEMMA PlacesUpTo == ASSUME NEW n \in Nat PROVE Places(1..n)
  <1>1. IsFiniteSet(1..n)
    BY FS_Interval
  <1>2. ASSUME NEW u \in SUBSET (1..n), u # {} PROVE Max(u) \in u
    BY <1>2, GreatestUpTo
  <1> QED
    BY <1>1, <1>2 DEF Places

\* Some of them.
LEMMA PlacesPart ==
    ASSUME NEW S, Places(S), NEW u \in SUBSET S
    PROVE  Places(u) /\ IsFiniteSet(u) /\ (u # {} => Max(u) \in u)
  BY FS_Subset DEF Places

(* What FoldLeft computes: a function of the sets of places folded so far. *)
Folding(k, g, b, s, S) ==
    g = [u \in SUBSET S |-> IF u = {} THEN b ELSE Op(k, g[u \ {Max(u)}], s[Max(u)])]

(* One step of it.                                                         *)
LEMMA FoldingStep ==
    ASSUME NEW k, NEW g, NEW b, NEW s, NEW S, Folding(k, g, b, s, S), NEW u \in SUBSET S
    PROVE  g[u] = IF u = {} THEN b ELSE Op(k, g[u \ {Max(u)}], s[Max(u)])
  BY DEF Folding

(* Two such functions agree where both are defined and the elements are    *)
(* the same.                                                               *)
LEMMA FoldingUnique ==
    ASSUME NEW k, NEW b, NEW g, NEW s, NEW S, NEW h, NEW t, NEW R,
           Folding(k, g, b, s, S), Folding(k, h, b, t, R),
           NEW U \in SUBSET S, Places(U), U \in SUBSET R, \A i \in U : s[i] = t[i]
    PROVE  g[U] = h[U]
  <1> DEFINE T == {u \in SUBSET U : g[u] # h[u]}
  <1>1. SUFFICES ASSUME T # {} PROVE FALSE
    OBVIOUS
  <1>2. PICK u \in T : \A v \in T : v \subseteq u => v = u
    <2>1. T \in SUBSET (SUBSET U)
      OBVIOUS
    <2>3. IsFiniteSet(U)
      BY DEF Places
    <2> HIDE DEF T
    <2> QED
      BY <1>1, <2>1, <2>3, SmallestSubset
  <1>3. u \in SUBSET U /\ g[u] # h[u] /\ u \in SUBSET S /\ u \in SUBSET R
    BY <1>2
  <1>4. /\ g[u] = IF u = {} THEN b ELSE Op(k, g[u \ {Max(u)}], s[Max(u)])
        /\ h[u] = IF u = {} THEN b ELSE Op(k, h[u \ {Max(u)}], t[Max(u)])
    <2>1. g[u] = IF u = {} THEN b ELSE Op(k, g[u \ {Max(u)}], s[Max(u)])
      BY <1>3, FoldingStep
    <2>2. h[u] = IF u = {} THEN b ELSE Op(k, h[u \ {Max(u)}], t[Max(u)])
      <3>1. u \in SUBSET R
        BY <1>3
      <3> QED
        BY <3>1 DEF Folding
    <2> QED
      BY <2>1, <2>2
  <1>5. u # {}
    BY <1>3, <1>4
  <1>6. Max(u) \in u
    BY <1>3, <1>5, PlacesPart
  <1>7. g[u \ {Max(u)}] = h[u \ {Max(u)}]
    <2>1. u \ {Max(u)} \notin T
      BY <1>2, <1>6
    <2> QED
      BY <1>3, <2>1
  <1> QED
    BY <1>3, <1>4, <1>5, <1>6, <1>7

(* There is one for every set of places.                                   *)
LEMMA FoldingExists ==
    ASSUME NEW k, NEW b, NEW s, NEW S, Places(S)
    PROVE  \E g : Folding(k, g, b, s, S)
  <1> DEFINE T == {u \in SUBSET S : ~\E g : Folding(k, g, b, s, u)}
  <1>1. SUFFICES ASSUME T # {} PROVE FALSE
    OBVIOUS
  <1>2. PICK u \in T : \A v \in T : v \subseteq u => v = u
    <2>1. T \in SUBSET (SUBSET S)
      OBVIOUS
    <2>3. IsFiniteSet(S)
      BY DEF Places
    <2> HIDE DEF T
    <2> QED
      BY <1>1, <2>1, <2>3, SmallestSubset
  <1>3. u \in SUBSET S /\ ~\E g : Folding(k, g, b, s, u)
    BY <1>2
  <1>4. \A v \in SUBSET u : v # u => \E g : Folding(k, g, b, s, v)
    BY <1>2
  <1> HIDE DEF T
  <1> DEFINE G(v) == CHOOSE g : Folding(k, g, b, s, v)
             last == IF u = {} THEN b ELSE Op(k, G(u \ {Max(u)})[u \ {Max(u)}], s[Max(u)])
             h == [v \in SUBSET u |-> IF v = u THEN last ELSE G(v)[v]]
  <1>5. \A v \in SUBSET u : v # u => Folding(k, G(v), b, s, v)
    BY <1>4
  <1> HIDE DEF G
  <1>6. \A v \in SUBSET u : Places(v) /\ (v # {} => Max(v) \in v)
    BY <1>3, PlacesPart
  <1>7. ASSUME NEW v \in SUBSET u
        PROVE  h[v] = IF v = {} THEN b ELSE Op(k, h[v \ {Max(v)}], s[Max(v)])
    <2>1. v # {} => v \ {Max(v)} \in SUBSET u /\ v \ {Max(v)} # u
      BY <1>6
    <2>2. v # {} => h[v \ {Max(v)}] = G(v \ {Max(v)})[v \ {Max(v)}]
      BY <2>1
    <2>3. CASE v = u
      BY <2>2, <2>3
    <2>4. CASE v # u
      <3>1. h[v] = G(v)[v] /\ Folding(k, G(v), b, s, v) /\ v \in SUBSET v
        BY <1>5, <2>4
      <3>2. G(v)[v] = IF v = {} THEN b ELSE Op(k, G(v)[v \ {Max(v)}], s[Max(v)])
        BY <3>1, FoldingStep
      <3>3. v # {} => G(v)[v \ {Max(v)}] = G(v \ {Max(v)})[v \ {Max(v)}]
        <4>1. v \ {Max(v)} \in SUBSET v /\ Places(v \ {Max(v)})
          BY <1>6
        <4> QED
          BY <1>5, <2>1, <3>1, <4>1, FoldingUnique
      <3> HIDE DEF h
      <3> QED
        BY <2>2, <3>1, <3>2, <3>3
    <2> QED
      BY <2>3, <2>4
  <1>8. Folding(k, h, b, s, u)
    <2>1. h = [v \in SUBSET u |-> h[v]]
      OBVIOUS
    <2> HIDE DEF h
    <2>2. [v \in SUBSET u |-> h[v]]
            = [v \in SUBSET u |-> IF v = {} THEN b ELSE Op(k, h[v \ {Max(v)}], s[Max(v)])]
      BY <1>7
    <2> QED
      BY <2>1, <2>2 DEF Folding
  <1> QED
    BY <1>3, <1>8

(* The fold of the first n elements of s.                                  *)
Run(k, b, s, n) == (CHOOSE g : Folding(k, g, b, s, 1..n))[1..n]

(* It takes one element after the other.                                   *)
LEMMA RunStep ==
    ASSUME NEW k, NEW b, NEW s, NEW n \in Nat
    PROVE  /\ Run(k, b, s, 0) = b
           /\ Run(k, b, s, n + 1) = Op(k, Run(k, b, s, n), s[n + 1])
  <1> DEFINE g(m) == CHOOSE g : Folding(k, g, b, s, 1..m)
  <1>1. \A m \in Nat : Folding(k, g(m), b, s, 1..m)
    BY PlacesUpTo, FoldingExists
  <1>2. \A m \in Nat : Run(k, b, s, m) = g(m)[1..m]
    BY DEF Run
  <1> HIDE DEF g
  <1>3. Run(k, b, s, 0) = b
    <2>1. 1..0 = {} /\ 1..0 \in SUBSET (1..0)
      OBVIOUS
    <2> QED
      BY <1>1, <1>2, <2>1, FoldingStep
  <1>4. n + 1 \in Nat /\ 1..(n + 1) # {} /\ 1..n \in SUBSET (1..(n + 1))
    OBVIOUS
  <1>5. Max(1..(n + 1)) = n + 1
    <2>1. n + 1 \in 1..(n + 1) /\ \A y \in 1..(n + 1) : n + 1 >= y
      OBVIOUS
    <2>2. Max(1..(n + 1)) \in 1..(n + 1) /\ Max(1..(n + 1)) >= n + 1
      BY <2>1 DEF Max
    <2> QED
      BY <2>2
  <1>6. (1..(n + 1)) \ {n + 1} = 1..n
    OBVIOUS
  <1>7. g(n + 1)[1..(n + 1)] = Op(k, g(n + 1)[1..n], s[n + 1])
    <2> DEFINE S == 1..(n + 1)
    <2>1. Folding(k, g(n + 1), b, s, S) /\ S \in SUBSET S /\ S # {}
      BY <1>1, <1>4
    <2>2. g(n + 1)[S] = Op(k, g(n + 1)[S \ {Max(S)}], s[Max(S)])
      <3> HIDE DEF S
      <3> QED
        BY <2>1, FoldingStep
    <2> QED
      BY <1>5, <1>6, <2>2
  <1>8. g(n + 1)[1..n] = g(n)[1..n]
    BY <1>1, <1>4, PlacesUpTo, FoldingUnique
  <1> QED
    BY <1>2, <1>3, <1>4, <1>7, <1>8

(* It depends on the first n elements only.                                *)
LEMMA RunSame ==
    ASSUME NEW k, NEW b, NEW s, NEW t, NEW n \in Nat, \A i \in 1..n : s[i] = t[i]
    PROVE  Run(k, b, s, n) = Run(k, b, t, n)
  <1>1. /\ Folding(k, CHOOSE g : Folding(k, g, b, s, 1..n), b, s, 1..n)
        /\ Folding(k, CHOOSE g : Folding(k, g, b, t, 1..n), b, t, 1..n)
    BY PlacesUpTo, FoldingExists
  <1> QED
    BY <1>1, PlacesUpTo, FoldingUnique DEF Run

(* The fold of two sequences, one behind the other.                        *)
Joins(s, t, n, r, m) == (\A i \in 1..n : s[i] = t[i]) /\ (\A i \in 1..m : s[n + i] = r[i])

\* First the one, then the other.
LEMMA RunConcat ==
    ASSUME NEW k, NEW b, NEW s, NEW t, NEW r, NEW n \in Nat, NEW m \in Nat, NEW l, l = n + m,
           Joins(s, t, n, r, m)
    PROVE  Run(k, b, s, l) = Run(k, Run(k, b, t, n), r, m)
  <1>0. (\A i \in 1..n : s[i] = t[i]) /\ (\A i \in 1..m : s[n + i] = r[i])
    BY DEF Joins
  <1> DEFINE Good(j) == Run(k, b, s, n + j) = Run(k, Run(k, b, t, n), r, j)
             T == {j \in 0..m : ~Good(j)}
  <1>1. SUFFICES ASSUME T # {} PROVE FALSE
    BY DEF T
  <1>2. PICK j \in T : \A i \in T : j <= i
    <2>1. T \in SUBSET (0..m)
      OBVIOUS
    <2> HIDE DEF T
    <2> QED
      BY <1>1, <2>1, LeastUpTo
  <1>3. j \in 0..m /\ ~Good(j) /\ (j # 0 => Good(j - 1))
    BY <1>2
  <1> HIDE DEF T
  <1>4. CASE j = 0
    <2>1. Run(k, b, s, n) = Run(k, b, t, n)
      BY <1>0, RunSame
    <2>2. Run(k, Run(k, b, t, n), r, 0) = Run(k, b, t, n)
      BY RunStep
    <2> QED
      BY <1>3, <1>4, <2>1, <2>2
  <1>5. CASE j # 0
    <2>1. j - 1 \in Nat /\ n + (j - 1) \in Nat /\ (j - 1) + 1 = j /\ (n + (j - 1)) + 1 = n + j /\ s[n + j] = r[j]
      BY <1>0, <1>3, <1>5
    <2>2. Run(k, b, s, n + j) = Op(k, Run(k, b, s, n + (j - 1)), s[n + j])
      BY <2>1, RunStep
    <2>3. Run(k, Run(k, b, t, n), r, j) = Op(k, Run(k, Run(k, b, t, n), r, j - 1), r[j])
      BY <2>1, RunStep
    <2>4. Good(j - 1)
      BY <1>3, <1>5
    <2> QED
      BY <1>3, <2>1, <2>2, <2>3, <2>4
  <1> QED
    BY <1>4, <1>5

Whole(k, b, s) == Run(k, b, s, Len(s))
Joined(s, t, r) ==
    /\ Len(t) \in Nat /\ Len(r) \in Nat /\ Len(s) = Len(t) + Len(r)
    /\ Joins(s, t, Len(t), r, Len(r))

\* The same of whole sequences.
LEMMA WholeJoined ==
    ASSUME NEW k, NEW b, NEW s, NEW t, NEW r, Joined(s, t, r)
    PROVE  Whole(k, b, s) = Whole(k, Whole(k, b, t), r)
  <1> DEFINE n == Len(t)  m == Len(r)  l == Len(s)
  <1>1. n \in Nat /\ m \in Nat /\ l = n + m /\ Joins(s, t, n, r, m)
    BY DEF Joined
  <1> HIDE DEF n, m, l
  <1>2. Run(k, b, s, l) = Run(k, Run(k, b, t, n), r, m)
    BY <1>1, RunConcat
  <1> QED
    BY <1>2 DEF n, m, l, Whole

(* FoldLeft is such a fold.                                                *)
LEMMA ParseFold ==
    ASSUME NEW b, NEW q, Len(q) \in Nat, DOMAIN q = 1..Len(q)
    PROVE  FoldLeft(ParseOne, b, q) = Whole("parse", b, q)
  <1> DEFINE S == 1..Len(q)
             Parsing(g) == g = [u \in SUBSET S |-> IF u = {} THEN b ELSE ParseOne(g[u \ {Max(u)}], q[Max(u)])]
  <1>1. \A g : Parsing(g) <=> Folding("parse", g, b, q, S)
    BY DEF Folding, Op
  <1>2. Places(S) /\ \E g : Parsing(g)
    BY <1>1, PlacesUpTo, FoldingExists
  <1>3. FoldLeft(ParseOne, b, q) = (CHOOSE g : Parsing(g))[S]
    BY DEF FoldLeft, MapThenFoldSet
  <1>4. Folding("parse", CHOOSE g : Parsing(g), b, q, S)
    <2> HIDE DEF Parsing
    <2> QED
      BY <1>1, <1>2
  <1>5. Folding("parse", CHOOSE g : Folding("parse", g, b, q, S), b, q, S)
    BY <1>2, FoldingExists
  <1>6. Whole("parse", b, q) = (CHOOSE g : Folding("parse", g, b, q, S))[S]
    BY DEF Run, Whole
  <1> HIDE DEF S, Parsing
  <1> QED
    BY <1>2, <1>3, <1>4, <1>5, <1>6, FoldingUnique

\* So is the one of apply_padding.
LEMMA PadFold ==
    ASSUME NEW b, NEW q, Len(q) \in Nat, DOMAIN q = 1..Len(q)
    PROVE  FoldLeft(PadOne, b, q) = Whole("pad", b, q)
  <1> DEFINE S == 1..Len(q)
             Padding(g) == g = [u \in SUBSET S |-> IF u = {} THEN b ELSE PadOne(g[u \ {Max(u)}], q[Max(u)])]
  <1>1. \A g : Padding(g) <=> Folding("pad", g, b, q, S)
    BY DEF Folding, Op
  <1>2. Places(S) /\ \E g : Padding(g)
    BY <1>1, PlacesUpTo, FoldingExists
  <1>3. FoldLeft(PadOne, b, q) = (CHOOSE g : Padding(g))[S]
    BY DEF FoldLeft, MapThenFoldSet
  <1>4. Folding("pad", CHOOSE g : Padding(g), b, q, S)
    <2> HIDE DEF Padding
    <2> QED
      BY <1>1, <1>2
  <1>5. Folding("pad", CHOOSE g : Folding("pad", g, b, q, S), b, q, S)
    BY <1>2, FoldingExists
  <1>6. Whole("pad", b, q) = (CHOOSE g : Folding("pad", g, b, q, S))[S]
    BY DEF Run, Whole
  <1> HIDE DEF S, Padding
  <1> QED
    BY <1>2, <1>3, <1>4, <1>5, <1>6, FoldingUnique

-----------------------------------------------------------------------------
(***************************************************************************)
(* AnyTls, from the caller to the server.  What the server makes of the    *)
(* tokens: at the boundary of frames it has read a part of the stream, the *)
(* address and then the data.                                              *)
(***************************************************************************)
Marks == Commands \cup {"address", "data", "zero"}
Toks == [t : Marks, v : Nat]
Stream(m) == [n \in 1..m |-> IF n = 1 THEN Item("address", 0) ELSE Item("data", n - 1)]
ParserState == [cmd : Marks \cup {"none"}, need : Nat, payload : Seq(Toks), bad : BOOLEAN]
ParseAll(s, x) == Whole("parse", s, x)
Boundary(s) == s \in ParserState /\ s.need = 0 /\ ~s.bad

(* One token.                                                              *)
State(c, n, p) == [cmd |-> c, need |-> n, payload |-> p, bad |-> FALSE]

\* What the server knows between frames.
LEMMA BoundaryState ==
    ASSUME NEW s, Boundary(s) PROVE s = State(s.cmd, 0, s.payload) /\ s.payload \in Seq(Toks)
  BY DEF Boundary, ParserState, State

\* The header of a frame.
LEMMA ParseHeader ==
    ASSUME NEW c, NEW p, NEW cmd \in Commands, NEW v
    PROVE  ParseOne(State(c, 0, p), Item(cmd, v)) = State(cmd, v, p)
  BY DEF ParseOne, State, Item

\* A token of its data.
LEMMA ParseData ==
    ASSUME NEW c, NEW p, NEW e, NEW n \in Nat \ {0}, e.t \notin Commands
    PROVE  ParseOne(State(c, n, p), e) = State(c, n - 1, IF c = "psh" THEN Append(p, e) ELSE p)
  BY DEF ParseOne, State

(* A frame is read whole, and its data is payload if it is a PSH frame.    *)
LEMMA ParseFrame ==
    ASSUME NEW s, Boundary(s), NEW cmd \in Commands, NEW data \in Seq(Toks),
           \A i \in 1..Len(data) : data[i].t \notin Commands
    PROVE  /\ encode_frame(cmd, data) \in Seq(Toks)
           /\ Boundary(ParseAll(s, encode_frame(cmd, data)))
           /\ ParseAll(s, encode_frame(cmd, data)).payload = IF cmd = "psh" THEN s.payload \o data ELSE s.payload
  <1> DEFINE x == encode_frame(cmd, data)
             n == Len(data)
             Pay(j) == IF cmd = "psh" THEN s.payload \o SubSeq(data, 1, j) ELSE s.payload
             Good(j) == Run("parse", s, x, j + 1) = State(cmd, n - j, Pay(j))
             T == {j \in 0..n : ~Good(j)}
  <1>1. n \in Nat /\ Item(cmd, n) \in Toks
    BY DEF Item, Toks, Marks
  <1>2. x \in Seq(Toks) /\ Len(x) = n + 1 /\ x[1] = Item(cmd, n) /\ \A i \in 1..n : x[i + 1] = data[i]
    BY <1>1 DEF encode_frame
  <1>3. s = State(s.cmd, 0, s.payload) /\ s.payload \in Seq(Toks)
    BY BoundaryState
  <1> HIDE DEF x
  <1>4. Good(0)
    <2>1. Run("parse", s, x, 0 + 1) = Op("parse", Run("parse", s, x, 0), x[0 + 1]) /\ Run("parse", s, x, 0) = s
      BY RunStep
    <2>2. Run("parse", s, x, 1) = ParseOne(State(s.cmd, 0, s.payload), Item(cmd, n))
      BY <1>2, <1>3, <2>1 DEF Op
    <2>3. Run("parse", s, x, 1) = State(cmd, n, s.payload)
      BY <2>2, ParseHeader
    <2>4. Pay(0) = s.payload /\ n - 0 = n
      <3>1. SubSeq(data, 1, 0) = <<>>
        OBVIOUS
      <3>2. s.payload \o <<>> = s.payload
        BY <1>3, ConcatEmptySeq
      <3>3. s.payload \o SubSeq(data, 1, 0) = s.payload
        BY <3>1, <3>2, Zenon
      <3>4. n - 0 = n
        BY <1>1
      <3> QED
        BY <3>3, <3>4, Zenon
    <2> QED
      BY <2>3, <2>4
  <1>5. ASSUME NEW j \in 1..n, Good(j - 1) PROVE Good(j)
    <2>1. Run("parse", s, x, j + 1) = Op("parse", Run("parse", s, x, j), x[j + 1])
      BY RunStep
    <2>2. (j - 1) + 1 = j /\ n - (j - 1) \in Nat \ {0} /\ n - (j - 1) - 1 = n - j
          /\ data[j].t \notin Commands /\ data[j] \in Toks
      BY <1>1
    <2>3. Run("parse", s, x, j) = State(cmd, n - (j - 1), Pay(j - 1))
      BY <1>5, <2>2
    <2>4. Run("parse", s, x, j + 1) = ParseOne(State(cmd, n - (j - 1), Pay(j - 1)), data[j])
      BY <1>2, <2>1, <2>3 DEF Op
    <2>5. Run("parse", s, x, j + 1) = State(cmd, n - j, IF cmd = "psh" THEN Append(Pay(j - 1), data[j]) ELSE Pay(j - 1))
      <3> HIDE DEF Pay
      <3> QED
        BY <2>2, <2>4, ParseData
    <2>6. Append(s.payload \o SubSeq(data, 1, j - 1), data[j]) = s.payload \o SubSeq(data, 1, j)
      <3>1. SubSeq(data, 1, j) = Append(SubSeq(data, 1, j - 1), data[j])
        BY <1>1
      <3>2. SubSeq(data, 1, j - 1) \in Seq(Toks)
        BY <1>1
      <3> DEFINE p == s.payload  q == SubSeq(data, 1, j - 1)  e == data[j]
      <3>3. p \in Seq(Toks) /\ q \in Seq(Toks) /\ e \in Toks
        BY <1>3, <2>2, <3>2
      <3> HIDE DEF p, q, e
      <3>4. <<e>> \in Seq(Toks) /\ p \o q \in Seq(Toks)
        BY <3>3
      <3>5. Append(p \o q, e) = (p \o q) \o <<e>>
        BY <3>3, <3>4, AppendIsConcat
      <3>6. Append(q, e) = q \o <<e>>
        BY <3>3, AppendIsConcat
      <3>7. (p \o q) \o <<e>> = p \o (q \o <<e>>)
        <4> DEFINE f == <<e>>
        <4>1. f \in Seq(Toks)
          BY <3>4
        <4> HIDE DEF f
        <4>2. p \in Seq(Toks) /\ q \in Seq(Toks)
          BY <3>3
        <4>3. (p \o q) \o f = p \o (q \o f)
          BY <4>1, <4>2, ConcatAssociative, SMTT(40)
        <4> QED
          BY <4>3 DEF f
      <3> QED
        BY <3>1, <3>5, <3>6, <3>7 DEF p, q, e
    <2>7. (IF cmd = "psh" THEN Append(Pay(j - 1), data[j]) ELSE Pay(j - 1)) = Pay(j)
      BY <2>6
    <2> QED
      BY <2>5, <2>7
  <1>6. T = {}
    <2>1. SUFFICES ASSUME T # {} PROVE FALSE
      OBVIOUS
    <2>2. PICK j \in T : \A i \in T : j <= i
      <3>1. T \in SUBSET (0..n)
        OBVIOUS
      <3> HIDE DEF T
      <3> QED
        BY <1>1, <2>1, <3>1, LeastUpTo
    <2> HIDE DEF Good
    <2>3. j \in 0..n /\ ~Good(j)
      BY <2>2
    <2>4. j # 0 => Good(j - 1)
      BY <1>1, <2>2, <2>3
    <2> HIDE DEF T
    <2> QED
      BY <1>1, <1>4, <1>5, <2>3, <2>4
  <1>7. Good(n)
    <2>1. n \in 0..n
      BY <1>1
    <2> HIDE DEF Good
    <2> QED
      BY <1>6, <2>1
  <1>8. Pay(n) = (IF cmd = "psh" THEN s.payload \o data ELSE s.payload) /\ Pay(n) \in Seq(Toks)
    <2>1. SubSeq(data, 1, n) = data /\ s.payload \o data \in Seq(Toks)
      BY <1>3
    <2> QED
      BY <1>3, <2>1
  <1>9. ParseAll(s, x) = State(cmd, 0, Pay(n))
    <2>1. n - n = 0
      BY <1>1
    <2> QED
      BY <1>2, <1>7, <2>1 DEF ParseAll, Whole
  <1> HIDE DEF Pay
  <1>10. State(cmd, 0, Pay(n)) \in ParserState
    BY <1>8 DEF Marks, State, ParserState
  <1>11. State(cmd, 0, Pay(n)).need = 0 /\ ~State(cmd, 0, Pay(n)).bad /\ State(cmd, 0, Pay(n)).payload = Pay(n)
    BY DEF State
  <1> QED
    BY <1>2, <1>8, <1>9, <1>10, <1>11 DEF Boundary, x

(* Two sequences of tokens, one behind the other.                          *)
LEMMA ParseConcat ==
    ASSUME NEW s, NEW x \in Seq(Toks), NEW y \in Seq(Toks)
    PROVE  ParseAll(s, x \o y) = ParseAll(ParseAll(s, x), y)
  <1>1. /\ Len(x) \in Nat /\ Len(y) \in Nat /\ Len(x \o y) = Len(x) + Len(y)
        /\ \A i \in 1..Len(x) : (x \o y)[i] = x[i]
        /\ \A i \in 1..Len(y) : (x \o y)[Len(x) + i] = y[i]
    OBVIOUS
  <1> DEFINE z == x \o y
  <1>2. Joined(z, x, y)
    BY <1>1 DEF Joined, Joins
  <1> HIDE DEF z
  <1>3. Whole("parse", s, z) = Whole("parse", Whole("parse", s, x), y)
    BY <1>2, WholeJoined
  <1> QED
    BY <1>3 DEF ParseAll, z

(* Tokens that follow take nothing back: the payload only grows, and an    *)
(* error stays.                                                            *)
Grows(s, r) ==
    /\ s.bad => r.bad
    /\ Len(s.payload) <= Len(r.payload)
    /\ \A l \in 1..Len(s.payload) : r.payload[l] = s.payload[l]

LEMMA ParseOneGrows ==
    ASSUME NEW s \in ParserState, NEW e \in Toks
    PROVE  ParseOne(s, e) \in ParserState /\ Grows(s, ParseOne(s, e))
  <1>1. s.payload \in Seq(Toks) /\ s.need \in Nat /\ e.t \in Marks /\ e.v \in Nat /\ s.bad \in BOOLEAN
    BY DEF ParserState, Toks
  <1>2. CASE s.need = 0
    <2>1. PICK bad \in BOOLEAN : bad = (s.bad \/ e.t \notin Commands)
      OBVIOUS
    <2>2. ParseOne(s, e) = [s EXCEPT !.cmd = e.t, !.need = e.v, !.bad = bad]
      BY <1>2, <2>1 DEF ParseOne
    <2>3. /\ ParseOne(s, e) \in ParserState
          /\ ParseOne(s, e).payload = s.payload /\ ParseOne(s, e).bad = bad
      BY <1>1, <2>1, <2>2 DEF ParserState
    <2>4. s.bad => bad
      BY <2>1
    <2>5. Len(s.payload) \in Nat
      BY <1>1
    <2> QED
      BY <2>3, <2>4, <2>5 DEF Grows
  <1>3. CASE s.need # 0
    <2>1. PICK bad \in BOOLEAN : bad = (s.bad \/ e.t \in Commands)
      OBVIOUS
    <2>2. PICK pay : pay = IF s.cmd = "psh" THEN Append(s.payload, e) ELSE s.payload
      OBVIOUS
    <2>3. ParseOne(s, e) = [s EXCEPT !.need = s.need - 1, !.bad = bad, !.payload = pay]
      BY <1>3, <2>1, <2>2 DEF ParseOne
    <2>4. s.need - 1 \in Nat
      BY <1>1, <1>3
    <2>5. /\ pay \in Seq(Toks) /\ Len(s.payload) <= Len(pay)
          /\ \A l \in 1..Len(s.payload) : pay[l] = s.payload[l]
      BY <1>1, <2>2
    <2> QED
      BY <1>1, <2>1, <2>3, <2>4, <2>5 DEF ParserState, Grows
  <1> QED
    BY <1>2, <1>3

LEMMA ParseGrows ==
    ASSUME NEW s \in ParserState, NEW x \in Seq(Toks)
    PROVE  ParseAll(s, x) \in ParserState /\ Grows(s, ParseAll(s, x))
  <1> DEFINE n == Len(x)
             R(j) == Run("parse", s, x, j)
             Good(j) == R(j) \in ParserState /\ Grows(s, R(j))
             T == {j \in 0..n : ~Good(j)}
  <1>1. n \in Nat /\ \A j \in 1..n : x[j] \in Toks
    OBVIOUS
  <1>2. Good(0)
    <2>1. R(0) = s
      BY RunStep
    <2> QED
      BY <2>1 DEF Grows, ParserState
  <1>3. ASSUME NEW j \in Nat, j + 1 \in 0..n, Good(j) PROVE Good(j + 1)
    <2>1. R(j + 1) = ParseOne(R(j), x[j + 1]) /\ x[j + 1] \in Toks
      BY <1>1, <1>3, RunStep DEF Op
    <2> HIDE DEF R
    <2>2. R(j + 1) \in ParserState /\ Grows(R(j), R(j + 1))
      BY <1>3, <2>1, ParseOneGrows
    <2>3. Grows(s, R(j + 1))
      <3>1. s.payload \in Seq(Toks) /\ R(j).payload \in Seq(Toks) /\ R(j + 1).payload \in Seq(Toks)
        BY <1>3, <2>2 DEF ParserState
      <3>2. Grows(s, R(j)) /\ Grows(R(j), R(j + 1))
        BY <1>3, <2>2
      <3> QED
        BY <3>1, <3>2 DEF Grows
    <2> QED
      BY <2>2, <2>3
  <1> HIDE DEF Good
  <1>4. T = {}
    <2> SUFFICES ASSUME T # {} PROVE FALSE
      OBVIOUS
    <2>1. PICK m \in T : \A j \in T : m <= j
      <3>1. T \in SUBSET (0..n)
        OBVIOUS
      <3> HIDE DEF T
      <3> QED
        BY <1>1, <3>1, LeastUpTo
    <2>2. m \in 0..n /\ ~Good(m) /\ m # 0
      BY <1>2, <2>1
    <2>3. m - 1 \in Nat /\ m - 1 \in 0..n /\ (m - 1) + 1 = m /\ ~(m <= m - 1)
      BY <1>1, <2>2
    <2>4. Good(m - 1)
      BY <2>1, <2>3
    <2> QED
      BY <1>3, <2>2, <2>3, <2>4
  <1>5. Good(n)
    BY <1>1, <1>4
  <1> QED
    BY <1>5 DEF Good, ParseAll, Whole

(* What carries a part of the stream, and what carries nothing.            *)
Carries(x, i, j) ==
    /\ x \in Seq(Toks)
    /\ \A s : Boundary(s) /\ s.payload = Stream(i) =>
           Boundary(ParseAll(s, x)) /\ ParseAll(s, x).payload = Stream(j)
Hollow(x) ==
    /\ x \in Seq(Toks)
    /\ \A s : Boundary(s) => Boundary(ParseAll(s, x)) /\ ParseAll(s, x).payload = s.payload

\* Tokens that carry nothing may follow.
LEMMA CarriesHollow ==
    ASSUME NEW x, NEW w, NEW i, NEW j, Carries(x, i, j), Hollow(w)
    PROVE  Carries(x \o w, i, j)
  <1>1. x \in Seq(Toks) /\ w \in Seq(Toks) /\ x \o w \in Seq(Toks)
    BY DEF Carries, Hollow
  <1> QED
    BY <1>1, ParseConcat DEF Carries, Hollow

\* They carry the empty part.
LEMMA HollowCarries ==
    ASSUME NEW x, NEW i, Hollow(x) PROVE Carries(x, i, i)
  BY DEF Carries, Hollow

\* They may follow each other.
LEMMA HollowConcat ==
    ASSUME NEW x, NEW w, Hollow(x), Hollow(w) PROVE Hollow(x \o w)
  <1>1. x \in Seq(Toks) /\ w \in Seq(Toks) /\ x \o w \in Seq(Toks)
    BY DEF Hollow
  <1> QED
    BY <1>1, ParseConcat DEF Hollow

\* No tokens carry nothing.
LEMMA HollowEmpty == Hollow(<<>>)
  <1>1. <<>> \in Seq(Toks) /\ Len(<<>>) = 0
    OBVIOUS
  <1>2. \A s : ParseAll(s, <<>>) = s
    BY <1>1, RunStep DEF ParseAll, Whole
  <1> QED
    BY <1>1, <1>2 DEF Hollow

(* Frames without data, and frames of padding, carry nothing.              *)
LEMMA HollowFrames ==
    /\ \A cmd \in Commands : Hollow(encode_frame(cmd, <<>>))
    /\ \A n \in Nat : Hollow(encode_waste_frame(n))
  <1>1. ASSUME NEW cmd \in Commands PROVE Hollow(encode_frame(cmd, <<>>))
    <2>1. <<>> \in Seq(Toks) /\ \A i \in 1..Len(<<>>) : <<>>[i].t \notin Commands
      OBVIOUS
    <2>2. encode_frame(cmd, <<>>) \in Seq(Toks)
      <3>1. Item(cmd, Len(<<>>)) \in Toks
        BY DEF Item, Toks, Marks
      <3> QED
        BY <3>1 DEF encode_frame
    <2>3. \A s : Boundary(s) => s.payload \in Seq(Toks) /\ s.payload \o <<>> = s.payload
      BY DEF Boundary, ParserState
    <2> QED
      BY <2>1, <2>2, <2>3, ParseFrame DEF Hollow
  <1>2. ASSUME NEW n \in Nat PROVE Hollow(encode_waste_frame(n))
    <2> DEFINE data == [i \in 1..n |-> Item("zero", i)]
    <2>1. /\ data \in Seq(Toks) /\ Len(data) = n
          /\ \A i \in 1..Len(data) : data[i].t \notin Commands
      <3>1. \A i \in 1..n : Item("zero", i) \in Toks /\ Item("zero", i).t \notin Commands
        BY DEF Item, Toks, Marks, Commands
      <3> QED
        BY <3>1
    <2>2. encode_waste_frame(n) = encode_frame("waste", data) /\ "waste" \in Commands /\ "waste" # "psh"
      BY DEF encode_waste_frame, Commands
    <2> HIDE DEF data
    <2>3. encode_frame("waste", data) \in Seq(Toks)
      <3>1. Item("waste", Len(data)) \in Toks
        BY <2>1, <2>2 DEF Item, Toks, Marks
      <3> QED
        BY <2>1, <3>1 DEF encode_frame
    <2>4. \A s : Boundary(s) => Boundary(ParseAll(s, encode_frame("waste", data)))
                                /\ ParseAll(s, encode_frame("waste", data)).payload = s.payload
      BY <2>1, <2>2, ParseFrame
    <2> QED
      BY <2>2, <2>3, <2>4 DEF Hollow
  <1> QED
    BY <1>1, <1>2

(***************************************************************************)
(* apply_padding sends the payload whole, and frames of padding behind it. *)
(***************************************************************************)
PadState == [out : Seq(Toks), left : Seq(Toks), stop : BOOLEAN]
Padded(s, x) ==
    /\ s \in PadState
    /\ \E w : Hollow(w) /\ s.out \o s.left = x \o w /\ (w = <<>> \/ s.left = <<>>)

(* Cutting a sequence in two.                                              *)
LEMMA CutToks ==
    ASSUME NEW o \in Seq(Toks), NEW l \in Seq(Toks), NEW n \in 0..Len(l)
    PROVE  /\ SubSeq(l, 1, n) \in Seq(Toks) /\ SubSeq(l, n + 1, Len(l)) \in Seq(Toks)
           /\ (o \o SubSeq(l, 1, n)) \o SubSeq(l, n + 1, Len(l)) = o \o l
  <1>1. SubSeq(l, 1, n) \in Seq(Toks) /\ SubSeq(l, n + 1, Len(l)) \in Seq(Toks)
    OBVIOUS
  <1>2. SubSeq(l, 1, n) \o SubSeq(l, n + 1, Len(l)) = l
    <2>1. SubSeq(l, 1, n) \o SubSeq(l, n + 1, Len(l)) = SubSeq(l, 1, Len(l))
      <3>1. 1 \in 1..(Len(l) + 1) /\ n \in (1 - 1)..Len(l) /\ Len(l) \in n..Len(l)
        OBVIOUS
      <3> QED
        BY <3>1, ConcatAdjacentSubSeq
    <2>2. SubSeq(l, 1, Len(l)) = l
      OBVIOUS
    <2> QED
      BY <2>1, <2>2
  <1> DEFINE a == SubSeq(l, 1, n)  b == SubSeq(l, n + 1, Len(l))
  <1>3. a \in Seq(Toks) /\ b \in Seq(Toks) /\ a \o b = l
    BY <1>1, <1>2
  <1> HIDE DEF a, b
  <1>4. (o \o a) \o b = o \o (a \o b)
    <2>1. a \in Seq(Toks) /\ b \in Seq(Toks)
      BY <1>3
    <2> QED
      BY <2>1, ConcatAssociative, SMTT(40)
  <1> QED
    BY <1>1, <1>3, <1>4 DEF a, b

LEMMA AssocToks ==
    ASSUME NEW a \in Seq(Toks), NEW b \in Seq(Toks), NEW c \in Seq(Toks)
    PROVE  (a \o b) \o c = a \o (b \o c)
  BY ConcatAssociative, SMTT(40)

\* What the writer task and rustls hold moves on, and stays in order.
Holding(a, b, c, n, e, m) ==
    /\ a \in Seq(Toks) /\ b \in Seq(Toks) /\ c \in Seq(Toks) /\ n \in 0..Len(c)
    /\ e = b \o SubSeq(c, 1, n) /\ m \in 0..Len(e)
Moves(a, b, c, n, e, m) ==
    /\ a \o SubSeq(e, 1, m) \in Seq(Toks) /\ SubSeq(e, m + 1, Len(e)) \in Seq(Toks)
    /\ SubSeq(c, n + 1, Len(c)) \in Seq(Toks)
    /\ (a \o SubSeq(e, 1, m)) \o (SubSeq(e, m + 1, Len(e)) \o SubSeq(c, n + 1, Len(c))) = a \o (b \o c)

LEMMA PushSame ==
    ASSUME NEW a, NEW b, NEW c, NEW n, NEW e, NEW m, Holding(a, b, c, n, e, m)
    PROVE  Moves(a, b, c, n, e, m)
  <1>0. /\ a \in Seq(Toks) /\ b \in Seq(Toks) /\ c \in Seq(Toks) /\ n \in 0..Len(c)
        /\ e = b \o SubSeq(c, 1, n) /\ m \in 0..Len(e)
    BY DEF Holding
  <1> DEFINE c1 == SubSeq(c, 1, n)  c2 == SubSeq(c, n + 1, Len(c))
             e1 == SubSeq(e, 1, m)  e2 == SubSeq(e, m + 1, Len(e))
  <1>1. c1 \in Seq(Toks) /\ c2 \in Seq(Toks) /\ (b \o c1) \o c2 = b \o c
    BY <1>0, CutToks
  <1>2. e \in Seq(Toks)
    BY <1>0, <1>1
  <1>3. e1 \in Seq(Toks) /\ e2 \in Seq(Toks) /\ (a \o e1) \o e2 = a \o e
    BY <1>0, <1>2, CutToks
  <1>4. e = b \o c1
    BY <1>0
  <1> HIDE DEF c1, c2, e1, e2
  <1>5. a \o e1 \in Seq(Toks)
    BY <1>0, <1>3
  <1>6. (a \o e1) \o (e2 \o c2) = ((a \o e1) \o e2) \o c2
    BY <1>1, <1>3, <1>5, AssocToks, Zenon
  <1>7. (a \o e) \o c2 = a \o (e \o c2)
    <2>1. a \in Seq(Toks) /\ c2 \in Seq(Toks)
      BY <1>0, <1>1
    <2> QED
      BY <2>1, <1>2, AssocToks, Zenon
  <1>8. (a \o e1) \o (e2 \o c2) = a \o (b \o c)
    BY <1>1, <1>3, <1>4, <1>6, <1>7, Zenon
  <1> QED
    BY <1>1, <1>3, <1>5, <1>8 DEF c1, c2, e1, e2, Moves

(* One entry of the scheme.                                                *)
LEMMA PadStep ==
    ASSUME NEW s, NEW x \in Seq(Toks), Padded(s, x), NEW size \in Nat
    PROVE  Padded(PadOne(s, size), x)
  <1> DEFINE r == PadOne(s, size)
  <1>1. /\ s \in PadState /\ s.out \in Seq(Toks) /\ s.left \in Seq(Toks)
    BY DEF Padded, PadState
  <1>2. PICK w : Hollow(w) /\ s.out \o s.left = x \o w /\ (w = <<>> \/ s.left = <<>>)
    BY DEF Padded
  <1>3. w \in Seq(Toks) /\ Len(s.left) \in Nat
    BY <1>1, <1>2 DEF Hollow
  <1>4. CASE s.stop \/ size = Check
    <2>1. r \in PadState /\ r.out = s.out /\ r.left = s.left
      <3>1. CASE s.stop
        BY <1>1, <3>1 DEF PadOne
      <3>2. CASE ~s.stop
        <4>1. r = [s EXCEPT !.stop = s.left = <<>>]
          BY <1>4, <3>2 DEF PadOne
        <4> HIDE DEF r
        <4> QED
          BY <1>1, <4>1 DEF PadState
      <3> QED
        BY <3>1, <3>2
    <2> HIDE DEF r
    <2>2. Padded(r, x)
      BY <1>2, <2>1 DEF Padded
    <2> QED
      BY <2>2 DEF r
  <1>5. CASE ~s.stop /\ size # Check /\ Len(s.left) > size
    <2>1. r = [s EXCEPT !.out = s.out \o SubSeq(s.left, 1, size), !.left = SubSeq(s.left, size + 1, Len(s.left))]
      BY <1>5 DEF PadOne
    <2>2. size \in 0..Len(s.left) /\ s.left # <<>>
      BY <1>3, <1>5
    <2> DEFINE a == s.out \o SubSeq(s.left, 1, size)  b == SubSeq(s.left, size + 1, Len(s.left))
    <2>3. a \in Seq(Toks) /\ b \in Seq(Toks) /\ a \o b = s.out \o s.left
      <3>1. SubSeq(s.left, 1, size) \in Seq(Toks) /\ b \in Seq(Toks) /\ a \o b = s.out \o s.left
        BY <1>1, <2>2, CutToks
      <3> DEFINE c == SubSeq(s.left, 1, size)  o == s.out
      <3>2. o \in Seq(Toks) /\ c \in Seq(Toks)
        BY <1>1, <3>1
      <3> HIDE DEF c, o
      <3>3. o \o c \in Seq(Toks)
        BY <3>2
      <3> QED
        BY <3>1, <3>3 DEF c, o
    <2>4. r = [s EXCEPT !.out = a, !.left = b]
      BY <2>1
    <2> HIDE DEF a, b, r
    <2>5. r \in PadState /\ r.out = a /\ r.left = b
      BY <1>1, <2>3, <2>4 DEF PadState
    <2>6. Padded(r, x)
      BY <1>2, <2>2, <2>3, <2>5 DEF Padded
    <2> QED
      BY <2>6 DEF r
  <1>6. CASE ~s.stop /\ size # Check /\ ~(Len(s.left) > size) /\ s.left # <<>>
    <2> DEFINE waste == Less(size, Len(s.left) + 1)
               v == IF waste > 0 THEN encode_waste_frame(waste) ELSE <<>>
    <2>1. r = [s EXCEPT !.out = (s.out \o s.left) \o v, !.left = <<>>]
      BY <1>6 DEF PadOne
    <2>2. waste \in Nat
      BY <1>3 DEF Less
    <2>3. Hollow(v)
      BY <2>2, HollowFrames, HollowEmpty
    <2>4. w = <<>> /\ x \o w = x
      BY <1>2, <1>6
    <2> HIDE DEF v, waste, r
    <2>5. v \in Seq(Toks) /\ r.out = x \o v /\ r.left = <<>> /\ r \in PadState
      <3>1. v \in Seq(Toks)
        BY <2>3 DEF Hollow
      <3>2. x \o v \in Seq(Toks) /\ <<>> \in Seq(Toks)
        BY <3>1
      <3>3. r = [s EXCEPT !.out = x \o v, !.left = <<>>]
        BY <1>2, <2>1, <2>4
      <3> QED
        BY <1>1, <3>1, <3>2, <3>3 DEF PadState
    <2>6. r.out \o r.left = x \o v
      BY <2>5
    <2>7. Padded(r, x)
      BY <2>3, <2>5, <2>6 DEF Padded
    <2> QED
      BY <2>7 DEF r
  <1>7. CASE ~s.stop /\ size # Check /\ ~(Len(s.left) > size) /\ s.left = <<>>
    <2> DEFINE v == encode_waste_frame(size)
    <2>1. r = [s EXCEPT !.out = s.out \o v]
      BY <1>7 DEF PadOne
    <2>2. Hollow(v)
      BY HollowFrames
    <2> HIDE DEF v, r
    <2>3. v \in Seq(Toks) /\ s.out = x \o w
      BY <1>1, <1>2, <1>7, <2>2 DEF Hollow
    <2>4. (x \o w) \o v = x \o (w \o v)
      BY <1>3, <2>3, ConcatAssociative
    <2>5. Hollow(w \o v)
      BY <1>2, <2>2, HollowConcat
    <2>6. r \in PadState /\ r.out = x \o (w \o v) /\ r.left = <<>> /\ r.out \in Seq(Toks)
      <3>1. s.out \o v \in Seq(Toks)
        BY <1>1, <2>3
      <3> QED
        BY <1>1, <1>7, <2>1, <2>3, <2>4, <3>1 DEF PadState
    <2>7. r.out \o r.left = x \o (w \o v)
      BY <2>6
    <2>8. Padded(r, x)
      BY <2>5, <2>6, <2>7 DEF Padded
    <2> QED
      BY <2>8 DEF r
  <1> QED
    BY <1>4, <1>5, <1>6, <1>7

\* The whole scheme.
LEMMA PaddingWhole ==
    ASSUME NEW sizes \in Seq(Nat), NEW x \in Seq(Toks)
    PROVE  \E w : Hollow(w) /\ apply_padding(sizes, x) = x \o w
  <1> DEFINE b == [out |-> <<>>, left |-> x, stop |-> FALSE]
             n == Len(sizes)
             Good(j) == Padded(Run("pad", b, sizes, j), x)
             T == {j \in 0..n : ~Good(j)}
  <1>1. n \in Nat /\ DOMAIN sizes = 1..n /\ \A j \in 1..n : sizes[j] \in Nat
    OBVIOUS
  <1>2. Good(0)
    <2>1. Run("pad", b, sizes, 0) = b
      BY RunStep
    <2>2. b \in PadState /\ b.out \o b.left = x \o <<>> /\ Hollow(<<>>)
      BY HollowEmpty DEF PadState
    <2> HIDE DEF b
    <2> QED
      BY <2>1, <2>2 DEF Padded
  <1> HIDE DEF b
  <1>3. ASSUME NEW j \in 1..n, Good(j - 1) PROVE Good(j)
    <2>1. (j - 1) + 1 = j /\ j - 1 \in Nat
      BY <1>1
    <2>2. Run("pad", b, sizes, j) = Op("pad", Run("pad", b, sizes, j - 1), sizes[j])
      BY <2>1, RunStep
    <2>3. Run("pad", b, sizes, j) = PadOne(Run("pad", b, sizes, j - 1), sizes[j])
      BY <2>2 DEF Op
    <2> QED
      BY <1>1, <1>3, <2>3, PadStep
  <1>4. Good(n)
    <2> HIDE DEF Good
    <2>1. SUFFICES ASSUME T # {} PROVE FALSE
      BY <1>1
    <2>2. PICK j \in T : \A i \in T : j <= i
      <3>1. T \in SUBSET (0..n)
        OBVIOUS
      <3> HIDE DEF T
      <3> QED
        BY <1>1, <2>1, <3>1, LeastUpTo
    <2>3. j \in 0..n /\ ~Good(j)
      BY <2>2
    <2>4. j # 0 => Good(j - 1)
      BY <1>1, <2>2, <2>3
    <2> HIDE DEF T
    <2> QED
      BY <1>1, <1>2, <1>3, <2>3, <2>4
  <1> DEFINE p == Whole("pad", b, sizes)
  <1>5. Padded(p, x)
    BY <1>4 DEF Whole
  <1>6. apply_padding(sizes, x) = p.out \o p.left
    BY <1>1, PadFold DEF apply_padding, b
  <1> QED
    BY <1>5, <1>6 DEF Padded

-----------------------------------------------------------------------------
(***************************************************************************)
(* Queues between the parts of AnyTls.  Each element takes its stream from *)
(* one position to a later one: payloads the writer task is to send,       *)
(* frames the reader task is to read and chunks the caller is to read.     *)
(***************************************************************************)
Frames == [cmd : {"psh"}, data : Seq(Toks)] \cup [cmd : {"update"}, scheme : Schemes]
          \cup [cmd : {"waste", "heart_request", "fin", "alert"}]
\* the next token, or nothing
Holds(x, i, j) == (j = i + 1 /\ x = <<Item("data", j)>>) \/ (j = i /\ x = <<>>)
Link(k, x, i, j) ==
    \/ k = "payload" /\ Carries(x, i, j)
    \/ k = "frame" /\ x \in Frames /\ (IF x.cmd = "psh" THEN Holds(x.data, i, j) ELSE j = i)
    \/ k = "chunk" /\ Holds(x, i, j)
\* at: the position behind each element
Positions(k, q, n, at) ==
    /\ n \in Nat /\ at \in [0..n -> Nat]
    /\ \A a, b \in 0..n : a <= b => at[a] <= at[b]
    /\ \A m \in 1..n : Link(k, q[m], at[m - 1], at[m])
Chain(k, q, i, j) == \E at : Positions(k, q, Len(q), at) /\ at[0] = i /\ at[Len(q)] = j

(* The ends of a queue.                                                    *)
LEMMA ChainEnds ==
    ASSUME NEW k, NEW q, NEW i, NEW j, Chain(k, q, i, j)
    PROVE  i \in Nat /\ j \in Nat /\ i <= j
  <1> DEFINE n == Len(q)
  <1>1. PICK at : Positions(k, q, n, at) /\ at[0] = i /\ at[n] = j
    BY DEF Chain
  <1> HIDE DEF n
  <1>2. n \in Nat /\ at \in [0..n -> Nat] /\ 0 \in 0..n /\ n \in 0..n /\ 0 <= n
    BY <1>1 DEF Positions
  <1>3. at[0] <= at[n]
    BY <1>1, <1>2 DEF Positions
  <1> QED
    BY <1>1, <1>2, <1>3

(* The empty queue.                                                        *)
LEMMA ChainEmpty ==
    /\ \A k : \A i \in Nat : Chain(k, <<>>, i, i)
    /\ \A k, i, j : Chain(k, <<>>, i, j) => i = j
  <1>0. Len(<<>>) = 0
    OBVIOUS
  <1>1. ASSUME NEW k, NEW i \in Nat PROVE Chain(k, <<>>, i, i)
    <2> DEFINE at == [n \in 0..0 |-> i]
               e == <<>>
    <2>1. at \in [0..0 -> Nat] /\ at[0] = i /\ \A a \in 0..0 : a = 0
      OBVIOUS
    <2> HIDE DEF at, e
    <2>2. Positions(k, e, 0, at)
      BY <2>1 DEF Positions
    <2>3. Chain(k, e, i, i)
      <3>1. Len(e) = 0
        BY <1>0 DEF e
      <3> QED
        BY <2>1, <2>2, <3>1 DEF Chain
    <2> QED
      BY <2>3 DEF e
  <1>2. ASSUME NEW k, NEW i, NEW j, Chain(k, <<>>, i, j) PROVE i = j
    BY <1>0, <1>2 DEF Chain
  <1> QED
    BY <1>1, <1>2

(* One more behind the last.                                               *)
Spans(k, q, n, at, i, j) == Positions(k, q, n, at) /\ at[0] = i /\ at[n] = j
Longer(q, n, r, l, x) == n \in Nat /\ l = n + 1 /\ r[n + 1] = x /\ \A m \in 1..n : r[m] = q[m]
Further(k, x, j, h) == h \in Nat /\ j <= h /\ Link(k, x, j, h)

\* The positions with one more element.
LEMMA PositionsMore ==
    ASSUME NEW k, NEW q, NEW r, NEW n, NEW l, NEW at, NEW i, NEW j, NEW h, NEW x,
           Spans(k, q, n, at, i, j), Further(k, x, j, h), Longer(q, n, r, l, x)
    PROVE  \E to : Spans(k, r, l, to, i, h)
  <1>0. /\ n \in Nat /\ l = n + 1 /\ r[n + 1] = x /\ \A m \in 1..n : r[m] = q[m]
        /\ h \in Nat /\ at[n] <= h /\ Link(k, x, at[n], h)
    BY DEF Longer, Further, Spans
  <1> DEFINE to == [m \in 0..(n + 1) |-> IF m = n + 1 THEN h ELSE at[m]]
  <1>1. at \in [0..n -> Nat] /\ \A a, b \in 0..n : a <= b => at[a] <= at[b]
    BY DEF Positions, Spans
  <1>2. to \in [0..(n + 1) -> Nat] /\ to[0] = at[0] /\ to[n + 1] = h /\ n + 1 \in Nat
    BY <1>0, <1>1
  <1>3. ASSUME NEW a \in 0..(n + 1), NEW b \in 0..(n + 1), a <= b PROVE to[a] <= to[b]
    <2>1. CASE b = n + 1
      <3>1. a # n + 1 => a \in 0..n /\ a <= n /\ n \in 0..n
        BY <1>0
      <3>2. a # n + 1 => at[a] <= at[n] /\ at[a] \in Nat /\ at[n] \in Nat
        BY <1>1, <3>1
      <3> QED
        BY <1>0, <2>1, <3>2
    <2>2. CASE b # n + 1
      <3>1. a \in 0..n /\ b \in 0..n /\ to[a] = at[a] /\ to[b] = at[b]
        BY <1>0, <1>3, <2>2
      <3> QED
        BY <1>1, <1>3, <3>1
    <2> QED
      BY <2>1, <2>2
  <1>4. ASSUME NEW m \in 1..(n + 1) PROVE Link(k, r[m], to[m - 1], to[m])
    <2>1. CASE m = n + 1
      <3>1. to[m - 1] = at[n] /\ to[m] = h /\ r[m] = x
        BY <1>0, <2>1
      <3> QED
        BY <1>0, <3>1
    <2>2. CASE m # n + 1
      <3>1. m \in 1..n /\ to[m - 1] = at[m - 1] /\ to[m] = at[m] /\ r[m] = q[m]
        BY <1>0, <2>2
      <3> QED
        BY <3>1 DEF Positions, Spans
    <2> QED
      BY <2>1, <2>2
  <1> HIDE DEF to
  <1>5. Positions(k, r, n + 1, to)
    BY <1>2, <1>3, <1>4 DEF Positions
  <1> QED
    BY <1>0, <1>2, <1>5 DEF Spans

\* The queue with one more element.
LEMMA ChainAppend ==
    ASSUME NEW k, NEW S, NEW q \in Seq(S), NEW x \in S, NEW i, NEW j, NEW h,
           Chain(k, q, i, j), Further(k, x, j, h)
    PROVE  Append(q, x) \in Seq(S) /\ Chain(k, Append(q, x), i, h)
  <1> DEFINE r == Append(q, x)
             n == Len(q)
             l == Len(r)
  <1>1. n \in Nat /\ r \in Seq(S) /\ l = n + 1 /\ r[n + 1] = x /\ \A m \in 1..n : r[m] = q[m]
    OBVIOUS
  <1>2. PICK at : Positions(k, q, n, at) /\ at[0] = i /\ at[n] = j
    BY DEF Chain
  <1> HIDE DEF n, l, r
  <1>3. Longer(q, n, r, l, x)
    BY <1>1, <1>2 DEF Longer
  <1>4. Chain(k, r, i, h)
    <2>1. Spans(k, q, n, at, i, j)
      BY <1>2 DEF Spans
    <2>2. PICK to : Spans(k, r, l, to, i, h)
      BY <1>3, <2>1, PositionsMore
    <2> QED
      BY <2>2 DEF Chain, Spans, l
  <1> QED
    BY <1>1, <1>4 DEF r

(* Off the front.                                                          *)
LEMMA PositionsLess ==
    ASSUME NEW k, NEW q, NEW r, NEW n \in Nat, NEW at, Positions(k, q, n + 1, at),
           \A m \in 1..n : r[m] = q[m + 1]
    PROVE  \E to : Positions(k, r, n, to) /\ to[0] = at[1] /\ to[n] = at[n + 1]
  <1> DEFINE to == [m \in 0..n |-> at[m + 1]]
  <1>1. at \in [0..(n + 1) -> Nat] /\ \A a, b \in 0..(n + 1) : a <= b => at[a] <= at[b]
    BY DEF Positions
  <1>2. to \in [0..n -> Nat] /\ to[0] = at[1] /\ to[n] = at[n + 1]
    BY <1>1
  <1>3. ASSUME NEW a \in 0..n, NEW b \in 0..n, a <= b PROVE to[a] <= to[b]
    <2>1. a + 1 \in 0..(n + 1) /\ b + 1 \in 0..(n + 1) /\ a + 1 <= b + 1 /\ to[a] = at[a + 1] /\ to[b] = at[b + 1]
      BY <1>3
    <2> QED
      BY <1>1, <2>1
  <1>4. ASSUME NEW m \in 1..n PROVE Link(k, r[m], to[m - 1], to[m])
    <2>1. m + 1 \in 1..(n + 1) /\ (m + 1) - 1 = m /\ to[m - 1] = at[m] /\ to[m] = at[m + 1]
      OBVIOUS
    <2>2. Link(k, q[m + 1], at[(m + 1) - 1], at[m + 1])
      BY <2>1 DEF Positions
    <2> QED
      BY <2>1, <2>2
  <1> HIDE DEF to
  <1> QED
    BY <1>2, <1>3, <1>4 DEF Positions

\* The queue without its first element.
LEMMA ChainTail ==
    ASSUME NEW k, NEW S, NEW q \in Seq(S), NEW i, NEW j, Chain(k, q, i, j), q # <<>>
    PROVE  /\ Head(q) \in S /\ Tail(q) \in Seq(S)
           /\ \E h \in Nat : i <= h /\ h <= j /\ Link(k, Head(q), i, h) /\ Chain(k, Tail(q), h, j)
  <1> DEFINE r == Tail(q)
             n == Len(r)
  <1>1. /\ n \in Nat /\ Len(q) = n + 1 /\ Head(q) = q[1] /\ \A m \in 1..n : r[m] = q[m + 1]
        /\ Head(q) \in S /\ r \in Seq(S)
    OBVIOUS
  <1> HIDE DEF r
  <1>2. PICK at : Positions(k, q, n + 1, at) /\ at[0] = i /\ at[n + 1] = j
    BY <1>1 DEF Chain
  <1>3. PICK to : Positions(k, r, n, to) /\ to[0] = at[1] /\ to[n] = at[n + 1]
    BY <1>1, <1>2, PositionsLess
  <1>4. Chain(k, r, at[1], j)
    BY <1>2, <1>3 DEF Chain
  <1> HIDE DEF n
  <1>5. n \in Nat /\ 1 \in 1..(n + 1) /\ 1 - 1 = 0 /\ {0, 1, n + 1} \in SUBSET (0..(n + 1)) /\ 0 <= 1 /\ 1 <= n + 1
    BY <1>1 DEF n
  <1>6. at[1] \in Nat /\ at[0] <= at[1] /\ at[1] <= at[n + 1] /\ Link(k, q[1], at[0], at[1])
    <2>1. at \in [0..(n + 1) -> Nat] /\ \A a, b \in 0..(n + 1) : a <= b => at[a] <= at[b]
      BY <1>2 DEF Positions
    <2>2. Link(k, q[1], at[1 - 1], at[1])
      BY <1>2, <1>5 DEF Positions
    <2> QED
      BY <1>5, <2>1, <2>2
  <1> QED
    BY <1>1, <1>2, <1>4, <1>6 DEF r

(* Cut off at the end.                                                     *)
Begins(r, n, q, m) == m \in Nat /\ n \in 0..m /\ \A l \in 1..n : r[l] = q[l]

\* The positions of the elements that are left.
LEMMA PositionsPart ==
    ASSUME NEW k, NEW q, NEW r, NEW m, NEW n, NEW at, Positions(k, q, m, at), Begins(r, n, q, m)
    PROVE  \E to : Positions(k, r, n, to) /\ to[0] = at[0] /\ to[n] = at[n]
  <1>0. m \in Nat /\ n \in 0..m /\ \A l \in 1..n : r[l] = q[l]
    BY DEF Begins
  <1> DEFINE to == [l \in 0..n |-> at[l]]
  <1>1. at \in [0..m -> Nat] /\ \A a, b \in 0..m : a <= b => at[a] <= at[b]
    BY DEF Positions
  <1>2. to \in [0..n -> Nat] /\ to[0] = at[0] /\ to[n] = at[n] /\ n \in Nat
    BY <1>0, <1>1
  <1>3. ASSUME NEW a \in 0..n, NEW b \in 0..n, a <= b PROVE to[a] <= to[b]
    BY <1>0, <1>1, <1>3
  <1>4. ASSUME NEW l \in 1..n PROVE Link(k, r[l], to[l - 1], to[l])
    <2>1. l \in 1..m /\ to[l - 1] = at[l - 1] /\ to[l] = at[l]
      BY <1>0
    <2> QED
      BY <1>0, <2>1 DEF Positions
  <1> HIDE DEF to
  <1> QED
    BY <1>2, <1>3, <1>4 DEF Positions

\* The queue whose end was cut off.
LEMMA ChainCut ==
    ASSUME NEW k, NEW S, NEW q \in Seq(S), NEW i, NEW j, Chain(k, q, i, j), NEW n \in 0..Len(q)
    PROVE  /\ SubSeq(q, 1, n) \in Seq(S)
           /\ \E h \in Nat : h <= j /\ Chain(k, SubSeq(q, 1, n), i, h)
  <1> DEFINE r == SubSeq(q, 1, n)
             m == Len(q)
  <1>1. m \in Nat /\ r \in Seq(S) /\ Len(r) = n /\ \A l \in 1..n : r[l] = q[l]
    OBVIOUS
  <1>2. PICK at : Positions(k, q, m, at) /\ at[0] = i /\ at[m] = j
    BY DEF Chain
  <1> HIDE DEF r, m
  <1>3. n \in 0..m
    BY DEF m
  <1>4. PICK to : Positions(k, r, n, to) /\ to[0] = at[0] /\ to[n] = at[n]
    <2>1. Begins(r, n, q, m)
      BY <1>1, <1>3 DEF Begins
    <2> QED
      BY <1>2, <2>1, PositionsPart
  <1>5. Chain(k, r, i, at[n])
    BY <1>1, <1>2, <1>4 DEF Chain
  <1>6. at[n] \in Nat /\ at[n] <= at[m]
    <2>1. at \in [0..m -> Nat] /\ \A a, b \in 0..m : a <= b => at[a] <= at[b]
      BY <1>2 DEF Positions
    <2>2. m \in 0..m /\ n <= m
      BY <1>1, <1>3
    <2> QED
      BY <1>3, <2>1, <2>2
  <1> QED
    BY <1>1, <1>2, <1>5, <1>6 DEF r

-----------------------------------------------------------------------------
(***************************************************************************)
(* What each payload of AnyTls carries.                                    *)
(***************************************************************************)
LEMMA CarriesConcat ==
    ASSUME NEW x, NEW y, NEW i, NEW j, NEW k, Carries(x, i, j), Carries(y, j, k)
    PROVE  Carries(x \o y, i, k)
  <1>1. x \in Seq(Toks) /\ y \in Seq(Toks) /\ x \o y \in Seq(Toks)
    BY DEF Carries
  <1>2. ASSUME NEW s, Boundary(s), s.payload = Stream(i)
        PROVE  Boundary(ParseAll(s, x \o y)) /\ ParseAll(s, x \o y).payload = Stream(k)
    <2>1. Boundary(ParseAll(s, x)) /\ ParseAll(s, x).payload = Stream(j)
      BY <1>2, Zenon DEF Carries
    <2>2. Boundary(ParseAll(ParseAll(s, x), y)) /\ ParseAll(ParseAll(s, x), y).payload = Stream(k)
      BY <2>1, Zenon DEF Carries
    <2>3. ParseAll(s, x \o y) = ParseAll(ParseAll(s, x), y)
      BY <1>1, ParseConcat, Zenon
    <2> QED
      BY <2>2, <2>3, Zenon
  <1> QED
    BY <1>1, <1>2, Zenon DEF Carries

(* Cut and padded, a payload carries the same.                             *)
LEMMA PaddingCarries ==
    ASSUME NEW sizes \in Seq(Nat), NEW x, NEW i, NEW j, Carries(x, i, j)
    PROVE  Carries(apply_padding(sizes, x), i, j)
  <1>1. x \in Seq(Toks)
    BY DEF Carries
  <1>2. PICK w : Hollow(w) /\ apply_padding(sizes, x) = x \o w
    BY <1>1, PaddingWhole
  <1> QED
    BY <1>2, CarriesHollow

(* A PSH frame with the next tokens of the stream.                         *)
LEMMA PshCarries ==
    ASSUME NEW i \in Nat, NEW data \in Seq(Toks), NEW to, to = i + Len(data),
           \A l \in 1..Len(data) : data[l] = Stream(to)[i + l]
    PROVE  Carries(encode_frame("psh", data), i, to)
  <1> DEFINE k == Len(data)
  <1>1. to = i + k /\ k \in Nat /\ i + k \in Nat /\ \A l \in 1..k : i + l \in 1..(i + k)
    OBVIOUS
  <1>0. \A l \in 1..k : data[l] = Stream(i + k)[i + l]
    OBVIOUS
  <1>2. "psh" \in Commands /\ \A l \in 1..Len(data) : data[l].t \notin Commands
    <2>1. \A n \in 1..(i + k) : Stream(i + k)[n].t \in {"address", "data"}
      BY <1>1 DEF Stream, Item
    <2>2. \A l \in 1..k : data[l].t \in {"address", "data"}
      BY <1>0, <1>1, <2>1
    <2> QED
      BY <2>2 DEF Commands
  <1>3. Stream(i) \o data = Stream(i + k)
    <2>1. Stream(i) \in Seq(Toks) /\ Len(Stream(i)) = i /\ Stream(i + k) \in Seq(Toks) /\ Len(Stream(i + k)) = i + k
      BY <1>1 DEF Stream, Toks, Marks, Item
    <2>2. \A n \in 1..i : Stream(i)[n] = Stream(i + k)[n]
      BY <1>1 DEF Stream
    <2> DEFINE a == Stream(i)  b == Stream(i + k)  c == a \o data
    <2>3. /\ a \in Seq(Toks) /\ b \in Seq(Toks) /\ Len(a) = i /\ Len(b) = i + k
          /\ (\A n \in 1..i : a[n] = b[n]) /\ \A l \in 1..k : data[l] = b[i + l]
      BY <1>0, <2>1, <2>2
    <2> HIDE DEF a, b
    <2>4. c \in Seq(Toks) /\ Len(c) = i + k
      <3>1. a \in Seq(Toks) /\ data \in Seq(Toks)
        BY <2>3
      <3>2. c \in Seq(Toks) /\ Len(c) = Len(a) + Len(data)
        BY <3>1
      <3> QED
        BY <2>3, <3>2
    <2>5. ASSUME NEW n \in 1..(i + k) PROVE c[n] = b[n]
      <3>1. CASE n <= i
        BY <2>3, <3>1
      <3>2. CASE ~(n <= i)
        <4>1. n - i \in 1..k /\ i + (n - i) = n
          BY <1>1, <3>2
        <4>2. c[n] = data[n - i]
          BY <2>3, <3>2
        <4> QED
          BY <2>3, <4>1, <4>2
      <3> QED
        BY <3>1, <3>2
    <2> HIDE DEF c
    <2>6. c = b
      BY <1>1, <2>3, <2>4, <2>5
    <2> QED
      BY <2>6 DEF a, b, c
  <1>4. encode_frame("psh", data) \in Seq(Toks)
    <2>1. Item("psh", Len(data)) \in Toks
      BY <1>1, <1>2 DEF Item, Toks, Marks
    <2> QED
      BY <2>1 DEF encode_frame
  <1>5. ASSUME NEW s, Boundary(s), s.payload = Stream(i)
        PROVE  /\ Boundary(ParseAll(s, encode_frame("psh", data)))
               /\ ParseAll(s, encode_frame("psh", data)).payload = Stream(to)
    <2>1. /\ Boundary(ParseAll(s, encode_frame("psh", data)))
          /\ ParseAll(s, encode_frame("psh", data)).payload = s.payload \o data
      BY <1>2, <1>5, ParseFrame
    <2> QED
      BY <1>1, <1>3, <1>5, <2>1
  <1> QED
    BY <1>4, <1>5 DEF Carries

\* A frame of what the caller wrote.
LEMMA DataCarries ==
    ASSUME NEW n \in Nat, NEW k \in Nat
    PROVE  Carries(encode_frame("psh", [i \in 1..k |-> Item("data", n + i)]), n + 1, n + k + 1)
  <1> DEFINE data == [i \in 1..k |-> Item("data", n + i)]
  <1>1. data \in Seq(Toks) /\ Len(data) = k /\ \A i \in 1..k : data[i] = Item("data", n + i)
    <2>1. \A i \in 1..k : Item("data", n + i) \in Toks
      BY DEF Item, Toks, Marks
    <2> QED
      BY <2>1
  <1> HIDE DEF data
  <1>2. \A l \in 1..k : Stream((n + 1) + k)[(n + 1) + l] = Item("data", n + l)
    <2> TAKE l \in 1..k
    <2>1. (n + 1) + l \in 1..((n + 1) + k) /\ (n + 1) + l # 1 /\ (n + 1) + l - 1 = n + l
      OBVIOUS
    <2> QED
      BY <2>1 DEF Stream
  <1>3. Carries(encode_frame("psh", data), n + 1, (n + 1) + k)
    <2> DEFINE i == n + 1  to == (n + 1) + k
    <2>1. i \in Nat /\ to = i + Len(data) /\ \A l \in 1..Len(data) : data[l] = Stream(to)[i + l]
      <3>1. \A l \in 1..k : data[l] = Stream(to)[i + l]
        BY <1>1, <1>2, Zenon
      <3> QED
        BY <1>1, <3>1
    <2> HIDE DEF i, to
    <2>2. Carries(encode_frame("psh", data), i, to)
      BY <1>1, <2>1, PshCarries
    <2> QED
      BY <2>2 DEF i, to
  <1>4. (n + 1) + k = n + k + 1
    OBVIOUS
  <1> QED
    BY <1>3, <1>4 DEF data

\* The first payload carries the address.
LEMMA InitialCarries == Carries(InitialPayload, 0, 1)
  <1> DEFINE a == encode_frame("settings", <<>>)  b == encode_frame("syn", <<>>)
             data == <<Item("address", 0)>>
             c == encode_frame("psh", data)
  <1>1. Hollow(a) /\ Hollow(b)
    BY HollowFrames DEF Commands
  <1>2. Carries(c, 0, 1)
    <2>1. Item("address", 0) \in Toks
      BY DEF Item, Toks, Marks
    <2>2. data \in Seq(Toks) /\ Len(data) = 1 /\ data[1] = Item("address", 0)
      BY <2>1
    <2>3. Stream(0 + 1)[0 + 1] = Item("address", 0)
      BY DEF Stream
    <2> HIDE DEF data
    <2>4. 1 = 0 + Len(data) /\ \A l \in 1..Len(data) : data[l] = Stream(1)[0 + l]
      <3>1. \A l \in 1..Len(data) : l = 1
        BY <2>2
      <3> QED
        BY <2>2, <2>3, <3>1
    <2> QED
      BY <2>2, <2>4, PshCarries
  <1> HIDE DEF a, b, c
  <1>3. Carries(a \o b, 0, 0)
    BY <1>1, HollowConcat, HollowCarries
  <1>4. Carries((a \o b) \o c, 0, 1)
    BY <1>2, <1>3, CarriesConcat
  <1> QED
    BY <1>4 DEF InitialPayload, a, b, c

-----------------------------------------------------------------------------
(***************************************************************************)
(* The inductive invariant of AnyTls.  To the server: what is on the       *)
(* socket, and behind it what rustls and the writer task hold, carries the *)
(* stream up to a position, and the writer's channel carries the rest of   *)
(* what was written; once the task is gone, what was sent is the beginning *)
(* of such a sequence.  From the server: the stream's channel holds what   *)
(* was pushed behind what the caller got, and what the reader task has not *)
(* read holds the rest; a FIN or an alert comes last.                      *)
(***************************************************************************)
AnyRec == [held : BOOLEAN, closed : BOOLEAN, writer : BOOLEAN, reader : BOOLEAN, pkt : Nat \ {0},
           padding : Schemes, cut : BOOLEAN, ended : BOOLEAN, frames : Nat]
SeenRec == [wrote : Nat, pushed : Nat, got : Seq(Toks), eof : BOOLEAN, hollow : BOOLEAN]
UpRec == [sent : Seq(Toks), tls : Seq(Toks), rest : Seq(Toks)]
AnyType ==
    /\ any \in AnyRec
    /\ write_rx \in Seq(Seq(Toks)) /\ read_rx \in Seq(Seq(Toks)) /\ upstream \in UpRec
    /\ downstream \in Seq(Frames)
    /\ seen \in SeenRec
\* r: what is still to come, as long as the writer task lives
UpSide(writer, q, u, wrote) ==
    \E i \in Nat, r \in Seq(Toks) :
        /\ i <= wrote + 1 /\ Carries(u.sent \o r, 0, i)
        /\ writer => r = u.tls \o u.rest /\ Chain("payload", q, i, wrote + 1)
Coming(h, cut, d, pushed) ==
    \E p \in Nat : p <= pushed /\ (~cut => p = pushed) /\ Chain("frame", d, h, p)
DownSide(a, r, d, got, pushed) ==
    \E h \in Nat :
        /\ h <= pushed /\ Chain("chunk", r, Len(got), h)
        /\ a.held /\ a.reader => Coming(h, a.cut, d, pushed)
        /\ a.held /\ ~a.reader /\ ~a.cut => h = pushed /\ a.ended
Data(n) == [i \in 1..n |-> Item("data", i)]
LastOnly(d, ended) == \A m \in 1..Len(d) : d[m].cmd \in {"fin", "alert"} => m = Len(d) /\ ended
EndSeen(a, s) == /\ s.got = Data(Len(s.got))
                 /\ s.eof /\ ~a.cut /\ ~s.hollow => Len(s.got) = s.pushed /\ a.ended
\* Only a server that pushed an empty frame makes empty chunks.
Empties(r, d, hollow) ==
    /\ \A m \in 1..Len(r) : r[m] = <<>> => hollow
    /\ \A m \in 1..Len(d) : d[m].cmd = "psh" /\ d[m].data = <<>> => hollow
AnyInv ==
    /\ AnyType
    /\ UpSide(any.writer, write_rx, upstream, seen.wrote)
    /\ DownSide(any, read_rx, downstream, seen.got, seen.pushed)
    /\ LastOnly(downstream, any.ended) /\ EndSeen(any, seen)
    /\ Empties(read_rx, downstream, seen.hollow)

(* The sizes of a packet are numbers, whatever the scheme.                 *)
LEMMA SizesType ==
    ASSUME AnyType PROVE generate_record_payload_sizes(any.pkt) \in Seq(Nat)
  <1>1. any.pkt \in Nat \ {0} /\ any.padding \in Seq(Seq(Nat))
    BY AnyTlsAssumption DEF AnyType, AnyRec, SeenRec, UpRec
  <1> DEFINE p == any.padding  n == any.pkt
  <1> HIDE DEF p, n
  <1>2. n \in Nat \ {0} /\ p \in Seq(Seq(Nat))
    BY <1>1 DEF p, n
  <1>3. (IF n > Len(p) THEN <<>> ELSE p[n]) \in Seq(Nat)
    <2>1. CASE n > Len(p)
      BY <2>1
    <2>2. CASE ~(n > Len(p))
      BY <1>2, <2>2
    <2> QED
      BY <2>1, <2>2
  <1> QED
    BY <1>3 DEF generate_record_payload_sizes, p, n

\* A session that is just open, or not yet.
LEMMA AnyStart ==
    ASSUME NEW open \in BOOLEAN, AnyInit(open) PROVE AnyInv
  <1>1. PICK p \in Schemes : any.padding = p
    BY AnyTlsAssumption DEF AnyInit, AnyRec, SeenRec, UpRec
  <1>2. AnyType
    <2>1. InitialPayload \in Seq(Toks)
      BY InitialCarries DEF Carries
    <2>2. (CHOOSE s \in Schemes : TRUE) \in Schemes
      BY AnyTlsAssumption
    <2>3. write_rx \in Seq(Seq(Toks))
      <3> HIDE DEF InitialPayload
      <3>1. <<InitialPayload>> \in Seq(Seq(Toks))
        BY <2>1
      <3> QED
        BY <3>1 DEF AnyInit, AnyRec, SeenRec, UpRec
    <2>4. read_rx \in Seq(Seq(Toks)) /\ upstream \in UpRec /\ downstream \in Seq(Frames)
      BY DEF AnyInit, AnyRec, SeenRec, UpRec
    <2>5. seen \in SeenRec
      BY DEF AnyInit, AnyRec, SeenRec, UpRec
    <2>6. any \in AnyRec
      BY <2>2 DEF AnyInit, AnyRec, SeenRec, UpRec
    <2> QED
      BY <2>3, <2>4, <2>5, <2>6 DEF AnyType, AnyRec, SeenRec, UpRec
  <1>3. UpSide(any.writer, write_rx, upstream, seen.wrote)
    <2>1. /\ upstream = [sent |-> <<>>, tls |-> <<>>, rest |-> <<>>] /\ seen.wrote = 0
          /\ any.writer => write_rx = <<InitialPayload>>
      BY DEF AnyInit, AnyRec, SeenRec, UpRec
    <2>2. Carries(upstream.sent \o <<>>, 0, 0) /\ <<>> \in Seq(Toks) /\ upstream.tls \o upstream.rest = <<>>
      <3>1. <<>> \in Seq(Toks) /\ <<>> \o <<>> = <<>>
        OBVIOUS
      <3>2. Carries(<<>>, 0, 0)
        BY HollowEmpty, HollowCarries
      <3> QED
        BY <2>1, <3>1, <3>2
    <2>3. Chain("payload", <<InitialPayload>>, 0, 1)
      <3> DEFINE x == InitialPayload  e == <<>>
      <3>1. x \in Seq(Toks) /\ Further("payload", x, 0, 1)
        BY InitialCarries DEF Carries, Further, Link
      <3>2. e \in Seq(Seq(Toks)) /\ Chain("payload", e, 0, 0)
        BY ChainEmpty
      <3>3. Append(e, x) = <<x>>
        OBVIOUS
      <3> HIDE DEF x, e
      <3>4. Chain("payload", Append(e, x), 0, 1)
        BY <3>1, <3>2, ChainAppend
      <3> QED
        BY <3>3, <3>4 DEF x
    <2>4. 0 \in Nat /\ 0 <= 0 + 1 /\ 0 + 1 = 1
      OBVIOUS
    <2> QED
      BY <2>1, <2>2, <2>3, <2>4 DEF UpSide
  <1>4. DownSide(any, read_rx, downstream, seen.got, seen.pushed)
    <2>1. /\ read_rx = <<>> /\ downstream = <<>> /\ seen.got = <<>> /\ seen.pushed = 0
          /\ any.held = any.reader /\ any.cut = ~open /\ any.held = open
      BY DEF AnyInit, AnyRec, SeenRec, UpRec
    <2>2. Chain("chunk", <<>>, 0, 0) /\ Chain("frame", <<>>, 0, 0) /\ Len(<<>>) = 0 /\ 0 \in Nat /\ 0 <= 0
      BY ChainEmpty
    <2>3. Coming(0, any.cut, downstream, seen.pushed)
      BY <2>1, <2>2 DEF Coming
    <2> QED
      BY <2>1, <2>2, <2>3 DEF DownSide
  <1>5. LastOnly(downstream, any.ended) /\ EndSeen(any, seen)
    <2>1. downstream = <<>> /\ seen.got = <<>> /\ seen.eof = FALSE
      BY DEF AnyInit, AnyRec, SeenRec, UpRec
    <2>2. Data(0) = <<>> /\ Len(<<>>) = 0
      BY DEF Data
    <2> QED
      BY <2>1, <2>2 DEF LastOnly, EndSeen
  <1>6. Empties(read_rx, downstream, seen.hollow)
    BY DEF AnyInit, Empties
  <1> QED
    BY <1>2, <1>3, <1>4, <1>5, <1>6 DEF AnyInv

(* The writer's channel takes a payload and gives one.                     *)
LEMMA UpFeed ==
    ASSUME NEW w, NEW q \in Seq(Seq(Toks)), NEW u, NEW n \in Nat, NEW m \in Nat, n <= m, NEW x,
           UpSide(w, q, u, n), Carries(x, n + 1, m + 1)
    PROVE  Append(q, x) \in Seq(Seq(Toks)) /\ UpSide(w, Append(q, x), u, m)
  <1>1. PICK i \in Nat, r \in Seq(Toks) :
            /\ i <= n + 1 /\ Carries(u.sent \o r, 0, i)
            /\ w => r = u.tls \o u.rest /\ Chain("payload", q, i, n + 1)
    BY DEF UpSide
  <1>2. x \in Seq(Toks)
    BY DEF Carries
  <1>3. Further("payload", x, n + 1, m + 1)
    BY DEF Further, Link
  <1> DEFINE j == n + 1  h == m + 1  S == Seq(Toks)
  <1>4. q \in Seq(S) /\ x \in S /\ Further("payload", x, j, h) /\ (w => Chain("payload", q, i, j))
    BY <1>1, <1>2, <1>3
  <1> HIDE DEF j, h, S
  <1>5. w => Chain("payload", Append(q, x), i, h)
    BY <1>4, ChainAppend
  <1>6. i <= h
    BY <1>1 DEF h
  <1>7. Append(q, x) \in Seq(S)
    BY <1>4
  <1> QED
    BY <1>1, <1>5, <1>6, <1>7 DEF UpSide, h, S

LEMMA UpTake ==
    ASSUME NEW q \in Seq(Seq(Toks)), NEW u \in UpRec, u.rest = <<>>, NEW n \in Nat,
           NEW sizes \in Seq(Nat), q # <<>>, UpSide(TRUE, q, u, n), NEW v,
           v = [u EXCEPT !.rest = apply_padding(sizes, Head(q))]
    PROVE  Tail(q) \in Seq(Seq(Toks)) /\ v \in UpRec /\ UpSide(TRUE, Tail(q), v, n)
  <1>1. PICK i \in Nat, r \in Seq(Toks) :
            i <= n + 1 /\ Carries(u.sent \o r, 0, i) /\ r = u.tls \o u.rest /\ Chain("payload", q, i, n + 1)
    BY DEF UpSide
  <1> DEFINE j == n + 1  S == Seq(Toks)
  <1>2. q \in Seq(S) /\ Chain("payload", q, i, j)
    BY <1>1
  <1> HIDE DEF j, S
  <1>3. /\ Tail(q) \in Seq(S)
        /\ \E h \in Nat : i <= h /\ h <= j /\ Link("payload", Head(q), i, h) /\ Chain("payload", Tail(q), h, j)
    BY <1>2, ChainTail
  <1>4. PICK h \in Nat : h <= j /\ Link("payload", Head(q), i, h) /\ Chain("payload", Tail(q), h, j)
    BY <1>3
  <1>5. Carries(Head(q), i, h)
    BY <1>4 DEF Link
  <1> DEFINE y == apply_padding(sizes, Head(q))
  <1>6. Carries(y, i, h)
    BY <1>5, PaddingCarries
  <1>7. v = [u EXCEPT !.rest = y]
    OBVIOUS
  <1> HIDE DEF y
  <1>8. u.sent \in Seq(Toks) /\ u.tls \in Seq(Toks) /\ y \in Seq(Toks)
    BY <1>6 DEF UpRec, Carries
  <1>9. v \in UpRec /\ v.sent = u.sent /\ v.tls = u.tls /\ v.rest = y
    BY <1>7, <1>8 DEF UpRec
  <1>10. r = u.tls
    BY <1>1, <1>8, ConcatEmptySeq
  <1>11. Carries((u.sent \o u.tls) \o y, 0, h)
    BY <1>1, <1>6, <1>10, CarriesConcat
  <1>12. Carries(v.sent \o (v.tls \o v.rest), 0, h) /\ v.tls \o v.rest \in Seq(Toks)
    <2>1. (u.sent \o u.tls) \o y = u.sent \o (u.tls \o y)
      BY <1>8, AssocToks
    <2>2. u.tls \o y \in Seq(Toks)
      BY <1>8
    <2> QED
      BY <1>9, <1>11, <2>1, <2>2
  <1> QED
    BY <1>3, <1>4, <1>9, <1>12 DEF UpSide, j, S

\* Tokens move on from the writer task to rustls and to the socket.
LEMMA UpPush ==
    ASSUME NEW w \in BOOLEAN, w, NEW q, NEW n, NEW m, upstream \in UpRec, NEW wrote,
           n \in 0..Len(upstream.rest), m \in 0..Len(upstream.tls) + n,
           Push(n, m), UpSide(w, q, upstream, wrote)
    PROVE  upstream' \in UpRec /\ UpSide(w, q, upstream', wrote)
  <1> DEFINE a == upstream.sent  b == upstream.tls  c == upstream.rest  e == b \o SubSeq(c, 1, n)
  <1>1. a \in Seq(Toks) /\ b \in Seq(Toks) /\ c \in Seq(Toks) /\ n \in 0..Len(c)
    BY DEF UpRec
  <1>2. upstream' = [sent |-> a \o SubSeq(e, 1, m), tls |-> SubSeq(e, m + 1, Len(e)),
                     rest |-> SubSeq(c, n + 1, Len(c))]
    BY DEF Push
  <1>3. m \in 0..Len(b) + n
    OBVIOUS
  <1> HIDE DEF a, b, c
  <1>4. m \in 0..Len(e)
    <2>1. SubSeq(c, 1, n) \in Seq(Toks) /\ Len(SubSeq(c, 1, n)) = n
      BY <1>1
    <2>2. Len(e) = Len(b) + n
      BY <1>1, <2>1
    <2> QED
      BY <1>3, <2>2
  <1> HIDE DEF e
  <1>5. /\ a \o SubSeq(e, 1, m) \in Seq(Toks) /\ SubSeq(e, m + 1, Len(e)) \in Seq(Toks)
        /\ SubSeq(c, n + 1, Len(c)) \in Seq(Toks)
        /\ (a \o SubSeq(e, 1, m)) \o (SubSeq(e, m + 1, Len(e)) \o SubSeq(c, n + 1, Len(c))) = a \o (b \o c)
    <2>1. e = b \o SubSeq(c, 1, n)
      BY DEF e
    <2> QED
      <3>1. Holding(a, b, c, n, e, m)
        BY <1>1, <1>4, <2>1 DEF Holding
      <3>2. Moves(a, b, c, n, e, m)
        BY <3>1, PushSame
      <3> QED
        BY <3>2 DEF Moves
  <1>6. PICK i \in Nat, r \in Seq(Toks) :
            /\ i <= wrote + 1 /\ Carries(a \o r, 0, i)
            /\ r = b \o c /\ Chain("payload", q, i, wrote + 1)
    BY DEF UpSide, a, b, c
  <1> DEFINE x == a \o SubSeq(e, 1, m)  y == SubSeq(e, m + 1, Len(e))  z == SubSeq(c, n + 1, Len(c))
  <1>7. upstream' = [sent |-> x, tls |-> y, rest |-> z]
    BY <1>2
  <1>8. x \in Seq(Toks) /\ y \in Seq(Toks) /\ z \in Seq(Toks) /\ x \o (y \o z) = a \o r
    BY <1>5, <1>6
  <1> HIDE DEF x, y, z
  <1>9. upstream' \in UpRec /\ upstream'.sent = x /\ upstream'.tls = y /\ upstream'.rest = z
    BY <1>7, <1>8 DEF UpRec
  <1>10. y \o z \in Seq(Toks)
    BY <1>8
  <1>11. Carries(upstream'.sent \o (y \o z), 0, i) /\ y \o z = upstream'.tls \o upstream'.rest
    BY <1>6, <1>8, <1>9
  <1> QED
    BY <1>6, <1>9, <1>10, <1>11 DEF UpSide

LEMMA UpStop ==
    ASSUME NEW w, NEW q, NEW r, NEW u, NEW v, NEW n, UpSide(w, q, u, n), v.sent = u.sent
    PROVE  UpSide(FALSE, r, v, n)
  BY DEF UpSide

(* The caller writes, shuts down, reads and drops the stream.              *)
LEMMA StepAppWrites ==
    ASSUME AnyInv, AppWrites PROVE AnyInv'
  <1>1. PICK k \in 1..MaxData :
            /\ write_rx' = Append(write_rx, encode_frame("psh", [i \in 1..k |-> Item("data", seen.wrote + i)]))
            /\ seen' = [seen EXCEPT !.wrote = @ + k]
    BY DEF AppWrites
  <1>2. any' = any /\ read_rx' = read_rx /\ upstream' = upstream /\ downstream' = downstream
    BY DEF AppWrites
  <1>3. AnyType
    BY DEF AnyInv
  <1> DEFINE n == seen.wrote  m == n + k
             x == encode_frame("psh", [i \in 1..k |-> Item("data", n + i)])
  <1>4. n \in Nat /\ m \in Nat /\ n <= m /\ k \in Nat
    <2>1. n \in Nat
      BY <1>3 DEF AnyType, SeenRec
    <2>2. MaxData \in Nat
      BY AnyTlsAssumption
    <2>3. k \in Nat
      BY <2>2
    <2> QED
      BY <2>1, <2>3
  <1>5. /\ seen' \in SeenRec
        /\ seen'.wrote = m /\ seen'.pushed = seen.pushed /\ seen'.got = seen.got /\ seen'.eof = seen.eof /\ seen'.hollow = seen.hollow
    BY <1>1, <1>3, <1>4 DEF AnyType, AnyRec, SeenRec, UpRec
  <1>6. Carries(x, n + 1, m + 1)
    BY <1>4, DataCarries
  <1>7. write_rx' = Append(write_rx, x)
    BY <1>1
  <1> HIDE DEF x
  <1>8. write_rx' \in Seq(Seq(Toks)) /\ UpSide(any.writer, write_rx', upstream, m)
    <2>1. UpSide(any.writer, write_rx, upstream, n) /\ write_rx \in Seq(Seq(Toks))
      BY <1>3 DEF AnyInv, AnyType, AnyRec, SeenRec, UpRec
    <2> HIDE DEF n, m
    <2> QED
      BY <1>4, <1>6, <1>7, <2>1, UpFeed
  <1>9. AnyType'
    BY <1>2, <1>3, <1>5, <1>8 DEF AnyType, AnyRec, SeenRec, UpRec
  <1>10. UpSide(any.writer, write_rx, upstream, seen.wrote)'
    BY <1>2, <1>5, <1>8
  <1>11. DownSide(any, read_rx, downstream, seen.got, seen.pushed)'
    BY <1>2, <1>5 DEF AnyInv
  <1>12. LastOnly(downstream, any.ended)' /\ EndSeen(any, seen)'
    BY <1>2, <1>5 DEF AnyInv, EndSeen, LastOnly
  <1>20. Empties(read_rx, downstream, seen.hollow)'
    BY <1>2, <1>5 DEF AnyInv, Empties
  <1> QED
    BY <1>9, <1>10, <1>11, <1>12, <1>20 DEF AnyInv

LEMMA StepAppShutsDown ==
    ASSUME AnyInv, AppShutsDown PROVE AnyInv'
  <1>1. AnyType
    BY DEF AnyInv
  <1>2. any' = [any EXCEPT !.closed = TRUE] /\ read_rx' = read_rx /\ upstream' = upstream
        /\ downstream' = downstream /\ seen' = seen
    BY DEF AppShutsDown
  <1>3. /\ any' \in AnyRec
        /\ any'.held = any.held /\ any'.reader = any.reader /\ any'.writer = any.writer
        /\ any'.cut = any.cut /\ any'.ended = any.ended
    BY <1>1, <1>2 DEF AnyType, AnyRec, SeenRec, UpRec
  <1> DEFINE x == encode_frame("fin", <<>>)  n == seen.wrote
  <1>4. write_rx' = IF any.writer THEN Append(write_rx, x) ELSE write_rx
    BY DEF AppShutsDown
  <1>5. Carries(x, n + 1, n + 1)
    BY HollowFrames, HollowCarries DEF Commands
  <1>6. UpSide(any.writer, write_rx, upstream, n) /\ write_rx \in Seq(Seq(Toks)) /\ n \in Nat /\ n <= n
    BY <1>1 DEF AnyInv, AnyType, AnyRec, SeenRec, UpRec
  <1> HIDE DEF x, n
  <1>7. write_rx' \in Seq(Seq(Toks)) /\ UpSide(any.writer, write_rx', upstream, n)
    BY <1>4, <1>5, <1>6, UpFeed
  <1>8. AnyType'
    BY <1>1, <1>2, <1>3, <1>7 DEF AnyType, AnyRec, SeenRec, UpRec
  <1>9. UpSide(any.writer, write_rx, upstream, seen.wrote)'
    BY <1>2, <1>3, <1>7 DEF n
  <1>10. DownSide(any, read_rx, downstream, seen.got, seen.pushed)'
    BY <1>2, <1>3 DEF AnyInv, DownSide
  <1>11. LastOnly(downstream, any.ended)' /\ EndSeen(any, seen)'
    BY <1>2, <1>3 DEF AnyInv, EndSeen, LastOnly
  <1>20. Empties(read_rx, downstream, seen.hollow)'
    BY <1>2 DEF AnyInv, Empties
  <1> QED
    BY <1>8, <1>9, <1>10, <1>11, <1>20 DEF AnyInv

LEMMA DataMore ==
    ASSUME NEW n \in Nat
    PROVE  Data(n) \in Seq(Toks) /\ Len(Data(n)) = n /\ Data(n) \o <<Item("data", n + 1)>> = Data(n + 1)
  <1>1. \A m \in Nat : Data(m) \in Seq(Toks) /\ Len(Data(m)) = m /\ \A i \in 1..m : Data(m)[i] = Item("data", i)
    <2> TAKE m \in Nat
    <2>1. \A i \in 1..m : Item("data", i) \in Toks
      BY DEF Item, Toks, Marks
    <2> QED
      BY <2>1 DEF Data
  <1> DEFINE a == Data(n)  b == Data(n + 1)  e == Item("data", n + 1)  c == a \o <<e>>
  <1>2. /\ a \in Seq(Toks) /\ Len(a) = n /\ b \in Seq(Toks) /\ Len(b) = n + 1 /\ e \in Toks
        /\ \A i \in 1..n : a[i] = b[i]
        /\ b[n + 1] = e
    <2>1. n + 1 \in Nat /\ n + 1 \in 1..(n + 1) /\ \A i \in 1..n : i \in 1..(n + 1)
      OBVIOUS
    <2>2. e \in Toks
      BY DEF Item, Toks, Marks
    <2> HIDE DEF e
    <2>3. b[n + 1] = e /\ \A i \in 1..n : a[i] = b[i]
      BY <1>1, <2>1 DEF e
    <2> QED
      BY <1>1, <2>1, <2>2, <2>3
  <1> HIDE DEF a, b, e
  <1>3. c \in Seq(Toks) /\ Len(c) = n + 1 /\ c[n + 1] = e /\ \A i \in 1..n : c[i] = a[i]
    BY <1>2
  <1> HIDE DEF c
  <1>4. \A i \in 1..(n + 1) : c[i] = b[i]
    BY <1>2, <1>3
  <1>5. c = b
    BY <1>2, <1>3, <1>4
  <1> QED
    BY <1>2, <1>5 DEF a, b, c, e

LEMMA StepAppReads ==
    ASSUME AnyInv, AppReads PROVE AnyInv'
  <1>1. AnyType
    BY DEF AnyInv
  <1>2. /\ read_rx # <<>> /\ read_rx' = Tail(read_rx) /\ ~seen.eof
        /\ seen' = [seen EXCEPT !.got = @ \o Head(read_rx), !.eof = Head(read_rx) = <<>>]
        /\ any' = any /\ write_rx' = write_rx /\ upstream' = upstream /\ downstream' = downstream
    BY DEF AppReads
  <1> DEFINE n == Len(seen.got)  S == Seq(Toks)
  <1>3. seen.got = Data(n) /\ n \in Nat /\ read_rx \in Seq(S)
    BY <1>1 DEF AnyInv, AnyType, EndSeen, SeenRec
  <1>4. PICK h \in Nat :
            /\ h <= seen.pushed /\ Chain("chunk", read_rx, n, h)
            /\ any.held /\ any.reader => Coming(h, any.cut, downstream, seen.pushed)
            /\ any.held /\ ~any.reader /\ ~any.cut => h = seen.pushed /\ any.ended
    BY DEF AnyInv, DownSide
  <1> HIDE DEF n, S
  <1>5. /\ Head(read_rx) \in S /\ Tail(read_rx) \in Seq(S)
        /\ \E l \in Nat : n <= l /\ l <= h /\ Link("chunk", Head(read_rx), n, l) /\ Chain("chunk", Tail(read_rx), l, h)
    BY <1>2, <1>3, <1>4, ChainTail
  <1>6. PICK l \in Nat : /\ n <= l /\ l <= h /\ Holds(Head(read_rx), n, l)
                         /\ Chain("chunk", Tail(read_rx), l, h)
    BY <1>5 DEF Link
  <1>7. seen.got \o Head(read_rx) = Data(l) /\ Data(l) \in Seq(Toks) /\ Len(Data(l)) = l
    <2>1. Data(l) \in Seq(Toks) /\ Len(Data(l)) = l
      BY DataMore
    <2>2. CASE l = n + 1 /\ Head(read_rx) = <<Item("data", l)>>
      <3>1. Data(n) \o <<Item("data", n + 1)>> = Data(n + 1)
        BY <1>3, DataMore
      <3>2. seen.got \o Head(read_rx) = Data(n) \o <<Item("data", n + 1)>>
        BY <1>3, <2>2, Zenon
      <3> QED
        BY <2>1, <2>2, <3>1, <3>2
    <2>3. CASE l = n /\ Head(read_rx) = <<>>
      <3>1. Data(n) \o <<>> = Data(n)
        BY <2>1, <2>3, ConcatEmptySeq
      <3> QED
        BY <1>3, <2>1, <2>3, <3>1
    <2> QED
      BY <1>6, <2>2, <2>3 DEF Holds
  <1>8. PICK e \in BOOLEAN : e = (Head(read_rx) = <<>>)
    OBVIOUS
  <1>9. /\ seen' \in SeenRec /\ seen'.got = Data(l) /\ seen'.eof = e
        /\ seen'.wrote = seen.wrote /\ seen'.pushed = seen.pushed /\ seen'.hollow = seen.hollow
    <2>1. seen' = [seen EXCEPT !.got = Data(l), !.eof = e]
      BY <1>2, <1>7, <1>8
    <2> QED
      BY <1>1, <1>7, <2>1 DEF AnyType, SeenRec
  <1>10. AnyType'
    BY <1>1, <1>2, <1>5, <1>9 DEF AnyType, S
  <1>11. UpSide(any.writer, write_rx, upstream, seen.wrote)'
    BY <1>2, <1>9 DEF AnyInv
  <1>12. DownSide(any, read_rx, downstream, seen.got, seen.pushed)'
    BY <1>2, <1>4, <1>6, <1>7, <1>9 DEF DownSide
  <1>13. LastOnly(downstream, any.ended)'
    BY <1>2 DEF AnyInv, LastOnly
  <1>14. Empties(read_rx, downstream, seen.hollow)' /\ (e => seen.hollow)
    <2> DEFINE r == read_rx  c == Tail(r)
    <2>1. r \in Seq(S) /\ r # <<>> /\ Empties(r, downstream, seen.hollow)
      BY <1>2, <1>3 DEF AnyInv
    <2> HIDE DEF r
    <2>2. /\ Len(r) \in Nat /\ Len(c) = Len(r) - 1 /\ 1 \in 1..Len(r) /\ Head(r) = r[1]
          /\ \A m \in 1..Len(c) : c[m] = r[m + 1] /\ m + 1 \in 1..Len(r)
      BY <2>1
    <2> HIDE DEF c
    <2>3. Empties(c, downstream, seen.hollow)
      BY <2>1, <2>2 DEF Empties
    <2>4. Head(r) = <<>> => seen.hollow
      BY <2>1, <2>2 DEF Empties
    <2> QED
      BY <1>2, <1>8, <1>9, <2>3, <2>4 DEF Empties, r, c
  <1>15. EndSeen(any, seen)'
    BY <1>2, <1>7, <1>9, <1>14 DEF EndSeen
  <1> QED
    BY <1>10, <1>11, <1>12, <1>13, <1>14, <1>15 DEF AnyInv

LEMMA StepAppReadsEof ==
    ASSUME AnyInv, AppReadsEof PROVE AnyInv'
  <1>1. AnyType
    BY DEF AnyInv
  <1>2. /\ any.held /\ read_rx = <<>> /\ ~any.reader /\ seen' = [seen EXCEPT !.eof = TRUE] /\ read_rx' = read_rx
        /\ any' = any /\ write_rx' = write_rx /\ upstream' = upstream /\ downstream' = downstream
    BY DEF AppReadsEof
  <1>3. /\ seen' \in SeenRec /\ seen'.got = seen.got
        /\ seen'.wrote = seen.wrote /\ seen'.pushed = seen.pushed /\ seen'.hollow = seen.hollow
    BY <1>1, <1>2 DEF AnyType, AnyRec, SeenRec, UpRec
  <1>4. ~any.cut => Len(seen.got) = seen.pushed /\ any.ended
    <2>1. PICK h \in Nat : Chain("chunk", <<>>, Len(seen.got), h) /\ (~any.cut => h = seen.pushed /\ any.ended)
      BY <1>2 DEF AnyInv, DownSide
    <2>2. Len(seen.got) = h
      BY <2>1, ChainEmpty
    <2> QED
      BY <2>1, <2>2
  <1>5. AnyType'
    BY <1>1, <1>2, <1>3 DEF AnyType, AnyRec, SeenRec, UpRec
  <1>6. UpSide(any.writer, write_rx, upstream, seen.wrote)' /\ LastOnly(downstream, any.ended)'
        /\ DownSide(any, read_rx, downstream, seen.got, seen.pushed)'
    BY <1>2, <1>3 DEF AnyInv
  <1>7. EndSeen(any, seen)'
    BY <1>2, <1>3, <1>4 DEF AnyInv, EndSeen
  <1>20. Empties(read_rx, downstream, seen.hollow)'
    BY <1>2, <1>3 DEF AnyInv, Empties
  <1> QED
    BY <1>5, <1>6, <1>7, <1>20 DEF AnyInv

LEMMA StepAppDrops ==
    ASSUME AnyInv, AppDrops PROVE AnyInv'
  <1>1. AnyType
    BY DEF AnyInv
  <1>2. /\ any' = [any EXCEPT !.held = FALSE] /\ read_rx' = <<>>
        /\ write_rx' = write_rx /\ upstream' = upstream /\ downstream' = downstream /\ seen' = seen
    BY DEF AppDrops
  <1>3. /\ any' \in AnyRec
        /\ ~any'.held /\ any'.writer = any.writer /\ any'.cut = any.cut /\ any'.ended = any.ended
    BY <1>1, <1>2 DEF AnyType, AnyRec, SeenRec, UpRec
  <1>4. AnyType'
    BY <1>1, <1>2, <1>3 DEF AnyType, AnyRec, SeenRec, UpRec
  <1>5. DownSide(any, read_rx, downstream, seen.got, seen.pushed)'
    <2> DEFINE n == Len(seen.got)
    <2>1. n \in Nat /\ n <= seen.pushed
      <3>1. PICK h \in Nat : h <= seen.pushed /\ Chain("chunk", read_rx, n, h)
        BY DEF AnyInv, DownSide
      <3>2. n \in Nat /\ n <= h /\ seen.pushed \in Nat
        BY <1>1, <3>1, ChainEnds DEF AnyType, AnyRec, SeenRec, UpRec
      <3> HIDE DEF n
      <3> QED
        BY <3>1, <3>2
    <2>2. Chain("chunk", <<>>, n, n)
      BY <2>1, ChainEmpty
    <2> QED
      BY <1>2, <1>3, <2>1, <2>2 DEF DownSide
  <1>6. UpSide(any.writer, write_rx, upstream, seen.wrote)' /\ LastOnly(downstream, any.ended)' /\ EndSeen(any, seen)'
    BY <1>2, <1>3 DEF AnyInv, LastOnly, EndSeen
  <1>7. Empties(read_rx, downstream, seen.hollow)'
    <2>1. 1..Len(<<>>) = {}
      OBVIOUS
    <2> QED
      BY <1>2, <2>1 DEF AnyInv, Empties
  <1> QED
    BY <1>4, <1>5, <1>6, <1>7 DEF AnyInv

(* The writer task takes a payload, writes, fails or ends.                 *)
DownUnchanged ==
    /\ read_rx' = read_rx /\ downstream' = downstream /\ seen' = seen
    /\ any'.held = any.held /\ any'.reader = any.reader /\ any'.cut = any.cut /\ any'.ended = any.ended

\* What it does shows on the way to the server only.
LEMMA WriterOnly ==
    ASSUME AnyInv, DownUnchanged, any' \in AnyRec, write_rx' \in Seq(Seq(Toks)), upstream' \in UpRec,
           UpSide(any'.writer, write_rx', upstream', seen.wrote)
    PROVE  AnyInv'
  <1>1. AnyType'
    BY DEF AnyInv, AnyType, DownUnchanged
  <1>2. UpSide(any.writer, write_rx, upstream, seen.wrote)'
    BY DEF DownUnchanged
  <1>3. DownSide(any, read_rx, downstream, seen.got, seen.pushed)'
    BY DEF AnyInv, DownSide, DownUnchanged
  <1>4. LastOnly(downstream, any.ended)' /\ EndSeen(any, seen)' /\ Empties(read_rx, downstream, seen.hollow)'
    BY DEF AnyInv, LastOnly, EndSeen, Empties, DownUnchanged
  <1> QED
    BY <1>1, <1>2, <1>3, <1>4 DEF AnyInv

\* The task ends and its channel is dropped.
LEMMA WriterGone ==
    ASSUME AnyInv, any' = [any EXCEPT !.writer = FALSE], write_rx' \in Seq(Seq(Toks)), upstream' \in UpRec,
           upstream'.sent = upstream.sent, UNCHANGED <<read_rx, downstream, seen>>
    PROVE  AnyInv'
  <1>1. any' \in AnyRec /\ any'.writer = FALSE /\ DownUnchanged
    BY DEF AnyInv, AnyType, AnyRec, DownUnchanged
  <1>2. UpSide(FALSE, write_rx', upstream', seen.wrote)
    BY UpStop DEF AnyInv
  <1> QED
    BY <1>1, <1>2, WriterOnly

LEMMA StepWriterTakes ==
    ASSUME AnyInv, WriterTakes PROVE AnyInv'
  <1>1. AnyType
    BY DEF AnyInv
  <1> DEFINE sizes == generate_record_payload_sizes(any.pkt)
             padded == apply_padding(sizes, Head(write_rx))
  <1>2. /\ any.writer /\ write_rx # <<>> /\ upstream.rest = <<>> /\ UNCHANGED <<read_rx, downstream, seen>>
        /\ \/ any' = [any EXCEPT !.writer = FALSE] /\ write_rx' = <<>> /\ UNCHANGED upstream
           \/ /\ upstream' = [upstream EXCEPT !.rest = padded] /\ write_rx' = Tail(write_rx)
              /\ any' = [any EXCEPT !.pkt = @ + 1]
    BY DEF WriterTakes
  <1>3. sizes \in Seq(Nat) /\ upstream \in UpRec /\ write_rx \in Seq(Seq(Toks)) /\ seen.wrote \in Nat /\ any \in AnyRec
    BY <1>1, SizesType DEF AnyType, SeenRec
  <1> HIDE DEF sizes
  <1>4. CASE any' = [any EXCEPT !.writer = FALSE] /\ write_rx' = <<>> /\ UNCHANGED upstream
    <2>1. <<>> \in Seq(Seq(Toks))
      OBVIOUS
    <2> QED
      BY <1>2, <1>3, <1>4, <2>1, WriterGone
  <1>5. CASE /\ upstream' = [upstream EXCEPT !.rest = padded] /\ write_rx' = Tail(write_rx)
             /\ any' = [any EXCEPT !.pkt = @ + 1]
    <2>1. UpSide(TRUE, write_rx, upstream, seen.wrote)
      <3>1. any.writer = TRUE
        BY <1>2, <1>3 DEF AnyRec
      <3> QED
        BY <3>1 DEF AnyInv
    <2>2. write_rx' \in Seq(Seq(Toks)) /\ upstream' \in UpRec /\ UpSide(TRUE, write_rx', upstream', seen.wrote)
      BY <1>2, <1>3, <1>5, <2>1, UpTake
    <2>3. any' \in AnyRec /\ any'.writer = TRUE /\ DownUnchanged
      <3>1. PICK p : p = any.pkt + 1
        OBVIOUS
      <3>2. any.pkt \in Nat /\ any.writer = TRUE
        BY <1>2, <1>3 DEF AnyRec
      <3>3. p \in Nat \ {0}
        BY <3>1, <3>2
      <3>4. any' = [any EXCEPT !.pkt = p]
        BY <1>5, <3>1
      <3> QED
        BY <1>2, <1>3, <3>2, <3>3, <3>4 DEF AnyRec, DownUnchanged
    <2> QED
      BY <2>2, <2>3, WriterOnly
  <1> QED
    BY <1>2, <1>4, <1>5

LEMMA StepWriterWrites ==
    ASSUME AnyInv, WriterWrites PROVE AnyInv'
  <1>1. PICK n \in 0..Len(upstream.rest) : \E m \in 0..Len(upstream.tls) + n : Push(n, m)
    BY DEF WriterWrites
  <1>2. PICK m \in 0..Len(upstream.tls) + n : Push(n, m)
    BY <1>1
  <1>3. /\ upstream \in UpRec /\ UpSide(any.writer, write_rx, upstream, seen.wrote)
        /\ any \in AnyRec /\ write_rx \in Seq(Seq(Toks)) /\ any.writer /\ any.writer \in BOOLEAN
    BY DEF AnyInv, AnyType, AnyRec, WriterWrites
  <1>4. UNCHANGED <<any, write_rx, read_rx, downstream, seen>>
    BY DEF WriterWrites
  <1>5. upstream' \in UpRec /\ UpSide(any.writer, write_rx, upstream', seen.wrote)
    BY <1>1, <1>2, <1>3, UpPush
  <1> QED
    BY <1>3, <1>4, <1>5, WriterOnly DEF DownUnchanged

LEMMA StepWriterFails ==
    ASSUME AnyInv, WriterFails PROVE AnyInv'
  <1>1. /\ any' = [any EXCEPT !.writer = FALSE] /\ write_rx' = <<>> /\ UNCHANGED <<read_rx, downstream, seen>>
        /\ upstream' = [upstream EXCEPT !.tls = <<>>, !.rest = <<>>]
    BY DEF WriterFails
  <1>2. <<>> \in Seq(Seq(Toks)) /\ <<>> \in Seq(Toks)
    OBVIOUS
  <1>3. upstream' \in UpRec /\ upstream'.sent = upstream.sent
    BY <1>1, <1>2 DEF AnyInv, AnyType, UpRec
  <1> QED
    BY <1>1, <1>2, <1>3, WriterGone

LEMMA StepWriterEnds ==
    ASSUME AnyInv, WriterEnds PROVE AnyInv'
  <1>1. /\ upstream \in UpRec /\ UpSide(any.writer, write_rx, upstream, seen.wrote)
        /\ any \in AnyRec /\ write_rx \in Seq(Seq(Toks)) /\ any.writer /\ any.writer \in BOOLEAN
    BY DEF AnyInv, AnyType, AnyRec, WriterEnds
  <1>2. UNCHANGED <<write_rx, read_rx, downstream, seen>>
    BY DEF WriterEnds
  <1>3. CASE any' = [any EXCEPT !.writer = FALSE] /\ UNCHANGED upstream
    BY <1>1, <1>2, <1>3, WriterGone
  <1>4. CASE (\E m \in 1..Len(upstream.tls) : Push(0, m)) /\ UNCHANGED any
    <2>1. PICK m \in 1..Len(upstream.tls) : Push(0, m)
      BY <1>4
    <2>2. Len(upstream.tls) \in Nat /\ Len(upstream.rest) \in Nat
      BY <1>1 DEF UpRec
    <2>3. 0 \in 0..Len(upstream.rest) /\ m \in 0..Len(upstream.tls) + 0
      BY <2>2
    <2>4. upstream' \in UpRec /\ UpSide(any.writer, write_rx, upstream', seen.wrote)
      BY <1>1, <2>1, <2>3, UpPush
    <2> QED
      BY <1>1, <1>2, <1>4, <2>4, WriterOnly DEF DownUnchanged
  <1> QED
    BY <1>3, <1>4 DEF WriterEnds

(* The reader task reads a frame or fails.                                 *)
LEMMA StepReaderTask ==
    ASSUME AnyInv, ReaderTask PROVE AnyInv'
  <1>1. AnyType
    BY DEF AnyInv
  <1>2. PICK f : f = Head(downstream)
    OBVIOUS
  <1>3. /\ any.reader /\ downstream # <<>> /\ downstream' = Tail(downstream) /\ upstream' = upstream /\ seen' = seen
        /\ any' = [any EXCEPT
                !.reader = f.cmd \notin {"fin", "alert"} /\ (f.cmd = "psh" => any.held),
                !.padding = IF f.cmd = "update" THEN f.scheme ELSE @]
        /\ read_rx' = IF f.cmd = "psh" /\ any.held THEN Append(read_rx, f.data) ELSE read_rx
        /\ write_rx' = IF f.cmd = "heart_request" /\ any.writer
                          THEN Append(write_rx, encode_frame("heart_response", <<>>)) ELSE write_rx
    BY <1>2 DEF ReaderTask
  <1>4. f \in Frames /\ downstream' \in Seq(Frames)
    <2>1. downstream \in Seq(Frames) /\ downstream # <<>>
      BY <1>1, <1>3 DEF AnyType, AnyRec, SeenRec, UpRec
    <2> QED
      BY <1>2, <1>3, <2>1
  <1>5. PICK c : c = (f.cmd \notin {"fin", "alert"} /\ (f.cmd = "psh" => any.held))
    OBVIOUS
  <1>6. PICK s : s = IF f.cmd = "update" THEN f.scheme ELSE any.padding
    OBVIOUS
  <1>7. c \in BOOLEAN /\ s \in Schemes
    <2>1. any.padding \in Schemes /\ (f.cmd = "update" => f.scheme \in Schemes)
      BY <1>1, <1>4 DEF AnyType, AnyRec, SeenRec, UpRec, Frames
    <2> QED
      BY <1>5, <1>6, <2>1
  <1>8. /\ any' \in AnyRec
        /\ any'.held = any.held /\ any'.reader = c /\ any'.writer = any.writer
        /\ any'.cut = any.cut /\ any'.ended = any.ended
    <2>1. any' = [any EXCEPT !.reader = c, !.padding = s]
      BY <1>3, <1>5, <1>6
    <2> QED
      BY <1>1, <1>7, <2>1 DEF AnyType, AnyRec, SeenRec, UpRec
  <1>9. write_rx' \in Seq(Seq(Toks)) /\ UpSide(any.writer, write_rx, upstream, seen.wrote)'
    <2> DEFINE x == encode_frame("heart_response", <<>>)  n == seen.wrote
    <2>1. Carries(x, n + 1, n + 1)
      BY HollowFrames, HollowCarries DEF Commands
    <2>2. UpSide(any.writer, write_rx, upstream, n) /\ write_rx \in Seq(Seq(Toks)) /\ n \in Nat /\ n <= n
      BY <1>1 DEF AnyInv, AnyType, AnyRec, SeenRec, UpRec
    <2>3. write_rx' = Append(write_rx, x) \/ write_rx' = write_rx
      BY <1>3
    <2> HIDE DEF x, n
    <2>4. write_rx' \in Seq(Seq(Toks)) /\ UpSide(any.writer, write_rx', upstream, n)
      BY <2>1, <2>2, <2>3, UpFeed
    <2> QED
      BY <1>3, <1>8, <2>4 DEF n
  <1>10. read_rx' \in Seq(Seq(Toks))
    <2>1. read_rx \in Seq(Seq(Toks)) /\ (f.cmd = "psh" => f.data \in Seq(Toks))
      BY <1>1, <1>4 DEF AnyType, AnyRec, SeenRec, UpRec, Frames
    <2> DEFINE S == Seq(Toks)
    <2>2. read_rx \in Seq(S) /\ (f.cmd = "psh" => f.data \in S)
      BY <2>1
    <2> HIDE DEF S
    <2>3. read_rx' \in Seq(S)
      BY <1>3, <2>2
    <2> QED
      BY <2>3 DEF S
  <1>11. AnyType'
    BY <1>1, <1>3, <1>4, <1>8, <1>9, <1>10 DEF AnyType, AnyRec, SeenRec, UpRec
  <1>12. LastOnly(downstream, any.ended)'
    <2> DEFINE d == downstream  e == Tail(d)
    <2>1. d \in Seq(Frames) /\ d # <<>> /\ LastOnly(d, any.ended)
      BY <1>1, <1>3 DEF AnyInv, AnyType, AnyRec, SeenRec, UpRec
    <2> HIDE DEF d
    <2>2. Len(d) \in Nat /\ Len(e) = Len(d) - 1 /\ \A m \in 1..Len(e) : e[m] = d[m + 1] /\ m + 1 \in 1..Len(d)
      BY <2>1
    <2> HIDE DEF e
    <2>3. LastOnly(e, any.ended)
      <3> SUFFICES ASSUME NEW m \in 1..Len(e), e[m].cmd \in {"fin", "alert"} PROVE m = Len(e) /\ any.ended
        BY DEF LastOnly
      <3>1. m + 1 = Len(d) /\ any.ended
        BY <2>1, <2>2 DEF LastOnly
      <3> QED
        BY <2>2, <3>1
    <2> QED
      BY <1>3, <1>8, <2>3 DEF LastOnly, d, e
  <1>13. EndSeen(any, seen)'
    BY <1>3, <1>8 DEF AnyInv, EndSeen
  <1>14. DownSide(any, read_rx, downstream, seen.got, seen.pushed)'
    <2>1. PICK h \in Nat :
            /\ h <= seen.pushed /\ Chain("chunk", read_rx, Len(seen.got), h)
            /\ any.held /\ any.reader => Coming(h, any.cut, downstream, seen.pushed)
      BY DEF AnyInv, DownSide
    <2>2. CASE ~any.held
      BY <1>3, <1>8, <2>1, <2>2 DEF DownSide
    <2>3. CASE any.held
      <3>1. PICK p \in Nat : p <= seen.pushed /\ (~any.cut => p = seen.pushed) /\ Chain("frame", downstream, h, p)
        BY <1>3, <2>1, <2>3 DEF Coming
      <3>2. PICK l \in Nat : h <= l /\ l <= p /\ Link("frame", f, h, l) /\ Chain("frame", downstream', l, p)
        <4>1. downstream \in Seq(Frames) /\ downstream # <<>>
          BY <1>1, <1>3 DEF AnyType, AnyRec, SeenRec, UpRec
        <4>2. \E l \in Nat : h <= l /\ l <= p /\ Link("frame", Head(downstream), h, l) /\ Chain("frame", Tail(downstream), l, p)
          BY <3>1, <4>1, ChainTail
        <4> QED
          BY <1>2, <1>3, <4>2
      <3>3. Coming(l, any.cut, downstream', seen.pushed) /\ seen.pushed \in Nat
        BY <1>1, <3>1, <3>2 DEF Coming, AnyType, AnyRec, SeenRec, UpRec
      <3>4. CASE f.cmd = "psh"
        <4>1. Holds(f.data, h, l)
          BY <3>2, <3>4 DEF Link
        <4>2. Further("chunk", f.data, h, l)
          BY <3>2, <4>1 DEF Further, Link
        <4>3. read_rx' = Append(read_rx, f.data) /\ any'.reader
          BY <1>3, <1>5, <1>8, <2>3, <3>4
        <4>4. Chain("chunk", read_rx', Len(seen.got), l)
          <5> DEFINE S == Seq(Toks)  n == Len(seen.got)  x == f.data
          <5>1. read_rx \in Seq(S) /\ x \in S /\ Chain("chunk", read_rx, n, h) /\ Further("chunk", x, h, l)
            BY <1>1, <1>4, <2>1, <3>4, <4>2 DEF AnyType, AnyRec, SeenRec, UpRec, Frames
          <5> HIDE DEF S, n, x
          <5>2. Chain("chunk", Append(read_rx, x), n, l)
            BY <5>1, ChainAppend
          <5> QED
            BY <4>3, <5>2 DEF n, x
        <4>5. l <= seen.pushed
          BY <3>1, <3>2, <3>3
        <4> QED
          BY <1>3, <1>8, <3>3, <4>3, <4>4, <4>5 DEF DownSide
      <3>5. CASE f.cmd # "psh"
        <4>1. l = h /\ read_rx' = read_rx
          BY <1>3, <3>2, <3>5 DEF Link
        <4>2. CASE f.cmd \in {"fin", "alert"}
          <5>1. any.ended /\ Len(downstream) = 1
            <6>1. downstream \in Seq(Frames) /\ downstream # <<>> /\ LastOnly(downstream, any.ended)
              BY <1>1, <1>3 DEF AnyInv, AnyType, AnyRec, SeenRec, UpRec
            <6>2. 1 \in 1..Len(downstream) /\ downstream[1] = f
              BY <1>2, <6>1
            <6> QED
              BY <4>2, <6>1, <6>2 DEF LastOnly
          <5>2. downstream' = <<>>
            <6> DEFINE d == downstream
            <6>1. d \in Seq(Frames) /\ Len(d) = 1
              BY <1>1, <5>1 DEF AnyType, AnyRec, SeenRec, UpRec
            <6> HIDE DEF d
            <6>2. Tail(d) \in Seq(Frames) /\ Len(Tail(d)) = 0
              BY <6>1
            <6>3. Tail(d) = <<>>
              <7> DEFINE e == Tail(d)
              <7>1. e \in Seq(Frames) /\ Len(e) = 0
                BY <6>2
              <7> HIDE DEF e
              <7>2. e = <<>>
                BY <7>1
              <7> QED
                BY <7>2 DEF e
            <6> QED
              BY <1>3, <6>3 DEF d
          <5>3. l = p
            BY <3>2, <5>2, ChainEmpty
          <5>4. ~any'.reader
            BY <1>5, <1>8, <4>2
          <5> QED
            BY <1>3, <1>8, <2>1, <3>1, <4>1, <5>1, <5>3, <5>4 DEF DownSide
        <4>3. CASE f.cmd \notin {"fin", "alert"}
          <5>1. any'.reader
            BY <1>5, <1>8, <3>5, <4>3
          <5> QED
            BY <1>3, <1>8, <2>1, <3>3, <4>1, <5>1 DEF DownSide
        <4> QED
          BY <4>2, <4>3
      <3> QED
        BY <3>4, <3>5
    <2> QED
      BY <2>2, <2>3
  <1>15. Empties(read_rx, downstream, seen.hollow)'
    <2> DEFINE d == downstream  e == Tail(d)  r == read_rx  S == Seq(Toks)  g == f.data
    <2>1. /\ d \in Seq(Frames) /\ d # <<>> /\ r \in Seq(S) /\ Empties(r, d, seen.hollow)
          /\ (f.cmd = "psh" => g \in S) /\ f = Head(d)
      BY <1>1, <1>2, <1>3, <1>4 DEF AnyInv, AnyType, Frames
    <2>2. read_rx' = r \/ (f.cmd = "psh" /\ read_rx' = Append(r, g))
      BY <1>3
    <2> HIDE DEF d, r, S, g
    <2>3. /\ Len(d) \in Nat /\ Len(e) = Len(d) - 1 /\ 1 \in 1..Len(d) /\ f = d[1]
          /\ \A m \in 1..Len(e) : e[m] = d[m + 1] /\ m + 1 \in 1..Len(d)
      BY <2>1
    <2> HIDE DEF e
    <2>4. \A m \in 1..Len(e) : e[m].cmd = "psh" /\ e[m].data = <<>> => seen.hollow
      BY <2>1, <2>3 DEF Empties
    <2>5. f.cmd = "psh" /\ g = <<>> => seen.hollow
      BY <2>1, <2>3 DEF Empties, g
    <2>6. Empties(r, e, seen.hollow)
      BY <2>1, <2>4 DEF Empties
    <2>7. CASE read_rx' = r
      BY <1>3, <2>6, <2>7 DEF d, e
    <2>8. CASE f.cmd = "psh" /\ read_rx' = Append(r, g)
      <3> DEFINE w == Append(r, g)
      <3>1. /\ Len(r) \in Nat /\ Len(w) = Len(r) + 1 /\ w[Len(r) + 1] = g
            /\ \A m \in 1..Len(r) : w[m] = r[m]
        BY <2>1, <2>8
      <3> HIDE DEF w
      <3>2. ASSUME NEW m \in 1..Len(w), w[m] = <<>> PROVE seen.hollow
        <4>1. CASE m \in 1..Len(r)
          BY <2>1, <3>1, <3>2, <4>1 DEF Empties
        <4>2. CASE m \notin 1..Len(r)
          <5>1. m = Len(r) + 1
            BY <3>1, <4>2
          <5> QED
            BY <2>5, <2>8, <3>1, <3>2, <5>1
        <4> QED
          BY <4>1, <4>2
      <3>3. Empties(w, e, seen.hollow)
        BY <2>4, <3>2 DEF Empties
      <3> QED
        BY <1>3, <2>8, <3>3 DEF w, d, e
    <2> QED
      BY <2>2, <2>7, <2>8
  <1> QED
    BY <1>9, <1>11, <1>12, <1>13, <1>14, <1>15 DEF AnyInv

LEMMA StepReaderFails ==
    ASSUME AnyInv, ReaderFails PROVE AnyInv'
  <1>1. AnyType
    BY DEF AnyInv
  <1>2. /\ any.cut /\ any' = [any EXCEPT !.reader = FALSE] /\ read_rx' = read_rx
        /\ write_rx' = write_rx /\ upstream' = upstream /\ downstream' = downstream /\ seen' = seen
    BY DEF ReaderFails
  <1>3. /\ any' \in AnyRec
        /\ any'.held = any.held /\ any'.reader = FALSE /\ any'.cut = any.cut /\ any'.ended = any.ended
        /\ any'.writer = any.writer
    BY <1>1, <1>2 DEF AnyType, AnyRec, SeenRec, UpRec
  <1>4. AnyType'
    BY <1>1, <1>2, <1>3 DEF AnyType, AnyRec, SeenRec, UpRec
  <1>5. UpSide(any.writer, write_rx, upstream, seen.wrote)'
    BY <1>2, <1>3 DEF AnyInv
  <1>6. DownSide(any, read_rx, downstream, seen.got, seen.pushed)' /\ LastOnly(downstream, any.ended)' /\ EndSeen(any, seen)'
    BY <1>2, <1>3 DEF AnyInv, DownSide, LastOnly, EndSeen
  <1>20. Empties(read_rx, downstream, seen.hollow)'
    BY <1>2 DEF AnyInv, Empties
  <1> QED
    BY <1>4, <1>5, <1>6, <1>20 DEF AnyInv

(* The server sends a frame.                                               *)
LEMMA LastAppend ==
    ASSUME NEW S, NEW d \in Seq(S), NEW f \in S, NEW ended, LastOnly(d, FALSE), f.cmd \in {"fin", "alert"} => ended
    PROVE  LastOnly(Append(d, f), ended)
  <1> DEFINE e == Append(d, f)
  <1>1. Len(d) \in Nat /\ Len(e) = Len(d) + 1 /\ e[Len(d) + 1] = f /\ \A m \in 1..Len(d) : e[m] = d[m]
    OBVIOUS
  <1> HIDE DEF e
  <1>2. ASSUME NEW m \in 1..Len(e), e[m].cmd \in {"fin", "alert"} PROVE m = Len(e) /\ ended
    <2>1. CASE m \in 1..Len(d)
      BY <1>1, <1>2, <2>1 DEF LastOnly
    <2>2. CASE m \notin 1..Len(d)
      <3>1. m = Len(d) + 1
        BY <1>1, <2>2
      <3> QED
        BY <1>1, <1>2, <3>1
    <2> QED
      BY <2>1, <2>2
  <1> QED
    BY <1>2 DEF LastOnly, e

LEMMA ComingMore ==
    ASSUME NEW h, NEW d \in Seq(Frames), NEW n \in Nat, NEW m \in Nat, n <= m, NEW f \in Frames,
           Coming(h, FALSE, d, n), Link("frame", f, n, m)
    PROVE  Coming(h, FALSE, Append(d, f), m)
  <1>1. Chain("frame", d, h, n)
    BY DEF Coming
  <1>2. Further("frame", f, n, m)
    BY DEF Further
  <1>3. Chain("frame", Append(d, f), h, m)
    BY <1>1, <1>2, ChainAppend
  <1> QED
    BY <1>3 DEF Coming

LEMMA StepServerSends ==
    ASSUME AnyInv, ServerSends PROVE AnyInv'
  <1>1. AnyType
    BY DEF AnyInv
  <1>2. ~any.cut /\ ~any.ended /\ write_rx' = write_rx /\ read_rx' = read_rx /\ upstream' = upstream
    BY DEF ServerSends
  <1>3. downstream \in Seq(Frames) /\ seen.pushed \in Nat /\ LastOnly(downstream, FALSE) /\ any.cut = FALSE /\ any.ended = FALSE
    <2>1. downstream \in Seq(Frames) /\ seen.pushed \in Nat /\ any.cut = FALSE /\ any.ended = FALSE
      BY <1>1, <1>2 DEF AnyType, AnyRec, SeenRec, UpRec
    <2> QED
      BY <2>1 DEF AnyInv
  <1>4. PICK f \in Frames :
            /\ downstream' = Append(downstream, f)
            /\ \/ f = [cmd |-> "psh", data |-> <<Item("data", seen.pushed + 1)>>]
                  /\ seen' = [seen EXCEPT !.pushed = @ + 1] /\ any' = any
               \/ f = [cmd |-> "psh", data |-> <<>>]
                  /\ seen' = [seen EXCEPT !.hollow = TRUE] /\ any' = [any EXCEPT !.frames = @ + 1]
               \/ f.cmd \notin {"psh", "fin", "alert"} /\ seen' = seen /\ any' = [any EXCEPT !.frames = @ + 1]
               \/ f.cmd \in {"fin", "alert"} /\ seen' = seen /\ any' = [any EXCEPT !.ended = TRUE]
    <2>1. CASE /\ downstream' = Append(downstream, [cmd |-> "psh", data |-> <<Item("data", seen.pushed + 1)>>])
               /\ seen' = [seen EXCEPT !.pushed = @ + 1] /\ any' = any
      <3> DEFINE data == <<Item("data", seen.pushed + 1)>>
      <3>1. data \in Seq(Toks)
        <4>1. Item("data", seen.pushed + 1) \in Toks
          BY <1>3 DEF Item, Toks, Marks
        <4> QED
          BY <4>1
      <3> HIDE DEF data
      <3>2. [cmd |-> "psh", data |-> data] \in Frames
        BY <3>1 DEF Frames
      <3> QED
        BY <2>1, <3>2 DEF data
    <2>2. CASE /\ \E frame \in {[cmd |-> "waste"], [cmd |-> "heart_request"]} \cup {[cmd |-> "update", scheme |-> s] : s \in Schemes} :
                     downstream' = Append(downstream, frame)
               /\ seen' = seen /\ any' = [any EXCEPT !.frames = @ + 1]
      <3>1. PICK frame \in {[cmd |-> "waste"], [cmd |-> "heart_request"]} \cup {[cmd |-> "update", scheme |-> s] : s \in Schemes} :
                     downstream' = Append(downstream, frame)
        BY <2>2
      <3>2. frame \in Frames /\ frame.cmd \notin {"psh", "fin", "alert"}
        BY DEF Frames
      <3> QED
        BY <2>2, <3>1, <3>2
    <2>3. CASE /\ \E cmd \in {"fin", "alert"} : downstream' = Append(downstream, [cmd |-> cmd])
               /\ seen' = seen /\ any' = [any EXCEPT !.ended = TRUE]
      <3>1. PICK cmd \in {"fin", "alert"} : downstream' = Append(downstream, [cmd |-> cmd])
        BY <2>3
      <3>2. [cmd |-> cmd] \in Frames /\ [cmd |-> cmd].cmd \in {"fin", "alert"}
        BY DEF Frames
      <3> QED
        BY <2>3, <3>1, <3>2
    <2>4. CASE /\ downstream' = Append(downstream, [cmd |-> "psh", data |-> <<>>])
               /\ seen' = [seen EXCEPT !.hollow = TRUE] /\ any' = [any EXCEPT !.frames = @ + 1]
      <3>1. [cmd |-> "psh", data |-> <<>>] \in Frames
        BY DEF Frames
      <3> QED
        BY <2>4, <3>1
    <2> QED
      BY <2>1, <2>2, <2>3, <2>4 DEF ServerSends
  <1>5. PICK e, n : e = any'.ended /\ n = seen'.pushed
    OBVIOUS
  <1>6. /\ any' \in AnyRec
        /\ any'.held = any.held /\ any'.reader = any.reader /\ any'.cut = any.cut /\ any'.writer = any.writer
        /\ (f.cmd \in {"fin", "alert"} => e)
    <2>1. CASE any' = any /\ f.cmd = "psh"
      BY <1>1, <1>5, <2>1 DEF AnyType, AnyRec, SeenRec, UpRec
    <2>2. CASE any' = [any EXCEPT !.frames = @ + 1] /\ f.cmd \notin {"fin", "alert"}
      <3>1. PICK m : m = any.frames + 1
        OBVIOUS
      <3>2. any.frames \in Nat
        BY <1>1 DEF AnyType, AnyRec, SeenRec, UpRec
      <3>3. m \in Nat
        BY <3>1, <3>2
      <3>4. any' = [any EXCEPT !.frames = m]
        BY <2>2, <3>1
      <3> QED
        BY <1>1, <2>2, <3>3, <3>4 DEF AnyType, AnyRec, SeenRec, UpRec
    <2>3. CASE any' = [any EXCEPT !.ended = TRUE]
      BY <1>1, <1>5, <2>3 DEF AnyType, AnyRec, SeenRec, UpRec
    <2> QED
      BY <1>4, <2>1, <2>2, <2>3
  <1>7. /\ seen' \in SeenRec
        /\ seen'.wrote = seen.wrote /\ seen'.got = seen.got /\ seen'.eof = seen.eof
        /\ seen'.hollow = (seen.hollow \/ f = [cmd |-> "psh", data |-> <<>>])
        /\ n \in Nat /\ seen.pushed <= n /\ Link("frame", f, seen.pushed, n)
    <2>1. CASE /\ f = [cmd |-> "psh", data |-> <<Item("data", seen.pushed + 1)>>]
               /\ seen' = [seen EXCEPT !.pushed = @ + 1]
      <3>1. PICK m : m = seen.pushed + 1
        OBVIOUS
      <3>2. m \in Nat /\ seen.pushed <= m
        BY <1>3, <3>1
      <3>3. seen' = [seen EXCEPT !.pushed = m] /\ f.cmd = "psh" /\ f.data = <<Item("data", m)>>
        BY <2>1, <3>1
      <3>4. /\ seen' \in SeenRec
            /\ seen'.wrote = seen.wrote /\ seen'.got = seen.got /\ seen'.eof = seen.eof /\ seen'.pushed = m
        BY <1>1, <3>2, <3>3 DEF AnyType, AnyRec, SeenRec, UpRec
      <3>5. Link("frame", f, seen.pushed, m)
        BY <3>1, <3>3 DEF Link, Holds
      <3>6. seen'.hollow = seen.hollow /\ seen.hollow \in BOOLEAN /\ f # [cmd |-> "psh", data |-> <<>>]
        <4>1. <<Item("data", m)>> # <<>>
          OBVIOUS
        <4>2. f # [cmd |-> "psh", data |-> <<>>]
          BY <3>3, <4>1
        <4>3. seen'.hollow = seen.hollow /\ seen.hollow \in BOOLEAN
          BY <1>1, <3>3 DEF AnyType, SeenRec
        <4> QED
          BY <4>2, <4>3
      <3> QED
        BY <1>5, <3>2, <3>4, <3>5, <3>6
    <2>2. CASE f.cmd # "psh" /\ seen' = seen
      BY <1>1, <1>3, <1>5, <2>2 DEF Link, AnyType, AnyRec, SeenRec, UpRec
    <2>3. CASE f = [cmd |-> "psh", data |-> <<>>] /\ seen' = [seen EXCEPT !.hollow = TRUE]
      <3>1. f.cmd = "psh" /\ f.data = <<>> /\ Link("frame", f, seen.pushed, seen.pushed)
        BY <1>3, <2>3 DEF Link, Holds
      <3>2. /\ seen' \in SeenRec /\ seen'.hollow = TRUE /\ seen'.pushed = seen.pushed
            /\ seen'.wrote = seen.wrote /\ seen'.got = seen.got /\ seen'.eof = seen.eof
        BY <1>1, <2>3 DEF AnyType, SeenRec
      <3>3. seen'.hollow = (seen.hollow \/ f = [cmd |-> "psh", data |-> <<>>])
        BY <2>3, <3>2
      <3>4. n = seen.pushed /\ n \in Nat /\ seen.pushed <= n
        BY <1>3, <1>5, <3>2
      <3> QED
        BY <3>1, <3>2, <3>3, <3>4
    <2> QED
      BY <1>4, <2>1, <2>2, <2>3
  <1>8. downstream' \in Seq(Frames)
    BY <1>3, <1>4
  <1>9. AnyType'
    BY <1>1, <1>2, <1>6, <1>7, <1>8 DEF AnyType, AnyRec, SeenRec, UpRec
  <1>10. UpSide(any.writer, write_rx, upstream, seen.wrote)'
    BY <1>2, <1>6, <1>7 DEF AnyInv
  <1>11. LastOnly(downstream, any.ended)'
    <2>1. LastOnly(Append(downstream, f), e)
      BY <1>3, <1>6, LastAppend
    <2> QED
      BY <1>4, <1>5, <2>1
  <1>12. EndSeen(any, seen)'
    BY <1>3, <1>6, <1>7 DEF AnyInv, EndSeen
  <1>13. DownSide(any, read_rx, downstream, seen.got, seen.pushed)'
    <2>1. PICK h \in Nat :
            /\ h <= seen.pushed /\ Chain("chunk", read_rx, Len(seen.got), h)
            /\ any.held /\ any.reader => Coming(h, any.cut, downstream, seen.pushed)
            /\ any.held /\ ~any.reader /\ ~any.cut => any.ended
      BY DEF AnyInv, DownSide
    <2>2. h <= n
      BY <1>3, <1>7, <2>1
    <2>3. any.held /\ any.reader => Coming(h, FALSE, downstream', n)
      <3> DEFINE p == seen.pushed  d == downstream
      <3>1. /\ any.held /\ any.reader => Coming(h, FALSE, d, p)
            /\ d \in Seq(Frames) /\ p \in Nat /\ n \in Nat /\ p <= n /\ Link("frame", f, p, n) /\ downstream' = Append(d, f)
        BY <1>3, <1>4, <1>7, <2>1
      <3> HIDE DEF p, d
      <3> QED
        BY <3>1, ComingMore
    <2> QED
      BY <1>2, <1>3, <1>5, <1>6, <1>7, <2>1, <2>2, <2>3 DEF DownSide
  <1>14. Empties(read_rx, downstream, seen.hollow)'
    <2> DEFINE d == downstream  w == Append(d, f)
    <2>1. d \in Seq(Frames) /\ f \in Frames /\ Empties(read_rx, d, seen.hollow)
      BY <1>3 DEF AnyInv
    <2> HIDE DEF d
    <2>2. /\ Len(d) \in Nat /\ Len(w) = Len(d) + 1 /\ w[Len(d) + 1] = f
          /\ \A m \in 1..Len(d) : w[m] = d[m]
      BY <2>1
    <2> HIDE DEF w
    <2>3. f.cmd = "psh" /\ f.data = <<>> => f = [cmd |-> "psh", data |-> <<>>]
      BY DEF Frames
    <2>4. ASSUME NEW m \in 1..Len(w), w[m].cmd = "psh", w[m].data = <<>> PROVE seen'.hollow
      <3>1. CASE m \in 1..Len(d)
        BY <1>7, <2>1, <2>2, <2>4, <3>1 DEF Empties
      <3>2. CASE m \notin 1..Len(d)
        <4>1. m = Len(d) + 1
          BY <2>2, <3>2
        <4> QED
          BY <1>7, <2>2, <2>3, <2>4, <4>1
      <3> QED
        BY <3>1, <3>2
    <2>5. \A m \in 1..Len(read_rx) : read_rx[m] = <<>> => seen'.hollow
      BY <1>7, <2>1 DEF Empties
    <2> QED
      BY <1>2, <1>4, <2>4, <2>5 DEF Empties, d, w
  <1> QED
    BY <1>9, <1>10, <1>11, <1>12, <1>13, <1>14 DEF AnyInv

(* The connection breaks: frames that were under way may be lost.          *)
LEMMA StepBreak ==
    ASSUME AnyInv, Break PROVE AnyInv'
  <1>1. AnyType
    BY DEF AnyInv
  <1>2. /\ any' = [any EXCEPT !.cut = TRUE] /\ write_rx' = write_rx /\ read_rx' = read_rx
        /\ upstream' = upstream /\ seen' = seen
    BY DEF Break
  <1>3. PICK n \in 0..Len(downstream) : downstream' = SubSeq(downstream, 1, n)
    BY DEF Break
  <1>4. /\ any' \in AnyRec
        /\ any'.held = any.held /\ any'.reader = any.reader /\ any'.ended = any.ended
        /\ any'.writer = any.writer /\ any'.cut = TRUE
    BY <1>1, <1>2 DEF AnyType, AnyRec, SeenRec, UpRec
  <1>5. downstream' \in Seq(Frames) /\ LastOnly(downstream, any.ended)'
    <2> DEFINE d == downstream  e == SubSeq(d, 1, n)
    <2>1. d \in Seq(Frames) /\ n \in 0..Len(d) /\ LastOnly(d, any.ended)
      BY <1>1 DEF AnyInv, AnyType, AnyRec, SeenRec, UpRec
    <2> HIDE DEF d
    <2>2. e \in Seq(Frames) /\ Len(e) = n /\ Len(d) \in Nat /\ \A m \in 1..n : e[m] = d[m]
      BY <2>1
    <2> HIDE DEF e
    <2>3. LastOnly(e, any.ended)
      <3> SUFFICES ASSUME NEW m \in 1..Len(e), e[m].cmd \in {"fin", "alert"} PROVE m = Len(e) /\ any.ended
        BY DEF LastOnly
      <3>1. m \in 1..Len(d) /\ d[m].cmd \in {"fin", "alert"}
        BY <2>1, <2>2
      <3>2. m = Len(d) /\ any.ended
        BY <2>1, <3>1 DEF LastOnly
      <3> QED
        BY <2>1, <2>2, <3>2
    <2> QED
      BY <1>3, <1>4, <2>2, <2>3 DEF d, e
  <1>6. AnyType'
    BY <1>1, <1>2, <1>4, <1>5 DEF AnyType, AnyRec, SeenRec, UpRec
  <1>7. UpSide(any.writer, write_rx, upstream, seen.wrote)' /\ EndSeen(any, seen)'
    BY <1>2, <1>4 DEF AnyInv, EndSeen
  <1>8. DownSide(any, read_rx, downstream, seen.got, seen.pushed)'
    <2>1. PICK h \in Nat :
            /\ h <= seen.pushed /\ Chain("chunk", read_rx, Len(seen.got), h)
            /\ any.held /\ any.reader => Coming(h, any.cut, downstream, seen.pushed)
      BY DEF AnyInv, DownSide
    <2>2. ASSUME any.held /\ any.reader PROVE Coming(h, TRUE, downstream', seen.pushed)
      <3>1. PICK p \in Nat : p <= seen.pushed /\ Chain("frame", downstream, h, p)
        BY <2>1, <2>2 DEF Coming
      <3>2. PICK l \in Nat : l <= p /\ Chain("frame", downstream', h, l)
        <4>1. downstream \in Seq(Frames)
          BY <1>1 DEF AnyType, AnyRec, SeenRec, UpRec
        <4>2. \E l \in Nat : l <= p /\ Chain("frame", SubSeq(downstream, 1, n), h, l)
          BY <3>1, <4>1, ChainCut
        <4> QED
          BY <1>3, <4>2
      <3>3. seen.pushed \in Nat
        BY <1>1 DEF AnyType, AnyRec, SeenRec, UpRec
      <3> QED
        BY <3>1, <3>2, <3>3 DEF Coming
    <2> QED
      BY <1>2, <1>4, <2>1, <2>2 DEF DownSide
  <1>9. Empties(read_rx, downstream, seen.hollow)'
    <2> DEFINE d == downstream  e == SubSeq(d, 1, n)
    <2>1. d \in Seq(Frames) /\ n \in 0..Len(d) /\ Empties(read_rx, d, seen.hollow)
      BY <1>1 DEF AnyInv, AnyType
    <2> HIDE DEF d
    <2>2. Len(e) = n /\ Len(d) \in Nat /\ \A m \in 1..n : e[m] = d[m] /\ m \in 1..Len(d)
      BY <2>1
    <2> HIDE DEF e
    <2>3. Empties(read_rx, e, seen.hollow)
      BY <2>1, <2>2 DEF Empties
    <2> QED
      BY <1>2, <1>3, <2>3 DEF d, e
  <1> QED
    BY <1>5, <1>6, <1>7, <1>8, <1>9 DEF AnyInv

LEMMA AnyStutter ==
    ASSUME AnyInv, UNCHANGED anyVars PROVE AnyInv'
  <1>1. any' = any /\ write_rx' = write_rx /\ read_rx' = read_rx /\ upstream' = upstream /\ downstream' = downstream
        /\ seen' = seen
    BY DEF anyVars
  <1> QED
    BY <1>1 DEF AnyInv, AnyType, AnyRec, SeenRec, UpRec

LEMMA AnyStep ==
    ASSUME AnyInv, [AnyNext]_anyVars PROVE AnyInv'
  BY StepAppWrites, StepAppShutsDown, StepAppReads, StepAppReadsEof, StepAppDrops, StepWriterTakes, StepWriterWrites,
     StepWriterFails, StepWriterEnds,
     StepReaderTask, StepReaderFails, StepServerSends, StepBreak, AnyStutter DEF AnyNext

(* What the invariant says of what either side got.                        *)
LEMMA AnyInvIntact ==
    ASSUME AnyInv PROVE AnyIntact
  <1>1. AnyType
    BY DEF AnyInv
  <1> DEFINE b == [cmd |-> "none", need |-> 0, payload |-> <<>>, bad |-> FALSE]
  <1> DEFINE sent == upstream.sent
  <1>2. Parsed = ParseAll(b, sent) /\ sent \in Seq(Toks)
    <2>1. sent \in Seq(Toks) /\ Len(sent) \in Nat /\ DOMAIN sent = 1..Len(sent)
      BY <1>1 DEF AnyType, AnyRec, SeenRec, UpRec
    <2> QED
      BY <2>1, ParseFold DEF Parsed, ParseAll
  <1>3. Boundary(b) /\ b.payload = Stream(0)
    <2>1. Stream(0) = <<>>
      BY DEF Stream
    <2> QED
      BY <2>1 DEF Boundary, ParserState
  <1> HIDE DEF b
  <1>4. PICK i \in Nat, r \in Seq(Toks) :
            /\ i <= seen.wrote + 1 /\ Carries(sent \o r, 0, i)
            /\ any.writer => r = upstream.tls \o upstream.rest /\ Chain("payload", write_rx, i, seen.wrote + 1)
    BY DEF AnyInv, UpSide
  <1> HIDE DEF sent
  <1> DEFINE all == ParseAll(b, sent \o r)
  <1>5. /\ Boundary(all) /\ all.payload = Stream(i) /\ all = ParseAll(Parsed, r)
        /\ Parsed \in ParserState /\ Grows(Parsed, all)
    <2>1. Boundary(all) /\ all.payload = Stream(i)
      BY <1>3, <1>4 DEF Carries
    <2>2. all = ParseAll(Parsed, r)
      BY <1>2, ParseConcat
    <2>3. Parsed \in ParserState
      BY <1>2, <1>3, ParseGrows DEF Boundary
    <2>4. Grows(Parsed, ParseAll(Parsed, r))
      BY <2>3, ParseGrows
    <2> QED
      BY <2>1, <2>2, <2>3, <2>4
  <1> HIDE DEF all
  <1>6. ~Parsed.bad
    BY <1>5 DEF Boundary, Grows
  <1>7. Stream(i) \in Seq(Toks) /\ Len(Stream(i)) = i
    BY DEF Stream, Toks, Marks, Item
  <1>8. IsPrefix(Parsed.payload, <<Item("address", 0)>> \o [l \in 1..seen.wrote |-> Item("data", l)])
    <2> DEFINE n == seen.wrote  d == Data(n)  a == <<Item("address", 0)>>  t == a \o d
    <2>1. n \in Nat /\ i <= n + 1 /\ d \in Seq(Toks) /\ Len(d) = n /\ \A l \in 1..n : d[l] = Item("data", l)
      <3>1. n \in Nat /\ i <= n + 1
        BY <1>1, <1>4 DEF AnyType, AnyRec, SeenRec, UpRec
      <3> HIDE DEF n
      <3> QED
        BY <3>1, DataMore DEF Data
    <2>2. a \in Seq(Toks) /\ Len(a) = 1 /\ a[1] = Item("address", 0)
      <3>1. Item("address", 0) \in Toks
        BY DEF Item, Toks, Marks
      <3> QED
        BY <3>1
    <2> HIDE DEF n, d, a
    <2>3. t \in Seq(Toks) /\ Len(t) = n + 1 /\ t[1] = a[1] /\ \A l \in 1..n : t[l + 1] = d[l]
      <3>1. a \in Seq(Toks) /\ d \in Seq(Toks)
        BY <2>1, <2>2
      <3>2. /\ t \in Seq(Toks) /\ Len(t) = Len(a) + Len(d)
            /\ \A l \in 1..Len(a) + Len(d) : t[l] = IF l <= Len(a) THEN a[l] ELSE d[l - Len(a)]
        BY <3>1
      <3>3. ASSUME NEW l \in 1..n PROVE t[l + 1] = d[l]
        <4>1. l + 1 \in 1..Len(a) + Len(d) /\ ~(l + 1 <= Len(a)) /\ (l + 1) - Len(a) = l
          BY <2>1, <2>2
        <4> QED
          BY <3>2, <4>1
      <3> HIDE DEF t
      <3>4. Len(t) = n + 1
        BY <2>1, <2>2, <3>2
      <3>5. t[1] = a[1]
        <4>1. 1 \in 1..Len(a) + Len(d) /\ 1 <= Len(a)
          BY <2>1, <2>2
        <4> QED
          BY <3>2, <4>1
      <3> QED
        BY <3>2, <3>3, <3>4, <3>5, Zenon
    <2> HIDE DEF t
    <2>4. \A l \in 1..i : Stream(i)[l] = t[l]
      <3> TAKE l \in 1..i
      <3>1. CASE l = 1
        BY <2>2, <2>3, <3>1 DEF Stream
      <3>2. CASE l # 1
        <4>1. l - 1 \in 1..n /\ (l - 1) + 1 = l
          BY <2>1, <3>2
        <4>2. t[l] = Item("data", l - 1)
          BY <2>1, <2>3, <4>1
        <4> QED
          BY <3>2, <4>2 DEF Stream
      <3> QED
        BY <3>1, <3>2
    <2> DEFINE s == Parsed.payload
    <2>5. s \in Seq(Toks) /\ Len(s) \in Nat /\ Len(s) <= i /\ \A l \in 1..Len(s) : s[l] = t[l]
      <3>1. s \in Seq(Toks) /\ Len(s) \in Nat
        BY <1>5 DEF ParserState
      <3>2. Len(s) <= i /\ \A l \in 1..Len(s) : Stream(i)[l] = s[l]
        BY <1>5, <1>7 DEF Grows
      <3>3. \A l \in 1..Len(s) : l \in 1..i
        BY <3>1, <3>2
      <3> QED
        BY <2>4, <3>1, <3>2, <3>3
    <2> HIDE DEF s
    <2>6. Len(s) <= Len(t) /\ SubSeq(s, 1, Len(s)) = SubSeq(t, 1, Len(s))
      BY <2>1, <2>3, <2>5
    <2> QED
      BY <2>6 DEF IsPrefix, s, t, a, d, n, Data
  <1>9. ASSUME any.writer /\ write_rx = <<>> /\ upstream.rest = <<>> /\ upstream.tls = <<>>
        PROVE  Parsed.need = 0 /\ Len(Parsed.payload) = seen.wrote + 1
    <2>1. r = <<>>
      <3>1. <<>> \o <<>> = <<>>
        OBVIOUS
      <3> QED
        BY <1>4, <1>9, <3>1
    <2>2. sent \o r = sent
      BY <1>2, <2>1, ConcatEmptySeq
    <2>3. all = Parsed
      BY <1>2, <2>2 DEF all
    <2>4. i = seen.wrote + 1
      BY <1>4, <1>9, ChainEmpty
    <2> QED
      BY <1>5, <1>7, <2>3, <2>4 DEF Boundary
  <1>10. IsPrefix(seen.got, [l \in 1..seen.pushed |-> Item("data", l)])
    <2> DEFINE n == Len(seen.got)  m == seen.pushed  s == Data(n)  t == Data(m)
    <2>1. seen.got = s /\ n \in Nat /\ m \in Nat /\ n <= m
      <3>1. seen.got = s /\ n \in Nat /\ m \in Nat
        BY <1>1 DEF AnyInv, AnyType, AnyRec, SeenRec, UpRec, EndSeen
      <3>2. PICK h \in Nat : h <= m /\ Chain("chunk", read_rx, n, h)
        BY DEF AnyInv, DownSide
      <3>3. n <= h
        BY <3>2, ChainEnds
      <3> HIDE DEF n, m
      <3> QED
        BY <3>1, <3>2, <3>3
    <2> HIDE DEF n, m
    <2>2. s \in Seq(Toks) /\ Len(s) = n /\ t \in Seq(Toks) /\ Len(t) = m /\ \A l \in 1..n : s[l] = t[l]
      <3>1. s \in Seq(Toks) /\ Len(s) = n /\ t \in Seq(Toks) /\ Len(t) = m
        BY <2>1, DataMore
      <3>2. \A l \in 1..n : s[l] = t[l]
        BY <2>1 DEF Data
      <3> QED
        BY <3>1, <3>2
    <2> HIDE DEF s, t
    <2>3. Len(s) <= Len(t) /\ SubSeq(s, 1, Len(s)) = SubSeq(t, 1, Len(s))
      BY <2>1, <2>2
    <2>4. IsPrefix(s, t)
      BY <2>3 DEF IsPrefix
    <2> QED
      BY <2>1, <2>4 DEF t, m, Data
  <1>11. seen.eof /\ ~any.cut /\ ~seen.hollow => Len(seen.got) = seen.pushed
    BY DEF AnyInv, EndSeen
  <1> QED
    BY <1>6, <1>8, <1>9, <1>10, <1>11 DEF AnyIntact

AnySpec == (\E open \in BOOLEAN : AnyInit(open)) /\ [][AnyNext]_anyVars

\* Whatever padding schemes the server sends and however they cut and pad the
\* payloads (apply_padding), wherever a write stops short or the connection breaks,
\* whenever heartbeats come between, for any number of writes and of frames, what is on
\* the socket reads as frames that carry the address and then what the caller wrote, all
\* of it once nothing is held back, and the caller reads what the server pushed
\* (tcp_connect and AnyTlsStream of anytls client.rs).
THEOREM AnyTlsIntact == AnySpec => []AnyIntact
<1>1. (\E open \in BOOLEAN : AnyInit(open)) => AnyInv
  BY AnyStart
<1> QED
  BY <1>1, AnyStep, AnyInvIntact, PTL DEF AnySpec
=============================================================================
