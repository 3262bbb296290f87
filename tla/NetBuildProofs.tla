--------------------------- MODULE NetBuildProofs ---------------------------
(* Theorems about NetBuild for every configuration: build_entities builds     *)
(* exactly what is sound, what runs refers to what runs, and selections       *)
(* survive a restart.  The invariant of the build (BuildState) follows the    *)
(* recursion of get_net down its stack.                                       *)
EXTENDS NetBuild, SequenceTheorems, FiniteSetTheorems, WellFoundedInduction, TLAPS

-----------------------------------------------------------------------------
(* The least set of references that can be built.                            *)

\* What refers to sound references only, and would be built, is sound.
LEMMA SoundIsClosed ==
    ASSUME NEW nets, NEW r \in Refs, Builds(nets, r), Range(Target(nets, r).refs) \subseteq Sound(nets)
    PROVE  r \in Sound(nets)
  <1> SUFFICES ASSUME NEW S \in SUBSET Refs, ClosedUnder(nets, S)
               PROVE  r \in S
    BY DEF Sound
  <1>1. Sound(nets) \subseteq S
    BY DEF Sound
  <1> QED
    BY <1>1 DEF ClosedUnder

\* A sound reference would be built, and refers to sound ones only.
LEMMA SoundBuilds ==
    ASSUME NEW nets, NEW r \in Sound(nets)
    PROVE  r \in Refs /\ Builds(nets, r) /\ Range(Target(nets, r).refs) \subseteq Sound(nets)
  <1> DEFINE S == {x \in Sound(nets) : Builds(nets, x) /\ Range(Target(nets, x).refs) \subseteq Sound(nets)}
  <1>1. S \in SUBSET Refs
    BY DEF Sound
  <1>2. ClosedUnder(nets, S)
    <2> SUFFICES ASSUME NEW x \in Refs, Builds(nets, x), Range(Target(nets, x).refs) \subseteq S
                 PROVE  x \in S
      BY DEF ClosedUnder
    <2>1. Range(Target(nets, x).refs) \subseteq Sound(nets)
      OBVIOUS
    <2>2. x \in Sound(nets)
      BY <2>1, SoundIsClosed
    <2> QED
      BY <2>1, <2>2
  <1> QED
    BY <1>1, <1>2 DEF Sound

\* References of which each leads back into their set are not sound.
LEMMA NoSoundCycle ==
    ASSUME NEW nets, NEW T, \A r \in T : \E x \in Range(Target(nets, r).refs) : x \in T
    PROVE  T \cap Sound(nets) = {}
  <1> DEFINE S == Sound(nets) \ T
  <1>1. S \in SUBSET Refs
    BY DEF Sound
  <1>2. ClosedUnder(nets, S)
    <2> SUFFICES ASSUME NEW x \in Refs, Builds(nets, x), Range(Target(nets, x).refs) \subseteq S
                 PROVE  x \in S
      BY DEF ClosedUnder
    <2>1. Range(Target(nets, x).refs) \subseteq Sound(nets)
      OBVIOUS
    <2>2. x \in Sound(nets)
      BY <2>1, SoundIsClosed
    <2> QED
      BY <2>2
  <1>3. Sound(nets) \subseteq S
    BY <1>1, <1>2 DEF Sound
  <1> QED
    BY <1>3

-----------------------------------------------------------------------------
(* Sequences of which only the length and the elements are known.            *)
IsSeq(s) == s \in Seq(Range(s))

\* A set of numbers up to n has a least one.
LEMMA LeastUpTo ==
    ASSUME NEW n \in Nat, NEW T \in SUBSET (0..n), T # {}
    PROVE  \E x \in T : \A y \in T : x <= y
  <1> DEFINE D == {1..k : k \in T}
  <1>1. \A k \in 0..n : 1..k \subseteq 1..n
    OBVIOUS
  <1>2. IsWellFoundedOn(StrictSubsetOrdering(1..n), SUBSET (1..n))
    <2>1. IsFiniteSet(1..n)
      BY FS_Interval
    <2> QED
      BY <2>1, FS_FiniteSubsetsOfFinite, FS_StrictSubsetOrderingWellFounded, Zenon
  <1>3. D \subseteq SUBSET (1..n) /\ D # {}
    BY <1>1
  <1>4. PICK x \in D : \A y \in D : ~ (<<y, x>> \in StrictSubsetOrdering(1..n))
    <2> HIDE DEF D
    <2> QED
      BY <1>2, <1>3, WFMin
  <1>5. PICK k \in T : x = 1..k
    BY <1>4
  <1>6. ASSUME NEW j \in T, j < k PROVE FALSE
    <2>1. 1..j \in D /\ 1..j \subseteq 1..k /\ 1..k \subseteq 1..n /\ k \in 1..k /\ k \notin 1..j
      BY <1>6
    <2>2. <<1..j, 1..k>> \in StrictSubsetOrdering(1..n)
      BY <2>1 DEF StrictSubsetOrdering
    <2> QED
      BY <2>1, <2>2, <1>4, <1>5
  <1> QED
    BY <1>6

\* What is known of a sequence without knowing the set of its elements.
LEMMA SeqElements ==
    ASSUME NEW s, IsSeq(s)
    PROVE  Len(s) \in Nat /\ DOMAIN s = 1..Len(s) /\ (s = <<>> <=> Len(s) = 0)
  BY DEF IsSeq

\* A sequence over some set is one.
LEMMA InSeq ==
    ASSUME NEW S, NEW s \in Seq(S)
    PROVE  IsSeq(s) /\ \A i \in 1..Len(s) : s[i] \in S
  BY DEF IsSeq, Range

\* A call is put on the stack.
LEMMA PushSeq ==
    ASSUME NEW s, IsSeq(s), NEW x
    PROVE  /\ IsSeq(Append(s, x)) /\ Len(Append(s, x)) = Len(s) + 1
           /\ Append(s, x)[Len(s) + 1] = x
           /\ \A i \in 1..Len(s) : Append(s, x)[i] = s[i]
  <1>1. s \in Seq(Range(s) \cup {x}) /\ x \in Range(s) \cup {x}
    BY DEF IsSeq
  <1>2. Append(s, x) \in Seq(Range(s) \cup {x})
    BY <1>1
  <1>3. IsSeq(Append(s, x))
    BY <1>2, InSeq
  <1> QED
    BY <1>1, <1>3

\* The element at one place is replaced.
LEMMA ReplaceSeq ==
    ASSUME NEW s, IsSeq(s), NEW k \in 1..Len(s), NEW x
    PROVE  /\ IsSeq([s EXCEPT ![k] = x]) /\ Len([s EXCEPT ![k] = x]) = Len(s)
           /\ [s EXCEPT ![k] = x][k] = x
           /\ \A i \in 1..Len(s) : i # k => [s EXCEPT ![k] = x][i] = s[i]
  <1>1. s \in Seq(Range(s) \cup {x}) /\ x \in Range(s) \cup {x}
    BY DEF IsSeq
  <1>2. [s EXCEPT ![k] = x] \in Seq(Range(s) \cup {x})
    BY <1>1
  <1>3. IsSeq([s EXCEPT ![k] = x])
    BY <1>2, InSeq
  <1> QED
    BY <1>1, <1>3

\* All but the last element.
LEMMA FrontOf ==
    ASSUME NEW S, NEW s \in Seq(S), s # <<>>
    PROVE  /\ Front(s) \in Seq(S) /\ Len(Front(s)) = Len(s) - 1
           /\ \A i \in 1..Len(s) - 1 : Front(s)[i] = s[i]
  <1>1. Len(s) - 1 \in Nat /\ 1 <= Len(s) /\ \A i \in 1..Len(s) - 1 : s[i] \in S
    OBVIOUS
  <1> DEFINE n == Len(s) - 1
  <1>2. n \in Int /\ n = Len(s) - 1
    BY <1>1
  <1>3. \A i \in 1..n : s[i] \in S
    BY <1>1, <1>2
  <1> HIDE DEF n
  <1>4. /\ SubSeq(s, 1, n) \in Seq(S)
        /\ Len(SubSeq(s, 1, n)) = IF 1 <= n THEN n - 1 + 1 ELSE 0
        /\ \A i \in 1..n - 1 + 1 : SubSeq(s, 1, n)[i] = s[1 + i - 1]
    BY <1>2, <1>3, SubSeqProperties
  <1>5. Front(s) = SubSeq(s, 1, n)
    BY <1>2 DEF Front
  <1>6. \A i \in 1..n : SubSeq(s, 1, n)[i] = s[i]
    BY <1>4
  <1> QED
    BY <1>1, <1>2, <1>4, <1>5, <1>6

\* A call returns: the stack without its top.
LEMMA FrontSeq ==
    ASSUME NEW s, IsSeq(s), s # <<>>
    PROVE  /\ IsSeq(Front(s)) /\ Len(Front(s)) = Len(s) - 1
           /\ \A i \in 1..Len(s) - 1 : Front(s)[i] = s[i]
  <1>1. Front(s) \in Seq(Range(s)) /\ Len(Front(s)) = Len(s) - 1
        /\ \A i \in 1..Len(s) - 1 : Front(s)[i] = s[i]
    BY FrontOf DEF IsSeq
  <1> QED
    BY <1>1, InSeq

\* The first server is taken off the list.
LEMMA TailSeq ==
    ASSUME NEW s, IsSeq(s), s # <<>>
    PROVE  /\ IsSeq(Tail(s)) /\ Len(Tail(s)) = Len(s) - 1 /\ Head(s) = s[1]
           /\ \A i \in 1..Len(s) - 1 : Tail(s)[i] = s[i + 1]
  <1>1. Tail(s) \in Seq(Range(s)) /\ Len(Tail(s)) = Len(s) - 1 /\ Head(s) = s[1]
        /\ \A i \in 1..Len(s) - 1 : Tail(s)[i] = s[i + 1]
    BY DEF IsSeq
  <1> QED
    BY <1>1, InSeq

\* The references of a net are replaced.
LEMMA NewRefs ==
    ASSUME NEW f, NEW q, f = [type |-> f.type, opt |-> f.opt, refs |-> f.refs, rule |-> f.rule]
    PROVE  [f EXCEPT !.refs = q] = [type |-> f.type, opt |-> f.opt, refs |-> q, rule |-> f.rule]
  OBVIOUS

-----------------------------------------------------------------------------
(* What was read, and what a name stands for.  c is the configuration as it  *)
(* was read, org gives every name the NetRef it stands for.                  *)
Merged(c) == MergeProcess(DefaultNets, c.nets)
Source(c, org, n) == Target(Merged(c), org[n])

\* With the default nets, the configuration is still a written one.
LEMMA MergedWritten ==
    ASSUME NEW c, WrittenConfig(c), NEW n \in DOMAIN Merged(c)
    PROVE  Configured(n) /\ Written(Merged(c)[n])
  <1>1. CASE n \in DOMAIN c.nets
    <2>1. Merged(c)[n] = c.nets[n]
      BY <1>1 DEF Merged, MergeProcess
    <2> QED
      BY <1>1, <2>1 DEF WrittenConfig
  <1>2. CASE n \notin DOMAIN c.nets
    <2>1. n \in {Noop, Blackhole, Local} /\ Merged(c)[n] = DefaultNets[n]
      BY <1>2 DEF Merged, MergeProcess, DefaultNets
    <2>2. DefaultNets[n] = [type |-> n[1], opt |-> "valid", refs |-> <<>>, rule |-> <<>>]
      BY <2>1 DEF DefaultNets, Net
    <2>3. Configured(n)
      BY <2>1 DEF Configured, Noop, Blackhole, Local, None
    <2>4. <<>> \in Seq(Refs)
      OBVIOUS
    <2> QED
      BY <2>1, <2>2, <2>3, <2>4 DEF Written
  <1> QED
    BY <1>1, <1>2

\* No configuration has a name that get_net generates.
LEMMA GeneratedNotConfigured ==
    ASSUME NEW m, NEW i, NEW k \in {"net", "server"}
    PROVE  ~Configured(<<k, m, i>>)
  BY DEF Configured

\* A NetRef that is written either names a configured net or holds a written one.
LEMMA WrittenRef ==
    ASSUME NEW r \in Refs
    PROVE  /\ r.net = None => r = Name(r.name) /\ Configured(r.name)
           /\ r.net # None => Written(r.net)
  BY RefsAssumption DEF Name, Inline

Names(c, org, nets) ==
  /\ DOMAIN org = DOMAIN nets /\ DOMAIN Merged(c) \subseteq DOMAIN nets
  /\ \A n \in DOMAIN org : IF n \in DOMAIN Merged(c) THEN org[n] = Name(n)
                           ELSE org[n] \in Refs /\ org[n].net # None

\* Whatever a name stands for is a net that was written.
LEMMA SourceWritten ==
    ASSUME NEW c, WrittenConfig(c), NEW org, NEW nets, Names(c, org, nets), NEW n \in DOMAIN nets
    PROVE  Written(Source(c, org, n))
  <1>1. CASE n \in DOMAIN Merged(c)
    <2>1. org[n] = Name(n)
      BY <1>1 DEF Names
    <2>2. Source(c, org, n) = Merged(c)[n]
      BY <2>1 DEF Source, Target, Name
    <2> QED
      BY <1>1, <2>2, MergedWritten
  <1>2. CASE n \notin DOMAIN Merged(c)
    <2>1. org[n] \in Refs /\ org[n].net # None
      BY <1>2 DEF Names
    <2>2. Source(c, org, n) = org[n].net
      BY <2>1 DEF Source, Target
    <2> QED
      BY <2>1, <2>2, WrittenRef
  <1> QED
    BY <1>1, <1>2

-----------------------------------------------------------------------------
(* A net under construction: the nets it holds got names of their own.       *)
Lifted(r, s, org) == s.net # None /\ r.net = None /\ r.name \in DOMAIN org /\ org[r.name] = s
Flat(net, src, org) ==
  /\ net = [type |-> src.type, opt |-> src.opt, refs |-> net.refs, rule |-> src.rule]
  /\ IsSeq(net.refs) /\ Len(net.refs) = Len(src.refs)
  /\ \A i \in 1..Len(src.refs) : net.refs[i] = src.refs[i] \/ Lifted(net.refs[i], src.refs[i], org)
\* Its references up to the next one are built: D are the names of what runs.
Progress(f, src, D, S) ==
  /\ f = [name |-> f.name, net |-> f.net, next |-> f.next]
  /\ f.next \in 1..Len(src.refs) + 1
  /\ \A i \in 1..Len(src.refs) : i < f.next => /\ f.net.refs[i].net = None /\ f.net.refs[i].name \in D
                                               /\ src.refs[i] \in S
\* The nested nets of a frame that have a name already.
Taken(f, i) == i < f.next \/ (i = f.next /\ f.net.refs[i].net = None)

Under(s) == {s[j].name : j \in 2..Len(s)}
Src(c, org, k, j, f) == IF j = 1 THEN ServerNet(c.servers[k]) ELSE Source(c, org, f.name)
\* Every generated name tells where it comes from, a place the build has passed.
Fresh(c, org, k, D, s) ==
  \A n \in DOMAIN org \ DOMAIN Merged(c) :
    \E m : \E i \in Nat :
              \/ /\ n = <<"net", m, i>>
                 /\ m \in D \/ \E j \in 2..Len(s) : s[j].name = m /\ Taken(s[j], i)
              \/ /\ n = <<"server", m, i>>
                 /\ \E l \in 1..k : c.servers[l].name = m /\ (l = k /\ s # <<>> => Taken(s[1], i))
\* A net that nobody came across is as it was written; on the stack it is a placeholder.
Lying(c, org, nets, D, s) ==
  \A n \in DOMAIN nets : /\ n \in Under(s) => ~Known(nets[n])
                         /\ n \notin Under(s) /\ n \notin D => nets[n] = Source(c, org, n)
Stacked(c, org, D, s) ==
  \A j \in 2..Len(s) : /\ s[j].name \in DOMAIN org /\ s[j].name \notin D /\ org[s[j].name] \in Refs
                       /\ Known(Source(c, org, s[j].name))
                       /\ \A l \in 2..Len(s) : s[j].name = s[l].name => j = l
Framed(c, org, k, D, s) ==
  \A j \in 1..Len(s) : /\ Flat(s[j].net, Src(c, org, k, j, s[j]), org)
                       /\ Progress(s[j], Src(c, org, k, j, s[j]), D, Sound(Merged(c)))
Leads(f, src, g, org) == /\ f.next <= Len(src.refs) /\ f.net.refs[f.next].net = None
                         /\ f.net.refs[f.next].name = g.name /\ org[g.name] = src.refs[f.next]
Linked(c, org, k, s) ==
  \A j \in 1..Len(s) - 1 : Leads(s[j], Src(c, org, k, j, s[j]), s[j + 1], org)
Served(c, i) == /\ Deserializes(c.servers[i]) /\ Accepts(ServerNet(c.servers[i]))
                /\ Range(c.servers[i].refs) \subseteq Sound(Merged(c))
Serving(c, k, s, srv) ==
  /\ k \in 0..Len(c.servers) /\ IsSeq(srv) /\ Len(srv) = Len(c.servers) - k
  /\ \A i \in 1..Len(srv) : srv[i] = c.servers[k + i]
  /\ \A i \in 1..k : (i = k /\ s # <<>>) \/ Served(c, i)
  /\ s # <<>> => k > 0 /\ s[1].name = c.servers[k].name /\ Deserializes(c.servers[k])
Cached(c, org, nets, run) ==
  \A n \in DOMAIN run : /\ n \in DOMAIN org /\ org[n] \in Sound(Merged(c))
                        /\ Flat(nets[n], Source(c, org, n), org)
                        /\ \A i \in 1..Len(run[n].refs) : run[n].refs[i].name \in DOMAIN run

BuildState(c, org, k, nets, run, s, srv) ==
  /\ Names(c, org, nets) /\ Fresh(c, org, k, DOMAIN run, s)
  /\ IsSeq(s) /\ Lying(c, org, nets, DOMAIN run, s) /\ Stacked(c, org, DOMAIN run, s)
  /\ Framed(c, org, k, DOMAIN run, s) /\ Linked(c, org, k, s)
  /\ Serving(c, k, s, srv) /\ Cached(c, org, nets, run)

\* The frames are of nets and servers that were written.
LEMMA FrameWritten ==
    ASSUME NEW c, WrittenConfig(c), NEW org, NEW k, NEW nets, NEW run, NEW s, NEW srv,
           BuildState(c, org, k, nets, run, s, srv), NEW j \in 1..Len(s)
    PROVE  /\ Src(c, org, k, j, s[j]).refs \in Seq(Refs)
           /\ Len(Src(c, org, k, j, s[j]).refs) \in Nat
  <1>0. IsSeq(s)
    BY DEF BuildState
  <1>1. CASE j = 1
    <2>1. s # <<>> /\ k \in 1..Len(c.servers)
      BY <1>0, <1>1, SeqElements DEF BuildState, Serving
    <2>2. c.servers[k].refs \in Seq(Refs)
      BY <2>1 DEF WrittenConfig
    <2>3. Src(c, org, k, j, s[j]).refs = c.servers[k].refs
      BY <1>1 DEF Src, ServerNet, Net
    <2> QED
      BY <2>2, <2>3
  <1>2. CASE j # 1
    <2>1. j \in 2..Len(s)
      BY <1>0, <1>2, SeqElements
    <2>2. s[j].name \in DOMAIN nets /\ Names(c, org, nets)
      BY <2>1 DEF BuildState, Stacked, Names
    <2>3. Written(Source(c, org, s[j].name))
      BY <2>2, SourceWritten
    <2>4. Src(c, org, k, j, s[j]) = Source(c, org, s[j].name)
      BY <1>2 DEF Src
    <2> QED
      BY <2>3, <2>4 DEF Written
  <1> QED
    BY <1>1, <1>2

\* The name of a reference that is visited stands for what was written in its place;
\* a name nobody has was written and cannot be built.
LEMMA VisitedRef ==
    ASSUME NEW c, WrittenConfig(c), NEW org, NEW k, NEW nets, NEW run, NEW s, NEW srv,
           BuildState(c, org, k, nets, run, s, srv), NEW j \in 1..Len(s),
           NEW i \in 1..Len(Src(c, org, k, j, s[j]).refs),
           s[j].net.refs[i].net = None
    PROVE  /\ s[j].net.refs[i].name \in DOMAIN nets =>
                org[s[j].net.refs[i].name] = Src(c, org, k, j, s[j]).refs[i]
           /\ s[j].net.refs[i].name \notin DOMAIN nets => ~Builds(Merged(c), Src(c, org, k, j, s[j]).refs[i])
  <1> DEFINE src == Src(c, org, k, j, s[j])
             r == s[j].net.refs[i]
  <1>1. src.refs[i] \in Refs
    BY FrameWritten
  <1>2. Names(c, org, nets) /\ Fresh(c, org, k, DOMAIN run, s)
    BY DEF BuildState
  <1>3. r = src.refs[i] \/ Lifted(r, src.refs[i], org)
    BY DEF BuildState, Framed, Flat
  <1> HIDE DEF src, r
  <1>4. CASE Lifted(r, src.refs[i], org)
    BY <1>2, <1>4 DEF Lifted, Names, r, src
  <1>5. CASE r = src.refs[i]
    <2>1. r = Name(r.name) /\ Configured(r.name)
      BY <1>1, <1>5, WrittenRef DEF r
    <2>2. CASE r.name \in DOMAIN nets
      <3>1. ASSUME r.name \notin DOMAIN Merged(c) PROVE FALSE
        <4>1. r.name \in DOMAIN org \ DOMAIN Merged(c)
          BY <1>2, <2>2, <3>1 DEF Names
        <4>2. PICK m, l : r.name = <<"net", m, l>> \/ r.name = <<"server", m, l>>
          BY <1>2, <4>1 DEF Fresh
        <4>3. ~Configured(<<"net", m, l>>) /\ ~Configured(<<"server", m, l>>)
          BY GeneratedNotConfigured
        <4> QED
          BY <2>1, <4>2, <4>3
      <3> QED
        BY <1>2, <1>5, <2>1, <2>2, <3>1 DEF Names, r, src
    <2>3. CASE r.name \notin DOMAIN nets
      <3>1. r.name \notin DOMAIN Merged(c) /\ r.net = None
        BY <1>2, <2>3 DEF Names, r
      <3>2. ~Builds(Merged(c), r)
        BY <3>1 DEF Builds
      <3> QED
        BY <1>5, <2>3, <3>2 DEF r, src
    <2> QED
      BY <2>2, <2>3
  <1> QED
    BY <1>3, <1>4, <1>5

\* The same for all references of a frame.
LEMMA VisitedRefs ==
    ASSUME NEW c, WrittenConfig(c), NEW org, NEW k, NEW nets, NEW run, NEW s, NEW srv,
           BuildState(c, org, k, nets, run, s, srv), NEW j \in 1..Len(s)
    PROVE  \A i \in 1..Len(Src(c, org, k, j, s[j]).refs) :
             s[j].net.refs[i].net = None /\ s[j].net.refs[i].name \in DOMAIN nets =>
             org[s[j].net.refs[i].name] = Src(c, org, k, j, s[j]).refs[i]
  BY VisitedRef

\* The reference that the frame on top comes to.
LEMMA VisitedTop ==
    ASSUME NEW c, WrittenConfig(c), NEW org, NEW k, NEW nets, NEW run, NEW s, NEW srv,
           BuildState(c, org, k, nets, run, s, srv), s # <<>>,
           NEW f, f = s[Len(s)], NEW src, src = Src(c, org, k, Len(s), f),
           f.next <= Len(f.net.refs), f.net.refs[f.next].net = None, NEW n, n = f.net.refs[f.next].name
    PROVE  /\ f.next \in Nat /\ f.next \in 1..Len(src.refs) /\ Len(f.net.refs) = Len(src.refs)
           /\ n \in DOMAIN nets => org[n] = src.refs[f.next]
  <1>1. IsSeq(s) /\ Len(s) \in 1..Len(s)
    BY SeqElements DEF BuildState
  <1>2. Flat(f.net, src, org) /\ Progress(f, src, DOMAIN run, Sound(Merged(c))) /\ Len(src.refs) \in Nat
    BY <1>1, FrameWritten DEF BuildState, Framed
  <1>3. f.next \in Nat /\ f.next \in 1..Len(src.refs) /\ Len(f.net.refs) = Len(src.refs)
    BY <1>2 DEF Progress, Flat
  <1>4. \A i \in 1..Len(src.refs) : f.net.refs[i].net = None /\ f.net.refs[i].name \in DOMAIN nets =>
                                    org[f.net.refs[i].name] = src.refs[i]
    BY <1>1, VisitedRefs
  <1> QED
    BY <1>3, <1>4

-----------------------------------------------------------------------------
(* A call that fails: up the stack, no reference that led to it is sound.    *)
Good(c) == \A i \in 1..Len(c.servers) : Served(c, i)
Bad(c, org, k, s, j) == /\ s[j].next \in 1..Len(Src(c, org, k, j, s[j]).refs)
                        /\ Src(c, org, k, j, s[j]).refs[s[j].next] \notin Sound(Merged(c))

\* A net that refers to something unsound is unsound.
LEMMA BadIsPassedOn ==
    ASSUME NEW c, WrittenConfig(c), NEW org, NEW k, NEW nets, NEW run, NEW s, NEW srv,
           BuildState(c, org, k, nets, run, s, srv), NEW j \in 2..Len(s),
           org[s[j].name] \notin Sound(Merged(c))
    PROVE  j - 1 \in 1..Len(s) /\ Bad(c, org, k, s, j - 1)
  <1>0. IsSeq(s) /\ Len(s) \in Nat
    BY SeqElements DEF BuildState
  <1>1. PICK i \in 1..Len(s) - 1 : i + 1 = j /\ i = j - 1
    BY <1>0
  <1>2. i \in 1..Len(s)
    BY <1>0, <1>1
  <1>3. Leads(s[i], Src(c, org, k, i, s[i]), s[j], org)
    BY <1>1 DEF BuildState, Linked
  <1>4. s[i].next \in 1..Len(Src(c, org, k, i, s[i]).refs) + 1
    BY <1>2 DEF BuildState, Framed, Progress
  <1>5. Len(Src(c, org, k, i, s[i]).refs) \in Nat
    BY <1>2, FrameWritten
  <1>6. s[i].next \in 1..Len(Src(c, org, k, i, s[i]).refs)
    BY <1>3, <1>4, <1>5 DEF Leads
  <1>7. Bad(c, org, k, s, i)
    BY <1>3, <1>6 DEF Leads, Bad
  <1> QED
    BY <1>1, <1>2, <1>7

\* The net of a frame whose next reference is unsound is unsound.
LEMMA BadIsUnsound ==
    ASSUME NEW c, WrittenConfig(c), NEW org, NEW k, NEW nets, NEW run, NEW s, NEW srv,
           BuildState(c, org, k, nets, run, s, srv), NEW j \in 2..Len(s), Bad(c, org, k, s, j)
    PROVE  org[s[j].name] \notin Sound(Merged(c))
  <1>0. IsSeq(s) /\ Len(s) \in Nat
    BY SeqElements DEF BuildState
  <1>1. j \in 1..Len(s) /\ j # 1
    BY <1>0
  <1>2. Src(c, org, k, j, s[j]) = Target(Merged(c), org[s[j].name])
    BY <1>1 DEF Src, Source
  <1>3. Src(c, org, k, j, s[j]).refs \in Seq(Refs)
    BY <1>1, FrameWritten
  <1>4. Src(c, org, k, j, s[j]).refs[s[j].next] \in Range(Src(c, org, k, j, s[j]).refs)
    BY <1>3 DEF Bad, Range
  <1> QED
    BY <1>2, <1>4, SoundBuilds DEF Bad

\* If the next reference of some frame is unsound, so is one of a server.
LEMMA BadIsNotGood ==
    ASSUME NEW c, WrittenConfig(c), NEW org, NEW k, NEW nets, NEW run, NEW s, NEW srv,
           BuildState(c, org, k, nets, run, s, srv), NEW j \in 1..Len(s), Bad(c, org, k, s, j)
    PROVE  ~Good(c)
  <1>0. IsSeq(s) /\ Len(s) \in Nat
    BY SeqElements DEF BuildState
  <1> DEFINE T == {i \in 1..Len(s) : Bad(c, org, k, s, i)}
  <1>1. T \in SUBSET (0..Len(s)) /\ T # {}
    BY <1>0
  <1>2. PICK i \in T : \A l \in T : i <= l
    BY <1>0, <1>1, LeastUpTo
  <1>3. i \in 1..Len(s) /\ Bad(c, org, k, s, i)
    OBVIOUS
  <1>4. ASSUME i # 1 PROVE FALSE
    <2>1. i \in 2..Len(s)
      BY <1>0, <1>3, <1>4
    <2>2. org[s[i].name] \notin Sound(Merged(c))
      BY <1>3, <2>1, BadIsUnsound
    <2>3. i - 1 \in 1..Len(s) /\ Bad(c, org, k, s, i - 1)
      BY <2>1, <2>2, BadIsPassedOn
    <2>4. i - 1 \in T
      BY <2>3
    <2> QED
      BY <1>0, <1>2, <1>3, <2>4
  <1>5. Bad(c, org, k, s, 1) /\ 1 \in 1..Len(s)
    BY <1>3, <1>4
  <1>6. Src(c, org, k, 1, s[1]).refs \in Seq(Refs)
    BY <1>5, FrameWritten
  <1>7. Src(c, org, k, 1, s[1]).refs = c.servers[k].refs
    BY DEF Src, ServerNet, Net
  <1>8. s # <<>> /\ k \in 1..Len(c.servers)
    BY <1>0, <1>5, SeqElements DEF BuildState, Serving
  <1>9. c.servers[k].refs[s[1].next] \in Range(c.servers[k].refs)
    BY <1>5, <1>6, <1>7 DEF Bad, Range
  <1> QED
    BY <1>5, <1>7, <1>8, <1>9 DEF Good, Served, Bad

\* Places on the stack: a top frame that is not the server has one below it.
LEMMA AboveServer ==
    ASSUME NEW n \in Nat, n > 0, n # 1
    PROVE  n \in 2..n /\ n - 1 \in 1..n - 1 /\ n - 1 \in 1..n /\ n - 1 \in Nat /\ (n - 1) + 1 = n
  OBVIOUS

\* No server is left to be built.
LEMMA NoneLeft ==
    ASSUME NEW n \in Nat, NEW k \in 0..n, NEW l, l = 0, l = n - k
    PROVE  k = n
  OBVIOUS

\* Places on the stack: below the top one there is a next one.
LEMMA NotLast ==
    ASSUME NEW n \in Nat, NEW i \in 1..n, i # n
    PROVE  i \in 1..n - 1 /\ i + 1 \in 1..n
  OBVIOUS

\* The same, above a given place.
LEMMA BelowTop ==
    ASSUME NEW n \in Nat, NEW j \in 2..n, NEW i \in j..n, i # n
    PROVE  i \in 1..n - 1 /\ i + 1 \in j..n
  OBVIOUS

\* A reference to a net on the stack closes a cycle.
LEMMA CycleIsBad ==
    ASSUME NEW c, WrittenConfig(c), NEW org, NEW k, NEW nets, NEW run, NEW s, NEW srv,
           BuildState(c, org, k, nets, run, s, srv), s # <<>>,
           s[Len(s)].next \in 1..Len(Src(c, org, k, Len(s), s[Len(s)]).refs),
           NEW j \in 2..Len(s), org[s[j].name] = Src(c, org, k, Len(s), s[Len(s)]).refs[s[Len(s)].next]
    PROVE  Bad(c, org, k, s, Len(s))
  <1>0. IsSeq(s) /\ Len(s) \in Nat /\ Len(s) \in 1..Len(s)
    BY SeqElements DEF BuildState
  <1> DEFINE T == {org[s[i].name] : i \in j..Len(s)}
  <1>1. \A x \in T : \E y \in Range(Target(Merged(c), x).refs) : y \in T
    <2> SUFFICES ASSUME NEW i \in j..Len(s)
                 PROVE  \E y \in Range(Target(Merged(c), org[s[i].name]).refs) : y \in T
      OBVIOUS
    <2>1. i \in 1..Len(s) /\ i # 1
      BY <1>0
    <2>2. Src(c, org, k, i, s[i]) = Target(Merged(c), org[s[i].name])
      BY <2>1 DEF Src, Source
    <2>3. Src(c, org, k, i, s[i]).refs \in Seq(Refs) /\ Len(Src(c, org, k, i, s[i]).refs) \in Nat
      BY <2>1, FrameWritten
    <2>4. CASE i = Len(s)
      <3>0. Src(c, org, k, Len(s), s[Len(s)]).refs \in Seq(Refs)
        BY <1>0, FrameWritten
      <3>1. org[s[j].name] \in Range(Src(c, org, k, i, s[i]).refs)
        BY <2>4, <3>0 DEF Range
      <3>2. org[s[j].name] \in T
        BY <1>0
      <3> QED
        BY <2>2, <3>1, <3>2
    <2>5. CASE i # Len(s)
      <3>1. i \in 1..Len(s) - 1 /\ i + 1 \in j..Len(s)
        BY <1>0, <2>5, BelowTop
      <3>2. Leads(s[i], Src(c, org, k, i, s[i]), s[i + 1], org)
        BY <3>1 DEF BuildState, Linked
      <3>3. s[i].next \in 1..Len(Src(c, org, k, i, s[i]).refs) + 1
        BY <2>1 DEF BuildState, Framed, Progress
      <3>4. s[i].next \in 1..Len(Src(c, org, k, i, s[i]).refs)
        BY <2>3, <3>2, <3>3 DEF Leads
      <3>5. Src(c, org, k, i, s[i]).refs[s[i].next] \in Range(Src(c, org, k, i, s[i]).refs)
        BY <2>3, <3>4 DEF Range
      <3>6. org[s[i + 1].name] \in T
        BY <3>1
      <3>7. org[s[i + 1].name] \in Range(Src(c, org, k, i, s[i]).refs)
        BY <3>2, <3>5 DEF Leads
      <3> QED
        BY <2>2, <3>6, <3>7
    <2> QED
      BY <2>4, <2>5
  <1>2. org[s[j].name] \in T
    BY <1>0
  <1> HIDE DEF T
  <1>3. org[s[j].name] \notin Sound(Merged(c))
    BY <1>1, <1>2, NoSoundCycle
  <1> QED
    BY <1>3 DEF Bad

-----------------------------------------------------------------------------
(* The steps of the build, each a lemma about the state it leaves.           *)
NoNets == [n \in {} |-> None]

\* Before the first server nothing runs, and every net lies as it was written.
LEMMA StateInit ==
    ASSUME NEW c, WrittenConfig(c)
    PROVE  BuildState(c, [n \in DOMAIN Merged(c) |-> Name(n)], 0, Merged(c), NoNets, <<>>, c.servers)
  <1> DEFINE org == [n \in DOMAIN Merged(c) |-> Name(n)]
  <1>1. Names(c, org, Merged(c))
    BY DEF Names
  <1>2. IsSeq(<<>>) /\ Len(<<>>) = 0
    BY DEF IsSeq
  <1>3. DOMAIN NoNets = {}
    BY DEF NoNets
  <1>4. Under(<<>>) = {}
    BY <1>2 DEF Under
  <1>5. \A n \in DOMAIN Merged(c) : Merged(c)[n] = Source(c, org, n)
    BY DEF Source, Target, Name
  <1>6. Lying(c, org, Merged(c), DOMAIN NoNets, <<>>)
    BY <1>4, <1>5 DEF Lying
  <1>7. /\ Fresh(c, org, 0, DOMAIN NoNets, <<>>) /\ Stacked(c, org, DOMAIN NoNets, <<>>)
        /\ Framed(c, org, 0, DOMAIN NoNets, <<>>) /\ Linked(c, org, 0, <<>>)
    BY <1>2 DEF Fresh, Stacked, Framed, Linked
  <1>8. IsSeq(c.servers)
    BY DEF WrittenConfig, IsSeq
  <1>9. Serving(c, 0, <<>>, c.servers)
    BY <1>8, SeqElements DEF Serving
  <1>10. Cached(c, org, Merged(c), NoNets)
    BY <1>3 DEF Cached
  <1> HIDE DEF org
  <1>11. BuildState(c, org, 0, Merged(c), NoNets, <<>>, c.servers)
    BY <1>1, <1>2, <1>6, <1>7, <1>9, <1>10 DEF BuildState
  <1> QED
    BY <1>11 DEF org

ServerFrame(h) == [name |-> h.name, net |-> ServerNet(h), next |-> 1]

\* A frame that has just begun has the references of its net before it.
LEMMA FrameBegins ==
    ASSUME NEW src, Written(src), NEW n, NEW org, NEW D, NEW S
    PROVE  /\ Flat([name |-> n, net |-> src, next |-> 1].net, src, org)
           /\ Progress([name |-> n, net |-> src, next |-> 1], src, D, S)
  <1>1. IsSeq(src.refs) /\ Len(src.refs) \in Nat
    BY InSeq, SeqElements DEF Written
  <1> QED
    BY <1>1 DEF Flat, Progress, Written

\* The next server begins.
LEMMA StateNextServer ==
    ASSUME NEW c, WrittenConfig(c), NEW org, NEW k \in Nat, NEW nets, NEW run, NEW srv,
           BuildState(c, org, k, nets, run, <<>>, srv), srv # <<>>, Deserializes(Head(srv))
    PROVE  BuildState(c, org, k + 1, nets, run, <<ServerFrame(Head(srv))>>, Tail(srv))
  <1> DEFINE f == ServerFrame(Head(srv))
             s == <<f>>
             p == k + 1
  <1>1. IsSeq(srv) /\ Len(srv) \in Nat /\ Len(srv) > 0
    BY SeqElements DEF BuildState, Serving
  <1>2. Len(c.servers) \in Nat /\ k \in 0..Len(c.servers) /\ Len(srv) = Len(c.servers) - k
    BY SeqElements DEF BuildState, Serving, WrittenConfig, IsSeq
  <1>3. p \in 1..Len(c.servers) /\ p = k + 1
    BY <1>1, <1>2
  <1>4. /\ IsSeq(Tail(srv)) /\ Len(Tail(srv)) = Len(srv) - 1 /\ Head(srv) = srv[1]
        /\ \A i \in 1..Len(srv) - 1 : Tail(srv)[i] = srv[i + 1]
    BY <1>1, TailSeq
  <1>5. Head(srv) = c.servers[p]
    <2>1. 1 \in 1..Len(srv)
      BY <1>1
    <2> QED
      BY <1>4, <2>1 DEF BuildState, Serving
  <1>6. IsSeq(s) /\ Len(s) = 1 /\ s[1] = f /\ s # <<>>
    <2>1. s \in Seq({f})
      OBVIOUS
    <2> QED
      BY <2>1, InSeq
  <1>7. Len(<<>>) = 0
    OBVIOUS
  <1> HIDE DEF s, p
  <1>8. Under(s) = {} /\ Under(<<>>) = {}
    BY <1>6, <1>7 DEF Under
  <1>9. Lying(c, org, nets, DOMAIN run, s)
    BY <1>8 DEF BuildState, Lying
  <1>10. Stacked(c, org, DOMAIN run, s) /\ Linked(c, org, p, s)
    BY <1>6 DEF Stacked, Linked
  <1>11. Fresh(c, org, p, DOMAIN run, s)
    <2> SUFFICES ASSUME NEW n \in DOMAIN org \ DOMAIN Merged(c)
                 PROVE  \E m : \E i \in Nat :
                                  \/ /\ n = <<"net", m, i>>
                                     /\ m \in DOMAIN run \/ \E j \in 2..Len(s) : s[j].name = m /\ Taken(s[j], i)
                                  \/ /\ n = <<"server", m, i>>
                                     /\ \E l \in 1..p : c.servers[l].name = m /\ (l = p /\ s # <<>> => Taken(s[1], i))
      BY DEF Fresh
    <2>1. PICK m : \E i \in Nat : 
                      \/ /\ n = <<"net", m, i>>
                         /\ m \in DOMAIN run \/ \E j \in 2..Len(<<>>) : <<>>[j].name = m /\ Taken(<<>>[j], i)
                      \/ /\ n = <<"server", m, i>>
                         /\ \E l \in 1..k : c.servers[l].name = m
      BY DEF BuildState, Fresh
    <2>10. PICK i \in Nat :
                      \/ /\ n = <<"net", m, i>>
                         /\ m \in DOMAIN run \/ \E j \in 2..Len(<<>>) : <<>>[j].name = m /\ Taken(<<>>[j], i)
                      \/ /\ n = <<"server", m, i>>
                         /\ \E l \in 1..k : c.servers[l].name = m
      BY <2>1
    <2>2. CASE n = <<"net", m, i>> /\ m \in DOMAIN run
      BY <2>2
    <2>3. CASE n = <<"server", m, i>> /\ \E l \in 1..k : c.servers[l].name = m
      <3>1. PICK l \in 1..k : c.servers[l].name = m
        BY <2>3
      <3>2. l \in 1..p /\ l # p
        BY <1>3
      <3> QED
        BY <2>3, <3>1, <3>2
    <2> QED
      BY <1>7, <2>10, <2>2, <2>3
  <1>12. Framed(c, org, p, DOMAIN run, s)
    <2>1. Src(c, org, p, 1, s[1]) = f.net /\ f = [name |-> f.name, net |-> f.net, next |-> 1]
      BY <1>5 DEF Src, ServerFrame
    <2>2. c.servers[p].refs \in Seq(Refs)
      BY <1>3 DEF WrittenConfig
    <2>3. Written(f.net)
      BY <1>5, <2>2 DEF Written, ServerFrame, ServerNet, Net
    <2>4. /\ Flat(f.net, f.net, org)
          /\ Progress(f, f.net, DOMAIN run, Sound(Merged(c)))
      <3> HIDE DEF f
      <3>1. PICK net : net = f.net
        OBVIOUS
      <3>2. f = [name |-> f.name, net |-> net, next |-> 1] /\ Written(net)
        BY <2>1, <2>3, <3>1
      <3>3. /\ Flat([name |-> f.name, net |-> net, next |-> 1].net, net, org)
            /\ Progress([name |-> f.name, net |-> net, next |-> 1], net, DOMAIN run, Sound(Merged(c)))
        BY <3>2, FrameBegins
      <3> QED
        BY <3>1, <3>2, <3>3
    <2> QED
      BY <1>6, <2>1, <2>4 DEF Framed
  <1>13. Serving(c, p, s, Tail(srv))
    <2>1. Len(Tail(srv)) = Len(c.servers) - p
      BY <1>2, <1>3, <1>4
    <2>2. \A i \in 1..Len(Tail(srv)) : Tail(srv)[i] = c.servers[p + i]
      <3> TAKE i \in 1..Len(Tail(srv))
      <3>1. i \in 1..Len(srv) - 1 /\ i + 1 \in 1..Len(srv) /\ k + (i + 1) = p + i
        BY <1>1, <1>2, <1>3, <1>4
      <3>2. \A x \in 1..Len(srv) : srv[x] = c.servers[k + x]
        BY DEF BuildState, Serving
      <3> QED
        BY <1>4, <3>1, <3>2
    <2>3. \A i \in 1..p : (i = p /\ s # <<>>) \/ Served(c, i)
      <3> TAKE i \in 1..p
      <3>1. i = p \/ i \in 1..k
        BY <1>3
      <3> QED
        BY <1>6, <3>1 DEF BuildState, Serving
    <2>4. p > 0 /\ p \in 0..Len(c.servers) /\ s[1].name = c.servers[p].name /\ Deserializes(c.servers[p])
      BY <1>2, <1>3, <1>5, <1>6 DEF ServerFrame
    <2> QED
      BY <1>4, <2>1, <2>2, <2>3, <2>4 DEF Serving
  <1> QED
    <2>1. BuildState(c, org, p, nets, run, s, Tail(srv))
      BY <1>6, <1>9, <1>10, <1>11, <1>12, <1>13 DEF BuildState
    <2> QED
      BY <2>1 DEF p, s

\* Two stacks of the same calls.
Alike(s, t) == IsSeq(t) /\ Len(t) = Len(s) /\ \A j \in 1..Len(s) : t[j].name = s[j].name

\* What only looks at the names on the stack is the same for both.
LEMMA AlikeKeeps ==
    ASSUME NEW c, NEW org, NEW k, NEW nets, NEW run, NEW s, NEW srv, NEW t,
           BuildState(c, org, k, nets, run, s, srv), Alike(s, t)
    PROVE  /\ Under(t) = Under(s) /\ (t = <<>> <=> s = <<>>)
           /\ Lying(c, org, nets, DOMAIN run, t) /\ Stacked(c, org, DOMAIN run, t)
           /\ Serving(c, k, t, srv)
           /\ \A j \in 1..Len(s) : Src(c, org, k, j, t[j]) = Src(c, org, k, j, s[j])
  <1>1. IsSeq(s) /\ Len(s) \in Nat /\ Len(t) = Len(s) /\ (t = <<>> <=> s = <<>>) /\ 2..Len(s) \subseteq 1..Len(s)
    BY SeqElements DEF BuildState, Alike
  <1>2. \A j \in 1..Len(s) : t[j].name = s[j].name
    BY DEF Alike
  <1>3. Under(t) = Under(s)
    BY <1>1, <1>2 DEF Under
  <1>4. Lying(c, org, nets, DOMAIN run, t)
    BY <1>3 DEF BuildState, Lying
  <1>5. Stacked(c, org, DOMAIN run, t)
    BY <1>1, <1>2 DEF BuildState, Stacked
  <1>6. s # <<>> => 1 \in 1..Len(s)
    BY <1>1, SeqElements
  <1>7. Serving(c, k, t, srv)
    BY <1>1, <1>2, <1>6 DEF BuildState, Serving
  <1>8. \A j \in 1..Len(s) : Src(c, org, k, j, t[j]) = Src(c, org, k, j, s[j])
    BY <1>2 DEF Src
  <1> QED
    BY <1>1, <1>3, <1>4, <1>5, <1>7, <1>8

\* Generated names stay explained when frames go on.
LEMMA FreshKept ==
    ASSUME NEW c, NEW org, NEW k, NEW D, NEW s, NEW t, Fresh(c, org, k, D, s), IsSeq(s), Alike(s, t),
           \A j \in 1..Len(s) : \A i \in Nat : Taken(s[j], i) => Taken(t[j], i)
    PROVE  Fresh(c, org, k, D, t)
  <1>1. Len(s) \in Nat /\ Len(t) = Len(s) /\ (t = <<>> <=> s = <<>>) /\ 2..Len(s) \subseteq 1..Len(s)
    BY SeqElements DEF Alike
  <1>2. \A j \in 1..Len(s) : t[j].name = s[j].name
    BY DEF Alike
  <1>3. s # <<>> => 1 \in 1..Len(s)
    BY <1>1, SeqElements
  <1> SUFFICES ASSUME NEW n \in DOMAIN org \ DOMAIN Merged(c)
               PROVE  \E m : \E i \in Nat :
                        \/ /\ n = <<"net", m, i>>
                           /\ m \in D \/ \E j \in 2..Len(t) : t[j].name = m /\ Taken(t[j], i)
                        \/ /\ n = <<"server", m, i>>
                           /\ \E l \in 1..k : c.servers[l].name = m /\ (l = k /\ t # <<>> => Taken(t[1], i))
    BY DEF Fresh
  <1>4. PICK m : \E i \in Nat :
                        \/ /\ n = <<"net", m, i>>
                           /\ m \in D \/ \E j \in 2..Len(s) : s[j].name = m /\ Taken(s[j], i)
                        \/ /\ n = <<"server", m, i>>
                           /\ \E l \in 1..k : c.servers[l].name = m /\ (l = k /\ s # <<>> => Taken(s[1], i))
    BY DEF Fresh
  <1>5. PICK i \in Nat :
                        \/ /\ n = <<"net", m, i>>
                           /\ m \in D \/ \E j \in 2..Len(s) : s[j].name = m /\ Taken(s[j], i)
                        \/ /\ n = <<"server", m, i>>
                           /\ \E l \in 1..k : c.servers[l].name = m /\ (l = k /\ s # <<>> => Taken(s[1], i))
    BY <1>4
  <1>6. CASE n = <<"net", m, i>> /\ m \in D
    BY <1>6
  <1>7. CASE n = <<"net", m, i>> /\ \E j \in 2..Len(s) : s[j].name = m /\ Taken(s[j], i)
    <2>1. PICK j \in 2..Len(s) : s[j].name = m /\ Taken(s[j], i)
      BY <1>7
    <2>2. j \in 2..Len(t) /\ t[j].name = m /\ Taken(t[j], i)
      BY <1>1, <1>2, <2>1
    <2> QED
      BY <1>7, <2>2
  <1>8. CASE n = <<"server", m, i>> /\ \E l \in 1..k : c.servers[l].name = m /\ (l = k /\ s # <<>> => Taken(s[1], i))
    <2>1. PICK l \in 1..k : c.servers[l].name = m /\ (l = k /\ s # <<>> => Taken(s[1], i))
      BY <1>8
    <2>2. l = k /\ t # <<>> => Taken(t[1], i)
      BY <1>1, <1>3, <2>1
    <2> QED
      BY <1>8, <2>1, <2>2
  <1> QED
    BY <1>5, <1>6, <1>7, <1>8

\* The frame on top goes on, past a reference to what runs.
LEMMA StateReuse ==
    ASSUME NEW c, WrittenConfig(c), NEW org, NEW k, NEW nets, NEW run, NEW s, NEW srv,
           BuildState(c, org, k, nets, run, s, srv), s # <<>>,
           s[Len(s)].next <= Len(s[Len(s)].net.refs),
           s[Len(s)].net.refs[s[Len(s)].next].net = None,
           s[Len(s)].net.refs[s[Len(s)].next].name \in DOMAIN run
    PROVE  BuildState(c, org, k, nets, run, [s EXCEPT ![Len(s)] = Step(@)], srv)
  <1> DEFINE L == Len(s)
             f == s[L]
             t == [s EXCEPT ![L] = Step(f)]
             src == Src(c, org, k, L, f)
  <1>1. IsSeq(s) /\ L \in Nat /\ L > 0 /\ L \in 1..L
    BY SeqElements DEF BuildState
  <1>2. /\ Flat(f.net, src, org) /\ Progress(f, src, DOMAIN run, Sound(Merged(c)))
        /\ Len(src.refs) \in Nat
    BY <1>1, FrameWritten DEF BuildState, Framed
  <1>3. f.next \in Nat /\ f.next \in 1..Len(src.refs) /\ Len(f.net.refs) = Len(src.refs)
    BY <1>2 DEF Progress, Flat
  <1>4. /\ Step(f).name = f.name /\ Step(f).net = f.net /\ Step(f).next = f.next + 1
        /\ Step(f) = [name |-> Step(f).name, net |-> Step(f).net, next |-> Step(f).next]
    <2>1. f = [name |-> f.name, net |-> f.net, next |-> f.next]
      BY <1>2 DEF Progress
    <2> QED
      BY <2>1 DEF Step
  <1>5. /\ IsSeq(t) /\ Len(t) = L /\ t[L] = Step(f)
        /\ \A i \in 1..L : i # L => t[i] = s[i]
    BY <1>1, ReplaceSeq
  <1> HIDE DEF t
  <1>6. Alike(s, t)
    BY <1>4, <1>5 DEF Alike
  <1>7. /\ Lying(c, org, nets, DOMAIN run, t) /\ Stacked(c, org, DOMAIN run, t) /\ Serving(c, k, t, srv)
        /\ \A j \in 1..L : Src(c, org, k, j, t[j]) = Src(c, org, k, j, s[j])
    <2> HIDE DEF L, f, src
    <2>1. \A j \in 1..Len(s) : Src(c, org, k, j, t[j]) = Src(c, org, k, j, s[j])
      BY <1>6, Zenon DEF Alike, Src
    <2>2. /\ Lying(c, org, nets, DOMAIN run, t) /\ Stacked(c, org, DOMAIN run, t) /\ Serving(c, k, t, srv)
      BY <1>6, AlikeKeeps, Zenon
    <2> QED
      BY <2>1, <2>2 DEF L
  <1>8. \A j \in 1..L : \A i \in Nat : Taken(s[j], i) => Taken(t[j], i)
    <2> TAKE j \in 1..L
    <2> TAKE i \in Nat
    <2>1. CASE j = L
      BY <1>3, <1>4, <1>5, <2>1 DEF Taken
    <2>2. CASE j # L
      BY <1>5, <2>2
    <2> QED
      BY <2>1, <2>2
  <1>9. Fresh(c, org, k, DOMAIN run, t)
    BY <1>1, <1>6, <1>8, FreshKept DEF BuildState
  <1>10. src.refs[f.next] \in Sound(Merged(c))
    <2>1. f.net.refs[f.next].name \in DOMAIN org /\ f.net.refs[f.next].name \in DOMAIN nets
      BY DEF BuildState, Cached, Names
    <2>2. org[f.net.refs[f.next].name] = src.refs[f.next]
      <3>1. f.net.refs[f.next].name \in DOMAIN nets => org[f.net.refs[f.next].name] = src.refs[f.next]
        BY VisitedTop, SMTT(30)
      <3> QED
        BY <2>1, <3>1, Zenon
    <2>3. org[f.net.refs[f.next].name] \in Sound(Merged(c))
      BY DEF BuildState, Cached
    <2> QED
      BY <2>2, <2>3
  <1>11. Framed(c, org, k, DOMAIN run, t)
    <2> SUFFICES ASSUME NEW j \in 1..L
                 PROVE  /\ Flat(t[j].net, Src(c, org, k, j, s[j]), org)
                        /\ Progress(t[j], Src(c, org, k, j, s[j]), DOMAIN run, Sound(Merged(c)))
      BY <1>5, <1>7 DEF Framed
    <2>1. CASE j # L
      BY <1>5, <2>1 DEF BuildState, Framed
    <2>2. CASE j = L
      <3>1. Step(f).next \in 1..Len(src.refs) + 1
        BY <1>2, <1>3, <1>4
      <3>2. \A i \in 1..Len(src.refs) : i < Step(f).next => i < f.next \/ i = f.next
        BY <1>3, <1>4
      <3>3. \A i \in 1..Len(src.refs) : i < Step(f).next =>
               /\ Step(f).net.refs[i].net = None /\ Step(f).net.refs[i].name \in DOMAIN run
               /\ src.refs[i] \in Sound(Merged(c))
        BY <1>2, <1>4, <1>10, <3>2 DEF Progress
      <3>4. Progress(Step(f), src, DOMAIN run, Sound(Merged(c)))
        BY <1>4, <3>1, <3>3 DEF Progress
      <3> QED
        BY <1>2, <1>4, <1>5, <2>2, <3>4
    <2> QED
      BY <2>1, <2>2
  <1>12. Linked(c, org, k, t)
    <2> SUFFICES ASSUME NEW j \in 1..L - 1
                 PROVE  Leads(t[j], Src(c, org, k, j, t[j]), t[j + 1], org)
      BY <1>5 DEF Linked
    <2>1. j \in 1..L /\ j # L /\ j + 1 \in 1..L
      BY <1>1
    <2>2. t[j] = s[j] /\ Src(c, org, k, j, t[j]) = Src(c, org, k, j, s[j]) /\ t[j + 1].name = s[j + 1].name
      BY <1>5, <1>6, <1>7, <2>1 DEF Alike
    <2>3. Leads(s[j], Src(c, org, k, j, s[j]), s[j + 1], org)
      BY DEF BuildState, Linked
    <2> QED
      BY <2>2, <2>3 DEF Leads
  <1>13. BuildState(c, org, k, nets, run, t, srv)
    BY <1>5, <1>7, <1>9, <1>11, <1>12 DEF BuildState
  <1> QED
    BY <1>13 DEF t

-----------------------------------------------------------------------------
(* A nested net gets a name.                                                 *)
Grows(org, more) == \A n \in DOMAIN org : n \in DOMAIN more /\ more[n] = org[n]

\* More names for nested nets do not disturb the ones there are.
LEMMA FlatGrows ==
    ASSUME NEW net, NEW src, NEW org, NEW more, Flat(net, src, org), Grows(org, more)
    PROVE  Flat(net, src, more)
  BY DEF Flat, Lifted, Grows

\* Generated names are equal only if their parts are.
LEMMA TupleParts ==
    ASSUME NEW a, NEW b, NEW d, NEW x, NEW y, NEW z, <<a, b, d>> = <<x, y, z>>
    PROVE  a = x /\ b = y /\ d = z
  OBVIOUS

Generated(s) == <<IF Len(s) = 1 THEN "server" ELSE "net", s[Len(s)].name, s[Len(s)].next>>

\* The name a nested net gets is not taken.
LEMMA GeneratedIsFresh ==
    ASSUME NEW c, WrittenConfig(c), NEW org, NEW k, NEW nets, NEW run, NEW s, NEW srv,
           BuildState(c, org, k, nets, run, s, srv), s # <<>>,
           s[Len(s)].net.refs[s[Len(s)].next].net # None
    PROVE  Generated(s) \notin DOMAIN org
  <1> DEFINE L == Len(s)
             f == s[L]
             gen == Generated(s)
  <1>1. IsSeq(s) /\ L \in Nat /\ L > 0 /\ L \in 1..L
    BY SeqElements DEF BuildState
  <1>2. f.next \in Nat
    <2>1. f.next \in 1..Len(Src(c, org, k, L, f).refs) + 1
      BY <1>1 DEF BuildState, Framed, Progress
    <2> QED
      BY <2>1
  <1>3. ~Taken(f, f.next)
    BY <1>2 DEF Taken
  <1>4. gen \notin DOMAIN Merged(c)
    <2>1. ~Configured(gen)
      BY GeneratedNotConfigured DEF Generated
    <2> QED
      BY <2>1, MergedWritten
  <1> SUFFICES ASSUME gen \in DOMAIN org PROVE FALSE
    OBVIOUS
  <1> HIDE DEF gen
  <1>5. PICK m : \E i \in Nat :
                        \/ /\ gen = <<"net", m, i>>
                           /\ m \in DOMAIN run \/ \E j \in 2..Len(s) : s[j].name = m /\ Taken(s[j], i)
                        \/ /\ gen = <<"server", m, i>>
                           /\ \E l \in 1..k : c.servers[l].name = m /\ (l = k /\ s # <<>> => Taken(s[1], i))
    BY <1>4 DEF BuildState, Fresh
  <1>6. PICK i \in Nat :
                        \/ /\ gen = <<"net", m, i>>
                           /\ m \in DOMAIN run \/ \E j \in 2..Len(s) : s[j].name = m /\ Taken(s[j], i)
                        \/ /\ gen = <<"server", m, i>>
                           /\ \E l \in 1..k : c.servers[l].name = m /\ (l = k /\ s # <<>> => Taken(s[1], i))
    BY <1>5
  <1>7. CASE /\ gen = <<"net", m, i>>
             /\ m \in DOMAIN run \/ \E j \in 2..Len(s) : s[j].name = m /\ Taken(s[j], i)
    <2>1. L # 1 /\ m = f.name /\ i = f.next
      BY <1>7, TupleParts DEF Generated, gen
    <2>2. L \in 2..L
      BY <1>1, <2>1, AboveServer
    <2>3. m \notin DOMAIN run
      BY <2>1, <2>2 DEF BuildState, Stacked
    <2>4. PICK j \in 2..Len(s) : s[j].name = m /\ Taken(s[j], i)
      BY <1>7, <2>3
    <2>5. j = L
      BY <2>1, <2>2, <2>4 DEF BuildState, Stacked
    <2> QED
      BY <1>3, <2>1, <2>4, <2>5
  <1>8. CASE /\ gen = <<"server", m, i>>
             /\ \E l \in 1..k : c.servers[l].name = m /\ (l = k /\ s # <<>> => Taken(s[1], i))
    <2>1. L = 1 /\ m = f.name /\ i = f.next
      BY <1>8, TupleParts DEF Generated, gen
    <2>2. PICK l \in 1..k : c.servers[l].name = m /\ (l = k /\ s # <<>> => Taken(s[1], i))
      BY <1>8
    <2>3. k \in 1..Len(c.servers) /\ c.servers[k].name = f.name /\ Len(c.servers) \in Nat
      BY <2>1, SeqElements DEF BuildState, Serving, WrittenConfig, IsSeq
    <2>4. l \in 1..Len(c.servers)
      BY <2>3
    <2>5. l = k
      BY <2>1, <2>2, <2>3, <2>4 DEF WrittenConfig
    <2> QED
      BY <1>3, <2>1, <2>2, <2>5
  <1> QED
    BY <1>6, <1>7, <1>8

Renamed(f, n) == [f EXCEPT !.net.refs[f.next] = Name(n)]

\* Flatten: a nested net gets a name that was not taken.
LEMMA StateFlatten ==
    ASSUME NEW c, WrittenConfig(c), NEW org, NEW k, NEW nets, NEW run, NEW s, NEW srv,
           BuildState(c, org, k, nets, run, s, srv), s # <<>>,
           s[Len(s)].next <= Len(s[Len(s)].net.refs),
           s[Len(s)].net.refs[s[Len(s)].next].net # None
    PROVE  \E more : BuildState(c, more, k, Insert(nets, Generated(s), s[Len(s)].net.refs[s[Len(s)].next].net),
                                run, [s EXCEPT ![Len(s)] = Renamed(@, Generated(s))], srv)
  <1> DEFINE L == Len(s)
             f == s[L]
             r == f.net.refs[f.next]
             gen == Generated(s)
             g == Renamed(f, gen)
             t == [s EXCEPT ![L] = g]
             src == Src(c, org, k, L, f)
             more == Insert(org, gen, r)
             nets2 == Insert(nets, gen, r.net)
  <1>1. IsSeq(s) /\ L \in Nat /\ L > 0 /\ L \in 1..L
    BY SeqElements DEF BuildState
  <1>2. /\ Flat(f.net, src, org) /\ Progress(f, src, DOMAIN run, Sound(Merged(c)))
        /\ Len(src.refs) \in Nat /\ src.refs \in Seq(Refs)
    BY <1>1, FrameWritten DEF BuildState, Framed
  <1>3. f.next \in Nat /\ f.next \in 1..Len(src.refs) /\ Len(f.net.refs) = Len(src.refs)
    BY <1>2 DEF Progress, Flat
  <1>4. r = src.refs[f.next] /\ r \in Refs
    BY <1>2, <1>3 DEF Flat, Lifted
  <1>5. gen \notin DOMAIN org /\ gen \notin DOMAIN nets /\ gen \notin DOMAIN run
    <2>1. gen \notin DOMAIN org
      BY GeneratedIsFresh
    <2> QED
      BY <2>1 DEF BuildState, Names, Cached
  <1>6. /\ DOMAIN more = DOMAIN org \cup {gen} /\ more[gen] = r /\ \A n \in DOMAIN org : more[n] = org[n]
        /\ DOMAIN nets2 = DOMAIN nets \cup {gen} /\ nets2[gen] = r.net /\ \A n \in DOMAIN nets : nets2[n] = nets[n]
    BY <1>5 DEF Insert
  <1>7. /\ g.name = f.name /\ g.next = f.next /\ g.net.type = f.net.type /\ g.net.opt = f.net.opt /\ g.net.rule = f.net.rule
        /\ g.net.refs = [f.net.refs EXCEPT ![f.next] = Name(gen)]
        /\ g = [name |-> g.name, net |-> g.net, next |-> g.next]
        /\ g.net = [type |-> g.net.type, opt |-> g.net.opt, refs |-> g.net.refs, rule |-> g.net.rule]
    <2>1. f = [name |-> f.name, net |-> f.net, next |-> f.next]
      BY <1>2 DEF Progress
    <2>2. f.net = [type |-> f.net.type, opt |-> f.net.opt, refs |-> f.net.refs, rule |-> f.net.rule]
      BY <1>2 DEF Flat
    <2>3. g = [f EXCEPT !.net = [f.net EXCEPT !.refs = [f.net.refs EXCEPT ![f.next] = Name(gen)]]]
      BY DEF Renamed
    <2> HIDE DEF g
    <2>4. g = [name |-> f.name, net |-> [f.net EXCEPT !.refs = [f.net.refs EXCEPT ![f.next] = Name(gen)]], next |-> f.next]
      BY <2>1, <2>3
    <2>5. [f.net EXCEPT !.refs = [f.net.refs EXCEPT ![f.next] = Name(gen)]]
            = [type |-> f.net.type, opt |-> f.net.opt, refs |-> [f.net.refs EXCEPT ![f.next] = Name(gen)], rule |-> f.net.rule]
      BY <2>2, NewRefs
    <2> QED
      BY <2>4, <2>5
  <1>8. /\ IsSeq(g.net.refs) /\ Len(g.net.refs) = Len(src.refs) /\ g.net.refs[f.next] = Name(gen)
        /\ \A i \in 1..Len(src.refs) : i # f.next => g.net.refs[i] = f.net.refs[i]
    <2>1. IsSeq(f.net.refs) /\ f.next \in 1..Len(f.net.refs)
      BY <1>2, <1>3 DEF Flat
    <2> HIDE DEF g, gen, r, src, f, more, nets2, t
    <2>2. /\ IsSeq([f.net.refs EXCEPT ![f.next] = Name(gen)])
          /\ Len([f.net.refs EXCEPT ![f.next] = Name(gen)]) = Len(f.net.refs)
          /\ [f.net.refs EXCEPT ![f.next] = Name(gen)][f.next] = Name(gen)
          /\ \A i \in 1..Len(f.net.refs) : i # f.next => [f.net.refs EXCEPT ![f.next] = Name(gen)][i] = f.net.refs[i]
      <3>1. PICK q, p, x : q = f.net.refs /\ p = f.next /\ x = Name(gen)
        OBVIOUS
      <3>2. IsSeq(q) /\ p \in 1..Len(q)
        BY <2>1, <3>1
      <3>3. /\ IsSeq([q EXCEPT ![p] = x]) /\ Len([q EXCEPT ![p] = x]) = Len(q) /\ [q EXCEPT ![p] = x][p] = x
            /\ \A i \in 1..Len(q) : i # p => [q EXCEPT ![p] = x][i] = q[i]
        BY <3>2, ReplaceSeq, SMTT(30)
      <3> QED
        BY <3>1, <3>3
    <2> QED
      BY <1>3, <1>7, <2>2
  <1>9. /\ IsSeq(t) /\ Len(t) = L /\ t[L] = g
        /\ \A i \in 1..L : i # L => t[i] = s[i]
    BY <1>1, ReplaceSeq
  <1> HIDE DEF t, g, gen, r, more, nets2
  <1>10. Alike(s, t)
    BY <1>7, <1>9 DEF Alike
  <1>11. /\ Lying(c, org, nets, DOMAIN run, t) /\ Stacked(c, org, DOMAIN run, t) /\ Serving(c, k, t, srv)
    BY <1>10, AlikeKeeps, Zenon
  <1>12. \A j \in 1..L : Src(c, org, k, j, t[j]) = Src(c, org, k, j, s[j])
    BY <1>10, Zenon DEF Alike, Src
  <1>13. Grows(org, more)
    BY <1>6 DEF Grows
  <1>14. \A n \in DOMAIN org : Source(c, more, n) = Source(c, org, n)
    BY <1>6 DEF Source
  <1>15. \A j \in 2..Len(t) : t[j].name \in DOMAIN org
    BY <1>11 DEF Stacked
  <1>16. \A j \in 1..L : Src(c, more, k, j, t[j]) = Src(c, org, k, j, s[j])
    <2> TAKE j \in 1..L
    <2>1. CASE j = 1
      BY <2>1 DEF Src
    <2>2. CASE j # 1
      <3>1. j \in 2..Len(t)
        BY <1>1, <1>9, <2>2
      <3> QED
        BY <1>12, <1>14, <1>15, <2>2, <3>1 DEF Src
    <2> QED
      BY <2>1, <2>2
  <1>17. Names(c, more, nets2)
    <2>1. gen \notin DOMAIN Merged(c)
      BY <1>5 DEF BuildState, Names
    <2>2. r.net # None
      BY DEF r
    <2> QED
      BY <1>4, <1>6, <2>1, <2>2 DEF BuildState, Names
  <1>18. Lying(c, more, nets2, DOMAIN run, t)
    <2>1. gen \notin Under(t)
      BY <1>5, <1>15 DEF Under
    <2>2. nets2[gen] = Source(c, more, gen)
      <3>1. r.net # None
        BY DEF r
      <3> QED
        BY <1>6, <3>1 DEF Source, Target
    <2>3. DOMAIN nets = DOMAIN org
      BY DEF BuildState, Names
    <2> QED
      BY <1>6, <1>11, <1>14, <2>1, <2>2, <2>3 DEF Lying
  <1>19. Stacked(c, more, DOMAIN run, t)
    BY <1>6, <1>11, <1>14 DEF Stacked
  <1>20. Cached(c, more, nets2, run)
    <2> SUFFICES ASSUME NEW n \in DOMAIN run
                 PROVE  /\ n \in DOMAIN more /\ more[n] \in Sound(Merged(c))
                        /\ Flat(nets2[n], Source(c, more, n), more)
                        /\ \A i \in 1..Len(run[n].refs) : run[n].refs[i].name \in DOMAIN run
      BY DEF Cached
    <2>1. /\ n \in DOMAIN org /\ org[n] \in Sound(Merged(c)) /\ Flat(nets[n], Source(c, org, n), org)
          /\ \A i \in 1..Len(run[n].refs) : run[n].refs[i].name \in DOMAIN run
      BY DEF BuildState, Cached
    <2>2. nets2[n] = nets[n]
      BY <1>6, <2>1 DEF BuildState, Names
    <2>3. Flat(nets[n], Source(c, org, n), more)
      BY <1>13, <2>1, FlatGrows
    <2> QED
      BY <1>6, <1>14, <2>1, <2>2, <2>3
  <1>21. Framed(c, more, k, DOMAIN run, t)
    <2> SUFFICES ASSUME NEW j \in 1..L
                 PROVE  /\ Flat(t[j].net, Src(c, org, k, j, s[j]), more)
                        /\ Progress(t[j], Src(c, org, k, j, s[j]), DOMAIN run, Sound(Merged(c)))
      BY <1>9, <1>16 DEF Framed
    <2>1. CASE j # L
      <3>1. /\ Flat(s[j].net, Src(c, org, k, j, s[j]), org)
            /\ Progress(s[j], Src(c, org, k, j, s[j]), DOMAIN run, Sound(Merged(c)))
        BY DEF BuildState, Framed
      <3>2. Flat(s[j].net, Src(c, org, k, j, s[j]), more)
        BY <1>13, <3>1, FlatGrows
      <3> QED
        BY <1>9, <2>1, <3>1, <3>2
    <2>2. CASE j = L
      <3>1. Progress(g, src, DOMAIN run, Sound(Merged(c)))
        <4>1. \A i \in 1..Len(src.refs) : i < f.next => i # f.next
          BY <1>3
        <4> QED
          BY <1>2, <1>7, <1>8, <4>1 DEF Progress
      <3>2. Flat(f.net, src, more)
        BY <1>2, <1>13, FlatGrows
      <3>3. Lifted(Name(gen), src.refs[f.next], more)
        <4>1. r.net # None
          BY DEF r
        <4> QED
          BY <1>4, <1>6, <4>1 DEF Lifted, Name
      <3>4. Flat(g.net, src, more)
        <4>1. \A i \in 1..Len(src.refs) : g.net.refs[i] = f.net.refs[i] \/ (i = f.next /\ g.net.refs[i] = Name(gen))
          BY <1>8
        <4>2. \A i \in 1..Len(src.refs) : f.net.refs[i] = src.refs[i] \/ Lifted(f.net.refs[i], src.refs[i], more)
          BY <3>2, Zenon DEF Flat
        <4>3. \A i \in 1..Len(src.refs) : g.net.refs[i] = src.refs[i] \/ Lifted(g.net.refs[i], src.refs[i], more)
          BY <3>3, <4>1, <4>2, Zenon
        <4>4. g.net.type = src.type /\ g.net.opt = src.opt /\ g.net.rule = src.rule
          BY <1>7, <3>2 DEF Flat
        <4>5. g.net = [type |-> src.type, opt |-> src.opt, refs |-> g.net.refs, rule |-> src.rule]
          BY <1>7, <4>4, Zenon
        <4> QED
          BY <1>8, <4>3, <4>5, Zenon DEF Flat
      <3> QED
        BY <1>9, <2>2, <3>1, <3>4
    <2> QED
      BY <2>1, <2>2
  <1>22. Linked(c, more, k, t)
    <2> SUFFICES ASSUME NEW j \in 1..L - 1
                 PROVE  Leads(t[j], Src(c, more, k, j, t[j]), t[j + 1], more)
      BY <1>9 DEF Linked
    <2>1. j \in 1..L /\ j # L /\ j + 1 \in 1..L /\ j + 1 \in 2..Len(t)
      BY <1>1, <1>9
    <2>2. t[j] = s[j] /\ Src(c, more, k, j, t[j]) = Src(c, org, k, j, s[j]) /\ t[j + 1].name = s[j + 1].name
      BY <1>9, <1>10, <1>16, <2>1 DEF Alike
    <2>3. Leads(s[j], Src(c, org, k, j, s[j]), s[j + 1], org)
      BY DEF BuildState, Linked
    <2>4. more[t[j + 1].name] = org[t[j + 1].name]
      BY <1>6, <1>15, <2>1
    <2> QED
      BY <2>2, <2>3, <2>4 DEF Leads
  <1>23. Fresh(c, org, k, DOMAIN run, t)
    <2>1. \A j \in 1..L : \A i \in Nat : Taken(s[j], i) => Taken(t[j], i)
      <3> TAKE j \in 1..L
      <3> TAKE i \in Nat
      <3>1. CASE j = L
        <4>1. Name(gen).net = None
          BY DEF Name
        <4> QED
          BY <1>7, <1>8, <1>9, <3>1, <4>1 DEF Taken
      <3>2. CASE j # L
        BY <1>9, <3>2
      <3> QED
        BY <3>1, <3>2
    <2> QED
      BY <1>1, <1>10, <2>1, FreshKept DEF BuildState
  <1>24. Fresh(c, more, k, DOMAIN run, t)
    <2>1. Taken(g, f.next)
      <3>1. Name(gen).net = None
        BY DEF Name
      <3> QED
        BY <1>7, <1>8, <3>1 DEF Taken
    <2>2. CASE L = 1
      <3>1. gen = <<"server", f.name, f.next>>
        BY <2>2 DEF gen, Generated
      <3>2. k \in 1..k /\ c.servers[k].name = f.name /\ t[1] = g
        BY <1>9, <2>2 DEF BuildState, Serving
      <3>3. \E m : \E i \in Nat : gen = <<"server", m, i>> /\
              \E l \in 1..k : c.servers[l].name = m /\ (l = k /\ t # <<>> => Taken(t[1], i))
        BY <1>3, <2>1, <3>1, <3>2
      <3> SUFFICES ASSUME NEW n \in DOMAIN more \ DOMAIN Merged(c)
                   PROVE  \E m : \E i \in Nat :
                            \/ /\ n = <<"net", m, i>>
                               /\ m \in DOMAIN run \/ \E j \in 2..Len(t) : t[j].name = m /\ Taken(t[j], i)
                            \/ /\ n = <<"server", m, i>>
                               /\ \E l \in 1..k : c.servers[l].name = m /\ (l = k /\ t # <<>> => Taken(t[1], i))
        BY DEF Fresh
      <3>4. CASE n = gen
        BY <3>3, <3>4
      <3>5. CASE n \in DOMAIN org \ DOMAIN Merged(c)
        BY <1>23, <3>5 DEF Fresh
      <3> QED
        BY <1>6, <3>4, <3>5
    <2>3. CASE L # 1
      <3>1. gen = <<"net", f.name, f.next>>
        BY <2>3 DEF gen, Generated
      <3>2. L \in 2..Len(t) /\ t[L].name = f.name /\ t[L] = g
        BY <1>1, <1>7, <1>9, <2>3, AboveServer
      <3>3. \E m : \E i \in Nat : gen = <<"net", m, i>> /\ \E j \in 2..Len(t) : t[j].name = m /\ Taken(t[j], i)
        BY <1>3, <2>1, <3>1, <3>2
      <3> SUFFICES ASSUME NEW n \in DOMAIN more \ DOMAIN Merged(c)
                   PROVE  \E m : \E i \in Nat :
                            \/ /\ n = <<"net", m, i>>
                               /\ m \in DOMAIN run \/ \E j \in 2..Len(t) : t[j].name = m /\ Taken(t[j], i)
                            \/ /\ n = <<"server", m, i>>
                               /\ \E l \in 1..k : c.servers[l].name = m /\ (l = k /\ t # <<>> => Taken(t[1], i))
        BY DEF Fresh
      <3>4. CASE n = gen
        BY <3>3, <3>4
      <3>5. CASE n \in DOMAIN org \ DOMAIN Merged(c)
        BY <1>23, <3>5 DEF Fresh
      <3> QED
        BY <1>6, <3>4, <3>5
    <2> QED
      BY <2>2, <2>3
  <1>25. BuildState(c, more, k, nets2, run, t, srv)
    BY <1>9, <1>11, <1>17, <1>18, <1>19, <1>20, <1>21, <1>22, <1>24 DEF BuildState
  <1> QED
    BY <1>25 DEF t, nets2, g, gen, r

Pushed(s, t, n) == /\ Len(s) \in Nat /\ Len(s) > 0 /\ Len(t) = Len(s) + 1 /\ t[Len(s) + 1].name = n
                   /\ \A i \in 1..Len(s) : t[i] = s[i]
\* A frame more on the stack is one more net under way.
LEMMA UnderPush ==
    ASSUME NEW s, NEW t, NEW n, Pushed(s, t, n)
    PROVE  Under(t) = Under(s) \cup {n}
  <1> USE DEF Pushed
  <1>1. 2..Len(t) = 2..Len(s) \cup {Len(s) + 1} /\ 2..Len(s) \subseteq 1..Len(s)
    OBVIOUS
  <1>2. Under(t) = {t[j].name : j \in 2..Len(s) \cup {Len(s) + 1}}
    BY <1>1 DEF Under
  <1>3. \A j \in 2..Len(s) : t[j].name = s[j].name
    BY <1>1
  <1> QED
    BY <1>2, <1>3 DEF Under

-----------------------------------------------------------------------------
(* A call of get_net begins and returns.                                     *)
LEMMA StateDescend ==
    ASSUME NEW c, WrittenConfig(c), NEW org, NEW k, NEW nets, NEW run, NEW s, NEW srv,
           BuildState(c, org, k, nets, run, s, srv), s # <<>>,
           s[Len(s)].next <= Len(s[Len(s)].net.refs),
           s[Len(s)].net.refs[s[Len(s)].next].net = None,
           NEW n \in DOMAIN nets, n = s[Len(s)].net.refs[s[Len(s)].next].name,
           n \notin DOMAIN run, Known(nets[n])
    PROVE  BuildState(c, org, k, [nets EXCEPT ![n] = Placeholder], run,
                      Append(s, [name |-> n, net |-> nets[n], next |-> 1]), srv)
  <1> DEFINE L == Len(s)
             f == s[L]
             src == Src(c, org, k, L, f)
             g == [name |-> n, net |-> nets[n], next |-> 1]
             t == Append(s, g)
             nets2 == [nets EXCEPT ![n] = Placeholder]
             M == L + 1
  <1>1. IsSeq(s) /\ L \in Nat /\ L > 0 /\ L \in 1..L
    BY SeqElements DEF BuildState
  <1>2. /\ Flat(f.net, src, org) /\ Progress(f, src, DOMAIN run, Sound(Merged(c)))
        /\ Len(src.refs) \in Nat /\ src.refs \in Seq(Refs)
    BY <1>1, FrameWritten DEF BuildState, Framed
  <1>3. f.next \in Nat /\ f.next \in 1..Len(src.refs) /\ Len(f.net.refs) = Len(src.refs)
    BY VisitedTop, SMTT(30)
  <1>4. org[n] = src.refs[f.next] /\ org[n] \in Refs /\ n \in DOMAIN org
    <2>1. org[n] = src.refs[f.next]
      BY VisitedTop, SMTT(30)
    <2> QED
      BY <1>2, <1>3, <2>1 DEF BuildState, Names
  <1>5. n \notin Under(s) /\ nets[n] = Source(c, org, n)
    BY DEF BuildState, Lying
  <1>6. /\ DOMAIN nets2 = DOMAIN nets /\ ~Known(nets2[n])
        /\ \A x \in DOMAIN nets : x # n => nets2[x] = nets[x]
    BY TypesAssumption DEF Placeholder, Net, Known
  <1>7. IsSeq(t) /\ Len(t) = M /\ t[M] = g /\ \A i \in 1..L : t[i] = s[i]
    BY <1>1, PushSeq, SMTT(30)
  <1>8. M \in Nat /\ M > 1 /\ M - 1 = L /\ M = L + 1
    BY <1>1
  <1>9. 1..M = 1..L \cup {M} /\ 2..M = 2..L \cup {M} /\ M \notin 1..L /\ 2..L \subseteq 1..L
    BY <1>1
  <1>10. g.name = n /\ g.net = Source(c, org, n) /\ g.next = 1
    BY <1>5
  <1> HIDE DEF t, g, nets2, M
  <1>11. t # <<>> /\ t[1] = s[1]
    <2>1. 1 \in 1..L
      BY <1>1
    <2> QED
      BY <1>7, <1>8, <2>1, SeqElements
  <1>12. Under(t) = Under(s) \cup {n}
    <2>1. Len(s) \in Nat /\ Len(s) > 0 /\ Len(t) = Len(s) + 1 /\ t[Len(s) + 1].name = n
      BY <1>1, <1>7, <1>8, <1>10, Zenon
    <2>2. \A i \in 1..Len(s) : t[i] = s[i]
      BY <1>7, Zenon
    <2>3. Pushed(s, t, n)
      BY <2>1, <2>2, Zenon DEF Pushed
    <2> QED
      BY <2>3, UnderPush, Zenon
  <1>13. Names(c, org, nets2)
    BY <1>6 DEF BuildState, Names
  <1>14. Lying(c, org, nets2, DOMAIN run, t)
    BY <1>5, <1>6, <1>12 DEF BuildState, Lying
  <1>15. Stacked(c, org, DOMAIN run, t)
    <2>1. Known(Source(c, org, n))
      BY <1>5
    <2>2. \A j \in 2..L : s[j].name # n
      BY <1>5 DEF Under
    <2>3. \A j \in 2..L : /\ s[j].name \in DOMAIN org /\ s[j].name \notin DOMAIN run /\ org[s[j].name] \in Refs
                         /\ Known(Source(c, org, s[j].name))
                         /\ \A l \in 2..L : s[j].name = s[l].name => j = l
      BY DEF BuildState, Stacked
    <2>4. \A j \in 2..Len(t) : (j \in 2..L /\ t[j].name = s[j].name) \/ (j = M /\ t[j].name = n)
      <3>1. Len(t) = M /\ t[M].name = n
        BY <1>7, <1>10
      <3>2. ASSUME NEW j \in 2..L PROVE t[j].name = s[j].name
        BY <1>7, <1>9
      <3>3. ASSUME NEW j \in 2..Len(t) PROVE j \in 2..L \/ j = M
        <4>1. j \in 2..M
          BY <3>1, Zenon
        <4> QED
          BY <1>9, <4>1, Zenon
      <3> QED
        BY <3>1, <3>2, <3>3
    <2> HIDE DEF L, t
    <2>5. \A j \in 2..Len(t) : /\ t[j].name \in DOMAIN org /\ t[j].name \notin DOMAIN run /\ org[t[j].name] \in Refs
                              /\ Known(Source(c, org, t[j].name))
      BY <1>4, <2>1, <2>3, <2>4
    <2>6. \A j, l \in 2..Len(t) : t[j].name = t[l].name => j = l
      BY <2>2, <2>3, <2>4
    <2> QED
      BY <2>5, <2>6 DEF Stacked
  <1>16. \A j \in 1..L : Src(c, org, k, j, t[j]) = Src(c, org, k, j, s[j])
    BY <1>7
  <1>17. Framed(c, org, k, DOMAIN run, t)
    <2> SUFFICES ASSUME NEW j \in 1..M
                 PROVE  /\ Flat(t[j].net, Src(c, org, k, j, t[j]), org)
                        /\ Progress(t[j], Src(c, org, k, j, t[j]), DOMAIN run, Sound(Merged(c)))
      BY <1>7 DEF Framed
    <2>1. CASE j \in 1..L
      BY <1>7, <2>1 DEF BuildState, Framed
    <2>2. CASE j = M
      <3>1. Src(c, org, k, j, t[j]) = Source(c, org, n)
        BY <1>7, <1>8, <1>10, <2>2 DEF Src
      <3>2. Written(Source(c, org, n))
        BY SourceWritten DEF BuildState
      <3>3. PICK net : net = Source(c, org, n)
        OBVIOUS
      <3>4. /\ Flat([name |-> n, net |-> net, next |-> 1].net, net, org)
            /\ Progress([name |-> n, net |-> net, next |-> 1], net, DOMAIN run, Sound(Merged(c)))
        BY <3>2, <3>3, FrameBegins
      <3>5. t[j] = [name |-> n, net |-> net, next |-> 1]
        BY <1>5, <1>7, <2>2, <3>3 DEF g
      <3> QED
        BY <3>1, <3>3, <3>4, <3>5
    <2> QED
      BY <1>9, <2>1, <2>2
  <1>18. Linked(c, org, k, t)
    <2> SUFFICES ASSUME NEW j \in 1..L
                 PROVE  Leads(t[j], Src(c, org, k, j, t[j]), t[j + 1], org)
      BY <1>7, <1>8 DEF Linked
    <2>1. CASE j = L
      <3>1. t[j + 1] = g /\ t[j] = f
        BY <1>7, <1>8, <2>1
      <3> QED
        BY <1>3, <1>4, <1>10, <2>1, <3>1 DEF Leads
    <2>2. CASE j # L
      <3>1. j \in 1..L - 1 /\ j + 1 \in 1..L
        BY <1>1, <2>2, NotLast
      <3> QED
        BY <1>7, <3>1 DEF BuildState, Linked
    <2> QED
      BY <2>1, <2>2
  <1>19. Serving(c, k, t, srv)
    BY <1>11 DEF BuildState, Serving
  <1>20. Cached(c, org, nets2, run)
    <2>1. \A x \in DOMAIN run : nets2[x] = nets[x]
      BY <1>6 DEF BuildState, Cached, Names
    <2> QED
      BY <2>1 DEF BuildState, Cached
  <1>21. Fresh(c, org, k, DOMAIN run, t)
    <2>1. \A j \in 2..L : j \in 2..Len(t) /\ t[j] = s[j]
      BY <1>7, <1>9
    <2> HIDE DEF L
    <2>2. Fresh(c, org, k, DOMAIN run, s)
      BY DEF BuildState
    <2> SUFFICES ASSUME NEW x \in DOMAIN org \ DOMAIN Merged(c)
                 PROVE  \E m : \E i \in Nat :
                          \/ /\ x = <<"net", m, i>>
                             /\ m \in DOMAIN run \/ \E j \in 2..Len(t) : t[j].name = m /\ Taken(t[j], i)
                          \/ /\ x = <<"server", m, i>>
                             /\ \E l \in 1..k : c.servers[l].name = m /\ (l = k /\ t # <<>> => Taken(t[1], i))
      BY DEF Fresh
    <2>3. PICK m : \E i \in Nat :
                          \/ /\ x = <<"net", m, i>>
                             /\ m \in DOMAIN run \/ \E j \in 2..L : s[j].name = m /\ Taken(s[j], i)
                          \/ /\ x = <<"server", m, i>>
                             /\ \E l \in 1..k : c.servers[l].name = m /\ (l = k /\ s # <<>> => Taken(s[1], i))
      BY <2>2 DEF Fresh, L
    <2> QED
      BY <1>11, <2>1, <2>3
  <1>22. BuildState(c, org, k, nets2, run, t, srv)
    BY <1>7, <1>13, <1>14, <1>15, <1>17, <1>18, <1>19, <1>20, <1>21 DEF BuildState
  <1> QED
    BY <1>22 DEF nets2, t, g

\* A net whose references are all built, and that its builder accepts, is sound.
LEMMA StateBuilds ==
    ASSUME NEW c, WrittenConfig(c), NEW org, NEW k, NEW nets, NEW run, NEW s, NEW srv,
           BuildState(c, org, k, nets, run, s, srv), NEW j \in 2..Len(s),
           s[j].next > Len(s[j].net.refs), Accepts(s[j].net)
    PROVE  org[s[j].name] \in Sound(Merged(c))
  <1> DEFINE n == s[j].name
             src == Src(c, org, k, j, s[j])
  <1>0. IsSeq(s) /\ Len(s) \in Nat
    BY SeqElements DEF BuildState
  <1>1. j \in 1..Len(s) /\ j # 1
    BY <1>0
  <1>2. src = Target(Merged(c), org[n])
    BY <1>1 DEF Src, Source
  <1>3. src.refs \in Seq(Refs) /\ Len(src.refs) \in Nat
    BY <1>1, FrameWritten
  <1>4. Flat(s[j].net, src, org) /\ Progress(s[j], src, DOMAIN run, Sound(Merged(c)))
    BY <1>1 DEF BuildState, Framed
  <1>5. n \in DOMAIN org /\ org[n] \in Refs /\ Known(Source(c, org, n))
    BY DEF BuildState, Stacked
  <1>6. Accepts(src)
    BY <1>4 DEF Flat, Accepts
  <1>7. org[n].net = None => org[n].name \in DOMAIN Merged(c)
    BY <1>5 DEF BuildState, Names, Name
  <1>8. Builds(Merged(c), org[n])
    BY <1>2, <1>5, <1>6, <1>7 DEF Builds, Source
  <1>9. Range(src.refs) \subseteq Sound(Merged(c))
    <2>1. s[j].next \in Nat /\ Len(s[j].net.refs) = Len(src.refs)
      BY <1>3, <1>4 DEF Progress, Flat
    <2>2. \A i \in 1..Len(src.refs) : i < s[j].next
      BY <1>3, <2>1
    <2>3. \A i \in 1..Len(src.refs) : src.refs[i] \in Sound(Merged(c))
      BY <1>4, <2>2 DEF Progress
    <2>4. DOMAIN src.refs = 1..Len(src.refs)
      BY <1>3
    <2> QED
      BY <2>3, <2>4 DEF Range
  <1> QED
    BY <1>2, <1>5, <1>8, <1>9, SoundIsClosed

\* Return: a net whose references all run is itself built, and runs.
LEMMA StateReturn ==
    ASSUME NEW c, WrittenConfig(c), NEW org, NEW k, NEW nets, NEW run, NEW s, NEW srv,
           BuildState(c, org, k, nets, run, s, srv), Len(s) # 1, s # <<>>,
           s[Len(s)].next > Len(s[Len(s)].net.refs), Accepts(s[Len(s)].net),
           NEW n, n = s[Len(s)].name
    PROVE  /\ BuildState(c, org, k, [nets EXCEPT ![n] = s[Len(s)].net], Insert(run, n, s[Len(s)].net), Front(s), srv)
           /\ Front(s) # <<>> /\ Len(Front(s)) = Len(s) - 1
           /\ Front(s)[Len(Front(s))].next <= Len(Front(s)[Len(Front(s))].net.refs)
           /\ Front(s)[Len(Front(s))].net.refs[Front(s)[Len(Front(s))].next].net = None
           /\ Front(s)[Len(Front(s))].net.refs[Front(s)[Len(Front(s))].next].name = n
  <1> DEFINE L == Len(s)
             f == s[L]
             t == Front(s)
             p == L - 1
             nets2 == [nets EXCEPT ![n] = f.net]
             run2 == Insert(run, n, f.net)
  <1>1. IsSeq(s) /\ L \in Nat /\ L > 0 /\ L \in 1..L /\ L # 1
    BY SeqElements DEF BuildState
  <1>2. L \in 2..L /\ p \in 1..L /\ p \in 1..p /\ p \in Nat /\ p + 1 = L
    BY <1>1, AboveServer
  <1>3. IsSeq(t) /\ Len(t) = p /\ \A i \in 1..p : t[i] = s[i]
    BY <1>1, FrontSeq
  <1>4. 1..L = 1..p \cup {L} /\ 2..L = 2..p \cup {L} /\ L \notin 1..p /\ 2..p \subseteq 1..p /\ 1 \in 1..p
    BY <1>1, <1>2
  <1>5. n \in DOMAIN org /\ n \in DOMAIN nets /\ n \notin DOMAIN run
    BY <1>2 DEF BuildState, Stacked, Names
  <1>6. /\ DOMAIN nets2 = DOMAIN nets /\ nets2[n] = f.net /\ \A x \in DOMAIN nets : x # n => nets2[x] = nets[x]
        /\ DOMAIN run2 = DOMAIN run \cup {n} /\ run2[n] = f.net /\ \A x \in DOMAIN run : run2[x] = run[x]
    BY <1>5 DEF Insert
  <1>7. org[n] \in Sound(Merged(c))
    BY <1>2, StateBuilds
  <1>8. t # <<>> /\ t[1] = s[1]
    BY <1>2, <1>3, <1>4, SeqElements
  <1>9. Src(c, org, k, L, f) = Source(c, org, n)
    BY <1>1 DEF Src
  <1>10. /\ Flat(f.net, Source(c, org, n), org) /\ Progress(f, Source(c, org, n), DOMAIN run, Sound(Merged(c)))
         /\ Len(Source(c, org, n).refs) \in Nat
    BY <1>1, <1>9, FrameWritten DEF BuildState, Framed
  <1> HIDE DEF t, p, nets2, run2
  <1>11. n \notin Under(t) /\ Under(s) = Under(t) \cup {n}
    <2>1. \A j \in 2..p : t[j].name # n
      BY <1>2, <1>3, <1>4 DEF BuildState, Stacked
    <2>2. Under(s) = {s[j].name : j \in 2..p} \cup {n}
      BY <1>4 DEF Under
    <2> QED
      BY <1>3, <1>4, <2>1, <2>2 DEF Under
  <1>12. Names(c, org, nets2)
    BY <1>6 DEF BuildState, Names
  <1>13. Lying(c, org, nets2, DOMAIN run2, t)
    BY <1>6, <1>11 DEF BuildState, Lying
  <1>14. Stacked(c, org, DOMAIN run2, t)
    <2>1. \A j \in 2..p : s[j].name # n
      BY <1>2, <1>4 DEF BuildState, Stacked
    <2> QED
      BY <1>3, <1>4, <1>6, <2>1 DEF BuildState, Stacked
  <1>15. Framed(c, org, k, DOMAIN run2, t)
    <2> SUFFICES ASSUME NEW j \in 1..p
                 PROVE  /\ Flat(t[j].net, Src(c, org, k, j, t[j]), org)
                        /\ Progress(t[j], Src(c, org, k, j, t[j]), DOMAIN run2, Sound(Merged(c)))
      BY <1>3 DEF Framed
    <2>1. /\ Flat(s[j].net, Src(c, org, k, j, s[j]), org)
          /\ Progress(s[j], Src(c, org, k, j, s[j]), DOMAIN run, Sound(Merged(c)))
      BY <1>4 DEF BuildState, Framed
    <2>2. Progress(s[j], Src(c, org, k, j, s[j]), DOMAIN run2, Sound(Merged(c)))
      BY <1>6, <2>1 DEF Progress
    <2> QED
      BY <1>3, <2>1, <2>2
  <1>16. Linked(c, org, k, t)
    <2> SUFFICES ASSUME NEW j \in 1..p - 1
                 PROVE  Leads(t[j], Src(c, org, k, j, t[j]), t[j + 1], org)
      BY <1>3 DEF Linked
    <2>1. j \in 1..p /\ j + 1 \in 1..p /\ j \in 1..L - 1
      BY <1>2
    <2> QED
      BY <1>3, <2>1 DEF BuildState, Linked
  <1>17. Serving(c, k, t, srv)
    BY <1>8 DEF BuildState, Serving
  <1>18. Cached(c, org, nets2, run2)
    <2> SUFFICES ASSUME NEW x \in DOMAIN run2
                 PROVE  /\ x \in DOMAIN org /\ org[x] \in Sound(Merged(c))
                        /\ Flat(nets2[x], Source(c, org, x), org)
                        /\ \A i \in 1..Len(run2[x].refs) : run2[x].refs[i].name \in DOMAIN run2
      BY DEF Cached
    <2>1. CASE x = n
      <3>1. f.next \in Nat /\ Len(f.net.refs) = Len(Source(c, org, n).refs)
        BY <1>10 DEF Progress, Flat
      <3>2. \A i \in 1..Len(f.net.refs) : i < f.next
        BY <1>10, <3>1
      <3>3. \A i \in 1..Len(f.net.refs) : f.net.refs[i].name \in DOMAIN run
        BY <1>10, <3>1, <3>2 DEF Progress
      <3> QED
        BY <1>5, <1>6, <1>7, <1>10, <2>1, <3>3
    <2>2. CASE x # n
      <3>1. x \in DOMAIN run /\ run2[x] = run[x]
        BY <1>6, <2>2
      <3>2. x \in DOMAIN org /\ x \in DOMAIN nets
        BY <3>1 DEF BuildState, Cached, Names
      <3> QED
        BY <1>6, <2>2, <3>1, <3>2 DEF BuildState, Cached
    <2> QED
      BY <2>1, <2>2
  <1>19. Fresh(c, org, k, DOMAIN run2, t)
    <2>1. \A j \in 2..L : s[j].name = n \/ (j \in 2..Len(t) /\ t[j] = s[j])
      BY <1>3, <1>4
    <2>2. Fresh(c, org, k, DOMAIN run, s) /\ s # <<>>
      BY DEF BuildState
    <2> HIDE DEF L, f
    <2> SUFFICES ASSUME NEW x \in DOMAIN org \ DOMAIN Merged(c)
                 PROVE  \E m : \E i \in Nat :
                          \/ /\ x = <<"net", m, i>>
                             /\ m \in DOMAIN run2 \/ \E j \in 2..Len(t) : t[j].name = m /\ Taken(t[j], i)
                          \/ /\ x = <<"server", m, i>>
                             /\ \E l \in 1..k : c.servers[l].name = m /\ (l = k /\ t # <<>> => Taken(t[1], i))
      BY DEF Fresh
    <2>3. PICK m : \E i \in Nat :
                          \/ /\ x = <<"net", m, i>>
                             /\ m \in DOMAIN run \/ \E j \in 2..L : s[j].name = m /\ Taken(s[j], i)
                          \/ /\ x = <<"server", m, i>>
                             /\ \E l \in 1..k : c.servers[l].name = m /\ (l = k /\ s # <<>> => Taken(s[1], i))
      BY <2>2 DEF Fresh, L
    <2> QED
      BY <1>6, <1>8, <2>1, <2>2, <2>3, ZenonT(40)
  <1>20. BuildState(c, org, k, nets2, run2, t, srv)
    BY <1>3, <1>12, <1>13, <1>14, <1>15, <1>16, <1>17, <1>18, <1>19 DEF BuildState
  <1>21. Leads(s[p], Src(c, org, k, p, s[p]), f, org) /\ t[p] = s[p]
    BY <1>2, <1>3 DEF BuildState, Linked, p
  <1>22. Len(s[p].net.refs) = Len(Src(c, org, k, p, s[p]).refs)
    BY <1>2 DEF BuildState, Framed, Flat
  <1>23. /\ t[Len(t)].next <= Len(t[Len(t)].net.refs)
         /\ t[Len(t)].net.refs[t[Len(t)].next].net = None
         /\ t[Len(t)].net.refs[t[Len(t)].next].name = n
    BY <1>3, <1>21, <1>22 DEF Leads
  <1> QED
    BY <1>3, <1>8, <1>20, <1>23 DEF t, nets2, run2, p

\* Return of a server: its references are all sound.
LEMMA StateServerBuilt ==
    ASSUME NEW c, WrittenConfig(c), NEW org, NEW k, NEW nets, NEW run, NEW s, NEW srv,
           BuildState(c, org, k, nets, run, s, srv), Len(s) = 1,
           s[1].next > Len(s[1].net.refs), Accepts(s[1].net)
    PROVE  BuildState(c, org, k, nets, run, <<>>, srv)
  <1>1. IsSeq(<<>>) /\ Len(<<>>) = 0 /\ s # <<>> /\ 1 \in 1..Len(s)
    <2>1. IsSeq(<<>>) /\ Len(<<>>) = 0
      BY DEF IsSeq
    <2> QED
      BY <2>1
  <1>2. Under(<<>>) = {} /\ Under(s) = {}
    BY <1>1 DEF Under
  <1>3. /\ Fresh(c, org, k, DOMAIN run, s) /\ Lying(c, org, nets, DOMAIN run, s) /\ Serving(c, k, s, srv)
        /\ Names(c, org, nets) /\ Cached(c, org, nets, run)
    BY DEF BuildState
  <1>4. /\ Lying(c, org, nets, DOMAIN run, <<>>) /\ Stacked(c, org, DOMAIN run, <<>>)
        /\ Framed(c, org, k, DOMAIN run, <<>>) /\ Linked(c, org, k, <<>>)
    BY <1>1, <1>2, <1>3 DEF Lying, Stacked, Framed, Linked
  <1>5. Fresh(c, org, k, DOMAIN run, <<>>)
    <2>1. 2..Len(s) = {}
      OBVIOUS
    <2> QED
      BY <1>3, <2>1 DEF Fresh
  <1>6. Served(c, k)
    <2>1. Src(c, org, k, 1, s[1]).refs = c.servers[k].refs
      BY DEF Src, ServerNet, Net
    <2>2. c.servers[k].refs \in Seq(Refs) /\ Len(c.servers[k].refs) \in Nat
      BY <1>1, <2>1, FrameWritten
    <2>3. Flat(s[1].net, Src(c, org, k, 1, s[1]), org) /\ Progress(s[1], Src(c, org, k, 1, s[1]), DOMAIN run, Sound(Merged(c)))
      BY <1>1 DEF BuildState, Framed
    <2>4. s[1].next \in Nat /\ Len(s[1].net.refs) = Len(c.servers[k].refs)
      BY <2>1, <2>2, <2>3 DEF Progress, Flat
    <2>5. \A i \in 1..Len(c.servers[k].refs) : i < s[1].next
      BY <2>2, <2>4
    <2>6. \A i \in 1..Len(c.servers[k].refs) : c.servers[k].refs[i] \in Sound(Merged(c))
      BY <2>1, <2>3, <2>5 DEF Progress
    <2>7. Accepts(ServerNet(c.servers[k]))
      BY <2>3 DEF Flat, Src, Accepts
    <2>8. Deserializes(c.servers[k])
      BY <1>1, <1>3 DEF Serving
    <2>9. Range(c.servers[k].refs) \subseteq Sound(Merged(c))
      BY <2>2, <2>6 DEF Range
    <2> QED
      BY <2>7, <2>8, <2>9 DEF Served
  <1>7. Serving(c, k, <<>>, srv)
    BY <1>3, <1>6 DEF Serving
  <1> QED
    BY <1>1, <1>3, <1>4, <1>5, <1>7 DEF BuildState

-----------------------------------------------------------------------------
(* The errors: each means that some server's references are not sound.       *)
LEMMA ErrorNotFound ==
    ASSUME NEW c, WrittenConfig(c), NEW org, NEW k, NEW nets, NEW run, NEW s, NEW srv,
           BuildState(c, org, k, nets, run, s, srv), s # <<>>,
           s[Len(s)].next <= Len(s[Len(s)].net.refs),
           s[Len(s)].net.refs[s[Len(s)].next].net = None,
           s[Len(s)].net.refs[s[Len(s)].next].name \notin DOMAIN nets
    PROVE  ~Good(c)
  <1> DEFINE L == Len(s)
             f == s[L]
             src == Src(c, org, k, L, f)
  <1>1. IsSeq(s) /\ L \in Nat /\ L > 0 /\ L \in 1..L
    BY SeqElements DEF BuildState
  <1>2. f.next \in 1..Len(src.refs)
    <2>1. /\ Flat(f.net, src, org) /\ Progress(f, src, DOMAIN run, Sound(Merged(c)))
          /\ Len(src.refs) \in Nat
      BY <1>1, FrameWritten DEF BuildState, Framed
    <2>2. f.next \in 1..Len(src.refs) + 1 /\ Len(f.net.refs) = Len(src.refs)
      BY <2>1 DEF Progress, Flat
    <2> QED
      BY <2>1, <2>2
  <1>3. ~Builds(Merged(c), src.refs[f.next])
    BY <1>1, <1>2, VisitedRef
  <1>4. Bad(c, org, k, s, L)
    BY <1>2, <1>3, SoundBuilds DEF Bad
  <1> QED
    BY <1>1, <1>4, BadIsNotGood

\* A net of unknown type, as is the placeholder a cycle comes across, or with options that
\* do not deserialise, is not sound.
LEMMA ErrorUnknown ==
    ASSUME NEW c, WrittenConfig(c), NEW org, NEW k, NEW nets, NEW run, NEW s, NEW srv,
           BuildState(c, org, k, nets, run, s, srv), s # <<>>,
           s[Len(s)].next <= Len(s[Len(s)].net.refs),
           s[Len(s)].net.refs[s[Len(s)].next].net = None,
           NEW n \in DOMAIN nets, n = s[Len(s)].net.refs[s[Len(s)].next].name,
           n \notin DOMAIN run, ~Known(nets[n])
    PROVE  ~Good(c)
  <1> DEFINE L == Len(s)
             f == s[L]
             src == Src(c, org, k, L, f)
  <1>1. IsSeq(s) /\ L \in Nat /\ L > 0 /\ L \in 1..L
    BY SeqElements DEF BuildState
  <1>2. f.next \in 1..Len(src.refs)
    BY VisitedTop, SMTT(30)
  <1>3. org[n] = src.refs[f.next]
    BY VisitedTop, SMTT(30)
  <1>4. Bad(c, org, k, s, L)
    <2>1. CASE n \in Under(s)
      <3>1. PICK j \in 2..Len(s) : s[j].name = n
        BY <2>1 DEF Under
      <3>2. org[s[j].name] = src.refs[f.next]
        BY <1>3, <3>1
      <3> QED
        BY <1>2, <3>2, CycleIsBad
    <2>2. CASE n \notin Under(s)
      <3>1. nets[n] = Target(Merged(c), org[n])
        BY <2>2 DEF BuildState, Lying, Source
      <3>2. ~Builds(Merged(c), org[n])
        BY <3>1 DEF Builds
      <3> QED
        BY <1>2, <1>3, <3>2, SoundBuilds DEF Bad
    <2> QED
      BY <2>1, <2>2
  <1> QED
    BY <1>1, <1>4, BadIsNotGood

\* A net its builder refuses is unsound, and a server is not served.
LEMMA ErrorRefused ==
    ASSUME NEW c, WrittenConfig(c), NEW org, NEW k, NEW nets, NEW run, NEW s, NEW srv,
           BuildState(c, org, k, nets, run, s, srv), s # <<>>, ~Accepts(s[Len(s)].net)
    PROVE  ~Good(c)
  <1> DEFINE L == Len(s)
             f == s[L]
             src == Src(c, org, k, L, f)
  <1>1. IsSeq(s) /\ L \in Nat /\ L > 0 /\ L \in 1..L
    BY SeqElements DEF BuildState
  <1>2. Flat(f.net, src, org)
    BY <1>1 DEF BuildState, Framed
  <1>3. ~Accepts(src)
    BY <1>2 DEF Flat, Accepts
  <1>4. CASE L = 1
    <2>1. src = ServerNet(c.servers[k])
      BY <1>4 DEF Src
    <2>2. k \in 1..Len(c.servers)
      BY SeqElements DEF BuildState, Serving
    <2> QED
      BY <1>3, <2>1, <2>2 DEF Good, Served
  <1>5. CASE L # 1
    <2>1. L \in 2..L
      BY <1>1, <1>5, AboveServer
    <2>2. src = Target(Merged(c), org[f.name])
      BY <1>5 DEF Src, Source
    <2>3. org[f.name] \notin Sound(Merged(c))
      BY <1>3, <2>2, SoundBuilds DEF Builds
    <2>4. L - 1 \in 1..Len(s) /\ Bad(c, org, k, s, L - 1)
      BY <2>1, <2>3, BadIsPassedOn
    <2> QED
      BY <2>4, BadIsNotGood
  <1> QED
    BY <1>4, <1>5

\* A server whose options do not deserialise.
LEMMA ErrorMalformed ==
    ASSUME NEW c, WrittenConfig(c), NEW org, NEW k \in Nat, NEW nets, NEW run, NEW s, NEW srv,
           BuildState(c, org, k, nets, run, s, srv), srv # <<>>, ~Deserializes(Head(srv))
    PROVE  ~Good(c)
  <1>1. IsSeq(srv) /\ Len(srv) \in Nat /\ Len(srv) > 0 /\ Head(srv) = srv[1]
    BY SeqElements, TailSeq DEF BuildState, Serving
  <1>2. Len(c.servers) \in Nat /\ k \in 0..Len(c.servers) /\ Len(srv) = Len(c.servers) - k
    BY SeqElements DEF BuildState, Serving, WrittenConfig, IsSeq
  <1>3. 1 \in 1..Len(srv) /\ k + 1 \in 1..Len(c.servers)
    BY <1>1, <1>2
  <1>4. Head(srv) = c.servers[k + 1]
    BY <1>1, <1>3 DEF BuildState, Serving
  <1> QED
    BY <1>3, <1>4 DEF Good, Served

-----------------------------------------------------------------------------
(* The invariant of the build.                                               *)
BuildStart == WrittenConfig(conf.read) /\ BuildInit(conf.read.nets, conf.read.servers)
BuildSpec == BuildStart /\ [][BuildNext]_buildVars

ConfType == conf = [nets |-> conf.nets, servers |-> conf.servers, read |-> conf.read] /\ WrittenConfig(conf.read)
Constructing == \E org, k : BuildState(conf.read, org, k, conf.nets, cache, stack, conf.servers)
BuildInv ==
  /\ ConfType /\ built \in {"building", "ok", "failed"}
  /\ built = "building" => Constructing
  /\ built = "ok" => Good(conf.read)
  /\ built = "failed" => ~Good(conf.read)
  /\ ReferencesRun

\* The build begins in such a state.
LEMMA BuildInvInit == BuildStart => BuildInv
  <1> SUFFICES ASSUME BuildStart PROVE BuildInv
    OBVIOUS
  <1>1. /\ conf = [nets |-> Merged(conf.read), servers |-> conf.read.servers,
                   read |-> [nets |-> conf.read.nets, servers |-> conf.read.servers]]
        /\ stack = <<>> /\ cache = NoNets /\ built = "building" /\ WrittenConfig(conf.read)
    BY DEF BuildStart, BuildInit, Merged, NoNets
  <1>2. PICK c : c = conf.read
    OBVIOUS
  <1>3. conf.nets = Merged(c) /\ conf.servers = c.servers /\ WrittenConfig(c)
    BY <1>1, <1>2
  <1>4. BuildState(c, [n \in DOMAIN Merged(c) |-> Name(n)], 0, Merged(c), NoNets, <<>>, c.servers)
    BY <1>3, StateInit
  <1>5. Constructing
    BY <1>1, <1>2, <1>3, <1>4 DEF Constructing
  <1>6. ConfType
    BY <1>1 DEF ConfType
  <1> QED
    BY <1>1, <1>5, <1>6 DEF BuildInv, ReferencesRun

\* What an action leaves when it goes on building, or fails.
LEMMA GoesOn ==
    ASSUME BuildInv, built = "building", built' = "building", conf'.read = conf.read, ConfType',
           NEW org, NEW k, BuildState(conf.read, org, k, conf'.nets, cache', stack', conf'.servers)
    PROVE  BuildInv'
  <1>1. Constructing'
    BY DEF Constructing
  <1> QED
    BY <1>1 DEF BuildInv, ReferencesRun

\* A step that fails, of a configuration that is not good.
LEMMA FailsUnsound ==
    ASSUME BuildInv, Fail, ~Good(conf.read)
    PROVE  BuildInv'
  BY DEF BuildInv, Fail, ReferencesRun, ConfType

\* Every step of build_entities keeps the invariant.
LEMMA BuildInvStep ==
    ASSUME BuildInv, BuildStep
    PROVE  BuildInv'
  <1>1. built = "building" /\ Constructing /\ ConfType
    BY DEF BuildInv, BuildStep, NextServer, Flatten, Reuse, NotFound, Descend, Return, Built, Visiting
  <1>2. PICK org, k : BuildState(conf.read, org, k, conf.nets, cache, stack, conf.servers)
    BY <1>1 DEF Constructing
  <1>3. WrittenConfig(conf.read) /\ conf = [nets |-> conf.nets, servers |-> conf.servers, read |-> conf.read]
    BY <1>1 DEF ConfType
  <1>4. ASSUME NextServer PROVE BuildInv'
    <2>1. stack = <<>> /\ conf.servers # <<>>
      BY <1>4 DEF NextServer
    <2>2. k \in Nat
      <3>1. Len(conf.read.servers) \in Nat
        BY <1>3, SeqElements DEF WrittenConfig, IsSeq
      <3>2. k \in 0..Len(conf.read.servers)
        BY <1>2 DEF BuildState, Serving
      <3> QED
        BY <3>1, <3>2
    <2>3. CASE Deserializes(Head(conf.servers))
      <3>1. /\ stack' = <<ServerFrame(Head(conf.servers))>> /\ cache' = cache /\ built' = "building"
            /\ conf' = [nets |-> conf.nets, servers |-> Tail(conf.servers), read |-> conf.read]
        BY <1>1, <1>3, <1>4, <2>3 DEF NextServer, ServerFrame
      <3>2. BuildState(conf.read, org, k + 1, conf.nets, cache, <<ServerFrame(Head(conf.servers))>>, Tail(conf.servers))
        BY <1>2, <1>3, <2>1, <2>2, <2>3, StateNextServer
      <3> QED
        BY <1>1, <1>3, <3>1, <3>2, GoesOn DEF ConfType
    <2>4. CASE ~Deserializes(Head(conf.servers))
      <3>1. Fail
        BY <1>4, <2>4 DEF NextServer
      <3>2. ~Good(conf.read)
        BY <1>2, <1>3, <2>1, <2>2, <2>4, ErrorMalformed
      <3> QED
        BY <3>1, <3>2, FailsUnsound
    <2> QED
      BY <2>3, <2>4
  <1>5. Visiting => /\ stack # <<>> /\ stack[Len(stack)].next <= Len(stack[Len(stack)].net.refs)
                    /\ Ref = stack[Len(stack)].net.refs[stack[Len(stack)].next]
    BY DEF Visiting, Ref, Top, Last
  <1>6. ASSUME Flatten PROVE BuildInv'
    <2>1. Visiting /\ stack[Len(stack)].net.refs[stack[Len(stack)].next].net # None
      BY <1>5, <1>6 DEF Flatten
    <2>2. GeneratedName = Generated(stack)
      BY DEF GeneratedName, Generated, Top, Last
    <2>3. /\ cache' = cache /\ built' = "building"
          /\ conf' = [nets |-> Insert(conf.nets, Generated(stack), stack[Len(stack)].net.refs[stack[Len(stack)].next].net),
                      servers |-> conf.servers, read |-> conf.read]
      BY <1>1, <1>3, <1>5, <1>6, <2>1, <2>2 DEF Flatten
    <2>4. stack' = [stack EXCEPT ![Len(stack)] = Renamed(@, Generated(stack))]
      BY <1>6, <2>2 DEF Flatten, Renamed, Top, Last
    <2>5. PICK more : BuildState(conf.read, more, k,
                        Insert(conf.nets, Generated(stack), stack[Len(stack)].net.refs[stack[Len(stack)].next].net),
                        cache, [stack EXCEPT ![Len(stack)] = Renamed(@, Generated(stack))], conf.servers)
      BY <1>2, <1>3, <1>5, <2>1, StateFlatten
    <2>6. BuildState(conf.read, more, k, conf'.nets, cache', stack', conf'.servers)
      BY <2>3, <2>4, <2>5
    <2> QED
      BY <1>1, <1>3, <2>3, <2>6, GoesOn DEF ConfType
  <1>7. ASSUME Reuse PROVE BuildInv'
    <2>1. /\ Visiting /\ stack[Len(stack)].net.refs[stack[Len(stack)].next].net = None
          /\ stack[Len(stack)].net.refs[stack[Len(stack)].next].name \in DOMAIN cache
      BY <1>5, <1>7 DEF Reuse
    <2>2. cache' = cache /\ built' = "building" /\ conf' = conf /\ stack' = [stack EXCEPT ![Len(stack)] = Step(@)]
      BY <1>1, <1>7 DEF Reuse
    <2>3. BuildState(conf.read, org, k, conf.nets, cache, [stack EXCEPT ![Len(stack)] = Step(@)], conf.servers)
      BY <1>2, <1>3, <1>5, <2>1, StateReuse
    <2>4. BuildState(conf.read, org, k, conf'.nets, cache', stack', conf'.servers)
      BY <2>2, <2>3
    <2> QED
      BY <1>1, <1>3, <2>2, <2>4, GoesOn DEF ConfType
  <1>8. ASSUME NotFound PROVE BuildInv'
    <2>1. /\ Visiting /\ stack[Len(stack)].net.refs[stack[Len(stack)].next].net = None
          /\ stack[Len(stack)].net.refs[stack[Len(stack)].next].name \notin DOMAIN conf.nets /\ Fail
      BY <1>5, <1>8 DEF NotFound
    <2>2. ~Good(conf.read)
      BY <1>2, <1>3, <1>5, <2>1, ErrorNotFound
    <2> QED
      BY <2>1, <2>2, FailsUnsound
  <1>9. ASSUME Descend PROVE BuildInv'
    <2>1. PICK n : n = stack[Len(stack)].net.refs[stack[Len(stack)].next].name
      OBVIOUS
    <2>2. /\ Visiting /\ stack[Len(stack)].net.refs[stack[Len(stack)].next].net = None
          /\ Ref.name = n /\ n \notin DOMAIN cache /\ n \in DOMAIN conf.nets
      BY <1>5, <1>9, <2>1 DEF Descend
    <2>3. CASE Known(conf.nets[n])
      <3>1. /\ cache' = cache /\ built' = "building"
            /\ conf' = [conf EXCEPT !.nets[n] = Placeholder]
            /\ stack' = Append(stack, [name |-> n, net |-> conf.nets[n], next |-> 1])
        BY <1>1, <1>9, <2>2, <2>3 DEF Descend
      <3>2. conf' = [nets |-> [conf.nets EXCEPT ![n] = Placeholder], servers |-> conf.servers, read |-> conf.read]
        BY <1>3, <3>1
      <3>3. BuildState(conf.read, org, k, [conf.nets EXCEPT ![n] = Placeholder], cache,
                       Append(stack, [name |-> n, net |-> conf.nets[n], next |-> 1]), conf.servers)
        BY <1>2, <1>3, <1>5, <2>1, <2>2, <2>3, StateDescend
      <3>4. BuildState(conf.read, org, k, conf'.nets, cache', stack', conf'.servers)
        BY <3>1, <3>2, <3>3
      <3> QED
        BY <1>1, <1>3, <3>1, <3>2, <3>4, GoesOn DEF ConfType
    <2>4. CASE ~Known(conf.nets[n])
      <3>1. Fail
        BY <1>9, <2>2, <2>4 DEF Descend
      <3>2. ~Good(conf.read)
        BY <1>2, <1>3, <1>5, <2>1, <2>2, <2>4, ErrorUnknown
      <3> QED
        BY <3>1, <3>2, FailsUnsound
    <2> QED
      BY <2>3, <2>4
  <1>10. ASSUME Return PROVE BuildInv'
    <2>1. /\ stack # <<>> /\ stack[Len(stack)].next > Len(stack[Len(stack)].net.refs)
          /\ Top = stack[Len(stack)]
      BY <1>10 DEF Return, Top, Last
    <2>2. CASE ~Accepts(stack[Len(stack)].net)
      <3>1. Fail
        BY <1>10, <2>1, <2>2 DEF Return
      <3>2. ~Good(conf.read)
        BY <1>2, <1>3, <2>1, <2>2, ErrorRefused
      <3> QED
        BY <3>1, <3>2, FailsUnsound
    <2>3. CASE Accepts(stack[Len(stack)].net) /\ Len(stack) = 1
      <3>1. stack' = <<>> /\ conf' = conf /\ cache' = cache /\ built' = "building"
        BY <1>1, <1>10, <2>1, <2>3 DEF Return
      <3>2. BuildState(conf.read, org, k, conf.nets, cache, <<>>, conf.servers)
        BY <1>2, <1>3, <2>1, <2>3, StateServerBuilt
      <3>3. BuildState(conf.read, org, k, conf'.nets, cache', stack', conf'.servers)
        BY <3>1, <3>2
      <3> QED
        BY <1>1, <1>3, <3>1, <3>3, GoesOn DEF ConfType
    <2>4. CASE Accepts(stack[Len(stack)].net) /\ Len(stack) # 1
      <3>0. PICK n : n = stack[Len(stack)].name
        OBVIOUS
      <3>1. /\ conf' = [conf EXCEPT !.nets[n] = stack[Len(stack)].net]
            /\ cache' = Insert(cache, n, stack[Len(stack)].net)
            /\ stack' = [Front(stack) EXCEPT ![Len(stack) - 1] = Step(@)]
            /\ built' = "building"
        BY <1>1, <1>10, <2>1, <2>4, <3>0 DEF Return
      <3>2. conf' = [nets |-> [conf.nets EXCEPT ![n] = stack[Len(stack)].net], servers |-> conf.servers, read |-> conf.read]
        BY <1>3, <3>1
      <3>3. /\ BuildState(conf.read, org, k, [conf.nets EXCEPT ![n] = stack[Len(stack)].net],
                          Insert(cache, n, stack[Len(stack)].net), Front(stack), conf.servers)
            /\ Front(stack) # <<>> /\ Len(Front(stack)) = Len(stack) - 1
            /\ Front(stack)[Len(Front(stack))].next <= Len(Front(stack)[Len(Front(stack))].net.refs)
            /\ Front(stack)[Len(Front(stack))].net.refs[Front(stack)[Len(Front(stack))].next].net = None
            /\ Front(stack)[Len(Front(stack))].net.refs[Front(stack)[Len(Front(stack))].next].name = n
        BY <1>2, <1>3, <2>1, <2>4, <3>0, StateReturn
      <3>4. PICK nets, run, t : /\ nets = [conf.nets EXCEPT ![n] = stack[Len(stack)].net]
                                /\ run = Insert(cache, n, stack[Len(stack)].net) /\ t = Front(stack)
        OBVIOUS
      <3>5. /\ BuildState(conf.read, org, k, nets, run, t, conf.servers) /\ t # <<>>
            /\ t[Len(t)].next <= Len(t[Len(t)].net.refs)
            /\ t[Len(t)].net.refs[t[Len(t)].next].net = None
            /\ t[Len(t)].net.refs[t[Len(t)].next].name \in DOMAIN run
        BY <3>3, <3>4 DEF Insert
      <3>6. BuildState(conf.read, org, k, nets, run, [t EXCEPT ![Len(t)] = Step(@)], conf.servers)
        BY <1>3, <3>5, StateReuse
      <3>7. stack' = [t EXCEPT ![Len(t)] = Step(@)] /\ cache' = run /\ conf'.nets = nets /\ conf'.servers = conf.servers
        BY <3>1, <3>2, <3>3, <3>4
      <3>8. BuildState(conf.read, org, k, conf'.nets, cache', stack', conf'.servers)
        BY <3>6, <3>7
      <3> QED
        BY <1>1, <1>3, <3>1, <3>2, <3>8, GoesOn DEF ConfType
    <2> QED
      BY <2>2, <2>3, <2>4
  <1>11. ASSUME Built PROVE BuildInv'
    <2>1. stack = <<>> /\ conf.servers = <<>> /\ built' = "ok" /\ conf' = conf /\ cache' = cache
      BY <1>11 DEF Built
    <2>2. Good(conf.read)
      <3>1. Serving(conf.read, k, stack, conf.servers)
        BY <1>2 DEF BuildState
      <3>2. Len(conf.read.servers) \in Nat
        BY <1>3, SeqElements DEF WrittenConfig, IsSeq
      <3>3. k = Len(conf.read.servers)
        <4>1. Len(conf.servers) = 0 /\ Len(conf.servers) = Len(conf.read.servers) - k /\ k \in 0..Len(conf.read.servers)
          BY <2>1, <3>1 DEF Serving
        <4> QED
          BY <3>2, <4>1, NoneLeft
      <3> QED
        BY <2>1, <3>1, <3>3 DEF Good, Serving
    <2>3. ReferencesRun'
      BY <1>2, <2>1 DEF BuildState, Cached, ReferencesRun
    <2> QED
      BY <1>1, <2>1, <2>2, <2>3 DEF BuildInv, ConfType
  <1> QED
    BY <1>4, <1>6, <1>7, <1>8, <1>9, <1>10, <1>11 DEF BuildStep

\* update_net keeps the invariant: it refers to what runs or leaves the net alone.
LEMMA BuildInvUpdate ==
    ASSUME BuildInv, NEW x \in Callers, NEW n, NEW selected, UpdateNet(x, n, selected)
    PROVE  BuildInv'
  <1>1. built = "ok" /\ built' = built /\ ConfType
    BY DEF UpdateNet, BuildInv
  <1>2. PICK new : \/ conf' = conf /\ cache' = cache
                   \/ /\ \A i \in 1..Len(new.refs) : new.refs[i].name \in DOMAIN cache
                      /\ conf' = [conf EXCEPT !.nets[n] = new]
                      /\ cache' = [cache EXCEPT ![n] = new]
    BY DEF UpdateNet, Replaced
  <1>3. conf'.read = conf.read /\ ConfType'
    BY <1>1, <1>2 DEF ConfType
  <1>4. ReferencesRun'
    BY <1>1, <1>2 DEF BuildInv, ReferencesRun
  <1> QED
    BY <1>1, <1>3, <1>4 DEF BuildInv

\* Every step keeps the invariant.
LEMMA BuildInvNext ==
    ASSUME BuildInv, [BuildNext]_buildVars
    PROVE  BuildInv'
  <1>1. CASE BuildStep
    BY <1>1, BuildInvStep
  <1>2. CASE \E x \in Callers : \E p \in Selections : UpdateNet(x, p[1], p[2])
    BY <1>2, BuildInvUpdate
  <1>3. CASE UNCHANGED <<conf, stack, cache, built>>
    BY <1>3 DEF BuildInv, ConfType, Constructing, ReferencesRun
  <1>4. ASSUME NEW x \in Callers, FromCache(x) \/ WriteCache(x)
        PROVE  UNCHANGED <<conf, stack, cache, built>>
    BY <1>4 DEF FromCache, WriteCache
  <1> QED
    BY <1>1, <1>2, <1>3, <1>4 DEF BuildNext, buildVars

\* build_entities (rabbit_digger.rs) with its recursive BuildContext::get_net ends
\* well exactly when its servers' options are good and every net they reach is sound,
\* one with options its builder reads and accepts included, for every configuration:
\* any graph of nets, nested ones and cycles included, and any number of servers.
\* From then on, through every update_net, what runs refers only to what runs.
THEOREM BuiltIffSound == BuildSpec => []BuildsIffSound
  <1>1. BuildInv => BuildsIffSound
    BY DEF BuildInv, BuildsIffSound, Good, Served, Merged
  <1> QED
    BY <1>1, BuildInvInit, BuildInvNext, PTL DEF BuildSpec

-----------------------------------------------------------------------------
(* Selections.  A net of type select that runs has the selection of the call *)
(* that is under way, of the stored map, or of the configuration.            *)
Selectable(n) == n \in DOMAIN conf.read.nets /\ n \in DOMAIN cache /\ conf.read.nets[n].type = "select"
\* A net one can select from, and its selection in the configuration, or a nested net.
SelectShape(net, read) ==
  /\ net = [type |-> "select", opt |-> net.opt, refs |-> net.refs, rule |-> net.rule]
  /\ IsSeq(net.refs) /\ 1 \in 1..Len(net.refs)
  /\ read = [type |-> "select", opt |-> read.opt, refs |-> read.refs, rule |-> read.rule]
  /\ IsSeq(read.refs) /\ 1 \in 1..Len(read.refs)
AsRead(net, read) == net.refs[1].name = read.refs[1].name \/ net.refs[1].name \notin ListOf(read)
Shapes == \A n : Selectable(n) => n \in DOMAIN conf.nets /\ SelectShape(conf.nets[n], conf.read.nets[n])
SelectType ==
  /\ select = [call |-> select.call, stored |-> select.stored, overlapped |-> select.overlapped]
  /\ DOMAIN select.call = Callers /\ select.overlapped \in BOOLEAN
  /\ \A x \in Callers :
       /\ select.call[x] = [pc |-> select.call[x].pc, net |-> select.call[x].net,
                            selected |-> select.call[x].selected, map |-> select.call[x].map]
       /\ select.call[x].pc \in {"idle", "read", "write", "done"}
Agrees(n) == IF n \in DOMAIN select.stored THEN Running(n) = select.stored[n]
             ELSE AsRead(conf.nets[n], conf.read.nets[n])
InTurn ==
  /\ \A x \in Callers : \A y \in Callers : Active(x) /\ Active(y) => x = y
  /\ \A x \in Callers : select.call[x].pc = "write" => select.call[x].map = select.stored
  /\ \A n : Selectable(n) =>
       /\ \A x \in Callers : Active(x) /\ select.call[x].net = n => Running(n) = select.call[x].selected
       /\ (\A x \in Callers : Active(x) => select.call[x].net # n) => Agrees(n)
SelectInv ==
  /\ SelectType
  /\ built # "ok" => DOMAIN select.stored = {} /\ \A x \in Callers : select.call[x].pc = "idle"
  /\ built = "ok" => Shapes
  /\ built = "ok" /\ ~select.overlapped => InTurn

\* Before the first call there is nothing to agree on.
LEMMA SelectInvInit == BuildStart => SelectInv
  <1> SUFFICES ASSUME BuildStart PROVE SelectInv
    OBVIOUS
  <1>1. /\ built = "building"
        /\ select = [call |-> [x \in Callers |-> [pc |-> "idle", net |-> None, selected |-> None, map |-> <<>>]],
                     stored |-> NoNets, overlapped |-> FALSE]
    BY DEF BuildStart, BuildInit, NoNets
  <1>2. DOMAIN select.stored = {}
    BY <1>1 DEF NoNets
  <1> QED
    BY <1>1, <1>2 DEF SelectInv, SelectType

\* A nested net that was named is in nobody's list.
LEMMA LiftedNotListed ==
    ASSUME NEW c, WrittenConfig(c), NEW org, NEW k, NEW nets, NEW run, NEW s, NEW srv,
           BuildState(c, org, k, nets, run, s, srv), NEW r, NEW src, Written(src),
           NEW old, Lifted(r, old, org)
    PROVE  r.name \notin ListOf(src)
  <1>1. r.name \in DOMAIN org \ DOMAIN Merged(c)
    BY DEF Lifted, BuildState, Names, Name
  <1>2. PICK m : \E i \in Nat : r.name = <<"net", m, i>> \/ r.name = <<"server", m, i>>
    BY <1>1 DEF BuildState, Fresh
  <1>3. PICK i \in Nat : r.name = <<"net", m, i>> \/ r.name = <<"server", m, i>>
    BY <1>2
  <1>4. ~Configured(r.name)
    BY <1>3, GeneratedNotConfigured
  <1>5. r.name # None
    BY <1>3 DEF None
  <1>6. \A x \in Refs : x.name = None \/ Configured(x.name)
    BY RefsAssumption DEF Name, Inline
  <1>7. src.refs \in Seq(Refs)
    BY DEF Written
  <1>8. \A j \in 2..Len(src.refs) : src.refs[j] \in Refs
    BY <1>7
  <1> QED
    BY <1>4, <1>5, <1>6, <1>8 DEF ListOf

\* What was built has the shape and the selection of what was read.
LEMMA BuiltShape ==
    ASSUME NEW c, WrittenConfig(c), NEW org, NEW k, NEW nets, NEW run, NEW s, NEW srv,
           BuildState(c, org, k, nets, run, s, srv),
           NEW n \in DOMAIN c.nets, n \in DOMAIN run, c.nets[n].type = "select"
    PROVE  n \in DOMAIN nets /\ SelectShape(nets[n], c.nets[n]) /\ AsRead(nets[n], c.nets[n])
  <1>1. n \in DOMAIN Merged(c) /\ Merged(c)[n] = c.nets[n]
    BY DEF Merged, MergeProcess
  <1>2. n \in DOMAIN org /\ n \in DOMAIN nets /\ org[n] \in Sound(Merged(c)) /\ Flat(nets[n], Source(c, org, n), org)
    BY DEF BuildState, Cached, Names
  <1>3. org[n] = Name(n)
    BY <1>1, <1>2 DEF BuildState, Names
  <1>4. Source(c, org, n) = c.nets[n] /\ Target(Merged(c), org[n]) = c.nets[n]
    BY <1>1, <1>3 DEF Source, Target, Name
  <1>5. Accepts(c.nets[n])
    BY <1>2, <1>4, SoundBuilds DEF Builds
  <1>6. Written(c.nets[n])
    BY DEF WrittenConfig
  <1>7. IsSeq(c.nets[n].refs) /\ Len(c.nets[n].refs) \in Nat /\ Len(c.nets[n].refs) > 1
    BY <1>5, <1>6, InSeq, SeqElements DEF Accepts, Written
  <1>8. Flat(nets[n], c.nets[n], org)
    BY <1>2, <1>4
  <1>9. SelectShape(nets[n], c.nets[n])
    BY <1>6, <1>7, <1>8 DEF SelectShape, Flat, Written
  <1>10. nets[n].refs[1] = c.nets[n].refs[1] \/ Lifted(nets[n].refs[1], c.nets[n].refs[1], org)
    BY <1>9, <1>8 DEF Flat, SelectShape
  <1>11. AsRead(nets[n], c.nets[n])
    BY <1>6, <1>10, LiftedNotListed DEF AsRead
  <1> QED
    BY <1>2, <1>9, <1>11

\* While the nets are built nobody selects.
LEMMA SelectInvBuild ==
    ASSUME BuildInv, SelectInv, BuildStep
    PROVE  SelectInv'
  <1>1. built = "building" /\ Constructing /\ ConfType /\ UNCHANGED select
    BY DEF BuildInv, BuildStep, NextServer, Flatten, Reuse, NotFound, Descend, Return, Built, Visiting, Fail
  <1>2. PICK org, k : BuildState(conf.read, org, k, conf.nets, cache, stack, conf.servers)
    BY <1>1 DEF Constructing
  <1>3. built' # "ok" \/ Built
    BY <1>1 DEF BuildStep, NextServer, Flatten, Reuse, NotFound, Descend, Return, Fail
  <1>4. CASE built' # "ok"
    BY <1>1, <1>4 DEF SelectInv, SelectType
  <1>5. CASE Built
    <2>1. conf' = conf /\ cache' = cache /\ built' = "ok"
      BY <1>5 DEF Built
    <2>2. \A n : Selectable(n) => /\ n \in DOMAIN conf.nets /\ SelectShape(conf.nets[n], conf.read.nets[n])
                                  /\ AsRead(conf.nets[n], conf.read.nets[n])
      BY <1>1, <1>2, BuiltShape DEF Selectable, ConfType
    <2>3. DOMAIN select.stored = {} /\ \A x \in Callers : select.call[x].pc = "idle"
      BY <1>1 DEF SelectInv
    <2>4. SelectType' /\ Shapes'
      BY <1>1, <2>1, <2>2 DEF SelectInv, SelectType, Shapes, Selectable
    <2>5. InTurn'
      BY <1>1, <2>1, <2>2, <2>3 DEF InTurn, Active, Agrees, Selectable
    <2> QED
      BY <2>1, <2>4, <2>5 DEF SelectInv
  <1> QED
    BY <1>3, <1>4, <1>5

\* The record of the calls when one of them has moved.
Calls(sel, f, st, o) == sel = [call |-> f, stored |-> st, overlapped |-> o]
Reads(sel, new, x) == new = [sel EXCEPT !.call[x].pc = "write", !.call[x].map = sel.stored]
Ends(sel, new, x) == new = [sel EXCEPT !.call[x].pc = "done"]
CallOf(call, a, n, d, e) == call = [pc |-> a, net |-> n, selected |-> d, map |-> e]

\* The fields after FromCache.
LEMMA CallReads ==
    ASSUME NEW sel, NEW new, NEW f, NEW st, NEW o, NEW x \in DOMAIN f, NEW a, NEW n, NEW d, NEW e,
           Calls(sel, f, st, o), CallOf(f[x], a, n, d, e), Reads(sel, new, x)
    PROVE  Calls(new, [f EXCEPT ![x] = [pc |-> "write", net |-> n, selected |-> d, map |-> st]], st, o)
  <1>1. PICK r, q : /\ r = [pc |-> "write", net |-> n, selected |-> d, map |-> e]
                    /\ q = [pc |-> "write", net |-> n, selected |-> d, map |-> st]
    OBVIOUS
  <1>2. [f[x] EXCEPT !.pc = "write"] = r /\ [r EXCEPT !.map = st] = q
    BY <1>1 DEF CallOf
  <1>3. PICK h : h = [f EXCEPT ![x] = r]
    OBVIOUS
  <1>4. [f EXCEPT ![x].pc = "write"] = h
    BY <1>2, <1>3
  <1>5. h[x] = r /\ DOMAIN h = DOMAIN f /\ [h EXCEPT ![x] = q] = [f EXCEPT ![x] = q]
    BY <1>3
  <1>6. [h EXCEPT ![x].map = st] = [h EXCEPT ![x] = q]
    BY <1>2, <1>5
  <1>7. sel.stored = st /\ sel = [call |-> f, stored |-> st, overlapped |-> o]
    BY DEF Calls
  <1>8. [sel EXCEPT !.call[x].pc = "write"] = [call |-> h, stored |-> st, overlapped |-> o]
    <2>1. [sel EXCEPT !.call[x].pc = "write"] = [sel EXCEPT !.call = [f EXCEPT ![x].pc = "write"]]
      BY <1>7
    <2> QED
      BY <1>4, <1>7, <2>1
  <1>9. PICK mid : mid = [call |-> h, stored |-> st, overlapped |-> o]
    OBVIOUS
  <1>10. [mid EXCEPT !.call[x].map = st] = [call |-> [h EXCEPT ![x] = q], stored |-> st, overlapped |-> o]
    <2>1. [mid EXCEPT !.call[x].map = st] = [mid EXCEPT !.call = [h EXCEPT ![x].map = st]]
      BY <1>9
    <2> QED
      BY <1>6, <1>9, <2>1
  <1>11. new = [mid EXCEPT !.call[x].map = st]
    BY <1>7, <1>8, <1>9 DEF Reads
  <1> QED
    BY <1>1, <1>5, <1>10, <1>11 DEF Calls

\* The fields after WriteCache.
LEMMA CallEnds ==
    ASSUME NEW sel, NEW new, NEW f, NEW st, NEW o, NEW x \in DOMAIN f, NEW a, NEW n, NEW d, NEW e,
           Calls(sel, f, st, o), CallOf(f[x], a, n, d, e), Ends(sel, new, x)
    PROVE  Calls(new, [f EXCEPT ![x] = [pc |-> "done", net |-> n, selected |-> d, map |-> e]], st, o)
  <1>1. [f[x] EXCEPT !.pc = "done"] = [pc |-> "done", net |-> n, selected |-> d, map |-> e]
    BY DEF CallOf
  <1>2. [f EXCEPT ![x].pc = "done"] = [f EXCEPT ![x] = [pc |-> "done", net |-> n, selected |-> d, map |-> e]]
    BY <1>1
  <1>3. sel = [call |-> f, stored |-> st, overlapped |-> o]
    BY DEF Calls
  <1>4. new = [sel EXCEPT !.call = [f EXCEPT ![x].pc = "done"]]
    BY <1>3 DEF Ends
  <1> QED
    BY <1>2, <1>3, <1>4 DEF Calls

\* The call reads the stored map.
LEMMA SelectInvRead ==
    ASSUME SelectInv, NEW x \in Callers, FromCache(x)
    PROVE  SelectInv'
  <1>1. /\ select.call[x].pc = "read" /\ UNCHANGED <<conf, stack, cache, built>>
        /\ select' = [select EXCEPT !.call[x].pc = "write", !.call[x].map = select.stored]
    BY DEF FromCache
  <1>2. SelectType
    BY DEF SelectInv
  <1>3. /\ select'.stored = select.stored /\ select'.overlapped = select.overlapped
        /\ DOMAIN select'.call = Callers
        /\ select'.call[x] = [pc |-> "write", net |-> select.call[x].net,
                              selected |-> select.call[x].selected, map |-> select.stored]
        /\ \A y \in Callers : y # x => select'.call[y] = select.call[y]
        /\ select' = [call |-> select'.call, stored |-> select'.stored, overlapped |-> select'.overlapped]
    <2>1. PICK f, st, o : f = select.call /\ st = select.stored /\ o = select.overlapped
      OBVIOUS
    <2>2. PICK a, n, d, e : a = f[x].pc /\ n = f[x].net /\ d = f[x].selected /\ e = f[x].map
      OBVIOUS
    <2>3. Calls(select, f, st, o) /\ CallOf(f[x], a, n, d, e) /\ DOMAIN f = Callers
      BY <1>2, <2>1, <2>2 DEF SelectType, Calls, CallOf
    <2>4. Reads(select, select', x)
      BY <1>1 DEF Reads
    <2>5. Calls(select', [f EXCEPT ![x] = [pc |-> "write", net |-> n, selected |-> d, map |-> st]], st, o)
      BY <2>3, <2>4, CallReads
    <2> QED
      BY <2>1, <2>2, <2>3, <2>5 DEF Calls
  <1>4. SelectType'
    BY <1>2, <1>3 DEF SelectType
  <1>5. built = "ok" /\ built' = "ok"
    BY <1>1 DEF SelectInv
  <1>6. Shapes'
    BY <1>1, <1>5 DEF SelectInv, Shapes, Selectable
  <1>7. ASSUME ~select'.overlapped PROVE InTurn'
    <2>1. InTurn
      BY <1>3, <1>5, <1>7 DEF SelectInv
    <2>2. \A y \in Callers : (Active(y))' <=> Active(y)
      BY <1>1, <1>3 DEF Active
    <2>3. \A n : Selectable(n)' = Selectable(n) /\ Running(n)' = Running(n) /\ Agrees(n)' = Agrees(n)
      BY <1>1, <1>3 DEF Selectable, Running, Agrees
    <2>4. \A y \in Callers : select'.call[y].net = select.call[y].net /\ select'.call[y].selected = select.call[y].selected
      BY <1>3
    <2>5. \A y \in Callers : select'.call[y].pc = "write" => select'.call[y].map = select'.stored
      BY <1>3, <2>1 DEF InTurn
    <2> QED
      BY <2>1, <2>2, <2>3, <2>4, <2>5 DEF InTurn
  <1> QED
    BY <1>4, <1>5, <1>6, <1>7 DEF SelectInv

\* It writes the map back, with its own selection in it.
LEMMA SelectInvWrite ==
    ASSUME SelectInv, NEW x \in Callers, WriteCache(x)
    PROVE  SelectInv'
  <1>1. /\ select.call[x].pc = "write" /\ UNCHANGED <<conf, stack, cache, built>>
        /\ select' = [[select EXCEPT !.call[x].pc = "done"] EXCEPT
                        !.stored = Insert(select.call[x].map, select.call[x].net, select.call[x].selected)]
    BY DEF WriteCache, Goes
  <1>2. SelectType
    BY DEF SelectInv
  <1>3. /\ select'.stored = Insert(select.call[x].map, select.call[x].net, select.call[x].selected)
        /\ select'.overlapped = select.overlapped /\ DOMAIN select'.call = Callers
        /\ select'.call[x] = [pc |-> "done", net |-> select.call[x].net,
                              selected |-> select.call[x].selected, map |-> select.call[x].map]
        /\ \A y \in Callers : y # x => select'.call[y] = select.call[y]
        /\ select' = [call |-> select'.call, stored |-> select'.stored, overlapped |-> select'.overlapped]
    <2>1. PICK f, st, o : f = select.call /\ st = select.stored /\ o = select.overlapped
      OBVIOUS
    <2>2. PICK a, n, d, e : a = f[x].pc /\ n = f[x].net /\ d = f[x].selected /\ e = f[x].map
      OBVIOUS
    <2>3. Calls(select, f, st, o) /\ CallOf(f[x], a, n, d, e) /\ DOMAIN f = Callers
      BY <1>2, <2>1, <2>2 DEF SelectType, Calls, CallOf
    <2>4. PICK mid : Ends(select, mid, x) /\ select' = [mid EXCEPT !.stored = Insert(e, n, d)]
      BY <1>1, <2>1, <2>2 DEF Ends
    <2>5. Calls(mid, [f EXCEPT ![x] = [pc |-> "done", net |-> n, selected |-> d, map |-> e]], st, o)
      BY <2>3, <2>4, CallEnds
    <2>6. Calls(select', [f EXCEPT ![x] = [pc |-> "done", net |-> n, selected |-> d, map |-> e]], Insert(e, n, d), o)
      BY <2>4, <2>5 DEF Calls
    <2> QED
      BY <2>1, <2>2, <2>3, <2>6 DEF Calls
  <1>4. SelectType'
    BY <1>2, <1>3 DEF SelectType
  <1>5. built = "ok" /\ built' = "ok"
    BY <1>1 DEF SelectInv
  <1>6. Shapes'
    BY <1>1, <1>5 DEF SelectInv, Shapes, Selectable
  <1>7. ASSUME ~select'.overlapped PROVE InTurn'
    <2>1. InTurn /\ Active(x)
      BY <1>1, <1>3, <1>5, <1>7 DEF SelectInv, Active
    <2>2. \A y \in Callers : ~(Active(y))'
      BY <1>3, <2>1 DEF Active, InTurn
    <2>3. \A y \in Callers : select'.call[y].pc # "write"
      BY <1>3, <2>1 DEF Active, InTurn
    <2>4. select.call[x].map = select.stored
      BY <1>1, <2>1 DEF InTurn
    <2>5. ASSUME NEW n, Selectable(n) PROVE Agrees(n)'
      <3>1. Running(n)' = Running(n)
        BY <1>1 DEF Running
      <3>2. CASE n = select.call[x].net
        <4>1. Running(n) = select.call[x].selected
          BY <2>1, <2>5, <3>2 DEF InTurn
        <4>2. n \in DOMAIN select'.stored /\ select'.stored[n] = select.call[x].selected
          BY <1>3, <3>2 DEF Insert
        <4> QED
          BY <3>1, <4>1, <4>2 DEF Agrees
      <3>3. CASE n # select.call[x].net
        <4>1. Agrees(n)
          BY <2>1, <2>5, <3>3 DEF InTurn
        <4>2. /\ n \in DOMAIN select'.stored <=> n \in DOMAIN select.stored
              /\ n \in DOMAIN select.stored => select'.stored[n] = select.stored[n]
          BY <1>3, <2>4, <3>3 DEF Insert
        <4> QED
          BY <1>1, <3>1, <4>1, <4>2 DEF Agrees
      <3> QED
        BY <3>2, <3>3
    <2>6. \A n : Selectable(n)' = Selectable(n)
      BY <1>1 DEF Selectable
    <2> QED
      BY <2>2, <2>3, <2>5, <2>6 DEF InTurn
  <1> QED
    BY <1>4, <1>5, <1>6, <1>7 DEF SelectInv

\* A net that is changed keeps the shape of a selection, with the new one first.
LEMMA Reselected ==
    ASSUME NEW net, NEW read, SelectShape(net, read), NEW selected, NEW new,
           new = [net EXCEPT !.refs[1] = Name(selected)]
    PROVE  SelectShape(new, read) /\ new.refs[1].name = selected
  <1>1. /\ net = [type |-> "select", opt |-> net.opt, refs |-> net.refs, rule |-> net.rule]
        /\ IsSeq(net.refs) /\ 1 \in 1..Len(net.refs)
    BY DEF SelectShape
  <1>2. new = [type |-> "select", opt |-> net.opt, refs |-> [net.refs EXCEPT ![1] = Name(selected)], rule |-> net.rule]
    <2>1. new = [net EXCEPT !.refs = [net.refs EXCEPT ![1] = Name(selected)]]
      OBVIOUS
    <2>2. net = [type |-> net.type, opt |-> net.opt, refs |-> net.refs, rule |-> net.rule] /\ net.type = "select"
      BY <1>1
    <2>3. new = [type |-> net.type, opt |-> net.opt, refs |-> [net.refs EXCEPT ![1] = Name(selected)], rule |-> net.rule]
      BY <2>1, <2>2, NewRefs
    <2> QED
      BY <2>2, <2>3
  <1>3. PICK q : q = net.refs
    OBVIOUS
  <1>4. /\ IsSeq([q EXCEPT ![1] = Name(selected)]) /\ Len([q EXCEPT ![1] = Name(selected)]) = Len(q)
        /\ [q EXCEPT ![1] = Name(selected)][1] = Name(selected)
    BY <1>1, <1>3, ReplaceSeq
  <1>5. IsSeq(new.refs) /\ Len(new.refs) = Len(net.refs) /\ new.refs[1] = Name(selected)
    BY <1>2, <1>3, <1>4
  <1>6. new = [type |-> "select", opt |-> new.opt, refs |-> new.refs, rule |-> new.rule]
    BY <1>2
  <1>7. new.refs[1].name = selected
    BY <1>5 DEF Name
  <1>8. 1 \in 1..Len(new.refs)
    BY <1>1, <1>5
  <1> QED
    BY <1>5, <1>6, <1>7, <1>8 DEF SelectShape

\* A call that finds no net to change, or changes it, begins; one that cannot be
\* applied is over.
Began(x, n, selected) ==
  [select EXCEPT !.call[x] = [pc |-> "read", net |-> n, selected |-> selected, map |-> <<>>],
                 !.overlapped = @ \/ \E y \in Callers : Active(y)]

\* The fields after a call of select_net began.
LEMMA BeganFields ==
    ASSUME SelectType, NEW x \in Callers, NEW n, NEW selected, select' = Began(x, n, selected)
    PROVE  /\ select'.stored = select.stored /\ DOMAIN select'.call = Callers
           /\ select'.overlapped = (select.overlapped \/ \E y \in Callers : Active(y))
           /\ select'.call[x] = [pc |-> "read", net |-> n, selected |-> selected, map |-> <<>>]
           /\ \A y \in Callers : y # x => select'.call[y] = select.call[y]
           /\ SelectType'
  <1>1. PICK f, st, o : f = select.call /\ st = select.stored /\ o = select.overlapped
    OBVIOUS
  <1>2. select = [call |-> f, stored |-> st, overlapped |-> o] /\ DOMAIN f = Callers
    BY <1>1 DEF SelectType
  <1>3. PICK r, b : /\ r = [pc |-> "read", net |-> n, selected |-> selected, map |-> <<>>]
                    /\ b = (o \/ \E y \in Callers : Active(y))
    OBVIOUS
  <1>4. select' = [call |-> [f EXCEPT ![x] = r], stored |-> st, overlapped |-> b]
    BY <1>1, <1>2, <1>3 DEF Began
  <1>5. /\ select'.stored = st /\ select'.overlapped = b /\ select'.call = [f EXCEPT ![x] = r]
        /\ select' = [call |-> select'.call, stored |-> select'.stored, overlapped |-> select'.overlapped]
    BY <1>4
  <1>6. /\ DOMAIN select'.call = Callers /\ select'.call[x] = r
        /\ \A y \in Callers : y # x => select'.call[y] = f[y]
    BY <1>2, <1>5
  <1>7. r = [pc |-> r.pc, net |-> r.net, selected |-> r.selected, map |-> r.map] /\ r.pc = "read"
    BY <1>3
  <1>8. b \in BOOLEAN
    BY <1>1, <1>3 DEF SelectType
  <1>9. SelectType'
    BY <1>1, <1>5, <1>6, <1>7, <1>8 DEF SelectType
  <1> QED
    BY <1>1, <1>3, <1>5, <1>6, <1>9

\* A call that began, after which the nets are the same but for the one it changed.
LEMMA SelectInvBegins ==
    ASSUME SelectInv, ConfType, built = "ok", built' = "ok", NEW x \in Callers, NEW n, NEW selected,
           select.call[x].pc = "idle", select' = Began(x, n, selected),
           conf'.read = conf.read, DOMAIN cache' = DOMAIN cache,
           \A m : Selectable(m) => m \in DOMAIN conf'.nets /\ SelectShape(conf'.nets[m], conf.read.nets[m]),
           \A m : Selectable(m) /\ m # n => conf'.nets[m] = conf.nets[m],
           Selectable(n) => conf'.nets[n].refs[1].name = selected
    PROVE  SelectInv'
  <1>1. /\ select'.stored = select.stored /\ DOMAIN select'.call = Callers
        /\ select'.overlapped = (select.overlapped \/ \E y \in Callers : Active(y))
        /\ select'.call[x] = [pc |-> "read", net |-> n, selected |-> selected, map |-> <<>>]
        /\ \A y \in Callers : y # x => select'.call[y] = select.call[y]
        /\ SelectType'
    BY BeganFields DEF SelectInv
  <1>2. \A m : Selectable(m)' = Selectable(m)
    BY DEF Selectable
  <1>3. Shapes'
    BY <1>2 DEF Shapes
  <1>4. ASSUME ~select'.overlapped PROVE InTurn'
    <2>1. InTurn /\ \A y \in Callers : ~Active(y)
      BY <1>1, <1>4 DEF SelectInv
    <2>2. \A y \in Callers : (Active(y))' <=> y = x
      BY <1>1, <2>1 DEF Active
    <2>3. \A y \in Callers : select'.call[y].pc # "write"
      BY <1>1, <2>1 DEF Active
    <2>4. ASSUME NEW m, Selectable(m), m # n PROVE Agrees(m)'
      <3>1. Agrees(m)
        BY <2>1, <2>4 DEF InTurn
      <3>2. conf'.nets[m] = conf.nets[m]
        BY <2>4
      <3> QED
        BY <1>1, <3>1, <3>2 DEF Agrees, Running
    <2>5. select'.call[x].net = n /\ select'.call[x].selected = selected
      BY <1>1
    <2>6. Selectable(n) => Running(n)' = selected
      BY DEF Running
    <2> QED
      BY <1>2, <2>2, <2>3, <2>4, <2>5, <2>6 DEF InTurn
  <1> QED
    BY <1>1, <1>3, <1>4 DEF SelectInv

\* update_net keeps the invariant.
LEMMA SelectInvUpdate ==
    ASSUME BuildInv, SelectInv, NEW x \in Callers, NEW n, NEW selected, UpdateNet(x, n, selected)
    PROVE  SelectInv'
  <1>1. built = "ok" /\ built' = "ok" /\ ConfType /\ select.call[x].pc = "idle" /\ Shapes /\ SelectType
    BY DEF UpdateNet, BuildInv, SelectInv
  <1>2. PICK new : /\ new = IF conf.nets[n].type = "select" THEN [conf.nets[n] EXCEPT !.refs[1] = Name(selected)]
                            ELSE conf.nets[n]
                   /\ \/ n \notin DOMAIN cache /\ select' = Began(x, n, selected) /\ UNCHANGED <<conf, cache>>
                      \/ /\ n \in DOMAIN cache
                         /\ conf' = [conf EXCEPT !.nets[n] = new]
                         /\ cache' = [cache EXCEPT ![n] = new]
                         /\ select' = Began(x, n, selected)
                      \/ select' = Goes(x, "done") /\ UNCHANGED <<conf, cache>>
    BY DEF UpdateNet, Replaced, Began
  <1>3. CASE n \notin DOMAIN cache /\ select' = Began(x, n, selected) /\ UNCHANGED <<conf, cache>>
    <2>1. ~Selectable(n)
      BY <1>3 DEF Selectable
    <2> QED
      BY <1>1, <1>3, <2>1, SelectInvBegins DEF Shapes
  <1>4. CASE /\ n \in DOMAIN cache
             /\ conf' = [conf EXCEPT !.nets[n] = new]
             /\ cache' = [cache EXCEPT ![n] = new]
             /\ select' = Began(x, n, selected)
    <2>1. conf' = [nets |-> [conf.nets EXCEPT ![n] = new], servers |-> conf.servers, read |-> conf.read]
      BY <1>1, <1>4 DEF ConfType
    <2>2. conf'.read = conf.read /\ conf'.nets = [conf.nets EXCEPT ![n] = new] /\ DOMAIN cache' = DOMAIN cache
      BY <1>4, <2>1
    <2>3. \A m : Selectable(m) /\ m # n => conf'.nets[m] = conf.nets[m] /\ m \in DOMAIN conf'.nets
      BY <1>1, <2>2 DEF Shapes
    <2>4. ASSUME Selectable(n)
          PROVE  /\ n \in DOMAIN conf'.nets /\ SelectShape(conf'.nets[n], conf.read.nets[n])
                 /\ conf'.nets[n].refs[1].name = selected
      <3>1. n \in DOMAIN conf.nets /\ SelectShape(conf.nets[n], conf.read.nets[n])
        BY <1>1, <2>4 DEF Shapes
      <3>2. conf.nets[n].type = "select"
        BY <3>1 DEF SelectShape
      <3>3. new = [conf.nets[n] EXCEPT !.refs[1] = Name(selected)]
        BY <1>2, <3>2
      <3>4. SelectShape(new, conf.read.nets[n]) /\ new.refs[1].name = selected
        BY <3>1, <3>3, Reselected
      <3> QED
        BY <2>2, <3>1, <3>4
    <2>5. \A m : Selectable(m) => m \in DOMAIN conf'.nets /\ SelectShape(conf'.nets[m], conf.read.nets[m])
      BY <1>1, <2>3, <2>4 DEF Shapes
    <2> QED
      BY <1>1, <1>4, <2>2, <2>3, <2>4, <2>5, SelectInvBegins
  <1>5. CASE select' = Goes(x, "done") /\ UNCHANGED <<conf, cache>>
    <2>1. /\ select'.stored = select.stored /\ select'.overlapped = select.overlapped
          /\ DOMAIN select'.call = Callers
          /\ select'.call[x] = [pc |-> "done", net |-> select.call[x].net,
                                selected |-> select.call[x].selected, map |-> select.call[x].map]
          /\ \A y \in Callers : y # x => select'.call[y] = select.call[y]
          /\ select' = [call |-> select'.call, stored |-> select'.stored, overlapped |-> select'.overlapped]
      <3>1. PICK f, st, o : f = select.call /\ st = select.stored /\ o = select.overlapped
        OBVIOUS
      <3>2. PICK a, m, d, e : a = f[x].pc /\ m = f[x].net /\ d = f[x].selected /\ e = f[x].map
        OBVIOUS
      <3>3. Calls(select, f, st, o) /\ CallOf(f[x], a, m, d, e) /\ DOMAIN f = Callers
        BY <1>1, <3>1, <3>2 DEF SelectType, Calls, CallOf
      <3>4. Ends(select, select', x)
        BY <1>5 DEF Ends, Goes
      <3>5. Calls(select', [f EXCEPT ![x] = [pc |-> "done", net |-> m, selected |-> d, map |-> e]], st, o)
        BY <3>3, <3>4, CallEnds
      <3> QED
        BY <3>1, <3>2, <3>3, <3>5 DEF Calls
    <2>2. SelectType'
      BY <1>1, <2>1 DEF SelectType
    <2>3. Shapes'
      BY <1>1, <1>5 DEF Shapes, Selectable
    <2>4. ASSUME ~select'.overlapped PROVE InTurn'
      <3>1. InTurn
        BY <1>1, <2>1, <2>4 DEF SelectInv
      <3>2. \A y \in Callers : (Active(y))' <=> Active(y)
        BY <1>1, <2>1 DEF Active
      <3>3. \A y \in Callers : Active(y) => y # x /\ select'.call[y] = select.call[y]
        BY <1>1, <2>1 DEF Active
      <3>4. \A y \in Callers : select'.call[y].pc = "write" => Active(y) /\ select.call[y].pc = "write"
        BY <2>1 DEF Active
      <3>5. \A m : Selectable(m)' = Selectable(m) /\ Running(m)' = Running(m) /\ Agrees(m)' = Agrees(m)
        BY <1>5, <2>1 DEF Selectable, Running, Agrees
      <3> QED
        BY <2>1, <3>1, <3>2, <3>3, <3>4, <3>5 DEF InTurn
    <2> QED
      BY <1>1, <2>2, <2>3, <2>4 DEF SelectInv
  <1> QED
    BY <1>2, <1>3, <1>4, <1>5

\* Every step keeps the invariant.
LEMMA SelectInvNext ==
    ASSUME BuildInv, SelectInv, [BuildNext]_buildVars
    PROVE  SelectInv'
  <1>1. CASE BuildStep
    BY <1>1, SelectInvBuild
  <1>2. CASE \E x \in Callers : \E p \in Selections : UpdateNet(x, p[1], p[2])
    BY <1>2, SelectInvUpdate
  <1>3. CASE \E x \in Callers : FromCache(x)
    BY <1>3, SelectInvRead
  <1>4. CASE \E x \in Callers : WriteCache(x)
    BY <1>4, SelectInvWrite
  <1>5. CASE UNCHANGED buildVars
    BY <1>5 DEF buildVars, SelectInv, SelectType, Shapes, Selectable, InTurn, Active, Running, Agrees
  <1> QED
    BY <1>1, <1>2, <1>3, <1>4, <1>5 DEF BuildNext

\* select_net changes the running net and stores the selection in steps of its own:
\* once no call is under way, and none overlapped another, what SelectMap::apply makes
\* of the configuration as it was read is what runs.
THEOREM SelectionsSurvive == BuildSpec => []SelectionSurvives
  <1>1. SelectInv => SelectionSurvives
    <2> SUFFICES ASSUME SelectInv, built = "ok", ~select.overlapped, \A x \in Callers : ~Active(x),
                        NEW n \in DOMAIN conf.read.nets \cap DOMAIN cache,
                        conf.read.nets[n].type = "select", Running(n) \in ListOf(conf.read.nets[n])
                 PROVE  ApplySelectMap(select.stored, conf.read.nets)[n].refs[1].name = Running(n)
      BY DEF SelectionSurvives
    <2>1. Selectable(n) /\ Agrees(n) /\ SelectShape(conf.nets[n], conf.read.nets[n])
      BY DEF SelectInv, InTurn, Shapes, Selectable
    <2>2. PICK read : read = conf.read.nets[n]
      OBVIOUS
    <2>3. CASE n \in DOMAIN select.stored
      <3>1. Running(n) = select.stored[n]
        BY <2>1, <2>3 DEF Agrees
      <3>2. ApplySelectMap(select.stored, conf.read.nets)[n] = [read EXCEPT !.refs[1] = Name(Running(n))]
        BY <2>2, <2>3, <3>1 DEF ApplySelectMap
      <3>3. SelectShape(read, read)
        BY <2>1, <2>2 DEF SelectShape
      <3> QED
        BY <3>2, <3>3, Reselected
    <2>4. CASE n \notin DOMAIN select.stored
      <3>1. ApplySelectMap(select.stored, conf.read.nets)[n] = read
        BY <2>2, <2>4 DEF ApplySelectMap
      <3> QED
        BY <2>1, <2>2, <2>4, <3>1 DEF Agrees, AsRead, Running
    <2> QED
      BY <2>3, <2>4
  <1> QED
    BY <1>1, BuildInvInit, BuildInvNext, SelectInvInit, SelectInvNext, PTL DEF BuildSpec
=============================================================================
