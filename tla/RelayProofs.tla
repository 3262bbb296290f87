---------------------------- MODULE RelayProofs ----------------------------
(* Proofs about what moves a connection's bytes: UDP forwarding, for every    *)
(* table capacity, channel and buffer size, time to live, number of sessions  *)
(* and sequence of packets; the TCP relay (TcpRelay) and the SNI sniffer      *)
(* (SniSniffer), for every number of bytes the two ends exchange, every       *)
(* buffer size and every client hello.                                        *)
(* A session of UDP forwarding is changed by one step at a time, so the       *)
(* argument is about one session: what its buffers look like (Shape), which   *)
(* wakers it has when it sleeps (Wakeful), in which order its packets stand   *)
(* (Ordered).  The other two balance the bytes that entered a stream against  *)
(* the places where they can be.                                              *)
EXTENDS UdpForward, TcpRelay, SniSniffer, FiniteSetTheorems, WellFoundedInduction, TLAPS

CONSTANT Clients    \* addresses of clients

PacketType == [from : Clients, id : Nat \ {0}, good : BOOLEAN]
Kinds == {"raw", "ss", "tproxy", "forward"}

\* Packets are numbered in the order they come.
InOrder(ps) == \A j, k \in 1..Len(ps) : j < k => ps[j].id < ps[k].id
UdpStart == \E kind \in Kinds, packets \in Seq(PacketType) :
              InOrder(packets) /\ UdpInit(kind, packets)
UdpSpec == UdpStart /\ [][UdpNext]_udpVars

-----------------------------------------------------------------------------
(* The inductive invariant.                                                  *)
FwdType == [kind : Kinds, state : {"run", "ended"}, inbox : Seq(PacketType), filled : Seq(Nat),
            resolved : BOOLEAN, stale : BOOLEAN, back : Seq(Nat), slot : Nat, replies : Nat]
EntryType == [client : Clients, id : Nat, idle : Nat]
Ids == Nat \ {0}
BufType == [pool : Int, queue : Seq(Nat), pc : {"fill", "drain", "wait"},
            reg : SUBSET {"in", "out"}]
SessType == [client : Clients, phase : {"bind", "copy", "ended"}, aborted : BOOLEAN,
             conn : {"idle", "plain", "binding", "bound", "failed"}, writable : BOOLEAN,
             in : [send : Seq(Ids), recv : Seq(Ids)], last : Nat, times : Nat,
             buf : [Dirs -> BufType]]
UdpTypeOK == fwd \in FwdType /\ table \in Seq(EntryType) /\ sess \in Seq(SessType)

\* Only the packet at the back of a queue may be unfilled.
Shape(b) == \A k \in 1..Len(b.queue) : k < Len(b.queue) => b.queue[k] # Unfilled
\* A direction waits for its writer, having a packet for it, or for its reader,
\* having none to pass on.
Waits(b) == /\ b.pc = "fill" => b.reg = {}
            /\ b.pc = "drain" => "out" \notin b.reg
            /\ b.pc = "wait" => \/ "out" \in b.reg /\ FrontFilled(b)
                                \/ "in" \in b.reg /\ ~FrontFilled(b)
Wakeful(s) == \A d \in Dirs : Waits(s.buf[d])
Rising(q) == \A j, k \in 1..Len(q) : j < k => q[j] < q[k]
Ordered(s) == LET q == Queued(s) IN
              /\ Rising(q)
              /\ q # <<>> => s.last < q[1] \/ (s.conn = "bound" /\ s.last = q[1] /\ s.times = 1)
              /\ s.times <= IF s.conn = "bound" THEN 2 ELSE 1
Sound(s) == Shape(s.buf["send"]) /\ Wakeful(s) /\ Ordered(s)

\* All a session has seen is older than packet n.
Below(s, n) == s.last < n /\ \A k \in 1..Len(Queued(s)) : Queued(s)[k] < n
Coming == /\ InOrder(fwd.inbox)
          /\ \A i \in 1..Len(sess), m \in 1..Len(fwd.inbox) : Below(sess[i], fwd.inbox[m].id)

Owned == SessionsOwned /\ \A k \in 1..Len(table) : table[k].id \in 1..Len(sess)
UdpInv == UdpTypeOK /\ Owned /\ Coming /\ \A i \in 1..Len(sess) : Sound(sess[i])

-----------------------------------------------------------------------------
(* Sequences and CopyBuffers.                                                *)
LEMMA SameSeq ==
  ASSUME NEW S, NEW s \in Seq(S), NEW t \in Seq(S), Len(s) = Len(t),
         \A k \in 1..Len(s) : s[k] = t[k]
  PROVE  s = t
OBVIOUS

\* The elements of a sequence with one more, and of two sequences put together.
LEMMA AppendParts ==
  ASSUME NEW S, NEW q \in Seq(S), NEW x \in S
  PROVE  /\ Append(q, x) \in Seq(S) /\ Len(Append(q, x)) = Len(q) + 1 /\ Append(q, x) # <<>>
         /\ Append(q, x)[Len(q) + 1] = x /\ \A k \in 1..Len(q) : Append(q, x)[k] = q[k]
OBVIOUS

LEMMA ConcatParts ==
  ASSUME NEW S, NEW a \in Seq(S), NEW b \in Seq(S)
  PROVE  /\ a \o b \in Seq(S) /\ Len(a \o b) = Len(a) + Len(b)
         /\ \A k \in 1..Len(a) + Len(b) : (a \o b)[k] = IF k <= Len(a) THEN a[k] ELSE b[k - Len(a)]
OBVIOUS

LEMMA MoveHead ==
  ASSUME NEW S, NEW F \in Seq(S), NEW G \in Seq(S), G # <<>>
  PROVE  Append(F, Head(G)) \o Tail(G) = F \o G
OBVIOUS

LEMMA TailOfBoth ==
  ASSUME NEW S, NEW F \in Seq(S), NEW G \in Seq(S), F # <<>>
  PROVE  Tail(F) \o G = Tail(F \o G) /\ F \o G # <<>> /\ Head(F \o G) = Head(F)
OBVIOUS

LEMMA FrontSeq ==
  ASSUME NEW S, NEW q \in Seq(S), q # <<>>
  PROVE  /\ Front(q) \in Seq(S) /\ Len(Front(q)) = Len(q) - 1
         /\ \A k \in 1..Len(q) - 1 : Front(q)[k] = q[k]
BY DEF Front

LEMMA FilledSeq ==
  ASSUME NEW b \in BufType, Shape(b)
  PROVE  /\ FilledOf(b) \in Seq(Ids)
         /\ Len(FilledOf(b)) = IF BackIsUnfilled(b) THEN Len(b.queue) - 1 ELSE Len(b.queue)
         /\ \A k \in 1..Len(FilledOf(b)) : FilledOf(b)[k] = b.queue[k]
<1>1. b.queue \in Seq(Nat)
  BY DEF BufType
<1>2. CASE BackIsUnfilled(b)
  <2>1. b.queue # <<>> /\ FilledOf(b) = Front(b.queue)
    BY <1>2 DEF BackIsUnfilled, FilledOf
  <2>2. /\ Front(b.queue) \in Seq(Nat) /\ Len(Front(b.queue)) = Len(b.queue) - 1
        /\ \A k \in 1..Len(b.queue) - 1 : Front(b.queue)[k] = b.queue[k]
    BY <1>1, <2>1, FrontSeq
  <2>3. \A k \in 1..Len(Front(b.queue)) : Front(b.queue)[k] \in Ids
    <3> TAKE k \in 1..Len(Front(b.queue))
    <3>1. k \in 1..Len(b.queue) /\ k < Len(b.queue)
      BY <1>1, <2>1, <2>2
    <3>2. b.queue[k] \in Nat /\ b.queue[k] # Unfilled
      BY <1>1, <3>1 DEF Shape
    <3> QED
      BY <2>2, <3>1, <3>2 DEF Ids, Unfilled
  <2> QED
    BY <1>2, <2>1, <2>2, <2>3
<1>3. CASE ~BackIsUnfilled(b)
  <2>1. FilledOf(b) = b.queue
    BY <1>3 DEF FilledOf
  <2>2. \A k \in 1..Len(b.queue) : b.queue[k] \in Ids
    BY <1>1, <1>3 DEF Shape, Ids, Unfilled, BackIsUnfilled, Last
  <2> QED
    BY <1>1, <1>3, <2>1, <2>2
<1> QED
  BY <1>2, <1>3

LEMMA Borrowed ==
  ASSUME NEW b \in BufType, CanBorrowBack(b)
  PROVE  /\ BorrowBack(b) \in BufType /\ BackIsUnfilled(BorrowBack(b))
         /\ BorrowBack(b).pc = b.pc /\ BorrowBack(b).reg = b.reg
         /\ Shape(b) => Shape(BorrowBack(b)) /\ FilledOf(BorrowBack(b)) = FilledOf(b)
<1> DEFINE n == BorrowBack(b)
<1>1. b.queue \in Seq(Nat) /\ b.pool \in Int
  BY DEF BufType
<1>2. CASE BackIsUnfilled(b)
  BY <1>2 DEF BorrowBack
<1>3. CASE ~BackIsUnfilled(b)
  <2>1. Grown(b) \in BufType /\ Grown(b).queue = b.queue /\ Grown(b).pc = b.pc /\ Grown(b).reg = b.reg
    <3>1. Smaller(MaxBuffer, 2 * Len(b.queue)) - Len(b.queue) \in Int
      BY <1>1, UdpAssumption DEF Smaller
    <3> QED
      BY <3>1 DEF Grown, BufType
  <2>2. n = [Grown(b) EXCEPT !.pool = @ - 1, !.queue = Append(@, Unfilled)]
    BY <1>3 DEF BorrowBack
  <2>3. n \in BufType /\ n.queue = Append(b.queue, 0) /\ n.pc = b.pc /\ n.reg = b.reg
    <3>1. Grown(b).pool - 1 \in Int /\ Append(Grown(b).queue, 0) \in Seq(Nat)
      BY <1>1, <2>1 DEF BufType
    <3> QED
      BY <2>1, <2>2, <3>1 DEF BufType, Unfilled
  <2> HIDE DEF n
  <2>4. /\ Len(n.queue) = Len(b.queue) + 1 /\ n.queue # <<>>
        /\ n.queue[Len(n.queue)] = 0 /\ \A k \in 1..Len(b.queue) : n.queue[k] = b.queue[k]
    <3> DEFINE q == b.queue
    <3>1. q \in Seq(Nat) /\ n.queue = Append(q, 0)
      BY <2>3 DEF BufType
    <3> HIDE DEF q
    <3>2. /\ Len(n.queue) = Len(q) + 1 /\ n.queue # <<>> /\ n.queue[Len(q) + 1] = 0
          /\ \A k \in 1..Len(q) : n.queue[k] = q[k]
      BY <3>1, AppendParts
    <3> QED
      BY <3>2 DEF q
  <2>5. BackIsUnfilled(n)
    BY <2>4 DEF BackIsUnfilled, Last, Unfilled
  <2>6. ASSUME Shape(b) PROVE Shape(n) /\ FilledOf(n) = FilledOf(b)
    <3>1. \A k \in 1..Len(b.queue) : b.queue[k] # Unfilled
      BY <1>1, <1>3, <2>6 DEF Shape, BackIsUnfilled, Last
    <3>2. Shape(n)
      BY <1>1, <2>4, <3>1, SMTT(30) DEF Shape
    <3>3. FilledOf(n) = Front(n.queue) /\ FilledOf(b) = b.queue
      BY <1>3, <2>5 DEF FilledOf
    <3>4. Front(n.queue) = b.queue
      <4>1. /\ Front(n.queue) \in Seq(Nat) /\ Len(Front(n.queue)) = Len(n.queue) - 1
            /\ \A k \in 1..Len(n.queue) - 1 : Front(n.queue)[k] = n.queue[k]
        <5>1. n.queue \in Seq(Nat) /\ n.queue # <<>>
          BY <2>3, <2>4 DEF BufType
        <5> QED
          BY <5>1, FrontSeq
      <4>2. Len(Front(n.queue)) = Len(b.queue) /\ \A k \in 1..Len(b.queue) : Front(n.queue)[k] = b.queue[k]
        BY <1>1, <2>4, <4>1
      <4> QED
        BY <1>1, <4>1, <4>2, SameSeq
    <3> QED
      BY <3>2, <3>3, <3>4
  <2> QED
    BY <2>3, <2>5, <2>6 DEF n
<1> QED
  BY <1>2, <1>3

LEMMA FilledBuffer ==
  ASSUME NEW b \in BufType, CanBorrowBack(b), NEW p \in Ids
  PROVE  /\ Filled(b, p) \in BufType
         /\ Filled(b, p).pc = b.pc /\ Filled(b, p).reg = b.reg
         /\ Shape(b) => Shape(Filled(b, p)) /\ FilledOf(Filled(b, p)) = Append(FilledOf(b), p)
<1> DEFINE n == BorrowBack(b)
           f == Filled(b, p)
<1>1. /\ n \in BufType /\ BackIsUnfilled(n) /\ n.pc = b.pc /\ n.reg = b.reg
      /\ Shape(b) => Shape(n) /\ FilledOf(n) = FilledOf(b)
  BY Borrowed
<1>2. f = [n EXCEPT !.queue[Len(n.queue)] = p]
  BY DEF Filled
<1> HIDE DEF n, f
<1>3. n.queue \in Seq(Nat) /\ n.queue # <<>> /\ Len(n.queue) \in 1..Len(n.queue)
  BY <1>1 DEF BufType, BackIsUnfilled
<1>4. /\ f.queue = [n.queue EXCEPT ![Len(n.queue)] = p]
      /\ f \in BufType /\ f.pc = n.pc /\ f.reg = n.reg
  <2>1. [n.queue EXCEPT ![Len(n.queue)] = p] \in Seq(Nat)
    BY <1>3 DEF Ids
  <2> QED
    BY <1>1, <1>2, <2>1 DEF BufType
<1>5. /\ Len(f.queue) = Len(n.queue) /\ f.queue[Len(n.queue)] = p /\ f.queue \in Seq(Nat)
      /\ \A k \in 1..Len(n.queue) : k < Len(n.queue) => f.queue[k] = n.queue[k]
  BY <1>3, <1>4 DEF BufType
<1>6. ASSUME Shape(b) PROVE Shape(f) /\ FilledOf(f) = Append(FilledOf(b), p)
  <2>1. Shape(f)
    BY <1>1, <1>5, <1>6 DEF Shape
  <2>2. ~BackIsUnfilled(f)
    BY <1>5 DEF BackIsUnfilled, Last, Ids, Unfilled
  <2>3. FilledOf(f) = f.queue
    BY <2>2 DEF FilledOf
  <2>4. /\ FilledOf(n) \in Seq(Ids) /\ Len(FilledOf(n)) = Len(n.queue) - 1
        /\ \A k \in 1..Len(FilledOf(n)) : FilledOf(n)[k] = n.queue[k]
    BY <1>1, <1>6, FilledSeq
  <2>5. /\ Append(FilledOf(n), p) \in Seq(Ids) /\ Len(Append(FilledOf(n), p)) = Len(n.queue)
        /\ \A k \in 1..Len(n.queue) : Append(FilledOf(n), p)[k] = f.queue[k]
    <3> DEFINE F == FilledOf(n)
    <3>1. F \in Seq(Ids) /\ Len(F) + 1 = Len(n.queue) /\ Len(F) \in Nat
      BY <1>3, <2>4
    <3>2. Append(F, p) \in Seq(Ids) /\ Len(Append(F, p)) = Len(n.queue)
      BY <3>1
    <3>3. \A k \in 1..Len(n.queue) : Append(F, p)[k] = f.queue[k]
      <4> TAKE k \in 1..Len(n.queue)
      <4>1. CASE k = Len(n.queue)
        BY <1>5, <3>1, <4>1
      <4>2. CASE k # Len(n.queue)
        <5>1. k \in 1..Len(F) /\ k < Len(n.queue)
          <6> DEFINE m == Len(n.queue)  l == Len(F)
          <6>1. l + 1 = m /\ l \in Nat /\ k \in 1..m /\ k # m
            BY <3>1, <4>2
          <6> HIDE DEF m, l
          <6>2. k \in 1..l /\ k < m
            BY <6>1
          <6> QED
            BY <6>2 DEF m, l
        <5>2. Append(F, p)[k] = F[k]
          <6> HIDE DEF F
          <6> QED
            BY <3>1, <5>1
        <5>3. F[k] = n.queue[k] /\ f.queue[k] = n.queue[k]
          BY <1>5, <2>4, <5>1
        <5> QED
          BY <5>2, <5>3
      <4> QED
        BY <4>1, <4>2
    <3> QED
      BY <3>2, <3>3
  <2>6. f.queue = Append(FilledOf(n), p)
    <3>1. Append(FilledOf(n), p) \in Seq(Nat)
      BY <2>5 DEF Ids
    <3> QED
      BY <1>5, <2>5, <3>1, SameSeq
  <2> QED
    BY <1>1, <1>6, <2>1, <2>3, <2>6
<1> QED
  BY <1>1, <1>4, <1>6 DEF f

LEMMA Popped ==
  ASSUME NEW b \in BufType, FrontFilled(b)
  PROVE  /\ PopFront(b) \in BufType
         /\ PopFront(b).pc = b.pc /\ PopFront(b).reg = b.reg
         /\ Shape(b) => /\ Shape(PopFront(b)) /\ FilledOf(PopFront(b)) = Tail(FilledOf(b))
                        /\ FilledOf(b) # <<>> /\ Head(FilledOf(b)) = Head(b.queue)
<1> DEFINE f == PopFront(b)
<1>1. b.queue \in Seq(Nat) /\ b.queue # <<>> /\ b.queue[1] # Unfilled /\ Len(b.queue) >= 1
  BY DEF BufType, FrontFilled
<1>2. f \in BufType /\ f.queue = Tail(b.queue) /\ f.pc = b.pc /\ f.reg = b.reg
  <2>1. Tail(b.queue) \in Seq(Nat) /\ b.pool + 1 \in Int
    BY <1>1 DEF BufType
  <2> QED
    BY <2>1 DEF PopFront, BufType
<1> HIDE DEF f
<1>3. /\ Len(f.queue) = Len(b.queue) - 1 /\ f.queue \in Seq(Nat)
      /\ \A k \in 1..Len(f.queue) : f.queue[k] = b.queue[k + 1]
  BY <1>1, <1>2
<1>4. ASSUME Shape(b) PROVE /\ Shape(f) /\ FilledOf(f) = Tail(FilledOf(b))
                            /\ FilledOf(b) # <<>> /\ Head(FilledOf(b)) = Head(b.queue)
  <2>1. Shape(f)
    <3> SUFFICES ASSUME NEW k \in 1..Len(f.queue), k < Len(f.queue) PROVE f.queue[k] # Unfilled
      BY DEF Shape
    <3>1. k + 1 \in 1..Len(b.queue) /\ k + 1 < Len(b.queue)
      BY <1>1, <1>3
    <3> QED
      BY <1>3, <1>4, <3>1 DEF Shape
  <2>2. /\ FilledOf(b) \in Seq(Ids)
        /\ Len(FilledOf(b)) = IF BackIsUnfilled(b) THEN Len(b.queue) - 1 ELSE Len(b.queue)
        /\ \A k \in 1..Len(FilledOf(b)) : FilledOf(b)[k] = b.queue[k]
    BY <1>4, FilledSeq
  <2>3. /\ FilledOf(f) \in Seq(Ids)
        /\ Len(FilledOf(f)) = IF BackIsUnfilled(f) THEN Len(f.queue) - 1 ELSE Len(f.queue)
        /\ \A k \in 1..Len(FilledOf(f)) : FilledOf(f)[k] = f.queue[k]
    BY <1>2, <2>1, FilledSeq
  <2>4. BackIsUnfilled(f) <=> BackIsUnfilled(b)
    <3>1. CASE Len(b.queue) = 1
      BY <1>1, <1>3, <3>1 DEF BackIsUnfilled, Last
    <3>2. CASE Len(b.queue) # 1
      <4>0. Len(b.queue) \in Nat /\ Len(f.queue) \in Nat /\ Len(f.queue) # 0
        BY <1>1, <1>3, <3>2
      <4>1. f.queue # <<>> /\ Len(f.queue) \in 1..Len(f.queue) /\ Len(f.queue) + 1 = Len(b.queue)
        <5>1. f.queue # <<>>
          BY <4>0
        <5>2. Len(f.queue) \in 1..Len(f.queue)
          BY <4>0
        <5>3. Len(f.queue) + 1 = Len(b.queue)
          BY <1>3, <4>0
        <5> QED
          BY <5>1, <5>2, <5>3
      <4>2. f.queue[Len(f.queue)] = b.queue[Len(b.queue)]
        BY <1>3, <4>1
      <4> QED
        BY <1>1, <4>1, <4>2 DEF BackIsUnfilled, Last
    <3> QED
      BY <3>1, <3>2, Zenon
  <2>5. Len(FilledOf(f)) = Len(FilledOf(b)) - 1 /\ Len(FilledOf(b)) >= 1
    BY <1>1, <1>3, <2>2, <2>3, <2>4 DEF BackIsUnfilled, Last
  <2>6. \A k \in 1..Len(FilledOf(f)) : FilledOf(f)[k] = FilledOf(b)[k + 1]
    BY <1>1, <1>3, <2>2, <2>3, <2>5
  <2>7. FilledOf(f) = Tail(FilledOf(b))
    <3> DEFINE F == FilledOf(f)  B == FilledOf(b)
    <3>1. F \in Seq(Ids) /\ B \in Seq(Ids) /\ Len(F) = Len(B) - 1 /\ Len(B) >= 1
          /\ \A k \in 1..Len(F) : F[k] = B[k + 1]
      BY <2>2, <2>3, <2>5, <2>6
    <3> HIDE DEF F, B
    <3>2. Tail(B) \in Seq(Ids) /\ Len(Tail(B)) = Len(F) /\ \A k \in 1..Len(F) : Tail(B)[k] = B[k + 1]
      BY <3>1
    <3>3. F = Tail(B)
      BY <3>1, <3>2
    <3> QED
      BY <3>3 DEF F, B
  <2>8. FilledOf(b) # <<>> /\ Head(FilledOf(b)) = Head(b.queue)
    BY <1>1, <2>2, <2>5
  <2> QED
    BY <2>1, <2>7, <2>8
<1> QED
  BY <1>2, <1>4 DEF f

-----------------------------------------------------------------------------
(* One session.                                                              *)
LEMMA SessFields ==
  ASSUME NEW s \in SessType
  PROVE  /\ s.buf["send"] \in BufType /\ s.buf["recv"] \in BufType
         /\ s.in["send"] \in Seq(Ids) /\ s.in["recv"] \in Seq(Ids)
         /\ s.in = [send |-> s.in["send"], recv |-> s.in["recv"]]
         /\ s.last \in Nat /\ s.times \in Nat
BY DEF SessType, Dirs

LEMMA QueuedSeq ==
  ASSUME NEW s \in SessType, Shape(s.buf["send"])
  PROVE  Queued(s) \in Seq(Ids)
<1>1. FilledOf(s.buf["send"]) \in Seq(Ids)
  BY SessFields, FilledSeq
<1>2. s.in.send \in Seq(Ids)
  BY SessFields
<1> QED
  BY <1>1, <1>2 DEF Queued

\* What is sent or kept of a rising queue is below what is to come.
LEMMA TailOrder ==
  ASSUME NEW q \in Seq(Ids), q # <<>>, Rising(q)
  PROVE  /\ Tail(q) \in Seq(Ids) /\ Rising(Tail(q))
         /\ Tail(q) # <<>> => q[1] < Tail(q)[1]
         /\ \A n \in Nat : (\A k \in 1..Len(q) : q[k] < n) =>
                              q[1] < n /\ \A k \in 1..Len(Tail(q)) : Tail(q)[k] < n
<1>1. /\ Tail(q) \in Seq(Ids) /\ Len(Tail(q)) = Len(q) - 1 /\ Len(q) \in Nat /\ Len(q) >= 1
      /\ \A k \in 1..Len(Tail(q)) : Tail(q)[k] = q[k + 1] /\ k + 1 \in 1..Len(q)
  OBVIOUS
<1>2. Rising(Tail(q))
  BY <1>1 DEF Rising
<1>3. ASSUME Tail(q) # <<>> PROVE q[1] < Tail(q)[1]
  <2>1. 1 \in 1..Len(Tail(q)) /\ 2 \in 1..Len(q) /\ 1 \in 1..Len(q) /\ Tail(q)[1] = q[2]
    BY <1>1, <1>3
  <2> QED
    BY <2>1 DEF Rising
<1> QED
  BY <1>1, <1>2, <1>3

LEMMA AppendOrder ==
  ASSUME NEW q \in Seq(Ids), Rising(q), NEW p \in Ids, \A k \in 1..Len(q) : q[k] < p
  PROVE  /\ Append(q, p) \in Seq(Ids) /\ Rising(Append(q, p)) /\ Append(q, p) # <<>>
         /\ Append(q, p)[1] = IF q = <<>> THEN p ELSE q[1]
         /\ \A n \in Nat : p < n => \A k \in 1..Len(Append(q, p)) : Append(q, p)[k] < n
<1> DEFINE a == Append(q, p)
<1>1. /\ a \in Seq(Ids) /\ Len(a) = Len(q) + 1 /\ Len(q) \in Nat /\ a # <<>>
      /\ a[Len(a)] = p /\ \A k \in 1..Len(q) : a[k] = q[k] /\ q[k] \in Ids
  <2>1. \A k \in 1..Len(q) : q[k] \in Ids
    OBVIOUS
  <2>2. a \in Seq(Ids) /\ Len(a) = Len(q) + 1 /\ Len(q) \in Nat
    OBVIOUS
  <2>3. Len(a) # 0 /\ a[Len(a)] = p
    <3>1. a[Len(q) + 1] = p
      OBVIOUS
    <3> HIDE DEF a
    <3> QED
      BY <2>2, <3>1
  <2>4. \A k \in 1..Len(q) : a[k] = q[k]
    OBVIOUS
  <2>5. a # <<>>
    BY <2>3
  <2> QED
    BY <2>1, <2>2, <2>3, <2>4, <2>5
<1>2. \A k \in 1..Len(a) : k \in 1..Len(q) \/ k = Len(a)
  BY <1>1
<1>3. a[1] = IF q = <<>> THEN p ELSE q[1]
  BY <1>1
<1> HIDE DEF a
<1>4. Rising(a)
  <2> SUFFICES ASSUME NEW j \in 1..Len(a), NEW k \in 1..Len(a), j < k PROVE a[j] < a[k]
    BY DEF Rising
  <2>1. j \in 1..Len(q) /\ a[j] = q[j]
    BY <1>1
  <2>2. CASE k \in 1..Len(q)
    BY <1>1, <2>1, <2>2 DEF Rising
  <2>3. CASE k = Len(a)
    BY <1>1, <2>1, <2>3
  <2> QED
    BY <1>2, <2>2, <2>3
<1>5. \A n \in Nat : p < n => \A k \in 1..Len(a) : a[k] < n
  BY <1>1, <1>2, SMTT(30) DEF Ids
<1> QED
  BY <1>1, <1>3, <1>4, <1>5 DEF a

\* t is what a step may make of session s.
Moves(s, t) == /\ t \in SessType /\ Sound(t)
               /\ \A n \in Nat : Below(s, n) => Below(t, n)
               /\ s.phase = "ended" \/ s.aborted => t.phase = "ended" \/ t.aborted

LEMMA SameQueueMoves ==
  ASSUME NEW s \in SessType, Sound(s), NEW t \in SessType,
         Shape(t.buf["send"]), Wakeful(t), Queued(t) = Queued(s),
         t.last = s.last, t.times = s.times, t.conn = "bound" <=> s.conn = "bound",
         s.phase = "ended" \/ s.aborted => t.phase = "ended" \/ t.aborted
  PROVE  Moves(s, t)
<1>1. Ordered(t)
  BY SessFields DEF Ordered, Sound
<1> QED
  BY <1>1 DEF Moves, Sound, Below

LEMMA BufferMoves ==
  ASSUME NEW s \in SessType, Sound(s), NEW d \in Dirs, NEW b \in BufType, Waits(b),
         d = "send" => Shape(b) /\ FilledOf(b) = FilledOf(s.buf["send"])
  PROVE  Moves(s, [s EXCEPT !.buf[d] = b])
<1> DEFINE t == [s EXCEPT !.buf[d] = b]
<1>1. s.buf \in [Dirs -> BufType]
  BY DEF SessType
<1>2. /\ t.buf = [s.buf EXCEPT ![d] = b] /\ t.in = s.in /\ t.last = s.last /\ t.times = s.times
      /\ t.conn = s.conn /\ t.phase = s.phase /\ t.aborted = s.aborted
  BY DEF SessType
<1>3. t.buf \in [Dirs -> BufType]
  BY <1>1, <1>2
<1>4. t \in SessType
  BY <1>1 DEF SessType
<1> HIDE DEF t
<1>5. Wakeful(t)
  BY <1>1, <1>2 DEF Wakeful, Sound
<1>6. /\ Shape(t.buf["send"])
      /\ FilledOf(t.buf["send"]) = FilledOf(s.buf["send"])
  BY <1>1, <1>2 DEF Sound, Dirs
<1>7. Queued(t) = Queued(s)
  BY <1>2, <1>6 DEF Queued
<1>8. Moves(s, t)
  BY <1>2, <1>4, <1>5, <1>6, <1>7, SameQueueMoves
<1> QED
  BY <1>8 DEF t

LEMMA NewBufferOK ==
  /\ NewBuffer \in BufType /\ Shape(NewBuffer) /\ Waits(NewBuffer) /\ FilledOf(NewBuffer) = <<>>
  /\ [d \in Dirs |-> NewBuffer] \in [Dirs -> BufType]
<1>1. NewBuffer \in BufType
  BY DEF NewBuffer, BufType
<1>2. Shape(NewBuffer) /\ Waits(NewBuffer)
  BY DEF NewBuffer, Shape, Waits
<1>3. FilledOf(NewBuffer) = <<>>
  BY DEF NewBuffer, FilledOf, BackIsUnfilled
<1> QED
  BY <1>1, <1>2, <1>3

\* A session whose buffers and channels are empty.
LEMMA EmptySession ==
  ASSUME NEW s \in SessType, NEW t \in SessType, Sound(s),
         t.buf = [d \in Dirs |-> NewBuffer], t.in = [send |-> <<>>, recv |-> <<>>],
         t.last = s.last, t.times = s.times, t.conn = "bound" <=> s.conn = "bound",
         s.phase = "ended" \/ s.aborted => t.phase = "ended" \/ t.aborted
  PROVE  Moves(s, t)
<1>1. t.buf["send"] = NewBuffer /\ Shape(t.buf["send"]) /\ Wakeful(t)
  BY NewBufferOK DEF Wakeful, Dirs
<1>2. Queued(t) = <<>>
  BY <1>1, NewBufferOK DEF Queued
<1>3. Ordered(t)
  BY <1>2, SessFields DEF Ordered, Rising, Sound
<1>4. \A n \in Nat : Below(s, n) => Below(t, n)
  BY <1>2 DEF Below
<1> QED
  BY <1>1, <1>3, <1>4 DEF Moves, Sound

LEMMA EndMoves ==
  ASSUME NEW s \in SessType, Sound(s)
  PROVE  /\ Moves(s, End(s))
         /\ s.conn # "bound" => Moves(s, [End(s) EXCEPT !.conn = "failed"])
<1>1. /\ End(s) \in SessType /\ End(s).buf = [d \in Dirs |-> NewBuffer]
      /\ End(s).in = [send |-> <<>>, recv |-> <<>>] /\ End(s).phase = "ended"
      /\ End(s).last = s.last /\ End(s).times = s.times /\ End(s).conn = s.conn
  <2> DEFINE B == [d \in Dirs |-> NewBuffer]
  <2>1. B \in [Dirs -> BufType] /\ [send |-> <<>>, recv |-> <<>>] \in [send : Seq(Ids), recv : Seq(Ids)]
    BY NewBufferOK
  <2>2. End(s) = [s EXCEPT !.phase = "ended", !.in = [send |-> <<>>, recv |-> <<>>],
                           !.writable = TRUE, !.buf = B]
    BY DEF End
  <2> HIDE DEF B
  <2>3. End(s) \in SessType
    BY <2>1, <2>2 DEF SessType
  <2>4. /\ End(s).buf = B /\ End(s).in = [send |-> <<>>, recv |-> <<>>] /\ End(s).phase = "ended"
        /\ End(s).last = s.last /\ End(s).times = s.times /\ End(s).conn = s.conn
    BY <2>2 DEF SessType
  <2> QED
    BY <2>3, <2>4 DEF B
<1>2. Moves(s, End(s))
  BY <1>1, EmptySession
<1>3. ASSUME s.conn # "bound" PROVE Moves(s, [End(s) EXCEPT !.conn = "failed"])
  <2> DEFINE t == [End(s) EXCEPT !.conn = "failed"]
  <2>1. /\ t \in SessType /\ t.buf = [d \in Dirs |-> NewBuffer]
        /\ t.in = [send |-> <<>>, recv |-> <<>>] /\ t.phase = "ended"
        /\ t.last = s.last /\ t.times = s.times /\ t.conn = "failed"
    BY <1>1 DEF SessType
  <2> HIDE DEF t
  <2>2. Moves(s, t)
    BY <1>3, <2>1, EmptySession
  <2> QED
    BY <2>2 DEF t
<1> QED
  BY <1>2, <1>3

\* A field that no queue and no waker depends on.
LEMMA PlainMoves ==
  ASSUME NEW s \in SessType, Sound(s)
  PROVE  /\ s.phase # "ended" => Moves(s, [s EXCEPT !.phase = "copy"])
         /\ Moves(s, [s EXCEPT !.writable = TRUE])
         /\ Moves(s, [s EXCEPT !.aborted = TRUE])
         /\ s.conn = "idle" =>
              \A w \in BOOLEAN : Moves(s, [s EXCEPT !.conn = "binding", !.writable = w])
         /\ \A n \in Ids : Moves(s, [s EXCEPT !.in.recv = Append(@, n)])
<1>1. ASSUME NEW t \in SessType, t.buf = s.buf, t.in["send"] = s.in["send"],
             t.last = s.last, t.times = s.times, t.conn = "bound" <=> s.conn = "bound",
             s.phase = "ended" \/ s.aborted => t.phase = "ended" \/ t.aborted
      PROVE  Moves(s, t)
  <2>1. Queued(t) = Queued(s)
    BY <1>1 DEF Queued
  <2>2. Shape(t.buf["send"]) /\ Wakeful(t)
    BY <1>1 DEF Sound, Wakeful
  <2> QED
    BY <1>1, <2>1, <2>2, SameQueueMoves
<1>2. ASSUME s.phase # "ended" PROVE Moves(s, [s EXCEPT !.phase = "copy"])
  <2> DEFINE t == [s EXCEPT !.phase = "copy"]
  <2>1. /\ t \in SessType /\ t.buf = s.buf /\ t.in = s.in /\ t.last = s.last /\ t.times = s.times
        /\ t.conn = s.conn /\ t.aborted = s.aborted
    BY DEF SessType
  <2> HIDE DEF t
  <2>2. Moves(s, t)
    BY <1>1, <1>2, <2>1
  <2> QED
    BY <2>2 DEF t
<1>3. Moves(s, [s EXCEPT !.writable = TRUE])
  <2> DEFINE t == [s EXCEPT !.writable = TRUE]
  <2>1. /\ t \in SessType /\ t.buf = s.buf /\ t.in = s.in /\ t.last = s.last /\ t.times = s.times
        /\ t.conn = s.conn /\ t.phase = s.phase /\ t.aborted = s.aborted
    BY DEF SessType
  <2> HIDE DEF t
  <2>2. Moves(s, t)
    BY <1>1, <2>1
  <2> QED
    BY <2>2 DEF t
<1>4. Moves(s, [s EXCEPT !.aborted = TRUE])
  <2> DEFINE t == [s EXCEPT !.aborted = TRUE]
  <2>1. /\ t \in SessType /\ t.buf = s.buf /\ t.in = s.in /\ t.last = s.last /\ t.times = s.times
        /\ t.conn = s.conn /\ t.phase = s.phase /\ t.aborted = TRUE
    BY DEF SessType
  <2> HIDE DEF t
  <2>2. Moves(s, t)
    BY <1>1, <2>1
  <2> QED
    BY <2>2 DEF t
<1>5. ASSUME s.conn = "idle", NEW w \in BOOLEAN
      PROVE  Moves(s, [s EXCEPT !.conn = "binding", !.writable = w])
  <2> DEFINE t == [s EXCEPT !.conn = "binding", !.writable = w]
  <2>1. /\ t \in SessType /\ t.buf = s.buf /\ t.in = s.in /\ t.last = s.last /\ t.times = s.times
        /\ t.conn = "binding" /\ t.phase = s.phase /\ t.aborted = s.aborted
    BY DEF SessType
  <2> HIDE DEF t
  <2>2. Moves(s, t)
    BY <1>1, <1>5, <2>1
  <2> QED
    BY <2>2 DEF t
<1>6. ASSUME NEW n \in Ids PROVE Moves(s, [s EXCEPT !.in.recv = Append(@, n)])
  <2> DEFINE t == [s EXCEPT !.in.recv = Append(@, n)]
  <2>1. s.in \in [send : Seq(Ids), recv : Seq(Ids)] /\ Append(s.in.recv, n) \in Seq(Ids)
    BY DEF SessType
  <2>2. [s.in EXCEPT !.recv = Append(@, n)] \in [send : Seq(Ids), recv : Seq(Ids)]
    BY <2>1
  <2>3. t = [s EXCEPT !.in = [s.in EXCEPT !.recv = Append(@, n)]]
    BY DEF SessType
  <2>4. /\ t \in SessType /\ t.buf = s.buf /\ t.in = [s.in EXCEPT !.recv = Append(@, n)]
        /\ t.last = s.last /\ t.times = s.times
        /\ t.conn = s.conn /\ t.phase = s.phase /\ t.aborted = s.aborted
    BY <2>2, <2>3 DEF SessType
  <2>5. t.in["send"] = s.in["send"]
    BY <2>1, <2>4
  <2> HIDE DEF t
  <2>6. Moves(s, t)
    BY <1>1, <2>4, <2>5
  <2> QED
    BY <2>6 DEF t
<1> QED
  BY <1>2, <1>3, <1>4, <1>5, <1>6

\* A channel takes packet p, or drops it.
LEMMA TrySendMoves ==
  ASSUME NEW s \in SessType, Sound(s), NEW p \in Ids, Below(s, p)
  PROVE  /\ TrySend(s, p) \in SessType /\ Sound(TrySend(s, p))
         /\ \A n \in Nat : Below(s, n) /\ p < n => Below(TrySend(s, p), n)
         /\ TrySend(s, p).phase = s.phase /\ TrySend(s, p).aborted = s.aborted
<1> DEFINE t == [s EXCEPT !.in.send = Append(@, p)]
<1>1. s.in \in [send : Seq(Ids), recv : Seq(Ids)] /\ Append(s.in.send, p) \in Seq(Ids)
  BY DEF SessType
<1>2. [s.in EXCEPT !.send = Append(@, p)] \in [send : Seq(Ids), recv : Seq(Ids)]
  BY <1>1
<1>3. t = [s EXCEPT !.in = [s.in EXCEPT !.send = Append(@, p)]]
  BY DEF SessType
<1>4. /\ t \in SessType /\ t.buf = s.buf /\ t.in = [s.in EXCEPT !.send = Append(@, p)]
      /\ t.last = s.last /\ t.times = s.times
      /\ t.conn = s.conn /\ t.phase = s.phase /\ t.aborted = s.aborted
  BY <1>2, <1>3 DEF SessType
<1>5. t.in["send"] = Append(s.in["send"], p)
  BY <1>1, <1>4
<1> HIDE DEF t
<1>6. Queued(s) \in Seq(Ids) /\ Rising(Queued(s)) /\ \A k \in 1..Len(Queued(s)) : Queued(s)[k] < p
  BY QueuedSeq DEF Sound, Ordered, Below
<1>7. Queued(t) = Append(Queued(s), p)
  <2> DEFINE F == FilledOf(s.buf["send"])
             G == s.in["send"]
  <2>1. F \in Seq(Ids) /\ G \in Seq(Ids)
    BY SessFields, FilledSeq DEF Sound
  <2>2. Queued(s) = F \o G /\ Queued(t) = F \o Append(G, p)
    BY <1>4, <1>5 DEF Queued
  <2> HIDE DEF F, G
  <2>3. F \o Append(G, p) = Append(F \o G, p)
    BY <2>1
  <2> QED
    BY <2>2, <2>3
<1>8. /\ Rising(Queued(t)) /\ Queued(t) # <<>>
      /\ Queued(t)[1] = IF Queued(s) = <<>> THEN p ELSE Queued(s)[1]
      /\ \A n \in Nat : p < n => \A k \in 1..Len(Queued(t)) : Queued(t)[k] < n
  BY <1>6, <1>7, AppendOrder
<1>9. Sound(t)
  <2>1. Shape(t.buf["send"]) /\ Wakeful(t)
    BY <1>4 DEF Sound, Wakeful
  <2>2. Ordered(t)
    BY <1>4, <1>8 DEF Sound, Ordered, Below
  <2> QED
    BY <2>1, <2>2 DEF Sound
<1>10. \A n \in Nat : Below(s, n) /\ p < n => Below(t, n)
  BY <1>4, <1>8 DEF Below
<1>11. TrySend(s, p) \in {s, t}
  BY DEF TrySend, t
<1> QED
  BY <1>4, <1>9, <1>10, <1>11

\* The first loop of poll_send_to and poll_recv_from reads one packet.
LEMMA ReadMoves ==
  ASSUME NEW s \in SessType, Sound(s), NEW d \in Dirs, s.buf[d].pc = "fill",
         CanBorrowBack(s.buf[d]), s.in[d] # <<>>
  PROVE  Moves(s, [s EXCEPT !.in[d] = Tail(@), !.buf[d] = Filled(s.buf[d], Head(s.in[d]))])
<1> DEFINE b == Filled(s.buf[d], Head(s.in[d]))
           t == [s EXCEPT !.in[d] = Tail(@), !.buf[d] = b]
<1>1. /\ s.in \in [send : Seq(Ids), recv : Seq(Ids)] /\ s.buf \in [Dirs -> BufType]
      /\ s.in[d] \in Seq(Ids) /\ s.buf[d] \in BufType
  BY SessFields DEF SessType, Dirs
<1>2. Head(s.in[d]) \in Ids /\ Tail(s.in[d]) \in Seq(Ids)
  BY <1>1
<1>3. /\ b \in BufType /\ b.pc = "fill" /\ b.reg = s.buf[d].reg
      /\ Shape(s.buf[d]) => Shape(b) /\ FilledOf(b) = Append(FilledOf(s.buf[d]), Head(s.in[d]))
  BY <1>1, <1>2, FilledBuffer
<1> HIDE DEF b
<1>4. Waits(b)
  BY <1>3 DEF Waits, Sound, Wakeful
<1>5. /\ t.buf = [s.buf EXCEPT ![d] = b] /\ t.in = [s.in EXCEPT ![d] = Tail(@)]
      /\ t.last = s.last /\ t.times = s.times
      /\ t.conn = s.conn /\ t.phase = s.phase /\ t.aborted = s.aborted
  BY DEF SessType
<1>6. [s.in EXCEPT ![d] = Tail(@)] \in [send : Seq(Ids), recv : Seq(Ids)]
  BY <1>1, <1>2 DEF Dirs
<1>7. [s.buf EXCEPT ![d] = b] \in [Dirs -> BufType]
  BY <1>1, <1>3
<1>8. t = [s EXCEPT !.in = [s.in EXCEPT ![d] = Tail(@)], !.buf = [s.buf EXCEPT ![d] = b]]
  BY DEF SessType
<1>9. t \in SessType
  BY <1>6, <1>7, <1>8 DEF SessType
<1> HIDE DEF t
<1>10. Wakeful(t)
  BY <1>1, <1>4, <1>5 DEF Wakeful, Sound
<1>11. Shape(t.buf["send"]) /\ Queued(t) = Queued(s)
  <2>1. CASE d = "send"
    <3>1. t.buf["send"] = b /\ t.in["send"] = Tail(s.in["send"])
      BY <1>1, <1>5, <2>1 DEF Dirs
    <3>2. Shape(b) /\ FilledOf(b) = Append(FilledOf(s.buf["send"]), Head(s.in["send"]))
      BY <1>3, <2>1 DEF Sound
    <3>3. FilledOf(s.buf["send"]) \in Seq(Ids)
      BY <1>1, <2>1, FilledSeq DEF Sound
    <3>4. Append(FilledOf(s.buf["send"]), Head(s.in["send"])) \o Tail(s.in["send"])
            = FilledOf(s.buf["send"]) \o s.in["send"]
      BY <1>1, <2>1, <3>3, MoveHead
    <3> QED
      BY <3>1, <3>2, <3>4 DEF Queued
  <2>2. CASE d # "send"
    <3>1. t.buf["send"] = s.buf["send"] /\ t.in["send"] = s.in["send"]
      BY <1>1, <1>5, <2>2 DEF Dirs
    <3> QED
      BY <3>1 DEF Queued, Sound
  <2> QED
    BY <2>1, <2>2
<1>12. Moves(s, t)
  BY <1>5, <1>9, <1>10, <1>11, SameQueueMoves
<1> QED
  BY <1>12 DEF t, b

\* A packet goes out: through a socket, or in the future that binds one.
LEMMA SentMoves ==
  ASSUME NEW s \in SessType, Sound(s), s.buf["send"].pc = "drain", FrontFilled(s.buf["send"]),
         NEW w \in BOOLEAN, NEW Out,
         Out = [s EXCEPT !.last = Head(s.buf["send"].queue),
                         !.times = IF s.last = Head(s.buf["send"].queue) THEN @ + 1 ELSE 1]
  PROVE  /\ s.conn \in {"plain", "bound"} =>
              Moves(s, [Out EXCEPT !.buf["send"] = PopFront(s.buf["send"]), !.writable = w])
         /\ s.conn = "binding" => Moves(s, [Out EXCEPT !.conn = "bound"])
<1> DEFINE b == s.buf["send"]
           p == Head(b.queue)
           q == Queued(s)
           times == IF s.last = p THEN s.times + 1 ELSE 1
<1>1. b \in BufType /\ s.buf \in [Dirs -> BufType] /\ s.last \in Nat /\ s.times \in Nat
  BY SessFields DEF SessType
<1>2. /\ PopFront(b) \in BufType /\ PopFront(b).pc = "drain" /\ PopFront(b).reg = b.reg
      /\ Shape(PopFront(b)) /\ FilledOf(PopFront(b)) = Tail(FilledOf(b))
      /\ FilledOf(b) # <<>> /\ Head(FilledOf(b)) = p
  BY <1>1, Popped DEF Sound
<1>3. q \in Seq(Ids) /\ Rising(q) /\ q # <<>> /\ q[1] = p /\ p \in Ids
      /\ FilledOf(PopFront(b)) \o s.in["send"] = Tail(q)
  <2>1. FilledOf(b) \in Seq(Ids) /\ s.in["send"] \in Seq(Ids)
    BY <1>1, SessFields, FilledSeq DEF Sound
  <2>2. q = FilledOf(b) \o s.in["send"]
    BY DEF Queued
  <2>3. q \in Seq(Ids) /\ Rising(q)
    BY QueuedSeq DEF Sound, Ordered
  <2> HIDE DEF q, p
  <2>4. /\ Tail(FilledOf(b)) \o s.in["send"] = Tail(FilledOf(b) \o s.in["send"])
        /\ FilledOf(b) \o s.in["send"] # <<>>
        /\ Head(FilledOf(b) \o s.in["send"]) = Head(FilledOf(b))
    BY <1>2, <2>1, TailOfBoth
  <2>5. Tail(FilledOf(b)) \o s.in["send"] = Tail(q) /\ q # <<>> /\ Head(q) = p
    BY <1>2, <2>2, <2>4
  <2>6. q[1] = p /\ p \in Ids
    BY <2>3, <2>5
  <2> QED
    BY <1>2, <2>3, <2>5, <2>6
<1>4. /\ Tail(q) \in Seq(Ids) /\ Rising(Tail(q)) /\ (Tail(q) # <<>> => q[1] < Tail(q)[1])
      /\ \A n \in Nat : (\A k \in 1..Len(q) : q[k] < n) =>
                          q[1] < n /\ \A k \in 1..Len(Tail(q)) : Tail(q)[k] < n
  BY <1>3, TailOrder
<1>5. s.last < p \/ (s.conn = "bound" /\ s.last = p /\ s.times = 1)
  BY <1>3 DEF Sound, Ordered
<1>6. p \in Nat /\ times \in Nat /\ times <= 2 /\ (s.conn # "bound" => times = 1)
  <2> HIDE DEF p
  <2> QED
    BY <1>1, <1>3, <1>5 DEF Ids
<1>7. /\ Out \in SessType /\ Out.last = p /\ Out.times = times /\ Out.buf = s.buf /\ Out.in = s.in
      /\ Out.conn = s.conn /\ Out.phase = s.phase /\ Out.aborted = s.aborted
  <2> HIDE DEF p
  <2>1. Out = [s EXCEPT !.last = p, !.times = times]
    BY DEF p
  <2> HIDE DEF times
  <2> QED
    BY <1>6, <2>1 DEF SessType
<1> HIDE DEF p, q, times
<1>8. ASSUME s.conn \in {"plain", "bound"}
      PROVE  Moves(s, [Out EXCEPT !.buf["send"] = PopFront(b), !.writable = w])
  <2> DEFINE t == [Out EXCEPT !.buf["send"] = PopFront(b), !.writable = w]
  <2>1. t = [Out EXCEPT !.buf = [s.buf EXCEPT !["send"] = PopFront(b)], !.writable = w]
    BY <1>7 DEF SessType
  <2>2. [s.buf EXCEPT !["send"] = PopFront(b)] \in [Dirs -> BufType]
    BY <1>1, <1>2
  <2>3. /\ t \in SessType /\ t.last = p /\ t.times = times /\ t.in = s.in /\ t.conn = s.conn
        /\ t.buf = [s.buf EXCEPT !["send"] = PopFront(b)]
        /\ t.phase = s.phase /\ t.aborted = s.aborted
    BY <1>7, <2>1, <2>2, ZenonT(60) DEF SessType
  <2> HIDE DEF t
  <2>4. t.buf["send"] = PopFront(b) /\ t.buf["recv"] = s.buf["recv"]
    BY <1>1, <2>3 DEF Dirs
  <2>5. Waits(PopFront(b))
    BY <1>2 DEF Waits, Sound, Wakeful, Dirs
  <2>6. Wakeful(t)
    BY <2>4, <2>5 DEF Wakeful, Sound, Dirs
  <2>7. Queued(t) = Tail(q)
    BY <1>3, <2>3, <2>4 DEF Queued
  <2>8. Ordered(t)
    BY <1>3, <1>4, <1>6, <2>3, <2>7 DEF Ordered
  <2>9. \A n \in Nat : Below(s, n) => Below(t, n)
    BY <1>3, <1>4, <2>3, <2>7 DEF Below, q
  <2>10. Moves(s, t)
    BY <1>2, <2>3, <2>4, <2>6, <2>8, <2>9 DEF Moves, Sound
  <2> QED
    BY <2>10 DEF t
<1>9. ASSUME s.conn = "binding" PROVE Moves(s, [Out EXCEPT !.conn = "bound"])
  <2> DEFINE t == [Out EXCEPT !.conn = "bound"]
  <2>1. /\ t \in SessType /\ t.last = p /\ t.times = times /\ t.in = s.in /\ t.conn = "bound"
        /\ t.buf = s.buf /\ t.phase = s.phase /\ t.aborted = s.aborted
    BY <1>7 DEF SessType
  <2> HIDE DEF t
  <2>2. Queued(t) = q
    BY <2>1 DEF Queued, q
  <2>3. times = 1
    BY <1>6, <1>9
  <2>4. Ordered(t)
    BY <1>3, <2>1, <2>2, <2>3 DEF Ordered
  <2>5. \A n \in Nat : Below(s, n) => Below(t, n)
    BY <1>3, <1>4, <2>1, <2>2 DEF Below, q
  <2>6. Moves(s, t)
    BY <2>1, <2>4, <2>5 DEF Moves, Sound, Wakeful
  <2> QED
    BY <2>6 DEF t
<1> QED
  BY <1>8, <1>9

-----------------------------------------------------------------------------
(* Steps of a session.                                                       *)
\* Session i does what Moves allows; the table and the source's packets stay.
SessionMoves(i) == /\ \E t : Moves(sess[i], t) /\ sess' = [sess EXCEPT ![i] = t]
                   /\ UNCHANGED table
                   /\ fwd' \in FwdType /\ fwd'.inbox = fwd.inbox

LEMMA SessionFacts ==
  ASSUME UdpInv, NEW i \in 1..Len(sess)
  PROVE  /\ sess[i] \in SessType /\ Sound(sess[i]) /\ fwd \in FwdType
         /\ \A d \in Dirs : sess[i].buf[d] \in BufType
<1>1. sess[i] \in SessType
  BY DEF UdpInv, UdpTypeOK
<1>2. \A d \in Dirs : sess[i].buf[d] \in BufType
  BY <1>1 DEF SessType
<1> QED
  BY <1>1, <1>2 DEF UdpInv, UdpTypeOK

LEMMA InboxIds ==
  ASSUME UdpInv, NEW m \in 1..Len(fwd.inbox)
  PROVE  /\ fwd.inbox \in Seq(PacketType) /\ fwd.inbox[m] \in PacketType
         /\ fwd.inbox[m].id \in Ids /\ fwd.inbox[m].id \in Nat
<1>1. fwd.inbox \in Seq(PacketType)
  BY DEF UdpInv, UdpTypeOK, FwdType
<1>2. fwd.inbox[m] \in PacketType
  BY <1>1
<1> QED
  BY <1>1, <1>2 DEF PacketType, Ids

LEMMA FillStep ==
  ASSUME UdpInv, NEW i \in 1..Len(sess), NEW d \in Dirs, Fill(i, d)
  PROVE  SessionMoves(i)
<1> DEFINE s == sess[i]
           b == s.buf[d]
<1>1. s \in SessType /\ Sound(s) /\ b \in BufType /\ fwd \in FwdType
  BY SessionFacts
<1>2. Waits(b) /\ b.pc = "fill" /\ b.reg = {} /\ (d = "send" => Shape(b))
  BY <1>1 DEF Fill, Waits, Sound, Wakeful
<1>3. UNCHANGED <<fwd, table>>
  BY DEF Fill
<1>4. CASE ~CanBorrowBack(b)
  <2> DEFINE c == [b EXCEPT !.pc = "drain"]
  <2>1. c \in BufType /\ c.queue = b.queue /\ c.pc = "drain" /\ c.reg = {}
    BY <1>1, <1>2 DEF BufType
  <2>2. [s EXCEPT !.buf[d].pc = "drain"] = [s EXCEPT !.buf[d] = c]
    BY <1>1 DEF SessType
  <2>3. sess' = [sess EXCEPT ![i] = [s EXCEPT !.buf[d].pc = "drain"]]
    BY <1>4 DEF Fill, Set
  <2> HIDE DEF c
  <2>4. Waits(c) /\ (Shape(b) => Shape(c)) /\ FilledOf(c) = FilledOf(b)
    BY <2>1 DEF Waits, Shape, FilledOf, BackIsUnfilled
  <2>5. Moves(s, [s EXCEPT !.buf[d] = c])
    BY <1>1, <1>2, <2>1, <2>4, BufferMoves
  <2> QED
    BY <1>1, <1>3, <2>2, <2>3, <2>5 DEF SessionMoves
<1>5. CASE /\ CanBorrowBack(b) /\ InputReady(s, d)
           /\ sess' = [sess EXCEPT ![i] = [s EXCEPT !.in[d] = Tail(@), !.buf[d] = Filled(b, Head(s.in[d]))]]
  <2>1. sess' = [sess EXCEPT ![i] = [s EXCEPT !.in[d] = Tail(@), !.buf[d] = Filled(b, Head(s.in[d]))]]
    BY <1>5
  <2>2. s.in[d] # <<>>
    BY <1>5 DEF InputReady
  <2>3. Moves(s, [s EXCEPT !.in[d] = Tail(@), !.buf[d] = Filled(b, Head(s.in[d]))])
    BY <1>1, <1>2, <1>5, <2>2, ReadMoves
  <2> QED
    BY <1>1, <1>3, <2>1, <2>3 DEF SessionMoves
<1>6. CASE /\ CanBorrowBack(b)
           /\ sess' = [sess EXCEPT ![i] = [s EXCEPT !.buf[d] = [BorrowBack(b) EXCEPT !.pc = "drain", !.reg = {"in"}]]]
  <2> DEFINE n == BorrowBack(b)
             c == [n EXCEPT !.pc = "drain", !.reg = {"in"}]
  <2>1. n \in BufType /\ (Shape(b) => Shape(n) /\ FilledOf(n) = FilledOf(b))
    BY <1>1, <1>6, Borrowed
  <2>2. sess' = [sess EXCEPT ![i] = [s EXCEPT !.buf[d] = c]]
    BY <1>6
  <2> HIDE DEF n
  <2>3. c \in BufType /\ c.queue = n.queue /\ c.pc = "drain" /\ c.reg = {"in"}
    BY <2>1 DEF BufType
  <2> HIDE DEF c
  <2>4. Waits(c) /\ (Shape(n) => Shape(c)) /\ FilledOf(c) = FilledOf(n)
    BY <2>3 DEF Waits, Shape, FilledOf, BackIsUnfilled
  <2>5. Moves(s, [s EXCEPT !.buf[d] = c])
    BY <1>1, <1>2, <2>1, <2>3, <2>4, BufferMoves
  <2> QED
    BY <1>1, <1>3, <2>2, <2>5 DEF SessionMoves
<1>7. CASE sess' = [sess EXCEPT ![i] = End(s)]
  BY <1>1, <1>3, <1>7, EndMoves DEF SessionMoves
<1> QED
  BY <1>4, <1>5, <1>6, <1>7 DEF Fill, Set

\* The buffer that Leave and Blocked make.
LEMMA LeaveBlocked ==
  ASSUME NEW b \in BufType, b.pc = "drain", Waits(b)
  PROVE  /\ ~FrontFilled(b) => Leave(b) \in BufType /\ Waits(Leave(b))
         /\ FrontFilled(b) => Blocked(b) \in BufType /\ Waits(Blocked(b))
         /\ Shape(b) => Shape(Leave(b)) /\ Shape(Blocked(b))
         /\ FilledOf(Leave(b)) = FilledOf(b) /\ FilledOf(Blocked(b)) = FilledOf(b)
<1> DEFINE l == Leave(b)
           k == Blocked(b)
<1>1. b.reg \in SUBSET {"in", "out"} /\ "out" \notin b.reg
  BY DEF BufType, Waits
<1>2. /\ l \in BufType /\ l.queue = b.queue /\ l.reg = b.reg
      /\ l.pc = IF b.reg = {} THEN "fill" ELSE "wait"
  BY DEF Leave, BufType
<1>3. k \in BufType /\ k.queue = b.queue /\ k.reg = b.reg \cup {"out"} /\ k.pc = "wait"
  BY <1>1 DEF Blocked, BufType
<1> HIDE DEF l, k
<1>4. ASSUME ~FrontFilled(b) PROVE Waits(l)
  <2>1. CASE b.reg = {}
    BY <1>2, <2>1 DEF Waits
  <2>2. CASE b.reg # {}
    BY <1>1, <1>2, <1>4, <2>2 DEF Waits, FrontFilled
  <2> QED
    BY <2>1, <2>2
<1>5. ASSUME FrontFilled(b) PROVE Waits(k)
  BY <1>3, <1>5 DEF Waits, FrontFilled
<1>6. (Shape(b) => Shape(l) /\ Shape(k)) /\ FilledOf(l) = FilledOf(b) /\ FilledOf(k) = FilledOf(b)
  BY <1>2, <1>3 DEF Shape, FilledOf, BackIsUnfilled
<1> QED
  BY <1>2, <1>3, <1>4, <1>5, <1>6 DEF l, k

LEMMA DrainStep ==
  ASSUME UdpInv, NEW i \in 1..Len(sess), NEW d \in Dirs, DrainDone(i, d)
  PROVE  SessionMoves(i)
<1> DEFINE s == sess[i]
           b == s.buf[d]
<1>1. s \in SessType /\ Sound(s) /\ b \in BufType /\ fwd \in FwdType
  BY SessionFacts
<1>2. Waits(b) /\ b.pc = "drain" /\ ~FrontFilled(b) /\ (d = "send" => Shape(b))
  BY <1>1 DEF DrainDone, Sound, Wakeful
<1>3. UNCHANGED <<fwd, table>> /\ sess' = [sess EXCEPT ![i] = [s EXCEPT !.buf[d] = Leave(b)]]
  BY DEF DrainDone, Set
<1>4. /\ Leave(b) \in BufType /\ Waits(Leave(b))
      /\ (Shape(b) => Shape(Leave(b))) /\ FilledOf(Leave(b)) = FilledOf(b)
  BY <1>1, <1>2, LeaveBlocked
<1>5. Moves(s, [s EXCEPT !.buf[d] = Leave(b)])
  BY <1>1, <1>2, <1>4, BufferMoves
<1> QED
  BY <1>1, <1>3, <1>5 DEF SessionMoves

LEMMA SendOutStep ==
  ASSUME UdpInv, NEW i \in 1..Len(sess), SendOut(i)
  PROVE  SessionMoves(i)
<1> DEFINE s == sess[i]
           b == s.buf["send"]
           p == Head(b.queue)
           Out == [s EXCEPT !.last = p, !.times = IF s.last = p THEN @ + 1 ELSE 1]
<1>1. s \in SessType /\ Sound(s) /\ b \in BufType /\ fwd \in FwdType
  BY SessionFacts DEF Dirs
<1>2. b.pc = "drain" /\ FrontFilled(b) /\ Waits(b) /\ Shape(b) /\ UNCHANGED <<fwd, table>>
  BY <1>1 DEF SendOut, Sound, Wakeful, Dirs
<1>3. ASSUME NEW t, Moves(s, t), sess' = [sess EXCEPT ![i] = t] PROVE SessionMoves(i)
  BY <1>1, <1>2, <1>3 DEF SessionMoves
<1>4. CASE s.conn \in {"plain", "bound"} /\ \E w \in BOOLEAN :
             Set(i, [Out EXCEPT !.buf["send"] = PopFront(b), !.writable = w])
  <2>1. PICK w \in BOOLEAN : Set(i, [Out EXCEPT !.buf["send"] = PopFront(b), !.writable = w])
    BY <1>4
  <2>2. Moves(s, [Out EXCEPT !.buf["send"] = PopFront(b), !.writable = w])
    BY <1>1, <1>2, <1>4, SentMoves
  <2> QED
    BY <1>3, <2>1, <2>2 DEF Set
<1>5. CASE Set(i, [s EXCEPT !.buf["send"] = Blocked(b)])
  <2>1. Blocked(b) \in BufType /\ Waits(Blocked(b)) /\ Shape(Blocked(b)) /\ FilledOf(Blocked(b)) = FilledOf(b)
    BY <1>1, <1>2, LeaveBlocked
  <2>2. Moves(s, [s EXCEPT !.buf["send"] = Blocked(b)])
    BY <1>1, <2>1, BufferMoves DEF Dirs
  <2> QED
    BY <1>3, <1>5, <2>2 DEF Set
<1>6. CASE Set(i, End(s))
  BY <1>1, <1>3, <1>6, EndMoves DEF Set
<1>7. CASE s.conn = "idle" /\ \E w \in BOOLEAN : Set(i, [s EXCEPT !.conn = "binding", !.writable = w])
  BY <1>1, <1>3, <1>7, PlainMoves DEF Set
<1>8. CASE s.conn = "binding" /\ Set(i, [Out EXCEPT !.conn = "bound"])
  <2>1. Moves(s, [Out EXCEPT !.conn = "bound"])
    BY <1>1, <1>2, <1>8, SentMoves
  <2> QED
    BY <1>3, <1>8, <2>1 DEF Set
<1>9. CASE s.conn = "binding" /\ Set(i, [End(s) EXCEPT !.conn = "failed"])
  BY <1>1, <1>3, <1>9, EndMoves DEF Set
<1> QED
  BY <1>4, <1>5, <1>6, <1>7, <1>8, <1>9 DEF SendOut

LEMMA RecvOutStep ==
  ASSUME UdpInv, NEW i \in 1..Len(sess), RecvOut(i)
  PROVE  SessionMoves(i)
<1> DEFINE s == sess[i]
           b == s.buf["recv"]
<1>1. s \in SessType /\ Sound(s) /\ b \in BufType /\ fwd \in FwdType
  BY SessionFacts DEF Dirs
<1>2. b.pc = "drain" /\ FrontFilled(b) /\ Waits(b) /\ UNCHANGED table
  BY <1>1 DEF RecvOut, Sound, Wakeful, Dirs
<1>3. ASSUME NEW t, Moves(s, t), sess' = [sess EXCEPT ![i] = t],
             fwd' \in FwdType, fwd'.inbox = fwd.inbox PROVE SessionMoves(i)
  BY <1>1, <1>2, <1>3 DEF SessionMoves
<1>4. CASE fwd' = [fwd EXCEPT !.back = Append(@, i)] /\ Set(i, [s EXCEPT !.buf["recv"] = PopFront(b)])
  <2>1. PopFront(b) \in BufType /\ PopFront(b).pc = "drain" /\ PopFront(b).reg = b.reg
    BY <1>1, <1>2, Popped
  <2>2. Waits(PopFront(b))
    BY <1>2, <2>1 DEF Waits
  <2>3. Moves(s, [s EXCEPT !.buf["recv"] = PopFront(b)])
    BY <1>1, <2>1, <2>2, BufferMoves DEF Dirs
  <2>4. Append(fwd.back, i) \in Seq(Nat)
    BY <1>1 DEF FwdType
  <2>5. fwd' \in FwdType /\ fwd'.inbox = fwd.inbox
    BY <1>1, <1>4, <2>4 DEF FwdType
  <2> QED
    BY <1>3, <1>4, <2>3, <2>5 DEF Set
<1>5. CASE Set(i, [s EXCEPT !.buf["recv"] = Blocked(b)]) /\ UNCHANGED fwd
  <2>1. Blocked(b) \in BufType /\ Waits(Blocked(b))
    BY <1>1, <1>2, LeaveBlocked
  <2>2. Moves(s, [s EXCEPT !.buf["recv"] = Blocked(b)])
    BY <1>1, <2>1, BufferMoves DEF Dirs
  <2> QED
    BY <1>1, <1>3, <1>5, <2>2 DEF Set
<1>6. CASE Set(i, End(s)) /\ UNCHANGED fwd
  BY <1>1, <1>3, <1>6, EndMoves DEF Set
<1> QED
  BY <1>4, <1>5, <1>6 DEF RecvOut

LEMMA PollStep ==
  ASSUME UdpInv, NEW i \in 1..Len(sess), Poll(i)
  PROVE  SessionMoves(i)
<1> DEFINE s == sess[i]
           B == [d \in Dirs |-> [s.buf[d] EXCEPT !.pc = "fill", !.reg = {}]]
           t == [s EXCEPT !.buf = B]
<1>1. s \in SessType /\ Sound(s) /\ fwd \in FwdType /\ \A d \in Dirs : s.buf[d] \in BufType
  BY SessionFacts
<1>2. sess' = [sess EXCEPT ![i] = t] /\ UNCHANGED <<fwd, table>>
  BY DEF Poll, Set
<1>3. \A d \in Dirs : /\ B[d] \in BufType /\ B[d].queue = s.buf[d].queue
                      /\ B[d].pc = "fill" /\ B[d].reg = {}
  BY <1>1 DEF BufType
<1>4. B \in [Dirs -> BufType]
  BY <1>3
<1> HIDE DEF B
<1>5. /\ t \in SessType /\ t.buf = B /\ t.in = s.in /\ t.last = s.last /\ t.times = s.times
      /\ t.conn = s.conn /\ t.phase = s.phase /\ t.aborted = s.aborted
  BY <1>1, <1>4 DEF SessType
<1> HIDE DEF t
<1>6. Wakeful(t)
  BY <1>3, <1>5 DEF Wakeful, Waits
<1>7. Shape(t.buf["send"]) /\ FilledOf(t.buf["send"]) = FilledOf(s.buf["send"])
  BY <1>1, <1>3, <1>5 DEF Shape, Sound, FilledOf, BackIsUnfilled, Dirs
<1>8. Queued(t) = Queued(s)
  BY <1>5, <1>7 DEF Queued
<1>9. Moves(s, t)
  BY <1>1, <1>5, <1>6, <1>7, <1>8, SameQueueMoves
<1> QED
  BY <1>1, <1>2, <1>9 DEF SessionMoves

LEMMA OtherSteps ==
  ASSUME UdpInv, NEW i \in 1..Len(sess),
         Bind(i) \/ AbortDone(i) \/ SocketReady(i) \/ RemoteReplies(i)
  PROVE  SessionMoves(i)
<1> DEFINE s == sess[i]
<1>1. s \in SessType /\ Sound(s) /\ fwd \in FwdType
  BY SessionFacts
<1>2. CASE Bind(i)
  BY <1>1, <1>2, PlainMoves, EndMoves DEF Bind, Set, SessionMoves
<1>3. CASE AbortDone(i)
  BY <1>1, <1>3, EndMoves DEF AbortDone, Set, SessionMoves
<1>4. CASE SocketReady(i)
  BY <1>1, <1>4, PlainMoves DEF SocketReady, Set, SessionMoves
<1>5. CASE RemoteReplies(i)
  <2>1. i \in Ids
    BY DEF Ids
  <2>2. Moves(s, [s EXCEPT !.in.recv = Append(@, i)])
    BY <1>1, <2>1, PlainMoves
  <2>3. fwd.replies + 1 \in Nat /\ fwd' = [fwd EXCEPT !.replies = @ + 1]
    BY <1>1, <1>5 DEF FwdType, RemoteReplies
  <2>4. fwd' \in FwdType /\ fwd'.inbox = fwd.inbox
    BY <1>1, <2>3 DEF FwdType
  <2> QED
    BY <1>5, <2>2, <2>4 DEF RemoteReplies, Set, SessionMoves
<1> QED
  BY <1>2, <1>3, <1>4, <1>5

LEMMA OneSession ==
  ASSUME UdpInv, NEW i \in 1..Len(sess), SessionMoves(i)
  PROVE  UdpInv'
<1>1. PICK t : Moves(sess[i], t) /\ sess' = [sess EXCEPT ![i] = t]
  BY DEF SessionMoves
<1>2. /\ table' = table /\ fwd' \in FwdType /\ fwd'.inbox = fwd.inbox
      /\ table \in Seq(EntryType) /\ sess \in Seq(SessType)
  BY DEF SessionMoves, UdpInv, UdpTypeOK
<1>3. /\ sess' \in Seq(SessType) /\ Len(sess') = Len(sess)
      /\ sess'[i] = t /\ \A j \in 1..Len(sess) : j # i => sess'[j] = sess[j]
  BY <1>1, <1>2 DEF Moves
<1>4. \A j \in 1..Len(sess) : Sound(sess'[j])
  BY <1>1, <1>3 DEF Moves, UdpInv
<1>5. Coming'
  <2>1. ASSUME NEW j \in 1..Len(sess), NEW m \in 1..Len(fwd.inbox)
        PROVE  Below(sess'[j], fwd.inbox[m].id)
    <3>1. Below(sess[j], fwd.inbox[m].id)
      BY DEF UdpInv, Coming
    <3>2. fwd.inbox[m].id \in Nat
      BY InboxIds
    <3> QED
      BY <1>1, <1>3, <3>1, <3>2 DEF Moves
  <2> QED
    BY <1>2, <1>3, <2>1 DEF Coming, UdpInv, InOrder
<1>6. Owned'
  <2>1. ASSUME NEW j \in 1..Len(sess), sess'[j].phase # "ended", ~sess'[j].aborted
        PROVE  j \in InTable(table)
    <3>1. sess[j].phase # "ended" /\ ~sess[j].aborted
      BY <1>1, <1>3, <2>1 DEF Moves
    <3> QED
      BY <3>1 DEF UdpInv, Owned, SessionsOwned
  <2> QED
    BY <1>2, <1>3, <2>1 DEF Owned, SessionsOwned, UdpInv, InTable
<1> QED
  BY <1>2, <1>3, <1>4, <1>5, <1>6 DEF UdpInv, UdpTypeOK

-----------------------------------------------------------------------------
(* The session table.                                                        *)
LEMMA LeastUpTo ==
  ASSUME NEW n \in Nat, NEW T \in SUBSET (0..n), T # {}
  PROVE  \E x \in T : \A y \in T : x <= y
<1> DEFINE D == {1..k : k \in T}
<1>1. \A k \in 0..n : 1..k \subseteq 1..n
  OBVIOUS
<1>2. IsWellFoundedOn(StrictSubsetOrdering(1..n), SUBSET (1..n))
  <2>1. IsFiniteSet(1..n)
    BY FS_Interval
  <2> QED
    BY <2>1, FS_FiniteSubsetsOfFinite, FS_StrictSubsetOrderingWellFounded, Zenon
<1>3. D \subseteq SUBSET (1..n) /\ D # {}
  BY <1>1
<1>4. PICK x \in D : \A y \in D : ~ (<<y, x>> \in StrictSubsetOrdering(1..n))
  <2> HIDE DEF D
  <2> QED
    BY <1>2, <1>3, WFMin
<1>5. PICK k \in T : x = 1..k
  BY <1>4
<1>6. ASSUME NEW j \in T, j < k PROVE FALSE
  <2>1. 1..j \in D /\ 1..j \subseteq 1..k /\ 1..k \subseteq 1..n /\ k \in 1..k /\ k \notin 1..j
    BY <1>6
  <2>2. <<1..j, 1..k>> \in StrictSubsetOrdering(1..n)
    BY <2>1 DEF StrictSubsetOrdering
  <2> QED
    BY <2>1, <2>2, <1>4, <1>5
<1> QED
  BY <1>6

LEMMA FreshTable ==
  ASSUME NEW t \in Seq(EntryType)
  PROVE  /\ Fresh(t) \in Seq(EntryType) /\ Len(Fresh(t)) <= Len(t)
         /\ InTable(Fresh(t)) \subseteq InTable(t)
<1> DEFINE P(n) == /\ \A k \in 1..n : Expired(t[k])
                   /\ n < Len(t) => ~Expired(t[n + 1])
           T == {n \in 0..Len(t) : n < Len(t) => ~Expired(t[n + 1])}
<1>1. Len(t) \in Nat /\ T \in SUBSET (0..Len(t)) /\ Len(t) \in T
  OBVIOUS
<1>2. PICK x \in T : \A y \in T : x <= y
  <2> HIDE DEF T
  <2> QED
    BY <1>1, LeastUpTo
<1>3. x \in 0..Len(t) /\ (x < Len(t) => ~Expired(t[x + 1]))
  OBVIOUS
<1>4. ASSUME NEW k \in 1..x PROVE Expired(t[k])
  <2>1. k - 1 \in 0..Len(t) /\ k - 1 < Len(t) /\ ~(x <= k - 1) /\ (k - 1) + 1 = k
    BY <1>1, <1>3
  <2>2. k - 1 \notin T
    BY <1>2, <2>1
  <2> QED
    BY <2>1, <2>2
<1>5. P(x)
  BY <1>3, <1>4
<1> DEFINE n == CHOOSE n \in 0..Len(t) : P(n)
<1>6. n \in 0..Len(t)
  <2> HIDE DEF P
  <2> QED
    BY <1>3, <1>5
<1>7. Fresh(t) = SubSeq(t, n + 1, Len(t))
  BY DEF Fresh
<1> HIDE DEF n
<1>8. /\ Fresh(t) \in Seq(EntryType) /\ Len(Fresh(t)) = Len(t) - n
      /\ \A k \in 1..Len(Fresh(t)) : Fresh(t)[k] = t[k + n]
  BY <1>1, <1>6, <1>7
<1>9. ASSUME NEW k \in 1..Len(Fresh(t)) PROVE Fresh(t)[k].id \in InTable(t)
  <2>1. k + n \in 1..Len(t) /\ Fresh(t)[k] = t[k + n]
    BY <1>1, <1>6, <1>8
  <2> QED
    BY <2>1 DEF InTable
<1> QED
  BY <1>1, <1>6, <1>8, <1>9 DEF InTable

LEMMA AbortGoneMoves ==
  ASSUME UdpInv, NEW t
  PROVE  /\ AbortGone(sess, t) \in Seq(SessType) /\ Len(AbortGone(sess, t)) = Len(sess)
         /\ \A i \in 1..Len(sess) : Moves(sess[i], AbortGone(sess, t)[i])
         /\ \A i \in 1..Len(sess) :
              AbortGone(sess, t)[i].phase # "ended" /\ ~AbortGone(sess, t)[i].aborted
                => i \in InTable(t)
<1> DEFINE A == AbortGone(sess, t)
<1>1. \A i \in 1..Len(sess) : sess[i] \in SessType /\ Sound(sess[i])
  BY SessionFacts
<1>2. sess \in Seq(SessType) /\ Len(sess) \in Nat
  BY DEF UdpInv, UdpTypeOK
<1>3. A = [i \in 1..Len(sess) |-> IF i \in InTable(table) \ InTable(t)
                                    THEN [sess[i] EXCEPT !.aborted = TRUE] ELSE sess[i]]
  BY DEF AbortGone
<1> HIDE DEF A
<1>4. ASSUME NEW i \in 1..Len(sess)
      PROVE  /\ Moves(sess[i], A[i])
             /\ A[i].phase # "ended" /\ ~A[i].aborted => i \in InTable(t)
  <2>1. CASE i \in InTable(table) \ InTable(t)
    <3>1. A[i] = [sess[i] EXCEPT !.aborted = TRUE]
      BY <1>3, <2>1
    <3>2. Moves(sess[i], A[i])
      BY <1>1, <3>1, PlainMoves
    <3>3. A[i].aborted
      BY <1>1, <3>1 DEF SessType
    <3> QED
      BY <3>2, <3>3
  <2>2. CASE i \notin InTable(table) \ InTable(t)
    <3>1. A[i] = sess[i]
      BY <1>3, <2>2
    <3>2. Moves(sess[i], A[i])
      BY <1>1, <3>1 DEF Moves
    <3>3. sess[i].phase # "ended" /\ ~sess[i].aborted => i \in InTable(table)
      BY DEF UdpInv, Owned, SessionsOwned
    <3> QED
      BY <2>2, <3>1, <3>2, <3>3
  <2> QED
    BY <2>1, <2>2
<1>5. \A i \in 1..Len(sess) : A[i] \in SessType
  BY <1>4 DEF Moves
<1>6. A \in Seq(SessType) /\ Len(A) = Len(sess)
  BY <1>2, <1>3, <1>5
<1> QED
  BY <1>4, <1>6 DEF A

\* Entries leave the table, and the tasks of those that left are aborted.
LEMMA ShrinkInv ==
  ASSUME UdpInv, NEW t \in Seq(EntryType), InTable(t) \subseteq InTable(table), Len(t) <= Capacity,
         table' = t, sess' = AbortGone(sess, t), fwd' = fwd
  PROVE  UdpInv'
<1>1. /\ sess' \in Seq(SessType) /\ Len(sess') = Len(sess)
      /\ \A i \in 1..Len(sess) : Moves(sess[i], sess'[i])
      /\ \A i \in 1..Len(sess) : sess'[i].phase # "ended" /\ ~sess'[i].aborted => i \in InTable(t)
  BY AbortGoneMoves
<1>2. UdpTypeOK'
  BY <1>1 DEF UdpInv, UdpTypeOK
<1>3. Owned'
  <2>1. \A k \in 1..Len(t) : t[k].id \in 1..Len(sess)
    BY DEF UdpInv, Owned, InTable
  <2> QED
    BY <1>1, <2>1 DEF Owned, SessionsOwned, InTable
<1>4. Coming'
  <2>1. ASSUME NEW i \in 1..Len(sess), NEW m \in 1..Len(fwd.inbox)
        PROVE  Below(sess'[i], fwd.inbox[m].id)
    BY <1>1, InboxIds DEF Moves, UdpInv, Coming
  <2> QED
    BY <1>1, <2>1 DEF Coming, UdpInv
<1>5. \A i \in 1..Len(sess) : Sound(sess'[i])
  BY <1>1 DEF Moves
<1> QED
  BY <1>1, <1>2, <1>3, <1>4, <1>5 DEF UdpInv

LEMMA WithoutSeq ==
  ASSUME NEW t \in Seq(EntryType), NEW e \in 1..Len(t)
  PROVE  /\ RemoveAt(t, e) \in Seq(EntryType) /\ Len(RemoveAt(t, e)) = Len(t) - 1
         /\ \A k \in 1..Len(t) - 1 : RemoveAt(t, e)[k] = IF k < e THEN t[k] ELSE t[k + 1]
<1>1. Len(t) \in Nat /\ e \in Nat /\ e >= 1 /\ e <= Len(t)
  OBVIOUS
<1>2. /\ SubSeq(t, 1, e - 1) \in Seq(EntryType) /\ Len(SubSeq(t, 1, e - 1)) = e - 1
      /\ \A k \in 1..e - 1 : SubSeq(t, 1, e - 1)[k] = t[k]
  BY <1>1
<1>3. /\ SubSeq(t, e + 1, Len(t)) \in Seq(EntryType) /\ Len(SubSeq(t, e + 1, Len(t))) = Len(t) - e
      /\ \A k \in 1..Len(t) - e : SubSeq(t, e + 1, Len(t))[k] = t[k + e]
  BY <1>1
<1> DEFINE a == SubSeq(t, 1, e - 1)
           b == SubSeq(t, e + 1, Len(t))
<1>4. RemoveAt(t, e) = a \o b
  BY DEF RemoveAt
<1>5. a \in Seq(EntryType) /\ b \in Seq(EntryType) /\ Len(a) = e - 1 /\ Len(b) = Len(t) - e
  BY <1>2, <1>3
<1> HIDE DEF a, b
<1>6. /\ a \o b \in Seq(EntryType) /\ Len(a \o b) = Len(t) - 1
      /\ \A k \in 1..Len(t) - 1 : (a \o b)[k] = IF k < e THEN a[k] ELSE b[k - (e - 1)]
  <2>1. /\ a \o b \in Seq(EntryType) /\ Len(a \o b) = Len(a) + Len(b)
        /\ \A k \in 1..Len(a) + Len(b) : (a \o b)[k] = IF k <= Len(a) THEN a[k] ELSE b[k - Len(a)]
    <3>1. a \in Seq(EntryType) /\ b \in Seq(EntryType)
      BY <1>5
    <3> QED
      BY <3>1, ConcatParts
  <2>2. Len(a) + Len(b) = Len(t) - 1 /\ \A k \in 1..Len(t) - 1 : k <= Len(a) <=> k < e
    BY <1>1, <1>5
  <2> QED
    BY <1>5, <2>1, <2>2
<1>7. ASSUME NEW k \in 1..Len(t) - 1
      PROVE  RemoveAt(t, e)[k] = IF k < e THEN t[k] ELSE t[k + 1]
  <2>1. CASE k < e
    <3>1. k \in 1..e - 1
      BY <1>1, <2>1
    <3> QED
      BY <1>2, <1>4, <1>6, <2>1, <3>1 DEF a
  <2>2. CASE ~(k < e)
    <3>1. k - (e - 1) \in 1..Len(t) - e /\ k - (e - 1) + e = k + 1
      BY <1>1, <2>2
    <3> QED
      BY <1>3, <1>4, <1>6, <2>2, <3>1 DEF b
  <2> QED
    BY <2>1, <2>2
<1> QED
  BY <1>4, <1>6, <1>7

\* A refreshed entry moves to the back; the table names the same sessions.
LEMMA Refreshed ==
  ASSUME NEW t \in Seq(EntryType), NEW e \in 1..Len(t), NEW x \in EntryType, x.id = t[e].id
  PROVE  /\ Append(RemoveAt(t, e), x) \in Seq(EntryType)
         /\ Len(Append(RemoveAt(t, e), x)) = Len(t)
         /\ InTable(Append(RemoveAt(t, e), x)) = InTable(t)
<1> DEFINE r == RemoveAt(t, e)
           a == Append(r, x)
<1>1. /\ r \in Seq(EntryType) /\ Len(r) = Len(t) - 1 /\ Len(t) \in Nat /\ Len(t) >= 1
      /\ \A k \in 1..Len(t) - 1 : r[k] = IF k < e THEN t[k] ELSE t[k + 1]
  BY WithoutSeq
<1> HIDE DEF r
<1>2. /\ a \in Seq(EntryType) /\ Len(a) = Len(t) /\ a[Len(t)] = x
      /\ \A k \in 1..Len(t) - 1 : a[k] = r[k]
  BY <1>1
<1> HIDE DEF a
<1>3. ASSUME NEW k \in 1..Len(a) PROVE a[k].id \in InTable(t)
  <2>1. CASE k = Len(t)
    BY <1>2, <2>1 DEF InTable
  <2>2. CASE k # Len(t)
    <3>1. k \in 1..Len(t) - 1 /\ k \in 1..Len(t) /\ k + 1 \in 1..Len(t)
      BY <1>1, <1>2, <2>2
    <3>2. a[k] = t[k] \/ a[k] = t[k + 1]
      BY <1>1, <1>2, <3>1
    <3> QED
      BY <3>1, <3>2 DEF InTable
  <2> QED
    BY <2>1, <2>2
<1>4. ASSUME NEW k \in 1..Len(t) PROVE t[k].id \in InTable(a)
  <2>1. CASE k < e
    <3>1. k \in 1..Len(t) - 1 /\ k \in 1..Len(a)
      BY <1>1, <1>2, <2>1
    <3>2. a[k] = t[k]
      BY <1>1, <1>2, <2>1, <3>1
    <3> QED
      BY <3>1, <3>2 DEF InTable
  <2>2. CASE k = e
    <3>1. Len(t) \in 1..Len(a)
      BY <1>1, <1>2
    <3> QED
      BY <1>2, <2>2, <3>1 DEF InTable
  <2>3. CASE k > e
    <3>1. k - 1 \in 1..Len(t) - 1 /\ k - 1 \in 1..Len(a) /\ ~(k - 1 < e) /\ (k - 1) + 1 = k
      BY <1>1, <1>2, <2>3
    <3>2. a[k - 1] = t[k]
      BY <1>1, <1>2, <3>1
    <3> QED
      BY <3>1, <3>2 DEF InTable
  <2> QED
    BY <2>1, <2>2, <2>3
<1> QED
  BY <1>2, <1>3, <1>4 DEF InTable, a, r

\* The next packet of the inbox and those behind it.
LEMMA NextPacket ==
  ASSUME UdpInv, fwd.inbox # <<>>
  PROVE  LET p == Head(fwd.inbox)  rest == Tail(fwd.inbox) IN
         /\ p \in PacketType /\ p.id \in Ids /\ p.from \in Clients
         /\ rest \in Seq(PacketType) /\ InOrder(rest)
         /\ \A i \in 1..Len(sess) : Below(sess[i], p.id)
         /\ \A m \in 1..Len(rest) : /\ rest[m].id \in Nat /\ p.id < rest[m].id
                                    /\ \A i \in 1..Len(sess) : Below(sess[i], rest[m].id)
<1> DEFINE q == fwd.inbox
           p == Head(q)
           rest == Tail(q)
<1>1. q \in Seq(PacketType) /\ q # <<>>
  BY DEF UdpInv, UdpTypeOK, FwdType
<1>2. 1 \in 1..Len(q) /\ p = q[1] /\ Len(q) \in Nat
  BY <1>1
<1>3. /\ rest \in Seq(PacketType) /\ Len(rest) = Len(q) - 1
      /\ \A m \in 1..Len(rest) : rest[m] = q[m + 1] /\ m + 1 \in 1..Len(q)
  BY <1>1
<1>4. InOrder(q) /\ \A i \in 1..Len(sess), m \in 1..Len(q) : Below(sess[i], q[m].id)
  BY DEF UdpInv, Coming
<1>5. \A m \in 1..Len(q) : q[m] \in PacketType /\ q[m].id \in Ids /\ q[m].id \in Nat
  BY InboxIds
<1> HIDE DEF q, rest, p
<1>6. InOrder(rest)
  <2> SUFFICES ASSUME NEW j \in 1..Len(rest), NEW k \in 1..Len(rest), j < k
               PROVE  rest[j].id < rest[k].id
    BY DEF InOrder
  <2>1. j + 1 < k + 1
    BY <1>2, <1>3
  <2> QED
    BY <1>3, <1>4, <2>1 DEF InOrder
<1>7. \A m \in 1..Len(rest) : /\ rest[m].id \in Nat /\ p.id < rest[m].id
                              /\ \A i \in 1..Len(sess) : Below(sess[i], rest[m].id)
  <2> TAKE m \in 1..Len(rest)
  <2>1. m + 1 \in 1..Len(q) /\ rest[m] = q[m + 1] /\ 1 < m + 1
    BY <1>2, <1>3
  <2> QED
    BY <1>2, <1>4, <1>5, <2>1 DEF InOrder
<1>8. p \in PacketType /\ p.id \in Ids /\ p.from \in Clients
  BY <1>2, <1>5 DEF PacketType
<1>9. \A i \in 1..Len(sess) : Below(sess[i], p.id)
  BY <1>2, <1>4
<1> QED
  BY <1>3, <1>6, <1>7, <1>8, <1>9 DEF p, q, rest

LEMMA NewSessionSound ==
  ASSUME NEW c \in Clients, NEW p \in Ids, NEW viaRule \in BOOLEAN
  PROVE  LET s == NewSession(c, p, viaRule) IN
         s \in SessType /\ Sound(s) /\ \A n \in Nat : p < n => Below(s, n)
<1> DEFINE s == NewSession(c, p, viaRule)
           B == [d \in Dirs |-> NewBuffer]
<1>1. B \in [Dirs -> BufType] /\ B["send"] = NewBuffer /\ B["recv"] = NewBuffer
  BY NewBufferOK DEF Dirs
<1>2. <<p>> \in Seq(Ids) /\ <<>> \in Seq(Ids)
  OBVIOUS
<1>3. /\ s.buf = B /\ s.in = [send |-> <<p>>, recv |-> <<>>] /\ s.last = 0 /\ s.times = 0
      /\ s.conn \in {"idle", "plain"}
  BY DEF NewSession
<1>4. s \in SessType
  <2> HIDE DEF B
  <2>1. s = [client |-> c, phase |-> "bind", aborted |-> FALSE,
             conn |-> IF viaRule THEN "idle" ELSE "plain", writable |-> TRUE,
             in |-> [send |-> <<p>>, recv |-> <<>>], last |-> 0, times |-> 0, buf |-> B]
    BY DEF NewSession, B
  <2> QED
    BY <1>1, <1>2, <2>1 DEF SessType
<1> HIDE DEF s, B
<1>5. Shape(s.buf["send"]) /\ Wakeful(s)
  BY <1>1, <1>3, NewBufferOK DEF Wakeful, Dirs
<1>6. Queued(s) = <<p>>
  <2>1. FilledOf(s.buf["send"]) = <<>> /\ s.in.send = <<p>>
    BY <1>1, <1>3, NewBufferOK
  <2> QED
    BY <1>2, <2>1 DEF Queued
<1>7. Ordered(s)
  BY <1>3, <1>6 DEF Ordered, Rising, Ids
<1>8. \A n \in Nat : p < n => Below(s, n)
  BY <1>3, <1>6 DEF Below, Ids
<1> QED
  BY <1>4, <1>5, <1>7, <1>8 DEF Sound, s

LEMMA DeliverInv ==
  ASSUME UdpInv, fwd.inbox # <<>>, Deliver(Head(fwd.inbox).from, Head(fwd.inbox).id),
         fwd' \in FwdType, fwd'.inbox = Tail(fwd.inbox)
  PROVE  UdpInv'
<1> DEFINE c == Head(fwd.inbox).from
           p == Head(fwd.inbox).id
           rest == Tail(fwd.inbox)
<1>1. /\ p \in Ids /\ c \in Clients /\ rest \in Seq(PacketType) /\ InOrder(rest)
      /\ \A i \in 1..Len(sess) : Below(sess[i], p)
      /\ \A m \in 1..Len(rest) : /\ rest[m].id \in Nat /\ p < rest[m].id
                                 /\ \A i \in 1..Len(sess) : Below(sess[i], rest[m].id)
  BY NextPacket
<1>2. /\ table \in Seq(EntryType) /\ sess \in Seq(SessType) /\ Len(sess) \in Nat
      /\ Len(table) <= Capacity /\ Len(table) \in Nat
      /\ \A k \in 1..Len(table) : table[k].id \in 1..Len(sess)
      /\ \A i \in 1..Len(sess) : sess[i] \in SessType /\ Sound(sess[i])
  BY DEF UdpInv, UdpTypeOK, Owned, SessionsOwned
<1>3. Deliver(c, p) /\ fwd'.inbox = rest
  OBVIOUS
<1> HIDE DEF c, p, rest
<1>4. CASE Has(c) /\ ~Expired(table[Entry(c)])
  <2> DEFINE e == Entry(c)
             id == table[e].id
             x == [client |-> c, id |-> id, idle |-> 0]
  <2>1. e \in 1..Len(table)
    BY <1>4 DEF Has, Entry
  <2> HIDE DEF e
  <2>2. table' = Append(RemoveAt(table, e), x) /\ sess' = [sess EXCEPT ![id] = TrySend(@, p)]
    BY <1>3, <1>4 DEF Deliver, Without, e
  <2>3. id \in 1..Len(sess) /\ id \in Nat
    BY <1>2, <2>1
  <2>4. x \in EntryType /\ x.id = id
    BY <1>1, <2>3 DEF EntryType
  <2> HIDE DEF x
  <2>5. table' \in Seq(EntryType) /\ Len(table') = Len(table) /\ InTable(table') = InTable(table)
    BY <1>2, <2>1, <2>2, <2>4, Refreshed
  <2> HIDE DEF id
  <2>6. /\ TrySend(sess[id], p) \in SessType /\ Sound(TrySend(sess[id], p))
        /\ \A n \in Nat : Below(sess[id], n) /\ p < n => Below(TrySend(sess[id], p), n)
        /\ TrySend(sess[id], p).phase = sess[id].phase
        /\ TrySend(sess[id], p).aborted = sess[id].aborted
    BY <1>1, <1>2, <2>3, TrySendMoves
  <2>7. /\ sess' \in Seq(SessType) /\ Len(sess') = Len(sess) /\ sess'[id] = TrySend(sess[id], p)
        /\ \A i \in 1..Len(sess) : i # id => sess'[i] = sess[i]
    BY <1>2, <2>2, <2>3, <2>6
  <2>8. \A i \in 1..Len(sess) : Sound(sess'[i])
    BY <1>2, <2>6, <2>7
  <2>9. Coming'
    <3>1. ASSUME NEW i \in 1..Len(sess), NEW m \in 1..Len(rest) PROVE Below(sess'[i], rest[m].id)
      BY <1>1, <2>6, <2>7
    <3> QED
      BY <1>1, <1>3, <2>7, <3>1 DEF Coming
  <2>10. Owned'
    <3>1. \A i \in 1..Len(sess) : sess'[i].phase = sess[i].phase /\ sess'[i].aborted = sess[i].aborted
      BY <2>6, <2>7
    <3>2. \A k \in 1..Len(table') : table'[k].id \in 1..Len(sess)
      <4>1. InTable(table) \subseteq 1..Len(sess)
        BY <1>2 DEF InTable
      <4> QED
        BY <2>5, <4>1 DEF InTable
    <3>3. \A i \in 1..Len(sess) : sess'[i].phase # "ended" /\ ~sess'[i].aborted => i \in InTable(table')
      BY <2>5, <3>1 DEF UdpInv, Owned, SessionsOwned
    <3>4. InTable(table)' = InTable(table')
      BY DEF InTable
    <3> QED
      BY <1>2, <2>5, <2>7, <3>2, <3>3, <3>4 DEF Owned, SessionsOwned
  <2> QED
    BY <2>5, <2>7, <2>8, <2>9, <2>10 DEF UdpInv, UdpTypeOK
<1>5. CASE ~(Has(c) /\ ~Expired(table[Entry(c)]))
  <2> DEFINE room == Fresh(table)
             kept == IF Len(room) = Capacity THEN Tail(room) ELSE room
             x == [client |-> c, id |-> Len(sess) + 1, idle |-> 0]
             t == Append(kept, x)
  <2>1. PICK viaRule \in BOOLEAN :
          /\ table' = t
          /\ sess' = Append(AbortGone(sess, t), NewSession(c, p, viaRule))
    BY <1>3, <1>5 DEF Deliver
  <2>2. room \in Seq(EntryType) /\ Len(room) <= Len(table) /\ InTable(room) \subseteq InTable(table)
    BY <1>2, FreshTable
  <2> HIDE DEF room
  <2>3. /\ kept \in Seq(EntryType) /\ Len(kept) < Capacity
        /\ \A k \in 1..Len(kept) : kept[k].id \in 1..Len(sess)
    <3>1. \A k \in 1..Len(room) : room[k].id \in 1..Len(sess)
      BY <1>2, <2>2 DEF InTable
    <3>2. CASE Len(room) = Capacity
      <4>1. /\ kept = Tail(room) /\ Capacity \in Nat \ {0}
        BY <3>2, UdpAssumption
      <4>2. /\ kept \in Seq(EntryType) /\ Len(kept) = Capacity - 1
            /\ \A k \in 1..Len(kept) : kept[k] = room[k + 1] /\ k + 1 \in 1..Len(room)
        BY <2>2, <3>2, <4>1
      <4> QED
        BY <3>1, <4>1, <4>2
    <3>3. CASE Len(room) # Capacity
      <4>1. Len(room) \in Nat /\ Capacity \in Nat
        BY <2>2, UdpAssumption
      <4> QED
        BY <1>2, <2>2, <3>1, <3>3, <4>1
    <3> QED
      BY <3>2, <3>3
  <2> HIDE DEF kept
  <2>4. x \in EntryType /\ x.id = Len(sess) + 1
    BY <1>1, <1>2 DEF EntryType
  <2> HIDE DEF x
  <2>5. /\ t \in Seq(EntryType) /\ Len(t) = Len(kept) + 1 /\ t[Len(t)] = x /\ Len(kept) \in Nat
        /\ \A k \in 1..Len(kept) : t[k] = kept[k]
    BY <2>3, <2>4
  <2> HIDE DEF t
  <2>6. \A k \in 1..Len(t) : t[k].id \in 1..Len(sess) + 1
    <3> TAKE k \in 1..Len(t)
    <3>1. CASE k = Len(t)
      BY <1>2, <2>4, <2>5, <3>1
    <3>2. CASE k # Len(t)
      <4>1. k \in 1..Len(kept)
        BY <2>5, <3>2
      <4>2. t[k].id \in 1..Len(sess)
        BY <2>3, <2>5, <4>1
      <4> QED
        BY <1>2, <4>2
    <3> QED
      BY <3>1, <3>2
  <2>7. Len(sess) + 1 \in InTable(t) /\ Len(t) <= Capacity
    <3>1. Len(t) \in 1..Len(t) /\ Len(t) <= Capacity
      BY <2>3, <2>5, UdpAssumption
    <3> QED
      BY <2>4, <2>5, <3>1 DEF InTable
  <2> DEFINE A == AbortGone(sess, t)
             s == NewSession(c, p, viaRule)
  <2>8. /\ A \in Seq(SessType) /\ Len(A) = Len(sess)
        /\ \A i \in 1..Len(sess) : Moves(sess[i], A[i])
        /\ \A i \in 1..Len(sess) : A[i].phase # "ended" /\ ~A[i].aborted => i \in InTable(t)
    BY AbortGoneMoves
  <2>9. s \in SessType /\ Sound(s) /\ \A n \in Nat : p < n => Below(s, n)
    BY <1>1, NewSessionSound
  <2>10. sess' = Append(A, s)
    BY <2>1
  <2> HIDE DEF A, s
  <2>11. /\ sess' \in Seq(SessType) /\ Len(sess') = Len(sess) + 1 /\ sess'[Len(sess) + 1] = s
         /\ \A i \in 1..Len(sess) : sess'[i] = A[i]
    BY <2>8, <2>9, <2>10
  <2>12. \A i \in 1..Len(sess') : i \in 1..Len(sess) \/ i = Len(sess) + 1
    BY <1>2, <2>11
  <2>13. \A i \in 1..Len(sess') : Sound(sess'[i])
    BY <2>8, <2>9, <2>11, <2>12 DEF Moves
  <2>14. Coming'
    <3>1. ASSUME NEW i \in 1..Len(sess'), NEW m \in 1..Len(rest) PROVE Below(sess'[i], rest[m].id)
      <4>1. CASE i \in 1..Len(sess)
        BY <1>1, <2>8, <2>11, <4>1 DEF Moves
      <4>2. CASE i = Len(sess) + 1
        BY <1>1, <2>9, <2>11, <4>2
      <4> QED
        BY <2>12, <4>1, <4>2
    <3> QED
      BY <1>1, <1>3, <3>1 DEF Coming
  <2>15. Owned'
    <3>1. \A i \in 1..Len(sess') : sess'[i].phase # "ended" /\ ~sess'[i].aborted => i \in InTable(t)
      BY <2>7, <2>8, <2>11, <2>12
    <3>2. table' = t /\ InTable(table)' = InTable(t)
      BY <2>1 DEF InTable
    <3> QED
      BY <2>6, <2>7, <2>11, <3>1, <3>2 DEF Owned, SessionsOwned
  <2> QED
    BY <2>1, <2>5, <2>11, <2>13, <2>14, <2>15 DEF UdpInv, UdpTypeOK
<1> QED
  BY <1>4, <1>5

-----------------------------------------------------------------------------
(* Steps of the forwarder.                                                   *)
\* The forwarder changes none of its packets, no entry and no session.
LEMMA FwdOnly ==
  ASSUME UdpInv, fwd' \in FwdType, UNCHANGED <<table, sess>>,
         fwd'.inbox = fwd.inbox \/ (fwd.inbox # <<>> /\ fwd'.inbox = Tail(fwd.inbox))
  PROVE  UdpInv'
<1>1. Coming'
  <2>1. CASE fwd'.inbox = fwd.inbox
    BY <2>1 DEF UdpInv, Coming
  <2>2. CASE fwd.inbox # <<>> /\ fwd'.inbox = Tail(fwd.inbox)
    <3>1. InOrder(Tail(fwd.inbox)) /\ \A m \in 1..Len(Tail(fwd.inbox)), i \in 1..Len(sess) :
                                         Below(sess[i], Tail(fwd.inbox)[m].id)
      BY <2>2, NextPacket
    <3> QED
      BY <2>2, <3>1 DEF Coming
  <2> QED
    BY <2>1, <2>2
<1>2. Owned'
  BY DEF UdpInv, Owned, SessionsOwned, InTable
<1> QED
  BY <1>1, <1>2 DEF UdpInv, UdpTypeOK

LEMMA RecvPacketInv == ASSUME UdpInv, RecvPacket PROVE UdpInv'
<1> DEFINE p == Head(fwd.inbox)
<1>1. fwd \in FwdType /\ fwd.inbox # <<>>
  BY DEF UdpInv, UdpTypeOK, RecvPacket
<1>2. p.id \in Nat /\ Tail(fwd.inbox) \in Seq(PacketType)
  BY <1>1, NextPacket DEF Ids
<1>3. fwd.filled \in Seq(Nat) /\ Append(fwd.filled, p.id) \in Seq(Nat) /\ <<>> \in Seq(Nat)
  BY <1>1, <1>2 DEF FwdType
<1>4. ASSUME NEW f \in Seq(Nat), fwd' = [fwd EXCEPT !.inbox = Tail(@), !.filled = f]
      PROVE  fwd' \in FwdType /\ fwd'.inbox = Tail(fwd.inbox)
  BY <1>1, <1>2, <1>4 DEF FwdType
<1>5. CASE HandsOn(p)
  <2>1. Deliver(p.from, p.id) /\ fwd' = [fwd EXCEPT !.inbox = Tail(@), !.filled = <<>>]
    BY <1>1, <1>5 DEF RecvPacket, FwdType
  <2>2. fwd' \in FwdType /\ fwd'.inbox = Tail(fwd.inbox)
    BY <1>3, <1>4, <2>1
  <2> QED
    BY <1>1, <2>1, <2>2, DeliverInv
<1>6. CASE ~HandsOn(p)
  <2>1. /\ UNCHANGED <<table, sess>>
        /\ fwd' = [[fwd EXCEPT !.inbox = Tail(@)]
                     EXCEPT !.filled = IF fwd.kind = "ss" THEN Append(@, p.id) ELSE <<>>]
    BY <1>6 DEF RecvPacket
  <2>2. PICK f \in Seq(Nat) : fwd' = [fwd EXCEPT !.inbox = Tail(@), !.filled = f]
    <3>1. CASE fwd.kind = "ss"
      <4>1. fwd' = [fwd EXCEPT !.inbox = Tail(@), !.filled = Append(fwd.filled, p.id)]
        BY <1>1, <2>1, <3>1 DEF FwdType
      <4> QED
        BY <1>3, <4>1
    <3>2. CASE fwd.kind # "ss"
      <4>1. fwd' = [fwd EXCEPT !.inbox = Tail(@), !.filled = <<>>]
        BY <1>1, <2>1, <3>2 DEF FwdType
      <4> QED
        BY <1>3, <4>1
    <3> QED
      BY <3>1, <3>2
  <2>3. fwd' \in FwdType /\ fwd'.inbox = Tail(fwd.inbox)
    BY <1>4, <2>2
  <2> QED
    BY <1>1, <2>1, <2>3, FwdOnly
<1> QED
  BY <1>5, <1>6

LEMMA ForwarderInv ==
  ASSUME UdpInv, RecvFails \/ RecvPending \/ SendBack \/ Resolve
  PROVE  UdpInv'
<1>1. fwd \in FwdType /\ fwd.back \in Seq(Nat) /\ <<>> \in Seq(Nat)
  BY DEF UdpInv, UdpTypeOK, FwdType
<1>2. CASE RecvPending
  <2>1. fwd' \in FwdType /\ fwd'.inbox = fwd.inbox /\ UNCHANGED <<table, sess>>
    BY <1>1, <1>2 DEF RecvPending, FwdType
  <2> QED
    BY <2>1, FwdOnly
<1>3. CASE SendBack
  <2>1. UNCHANGED <<table, sess>>
    BY <1>3 DEF SendBack
  <2>2. CASE fwd.back # <<>> /\ fwd' = [fwd EXCEPT !.slot = Head(fwd.back), !.back = Tail(@)]
    <3>1. Head(fwd.back) \in Nat /\ Tail(fwd.back) \in Seq(Nat)
      BY <1>1, <2>2
    <3>2. fwd' \in FwdType /\ fwd'.inbox = fwd.inbox
      BY <1>1, <2>2, <3>1 DEF FwdType
    <3> QED
      BY <2>1, <3>2, FwdOnly
  <2>3. CASE fwd' = [fwd EXCEPT !.slot = 0] \/ fwd' = [fwd EXCEPT !.state = "ended"]
    <3>1. CASE fwd' = [fwd EXCEPT !.slot = 0]
      <4>1. fwd' \in FwdType
        BY <1>1, <3>1 DEF FwdType
      <4>2. fwd'.inbox = fwd.inbox
        BY <1>1, <3>1 DEF FwdType
      <4> QED
        BY <2>1, <4>1, <4>2, FwdOnly
    <3>2. CASE fwd' = [fwd EXCEPT !.state = "ended"]
      <4>1. fwd' \in FwdType
        BY <1>1, <3>2 DEF FwdType
      <4>2. fwd'.inbox = fwd.inbox
        BY <1>1, <3>2 DEF FwdType
      <4> QED
        BY <2>1, <4>1, <4>2, FwdOnly
    <3> QED
      BY <2>3, <3>1, <3>2
  <2> QED
    BY <1>3, <2>2, <2>3 DEF SendBack
<1>5. CASE RecvFails
  <2>1. fwd' \in FwdType /\ fwd'.inbox = fwd.inbox /\ UNCHANGED <<table, sess>>
    BY <1>1, <1>5 DEF RecvFails, FwdType
  <2> QED
    BY <2>1, FwdOnly
<1>4. CASE Resolve
  <2>1. fwd' \in FwdType /\ fwd'.inbox = fwd.inbox /\ UNCHANGED <<table, sess>>
    BY <1>1, <1>4 DEF Resolve, FwdType
  <2> QED
    BY <2>1, FwdOnly
<1> QED
  BY <1>2, <1>3, <1>4, <1>5

LEMMA TableStepsInv ==
  ASSUME UdpInv, DropForward \/ ClearExpired \/ Tick
  PROVE  UdpInv'
<1>1. table \in Seq(EntryType) /\ Len(table) <= Capacity /\ Capacity \in Nat /\ Len(table) \in Nat
  BY UdpAssumption DEF UdpInv, UdpTypeOK, Owned, SessionsOwned
<1>2. CASE DropForward
  <2>1. <<>> \in Seq(EntryType) /\ Len(<<>>) <= Capacity /\ InTable(<<>>) \subseteq InTable(table)
    BY <1>1 DEF InTable
  <2> QED
    BY <1>2, <2>1, ShrinkInv DEF DropForward
<1>3. CASE ClearExpired
  <2>1. /\ Fresh(table) \in Seq(EntryType) /\ Len(Fresh(table)) <= Len(table)
        /\ InTable(Fresh(table)) \subseteq InTable(table)
    BY <1>1, FreshTable
  <2>2. Len(Fresh(table)) <= Capacity
    BY <1>1, <2>1
  <2> QED
    BY <1>3, <2>1, <2>2, ShrinkInv DEF ClearExpired
<1>4. CASE Tick
  <2>1. /\ table' = [k \in 1..Len(table) |-> [table[k] EXCEPT !.idle = Smaller(Ttl, @ + 1)]]
        /\ UNCHANGED <<fwd, sess>>
    BY <1>4 DEF Tick
  <2>2. ASSUME NEW k \in 1..Len(table) PROVE table'[k] \in EntryType /\ table'[k].id = table[k].id
    <3>0. table[k] \in EntryType
      BY <1>1
    <3>1. table[k] \in EntryType /\ table[k].idle \in Nat
      BY <3>0 DEF EntryType
    <3>2. Smaller(Ttl, table[k].idle + 1) \in Nat
      BY <3>1, UdpAssumption DEF Smaller
    <3> QED
      BY <2>1, <3>1, <3>2 DEF EntryType
  <2>3. table' \in Seq(EntryType) /\ Len(table') = Len(table)
    BY <1>1, <2>1, <2>2
  <2>4. InTable(table)' = InTable(table)
    BY <2>2, <2>3 DEF InTable
  <2>5. Owned'
    BY <2>1, <2>2, <2>3, <2>4 DEF UdpInv, Owned, SessionsOwned
  <2>6. Coming'
    BY <2>1 DEF UdpInv, Coming
  <2> QED
    BY <2>1, <2>3, <2>5, <2>6 DEF UdpInv, UdpTypeOK
<1> QED
  BY <1>2, <1>3, <1>4

LEMMA UdpStartInv == UdpStart => UdpInv
<1> SUFFICES ASSUME NEW kind \in Kinds, NEW packets \in Seq(PacketType), InOrder(packets),
                    UdpInit(kind, packets)
             PROVE  UdpInv
  BY DEF UdpStart
<1>1. fwd \in FwdType /\ fwd.inbox = packets
  BY DEF UdpInit, FwdType
<1>2. table \in Seq(EntryType) /\ sess \in Seq(SessType) /\ Len(table) = 0 /\ Len(sess) = 0
  BY DEF UdpInit
<1>3. 1..Len(sess) = {} /\ 1..Len(table) = {}
  BY <1>2
<1>4. Owned
  BY <1>2, <1>3, UdpAssumption DEF Owned, SessionsOwned
<1>5. Coming
  BY <1>1, <1>3 DEF Coming
<1> QED
  BY <1>1, <1>2, <1>3, <1>4, <1>5 DEF UdpInv, UdpTypeOK

LEMMA UdpStepInv == UdpInv /\ [UdpNext]_udpVars => UdpInv'
<1> SUFFICES ASSUME UdpInv, [UdpNext]_udpVars PROVE UdpInv'
  OBVIOUS
<1>1. CASE ForwardStep \/ Tick
  BY <1>1, RecvPacketInv, ForwarderInv, TableStepsInv DEF ForwardStep
<1>2. ASSUME NEW i \in 1..Len(sess), SessionStep(i) \/ Bind(i) \/ SocketReady(i) \/ RemoteReplies(i)
      PROVE  UdpInv'
  <2>1. SessionMoves(i)
    BY <1>2, FillStep, DrainStep, SendOutStep, RecvOutStep, PollStep, OtherSteps DEF SessionStep
  <2> QED
    BY <2>1, OneSession
<1>3. CASE UNCHANGED udpVars
  <2>1. fwd' = fwd /\ table' = table /\ sess' = sess
    BY <1>3 DEF udpVars
  <2> QED
    BY <2>1, FwdOnly DEF UdpInv, UdpTypeOK
<1> QED
  BY <1>1, <1>2, <1>3 DEF UdpNext

LEMMA UdpInvariant == UdpSpec => []UdpInv
BY UdpStartInv, UdpStepInv, PTL DEF UdpSpec

-----------------------------------------------------------------------------
\* A session task that may go on owns an entry of the table, and the table never
\* outgrows its capacity: eviction, expiry and the end of the forwarder abort what
\* they drop (Drop for UdpConnection), in whatever order sessions come and go.
THEOREM SessionsStayOwned == UdpSpec => []SessionsOwned
<1>1. UdpInv => SessionsOwned
  BY DEF UdpInv, Owned
<1> QED
  BY <1>1, UdpInvariant, PTL

\* A session sends its client's packets in the order they came and each once, the
\* first one of a UdpConnector twice, whatever its channel drops and however its
\* queue grows, fills and blocks.
THEOREM PacketsSentInOrder == UdpSpec => []SentInOrder
<1>1. UdpInv => SentInOrder
  <2> SUFFICES ASSUME UdpInv, NEW i \in 1..Len(sess)
               PROVE  LET s == sess[i]  q == Queued(s) IN
                      /\ \A k \in 1..Len(q) - 1 : q[k] < q[k + 1]
                      /\ q # <<>> => s.last < q[1] \/ (s.conn = "bound" /\ s.last = q[1] /\ s.times = 1)
                      /\ s.times <= IF s.conn = "bound" THEN 2 ELSE 1
    BY DEF SentInOrder
  <2> DEFINE q == Queued(sess[i])
  <2>1. sess[i] \in SessType /\ Sound(sess[i])
    BY SessionFacts
  <2>2. q \in Seq(Ids) /\ Rising(q) /\ Len(q) \in Nat
    BY <2>1, QueuedSeq DEF Sound, Ordered
  <2>3. ASSUME NEW k \in 1..Len(q) - 1 PROVE q[k] < q[k + 1]
    <3>1. k \in 1..Len(q) /\ k + 1 \in 1..Len(q) /\ k < k + 1
      BY <2>2
    <3> HIDE DEF q
    <3> QED
      BY <2>2, <3>1 DEF Rising
  <2> QED
    BY <2>1, <2>3 DEF Sound, Ordered
<1> QED
  BY <1>1, UdpInvariant, PTL

\* A sleeping session that could pass on or read a packet has registered the waker of
\* what it waits for: neither loop of poll_send_to and poll_recv_from leaves without one.
THEOREM WakersKept == UdpSpec => []NoWakerLost
<1>1. UdpInv => NoWakerLost
  <2> SUFFICES ASSUME UdpInv, NEW i \in 1..Len(sess), NEW d \in Dirs, Asleep(sess[i]),
                      CanPass(sess[i], d) \/ CanRead(sess[i], d)
               PROVE  Woken(sess[i], d) \/ AwaitsWriter(sess[i], d)
    BY DEF NoWakerLost
  <2>1. Waits(sess[i].buf[d]) /\ sess[i].buf[d].pc = "wait"
    BY SessionFacts DEF Sound, Wakeful, Asleep
  <2>2. CASE CanPass(sess[i], d)
    BY <2>1, <2>2 DEF Waits, CanPass, OutReady, Woken, Dirs
  <2>3. CASE CanRead(sess[i], d)
    BY <2>1, <2>3 DEF Waits, CanRead, OutReady, Woken, AwaitsWriter, Dirs
  <2> QED
    BY <2>2, <2>3
<1> QED
  BY <1>1, UdpInvariant, PTL

-----------------------------------------------------------------------------
(* The TCP relay on its own.                                                 *)
TcpSpec == (\E patient \in BOOLEAN : TcpInit(patient, "run")) /\ [][TcpNext]_tcpVars

PeerType == [sent : Nat, inflight : Nat, got : Nat, closed : BOOLEAN, patient : BOOLEAN]
XferType == [st : {"Running", "ShuttingDown", "Done"}, held : Nat, read_done : BOOLEAN,
             need_flush : BOOLEAN, unflushed : Nat]
TcpTypeOK == /\ peer \in [Ends -> PeerType]
             /\ xfer \in [Ends -> XferType]
             /\ relay \in {"run", "done", "failed"}

\* What x sent is on the wire, in its CopyBuffer, with the writer, or arrived.
Balanced(x) == peer[x].sent = peer[x].inflight + xfer[x].held + xfer[x].unflushed
                                + peer[Other(x)].got
\* A closed end sends no more, the end of a stream is seen behind its last byte,
\* and the writer is shut down when nothing is left to write or to flush.
Ended(x) == /\ peer[x].closed => peer[x].sent = Due(x)
            /\ xfer[x].read_done => peer[x].closed /\ peer[x].inflight = 0
            /\ xfer[x].st # "Running" => /\ xfer[x].read_done /\ xfer[x].held = 0
                                         /\ xfer[x].unflushed = 0
TcpInv == TcpTypeOK /\ \A x \in Ends : Balanced(x) /\ Ended(x)

LEMMA TcpInitInv == ASSUME NEW patient \in BOOLEAN, TcpInit(patient, "run") PROVE TcpInv
<1>1. TcpTypeOK
  BY DEF TcpInit, TcpTypeOK, PeerType, XferType, Ends
<1>2. \A x \in Ends : Balanced(x) /\ Ended(x)
  BY DEF TcpInit, Balanced, Ended, Ends, Other
<1> QED
  BY <1>1, <1>2 DEF TcpInv

LEMMA OtherEnd == \A x \in Ends : Other(x) \in Ends /\ Other(x) # x /\ Other(Other(x)) = x
BY DEF Ends, Other

LEMMA DueNat == \A x \in Ends : Due(x) \in Nat
BY TcpAssumption DEF Ends, Due

LEMMA TcpStepInv == TcpInv /\ [TcpNext]_tcpVars => TcpInv'
<1> SUFFICES ASSUME TcpInv, [TcpNext]_tcpVars PROVE TcpInv'
  OBVIOUS
<1> USE DEF TcpInv, TcpTypeOK, PeerType, XferType
<1>1. ASSUME NEW x \in Ends, Read(x) PROVE TcpInv'
  <2> DEFINE y == Other(x)
  <2>0. y \in Ends /\ x # y /\ Other(y) = x /\ \A z \in Ends : z = x \/ z = y
    BY DEF Ends, Other
  <2>1. CASE \E n \in 1..Least(BufSize, peer[x].inflight) :
                   /\ xfer' = [xfer EXCEPT ![x].held = n]
                   /\ peer' = [peer EXCEPT ![x].inflight = @ - n]
    <3>1. PICK n \in 1..Least(BufSize, peer[x].inflight) :
                   /\ xfer' = [xfer EXCEPT ![x].held = n]
                   /\ peer' = [peer EXCEPT ![x].inflight = @ - n]
      BY <2>1
    <3>2. n \in Nat /\ n <= peer[x].inflight /\ relay' = relay
      BY <1>1, TcpAssumption DEF Least, Read
    <3>3. TcpTypeOK'
      BY <3>1, <3>2, SMTT(30)
    <3>4. Balanced(x)' /\ Ended(x)' /\ Balanced(y)' /\ Ended(y)'
      BY <1>1, <3>1, <3>2, <2>0 DEF Balanced, Ended, Read, Copying
    <3> QED
      BY <3>3, <3>4, <2>0
  <2>2. CASE /\ peer[x].inflight = 0 /\ peer[x].closed
             /\ xfer' = [xfer EXCEPT ![x].read_done = TRUE] /\ UNCHANGED peer
    <3>3. TcpTypeOK'
      BY <2>2, <1>1 DEF Read
    <3>4. Balanced(x)' /\ Ended(x)' /\ Balanced(y)' /\ Ended(y)'
      BY <1>1, <2>2, <2>0 DEF Balanced, Ended, Read, Copying
    <3> QED
      BY <3>3, <3>4, <2>0
  <2> QED
    BY <1>1, <2>1, <2>2 DEF Read
<1>2. ASSUME NEW x \in Ends, FlushOnPending(x) PROVE TcpInv'
  <2> DEFINE y == Other(x)
  <2>0. y \in Ends /\ x # y /\ Other(y) = x /\ \A z \in Ends : z = x \/ z = y
    BY DEF Ends, Other
  <2>1. TcpTypeOK'
    <3>1. xfer[x].unflushed \in Nat /\ peer[y].got + xfer[x].unflushed \in Nat
      BY <2>0
    <3>2. peer' \in [Ends -> PeerType]
      BY <1>2, <2>0, <3>1 DEF FlushOnPending
    <3>3. xfer' \in [Ends -> XferType] /\ relay' = relay
      BY <1>2 DEF FlushOnPending
    <3> QED
      BY <3>2, <3>3
  <2>2. Balanced(x)' /\ Ended(x)' /\ Balanced(y)' /\ Ended(y)'
    BY <1>2, <2>0 DEF Balanced, Ended, FlushOnPending, Copying
  <2> QED
    BY <2>0, <2>1, <2>2
<1>3. ASSUME NEW x \in Ends, Write(x) PROVE TcpInv'
  <2> DEFINE y == Other(x)
  <2>0. y \in Ends /\ x # y /\ Other(y) = x /\ \A z \in Ends : z = x \/ z = y
    BY DEF Ends, Other
  <2>1. PICK n \in 1..xfer[x].held, m \in 0..xfer[x].unflushed + xfer[x].held :
                 /\ m <= xfer[x].unflushed + n
                 /\ xfer' = [xfer EXCEPT ![x].held = @ - n, ![x].need_flush = TRUE,
                                         ![x].unflushed = @ + n - m]
                 /\ peer' = [peer EXCEPT ![Other(x)].got = @ + m]
    BY <1>3 DEF Write
  <2>2. TcpTypeOK'
    <3>1. n \in Nat /\ m \in Nat /\ n <= xfer[x].held /\ peer[y].got + m \in Nat
      BY <2>0
    <3>2. xfer[x].held - n \in Nat /\ xfer[x].unflushed + n - m \in Nat
      BY <2>1, <3>1
    <3>3. peer' \in [Ends -> PeerType]
      BY <2>0, <2>1, <3>1
    <3>4. [xfer[x] EXCEPT !.held = @ - n, !.need_flush = TRUE,
                          !.unflushed = @ + n - m] \in XferType
      BY <3>2
    <3>5. xfer' \in [Ends -> XferType]
      BY <2>1, <3>4
    <3>6. relay' = relay
      BY <1>3 DEF Write
    <3> QED
      BY <3>3, <3>5, <3>6
  <2>3. Balanced(x)' /\ Ended(x)' /\ Balanced(y)' /\ Ended(y)'
    BY <1>3, <2>0, <2>1 DEF Balanced, Ended, Write, Copying
  <2> QED
    BY <2>0, <2>2, <2>3
<1>4. ASSUME NEW x \in Ends, FinishCopy(x) PROVE TcpInv'
  <2> DEFINE y == Other(x)
  <2>0. y \in Ends /\ x # y /\ Other(y) = x /\ \A z \in Ends : z = x \/ z = y
    BY DEF Ends, Other
  <2>1. TcpTypeOK'
    <3>1. xfer[x].unflushed \in Nat /\ peer[y].got + xfer[x].unflushed \in Nat
      BY <2>0
    <3>2. peer' \in [Ends -> PeerType]
      BY <1>4, <2>0, <3>1 DEF FinishCopy
    <3>3. xfer' \in [Ends -> XferType] /\ relay' = relay
      BY <1>4, ZenonT(60) DEF FinishCopy
    <3> QED
      BY <3>2, <3>3
  <2>2. Balanced(x)' /\ Ended(x)' /\ Balanced(y)' /\ Ended(y)'
    BY <1>4, <2>0 DEF Balanced, Ended, FinishCopy, Copying
  <2> QED
    BY <2>0, <2>1, <2>2
<1>5. ASSUME NEW x \in Ends, Shutdown(x) PROVE TcpInv'
  <2> DEFINE y == Other(x)
  <2>0. y \in Ends /\ x # y /\ Other(y) = x /\ \A z \in Ends : z = x \/ z = y
    BY DEF Ends, Other
  <2>1. TcpTypeOK'
    BY <1>5, <2>0 DEF Shutdown
  <2>2. Balanced(x)' /\ Ended(x)' /\ Balanced(y)' /\ Ended(y)'
    BY <1>5, <2>0 DEF Balanced, Ended, Shutdown
  <2> QED
    BY <2>0, <2>1, <2>2
<1>6. ASSUME NEW x \in Ends, PeerSends(x) PROVE TcpInv'
  <2> DEFINE y == Other(x)
  <2>0. y \in Ends /\ x # y /\ Other(y) = x /\ \A z \in Ends : z = x \/ z = y
    BY DEF Ends, Other
  <2>1. TcpTypeOK'
    BY <1>6, <2>0 DEF PeerSends
  <2>2. Due(x) \in Nat
    BY DueNat
  <2>3. /\ peer'[x] = [peer[x] EXCEPT !.sent = @ + 1, !.inflight = @ + 1]
        /\ peer'[y] = peer[y] /\ xfer' = xfer
    BY <1>6, <2>0 DEF PeerSends
  <2>4. Balanced(x)' /\ Balanced(y)'
    BY <2>0, <2>3 DEF Balanced
  <2>5. ~peer[x].closed
    BY <1>6, <2>2 DEF PeerSends, Ended
  <2>6. Ended(x)' /\ Ended(y)'
    BY <2>0, <2>3, <2>5 DEF Ended
  <2> QED
    BY <2>0, <2>1, <2>4, <2>6
<1>7. ASSUME NEW x \in Ends, PeerCloses(x) PROVE TcpInv'
  <2> DEFINE y == Other(x)
  <2>0. y \in Ends /\ x # y /\ Other(y) = x /\ \A z \in Ends : z = x \/ z = y
    BY DEF Ends, Other
  <2>1. TcpTypeOK'
    BY <1>7, <2>0 DEF PeerCloses
  <2>2. Balanced(x)' /\ Ended(x)' /\ Balanced(y)' /\ Ended(y)'
    BY <1>7, <2>0 DEF Balanced, Ended, PeerCloses
  <2> QED
    BY <2>0, <2>1, <2>2
<1>8. CASE Finish \/ Fail \/ UNCHANGED tcpVars
  BY <1>8 DEF Finish, Fail, tcpVars, Balanced, Ended
<1> QED
  BY <1>1, <1>2, <1>3, <1>4, <1>5, <1>6, <1>7, <1>8 DEF TcpNext, TcpStep

\* A relay that has shut a stream down has first handed over every byte that was
\* sent on it, those in its CopyBuffer and those the writer had not flushed included
\* (CopyBuffer::poll_copy and transfer_one_direction).
THEOREM EofBehindData == TcpSpec => []EofAfterAll
<1>1. (\E patient \in BOOLEAN : TcpInit(patient, "run")) => TcpInv
  BY TcpInitInv
<1>2. TcpInv => EofAfterAll
  BY OtherEnd DEF TcpInv, TcpTypeOK, PeerType, XferType, Balanced, Ended, EofAfterAll
<1> QED
  BY <1>1, <1>2, TcpStepInv, PTL DEF TcpSpec

-----------------------------------------------------------------------------
(* The SNI sniffer on its own.                                               *)
SniSpec == (\E hello \in HelloSizes : SniInit(hello, "run")) /\ [][SniNext]_sniVars

SniffType == [st : {"WaitingHandshake", "Connecting", "Connected"}, buffer : Nat,
              elapsed : BOOLEAN, armed : BOOLEAN, dest : {"none", "domain", "addr"},
              future : {"none", "busy", "ok", "err"}, carried : Nat, up : Nat, lost : Nat,
              missed : BOOLEAN]
CopyType == [pc : {"write", "read", "sleep"}, woken : BOOLEAN, reads : BOOLEAN, pending : Nat,
             sent : Nat, eof : BOOLEAN, hello : Nat, relay : {"run", "done", "failed"}]
SniTypeOK == sniff \in SniffType /\ copy \in CopyType

\* Where the client's bytes may be in each state of SnifferTcp: before the decision
\* in its buffer only, while it connects with the task, then upstream.
Placed == /\ sniff.st = "WaitingHandshake" => /\ sniff.dest = "none" /\ sniff.future = "none"
                                              /\ sniff.carried = 0 /\ sniff.up = 0
                                              /\ sniff.buffer <= BufferSize
          /\ sniff.st = "Connecting" => sniff.future # "none" /\ sniff.buffer = 0
          /\ sniff.st = "Connected" => sniff.future = "ok" /\ sniff.buffer = 0
          /\ sniff.future = "busy" => sniff.st = "Connecting" /\ sniff.up = 0
          /\ sniff.future = "ok" => sniff.carried = 0
SniInv == SniTypeOK /\ Placed /\ SniffKeepsBytes

LEMMA SniInitInv == ASSUME NEW hello \in HelloSizes, SniInit(hello, "run") PROVE SniInv
<1>1. hello \in Nat /\ BufferSize \in Nat
  BY SniAssumption
<1> QED
  BY <1>1 DEF SniInit, SniInv, SniTypeOK, SniffType, CopyType, Placed, SniffKeepsBytes

LEMMA SniStepInv == SniInv /\ [SniNext]_sniVars => SniInv'
<1> SUFFICES ASSUME SniInv, [SniNext]_sniVars PROVE SniInv'
  OBVIOUS
<1> USE SniAssumption DEF SniInv, SniTypeOK, SniffType, CopyType, Placed, SniffKeepsBytes, Running
<1>1. CASE ClientSends
  <2>1. SniTypeOK'
    <3>1. sniff' = sniff
      BY <1>1 DEF ClientSends
    <3>0. copy.sent + 1 \in Nat /\ copy.pending + 1 \in Nat
      OBVIOUS
    <3>2. copy.woken \/ copy.reads \in BOOLEAN
      BY Zenon
    <3> QED
      BY <1>1, <3>0, <3>1, <3>2 DEF ClientSends
  <2>2. Placed'
    BY <1>1 DEF ClientSends
  <2>3. SniffKeepsBytes'
    BY <1>1 DEF ClientSends
  <2> QED
    BY <2>1, <2>2, <2>3
<1>2. CASE ClientEnds
  BY <1>2 DEF ClientEnds
<1>3. CASE TimerFires
  <2>1. SniTypeOK'
    BY <1>3 DEF TimerFires
  <2>2. Placed'
    BY <1>3 DEF TimerFires
  <2>3. SniffKeepsBytes'
    BY <1>3 DEF TimerFires
  <2> QED
    BY <2>1, <2>2, <2>3
<1>4. CASE Connects
  <2>1. SniTypeOK'
    <3>1. CASE sniff' = [sniff EXCEPT !.future = "ok", !.up = sniff.carried, !.carried = 0]
      BY <1>4, <3>1 DEF Connects
    <3>2. ASSUME NEW n \in 0..sniff.carried,
                 sniff' = [sniff EXCEPT !.future = "err", !.up = n, !.lost = sniff.carried - n, !.carried = 0]
          PROVE  SniTypeOK'
      <4>1. n \in Nat /\ sniff.carried - n \in Nat
        OBVIOUS
      <4> QED
        BY <1>4, <3>2, <4>1 DEF Connects
    <3> QED
      BY <1>4, <3>1, <3>2 DEF Connects
  <2>2. Placed'
    BY <1>4 DEF Connects
  <2>3. SniffKeepsBytes'
    <3>1. copy' = [copy EXCEPT !.woken = TRUE] /\ sniff.future = "busy" /\ copy.relay = "run"
      BY <1>4 DEF Connects
    <3>2. CASE sniff' = [sniff EXCEPT !.future = "ok", !.up = sniff.carried, !.carried = 0]
      BY <3>1, <3>2
    <3>3. ASSUME NEW n \in 0..sniff.carried,
                 sniff' = [sniff EXCEPT !.future = "err", !.up = n, !.lost = sniff.carried - n, !.carried = 0]
          PROVE  SniffKeepsBytes'
      <4>1. /\ sniff'.up = n /\ sniff'.lost = sniff.carried - n /\ sniff'.carried = 0 /\ sniff'.future = "err"
            /\ sniff'.buffer = sniff.buffer /\ sniff'.st = "Connecting" /\ sniff'.dest = sniff.dest
            /\ copy'.sent = copy.sent /\ copy'.pending = copy.pending /\ copy'.relay = "run"
            /\ copy'.hello = copy.hello
        BY <3>1, <3>3
      <4>2. sniff.up = 0 /\ sniff.lost = 0 /\ sniff.buffer = 0
        BY <3>1
      <4> QED
        BY <3>3, <4>1, <4>2
    <3> QED
      BY <1>4, <3>2, <3>3 DEF Connects
  <2> QED
    BY <2>1, <2>2, <2>3
<1>5. CASE TakeOver
  <2>1. CASE sniff.st = "WaitingHandshake"
    <3> DEFINE n == IF copy.pending < BufferSize - sniff.buffer THEN copy.pending
                    ELSE BufferSize - sniff.buffer
    <3>1. n \in Nat /\ n <= copy.pending /\ n <= BufferSize - sniff.buffer
      BY <2>1
    <3>2. CASE n = 0
      <4>1. /\ copy' = [copy EXCEPT !.relay = "failed", !.pc = "sleep"]
            /\ sniff' = [sniff EXCEPT !.lost = @ + sniff.buffer + sniff.carried, !.buffer = 0, !.carried = 0]
        BY <1>5, <2>1, <3>2 DEF TakeOver, Stop
      <4>2. copy.pending > 0 /\ sniff.buffer = BufferSize
        BY <1>5, <2>1, <3>2 DEF TakeOver
      <4> QED
        <5>1. SniTypeOK'
          <6>1. sniff.lost + sniff.buffer + sniff.carried \in Nat
            OBVIOUS
          <6> QED
            BY <4>1, <6>1
        <5>2. Placed'
          BY <2>1, <4>1, <4>2
        <5>3. SniffKeepsBytes'
          BY <2>1, <4>1, <4>2
        <5> QED
          BY <5>1, <5>2, <5>3
    <3>3. CASE n # 0
      <4>1. /\ sniff' = [sniff EXCEPT !.buffer = @ + n]
            /\ copy' = [copy EXCEPT !.pending = @ - n, !.woken = TRUE]
        BY <1>5, <2>1, <3>3 DEF TakeOver
      <4>2. copy.relay = "run"
        BY <1>5 DEF TakeOver
      <4> HIDE DEF n
      <4> QED
        <5>1. SniTypeOK'
          <6>1. sniff.buffer + n \in Nat /\ copy.pending - n \in Nat
            BY <3>1
          <6> QED
            BY <4>1, <6>1
        <5>2. Placed'
          <6>1. /\ sniff'.st = "WaitingHandshake" /\ sniff'.dest = sniff.dest /\ sniff'.future = sniff.future
                /\ sniff'.carried = sniff.carried /\ sniff'.up = sniff.up /\ sniff'.buffer = sniff.buffer + n
            BY <2>1, <4>1
          <6>2. sniff.buffer + n <= BufferSize
            BY <3>1, SniAssumption
          <6> QED
            BY <2>1, <6>1, <6>2 DEF Placed
        <5>3. SniffKeepsBytes'
          <6>1. /\ sniff'.buffer = sniff.buffer + n /\ sniff'.up = 0 /\ sniff'.carried = 0
                /\ sniff'.st = "WaitingHandshake" /\ sniff'.dest = "none"
                /\ copy'.pending = copy.pending - n /\ copy'.sent = copy.sent
                /\ copy'.relay = "run"
            BY <2>1, <4>1, <4>2
          <6>2. copy.sent = sniff.buffer + copy.pending /\ sniff.lost = 0 /\ sniff'.lost = 0
            BY <2>1, <4>1, <4>2
          <6>3. copy'.sent = sniff'.up + sniff'.carried + sniff'.buffer + copy'.pending + sniff'.lost
            BY <3>1, <6>1, <6>2
          <6> QED
            BY <6>1, <6>2, <6>3
        <5> QED
          BY <5>1, <5>2, <5>3
    <3> QED
      BY <3>2, <3>3
  <2>2. CASE sniff.st = "Connecting"
    BY <1>5, <2>2, ZenonT(60) DEF TakeOver
  <2>3. CASE sniff.st = "Connected"
    <3>1. PICK n \in 1..copy.pending : /\ sniff' = [sniff EXCEPT !.up = @ + n]
                                       /\ copy' = [copy EXCEPT !.pending = @ - n]
      BY <1>5, <2>3 DEF TakeOver
    <3>2. copy.relay = "run"
      BY <1>5 DEF TakeOver
    <3> QED
      <4>1. SniTypeOK'
        BY <2>3, <3>1, <3>2
      <4>2. Placed'
        BY <2>3, <3>1, <3>2
      <4>3. SniffKeepsBytes'
        BY <2>3, <3>1, <3>2
      <4> QED
        BY <4>1, <4>2, <4>3
  <2> QED
    BY <2>1, <2>2, <2>3
<1>6. CASE WriteDone
  <2>1. CASE /\ copy' = [copy EXCEPT !.relay = "done", !.pc = "sleep"] /\ copy.eof /\ copy.pending = 0
             /\ sniff' = [sniff EXCEPT !.lost = @ + sniff.buffer + sniff.carried, !.buffer = 0, !.carried = 0]
    <3>1. SniTypeOK'
      <4>1. sniff.lost + sniff.buffer + sniff.carried \in Nat
        OBVIOUS
      <4> QED
        BY <2>1, <4>1
    <3>2. Placed'
      BY <2>1
    <3>3. SniffKeepsBytes'
      BY <2>1
    <3> QED
      BY <3>1, <3>2, <3>3
  <2>2. CASE copy' = [copy EXCEPT !.pc = "read", !.reads = TRUE] /\ UNCHANGED sniff
    BY <2>2
  <2> QED
    BY <1>6, <2>1, <2>2 DEF WriteDone, Stop
<1>7. CASE ReadWaiting
  <2>1. CASE GetSni /\ sniff' = Connecting("domain") /\ UNCHANGED copy
    <3>1. SniTypeOK'
      BY <1>7, <2>1 DEF ReadWaiting, Connecting, GetSni
    <3>2. Placed'
      BY <1>7, <2>1 DEF ReadWaiting, Connecting, GetSni
    <3>3. SniffKeepsBytes'
      BY <1>7, <2>1 DEF ReadWaiting, Connecting, GetSni
    <3> QED
      BY <3>1, <3>2, <3>3
  <2>2. CASE sniff' = Connecting("addr") /\ UNCHANGED copy
    <3>1. SniTypeOK'
      BY <1>7, <2>2 DEF ReadWaiting, Connecting
    <3>2. Placed'
      BY <1>7, <2>2 DEF ReadWaiting, Connecting
    <3>3. SniffKeepsBytes'
      BY <1>7, <2>2 DEF ReadWaiting, Connecting
    <3> QED
      BY <3>1, <3>2, <3>3
  <2>3. CASE sniff' = [sniff EXCEPT !.armed = TRUE] /\ Sleep
    <3>1. SniTypeOK'
      BY <1>7, <2>3 DEF ReadWaiting, Sleep
    <3>2. Placed'
      BY <1>7, <2>3 DEF ReadWaiting, Sleep
    <3>3. SniffKeepsBytes'
      BY <1>7, <2>3 DEF ReadWaiting, Sleep
    <3> QED
      BY <3>1, <3>2, <3>3
  <2>4. CASE sniff' = [sniff EXCEPT !.elapsed = TRUE, !.missed = TRUE] /\ Sleep
    BY <1>7, <2>4 DEF ReadWaiting, Sleep
  <2> QED
    BY <1>7, <2>1, <2>2, <2>3, <2>4 DEF ReadWaiting
<1>8. CASE ReadConnecting
  <2>0. copy.relay = "run" /\ sniff.st = "Connecting"
    BY <1>8 DEF ReadConnecting
  <2>1. CASE sniff.future = "busy" /\ Sleep /\ UNCHANGED sniff
    BY <2>0, <2>1 DEF Sleep
  <2>2. CASE sniff.future = "err" /\ Stop("failed")
    <3>1. /\ copy' = [copy EXCEPT !.relay = "failed", !.pc = "sleep"]
          /\ sniff' = [sniff EXCEPT !.lost = @ + sniff.buffer + sniff.carried, !.buffer = 0, !.carried = 0]
      BY <2>2 DEF Stop
    <3>2. SniTypeOK'
      <4>1. sniff.lost + sniff.buffer + sniff.carried \in Nat
        OBVIOUS
      <4> QED
        BY <3>1, <4>1
    <3>3. Placed'
      BY <2>0, <2>2, <3>1
    <3>4. SniffKeepsBytes'
      BY <2>0, <2>2, <3>1
    <3> QED
      BY <3>2, <3>3, <3>4
  <2>3. CASE /\ sniff.future = "ok" /\ sniff' = [sniff EXCEPT !.st = "Connected"]
             /\ copy' = [copy EXCEPT !.woken = TRUE]
    <3>1. SniTypeOK'
      BY <2>3
    <3>2. Placed'
      BY <2>0, <2>3
    <3>3. SniffKeepsBytes'
      BY <2>0, <2>3
    <3> QED
      BY <3>1, <3>2, <3>3
  <2> QED
    BY <1>8, <2>1, <2>2, <2>3 DEF ReadConnecting
<1>9. CASE ReadConnected
  BY <1>9 DEF ReadConnected, Sleep
<1>10. CASE Wake
  BY <1>10 DEF Wake
<1>11. CASE UNCHANGED sniVars
  BY <1>11 DEF sniVars
<1> QED
  BY <1>1, <1>2, <1>3, <1>4, <1>5, <1>6, <1>7, <1>8, <1>9, <1>10, <1>11 DEF SniNext, SniTask

\* The sniffer accounts for every byte the client wrote, whether it finds a name, runs
\* into its timer, the connection comes late or fails half-way: a stream that got
\* connected loses, repeats and reorders none, and the others lose what they hold only
\* for the three reasons the property names.  A name comes only from a whole hello.
THEOREM SnifferKeepsBytes == SniSpec => []SniffKeepsBytes
<1>1. (\E hello \in HelloSizes : SniInit(hello, "run")) => SniInv
  BY SniInitInv
<1>2. SniInv => SniffKeepsBytes
  BY DEF SniInv
<1> QED
  BY <1>1, <1>2, SniStepInv, PTL DEF SniSpec
=============================================================================
