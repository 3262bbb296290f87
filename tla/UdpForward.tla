----------------------------- MODULE UdpForward -----------------------------
(* The UDP data path of rd-std: forward_udp() takes packets from a source,   *)
(* keeps one session per client address in an LRU cache with a time to live, *)
(* and each session copies packets in both directions through CopyBuffers    *)
(* between the client's channels and a socket, which may be a UdpConnector   *)
(* that binds when its first packet is sent.  Payloads are packet numbers.   *)
(* One poll of CopyBidirectional is taken apart into its loop iterations;    *)
(* pc and reg say where the poll is and which wakers it has registered.      *)
EXTENDS Naturals, Sequences, FiniteSets, SequencesExt

CONSTANTS Capacity,     \* sessions the LRU cache holds (256)
          ChannelSize,  \* packets a channel holds (128)
          MaxBuffer,    \* packets a CopyBuffer holds (16)
          Ttl,          \* ticks of the time to live (30 s)
          MaxReplies,   \* bound: replies the remote side sends
          MaxSessions   \* bound: sessions opened

ASSUME UdpAssumption == {Capacity, ChannelSize, MaxBuffer, Ttl} \subseteq Nat \ {0}

VARIABLES fwd,      \* the ForwardUdp future: the source, its buffers, the send_buf slot
          table,    \* the LRU cache: client, session, time since its use; least recently used first
          sess      \* every session opened so far
udpVars == <<fwd, table, sess>>

Dirs == {"send", "recv"}
Unfilled == 0
NewBuffer == [pool |-> 1, queue |-> <<>>, pc |-> "fill", reg |-> {}]

-----------------------------------------------------------------------------
(* CopyBuffer of context/connect_udp.rs.                                     *)
Smaller(m, n) == IF m < n THEN m ELSE n
\* to_add of grow(): doubles what the queue holds, up to max_buffer_size.
Grown(b) == IF b.pool = 0
            THEN [b EXCEPT !.pool = Smaller(MaxBuffer, 2 * Len(b.queue)) - Len(b.queue)]
            ELSE b
BackIsUnfilled(b) == b.queue # <<>> /\ Last(b.queue) = Unfilled
\* borrow_back(): the unfilled packet at the back, or a new one from the pool.
CanBorrowBack(b) == BackIsUnfilled(b) \/ Grown(b).pool > 0
BorrowBack(b) == IF BackIsUnfilled(b) THEN b
                 ELSE [Grown(b) EXCEPT !.pool = @ - 1, !.queue = Append(@, Unfilled)]
\* Mutant of Filled: a new packet is put in front of those that wait.
FilledInFront(b, p) == [BorrowBack(b) EXCEPT !.queue = <<p>> \o Front(@)]
Filled(b, p) == LET n == BorrowBack(b) IN [n EXCEPT !.queue[Len(n.queue)] = p]
PopFront(b) == [b EXCEPT !.queue = Tail(@), !.pool = @ + 1]
FrontFilled(b) == b.queue # <<>> /\ Head(b.queue) # Unfilled

-----------------------------------------------------------------------------
(* The session table (UdpConnection, util/lru_cache.rs and lru_time_cache).  *)
Entry(c) == CHOOSE i \in 1..Len(table) : table[i].client = c
Has(c) == \E i \in 1..Len(table) : table[i].client = c
Without(c) == RemoveAt(table, Entry(c))
Expired(e) == e.idle >= Ttl
\* The cache drops from its front, the least recently used end, while that is expired.
Fresh(t) == LET n == CHOOSE n \in 0..Len(t) : /\ \A k \in 1..n : Expired(t[k])
                                              /\ n < Len(t) => ~Expired(t[n + 1])
            IN  SubSeq(t, n + 1, Len(t))
InTable(t) == {t[i].id : i \in 1..Len(t)}
\* Drop for UdpConnection: the task of an entry that left the table is aborted.
\* Mutant of AbortGone: the task is not aborted with its entry.
DetachGone(ss, t) == ss
AbortGone(ss, t) ==
  [i \in 1..Len(ss) |-> IF i \in InTable(table) \ InTable(t) THEN [ss[i] EXCEPT !.aborted = TRUE]
                        ELSE ss[i]]
NewSession(c, p, viaRule) ==
  [client |-> c, phase |-> "bind", aborted |-> FALSE,
   conn |-> IF viaRule THEN "idle" ELSE "plain", writable |-> TRUE,
   in |-> [send |-> <<p>>, recv |-> <<>>], last |-> 0, times |-> 0,
   buf |-> [d \in Dirs |-> NewBuffer]]
\* try_send: a full or closed channel drops the packet.
TrySend(s, p) == IF s.phase # "ended" /\ Len(s.in.send) < ChannelSize
                 THEN [s EXCEPT !.in.send = Append(@, p)] ELSE s

\* get(from) and UdpConnection::send: the entry is refreshed, or a new session
\* replaces the least recently used one.
Deliver(c, p) ==
  IF Has(c) /\ ~Expired(table[Entry(c)])
  THEN LET id == table[Entry(c)].id IN
       /\ table' = Append(Without(c), [client |-> c, id |-> id, idle |-> 0])
       /\ sess' = [sess EXCEPT ![id] = TrySend(@, p)]
  ELSE \E viaRule \in BOOLEAN :
       LET room == Fresh(table)
           kept == IF Len(room) = Capacity THEN Tail(room) ELSE room
           t == Append(kept, [client |-> c, id |-> Len(sess) + 1, idle |-> 0]) IN
       /\ Len(sess) < MaxSessions
       /\ table' = t
       /\ sess' = Append(AbortGone(sess, t), NewSession(c, p, viaRule))

-----------------------------------------------------------------------------
(* The source: RawUdpSource::poll_recv and poll_send.                        *)
\* Packets come as UdpInit says; when each one comes does not show, for a packet is
\* seen when the source reads it.  One that is not good does not decode, or is for
\* a destination the source skips (a domain, a broadcast or own address).
\* UdpSource of builtin/forward.rs waits for the resolved target; it resolves
\* again when the interval has passed, and an error ends the forwarder.
Resolve == /\ fwd.kind = "forward" /\ fwd.state = "run"
           /\ \/ ~fwd.resolved /\ fwd' = [fwd EXCEPT !.resolved = TRUE]
              \/ ~fwd.resolved /\ fwd' = [fwd EXCEPT !.state = "ended"]
              \/ fwd.resolved /\ ~fwd.stale
                 /\ fwd' = [fwd EXCEPT !.resolved = FALSE, !.stale = TRUE]
           /\ UNCHANGED <<table, sess>>

\* Whether poll_recv hands on the packet just read.  The forward and tproxy sources
\* hand on everything; the raw source reads again into the same place; the
\* Shadowsocks source decodes all that is filled, older bytes included.
RawSource(p) == p.good
SsSource(p) == p.good /\ fwd.filled = <<>>
HandsOn(p) == CASE fwd.kind = "raw" -> RawSource(p)
                [] fwd.kind = "ss" -> SsSource(p)
                [] OTHER -> TRUE

\* One iteration of poll_recv_packet around poll_recv.
RecvPacket == /\ fwd.state = "run" /\ fwd.inbox # <<>> /\ fwd.resolved
              /\ LET p == Head(fwd.inbox)
                     rest == [fwd EXCEPT !.inbox = Tail(@)] IN
                 \/ /\ HandsOn(p)
                    /\ Deliver(p.from, p.id)
                    /\ fwd' = [rest EXCEPT !.filled = <<>>]
                 \/ /\ ~HandsOn(p)
                    /\ fwd' = [rest EXCEPT !.filled = IF fwd.kind = "ss" THEN Append(@, p.id) ELSE <<>>]
                    /\ UNCHANGED <<table, sess>>
\* poll_recv of the source fails, which ends the forwarder.
RecvFails == /\ fwd.state = "run" /\ fwd.resolved
             /\ fwd' = [fwd EXCEPT !.state = "ended"]
             /\ UNCHANGED <<table, sess>>
\* poll_recv is pending: the next poll starts with an empty ReadBuf.
RecvPending == /\ fwd.state = "run" /\ fwd.filled # <<>>
               /\ fwd' = [fwd EXCEPT !.filled = <<>>]
               /\ UNCHANGED <<table, sess>>

\* poll_send_back: the slot is filled from the channel and kept until the
\* source took it; an error ends the forwarder, except of the tproxy source, which
\* logs it.
SendErrorEnds == fwd.kind # "tproxy"
SendBack == /\ fwd.state = "run"
            /\ \/ fwd.slot = 0 /\ fwd.back # <<>>
                  /\ fwd' = [fwd EXCEPT !.slot = Head(fwd.back), !.back = Tail(@)]
               \/ fwd.slot # 0 /\ fwd' = [fwd EXCEPT !.slot = 0]
               \/ fwd.slot # 0 /\ SendErrorEnds /\ fwd' = [fwd EXCEPT !.state = "ended"]
            /\ UNCHANGED <<table, sess>>

\* The future ended: ForwardUdp and its table are dropped.
DropForward == /\ fwd.state = "ended" /\ table # <<>>
               /\ table' = <<>> /\ sess' = AbortGone(sess, <<>>)
               /\ UNCHANGED fwd

\* Mutant of ClearExpired: expired entries go only to make room.
ClearForRoom == /\ fwd.state = "run" /\ Len(table) > Capacity
                /\ table' = Fresh(table) /\ sess' = AbortGone(sess, Fresh(table))
                /\ UNCHANGED fwd
\* Time passes; poll_clear_expired removes the expired entries whenever its timer
\* fires, which is at no fixed distance from the use of an entry.
Tick == /\ table' = [k \in 1..Len(table) |-> [table[k] EXCEPT !.idle = Smaller(Ttl, @ + 1)]]
        /\ UNCHANGED <<fwd, sess>>
ClearExpired == /\ fwd.state = "run" /\ Fresh(table) # table
                /\ table' = Fresh(table) /\ sess' = AbortGone(sess, Fresh(table))
                /\ UNCHANGED fwd

-----------------------------------------------------------------------------
(* A session task (UdpConnection::new, connect_udp).                         *)
Set(i, s) == sess' = [sess EXCEPT ![i] = s]
End(s) == [s EXCEPT !.phase = "ended", !.in = [send |-> <<>>, recv |-> <<>>], !.writable = TRUE,
                    !.buf = [d \in Dirs |-> NewBuffer]]
\* A poll does poll_send_to first and poll_recv_from next.  Polls of different
\* sessions are taken one at a time: all they share is the channel back.
Polling(i) == sess[i].phase = "copy" /\ \E d \in Dirs : sess[i].buf[d].pc # "wait"
Turn(i, d) == /\ sess[i].phase = "copy" /\ \A j \in 1..i - 1 : ~Polling(j)
              /\ d = "recv" => sess[i].buf["send"].pc = "wait"

\* net.udp_bind, which may take for ever.
Bind(i) == /\ sess[i].phase = "bind"
           /\ \/ Set(i, [sess[i] EXCEPT !.phase = "copy"])
              \/ Set(i, End(sess[i]))
           /\ UNCHANGED <<fwd, table>>

\* The abort takes effect when the task is next scheduled.
AbortDone(i) == /\ sess[i].aborted /\ sess[i].phase # "ended"
                /\ Set(i, End(sess[i]))
                /\ UNCHANGED <<fwd, table>>

\* The first while loop of poll_send_to and poll_recv_from.  A UdpConnector that is
\* not bound has nothing to read; the channel of a session that left the table is
\* closed once it is empty; the socket may fail.
InputReady(s, d) == s.in[d] # <<>> /\ (d = "recv" => s.conn \in {"plain", "bound"})
Fill(i, d) ==
  LET s == sess[i]  b == s.buf[d] IN
  /\ Turn(i, d) /\ b.pc = "fill"
  /\ IF ~CanBorrowBack(b)
     THEN Set(i, [s EXCEPT !.buf[d].pc = "drain"])
     ELSE \/ /\ InputReady(s, d)
             /\ Set(i, [s EXCEPT !.in[d] = Tail(@), !.buf[d] = Filled(b, Head(s.in[d]))])
          \/ /\ ~InputReady(s, d) /\ ~(d = "send" /\ s.aborted)
             /\ Set(i, [s EXCEPT !.buf[d] = [BorrowBack(b) EXCEPT !.pc = "drain", !.reg = {"in"}]])
          \/ /\ IF d = "send" THEN s.aborted /\ ~InputReady(s, d) ELSE s.conn \in {"plain", "bound"}
             /\ Set(i, End(s))
  /\ UNCHANGED <<fwd, table>>

\* The second while loop ends: sleep if a waker is registered, else go round.
Leave(b) == [b EXCEPT !.pc = IF b.reg = {} THEN "fill" ELSE "wait"]
\* Mutant of Blocked: the pending send is not polled with the task's waker.
BlockedUnheard(b) == [b EXCEPT !.pc = "wait"]
Blocked(b) == [b EXCEPT !.pc = "wait", !.reg = @ \cup {"out"}]
DrainDone(i, d) == /\ Turn(i, d) /\ sess[i].buf[d].pc = "drain" /\ ~FrontFilled(sess[i].buf[d])
                   /\ Set(i, [sess[i] EXCEPT !.buf[d] = Leave(@)])
                   /\ UNCHANGED <<fwd, table>>

\* b.poll_send_to of the second loop of poll_send_to: a plain socket, or a
\* UdpConnector, whose future (RuleNet::udp_bind) sends the packet itself and
\* is followed by the send that caused it.  While the connector is binding,
\* writable says whether its future is ready, which it may never be.
SendOut(i) ==
  LET s == sess[i]  b == s.buf["send"]  p == Head(b.queue)
      Out == [s EXCEPT !.last = p, !.times = IF s.last = p THEN @ + 1 ELSE 1] IN
  /\ Turn(i, "send") /\ b.pc = "drain" /\ FrontFilled(b)
  /\ \/ s.conn \in {"plain", "bound"} /\ s.writable
        /\ \E w \in BOOLEAN : Set(i, [Out EXCEPT !.buf["send"] = PopFront(b), !.writable = w])
     \/ s.conn \in {"plain", "bound"} /\ ~s.writable
        /\ Set(i, [s EXCEPT !.buf["send"] = Blocked(b)])
     \/ s.conn \in {"plain", "bound"} /\ Set(i, End(s))
     \/ s.conn = "idle" /\ \E w \in BOOLEAN : Set(i, [s EXCEPT !.conn = "binding", !.writable = w])
     \/ s.conn = "binding" /\ ~s.writable
        /\ Set(i, [s EXCEPT !.buf["send"] = Blocked(b)])
     \/ s.conn = "binding" /\ s.writable /\ Set(i, [Out EXCEPT !.conn = "bound"])
     \/ s.conn = "binding" /\ s.writable /\ Set(i, [End(s) EXCEPT !.conn = "failed"])
  /\ UNCHANGED <<fwd, table>>

\* BackChannel::poll_recv_from: waits for a place in the shared channel.
RecvOut(i) ==
  LET s == sess[i]  b == s.buf["recv"] IN
  /\ Turn(i, "recv") /\ b.pc = "drain" /\ FrontFilled(b)
  /\ \/ /\ fwd.state = "run" /\ Len(fwd.back) < ChannelSize
        /\ fwd' = [fwd EXCEPT !.back = Append(@, i)]
        /\ Set(i, [s EXCEPT !.buf["recv"] = PopFront(b)])
     \/ /\ fwd.state = "run" /\ Len(fwd.back) = ChannelSize
        /\ Set(i, [s EXCEPT !.buf["recv"] = Blocked(b)]) /\ UNCHANGED fwd
     \/ /\ fwd.state = "ended" /\ Set(i, End(s)) /\ UNCHANGED fwd
  /\ UNCHANGED table

\* A registered waker fires: the task is polled, both directions from the top.
Woken(s, d) == /\ s.buf[d].pc = "wait"
               /\ \/ "in" \in s.buf[d].reg /\ InputReady(s, d)
                  \/ "out" \in s.buf[d].reg /\ d = "send" /\ s.writable
                  \/ "out" \in s.buf[d].reg /\ d = "recv" /\ Len(fwd.back) < ChannelSize
Poll(i) == /\ sess[i].phase = "copy" /\ \A d \in Dirs : sess[i].buf[d].pc = "wait"
           /\ \E d \in Dirs : Woken(sess[i], d)
           /\ Set(i, [sess[i] EXCEPT !.buf = [d \in Dirs |-> [@[d] EXCEPT !.pc = "fill", !.reg = {}]]])
           /\ UNCHANGED <<fwd, table>>

\* The network: the socket (or the binding) gets ready; the remote side answers.
SocketReady(i) == /\ sess[i].phase = "copy" /\ ~sess[i].writable
                  /\ Set(i, [sess[i] EXCEPT !.writable = TRUE])
                  /\ UNCHANGED <<fwd, table>>
RemoteReplies(i) == /\ fwd.replies < MaxReplies /\ sess[i].phase = "copy" /\ sess[i].last # 0
                    /\ fwd' = [fwd EXCEPT !.replies = @ + 1]
                    /\ Set(i, [sess[i] EXCEPT !.in.recv = Append(@, i)])
                    /\ UNCHANGED table

-----------------------------------------------------------------------------
\* kind says which RawUdpSource it is, packets what comes to it.
UdpInit(kind, packets) ==
  /\ fwd = [kind |-> kind, state |-> "run", inbox |-> packets, filled |-> <<>>,
            resolved |-> kind # "forward", stale |-> FALSE, back |-> <<>>, slot |-> 0,
            replies |-> 0]
  /\ table = <<>> /\ sess = <<>>

SessionStep(i) == AbortDone(i) \/ Poll(i) \/ SendOut(i) \/ RecvOut(i)
                  \/ \E d \in Dirs : Fill(i, d) \/ DrainDone(i, d)
ForwardStep == RecvPacket \/ RecvFails \/ RecvPending \/ SendBack \/ DropForward \/ ClearExpired \/ Resolve
UdpNext == \/ ForwardStep \/ Tick
           \/ \E i \in 1..Len(sess) : SessionStep(i) \/ Bind(i) \/ SocketReady(i) \/ RemoteReplies(i)

\* Time passes, the forwarder is polled when its timer fires, what is ended is dropped
\* and a task that was aborted is scheduled once more.  No bind, send or reply need
\* ever be done.
UdpFairness ==
  /\ WF_udpVars(Tick) /\ WF_udpVars(ClearExpired) /\ WF_udpVars(DropForward)
  /\ \A i \in 1..MaxSessions : WF_udpVars(i <= Len(sess) /\ AbortDone(i))

-----------------------------------------------------------------------------
(* Properties.                                                               *)

\* Every session task that may go on owns a table entry: eviction, expiry and
\* the end of the forwarder leave no socket behind (Drop for UdpConnection).
SessionsOwned == /\ \A i \in 1..Len(sess) :
                      sess[i].phase # "ended" /\ ~sess[i].aborted => i \in InTable(table)
                 /\ Len(table) <= Capacity

\* Whatever the channel, the queue, a full pool and a blocked socket do, a session
\* sends its client's packets in the order they came and each once, except the
\* first packet of a UdpConnector, which goes out twice: what is queued is in
\* order and later than what was sent last.
FilledOf(b) == IF BackIsUnfilled(b) THEN Front(b.queue) ELSE b.queue
Queued(s) == FilledOf(s.buf["send"]) \o s.in.send
SentInOrder ==
  \A i \in 1..Len(sess) :
    LET s == sess[i]  q == Queued(s) IN
    /\ \A k \in 1..Len(q) - 1 : q[k] < q[k + 1]
    /\ q # <<>> => s.last < q[1] \/ (s.conn = "bound" /\ s.last = q[1] /\ s.times = 1)
    /\ s.times <= IF s.conn = "bound" THEN 2 ELSE 1

\* No waker is lost: a session that sleeps though it could pass a packet on, in either
\* direction, has registered the waker that gets it going, and so has one that could
\* read a packet into a queue, unless that queue waits for a blocked writer, whose waker
\* it has (the two loops of poll_send_to and poll_recv_from and what each leaves pending).
Asleep(s) == s.phase = "copy" /\ \A d \in Dirs : s.buf[d].pc = "wait"
OutReady(s, d) == IF d = "send" THEN s.writable ELSE Len(fwd.back) < ChannelSize
CanPass(s, d) == FrontFilled(s.buf[d]) /\ OutReady(s, d)
CanRead(s, d) == InputReady(s, d) /\ CanBorrowBack(s.buf[d])
AwaitsWriter(s, d) == "out" \in s.buf[d].reg /\ FrontFilled(s.buf[d]) /\ ~OutReady(s, d)
NoWakerLost == \A i \in 1..Len(sess), d \in Dirs :
                 Asleep(sess[i]) /\ (CanPass(sess[i], d) \/ CanRead(sess[i], d)) =>
                   Woken(sess[i], d) \/ AwaitsWriter(sess[i], d)

\* Once the clients are silent every session expires, is aborted and ends, also
\* one whose udp_bind or whose connector never comes back, and one whose socket is
\* blocked for good (Drop for UdpConnection).
SessionsEnd == <>[](\A i \in 1..Len(sess) : sess[i].phase = "ended")
=============================================================================
