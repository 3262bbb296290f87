------------------------------ MODULE Hysteria ------------------------------
(***************************************************************************)
(* The Hysteria 2 net and server (src/protocol/hysteria).  One QUIC        *)
(* connection carries the authentication, the TCP streams and the UDP      *)
(* datagrams.  A UDP packet larger than a datagram is cut into fragments,  *)
(* which the connection may lose and reorder, and each end puts packets    *)
(* together in a table keyed by session and packet id.  Packet ids wrap,   *)
(* entries age, the table is pruned and bounded.  On the server every      *)
(* packet put together is sent by a task of its own, which binds the       *)
(* session's socket when there is none; the session's loop sends back the  *)
(* replies and leaves when it was idle.  Time is counted in ticks.         *)
(***************************************************************************)
EXTENDS Naturals, FiniteSets, Sequences, Functions

CONSTANTS
    PacketIds,      \* how many packet ids there are before they wrap (2^16)
    ReassemblyTtl,  \* REASSEMBLY_TTL
    PruneInterval,  \* REASSEMBLY_PRUNE_INTERVAL
    MaxEntries,     \* REASSEMBLY_MAX_ENTRIES
    Idle,           \* UDP_SESSION_IDLE_TIMEOUT
    MaxFragments,   \* fragments of a packet (255)
    MaxTime, MaxLoops   \* bounds of the model: ticks, session loops

ASSUME HysteriaAssumption ==
    /\ {PacketIds, ReassemblyTtl, PruneInterval, MaxEntries, Idle, MaxFragments, MaxTime, MaxLoops} \subseteq Nat
    /\ PacketIds > 0 /\ Idle > ReassemblyTtl

VARIABLES
    quic,      \* the net's connection: how far it got; "lost" is for ever
    stream,    \* a TCP stream over it
    hyClient,  \* Hy2UdpState of the net: sessions per target, its reassembly table
    hyServer,  \* UdpState of the server, its send tasks and its session loops
    wire,      \* datagrams on their way: a connection neither duplicates nor keeps them
    handed,    \* the packet the last step handed on, if it did (history)
    clock

hyVars == <<quic, stream, hyClient, hyServer, wire, handed, clock>>

Targets == {"ip", "name"}
NoConn == "none"
Insert(f, x, v) == [y \in DOMAIN f \cup {x} |-> IF y = x THEN v ELSE f[y]]

-----------------------------------------------------------------------------
(* The connection: OnceCell::get_or_try_init runs connect() for the first  *)
(* caller and again after an error; what it stored is never replaced.      *)

\* up packets of the sizes (in fragments) to one target, down replies; addrs: what the
\* packets of a session are addressed to, which is the target when the client is this
\* net (a session of its is one target's), and may be more when it is another program
HyInit(state, tcp, target, addrs, sizes, up, down) ==
    /\ quic = state
    /\ stream = tcp
    /\ hyClient = [sess |-> <<>>, resolving |-> FALSE, next |-> 0, ids |-> <<>>,
                 target |-> target, addrs |-> addrs, sizes |-> sizes, left |-> up, table |-> [tab |-> <<>>, pruned |-> 0]]
    /\ hyServer = [sess |-> <<>>, addr |-> <<>>, tasks |-> {}, loops |-> <<>>,
                 left |-> down, table |-> [tab |-> <<>>, pruned |-> 0]]
    /\ wire = {} /\ handed = {} /\ clock = 0

Goes(from, to) ==
    /\ quic = from
    /\ quic' = to
    /\ UNCHANGED <<stream, hyClient, hyServer, wire, clock>>
    /\ handed' = {}

Connect == Goes(NoConn, "dialled")
\* no address, no usable certificates, no answer
ConnectFails == Goes("dialled", NoConn)
serve_endpoint == Goes("dialled", "connected")
hy2_auth == Goes("connected", "auth")

\* is_auth_request decides: 233 ends the server's loop; after 404 the net gives
\* the connection up and its next caller connects again
Authenticate(accepted) == Goes("auth", IF accepted THEN "up" ELSE NoConn)

\* the loops on both ends leave; nothing replaces the net's connection
Lose ==
    /\ quic = "up"
    /\ quic' = "lost"
    /\ wire' = {}
    /\ hyServer' = [hyServer EXCEPT !.tasks = {}, !.loops = <<>>]
    /\ stream' = IF stream \in {NoConn, "refused"} THEN stream ELSE "failed"
    /\ UNCHANGED <<hyClient, clock>>
    /\ handed' = {}

\* a TCP stream: request, the server's connect, the response, then Hy2Stream
TcpRequest == quic = "up" /\ stream = NoConn /\ stream' = "requested"
write_tcp_response(ok) == IF ok THEN "answered_ok" ELSE "answered_error"
TcpHandled(connected) == stream = "requested" /\ stream' = write_tcp_response(connected)
TcpResponse ==
    /\ stream \in {"answered_ok", "answered_error"}
    /\ stream' = IF stream = "answered_ok" THEN "open" ELSE "refused"

Tcp == /\ TcpRequest \/ (\E c \in BOOLEAN : TcpHandled(c)) \/ TcpResponse
       /\ UNCHANGED <<quic, hyClient, hyServer, wire, clock>>
       /\ handed' = {}

-----------------------------------------------------------------------------
(* Fragments and the reassembly tables.  A fragment carries, instead of    *)
(* its payload, the packet it was cut from.                                *)

Cut(dir, to, s, id, count, packet) ==
    {[dir |-> dir, to |-> to, sess |-> s, id |-> id, frag |-> i, count |-> count, packet |-> packet] :
        i \in 0 .. count - 1}

\* prune_reassembly, the same on both ends
Prune(table) ==
    IF clock - table.pruned < PruneInterval /\ Cardinality(DOMAIN table.tab) < MaxEntries
      THEN table
      ELSE LET kept == Restrict(table.tab,
                                {k \in DOMAIN table.tab : clock - table.tab[k].at <= ReassemblyTtl})
           IN  [tab |-> IF Cardinality(DOMAIN kept) > MaxEntries THEN <<>> ELSE kept,
                pruned |-> clock]

Key(f) == <<f.sess, f.id>>

Partial(table, f) ==
    IF Key(f) \in DOMAIN table.tab THEN table.tab[Key(f)]
    ELSE [count |-> f.count, frags |-> {}, at |-> clock]

\* an entry of another packet with this id: it goes, and this fragment with it
StaleKept(e, f) == e.count # f.count
Stale(e, f) == e.count # f.count \/ clock - e.at > ReassemblyTtl

Assembled(e, f) ==
    IF \E g \in e.frags : g[1] = f.frag THEN e
    ELSE [e EXCEPT !.frags = @ \cup {<<f.frag, f.packet>>}]

\* what is complete once fragment f is in: the fragments' payloads, or nothing
Complete(table, f) ==
    LET e == Partial(table, f)
    IN  IF f.count <= 1 THEN {<<f.frag, f.packet>>}
        ELSE IF ~Stale(e, f) /\ Cardinality(Assembled(e, f).frags) = f.count THEN Assembled(e, f).frags
        ELSE {}

Received(table, f) ==
    LET e == Partial(table, f)
    IN  IF f.count <= 1 THEN table
        ELSE IF Stale(e, f) \/ Complete(table, f) # {}
          THEN [table EXCEPT !.tab = Restrict(@, DOMAIN @ \ {Key(f)})]
        ELSE [table EXCEPT !.tab = Insert(@, Key(f), Assembled(e, f))]

Handed(f, frags) == [sess |-> f.sess, dir |-> f.dir, count |-> f.count, frags |-> frags]

-----------------------------------------------------------------------------
(* The net's end.                                                          *)

\* the code lets an id be used again at once; 2^16 packets take longer than ReassemblyTtl
\* on the links the table was made for
SlowEnough(used, id) == id \in DOMAIN used => clock - used[id] > ReassemblyTtl

Use(ids, id) == [used |-> Insert(ids.used, id, clock), next |-> (ids.next + 1) % PacketIds]

NewUdpSession(c, t) ==
    [c EXCEPT !.sess = Insert(@, t, c.next), !.next = @ + 1,
              !.resolving = @ /\ t # "name",
              !.ids = Insert(@, c.next, [used |-> <<>>, next |-> 0])]

\* a name's first send spawns the lookup and is pending; it is tried again when
\* its task runs for some other reason, as the lookup was not polled
SendResolving ==
    /\ quic = "up" /\ hyClient.left > 0
    /\ hyClient.target = "name" /\ "name" \notin DOMAIN hyClient.sess /\ ~hyClient.resolving
    /\ hyClient' = [hyClient EXCEPT !.resolving = TRUE]
    /\ UNCHANGED <<quic, stream, hyServer, wire, clock>>
    /\ handed' = {}

LookupFails ==
    /\ quic = "up" /\ hyClient.left > 0 /\ hyClient.resolving
    /\ hyClient' = [hyClient EXCEPT !.resolving = FALSE, !.left = @ - 1]
    /\ UNCHANGED <<quic, stream, hyServer, wire, clock>>
    /\ handed' = {}

\* poll_send_to with a session, an address's or a resolved one being new
Send(t, count) ==
    LET c  == IF t \in DOMAIN hyClient.sess THEN hyClient ELSE NewUdpSession(hyClient, t)
        s  == c.sess[t]
        id == c.ids[s].next
    IN  /\ quic = "up" /\ hyClient.left > 0
        /\ t = hyClient.target /\ count \in hyClient.sizes
        /\ t = "name" => hyClient.resolving \/ t \in DOMAIN hyClient.sess
        /\ SlowEnough(c.ids[s].used, id)
        /\ hyClient' = [c EXCEPT !.left = @ - 1, !.ids[s] = Use(@, id)]
        /\ \E to \in hyClient.addrs :
              wire' = wire \cup Cut("up", to, s, id, count, <<"up", s, hyClient.left>>)
        /\ UNCHANGED <<quic, stream, hyServer, clock>>
        /\ handed' = {}

\* recv_loop: every socket of the net is given the packet
ClientReceives(f) ==
    LET table == Prune(hyClient.table)
        frags == Complete(table, f)
    IN  /\ quic = "up" /\ f \in wire /\ f.dir = "down"
        /\ wire' = wire \ {f}
        /\ hyClient' = [hyClient EXCEPT !.table = Received(table, f)]
        /\ handed' = IF frags = {} THEN {} ELSE {Handed(f, frags)}
        /\ UNCHANGED <<quic, stream, hyServer, clock>>

-----------------------------------------------------------------------------
(* The server's end.                                                       *)

SendTask(f) == [sess |-> f.sess, packet |-> f.packet, pc |-> "look", loop |-> 0]

\* hy2_udp_loop; a session whose address changes is forgotten, and its loop goes on
ServerReceives(f) ==
    LET table == Prune(hyServer.table)
        frags == Complete(table, f)
        moved == f.sess \in DOMAIN hyServer.addr /\ hyServer.addr[f.sess] # f.to
    IN  /\ quic = "up" /\ f \in wire /\ f.dir = "up"
        /\ wire' = wire \ {f}
        /\ hyServer' = [hyServer EXCEPT !.table = Received(table, f),
                          !.addr = Insert(@, f.sess, f.to),
                          !.sess = IF moved THEN Restrict(@, DOMAIN @ \ {f.sess}) ELSE @,
                          !.tasks = IF frags = {} THEN @ ELSE @ \cup {SendTask(f)}]
        /\ handed' = IF frags = {} THEN {} ELSE {Handed(f, frags)}
        /\ UNCHANGED <<quic, stream, hyClient, clock>>

\* udp_send_to_target: a task finds the session's loop, or the address to bind for
TaskLooks(k) ==
    /\ k.pc = "look"
    /\ hyServer' = [hyServer EXCEPT !.tasks = (@ \ {k}) \cup
           IF k.sess \in DOMAIN hyServer.sess
             THEN {[k EXCEPT !.pc = "send", !.loop = hyServer.sess[k.sess]]}
           ELSE IF k.sess \in DOMAIN hyServer.addr THEN {[k EXCEPT !.pc = "bind"]}
           ELSE {}]

NewLoop(s) == [sess |-> s, state |-> "runs", last |-> clock, ids |-> [used |-> <<>>, next |-> 0]]

\* the bind was awaited: the session another task made meanwhile is kept
InstallAlways(k) ==
    LET i == Len(hyServer.loops) + 1
    IN  [hyServer EXCEPT !.tasks = (@ \ {k}) \cup {[k EXCEPT !.pc = "send", !.loop = i]},
                       !.loops = Append(@, NewLoop(k.sess)),
                       !.sess = Insert(@, k.sess, i)]
Install(k) ==
    IF k.sess \in DOMAIN hyServer.sess
      THEN [hyServer EXCEPT !.tasks = (@ \ {k}) \cup
                {[k EXCEPT !.pc = "send", !.loop = hyServer.sess[k.sess]]}]
      ELSE InstallAlways(k)

TaskBinds(k) ==
    /\ k.pc = "bind" /\ Len(hyServer.loops) < MaxLoops
    /\ hyServer' = Install(k)

TaskBindFails(k) ==
    /\ k.pc = "bind"
    /\ hyServer' = [hyServer EXCEPT !.tasks = @ \ {k}]

\* into the loop's channel and out of its socket; a loop that left drops it
TaskSends(k) ==
    /\ k.pc = "send"
    /\ hyServer' = [hyServer EXCEPT !.tasks = @ \ {k},
                      !.loops[k.loop].last = IF hyServer.loops[k.loop].state = "runs"
                                               THEN clock ELSE @]

\* udp_session_loop: a reply of the target
LoopReplies(i, count) ==
    LET l == hyServer.loops[i]
    IN  /\ l.state = "runs" /\ hyServer.left > 0
        /\ SlowEnough(l.ids.used, l.ids.next)
        /\ hyServer' = [hyServer EXCEPT !.left = @ - 1,
                          !.loops[i] = [l EXCEPT !.last = clock, !.ids = Use(@, l.ids.next)]]
        /\ wire' = wire \cup Cut("down", "client", l.sess, l.ids.next, count,
                                 <<"down", l.sess, hyServer.left>>)

\* an error of the socket ends the loop and leaves the session in the table
LoopFails(i) ==
    /\ hyServer.loops[i].state = "runs"
    /\ hyServer' = [hyServer EXCEPT !.loops[i].state = "gone"]

LoopIdle(i) ==
    /\ hyServer.loops[i].state = "runs" /\ clock - hyServer.loops[i].last >= Idle
    /\ hyServer' = [hyServer EXCEPT !.loops[i].state = "leaves"]

\* it removes whatever is stored under its session id
LoopLeaves(i) ==
    LET s == hyServer.loops[i].sess
    IN  /\ hyServer.loops[i].state = "leaves"
        /\ hyServer' = [hyServer EXCEPT !.loops[i].state = "gone",
                          !.sess = Restrict(@, DOMAIN @ \ {s}),
                          !.addr = Restrict(@, DOMAIN @ \ {s})]

ServerTasks ==
    /\ quic = "up"
    /\ \/ \E k \in hyServer.tasks : TaskLooks(k) \/ TaskBinds(k) \/ TaskBindFails(k) \/ TaskSends(k)
       \/ \E i \in DOMAIN hyServer.loops : LoopFails(i) \/ LoopIdle(i) \/ LoopLeaves(i)
    /\ UNCHANGED <<quic, stream, hyClient, wire, clock>>
    /\ handed' = {}

Replies ==
    /\ quic = "up"
    /\ \E i \in DOMAIN hyServer.loops, count \in 1 .. MaxFragments : LoopReplies(i, count)
    /\ UNCHANGED <<quic, stream, hyClient, clock>>
    /\ handed' = {}

-----------------------------------------------------------------------------

LoseDatagram(f) ==
    /\ wire' = wire \ {f}
    /\ UNCHANGED <<quic, stream, hyClient, hyServer, clock>>
    /\ handed' = {}

\* a tick is longer than a datagram is under way
HyTick ==
    /\ quic = "up" /\ clock < MaxTime /\ wire = {}
    /\ clock' = clock + 1
    /\ UNCHANGED <<quic, stream, hyClient, hyServer, wire>>
    /\ handed' = {}

HyNext ==
    \/ Connect \/ ConnectFails \/ serve_endpoint \/ hy2_auth \/ (\E ok \in BOOLEAN : Authenticate(ok)) \/ Lose \/ Tcp
    \/ SendResolving \/ LookupFails
    \/ \E t \in Targets, count \in 1 .. MaxFragments : Send(t, count)
    \/ \E f \in wire : ClientReceives(f) \/ ServerReceives(f) \/ LoseDatagram(f)
    \/ ServerTasks \/ Replies \/ HyTick

-----------------------------------------------------------------------------

\* Whatever either end's reassembly hands on (server.rs:339, udp.rs:123) is one
\* packet as the other end sent it in that session: never the fragments of two,
\* although ids are used again, fragments are lost and reordered, entries
\* outlive their packet and several tasks bind for the same session at once.
HandedWhole ==
    \A h \in handed :
        \E packet \in {g[2] : g \in h.frags} :
            /\ h.frags = {<<i, packet>> : i \in 0 .. h.count - 1}
            /\ packet[1] = h.dir /\ packet[2] = h.sess

=============================================================================
