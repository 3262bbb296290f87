----------------------------- MODULE TunGateway -----------------------------
(***************************************************************************)
(* The TUN server and the raw server (src/protocol/raw).  Every TCP packet *)
(* that enters is rewritten to the gateway's own address, so that one      *)
(* listener of the user-space stack takes all connections; the destination *)
(* is kept in a map keyed by the packet's source, a bounded LRU cache,     *)
(* which the server reads when it accepts and the gateway reads to restore *)
(* the source of every packet that leaves.  In fake-ip mode a DNS query is *)
(* answered with an address of a pool, which wraps and takes addresses     *)
(* from older names, and the name is found again when the connection has   *)
(* been accepted.  A source port stands for a client's address; a client   *)
(* uses a port for one connection at a time.                               *)
(***************************************************************************)
EXTENDS Naturals, Sequences, Functions, SequencesExt

CONSTANTS
    Ports, Names,
    PoolSize,       \* addresses of the pool, max - min + 1
    MapSize,        \* capacity of the MapTable
    MaxFlows        \* connections per port

ASSUME TunGatewayAssumption == PoolSize \in Nat \ {0} /\ MapSize \in Nat \ {0} /\ MaxFlows \in Nat

VARIABLES
    pool,       \* FakeIpPool: cursor, domain_to_ip, ip_to_domain
    map,        \* MapTable, least recently used first
    flow,       \* per port: the client's connection and what came of it
    sockets     \* connections of the stack: in the listener's queue or in a task

tunVars == <<pool, map, flow, sockets>>

Real == PoolSize            \* an address outside the pool; the pool's are 0..PoolSize-1
Override == PoolSize + 1    \* the gateway's own address
Unset == PoolSize + 2
Nobody == "nobody"
ASSUME NamesAssumption == Nobody \notin Names

\* flows: how many connections each port makes
TunInit(flows) ==
    /\ pool = [cursor |-> 0, d2i |-> <<>>, i2d |-> <<>>]
    /\ map = <<>>
    /\ flow = [p \in Ports |-> [state |-> "idle", left |-> flows[p], name |-> Nobody, dst |-> Real,
                                stale |-> FALSE, evicted |-> FALSE, reached |-> Nobody, source |-> Unset]]
    /\ sockets = {}

-----------------------------------------------------------------------------
(* FakeIpPool                                                              *)

Except(f, x) == Restrict(f, DOMAIN f \ {x})
With(f, x, v) == [y \in DOMAIN f \cup {x} |-> IF y = x THEN v ELSE f[y]]

next_ip == pool.cursor % PoolSize

\* both locks are held; an address in use is taken from its name
allocate(name) ==
    IF name \in DOMAIN pool.d2i THEN pool
    ELSE [cursor |-> (pool.cursor + 1) % PoolSize,
          d2i |-> With(IF next_ip \in DOMAIN pool.i2d THEN Except(pool.d2i, pool.i2d[next_ip]) ELSE pool.d2i, name, next_ip),
          i2d |-> With(pool.i2d, next_ip, name)]

\* the answer to an A query, and the pool after it
generate_fake_response(name) == LET after == allocate(name) IN [pool |-> after, ip |-> after.d2i[name]]

contains(ip) == ip < PoolSize
lookup(ip) == IF ip \in DOMAIN pool.i2d THEN pool.i2d[ip] ELSE Nobody

-----------------------------------------------------------------------------
(* MapTable: insert and get both make an entry the most recent             *)

Keys(m) == {m[i].key : i \in 1..Len(m)}
Place(key) == CHOOSE i \in 1..Len(map) : map[i].key = key
Others(key) == IF key \in Keys(map) THEN RemoveAt(map, Place(key)) ELSE map
Bounded(m) == IF Len(m) > MapSize THEN Tail(m) ELSE m
\* (mutant of insert) an entry that is there stays as it is
InsertOnce(key, value) ==
    Bounded(IF key \in Keys(map) THEN map ELSE Append(map, [key |-> key, value |-> value]))
insert(key, value) == Bounded(Append(Others(key), [key |-> key, value |-> value]))
get(key) == IF key \in Keys(map) THEN Append(Others(key), map[Place(key)]) ELSE map
Mapped(key) == IF key \in Keys(map) THEN map[Place(key)].value ELSE Override

-----------------------------------------------------------------------------
(* The client                                                              *)

\* an A query: DnsInterceptSource::poll_recv answers it itself
Query(p, name) ==
    /\ flow[p].state = "idle" /\ flow[p].left > 0
    /\ pool' = generate_fake_response(name).pool
    /\ flow' = [q \in Ports |->
                  IF q = p THEN [flow[q] EXCEPT !.state = "resolved", !.name = name, !.stale = FALSE,
                                                !.dst = generate_fake_response(name).ip]
                  ELSE [flow[q] EXCEPT !.stale = @ \/ (pool'.i2d # pool.i2d /\ flow[q].dst = next_ip)]]
    /\ UNCHANGED <<map, sockets>>

\* an address the client did not ask for: a real one, or one of the pool, which an
\* earlier run of the server gave to some name
UseAddress(p, ip) ==
    /\ flow[p].state = "idle" /\ flow[p].left > 0
    /\ flow' = [flow EXCEPT ![p] = [@ EXCEPT !.state = "resolved", !.name = Nobody, !.dst = ip, !.stale = contains(ip)]]
    /\ UNCHANGED <<pool, map, sockets>>

\* a packet enters, the first one opens the connection: map_in
Enter(p) ==
    /\ flow[p].state \in {"resolved", "open"}
    /\ map' = insert(p, flow[p].dst)
    /\ flow' = [q \in Ports |->
                  IF q = p THEN [flow[q] EXCEPT !.state = "open", !.evicted = FALSE, !.source = Unset]
                  ELSE [flow[q] EXCEPT !.evicted = @ \/ (q \in Keys(map) /\ q \notin Keys(map'))]]
    /\ sockets' = IF flow[p].state = "resolved"
                  THEN sockets \cup {[port |-> p, flow |-> flow[p].left, state |-> "queued", dst |-> Override]} ELSE sockets
    /\ UNCHANGED pool

\* the client gives the connection up and may use the port again
LeavePort(p) ==
    /\ flow[p].state = "open"
    /\ flow' = [flow EXCEPT ![p] = [@ EXCEPT !.state = "idle", !.left = flow[p].left - 1, !.name = Nobody, !.dst = Real,
                                             !.evicted = FALSE, !.reached = Nobody, !.source = Unset]]
    /\ UNCHANGED <<pool, map, sockets>>

-----------------------------------------------------------------------------
(* The server                                                              *)

\* serve_tcp takes a connection and reads its destination; without one it drops it
Accept(s) ==
    /\ s \in sockets /\ s.state = "queued"
    /\ map' = get(s.port)
    /\ sockets' = (sockets \ {s}) \cup
          (IF s.port \in Keys(map) THEN {[s EXCEPT !.state = "accepted", !.dst = Mapped(s.port)]} ELSE {})
    /\ UNCHANGED <<pool, flow>>

\* the name behind the address; an address of the pool that has none is dialled as it is
Target(ip) == IF contains(ip) /\ lookup(ip) # Nobody THEN lookup(ip) ELSE "address"

\* the spawned task: tcp_connect to it
ConnectTarget(s) ==
    /\ s \in sockets /\ s.state = "accepted"
    /\ sockets' = sockets \ {s}
    /\ flow' = IF flow[s.port].left = s.flow /\ flow[s.port].state = "open"
               THEN [flow EXCEPT ![s.port].reached = Target(s.dst)] ELSE flow
    /\ UNCHANGED <<pool, map>>

\* a packet leaves for the port: map_out
Leaves(p) ==
    /\ flow[p].state = "open"
    /\ map' = get(p)
    /\ flow' = [flow EXCEPT ![p].source = Mapped(p)]
    /\ UNCHANGED <<pool, sockets>>

TunNext ==
    \/ \E p \in Ports :
        \/ \E name \in Names : Query(p, name)
        \/ \E ip \in 0 .. Real : UseAddress(p, ip)
        \/ Enter(p) \/ LeavePort(p) \/ Leaves(p)
    \/ \E s \in sockets : Accept(s) \/ ConnectTarget(s)

-----------------------------------------------------------------------------
\* A connection through the gateway reaches what its client dialled, the name it
\* looked up or the address it used, and the packets it gets back come from the
\* address it dialled, however ports are used again and the caches turn over:
\* excused are a fake address given to another name since it was answered, or
\* answered by an earlier run of the server, and replies after the map dropped the port.
TunReaches ==
    \A p \in Ports : flow[p].state = "open" =>
        /\ flow[p].reached # Nobody /\ ~flow[p].stale =>
              flow[p].reached = (IF flow[p].name = Nobody THEN "address" ELSE flow[p].name)
        /\ flow[p].source \in {Unset, flow[p].dst} \/ flow[p].evicted
=============================================================================
