------------------------------ MODULE MCRelay ------------------------------
(* What moves a connection's bytes, in three parts that share no state: UDP   *)
(* forwarding, the TCP relay and the SNI sniffer in front of a net.  A        *)
(* behaviour runs one of them, with one scenario of it; part says which.      *)
EXTENDS UdpForward, TcpRelay, SniSniffer

VARIABLE part
vars == <<udpVars, tcpVars, sniVars, part>>

\* The four sources; with one place in the table a new client evicts the other, and
\* three packets of one client fill its queue and leave one waiting behind it.
Packet(client, id, good) == [from |-> client, id |-> id, good |-> good]
Scenarios == {<<"raw", <<Packet("a", 1, FALSE), Packet("a", 2, TRUE)>> >>,
              <<"ss", <<Packet("a", 1, FALSE), Packet("a", 2, TRUE)>> >>,
              <<"tproxy", <<Packet("a", 1, TRUE), Packet("b", 2, TRUE), Packet("b", 3, TRUE)>> >>,
              <<"tproxy", <<Packet("a", 1, TRUE), Packet("a", 2, TRUE), Packet("a", 3, TRUE)>> >>,
              <<"forward", <<Packet("a", 1, TRUE)>> >>}

Init == /\ part \in {"udp", "tcp", "sni"}
        /\ IF part = "udp" THEN \E s \in Scenarios : UdpInit(s[1], s[2]) ELSE UdpInit("tproxy", <<>>)
        /\ IF part = "tcp" THEN \E patient \in BOOLEAN : TcpInit(patient, "run") ELSE TcpInit(FALSE, "done")
        /\ IF part = "sni" THEN \E hello \in HelloSizes : SniInit(hello, "run") ELSE SniInit(0, "off")
Next == \/ part = "udp" /\ UdpNext /\ UNCHANGED <<tcpVars, sniVars, part>>
        \/ part = "tcp" /\ TcpNext /\ UNCHANGED <<udpVars, sniVars, part>>
        \/ part = "sni" /\ SniNext /\ UNCHANGED <<udpVars, tcpVars, part>>
Spec == /\ Init /\ [][Next]_vars
        /\ UdpFairness /\ TcpFairness /\ SniFairness
=============================================================================
