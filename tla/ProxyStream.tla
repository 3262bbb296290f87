---------------------------- MODULE ProxyStream ----------------------------
(***************************************************************************)
(* A TCP stream through a proxy that puts a header before the payload:     *)
(* VLESS over TLS or REALITY (src/protocol/vless: PrefixWriteStream,       *)
(* ResponseHeaderStream, VisionStream, RealityStream, RealityServerStream, *)
(* serve_vless_stream) and Trojan (src/protocol/trojan/src/client/tcp.rs). *)
(* The header goes out with the first payload, or alone when the caller    *)
(* reads first.  With the flow xtls-rprx-vision the payload travels in     *)
(* frames until the writer ends them: with command 1 what follows is bare  *)
(* inside TLS, with command 2 it is on the TCP stream itself, and the      *)
(* reader must not have taken a byte of it into its TLS connection.  Bytes *)
(* are tokens: a field that is read as a whole is one token.               *)
(***************************************************************************)
EXTENDS Naturals, Sequences, SequencesExt

CONSTANTS MaxTokens,    \* payload tokens per direction
          MaxWrite,     \* payload tokens of one write
          Room          \* tokens rustls holds for RealityServerStream before it takes no more

ASSUME ProxyStreamAssumption == MaxTokens \in Nat /\ MaxWrite \in Nat \ {0} /\ Room \in Nat /\ Room > 1

VARIABLES
    proxy,  \* the protocol, its transport, the peer, and how far the server got
    dir     \* both directions: what the writer still holds, what is under way,
            \* what the reader has taken and how it reads on

proxyVars == <<proxy, dir>>

Directions == {"up", "down"}
Tok(t, v) == [t |-> t, v |-> v]
Data(i, j) == [n \in 1..(j + 1 - i) |-> Tok("data", i + n - 1)]
\* the user and the addons with the flow, then the command and the address
Addons == Tok("request", 1)
AddressField == Tok("request", 2)
RequestHeader == <<Addons, AddressField>>
\* Trojan's: the password's hash, then the command and the address
make_head == RequestHeader
ResponseHeader == <<Tok("response", 1), Tok("response", 2)>>
FrameHeader == 3        \* command, content length, padding length
Vision == proxy.flow = "vision"

\* flow: "vision", "none" (VLESS) or "trojan"; reality: else TLS; peer: "ours",
\* or Xray as the "client" or the "server"; phase "connect", or "off": no stream
ProxyInit(flow, reality, peer, phase) ==
    /\ proxy = [flow |-> flow, reality |-> reality, peer |-> peer, phase |-> phase, hello |-> {}, elapsed |-> FALSE]
    /\ dir = [d \in Directions |->
                [head |-> CASE d = "down" -> <<>> [] flow = "trojan" -> make_head [] OTHER -> RequestHeader,
                 mode |-> IF flow = "vision" THEN "frames" ELSE "tls",
                 wroteUuid |-> FALSE, sent |-> 0, closed |-> FALSE, pending |-> <<>>, out |-> <<>>, wire |-> <<>>,
                 plain |-> <<>>, skip |-> IF d = "down" /\ flow = "trojan" THEN 0 ELSE 2,
                 buf |-> <<>>, expectUuid |-> TRUE, header |-> 0, command |-> 0, content |-> 0, padding |-> 0,
                 direct |-> flow # "vision", raw |-> FALSE, got |-> <<>>, eof |-> FALSE, broken |-> FALSE]]

-----------------------------------------------------------------------------
(* The handshake.  A hello is what in it is as the server expects.         *)

HelloParts == {"server_name", "key_share", "auth", "short_id"}

\* connect_stream: a client with another name, key or id gets this far as well
SendHello(hello) ==
    /\ proxy.phase = "connect" /\ (~proxy.reality => hello = HelloParts)
    /\ proxy' = [proxy EXCEPT !.phase = "hello", !.hello = hello]
    /\ UNCHANGED dir

parse_client_key_share(hello) == "key_share" \in hello
parse_reality_client_hello(hello) == "server_name" \in hello /\ parse_client_key_share(hello)
derive_reality_auth_key(hello) == {"auth", "short_id"} \subseteq hello
accept_reality_stream(hello) == parse_reality_client_hello(hello) /\ derive_reality_auth_key(hello)

\* serve_connection: a hello that fails a check ends the connection
AcceptHello ==
    /\ proxy.phase = "hello"
    /\ proxy' = [proxy EXCEPT !.phase = IF accept_reality_stream(proxy.hello) THEN "accepted" ELSE "refused"]
    /\ UNCHANGED dir

\* the server's perform_handshake, with a certificate made for this client, or
\* the connection ends in it
ServerHandshake(ok) ==
    /\ proxy.phase = "accepted"
    /\ proxy' = [proxy EXCEPT !.phase = IF ok THEN "handshake" ELSE "refused"]
    /\ UNCHANGED dir

\* the client's: it may not like the certificate; it takes the records after the
\* handshake before it returns the stream
ClientHandshake(ok) ==
    /\ proxy.phase = "handshake"
    /\ proxy' = [proxy EXCEPT !.phase = IF ok THEN "request" ELSE "refused"]
    /\ UNCHANGED dir

-----------------------------------------------------------------------------
(* Writing.  TLS and the net's RealityStream take a write whole, and the   *)
(* latter refuses the next one until the last is out.  RealityServerStream *)
(* takes what rustls has room for, and answers Ok(0) when it has none.     *)

Written(w, tokens) == [w EXCEPT !.out = Append(@, [tls |-> w.mode # "raw", tokens |-> w.head \o tokens]), !.head = <<>>]

Accepts(d) == d = "up" /\ proxy.reality => dir[d].out = <<>>

Space(d, n) ==
    LET held == FoldLeft(LAMBDA sum, r : sum + Len(r.tokens), 0, dir[d].out)
    IN  IF d = "up" \/ ~proxy.reality \/ held + n <= Room THEN n
        ELSE IF held >= Room THEN 0 ELSE Room - held

\* a frame of VisionStream goes out as the transport takes it
Taken(d, w, frame) ==
    LET n == Space(d, Len(frame))
    IN  [(IF n > 0 THEN Written(w, SubSeq(frame, 1, n)) ELSE w) EXCEPT !.pending = SubSeq(frame, n + 1, Len(frame))]

\* enqueue_write; a frame of ours has command 0 and no padding
Framed(w, command, payload, padding) ==
    (IF w.wroteUuid THEN <<>> ELSE <<Tok("uuid", 0)>>)
        \o <<Tok("command", command), Tok("content", Len(payload)), Tok("padding", padding)>>
        \o payload \o [n \in 1..padding |-> Tok("pad", n)]

Writing(d) == proxy.phase \in (IF d = "up" THEN {"request", "dialling", "relay"} ELSE {"relay"}) /\ ~dir[d].closed

\* PrefixWriteStream::poll_write and poll_send_head put the header in front; what is
\* left of a frame is pending, and so is the caller's write; a bare write that the
\* transport takes nothing of is an error of the relay, which ends with it
WriteData(d) ==
    /\ Writing(d) /\ Accepts(d) /\ dir[d].pending = <<>>
    /\ \E k \in 1..MaxWrite :
        LET w == dir[d]
            n == IF w.mode = "frames" THEN k ELSE Space(d, k)
            payload == Data(w.sent + 1, w.sent + n)
            after == IF w.mode = "frames" THEN Taken(d, w, Framed(w, 0, payload, 0)) ELSE Written(w, payload)
        IN  /\ w.sent + k <= MaxTokens
            /\ dir' = IF n = 0 THEN dir
                      ELSE [dir EXCEPT ![d] = [after EXCEPT !.sent = @ + n, !.wroteUuid = @ \/ w.mode = "frames"]]
            /\ proxy' = [proxy EXCEPT !.phase = IF n = 0 THEN "write_zero" ELSE @]

\* the caller's write is tried again, and ends when the frame is out
WritePending(d) ==
    /\ Writing(d) /\ Accepts(d) /\ dir[d].pending # <<>> /\ Space(d, 1) > 0
    /\ dir' = [dir EXCEPT ![d] = Taken(d, @, dir[d].pending)]
    /\ UNCHANGED proxy

\* an Xray peer ends the frames; as a server only with command 1 (see the README)
EndFrames(d) ==
    /\ Writing(d) /\ Vision /\ dir[d].mode = "frames"
    /\ proxy.peer = (IF d = "up" THEN "client" ELSE "server")
    /\ \E command \in (IF d = "up" THEN 1..2 ELSE {1}) :
        dir' = [dir EXCEPT ![d] =
            [Written(dir[d], Framed(dir[d], command, <<>>, 1)) EXCEPT
                !.wroteUuid = TRUE, !.mode = IF command = 2 THEN "raw" ELSE "tls"]]
    /\ UNCHANGED proxy

\* the caller reads first: VLESS sends the header, Trojan when its timer has elapsed
SendHead ==
    /\ proxy.phase = "request" /\ dir["up"].head # <<>> /\ ~dir["up"].closed
    /\ proxy.flow = "trojan" => proxy.elapsed
    /\ dir' = [dir EXCEPT !["up"] = Written(@, <<>>)]
    /\ UNCHANGED proxy

TimerElapses ==
    /\ proxy.flow = "trojan" /\ proxy.phase \in {"request", "dialling", "relay"} /\ ~proxy.elapsed
    /\ proxy' = [proxy EXCEPT !.elapsed = TRUE]
    /\ UNCHANGED dir

\* pump_write, poll_flush_wr: what was taken reaches the TCP stream
Flush(d) ==
    /\ dir[d].out # <<>>
    /\ dir' = [dir EXCEPT ![d].wire = Append(@, Head(dir[d].out)), ![d].out = Tail(@)]
    /\ UNCHANGED proxy

\* the relay flushes before it shuts down; VLESS sends a header that still waits
CloseWriter(d) ==
    /\ Writing(d) /\ dir[d].out = <<>> /\ dir[d].pending = <<>>
    /\ dir' = [dir EXCEPT ![d] =
          [(IF @.head # <<>> /\ proxy.flow # "trojan" THEN Written(@, <<>>) ELSE @) EXCEPT !.closed = TRUE]]
    /\ UNCHANGED proxy

-----------------------------------------------------------------------------
(* Reading.                                                                *)

Reading(d) == proxy.phase \in (IF d = "up" THEN {"request", "relay"} ELSE {"request", "dialling", "relay"}) /\ ~dir[d].eof

\* how much one read of the TCP stream may take: RealityServerStream reads byte
\* by byte (safe_byte_read), so it processes a record before it takes more.
\* ChunksWhole (mutant of Chunks): it takes whatever is there
ChunksWhole(d) == 1..Len(dir[d].wire)
Chunks(d) == IF d = "up" /\ proxy.reality THEN {1} ELSE 1..Len(dir[d].wire)

\* poll_read of the transport: bytes of the TCP stream as they are once the flag
\* is set, else into the TLS connection, which cannot read bare ones
PullRaw(d) ==
    /\ Reading(d) /\ dir[d].raw /\ dir[d].plain = <<>> /\ dir[d].wire # <<>>
    /\ dir' = [dir EXCEPT ![d].got = @ \o Head(dir[d].wire).tokens,
                          ![d].broken = @ \/ Head(dir[d].wire).tls, ![d].wire = Tail(@)]
    /\ UNCHANGED proxy

PullTls(d) ==
    /\ Reading(d) /\ ~dir[d].raw /\ dir[d].plain = <<>> /\ dir[d].wire # <<>>
    /\ \E n \in Chunks(d) :
        LET taken == SubSeq(dir[d].wire, 1, n)
        IN  dir' = [dir EXCEPT ![d].plain = FlattenSeq([i \in 1..n |-> taken[i].tokens]),
                               ![d].broken = @ \/ \E i \in 1..n : ~taken[i].tls,
                               ![d].wire = SubSeq(@, n + 1, Len(@))]
    /\ UNCHANGED proxy

\* one round of try_decode_frames; r stays as it is when the buffer is too short
DecodeRound(r) ==
    IF r.direct \/ (r.expectUuid /\ r.buf # <<>> /\ Head(r.buf).t # "uuid") THEN
        [r EXCEPT !.direct = TRUE, !.got = @ \o r.buf, !.buf = <<>>]
    ELSE IF r.expectUuid THEN
        IF Len(r.buf) < 1 + FrameHeader THEN r
        ELSE [r EXCEPT !.expectUuid = FALSE, !.header = FrameHeader, !.buf = Tail(@)]
    ELSE IF r.header > 0 THEN
        IF Len(r.buf) < r.header THEN r
        ELSE [r EXCEPT !.header = 0, !.command = r.buf[1].v, !.content = r.buf[2].v, !.padding = r.buf[3].v,
                       !.buf = SubSeq(@, FrameHeader + 1, Len(@))]
    ELSE IF Len(r.buf) < r.content + r.padding THEN r
    ELSE [r EXCEPT !.got = @ \o SubSeq(r.buf, 1, r.content),
                   !.buf = SubSeq(@, r.content + r.padding + 1, Len(@)),
                   !.content = 0, !.padding = 0,
                   !.header = IF r.command = 0 THEN FrameHeader ELSE 0,
                   !.direct = r.command # 0, !.raw = r.command = 2]

\* the loop: each round that changes something takes a token or turns direct
Decode(r) == FoldLeft(LAMBDA s, i : DecodeRound(s), r, [i \in 1..(2 * Len(r.buf) + 3) |-> i])

\* the reader above the transport takes some of the plaintext: the header first
\* (read_request_header, poll_ready_header), then payload
ReadHeader(d) ==
    /\ Reading(d) /\ dir[d].skip > 0 /\ dir[d].plain # <<>>
    /\ LET r == dir[d]
       IN  dir' = [dir EXCEPT ![d].plain = Tail(@), ![d].skip = @ - 1,
                              ![d].broken = @ \/ Head(r.plain) # (IF d = "up" THEN RequestHeader ELSE ResponseHeader)[3 - r.skip]]
    /\ proxy' = [proxy EXCEPT !.phase = IF d = "up" /\ dir[d].skip = 1 THEN "dialling" ELSE @]

ReadPayload(d) ==
    /\ Reading(d) /\ dir[d].skip = 0 /\ dir[d].plain # <<>>
    /\ \E k \in 1..Len(dir[d].plain) :
        dir' = [dir EXCEPT ![d] = Decode([@ EXCEPT !.buf = @ \o SubSeq(dir[d].plain, 1, k),
                                                  !.plain = SubSeq(@, k + 1, Len(@))])]
    /\ UNCHANGED proxy

\* serve_vless_stream: the target is reached, then the response header is written;
\* an error (user, flow, command, target) drops the connection
Dial(ok) ==
    /\ proxy.phase = "dialling"
    /\ proxy' = [proxy EXCEPT !.phase = IF ok THEN "relay" ELSE "refused"]
    /\ dir' = IF ok /\ proxy.flow # "trojan" THEN [dir EXCEPT !["down"] = Written(@, ResponseHeader)] ELSE dir

\* end of the stream; within a header it is an error, which ends the session
ReadEof(d) ==
    /\ Reading(d) /\ dir[d].closed /\ dir[d].out = <<>> /\ dir[d].wire = <<>> /\ dir[d].plain = <<>>
    /\ dir' = [dir EXCEPT ![d].eof = TRUE]
    /\ proxy' = [proxy EXCEPT !.phase = IF dir[d].skip > 0 THEN "refused" ELSE @]

ProxyNext ==
    \/ \E d \in Directions :
        \/ WriteData(d) \/ WritePending(d) \/ EndFrames(d) \/ Flush(d) \/ CloseWriter(d)
        \/ PullRaw(d) \/ PullTls(d) \/ ReadHeader(d) \/ ReadPayload(d) \/ ReadEof(d)
    \/ \E part \in HelloParts : SendHello(HelloParts \ {part})
    \/ SendHello(HelloParts) \/ AcceptHello \/ SendHead \/ TimerElapses
    \/ \E ok \in BOOLEAN : ServerHandshake(ok) \/ ClientHandshake(ok) \/ Dial(ok)

-----------------------------------------------------------------------------
Quiet(d) == \A part \in {"head", "pending", "out", "wire", "plain"} : dir[d][part] = <<>>

\* However writes, flushes and reads cut the stream, each end gets what the other
\* wrote, in order and once: no header, frame or padding among it, no bare byte
\* read as TLS or the other way round; and once nothing is under way, or at the
\* end of the stream, all of it.
ProxyIntact ==
    proxy.phase = "relay" => \A d \in Directions :
        /\ ~dir[d].broken
        /\ IsPrefix(dir[d].got, Data(1, dir[d].sent))
        /\ Quiet(d) \/ dir[d].eof => Len(dir[d].got) = dir[d].sent
=============================================================================
