------------------------------- MODULE AnyTls -------------------------------
(***************************************************************************)
(* A TCP stream of the AnyTLS net (src/protocol/anytls).  tcp_connect      *)
(* spawns a writer task, which takes payloads off an unbounded channel and *)
(* writes each cut and padded after the scheme that is in force, and a     *)
(* reader task, which reads frames, feeds the stream's channel, answers    *)
(* heartbeats through the writer's channel and takes over padding schemes. *)
(* The stream itself only talks to the two channels.  Between the writer   *)
(* task and the socket is the buffer of rustls.  Bytes are tokens, a frame *)
(* header is one token that carries the length; the authentication that    *)
(* precedes the frames is left out.                                        *)
(***************************************************************************)
EXTENDS Naturals, Sequences, SequencesExt

CONSTANTS
    Schemes,        \* padding schemes: record sizes per packet, Check for the mark "c"
    MaxData,        \* data a frame can hold (u16::MAX)
    MaxWritten,     \* payload tokens the caller writes
    MaxPushed,      \* PSH frames of the server
    MaxFrames       \* other frames of the server

Check == 0
Commands == {"waste", "syn", "psh", "fin", "settings", "heart_response"}

ASSUME AnyTlsAssumption ==
    /\ Schemes \subseteq Seq(Seq(Nat)) /\ Schemes # {}
    /\ {MaxData, MaxWritten, MaxPushed, MaxFrames} \subseteq Nat

VARIABLES
    any,        \* the stream's handle, the two tasks and the padding scheme
    write_rx,   \* the writer's channel
    read_rx,    \* the stream's channel
    upstream,   \* what the writer task took: on the socket, in rustls, yet to be written
    downstream, \* frames of the server not read yet
    seen        \* what the caller wrote and got, what the server pushed (history)

anyVars == <<any, write_rx, read_rx, upstream, downstream, seen>>

Item(t, v) == [t |-> t, v |-> v]
encode_frame(cmd, data) == <<Item(cmd, Len(data))>> \o data
encode_waste_frame(n) == encode_frame("waste", [i \in 1..n |-> Item("zero", i)])

\* the settings, the SYN and the address of the target, as one payload
InitialPayload ==
    encode_frame("settings", <<>>) \o encode_frame("syn", <<>>) \o encode_frame("psh", <<Item("address", 0)>>)

\* tcp_connect; open: FALSE leaves the part out
AnyInit(open) ==
    /\ any = [held |-> open, closed |-> FALSE, writer |-> open, reader |-> open, pkt |-> 1,
              padding |-> CHOOSE s \in Schemes : TRUE, cut |-> ~open, ended |-> ~open, frames |-> 0]
    /\ write_rx = IF open THEN <<InitialPayload>> ELSE <<>>
    /\ read_rx = <<>> /\ downstream = <<>>
    /\ upstream = [sent |-> <<>>, tls |-> <<>>, rest |-> <<>>]
    /\ seen = [wrote |-> 0, pushed |-> 0, got |-> <<>>, eof |-> FALSE, hollow |-> FALSE]

-----------------------------------------------------------------------------
(* apply_padding: one entry of the scheme after the other                  *)

generate_record_payload_sizes(pkt) == IF pkt > Len(any.padding) THEN <<>> ELSE any.padding[pkt]

Less(m, n) == IF m > n THEN m - n ELSE 0

\* s: the records so far, the payload left, whether a check mark ended the loop
PadOne(s, size) ==
    IF s.stop THEN s
    ELSE IF size = Check THEN [s EXCEPT !.stop = s.left = <<>>]
    ELSE IF Len(s.left) > size THEN
        [s EXCEPT !.out = @ \o SubSeq(s.left, 1, size), !.left = SubSeq(@, size + 1, Len(@))]
    ELSE IF s.left # <<>> THEN
        LET waste == Less(size, Len(s.left) + 1)
        IN  [s EXCEPT !.out = @ \o s.left \o (IF waste > 0 THEN encode_waste_frame(waste) ELSE <<>>), !.left = <<>>]
    ELSE [s EXCEPT !.out = @ \o encode_waste_frame(size)]

\* (mutant of apply_padding) what the sizes do not cover is forgotten
PaddedOnly(sizes, payload) == FoldLeft(PadOne, [out |-> <<>>, left |-> payload, stop |-> FALSE], sizes).out
apply_padding(sizes, payload) ==
    LET padded == FoldLeft(PadOne, [out |-> <<>>, left |-> payload, stop |-> FALSE], sizes)
    IN  padded.out \o padded.left

\* encode_frame asserts that the length of a frame fits into its header; only the
\* padding may be longer, for poll_write cuts what it is given
Panics(tokens) == \E i \in 1..Len(tokens) : tokens[i].t = "waste" /\ tokens[i].v > MaxData

-----------------------------------------------------------------------------
(* The stream                                                              *)

AppWrites ==
    /\ any.held /\ ~any.closed /\ any.writer
    /\ \E k \in 1..MaxData :
        /\ seen.wrote + k <= MaxWritten
        /\ write_rx' = Append(write_rx, encode_frame("psh", [i \in 1..k |-> Item("data", seen.wrote + i)]))
        /\ seen' = [seen EXCEPT !.wrote = @ + k]
    /\ UNCHANGED <<any, read_rx, upstream, downstream>>

AppShutsDown ==
    /\ any.held /\ ~any.closed
    /\ any' = [any EXCEPT !.closed = TRUE]
    /\ write_rx' = IF any.writer THEN Append(write_rx, encode_frame("fin", <<>>)) ELSE write_rx
    /\ UNCHANGED <<read_rx, upstream, downstream, seen>>

\* a chunk without data leaves the caller's buffer empty, which to it is the end
AppReads ==
    /\ any.held /\ read_rx # <<>> /\ ~seen.eof
    /\ seen' = [seen EXCEPT !.got = @ \o Head(read_rx), !.eof = Head(read_rx) = <<>>]
    /\ read_rx' = Tail(read_rx)
    /\ UNCHANGED <<any, write_rx, upstream, downstream>>

\* the reader task ended and dropped its sender
AppReadsEof ==
    /\ any.held /\ read_rx = <<>> /\ ~any.reader /\ ~seen.eof
    /\ seen' = [seen EXCEPT !.eof = TRUE]
    /\ UNCHANGED <<any, write_rx, read_rx, upstream, downstream>>

\* dropped without a shutdown it sends no FIN, and the tasks go on
AppDrops ==
    /\ any.held
    /\ any' = [any EXCEPT !.held = FALSE]
    /\ read_rx' = <<>>
    /\ UNCHANGED <<write_rx, upstream, downstream, seen>>

-----------------------------------------------------------------------------
(* The tasks                                                               *)

\* the next payload is cut and padded; a panic ends the task, and its channel with it
WriterTakes ==
    /\ any.writer /\ write_rx # <<>> /\ upstream.rest = <<>>
    /\ LET padded == apply_padding(generate_record_payload_sizes(any.pkt), Head(write_rx))
       IN  IF Panics(padded)
           THEN any' = [any EXCEPT !.writer = FALSE] /\ write_rx' = <<>> /\ UNCHANGED upstream
           ELSE /\ upstream' = [upstream EXCEPT !.rest = padded]
                /\ any' = [any EXCEPT !.pkt = @ + 1]
                /\ write_rx' = Tail(write_rx)
    /\ UNCHANGED <<read_rx, downstream, seen>>

\* rustls takes n tokens of what is to be written and puts m of those it has on the
\* socket, which may block at any point
Push(n, m) ==
    LET buffered == upstream.tls \o SubSeq(upstream.rest, 1, n)
    IN  upstream' = [sent |-> upstream.sent \o SubSeq(buffered, 1, m),
                     tls  |-> SubSeq(buffered, m + 1, Len(buffered)),
                     rest |-> SubSeq(upstream.rest, n + 1, Len(upstream.rest))]

\* write_all of the chunks, one after the other; where one ends does not show in the
\* stream.  It is done when rustls has the last token, whether that is on the socket
\* or not, and nothing flushes it.
WriterWrites ==
    /\ any.writer /\ ~any.cut /\ upstream.rest # <<>>
    /\ \E n \in 0..Len(upstream.rest) : \E m \in 0..Len(upstream.tls) + n : n + m > 0 /\ Push(n, m)
    /\ UNCHANGED <<any, write_rx, read_rx, downstream, seen>>

\* a write or the shutdown fails: what was not sent is lost
WriterFails ==
    /\ any.writer /\ any.cut
    /\ upstream.rest # <<>> \/ (write_rx = <<>> /\ ~any.held /\ ~any.reader)
    /\ any' = [any EXCEPT !.writer = FALSE]
    /\ write_rx' = <<>> /\ upstream' = [upstream EXCEPT !.tls = <<>>, !.rest = <<>>]
    /\ UNCHANGED <<read_rx, downstream, seen>>

\* every sender is gone, the stream's and the reader task's: shutdown() first sends
\* what rustls still has
WriterEnds ==
    /\ any.writer /\ ~any.cut /\ upstream.rest = <<>> /\ write_rx = <<>> /\ ~any.held /\ ~any.reader
    /\ IF upstream.tls = <<>>
       THEN any' = [any EXCEPT !.writer = FALSE] /\ UNCHANGED upstream
       ELSE (\E m \in 1..Len(upstream.tls) : Push(0, m)) /\ UNCHANGED any
    /\ UNCHANGED <<write_rx, read_rx, downstream, seen>>

ReaderTask ==
    /\ any.reader /\ downstream # <<>>
    /\ downstream' = Tail(downstream)
    /\ LET frame == Head(downstream)
       IN  /\ any' = [any EXCEPT
                !.reader = frame.cmd \notin {"fin", "alert"} /\ (frame.cmd = "psh" => any.held),
                !.padding = IF frame.cmd = "update" THEN frame.scheme ELSE @]
           /\ read_rx' = IF frame.cmd = "psh" /\ any.held THEN Append(read_rx, frame.data) ELSE read_rx
           /\ write_rx' = IF frame.cmd = "heart_request" /\ any.writer
                          THEN Append(write_rx, encode_frame("heart_response", <<>>)) ELSE write_rx
    /\ UNCHANGED <<upstream, seen>>

ReaderFails ==
    /\ any.reader /\ any.cut /\ downstream = <<>>
    /\ any' = [any EXCEPT !.reader = FALSE]
    /\ UNCHANGED <<write_rx, read_rx, upstream, downstream, seen>>

-----------------------------------------------------------------------------
(* The server and the connection, which may break at any point             *)

ServerSends ==
    /\ ~any.cut /\ ~any.ended
    /\ \/ /\ seen.pushed < MaxPushed
          /\ downstream' = Append(downstream, [cmd |-> "psh", data |-> <<Item("data", seen.pushed + 1)>>])
          /\ seen' = [seen EXCEPT !.pushed = @ + 1]
          /\ UNCHANGED any
       \/ /\ any.frames < MaxFrames
          /\ downstream' = Append(downstream, [cmd |-> "psh", data |-> <<>>])
          /\ seen' = [seen EXCEPT !.hollow = TRUE]
          /\ any' = [any EXCEPT !.frames = @ + 1]
       \/ /\ any.frames < MaxFrames
          /\ \E frame \in {[cmd |-> "waste"], [cmd |-> "heart_request"]} \cup {[cmd |-> "update", scheme |-> s] : s \in Schemes} :
                downstream' = Append(downstream, frame)
          /\ any' = [any EXCEPT !.frames = @ + 1]
          /\ UNCHANGED seen
       \/ /\ \E cmd \in {"fin", "alert"} : downstream' = Append(downstream, [cmd |-> cmd])
          /\ any' = [any EXCEPT !.ended = TRUE]
          /\ UNCHANGED seen
    /\ UNCHANGED <<write_rx, read_rx, upstream>>

Break ==
    /\ ~any.cut
    /\ any' = [any EXCEPT !.cut = TRUE]
    /\ \E n \in 0..Len(downstream) : downstream' = SubSeq(downstream, 1, n)
    /\ UNCHANGED <<write_rx, read_rx, upstream, seen>>

AnyNext ==
    \/ AppWrites \/ AppShutsDown \/ AppReads \/ AppReadsEof \/ AppDrops
    \/ WriterTakes \/ WriterWrites \/ WriterFails \/ WriterEnds \/ ReaderTask \/ ReaderFails
    \/ ServerSends \/ Break

-----------------------------------------------------------------------------
\* what the server makes of the tokens on the socket
ParseOne(s, item) ==
    IF s.need = 0
    THEN [s EXCEPT !.cmd = item.t, !.need = item.v, !.bad = @ \/ item.t \notin Commands]
    ELSE [s EXCEPT !.need = @ - 1, !.bad = @ \/ item.t \in Commands,
                   !.payload = IF s.cmd = "psh" THEN Append(@, item) ELSE @]

Parsed == FoldLeft(ParseOne, [cmd |-> "none", need |-> 0, payload |-> <<>>, bad |-> FALSE], upstream.sent)

\* However the scheme in force cuts and pads the payloads, wherever a write or a break
\* cuts them and whatever heartbeats come between, the server reads frames whose payload
\* is the address and then what the caller wrote, in order; it has read all of it, in
\* whole frames, when the writer task has nothing left and neither has rustls.  The
\* caller reads what the server pushed, and its end only after all of it, unless the
\* connection broke or the server pushed an empty frame.
AnyIntact ==
    /\ ~Parsed.bad
    /\ IsPrefix(Parsed.payload, <<Item("address", 0)>> \o [i \in 1..seen.wrote |-> Item("data", i)])
    /\ any.writer /\ write_rx = <<>> /\ upstream.rest = <<>> /\ upstream.tls = <<>> =>
          Parsed.need = 0 /\ Len(Parsed.payload) = seen.wrote + 1
    /\ IsPrefix(seen.got, [i \in 1..seen.pushed |-> Item("data", i)])
    /\ seen.eof /\ ~any.cut /\ ~seen.hollow => Len(seen.got) = seen.pushed
=============================================================================
