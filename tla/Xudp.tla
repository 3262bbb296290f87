-------------------------------- MODULE Xudp --------------------------------
(***************************************************************************)
(* UDP over a VLESS stream: XudpCodec of src/protocol/vless/src/common.rs, *)
(* used by VlessUdp at the net's end and relay_stream_udp at the server's. *)
(* A packet is metadata (its length, the packet type, the address unless   *)
(* it is the last packet's) followed by the payload (its length, the       *)
(* data).  tokio's Framed appends what one read of the stream returns to   *)
(* the decoder's buffer and decodes until the decoder asks for more.       *)
(* A field is one token, a number.                                         *)
(***************************************************************************)
EXTENDS Naturals, Sequences, SequencesExt

CONSTANTS Addresses, Sizes,     \* addresses and payload lengths of the packets
          MaxPackets            \* packets sent

VARIABLES encoder, decoder,     \* last_addr at either end
          wire,                 \* tokens under way
          src,                  \* the decoder's buffer, and whether Framed decodes it
          packets,              \* sent, received (history)
          session               \* "open", or "failed" after a decoder's error

vars == <<encoder, decoder, wire, src, packets, session>>

None == 0
Byte == 9       \* a token of payload
New == 1        \* packet types
Keep == 2
KeepAlive == 4

Init ==
    /\ encoder = None /\ decoder = None
    /\ wire = <<>> /\ src = [buf |-> <<>>, readable |-> FALSE]
    /\ packets = [sent |-> <<>>, received |-> <<>>]
    /\ session = "open"

Payload(size) == <<size>> \o [i \in 1..size |-> Byte]

\* poll_send_to and sink.send: encode, then the stream takes the bytes
Encode(address, size) ==
    /\ session = "open" /\ Len(packets.sent) < MaxPackets
    /\ wire' = wire \o (IF encoder = address THEN <<1, Keep>> ELSE <<2, New, address>>) \o Payload(size)
    /\ encoder' = address
    /\ packets' = [packets EXCEPT !.sent = Append(@, [address |-> address, size |-> size])]
    /\ UNCHANGED <<decoder, src, session>>

\* an Xray peer sends these as well; they carry no packet
SendKeepAlive ==
    /\ session = "open" /\ wire = <<>>
    /\ wire' = <<1, KeepAlive>> \o Payload(0)
    /\ UNCHANGED <<encoder, decoder, src, packets, session>>

\* Framed reads: any number of bytes
Read ==
    /\ session = "open" /\ ~src.readable
    /\ \E n \in 1..Len(wire) :
        /\ src' = [buf |-> src.buf \o SubSeq(wire, 1, n), readable |-> TRUE]
        /\ wire' = SubSeq(wire, n + 1, Len(wire))
    /\ UNCHANGED <<encoder, decoder, packets, session>>

Rest(buf, n) == SubSeq(buf, n + 1, Len(buf))
NoneLeft(buf) == src' = [buf |-> buf, readable |-> FALSE] /\ UNCHANGED <<decoder, packets, session>>
Error == session' = "failed" /\ UNCHANGED <<src, decoder, packets>>

\* the metadata is complete and split off: then the payload is looked at
DecodePayload(address, buf) ==
    /\ decoder' = address
    /\ IF Len(buf) < 1 + Head(buf)
       THEN /\ src' = [buf |-> buf, readable |-> FALSE]
            /\ UNCHANGED packets
       ELSE /\ src' = [src EXCEPT !.buf = Rest(buf, 1 + Head(buf))]
            /\ packets' = [packets EXCEPT !.received = Append(@, [address |-> address, size |-> Head(buf)])]
    /\ UNCHANGED session

\* one call of decode
Decode ==
    /\ session = "open" /\ src.readable
    /\ LET buf == src.buf
           meta == Head(buf)
           after == Rest(buf, 1 + meta)
       IN  IF buf = <<>> THEN NoneLeft(buf)
           ELSE IF meta < 1 THEN Error
           ELSE IF Len(buf) < 1 + meta + 1 THEN NoneLeft(buf)
           ELSE IF buf[2] = KeepAlive THEN
               NoneLeft(IF Len(after) < 1 + Head(after) THEN after ELSE Rest(after, 1 + Head(after)))
           ELSE IF buf[2] \notin {New, Keep} THEN Error
           ELSE IF meta = 1 THEN IF decoder = None THEN Error ELSE DecodePayload(decoder, after)
           ELSE IF buf[3] \notin Addresses THEN Error
           ELSE DecodePayload(buf[3], after)
    /\ UNCHANGED <<encoder, wire>>

Next ==
    \/ \E address \in Addresses, size \in Sizes : Encode(address, size)
    \/ SendKeepAlive \/ Read \/ Decode

Spec == Init /\ [][Next]_vars

\* Whatever the reads of the stream return, the decoder yields the packets that were
\* encoded, each with its address, in order, and never fails.
PacketsDecoded == session = "open" /\ IsPrefix(packets.received, packets.sent)
=============================================================================
