----------------------------- MODULE SniSniffer -----------------------------
(* SnifferTcp of rd-std: a stream that holds what the client writes until it  *)
(* has read the server name of the TLS client hello, or 250 ms have passed,   *)
(* and connects only then.  Its caller is the one task of CopyBidirectional,  *)
(* which in every poll writes first (client to server) and reads next; bytes  *)
(* are counted.                                                              *)
EXTENDS Naturals

CONSTANTS HelloSizes,    \* sizes of a client hello; 0 for a client that does not speak TLS
          BufferSize,    \* BUFFER_SIZE (1024)
          MaxSent        \* bound: bytes the client sends

ASSUME SniAssumption == BufferSize \in Nat \ {0} /\ HelloSizes \subseteq Nat

VARIABLES sniff,    \* the SnifferTcp and the network behind it
          copy      \* the task that polls it, and its client
sniVars == <<sniff, copy>>

SniInit(hello, state) ==
  /\ sniff = [st |-> "WaitingHandshake", buffer |-> 0, elapsed |-> FALSE, armed |-> FALSE,
              dest |-> "none", future |-> "none", carried |-> 0, up |-> 0, lost |-> 0,
              missed |-> FALSE]
  /\ copy = [pc |-> "write", woken |-> FALSE, reads |-> FALSE, pending |-> 0, sent |-> 0,
             eof |-> FALSE, hello |-> hello, relay |-> state]

GetSni == copy.hello > 0 /\ sniff.buffer >= copy.hello
Running == copy.relay = "run"
ToRead == copy' = [copy EXCEPT !.pc = "read"]
Sleep == copy' = [copy EXCEPT !.pc = "sleep"]
\* The relay ends and drops the SnifferTcp: its buffer goes with it, and so does what
\* the connecting task carries, which Drop for SnifferTcp aborts.
Stop(how) == /\ copy' = [copy EXCEPT !.relay = how, !.pc = "sleep"]
             /\ sniff' = [sniff EXCEPT !.lost = @ + sniff.buffer + sniff.carried, !.buffer = 0, !.carried = 0]

-----------------------------------------------------------------------------
(* The client, the timer and the connecting task.                            *)
ClientSends == /\ Running /\ copy.sent < MaxSent /\ ~copy.eof
               /\ copy' = [copy EXCEPT !.sent = @ + 1, !.pending = @ + 1, !.woken = @ \/ copy.reads]
               /\ UNCHANGED sniff
ClientEnds == /\ Running /\ ~copy.eof /\ copy.sent > 0
              /\ copy' = [copy EXCEPT !.eof = TRUE, !.woken = @ \/ copy.reads]
              /\ UNCHANGED sniff
TimerFires == /\ Running /\ sniff.st = "WaitingHandshake" /\ ~sniff.elapsed
              /\ sniff' = [sniff EXCEPT !.elapsed = TRUE]
              /\ copy' = [copy EXCEPT !.woken = @ \/ sniff.armed]
\* connect_send: connect, then write what was buffered; either may fail.
Connects == /\ Running /\ sniff.future = "busy"
            /\ \/ sniff' = [sniff EXCEPT !.future = "ok", !.up = sniff.carried, !.carried = 0]
               \/ \E n \in 0..sniff.carried :
                    sniff' = [sniff EXCEPT !.future = "err", !.up = n, !.lost = sniff.carried - n, !.carried = 0]
            /\ copy' = [copy EXCEPT !.woken = TRUE]

-----------------------------------------------------------------------------
(* poll_write and poll_shutdown, called by poll_copy of the client's side.    *)
TakeOver == /\ Running /\ copy.pc = "write" /\ copy.pending > 0
            /\ CASE sniff.st = "WaitingHandshake" ->
                      LET n == IF copy.pending < BufferSize - sniff.buffer THEN copy.pending
                               ELSE BufferSize - sniff.buffer IN
                      IF n = 0 THEN Stop("failed")   \* poll_copy: WriteZero
                      ELSE /\ sniff' = [sniff EXCEPT !.buffer = @ + n]
                           /\ copy' = [copy EXCEPT !.pending = @ - n, !.woken = TRUE]
                 [] sniff.st = "Connecting" ->
                      copy' = [copy EXCEPT !.pc = "read", !.reads = FALSE] /\ UNCHANGED sniff
                 [] sniff.st = "Connected" ->
                      \E n \in 1..copy.pending : /\ sniff' = [sniff EXCEPT !.up = @ + n]
                                                 /\ copy' = [copy EXCEPT !.pending = @ - n]
\* The client has nothing to read; at its end poll_flush and poll_shutdown pass at
\* once, connected or not.
WriteDone == /\ Running /\ copy.pc = "write" /\ copy.pending = 0
             /\ IF copy.eof THEN Stop("done")
                ELSE copy' = [copy EXCEPT !.pc = "read", !.reads = TRUE] /\ UNCHANGED sniff

(* poll_read.                                                                 *)
\* Mutant of Connecting: the buffer is copied for the connecting task, not taken.
ConnectingCopied(dest) == [sniff EXCEPT !.st = "Connecting", !.dest = dest, !.future = "busy",
                                        !.carried = sniff.buffer]
Connecting(dest) == [sniff EXCEPT !.st = "Connecting", !.dest = dest, !.future = "busy",
                                  !.carried = sniff.buffer, !.buffer = 0]
\* Mutant of ReadWaiting: the timer is looked at but not polled.
ReadUnarmed == /\ Running /\ copy.pc = "read" /\ sniff.st = "WaitingHandshake"
               /\ \/ GetSni /\ sniff' = Connecting("domain") /\ UNCHANGED copy
                  \/ ~GetSni /\ sniff.elapsed /\ sniff' = Connecting("addr") /\ UNCHANGED copy
                  \/ ~GetSni /\ ~sniff.elapsed /\ UNCHANGED sniff /\ Sleep
ReadWaiting == /\ Running /\ copy.pc = "read" /\ sniff.st = "WaitingHandshake"
               /\ \/ GetSni /\ sniff' = Connecting("domain") /\ UNCHANGED copy
                  \/ ~GetSni /\ sniff.elapsed /\ sniff' = Connecting("addr") /\ UNCHANGED copy
                  \/ ~GetSni /\ ~sniff.elapsed /\ sniff' = [sniff EXCEPT !.armed = TRUE] /\ Sleep
                  \* The timer fires between is_elapsed and poll: its waker is not kept.
                  \/ ~GetSni /\ ~sniff.elapsed /\ ~sniff.armed
                     /\ sniff' = [sniff EXCEPT !.elapsed = TRUE, !.missed = TRUE] /\ Sleep
ReadConnecting == /\ Running /\ copy.pc = "read" /\ sniff.st = "Connecting"
                  /\ CASE sniff.future = "busy" -> Sleep /\ UNCHANGED sniff
                       [] sniff.future = "err" -> Stop("failed")
                       [] sniff.future = "ok" -> /\ sniff' = [sniff EXCEPT !.st = "Connected"]
                                                 /\ copy' = [copy EXCEPT !.woken = TRUE]
ReadConnected == /\ Running /\ copy.pc = "read" /\ sniff.st = "Connected"
                 /\ Sleep /\ UNCHANGED sniff
Wake == /\ Running /\ copy.pc = "sleep" /\ copy.woken
        /\ copy' = [copy EXCEPT !.pc = "write", !.woken = FALSE, !.reads = FALSE] /\ UNCHANGED sniff

SniTask == TakeOver \/ WriteDone \/ ReadWaiting \/ ReadConnecting \/ ReadConnected \/ Wake
SniNext == ClientSends \/ ClientEnds \/ TimerFires \/ Connects \/ SniTask
\* The task is polled when woken, the timer fires; a connection may hang for ever.
SniFairness == WF_sniVars(SniTask) /\ WF_sniVars(TimerFires)

-----------------------------------------------------------------------------
(* Properties.                                                               *)

\* What the client wrote is upstream, on its way there with the connecting task, in
\* the buffer or not yet taken: the buffer is sent once and before later bytes, and
\* a name is used only when a client hello was whole.  A stream that got connected
\* loses no byte; the others lose what they hold when the connection fails, when the
\* client sends more than BUFFER_SIZE before the decision, and when it ends its side
\* before the stream is connected (poll_shutdown).
SniffKeepsBytes ==
  /\ copy.sent = sniff.up + sniff.carried + sniff.buffer + copy.pending + sniff.lost
  /\ sniff.st = "Connected" => sniff.carried = 0 /\ sniff.buffer = 0 /\ sniff.lost = 0
  /\ sniff.lost > 0 => ~Running \/ sniff.future = "err"
  /\ sniff.dest = "domain" => copy.hello > 0 /\ sniff.up + sniff.carried + sniff.lost >= copy.hello
  /\ copy.relay = "failed" => sniff.future = "err" \/ copy.sent > BufferSize
  /\ copy.relay = "done" => copy.eof /\ (sniff.st = "Connected" => sniff.up = copy.sent)

\* A client that waits is not forgotten, TLS or not: the stream decides where to connect
\* or ends, and a connection that is made, or fails, is taken note of.  (The one way to
\* sleep for ever is the timer that fires inside poll_read.)
SniffDecides ==
  /\ [](~sniff.missed => <>(sniff.missed \/ sniff.st # "WaitingHandshake" \/ ~Running))
  /\ sniff.future \in {"ok", "err"} ~> (sniff.st = "Connected" \/ ~Running)
=============================================================================
