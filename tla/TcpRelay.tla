------------------------------ MODULE TcpRelay ------------------------------
(* connect_tcp(): CopyBidirectional copies between two streams, each way     *)
(* through a CopyBuffer, and ends when one way is done.  Data is counted, not *)
(* named: a stream keeps its order.  A writer may hold bytes until flushed.  *)
EXTENDS Naturals

CONSTANTS Request,   \* bytes the client a sends
          Answer,    \* bytes the server b sends once it has the request
          BufSize    \* size of a CopyBuffer (8192)

ASSUME TcpAssumption == {Request, Answer} \subseteq Nat /\ BufSize \in Nat \ {0}

VARIABLES peer,      \* the two ends: what each sent, got, and whether it closed
          xfer,      \* the two TransferStates with their CopyBuffers
          relay      \* the future: run, done or failed
tcpVars == <<peer, xfer, relay>>

Ends == {"a", "b"}
Other(x) == IF x = "a" THEN "b" ELSE "a"
\* A direction is named by the end it reads from.
Due(x) == IF x = "a" THEN Request ELSE Answer
Least(m, n) == IF m < n THEN m ELSE n

TcpInit(patient, state) ==
           /\ peer = [x \in Ends |-> [sent |-> 0, inflight |-> 0, got |-> 0, closed |-> FALSE,
                                      patient |-> patient \/ x = "b"]]
           /\ xfer = [x \in Ends |-> [st |-> "Running", held |-> 0, read_done |-> FALSE,
                                      need_flush |-> FALSE, unflushed |-> 0]]
           /\ relay = state

-----------------------------------------------------------------------------
(* The ends.  b answers when it has the whole request; a patient end closes  *)
(* when it got what it is due.                                               *)
PeerSends(x) == /\ relay = "run" /\ peer[x].sent < Due(x) /\ (x = "b" => peer[x].got = Request)
                /\ peer' = [peer EXCEPT ![x].sent = @ + 1, ![x].inflight = @ + 1]
                /\ UNCHANGED <<xfer, relay>>
PeerCloses(x) == /\ relay = "run" /\ peer[x].sent = Due(x) /\ ~peer[x].closed
                 /\ peer[x].patient => peer[x].got = Due(Other(x))
                 /\ peer' = [peer EXCEPT ![x].closed = TRUE]
                 /\ UNCHANGED <<xfer, relay>>

-----------------------------------------------------------------------------
(* CopyBuffer::poll_copy for the direction that reads x.                     *)
Copying(x) == relay = "run" /\ xfer[x].st = "Running"
Read(x) == /\ Copying(x) /\ xfer[x].held = 0 /\ ~xfer[x].read_done
           /\ \/ \E n \in 1..Least(BufSize, peer[x].inflight) :
                   /\ xfer' = [xfer EXCEPT ![x].held = n]
                   /\ peer' = [peer EXCEPT ![x].inflight = @ - n]
              \/ /\ peer[x].inflight = 0 /\ peer[x].closed
                 /\ xfer' = [xfer EXCEPT ![x].read_done = TRUE] /\ UNCHANGED peer
           /\ UNCHANGED relay
\* Mutant of FlushOnPending: only a full buffer is flushed.
FlushFull(x) == /\ Copying(x) /\ xfer[x].held = 0 /\ ~xfer[x].read_done
                /\ peer[x].inflight = 0 /\ ~peer[x].closed /\ xfer[x].unflushed >= BufSize
                /\ xfer' = [xfer EXCEPT ![x].need_flush = FALSE, ![x].unflushed = 0]
                /\ peer' = [peer EXCEPT ![Other(x)].got = @ + xfer[x].unflushed]
                /\ UNCHANGED relay
\* poll_read is pending: what was written is flushed.
FlushOnPending(x) == /\ Copying(x) /\ xfer[x].held = 0 /\ ~xfer[x].read_done
                     /\ peer[x].inflight = 0 /\ ~peer[x].closed /\ xfer[x].need_flush
                     /\ xfer' = [xfer EXCEPT ![x].need_flush = FALSE, ![x].unflushed = 0]
                     /\ peer' = [peer EXCEPT ![Other(x)].got = @ + xfer[x].unflushed]
                     /\ UNCHANGED relay
\* poll_write takes some of what is held; the writer passes on as much of what it
\* holds as it likes.
Write(x) == /\ Copying(x) /\ xfer[x].held > 0
            /\ \E n \in 1..xfer[x].held, m \in 0..xfer[x].unflushed + xfer[x].held :
                 /\ m <= xfer[x].unflushed + n
                 /\ xfer' = [xfer EXCEPT ![x].held = @ - n, ![x].need_flush = TRUE,
                                         ![x].unflushed = @ + n - m]
                 /\ peer' = [peer EXCEPT ![Other(x)].got = @ + m]
            /\ UNCHANGED relay
\* Mutant of FinishCopy: the writer is shut down without a flush.
FinishUnflushed(x) == /\ Copying(x) /\ xfer[x].held = 0 /\ xfer[x].read_done
                      /\ xfer' = [xfer EXCEPT ![x].st = "ShuttingDown"]
                      /\ UNCHANGED <<peer, relay>>
\* All is written and the end was seen: flush, then shut the writer down.
FinishCopy(x) == /\ Copying(x) /\ xfer[x].held = 0 /\ xfer[x].read_done
                 /\ xfer' = [xfer EXCEPT ![x].st = "ShuttingDown", ![x].unflushed = 0]
                 /\ peer' = [peer EXCEPT ![Other(x)].got = @ + xfer[x].unflushed]
                 /\ UNCHANGED relay
Shutdown(x) == /\ relay = "run" /\ xfer[x].st = "ShuttingDown"
               /\ xfer' = [xfer EXCEPT ![x].st = "Done"]
               /\ UNCHANGED <<peer, relay>>
\* poll of CopyBidirectional: one Done is enough; an error of either way ends both.
Finish == /\ relay = "run" /\ \E x \in Ends : xfer[x].st = "Done"
          /\ relay' = "done" /\ UNCHANGED <<peer, xfer>>
Fail == /\ relay = "run" /\ relay' = "failed" /\ UNCHANGED <<peer, xfer>>

TcpStep(x) == Read(x) \/ FlushOnPending(x) \/ Write(x) \/ FinishCopy(x) \/ Shutdown(x)
TcpNext == \/ Finish \/ Fail
           \/ \E x \in Ends : TcpStep(x) \/ PeerSends(x) \/ PeerCloses(x)
TcpFairness ==
  /\ WF_tcpVars(Finish)
  /\ \A x \in Ends : /\ WF_tcpVars(TcpStep(x)) /\ WF_tcpVars(PeerSends(x))
                     /\ WF_tcpVars(PeerCloses(x))

-----------------------------------------------------------------------------
(* Properties.                                                               *)

\* An end is shown the end of the stream by poll_shutdown only after every byte
\* of the other end reached it, also those the writer was holding.
EofAfterAll == \A x \in Ends : xfer[x].st = "Done" => peer[Other(x)].got = peer[x].sent

\* Nothing waits in a buffer for ever: a client that waits for its answer gets it,
\* though the server says nothing until a flush brings it the request
\* ("Try flushing when the reader has no progress to avoid deadlock").
AnswerArrives == peer["a"].patient ~> (peer["a"].got = Answer \/ relay # "run")
=============================================================================
