-------------------------- MODULE ConnectionManager --------------------------
(***************************************************************************)
(* The table of live connections: Connection handles owned by the proxied  *)
(* streams and sockets (WrapTcpStream, WrapUdpSocket), an unbounded channel *)
(* of events, the recv_event task that applies them to ConnectionState,    *)
(* the API calls that stop connections, and the loop at the end of         *)
(* start_stream that waits until none is left.                             *)
(*                                                                         *)
(* Tcp and Udp connections differ in what their counters are keyed by, not *)
(* in what happens to them; one kind is modelled, with bytes down (Read,   *)
(* RecvFrom) and up (Write, SendTo).  A connection is named by its uuid.   *)
(***************************************************************************)
EXTENDS Naturals, Sequences, FiniteSets, Functions

CONSTANTS
    Conns,        \* uuids of the connections that are ever made
    MaxBytes      \* bound: bytes each connection moves, down and up

ASSUME MaxBytesAssumption == MaxBytes \in [Conns -> Nat]
ASSUME ConnsAssumption == IsFiniteSet(Conns)

VARIABLES
    owner,        \* the Connection handle: none, open, aborted (poll failed), dropped
    blocked,      \* the owner's copy loop cannot read: the other side accepts no bytes
    beat,         \* a heartbeat the handle has not consumed
    pend,         \* bytes counted by the handle and not sent as events yet
    moved,        \* all bytes the connection moved
    queue,        \* the event channel
    entry,        \* ConnectionState.connections
    total,        \* ConnectionState.total_download, total_upload
    signal,       \* the oneshot of the connection: pending, sent, or its sender dropped
    closing       \* the loop at the end of start_stream: off, on, done

vars == <<owner, blocked, beat, pend, moved, queue, entry, total, signal, closing>>

Bytes == [down : Nat, up : Nat]
ZeroBytes == [down |-> 0, up |-> 0]
Plus(a, b) == [down |-> a.down + b.down, up |-> a.up + b.up]

(* ConnectionInfo: its counters and whether it holds the stop sender.      *)
NoEntry == [listed |-> FALSE, bytes |-> ZeroBytes, stopper |-> FALSE]
Entry == [listed : BOOLEAN, bytes : Bytes, stopper : BOOLEAN]

Kinds == {"New", "SetStopper", "Count", "Close"}
Event == [uuid : Conns, kind : Kinds, bytes : Bytes]
Ev(c, kind) == [uuid |-> c, kind |-> kind, bytes |-> ZeroBytes]

TypeOK ==
    /\ owner \in [Conns -> {"none", "open", "aborted", "dropped"}]
    /\ blocked \in [Conns -> BOOLEAN]
    /\ beat \in [Conns -> BOOLEAN]
    /\ pend \in [Conns -> Bytes]
    /\ moved \in [Conns -> Bytes]
    /\ queue \in Seq(Event)
    /\ entry \in [Conns -> Entry]
    /\ total \in Bytes
    /\ signal \in [Conns -> {"pending", "sent", "lost"}]
    /\ closing \in {"off", "on", "done"}

Init ==
    /\ owner = [c \in Conns |-> "none"]
    /\ blocked = [c \in Conns |-> FALSE]
    /\ beat = [c \in Conns |-> FALSE]
    /\ pend = [c \in Conns |-> ZeroBytes]
    /\ moved = [c \in Conns |-> ZeroBytes]
    /\ queue = <<>>
    /\ entry = [c \in Conns |-> NoEntry]
    /\ total = ZeroBytes
    /\ signal = [c \in Conns |-> "pending"]
    /\ closing = "off"

-----------------------------------------------------------------------------
(***************************************************************************)
(* The handle.                                                             *)
(***************************************************************************)
(* Defect: the stopper is sent ahead of the connection it belongs to.      *)
OpenedSwapped(c) == <<Ev(c, "SetStopper"), Ev(c, "New")>>

(* What Connection::new sends.                                             *)
Opened(c) == <<Ev(c, "New"), Ev(c, "SetStopper")>>

(* ConnType::get_events: what is counted, and nothing when that is zero.   *)
Counted(c) ==
    IF pend[c] = ZeroBytes THEN <<>>
    ELSE <<[uuid |-> c, kind |-> "Count", bytes |-> pend[c]]>>

NewConnection(c) ==
    /\ owner[c] = "none"
    /\ owner' = [owner EXCEPT ![c] = "open"]
    /\ queue' = queue \o Opened(c)
    /\ UNCHANGED <<blocked, beat, pend, moved, entry, total, signal, closing>>

(* The heartbeat task: a broadcast of capacity one, so a handle that       *)
(* misses some finds one all the same.                                     *)
Heartbeat ==
    /\ beat' = [c \in Conns |-> owner[c] = "open"]
    /\ beat' # beat
    /\ UNCHANGED <<owner, blocked, pend, moved, queue, entry, total, signal, closing>>

(* The first half of Connection::poll: flush on a heartbeat.               *)
Flush(c) ==
    /\ queue' = IF beat[c] THEN queue \o Counted(c) ELSE queue
    /\ pend' = IF beat[c] THEN [pend EXCEPT ![c] = ZeroBytes] ELSE pend
    /\ beat' = [beat EXCEPT ![c] = FALSE]

(* Its second half: the oneshot is ready when stop was sent and also when  *)
(* the sender is gone; the caller gets ConnectionAborted.                  *)
PollAborted(c) ==
    /\ owner[c] = "open" /\ ~blocked[c]
    /\ Flush(c)
    /\ signal[c] # "pending"
    /\ owner' = [owner EXCEPT ![c] = "aborted"]
    /\ UNCHANGED <<blocked, moved, entry, total, signal, closing>>

Moves(c, n) ==
    /\ moved[c].down + moved[c].up < MaxBytes[c]
    /\ moved' = [moved EXCEPT ![c] = Plus(@, n)]

(* poll_read, poll_recv_from: poll the handle, then read and count.        *)
PollRead(c) ==
    LET n == [down |-> 1, up |-> 0] IN
    /\ owner[c] = "open" /\ ~blocked[c]
    /\ signal[c] = "pending"
    /\ Moves(c, n)
    /\ queue' = IF beat[c] THEN queue \o Counted(c) ELSE queue
    /\ pend' = [pend EXCEPT ![c] = IF beat[c] THEN n ELSE Plus(@, n)]
    /\ beat' = [beat EXCEPT ![c] = FALSE]
    /\ UNCHANGED <<owner, blocked, entry, total, signal, closing>>

(* poll_read with nothing to read.                                         *)
PollIdle(c) ==
    /\ owner[c] = "open" /\ ~blocked[c]
    /\ signal[c] = "pending"
    /\ beat[c]
    /\ Flush(c)
    /\ UNCHANGED <<owner, blocked, moved, entry, total, signal, closing>>

(* poll_write, poll_send_to: count, without polling the handle.            *)
PollWrite(c) ==
    LET n == [down |-> 0, up |-> 1] IN
    /\ owner[c] = "open"
    /\ Moves(c, n)
    /\ pend' = [pend EXCEPT ![c] = Plus(@, n)]
    /\ UNCHANGED <<owner, blocked, beat, queue, entry, total, signal, closing>>

(* Defect: a handle is dropped without sending what it counted.            *)
DropConnectionUncounted(c) ==
    /\ owner[c] \in {"open", "aborted"}
    /\ owner' = [owner EXCEPT ![c] = "dropped"]
    /\ queue' = queue \o <<Ev(c, "Close")>>
    /\ pend' = [pend EXCEPT ![c] = ZeroBytes]
    /\ beat' = [beat EXCEPT ![c] = FALSE]
    /\ UNCHANGED <<blocked, moved, entry, total, signal, closing>>

(* The owner ends, by itself or because poll failed: Drop for Connection.  *)
DropConnection(c) ==
    /\ owner[c] \in {"open", "aborted"}
    /\ owner' = [owner EXCEPT ![c] = "dropped"]
    /\ queue' = queue \o Counted(c) \o <<Ev(c, "Close")>>
    /\ pend' = [pend EXCEPT ![c] = ZeroBytes]
    /\ beat' = [beat EXCEPT ![c] = FALSE]
    /\ UNCHANGED <<blocked, moved, entry, total, signal, closing>>

(* The peer of the owner stops or resumes taking bytes.                    *)
Backpressure(c) ==
    /\ owner[c] = "open"
    /\ blocked' = [blocked EXCEPT ![c] = ~@]
    /\ UNCHANGED <<owner, beat, pend, moved, queue, entry, total, signal, closing>>

-----------------------------------------------------------------------------
(***************************************************************************)
(* ConnectionState::input_event, run by recv_event.  API calls run between *)
(* the events of one batch, so each event is a step.                       *)
(***************************************************************************)
Lose(c) == IF signal[c] = "pending" THEN [signal EXCEPT ![c] = "lost"] ELSE signal

InputNew(c) ==
    /\ entry' = [entry EXCEPT ![c] = [NoEntry EXCEPT !.listed = TRUE]]
    /\ UNCHANGED <<total, signal>>

(* Without an entry the sender is dropped with the event.                  *)
InputSetStopper(c) ==
    /\ entry' = [entry EXCEPT ![c].stopper = entry[c].listed]
    /\ signal' = IF entry[c].listed THEN signal ELSE Lose(c)
    /\ UNCHANGED total

InputCount(c, n) ==
    /\ \/ /\ entry[c].listed
          /\ entry' = [entry EXCEPT ![c].bytes = Plus(@, n)]
          /\ total' = Plus(total, n)
       \/ /\ ~entry[c].listed
          /\ UNCHANGED <<entry, total>>
    /\ UNCHANGED signal

(* Defect: a closed connection stays in the table.                         *)
InputCloseKeep(c) ==
    /\ UNCHANGED <<entry, total, signal>>

InputClose(c) ==
    /\ entry' = [entry EXCEPT ![c] = NoEntry]
    /\ signal' = IF entry[c].stopper THEN Lose(c) ELSE signal
    /\ UNCHANGED total

InputEvent ==
    /\ queue # <<>>
    /\ LET e == Head(queue) IN
         \/ e.kind = "New" /\ InputNew(e.uuid)
         \/ e.kind = "SetStopper" /\ InputSetStopper(e.uuid)
         \/ e.kind = "Count" /\ InputCount(e.uuid, e.bytes)
         \/ e.kind = "Close" /\ InputClose(e.uuid)
    /\ queue' = Tail(queue)
    /\ UNCHANGED <<owner, blocked, beat, pend, moved, closing>>

-----------------------------------------------------------------------------
(***************************************************************************)
(* Stopping.  The sender is taken out of the entry and used once; sending  *)
(* succeeds when the handle still exists.                                  *)
(***************************************************************************)
Stoppable(c) == entry[c].listed /\ entry[c].stopper
StopAll(S) ==
    /\ entry' = [c \in Conns |-> IF c \in S THEN [entry[c] EXCEPT !.stopper = FALSE]
                                 ELSE entry[c]]
    /\ signal' = [c \in Conns |-> IF c \in S THEN "sent" ELSE signal[c]]

StopConnection(c) ==
    /\ Stoppable(c)
    /\ StopAll({c})
    /\ UNCHANGED <<owner, blocked, beat, pend, moved, queue, total, closing>>

(* start_stream after its last stop(): until the table is empty, stop what *)
(* is in it and yield.                                                     *)
BeginClosing ==
    /\ closing = "off"
    /\ closing' = "on"
    /\ UNCHANGED <<owner, blocked, beat, pend, moved, queue, entry, total, signal>>

StopConnections ==
    /\ closing = "on"
    /\ \E c \in Conns : Stoppable(c)
    /\ StopAll({c \in Conns : Stoppable(c)})
    /\ UNCHANGED <<owner, blocked, beat, pend, moved, queue, total, closing>>

EndClosing ==
    /\ closing = "on"
    /\ \A c \in Conns : ~entry[c].listed
    /\ closing' = "done"
    /\ UNCHANGED <<owner, blocked, beat, pend, moved, queue, entry, total, signal>>

-----------------------------------------------------------------------------
Handle(c) ==
    \/ NewConnection(c) \/ PollAborted(c) \/ PollRead(c) \/ PollIdle(c) \/ PollWrite(c)
    \/ DropConnection(c) \/ Backpressure(c)

Next ==
    \/ \E c \in Conns : Handle(c) \/ StopConnection(c)
    \/ Heartbeat \/ InputEvent
    \/ BeginClosing \/ StopConnections \/ EndClosing

Spec == Init /\ [][Next]_vars

(***************************************************************************)
(* recv_event and the closing loop are always polled; sending on the       *)
(* oneshot wakes the owner, which polls unless it is blocked in a write,   *)
(* and drops a stream that failed.  Nothing ends backpressure.             *)
(***************************************************************************)
Fairness ==
    /\ WF_vars(InputEvent)
    /\ WF_vars(StopConnections)
    /\ WF_vars(EndClosing)
    /\ \A c \in Conns :
         /\ WF_vars(PollAborted(c))
         /\ WF_vars(owner[c] = "aborted" /\ DropConnection(c))

FairSpec == Spec /\ Fairness

-----------------------------------------------------------------------------
(***************************************************************************)
(* Properties.                                                             *)
(***************************************************************************)
Queued(c, kind) ==
    \E i \in DOMAIN queue : queue[i].uuid = c /\ queue[i].kind = kind

(* The table lists exactly the connections that exist, up to events still  *)
(* in the channel: an entry without a handle has its Close under way, and  *)
(* a handle without an entry its New.                                      *)
TableMatchesHandles ==
    \A c \in Conns :
        /\ entry[c].listed => owner[c] \in {"open", "aborted"} \/ Queued(c, "Close")
        /\ owner[c] \in {"open", "aborted"} => entry[c].listed \/ Queued(c, "New")

(* A stream fails with "Aborted by user" only when a user, or the end of   *)
(* start_stream, stopped it: losing the sender would fail it as well.      *)
AbortedOnRequest ==
    \A c \in Conns : owner[c] = "aborted" => signal[c] = "sent"

(* What an event in the channel, and all of them, carry of a connection's  *)
(* bytes, down or up.                                                      *)
Share(e, c, way) == IF e.uuid = c /\ e.kind = "Count" THEN e.bytes[way] ELSE 0
InFlight(c, way) == SumFunction([i \in DOMAIN queue |-> Share(queue[i], c, way)])

(* The upload and download counters the API shows lose no byte and count   *)
(* none twice, although handles flush on a heartbeat, on drop, or both:    *)
(* every byte a connection moved is in its handle, in an event, or in the  *)
(* totals; and a listed connection shows its own share.                    *)
NothingLost ==
    \A way \in {"down", "up"} :
        /\ total[way] + SumFunction([c \in Conns |-> pend[c][way] + InFlight(c, way)])
             = SumFunction([c \in Conns |-> moved[c][way]])
        /\ \A c \in Conns : entry[c].listed =>
             entry[c].bytes[way] + pend[c][way] + InFlight(c, way) = moved[c][way]

(* Unless backpressure comes back forever, the loop that closes the        *)
(* remaining connections ends.                                             *)
ClosingEnds ==
    <>[](\A c \in Conns : ~blocked[c]) => (closing = "on" ~> closing = "done")
=============================================================================
