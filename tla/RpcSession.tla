----------------------------- MODULE RpcSession -----------------------------
(***************************************************************************)
(* One session of the rpc protocol: a client that sends requests over one  *)
(* stream and matches responses to them, and a server that runs a task per *)
(* request and keeps the sockets it opened as numbered objects.            *)
(*                                                                         *)
(* Client: every send() registers a waiter for its seq_id and spawns a     *)
(* task that reads ONE response, whoever's it is.  Server: handle_conn     *)
(* spawns a task per request that runs handle_req, or is cancelled through *)
(* `notify` when the session ends.  A request is named by its seq_id.      *)
(***************************************************************************)
EXTENDS Naturals, Sequences, FiniteSets

CONSTANTS
    Reqs,         \* requests made after the handshake
    Hs,           \* the handshake request
    KindsOf       \* the kinds of command each request may be

ASSUME HsAssumption == Hs \notin Reqs
ASSUME KindsAssumption == KindsOf \in [Reqs -> SUBSET {"Open", "Lookup", "Accept", "Use", "Close"}]
ASSUME ReqsAssumption == IsFiniteSet(Reqs)

VARIABLES
    link,         \* the stream: "up" or "down"
    c2s, s2c,     \* requests and responses on their way
    wopen,        \* the client's write task runs
    st,           \* where each call is
    cmd,          \* the command of each request
    waiters,      \* ClientSessionState.wait_map
    readers,      \* wait_response tasks, named by the request that spawned them
    answer,       \* what each call returned
    closed,       \* ClientSession.closed, which makes get_sess reconnect
    held,         \* objects the client has a wrapper for
    srv,          \* handle_conn
    task,         \* the server's task for each request
    result,       \* what handle_req returned
    objects,      \* ServerSessionState.objects
    nextObj,      \* ServerSessionState.obj_id
    creator       \* history: the request each object was made for

clientVars == <<wopen, st, cmd, waiters, readers, answer, closed, held>>
serverVars == <<srv, task, result, objects, nextObj, creator>>
vars == <<link, c2s, s2c, clientVars, serverVars>>

Calls == Reqs \cup {Hs}
Ids == 0..Cardinality(Calls)

(* What a command needs and makes: TcpConnect, TcpBind, UdpBind and        *)
(* LookupHost need no object; Accept makes one from one; Use is any other  *)
(* command on an object.                                                   *)
Command == [kind : {"Handshake", "Open", "Lookup", "Accept", "Use", "Close"},
            obj : {{}} \cup {{i} : i \in Ids}]
OnObject == {"Accept", "Use", "Close"}
Makes == {"Open", "Accept"}

(* A response: Ok with an object, Ok without one, or Err.                  *)
Outcome == [ok : BOOLEAN, obj : {{}} \cup {{i} : i \in Ids}]
Err == [ok |-> FALSE, obj |-> {}]
Null == [ok |-> TRUE, obj |-> {}]
Response == [seq : Calls, out : Outcome]

TypeOK ==
    /\ link \in {"up", "down"}
    /\ c2s \in Seq(Calls)
    /\ s2c \in Seq(Response)
    /\ wopen \in BOOLEAN
    /\ st \in [Calls -> {"new", "sent", "waiting", "returned", "dropped"}]
    /\ cmd \in [Calls -> Command]
    /\ waiters \subseteq Calls
    /\ readers \subseteq Calls
    /\ answer \in [Calls -> Outcome]
    /\ closed \in BOOLEAN
    /\ held \subseteq Ids
    /\ srv \in {"handshake", "serving", "closed"}
    /\ task \in [Calls -> {"none", "spawned", "running", "answered", "done", "cancelled"}]
    /\ result \in [Calls -> Outcome]
    /\ objects \subseteq Ids
    /\ nextObj \in Ids
    /\ creator \in [Ids -> Calls]

Init ==
    /\ link = "up" /\ c2s = <<>> /\ s2c = <<>>
    /\ wopen = TRUE
    /\ st = [r \in Calls |-> "new"]
    /\ cmd = [r \in Calls |-> [kind |-> "Handshake", obj |-> {}]]
    /\ waiters = {} /\ readers = {}
    /\ answer = [r \in Calls |-> Err]
    /\ closed = FALSE
    /\ held = {}
    /\ srv = "handshake"
    /\ task = [r \in Calls |-> "none"]
    /\ result = [r \in Calls |-> Err]
    /\ objects = {} /\ nextObj = 0
    /\ creator = [i \in Ids |-> Hs]

-----------------------------------------------------------------------------
(***************************************************************************)
(* The client.                                                             *)
(***************************************************************************)
(* Who may call what: new() the handshake, RpcNet and the wrappers the     *)
(* rest once it is answered; dropping a wrapper sends Close.               *)
MayCall(r, c) ==
    \/ r = Hs /\ c = [kind |-> "Handshake", obj |-> {}]
    \/ /\ r # Hs /\ c.kind \in KindsOf[r]
       /\ st[Hs] = "returned" /\ answer[Hs].ok
       /\ \/ c.kind \in {"Open", "Lookup"} /\ c.obj = {}
          \/ c.kind \in OnObject /\ c.obj # {} /\ c.obj \subseteq held

(* ClientSession::send, up to conn.send: what is written to a dead stream  *)
(* is lost.                                                                *)
Send(r, c) ==
    /\ st[r] = "new" /\ wopen
    /\ MayCall(r, c)
    /\ cmd' = [cmd EXCEPT ![r] = c]
    /\ held' = IF c.kind = "Close" THEN held \ c.obj ELSE held
    /\ st' = [st EXCEPT ![r] = "sent"]
    /\ c2s' = IF link = "up" THEN Append(c2s, r) ELSE c2s
    /\ UNCHANGED <<link, s2c, wopen, waiters, readers, answer, closed>>
    /\ UNCHANGED serverVars

(* conn.send fails: the write task is gone.                                *)
SendFails(r, c) ==
    /\ st[r] = "new" /\ ~wopen
    /\ MayCall(r, c)
    /\ cmd' = [cmd EXCEPT ![r] = c]
    /\ held' = IF c.kind = "Close" THEN held \ c.obj ELSE held
    /\ st' = [st EXCEPT ![r] = "returned"]
    /\ closed' = TRUE
    /\ UNCHANGED <<link, c2s, s2c, wopen, waiters, readers, answer>>
    /\ UNCHANGED serverVars

(* Defect: no reader is spawned for a Close, which nobody waits for.       *)
RegisterSome(r) ==
    /\ st[r] = "sent"
    /\ st' = [st EXCEPT ![r] = "waiting"]
    /\ waiters' = waiters \cup {r}
    /\ readers' = IF cmd[r].kind = "Close" THEN readers ELSE readers \cup {r}
    /\ UNCHANGED <<link, c2s, s2c, wopen, cmd, answer, closed, held>>
    /\ UNCHANGED serverVars

(* The rest of send: the waiter, then the task that reads one response.    *)
Register(r) ==
    /\ st[r] = "sent"
    /\ st' = [st EXCEPT ![r] = "waiting"]
    /\ waiters' = waiters \cup {r}
    /\ readers' = readers \cup {r}
    /\ UNCHANGED <<link, c2s, s2c, wopen, cmd, answer, closed, held>>
    /\ UNCHANGED serverVars

(* Defect: a response goes to some call that waits.                        *)
SendResponseAny(r, out) ==
    \/ /\ waiters # {}
       /\ LET w == IF r \in waiters THEN CHOOSE x \in waiters : TRUE ELSE r IN
            /\ waiters' = waiters \ {w}
            /\ answer' = [answer EXCEPT ![w] = out]
            /\ st' = [st EXCEPT ![w] = IF @ = "waiting" THEN "returned" ELSE @]
            /\ held' = held \cup out.obj
    \/ waiters = {} /\ UNCHANGED <<waiters, answer, st, held>>

(* ClientSessionState::send_response: to its waiter, if there is one.      *)
SendResponse(r, out) ==
    \/ /\ r \in waiters
       /\ waiters' = waiters \ {r}
       /\ answer' = [answer EXCEPT ![r] = out]
       /\ st' = [st EXCEPT ![r] = "returned"]
       /\ held' = held \cup out.obj
    \/ r \notin waiters /\ UNCHANGED <<waiters, answer, st, held>>

(* wait_response, in the task of any reader.                               *)
ReadResponse(q) ==
    /\ q \in readers /\ s2c # <<>>
    /\ SendResponse(Head(s2c).seq, Head(s2c).out)
    /\ s2c' = Tail(s2c)
    /\ readers' = readers \ {q}
    /\ UNCHANGED <<link, c2s, wopen, cmd, closed>>
    /\ UNCHANGED serverVars

(* Defect: a reader that fails does not mark the session as closed.        *)
ReaderFailsQuietly(q) ==
    /\ q \in readers /\ s2c = <<>> /\ link = "down"
    /\ SendResponse(q, Err)
    /\ readers' = readers \ {q}
    /\ UNCHANGED <<link, c2s, s2c, wopen, cmd, closed>>
    /\ UNCHANGED serverVars

(* The read side is gone: the task answers its own request with the error. *)
ReaderFails(q) ==
    /\ q \in readers /\ s2c = <<>> /\ link = "down"
    /\ SendResponse(q, Err)
    /\ closed' = TRUE
    /\ readers' = readers \ {q}
    /\ UNCHANGED <<link, c2s, s2c, wopen, cmd>>
    /\ UNCHANGED serverVars

(* The caller gives up: Drop for ResponseGetter removes the waiter.        *)
DropGetter(r) ==
    /\ r # Hs /\ st[r] = "waiting"
    /\ st' = [st EXCEPT ![r] = "dropped"]
    /\ waiters' = waiters \ {r}
    /\ UNCHANGED <<link, c2s, s2c, wopen, cmd, readers, answer, closed, held>>
    /\ UNCHANGED serverVars

-----------------------------------------------------------------------------
(***************************************************************************)
(* The stream.                                                             *)
(***************************************************************************)
Prefixes(s) == {SubSeq(s, 1, n) : n \in 0..Len(s)}

(* The stream breaks, or the client closes it, which also ends its write   *)
(* task; what was on its way arrives in part.                              *)
Break ==
    /\ link = "up"
    /\ link' = "down"
    /\ c2s' \in Prefixes(c2s)
    /\ s2c' \in Prefixes(s2c)
    /\ wopen' \in BOOLEAN
    /\ UNCHANGED <<st, cmd, waiters, readers, answer, closed, held>>
    /\ UNCHANGED serverVars

(* A write of the client's write task fails.                               *)
WriterEnds ==
    /\ link = "down" /\ wopen
    /\ wopen' = FALSE
    /\ UNCHANGED <<link, c2s, s2c, st, cmd, waiters, readers, answer, closed, held>>
    /\ UNCHANGED serverVars

-----------------------------------------------------------------------------
(***************************************************************************)
(* The server.                                                             *)
(***************************************************************************)
Handshake ==
    /\ srv = "handshake" /\ c2s # <<>>
    /\ srv' = "serving"
    /\ c2s' = Tail(c2s)
    /\ s2c' = IF link = "up" THEN Append(s2c, [seq |-> Head(c2s), out |-> Null]) ELSE s2c
    /\ UNCHANGED <<link, task, result, objects, nextObj, creator>>
    /\ UNCHANGED clientVars

(* The loop of handle_conn: a task for each request.                       *)
Recv ==
    /\ srv = "serving" /\ c2s # <<>>
    /\ task' = [task EXCEPT ![Head(c2s)] = "spawned"]
    /\ c2s' = Tail(c2s)
    /\ UNCHANGED <<link, s2c, srv, result, objects, nextObj, creator>>
    /\ UNCHANGED clientVars

Known(c) == c.kind \in OnObject \ {"Close"} => c.obj \subseteq objects

(* The task is polled first: select! listens to notify from here on, and   *)
(* handle_req looks its object up.                                         *)
Begin(r) ==
    /\ task[r] = "spawned"
    /\ \/ Known(cmd[r]) /\ task' = [task EXCEPT ![r] = "running"]
       \/ ~Known(cmd[r]) /\ task' = [task EXCEPT ![r] = "answered"]
    /\ UNCHANGED <<link, c2s, s2c, srv, result, objects, nextObj, creator>>
    /\ UNCHANGED clientVars

(* ServerSessionState::insert_object.                                      *)
InsertObject(r) ==
    /\ objects' = objects \cup {nextObj}
    /\ nextObj' = nextObj + 1
    /\ creator' = [creator EXCEPT ![nextObj] = r]
    /\ result' = [result EXCEPT ![r] = [ok |-> TRUE, obj |-> {nextObj}]]

(* Defect: Close removes the newest object.                                *)
RemoveObjectNewest(o) ==
    objects' = objects \ {i \in objects : \A j \in objects : j <= i}

RemoveObject(o) == objects' = objects \ o

(* handle_req returns.  Nothing says when: Accept, Read and RecvFrom wait  *)
(* for a peer.                                                             *)
Handle(r) ==
    /\ task[r] = "running"
    /\ task' = [task EXCEPT ![r] = "answered"]
    /\ \/ /\ cmd[r].kind \in Makes
          /\ InsertObject(r)
       \/ /\ cmd[r].kind = "Close"
          /\ RemoveObject(cmd[r].obj)
          /\ result' = [result EXCEPT ![r] = Null]
          /\ UNCHANGED <<nextObj, creator>>
       \/ /\ cmd[r].kind \in {"Lookup", "Use"}
          /\ result' = [result EXCEPT ![r] = Null]
          /\ UNCHANGED <<objects, nextObj, creator>>
       \/ /\ cmd[r].kind # "Close"
          /\ UNCHANGED <<result, objects, nextObj, creator>>
    /\ UNCHANGED <<link, c2s, s2c, srv>>
    /\ UNCHANGED clientVars

(* RequestGetter::response.                                                *)
Respond(r) ==
    /\ task[r] = "answered"
    /\ task' = [task EXCEPT ![r] = "done"]
    /\ s2c' = IF link = "up" THEN Append(s2c, [seq |-> r, out |-> result[r]]) ELSE s2c
    /\ UNCHANGED <<link, c2s, srv, result, objects, nextObj, creator>>
    /\ UNCHANGED clientVars

(* notify_waiters reaches the tasks that listen; one that was spawned and  *)
(* not polled yet misses it.                                               *)
NotifyWaiters(tasks) ==
    task' = [r \in Calls |-> IF tasks[r] = "running" THEN "cancelled" ELSE tasks[r]]

(* response() finds the server's write task gone: on_close() closes the    *)
(* session, which ends its read task, and notifies.                        *)
RespondFails(r) ==
    /\ task[r] = "answered" /\ link = "down"
    /\ NotifyWaiters([task EXCEPT ![r] = "done"])
    /\ c2s' \in Prefixes(c2s)
    /\ UNCHANGED <<link, s2c, srv, result, objects, nextObj, creator>>
    /\ UNCHANGED clientVars

(* recv fails, handle_conn ends, and its guard calls on_close().           *)
ServerEnds ==
    /\ srv # "closed" /\ link = "down" /\ c2s = <<>>
    /\ srv' = "closed"
    /\ NotifyWaiters(task)
    /\ UNCHANGED <<link, c2s, s2c, result, objects, nextObj, creator>>
    /\ UNCHANGED clientVars

(* The RpcServer is dropped: its stopper drops handle_conn.                *)
ServerStops ==
    /\ srv # "closed" /\ link = "up"
    /\ srv' = "closed"
    /\ link' = "down"
    /\ c2s' = <<>>
    /\ s2c' \in Prefixes(s2c)
    /\ NotifyWaiters(task)
    /\ UNCHANGED <<result, objects, nextObj, creator>>
    /\ UNCHANGED clientVars

-----------------------------------------------------------------------------
ClientStep(r) ==
    \/ Register(r) \/ ReadResponse(r) \/ ReaderFails(r) \/ DropGetter(r)
    \/ \E c \in Command : Send(r, c) \/ SendFails(r, c)

ServerStep(r) == Begin(r) \/ Handle(r) \/ Respond(r) \/ RespondFails(r)

Next ==
    \/ \E r \in Calls : ClientStep(r) \/ ServerStep(r)
    \/ Handshake \/ Recv \/ ServerEnds \/ ServerStops
    \/ Break \/ WriterEnds

Spec == Init /\ [][Next]_vars

(***************************************************************************)
(* The client's tasks are polled when they can go on.  Nothing is assumed  *)
(* of callers, of the stream, or of how long the server takes.             *)
(***************************************************************************)
Fairness ==
    \A r \in Calls : WF_vars(Register(r)) /\ WF_vars(ReadResponse(r)) /\ WF_vars(ReaderFails(r))

FairSpec == Spec /\ Fairness

-----------------------------------------------------------------------------
(***************************************************************************)
(* Properties.                                                             *)
(***************************************************************************)
(* A call that returns an object returns the one made for it.              *)
AnswerIsOwn ==
    \A r \in Calls : \A i \in answer[r].obj : creator[i] = r /\ cmd[r].kind \in Makes

(* As long as the session lives, an object the client has a wrapper for is *)
(* in the server's table: only the wrapper's own Close removes it.         *)
HeldExists == srv = "serving" => held \subseteq objects

(* A response that arrives while its call waits makes the call return,     *)
(* even when the readers of other calls take all responses.                *)
InTransit(r) == \E i \in DOMAIN s2c : s2c[i].seq = r
ResponseReachesWaiter ==
    \A r \in Calls : (InTransit(r) /\ r \in waiters) ~> (r \notin waiters \/ link = "down")

(* A request lost with the stream marks the session as closed, so that     *)
(* get_sess opens another: the reader it leaves over finds nothing to read *)
(* even if it is not the reader of that request.                           *)
Lost(r) ==
    /\ link = "down" /\ st[r] \in {"sent", "waiting"} /\ task[r] = "none"
    /\ \A i \in DOMAIN c2s : c2s[i] # r
    /\ ~InTransit(r)
BreakNoticed == \A r \in Reqs : Lost(r) ~> closed

(* When the session breaks, every call that waits returns.                 *)
CallsReturn == \A r \in Calls : (link = "down" /\ st[r] = "waiting") ~> st[r] # "waiting"
=============================================================================
