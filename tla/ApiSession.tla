----------------------------- MODULE ApiSession -----------------------------
(* The control API as the web UI uses it: RpcClient of webui/src/api.ts with  *)
(* one subscription record of store.ts, its websocket, and the session of     *)
(* api_server/rpc.rs behind it.  What a topic shows (the engine's status, the *)
(* connections) is a version number; a break of the socket loses what is on   *)
(* its way and ends the session and its subscription tasks.  The socket's     *)
(* CLOSING state is left out: it takes a Close frame from the peer, and no    *)
(* code of the server sends one.                                              *)
EXTENDS Naturals, Sequences, FiniteSets

CONSTANTS EventCapacity,    \* events the broadcast channel keeps (64)
          LastVersion,      \* bound: changes of what is shown
          MaxBreaks        \* bound: lost or refused connections

VARIABLES engine,   \* the version there is now, the events sent, those still to be sent
          link,     \* the websocket: state, both queues, how often it broke
          server,   \* the session: subscription tasks by number
          ui        \* the RpcClient: records, pending requests, reconnect timer, what it shows
apiVars == <<engine, link, server, ui>>

Nothing == [open |-> "none", c2s |-> <<>>, s2c |-> <<>>, breaks |-> 0]
\* How often the UI subscribes and calls is the scenario's, and the first version.
ApiInit(topic, subscribes, calls, version) ==
  /\ engine = [version |-> version, log |-> <<>>, emitting |-> {}]
  /\ link = Nothing
  /\ server = [subs |-> {}, used |-> 0]
  /\ ui = [topic |-> topic, left |-> subscribes, record |-> 0, records |-> 0, serverId |-> 0,
           waiting |-> <<>>, pending |-> {}, nextId |-> 1, calls |-> calls,
           timer |-> FALSE, shown |-> 0, lost |-> {}]

-----------------------------------------------------------------------------
(* RpcClient.  A request is sent at once when the socket is open; else it     *)
(* waits for connectPromise.  An attempt to subscribe belongs to a record.    *)
Sent(id, method, arg) == [id |-> id, method |-> method, arg |-> arg]
\* request() with the socket open: reqs is a sequence of <<method, arg>>.
SendAll(u, reqs) ==
  [u EXCEPT !.nextId = @ + Len(reqs),
            !.pending = @ \cup {Sent(u.nextId + k - 1, reqs[k][1], reqs[k][2]) : k \in 1..Len(reqs)}]
Queue(l, u, reqs) ==
  [l EXCEPT !.c2s = @ \o [k \in 1..Len(reqs) |-> Sent(u.nextId + k - 1, reqs[k][1], reqs[k][2])]]
\* request() from a step of the UI; without a socket, ensureConnected makes one.
Request(u, method, arg) ==
  IF link.open = "open"
  THEN link' = Queue(link, u, << <<method, arg>> >>) /\ ui' = SendAll(u, << <<method, arg>> >>)
  ELSE /\ link' = [link EXCEPT !.open = "connecting"]
       /\ ui' = [u EXCEPT !.waiting = Append(@, <<method, arg>>)]

\* subscribe(): a new record when there is none; ensureSubscription.
Subscribe == LET u == [ui EXCEPT !.left = @ - 1, !.record = ui.records + 1, !.records = @ + 1,
                                 !.serverId = 0] IN
             /\ ui.left > 0 /\ ui.record = 0
             /\ Request(u, "subscribe", u.record)
             /\ UNCHANGED <<engine, server>>
\* The function subscribe() returned: the last handler leaves.
Unsubscribe == LET u == [ui EXCEPT !.record = 0, !.serverId = 0] IN
               /\ ui.left > 0 /\ ui.record # 0
               /\ IF ui.serverId # 0 THEN Request(u, "unsubscribe", ui.serverId)
                  ELSE ui' = u /\ UNCHANGED link
               /\ UNCHANGED <<engine, server>>
Call == /\ ui.calls > 0
        /\ Request([ui EXCEPT !.calls = @ - 1], "call", 0)
        /\ UNCHANGED <<engine, server>>

\* Mutant of SocketOpens: records do not subscribe again.
SocketOpensPlain ==
  LET u == [ui EXCEPT !.serverId = 0, !.waiting = <<>>] IN
  /\ link.open = "connecting"
  /\ link' = Queue([link EXCEPT !.open = "open"], u, ui.waiting)
  /\ ui' = SendAll(u, ui.waiting)
  /\ UNCHANGED <<engine, server>>
\* onopen: every record subscribes anew, then those that waited go on, among them
\* a subscription of the same record.
SocketOpens ==
  LET again == IF ui.record # 0 THEN << <<"subscribe", ui.record>> >> ELSE <<>>
      reqs == again \o ui.waiting
      u == [ui EXCEPT !.serverId = 0, !.waiting = <<>>] IN
  /\ link.open = "connecting"
  /\ link' = Queue([link EXCEPT !.open = "open"], u, reqs)
  /\ ui' = SendAll(u, reqs)
  /\ UNCHANGED <<engine, server>>
\* onclose (after onerror, when it never opened): waiting and pending requests are
\* rejected; the timer is set unless it is.  The session behind it ends: the
\* cancel senders are dropped, and the subscription tasks break out of their loops.
SocketCloses ==
  /\ link.open # "none" /\ link.breaks < MaxBreaks
  /\ link' = [Nothing EXCEPT !.breaks = link.breaks + 1]
  /\ server' = [server EXCEPT !.subs = {}]
  /\ ui' = [ui EXCEPT !.waiting = <<>>, !.pending = {}, !.timer = TRUE]
  /\ UNCHANGED engine
ReconnectTimer == /\ ui.timer
                  /\ ui' = [ui EXCEPT !.timer = FALSE]
                  /\ link' = IF link.open = "none" THEN [link EXCEPT !.open = "connecting"] ELSE link
                  /\ UNCHANGED <<engine, server>>

-----------------------------------------------------------------------------
(* handle_socket: requests one after the other, each answered before the next. *)
(* How far the one at the head has come is in its method.                     *)
NewSub(sid) == [sid |-> sid, st |-> "start", at |-> 0, missed |-> FALSE]
Push(messages) == link' = [link EXCEPT !.c2s = Tail(@), !.s2c = @ \o messages]
Response(q, result) == [id |-> q.id, sid |-> 0, result |-> result, full |-> FALSE, from |-> 0]
\* handle_subscribe spawns the task before it answers: what the task sends first
\* may come before the response.
HandleSubscribe(sid) ==
  /\ server' = [subs |-> server.subs \cup {NewSub(sid)}, used |-> sid]
  /\ link' = [link EXCEPT !.c2s[1].method = "answer", !.c2s[1].arg = sid]
HandleUnsubscribe(q) ==
  /\ server' = [server EXCEPT !.subs = {s \in @ : s.sid # q.arg}]
  /\ Push(<<Response(q, 0)>>)
\* Any other method: what it does to the engine is in the modules of the engine.  It is
\* awaited in the session's loop, and engine.stop may never return (StopReturns of Engine).
HandleCall == \E then \in {"answer", "hung"} :
                link' = [link EXCEPT !.c2s[1].method = then] /\ UNCHANGED server
Answer(q) == Push(<<Response(q, q.arg)>>) /\ UNCHANGED server
Blocked == link.c2s # <<>> /\ Head(link.c2s).method = "hung"
HandleRequest ==
  LET q == Head(link.c2s) IN
  /\ link.open = "open" /\ link.c2s # <<>> /\ ~Blocked
  /\ CASE q.method = "subscribe" -> HandleSubscribe(server.used + 1)
       [] q.method = "unsubscribe" -> HandleUnsubscribe(q)
       [] q.method = "call" -> HandleCall
       [] OTHER -> Answer(q)
  /\ UNCHANGED <<engine, ui>>

SetSub(s, new) == server' = [server EXCEPT !.subs = (@ \ {s}) \cup {new}]
Notify(s, v, full, from) ==
  link' = [link EXCEPT !.s2c = Append(@, [id |-> 0, sid |-> s.sid, result |-> v, full |-> full, from |-> from])]
\* engine_events_subscription: the status, then subscribe_events, then every event;
\* a subscriber that lags goes on with the oldest event that is kept.  at: the status
\* read, then the number of events taken from the channel.
SendStatus(s) == /\ ui.topic = "engine.events" /\ s.st = "start"
                 /\ Notify(s, engine.version, TRUE, 0)
                 /\ SetSub(s, [s EXCEPT !.st = "read", !.at = engine.version])
SubscribeEvents(s) ==
  /\ ui.topic = "engine.events" /\ s.st = "read"
  /\ SetSub(s, [s EXCEPT !.st = "live", !.at = Len(engine.log),
                         !.missed = s.at # engine.version /\ engine.version \notin engine.emitting])
  /\ UNCHANGED link
Oldest(at) == IF Len(engine.log) - at > EventCapacity THEN Len(engine.log) - EventCapacity + 1 ELSE at + 1
SendEvent(s) == /\ ui.topic = "engine.events" /\ s.st = "live" /\ s.at < Len(engine.log)
                /\ Notify(s, engine.log[Oldest(s.at)], TRUE, 0)
                /\ SetSub(s, [s EXCEPT !.at = Oldest(s.at), !.missed = FALSE])
\* connections_subscription: every second the whole, or the difference to the last.
SendConnections(s) == /\ ui.topic = "connections" /\ s.at < engine.version
                      /\ Notify(s, engine.version, s.st = "start", s.at)
                      /\ SetSub(s, [s EXCEPT !.st = "live", !.at = engine.version])
Task(s) == link.open = "open" /\ (SendStatus(s) \/ SubscribeEvents(s) \/ SendEvent(s) \/ SendConnections(s))
           /\ UNCHANGED <<engine, ui>>

-----------------------------------------------------------------------------
(* handleMessage.                                                             *)
Wrong == LastVersion + 1    \* a document made by a patch for another one
Shown(m) == IF m.full \/ m.from = ui.shown THEN m.result ELSE Wrong
Reads == link.open = "open" /\ link.s2c # <<>>
Rest == [link EXCEPT !.s2c = Tail(@)]
\* A notification for the record's serverId reaches its handlers, another is dropped.
OnNotification == LET m == Head(link.s2c) IN
                  /\ Reads /\ m.sid # 0
                  /\ link' = Rest
                  /\ ui' = IF ui.record # 0 /\ ui.serverId = m.sid THEN [ui EXCEPT !.shown = Shown(m)]
                           ELSE [ui EXCEPT !.lost = @ \cup {m.sid}]
                  /\ UNCHANGED <<engine, server>>
\* A response settles its request; an attempt to subscribe whose record is gone
\* unsubscribes, one of a record that was replaced sets what nobody looks at.
OnResponse ==
  LET m == Head(link.s2c)
      q == CHOOSE p \in ui.pending : p.id = m.id
      u == [ui EXCEPT !.pending = @ \ {q}] IN
  /\ Reads /\ m.id # 0
  /\ CASE q.method = "subscribe" /\ ui.record = 0 ->
            LET back == << <<"unsubscribe", m.result>> >> IN
            link' = Queue(Rest, u, back) /\ ui' = SendAll(u, back)
       [] q.method = "subscribe" /\ ui.record = q.arg ->
            link' = Rest /\ ui' = [u EXCEPT !.serverId = m.result]
       [] OTHER -> link' = Rest /\ ui' = u
  /\ UNCHANGED <<engine, server>>

-----------------------------------------------------------------------------
(* set_status writes the status and then emits it; its callers hold the state *)
(* lock or do not (start, the tasks of servers), so two may emit in the other  *)
(* order.  The connections have no event.                                     *)
Change == LET v == engine.version + 1 IN
          /\ engine.version < LastVersion
          /\ engine' = [engine EXCEPT !.version = v,
                          !.emitting = IF ui.topic = "engine.events" THEN @ \cup {v} ELSE @]
          /\ UNCHANGED <<link, server, ui>>
Emit == \E v \in engine.emitting :
          /\ engine' = [engine EXCEPT !.log = Append(@, v), !.emitting = @ \ {v}]
          /\ UNCHANGED <<link, server, ui>>

ServerTask == \E s \in server.subs : Task(s)
ApiNext == \/ Subscribe \/ Unsubscribe \/ Call \/ SocketOpens \/ SocketCloses \/ ReconnectTimer
           \/ HandleRequest \/ ServerTask \/ OnNotification \/ OnResponse \/ Change \/ Emit
\* Subscriptions a session can be asked for: by subscribe() and by each onopen.
MaxSubs == 2 + MaxBreaks + 1
ApiFairness == /\ WF_apiVars(SocketOpens) /\ WF_apiVars(ReconnectTimer) /\ WF_apiVars(HandleRequest)
               /\ WF_apiVars(Emit)
               /\ WF_apiVars(OnNotification \/ OnResponse)
               /\ \A n \in 1..MaxSubs : WF_apiVars(\E s \in server.subs : s.sid = n /\ Task(s))

-----------------------------------------------------------------------------
(* Properties.                                                               *)

\* The UI follows the engine: whatever breaks, is subscribed twice or unsubscribed, in
\* the end no request is pending and every record is subscribed, unless the session awaits
\* a call that does not return; and a subscribed record shows the newest version, unless
\* its subscription's first message came before the response, or the newest status was
\* written and emitted between rd.status() and subscribe_events(), or two set_status emitted
\* in the other order than they wrote.
Crossed == engine.log # <<>> /\ engine.log[Len(engine.log)] # engine.version
Excused == \/ ui.serverId \in ui.lost \/ Crossed
           \/ \E s \in server.subs : s.sid = ui.serverId /\ s.missed
Settled == /\ Blocked \/ (ui.pending = {} /\ ui.waiting = <<>> /\ (ui.record # 0 => ui.serverId # 0))
           /\ ui.record # 0 /\ ui.serverId # 0 => ui.shown = engine.version \/ Excused
UiFollows == <>[]Settled
=============================================================================
