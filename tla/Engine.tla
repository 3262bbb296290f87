------------------------------- MODULE Engine -------------------------------
(***************************************************************************)
(* The engine of rabbit-digger: RabbitDigger::{start, stop, drain,         *)
(* wait_any_exit, collect_finished_servers, start_stream} together with    *)
(* the RunningServer each server of a configuration runs in.               *)
(*                                                                         *)
(* Two kinds of actors share one RabbitDigger: the loops, each a task in   *)
(* start_stream, and the stoppers, API handlers that call stop().  They    *)
(* meet at Inner.state, a fair tokio RwLock, and at Inner.current_status,  *)
(* which set_status writes with or without that lock.                      *)
(*                                                                         *)
(* Every start() builds new RunningServers; a "generation" names one such  *)
(* set, and generation WaitConfig (0) is the state in which none is        *)
(* published.                                                              *)
(***************************************************************************)
EXTENDS Naturals, Sequences, FiniteSets

CONSTANTS
    Loops,        \* the tasks that run start_stream
    Stoppers,     \* the API handlers that call stop()
    Servers,      \* the names of servers a configuration may have
    None,         \* nobody: the value of `writer` when the lock is not held for writing
    ByApi,        \* TRUE when the loops are spawned by apply_config, which stops first
    MaxGen,       \* bound: generations of servers ever spawned
    MaxConfigs,   \* bound: configurations one stream delivers
    MaxStops      \* bound: calls of stop() one stopper makes

ASSUME LoopsAssumption == Loops \cap Stoppers = {} /\ None \notin Loops \cup Stoppers
ASSUME ByApiAssumption == ByApi \in BOOLEAN
ASSUME BoundsAssumption == {MaxGen, MaxConfigs, MaxStops} \subseteq Nat

VARIABLES
    state,        \* Inner.state: WaitConfig or the published generation
    report,       \* ServerInfo.status of the published generation's servers
    status,       \* Inner.current_status
    readers,      \* who holds Inner.state for reading
    writer,       \* who holds Inner.state for writing
    waitq,        \* the lock's queue of waiters, first come first served
    gen,          \* how many generations were spawned
    task,         \* the server task of each generation and server
    pc,           \* where each actor is
    ret,          \* where an actor's call of stop() returns to
    cfg,          \* the configuration a loop works on
    snap,         \* the snapshots collect_finished_servers carries out of the lock
    fed,          \* how many configurations each loop's stream has delivered
    stops         \* how many times each stopper has called stop()

vars == <<state, report, status, readers, writer, waitq, gen, task, pc, ret, cfg,
          snap, fed, stops>>

lockVars == <<readers, writer, waitq>>
loopVars == <<ret, cfg, snap, fed, stops>>

Actors == Loops \cup Stoppers
WaitConfig == 0
Gens == 1..MaxGen

(***************************************************************************)
(* A configuration, as far as the engine tells them apart: whether         *)
(* build_entities succeeds on it, and which servers it has.                *)
(***************************************************************************)
Config == [ok : BOOLEAN, servers : SUBSET Servers]

(* A task whose semaphore is closed (RunningServer.semaphore): it was      *)
(* aborted, or server_start returned; its future is not dropped yet when   *)
(* it is "closing".                                                        *)
TaskState == {"none", "running", "closing", "doneOk", "doneErr"}
Live == {"running", "closing"}
Done == {"doneOk", "doneErr"}
Closed == {"closing"} \cup Done

Report == [Servers -> {"Absent", "Running", "Stopped", "Error"}]
NoServers == [s \in Servers |-> "Absent"]

(* EngineStatus; the servers are the snapshots that Running carries.       *)
Status == [kind : {"Idle", "Starting", "Running", "Stopping", "Error"},
           servers : Report]
Plain(kind) == [kind |-> kind, servers |-> NoServers]

(* Where an actor is.  At these control points it asks for Inner.state.    *)
ReadPoints == {"stop", "wait"}
WritePoints == {"drain", "start", "collect"}
LoopPoints == {"spawn", "first", "build", "failed", "retry", "stop", "drain",
               "start", "publish", "wait", "collect", "announce", "await",
               "closing", "returned"}
StopperPoints == {"idle", "stop", "drain"}

TypeOK ==
    /\ gen \in 0..MaxGen
    /\ state \in 0..gen
    /\ report \in Report
    /\ status \in Status
    /\ readers \subseteq Actors
    /\ writer \in Actors \cup {None}
    /\ waitq \in Seq(Actors)
    /\ task \in [Gens -> [Servers -> TaskState]]
    /\ pc \in [Actors -> LoopPoints \cup StopperPoints]
    /\ ret \in [Actors -> LoopPoints \cup StopperPoints]
    /\ cfg \in [Loops -> Config]
    /\ snap \in [Loops -> Report]
    /\ fed \in [Loops -> Nat]
    /\ stops \in [Stoppers -> Nat]

Init ==
    /\ state = WaitConfig
    /\ report = NoServers
    /\ status = Plain("Idle")
    /\ readers = {}
    /\ writer = None
    /\ waitq = <<>>
    /\ gen = 0
    /\ task = [g \in Gens |-> [s \in Servers |-> "none"]]
    /\ pc = [a \in Actors |-> IF a \in Stoppers THEN "idle"
                              ELSE IF ByApi THEN "spawn" ELSE "first"]
    /\ ret = [a \in Actors |-> IF a \in Stoppers THEN "idle" ELSE "first"]
    /\ cfg = [l \in Loops |-> [ok |-> FALSE, servers |-> {}]]
    /\ snap = [l \in Loops |-> NoServers]
    /\ fed = [l \in Loops |-> 0]
    /\ stops = [a \in Stoppers |-> 0]

-----------------------------------------------------------------------------
(***************************************************************************)
(* Inner.state, a tokio RwLock: requests are queued and served in order, a *)
(* reader behind a queued writer waits.                                    *)
(***************************************************************************)
Goto(a, point) == pc' = [pc EXCEPT ![a] = point]

Waiting(a) == \E i \in DOMAIN waitq : waitq[i] = a
Holds(a) == a \in readers \/ writer = a

(* state.read().await or state.write().await: the caller joins the queue.  *)
Lock(a) ==
    /\ pc[a] \in ReadPoints \cup WritePoints
    /\ ~Holds(a) /\ ~Waiting(a)
    /\ waitq' = Append(waitq, a)
    /\ UNCHANGED <<state, report, status, readers, writer, gen, task, pc>>
    /\ UNCHANGED loopVars

Grant ==
    /\ waitq # <<>>
    /\ writer = None
    /\ LET a == Head(waitq) IN
         \/ /\ pc[a] \in ReadPoints
            /\ readers' = readers \cup {a}
            /\ UNCHANGED writer
         \/ /\ pc[a] \in WritePoints
            /\ readers = {}
            /\ writer' = a
            /\ UNCHANGED readers
    /\ waitq' = Tail(waitq)
    /\ UNCHANGED <<state, report, status, gen, task, pc>>
    /\ UNCHANGED loopVars

ReleaseRead(a) == readers' = readers \ {a} /\ UNCHANGED <<writer, waitq>>
ReleaseWrite == writer' = None /\ UNCHANGED <<readers, waitq>>

(* Dropping the wait_any_exit future gives up its guard or its place.      *)
Withdraw(a) ==
    /\ readers' = readers \ {a}
    /\ \/ ~Waiting(a) /\ UNCHANGED waitq
       \/ \E i \in DOMAIN waitq :
             /\ waitq[i] = a
             /\ waitq' = SubSeq(waitq, 1, i - 1) \o SubSeq(waitq, i + 1, Len(waitq))
    /\ UNCHANGED writer

-----------------------------------------------------------------------------
(***************************************************************************)
(* stop(): abort every server under the read lock, give the lock up, then  *)
(* drain() under the write lock.                                           *)
(***************************************************************************)
(* Defect: stop() forgets to abort.                                        *)
AbortTasksNot(g) == task' = [task EXCEPT ![g] = @]

AbortTasks(g) ==
    task' = [task EXCEPT ![g] = [s \in Servers |->
                 IF task[g][s] = "running" THEN "closing" ELSE task[g][s]]]

(* RunningServer::stop aborts the task and closes its semaphore, so its    *)
(* wait_finished returns at once; nothing waits for the task here.         *)
AbortAll(a) ==
    /\ pc[a] = "stop" /\ a \in readers
    /\ \/ /\ state # WaitConfig
          /\ status' = Plain("Stopping")
          /\ AbortTasks(state)
       \/ /\ state = WaitConfig
          /\ UNCHANGED <<status, task>>
    /\ Goto(a, "drain")
    /\ ReleaseRead(a)
    /\ UNCHANGED <<state, report, gen>> /\ UNCHANGED loopVars

(* Defect: take_result waits for the semaphore only, not for the handle.   *)
FinishedSemaphore(g) == \A s \in Servers : task[g][s] # "running"

(* take_result of every published server: waits for its semaphore, then    *)
(* for its JoinHandle, with the write lock held.                           *)
Finished(g) == \A s \in Servers : task[g][s] \notin Live

(* Defect: drain() does not wait for the results of the servers.           *)
DrainUnawaited(a) ==
    /\ pc[a] = "drain" /\ writer = a
    /\ state' = WaitConfig
    /\ report' = NoServers
    /\ status' = Plain("Idle")
    /\ ReleaseWrite
    /\ Goto(a, ret[a])
    /\ UNCHANGED <<gen, task>> /\ UNCHANGED loopVars

Drain(a) ==
    /\ pc[a] = "drain" /\ writer = a
    /\ state # WaitConfig => Finished(state)
    /\ state' = WaitConfig
    /\ report' = NoServers
    /\ status' = Plain("Idle")
    /\ ReleaseWrite
    /\ Goto(a, ret[a])
    /\ UNCHANGED <<gen, task>> /\ UNCHANGED loopVars

(* engine_stop, an API call.                                               *)
CallStop(a) ==
    /\ pc[a] = "idle"
    /\ stops[a] < MaxStops
    /\ stops' = [stops EXCEPT ![a] = @ + 1]
    /\ Goto(a, "stop")
    /\ UNCHANGED <<state, report, status, gen, task, ret, cfg, snap, fed>>
    /\ UNCHANGED lockVars

-----------------------------------------------------------------------------
(***************************************************************************)
(* start_stream().                                                         *)
(***************************************************************************)
(* apply_config without a source_sender: stop the engine, then spawn a     *)
(* start_stream task for the new source.                                   *)
Apply(l) ==
    /\ pc[l] = "spawn"
    /\ Goto(l, "stop")
    /\ UNCHANGED <<state, report, status, gen, task>>
    /\ UNCHANGED loopVars /\ UNCHANGED lockVars

Deliver(l, c) ==
    /\ fed[l] < MaxConfigs
    /\ fed' = [fed EXCEPT ![l] = @ + 1]
    /\ cfg' = [cfg EXCEPT ![l] = c]

(* The first configuration, and the one after a start that failed, go      *)
(* straight to start().                                                    *)
FirstConfig(l, c) ==
    /\ pc[l] \in {"first", "retry"}
    /\ Deliver(l, c)
    /\ Goto(l, "build")
    /\ UNCHANGED <<state, report, status, gen, task, ret, snap, stops>>
    /\ UNCHANGED lockVars

(* The first configuration is an error, is missing, or takes 30 seconds.   *)
FirstConfigFails(l) ==
    /\ pc[l] = "first"
    /\ Goto(l, "returned")
    /\ UNCHANGED <<state, report, status, gen, task>>
    /\ UNCHANGED loopVars /\ UNCHANGED lockVars

(* start(): announce, build the entities, stop what runs.                  *)
Build(l) ==
    /\ pc[l] = "build"
    /\ status' = Plain("Starting")
    /\ Goto(l, IF cfg[l].ok THEN "stop" ELSE "failed")
    /\ ret' = [ret EXCEPT ![l] = "start"]
    /\ UNCHANGED <<state, report, gen, task, cfg, snap, fed, stops>>
    /\ UNCHANGED lockVars

StartFailed(l) ==
    /\ pc[l] = "failed"
    /\ status' = Plain("Error")
    /\ Goto(l, "retry")
    /\ UNCHANGED <<state, report, gen, task>>
    /\ UNCHANGED loopVars /\ UNCHANGED lockVars

(* start(), with the write lock: RunningServer::start of every server.     *)
Spawn(l) ==
    /\ pc[l] = "start" /\ writer = l
    /\ gen < MaxGen
    /\ gen' = gen + 1
    /\ task' = [task EXCEPT ![gen + 1] = [s \in Servers |->
                    IF s \in cfg[l].servers THEN "running" ELSE "none"]]
    /\ snap' = [snap EXCEPT ![l] = [s \in Servers |->
                    IF s \in cfg[l].servers THEN "Running" ELSE "Absent"]]
    /\ Goto(l, "publish")
    /\ UNCHANGED <<state, report, status, ret, cfg, fed, stops>>
    /\ UNCHANGED lockVars

(* take_result_if_finished of every server, in start() and in              *)
(* collect_finished_servers(): a server whose semaphore is closed is       *)
(* awaited and its outcome recorded.                                       *)
Settled(g) == \A s \in Servers : task[g][s] # "closing"
TakeFinished(g, rep) ==
    [s \in Servers |-> CASE rep[s] = "Running" /\ task[g][s] = "doneOk" -> "Stopped"
                         [] rep[s] = "Running" /\ task[g][s] = "doneErr" -> "Error"
                         [] OTHER -> rep[s]]

(* Defect: the new state is published without announcing it.               *)
PublishSilently(l) ==
    /\ pc[l] = "publish" /\ writer = l
    /\ Settled(gen)
    /\ report' = TakeFinished(gen, snap[l])
    /\ state' = gen
    /\ ReleaseWrite
    /\ Goto(l, "wait")
    /\ UNCHANGED <<status, gen, task>> /\ UNCHANGED loopVars

(* start() after its yield: collect what already ended, publish, announce. *)
Publish(l) ==
    /\ pc[l] = "publish" /\ writer = l
    /\ Settled(gen)
    /\ report' = TakeFinished(gen, snap[l])
    /\ state' = gen
    /\ status' = [kind |-> "Running", servers |-> TakeFinished(gen, snap[l])]
    /\ ReleaseWrite
    /\ Goto(l, "wait")
    /\ UNCHANGED <<gen, task>> /\ UNCHANGED loopVars

(* wait_any_exit() returned first: nothing runs, or a server's semaphore   *)
(* is closed, or its result was already taken (its RunningServer is Idle). *)
AnyExit ==
    \/ state = WaitConfig
    \/ \A s \in Servers : report[s] = "Absent"
    \/ \E s \in Servers : report[s] \in {"Stopped", "Error"}
    \/ state # WaitConfig /\ \E s \in Servers : task[state][s] \in Closed

ServerExited(l) ==
    /\ pc[l] = "wait" /\ l \in readers
    /\ AnyExit
    /\ ReleaseRead(l)
    /\ Goto(l, "collect")
    /\ UNCHANGED <<state, report, status, gen, task>> /\ UNCHANGED loopVars

(* collect_finished_servers(), the part with the write lock ...            *)
Collect(l) ==
    /\ pc[l] = "collect" /\ writer = l
    /\ \/ /\ state = WaitConfig
          /\ Goto(l, "await")
          /\ UNCHANGED <<report, snap>>
       \/ /\ state # WaitConfig
          /\ Settled(state)
          /\ report' = TakeFinished(state, report)
          /\ snap' = [snap EXCEPT ![l] = report']
          /\ Goto(l, IF report' # report THEN "announce" ELSE "await")
    /\ ReleaseWrite
    /\ UNCHANGED <<state, status, gen, task, ret, cfg, fed, stops>>

(* ... and the set_status after the lock is released.                      *)
Announce(l) ==
    /\ pc[l] = "announce"
    /\ status' = [kind |-> "Running", servers |-> snap[l]]
    /\ Goto(l, "await")
    /\ UNCHANGED <<state, report, gen, task>>
    /\ UNCHANGED loopVars /\ UNCHANGED lockVars

(* A new configuration, racing wait_any_exit or after it: stop, start.     *)
NewConfig(l, c) ==
    /\ pc[l] \in {"wait", "await"}
    /\ Deliver(l, c)
    /\ Withdraw(l)
    /\ Goto(l, "stop")
    /\ ret' = [ret EXCEPT ![l] = "build"]
    /\ UNCHANGED <<state, report, status, gen, task, snap, stops>>

(* The stream ended or failed: stop a last time, then close connections.   *)
StreamEnd(l) ==
    /\ pc[l] \in {"wait", "await", "retry"}
    /\ Withdraw(l)
    /\ Goto(l, "stop")
    /\ ret' = [ret EXCEPT ![l] = "closing"]
    /\ UNCHANGED <<state, report, status, gen, task, cfg, snap, fed, stops>>

(* The loop that stops the remaining connections is in ConnectionManager.  *)
CloseConnections(l) ==
    /\ pc[l] = "closing"
    /\ Goto(l, "returned")
    /\ UNCHANGED <<state, report, status, gen, task>>
    /\ UNCHANGED loopVars /\ UNCHANGED lockVars

-----------------------------------------------------------------------------
(***************************************************************************)
(* The server tasks.  server_start returns by itself (an error, a closed   *)
(* listener); the semaphore is closed before the task is gone.             *)
(***************************************************************************)
SetTask(g, s, t) == task' = [task EXCEPT ![g] = [@ EXCEPT ![s] = t]]

ServerReturns(g, s) ==
    /\ task[g][s] = "running"
    /\ SetTask(g, s, "closing")
    /\ UNCHANGED <<state, report, status, gen, pc>>
    /\ UNCHANGED loopVars /\ UNCHANGED lockVars

(* The future is dropped and the JoinHandle ready.  An aborted task that   *)
(* was being polled may still complete with its own result.                *)
TaskEnds(g, s) ==
    /\ task[g][s] = "closing"
    /\ \E t \in Done : SetTask(g, s, t)
    /\ UNCHANGED <<state, report, status, gen, pc>>
    /\ UNCHANGED loopVars /\ UNCHANGED lockVars

-----------------------------------------------------------------------------
StopStep(a) == AbortAll(a) \/ Drain(a)

LoopStep(l) ==
    \/ Build(l) \/ StartFailed(l) \/ Spawn(l) \/ Publish(l)
    \/ ServerExited(l) \/ Collect(l) \/ Announce(l) \/ CloseConnections(l)

Environment(l) ==
    \/ Apply(l) \/ FirstConfigFails(l) \/ StreamEnd(l)
    \/ \E c \in Config : FirstConfig(l, c) \/ NewConfig(l, c)

Next ==
    \/ Grant
    \/ \E a \in Actors : Lock(a) \/ StopStep(a)
    \/ \E a \in Stoppers : CallStop(a)
    \/ \E l \in Loops : LoopStep(l) \/ Environment(l)
    \/ \E g \in 1..gen, s \in Servers : ServerReturns(g, s) \/ TaskEnds(g, s)

Spec == Init /\ [][Next]_vars

(***************************************************************************)
(* The runtime polls every ready task, the lock serves its queue, and an   *)
(* aborted or returned task is dropped.  Nothing makes a server return, a  *)
(* configuration arrive or a stream end.                                   *)
(***************************************************************************)
Fairness ==
    /\ WF_vars(Grant)
    /\ \A a \in Actors : WF_vars(Lock(a)) /\ WF_vars(StopStep(a))
    /\ \A l \in Loops : WF_vars(LoopStep(l))
    /\ WF_vars(\E g \in 1..gen, s \in Servers : TaskEnds(g, s))

FairSpec == Spec /\ Fairness

-----------------------------------------------------------------------------
(***************************************************************************)
(* Properties.                                                             *)
(***************************************************************************)
(* No server task lives outside the published generation and the one a     *)
(* start() that holds the lock is about to publish: the tasks of a         *)
(* replaced configuration, which own listeners and routes, are gone before *)
(* those of the next one are spawned, whatever stop() calls interleave.    *)
Starting(g) == g = gen /\ \E l \in Loops : pc[l] = "publish"
OneGeneration ==
    \A g \in Gens, s \in Servers :
        task[g][s] \in Live => g = state \/ Starting(g)

(* A published generation is given up only when all its tasks have ended:  *)
(* neither drain() nor the state a start() overwrites drops the handle of  *)
(* a task that still runs.                                                 *)
DrainBeforeReplace ==
    [][state' # state /\ state # WaitConfig => Finished(state)]_vars

(* current_status is "the single source of truth": until an API call has   *)
(* stopped the engine from outside the loop, and while no call is in       *)
(* progress, it says Running exactly when a configuration is published,    *)
(* and its snapshots are those of the published servers.                   *)
RestPoints == {"idle", "spawn", "first", "retry", "wait", "await", "returned"}
Untouched == \A a \in Stoppers : stops[a] = 0
StatusTruthful ==
    (Untouched /\ \A a \in Actors : pc[a] \in RestPoints) =>
        /\ status.kind = "Running" <=> state # WaitConfig
        /\ state # WaitConfig => status.servers = report

(* A configuration that is delivered and builds is running in the end,     *)
(* whatever runs when it comes, unless the API stops the engine.           *)
ConfigTakesEffect ==
    \A l \in Loops :
        (cfg[l].ok /\ (pc[l] = "build" \/ (pc[l] = "stop" /\ ret[l] = "build")))
            ~> (pc[l] = "wait" /\ state = gen) \/ ~Untouched

(* When its stream ends, start_stream returns and leaves no server task,   *)
(* unless the API stops the engine.                                        *)
StreamEndReturns ==
    \A l \in Loops :
        (pc[l] = "stop" /\ ret[l] = "closing") ~>
            (pc[l] = "returned" /\ \A g \in Gens : Finished(g)) \/ ~Untouched

(* Every call of stop() returns.                                           *)
StopReturns == \A a \in Stoppers : pc[a] = "stop" ~> pc[a] = "idle"
=============================================================================
