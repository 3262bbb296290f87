---------------------------- MODULE EngineProofs ----------------------------
(***************************************************************************)
(* Theorems about Engine for every number of stoppers, servers and         *)
(* generations: type correctness for any number of loops, and, for the one *)
(* loop the daemon runs, that generations of servers never overlap.        *)
(***************************************************************************)
EXTENDS Engine, SequenceTheorems, TLAPS

(* Giving up a place in the lock's queue leaves a queue of actors.         *)
LEMMA RemoveType ==
    ASSUME NEW S, NEW q \in Seq(S), NEW i \in DOMAIN q
    PROVE  SubSeq(q, 1, i - 1) \o SubSeq(q, i + 1, Len(q)) \in Seq(S)
  <1>1. i \in 1..Len(q)
    OBVIOUS
  <1>2. SubSeq(q, 1, i - 1) \in Seq(S)
    BY <1>1, SubSeqProperties
  <1>3. SubSeq(q, i + 1, Len(q)) \in Seq(S)
    BY <1>1, SubSeqProperties
  <1> QED
    BY <1>2, <1>3

(* What collecting finished servers computes is again a report.            *)
LEMMA TakeFinishedType ==
    ASSUME NEW g, NEW rep \in Report
    PROVE  TakeFinished(g, rep) \in Report
  BY DEF TakeFinished, Report

(* A status without servers is an EngineStatus.                            *)
LEMMA PlainType ==
    ASSUME NEW k \in {"Idle", "Starting", "Running", "Stopping", "Error"}
    PROVE  Plain(k) \in Status
  BY DEF Plain, Status, Report, NoServers

-----------------------------------------------------------------------------
(***************************************************************************)
(* Type correctness.                                                       *)
(***************************************************************************)

(* A new RabbitDigger is well typed.                                       *)
LEMMA TypeInit == Init => TypeOK
  <1> SUFFICES ASSUME Init PROVE TypeOK
    OBVIOUS
  <1> USE DEF Init
  <1>1. report \in Report /\ snap \in [Loops -> Report]
    BY DEF Report, NoServers
  <1>2. status \in Status
    BY PlainType
  <1>3. task \in [Gens -> [Servers -> TaskState]]
    BY DEF TaskState
  <1>4. cfg \in [Loops -> Config]
    BY DEF Config
  <1>5. pc \in [Actors -> LoopPoints \cup StopperPoints]
    BY DEF LoopPoints, StopperPoints
  <1>6. ret \in [Actors -> LoopPoints \cup StopperPoints]
    BY DEF LoopPoints, StopperPoints
  <1>7. gen \in 0..MaxGen /\ state \in 0..gen
    BY BoundsAssumption DEF WaitConfig
  <1> QED
    BY <1>1, <1>2, <1>3, <1>4, <1>5, <1>6, <1>7 DEF TypeOK

(* Every action of every actor keeps the types: one step per action.       *)
LEMMA TypeNext == TypeOK /\ [Next]_vars => TypeOK'
  <1> SUFFICES ASSUME TypeOK, [Next]_vars PROVE TypeOK'
    OBVIOUS
  <1> USE DEF TypeOK
  <1>1. CASE Grant
    <2>1. Head(waitq) \in Actors /\ Tail(waitq) \in Seq(Actors)
      BY <1>1 DEF Grant
    <2> QED
      BY <1>1, <2>1 DEF Grant, loopVars
  <1>2. ASSUME NEW a \in Actors, Lock(a) PROVE TypeOK'
    BY <1>2 DEF Lock, loopVars
  <1>3. ASSUME NEW a \in Actors, AbortAll(a) PROVE TypeOK'
    <2> USE <1>3 DEF AbortAll
    <2>1. status' \in Status
      BY PlainType
    <2>2. task' \in [Gens -> [Servers -> TaskState]]
      <3>1. CASE state = WaitConfig
        BY <3>1
      <3>2. CASE state # WaitConfig
        <4>1. task' = [task EXCEPT ![state] = [s \in Servers |->
                  IF task[state][s] = "running" THEN "closing" ELSE task[state][s]]]
          BY <3>2 DEF AbortTasks
        <4>2. state \in Gens
          BY <3>2, BoundsAssumption DEF Gens, WaitConfig
        <4>3. [s \in Servers |->
                  IF task[state][s] = "running" THEN "closing" ELSE task[state][s]]
              \in [Servers -> TaskState]
          BY <4>2 DEF TaskState
        <4> QED
          BY <4>1, <4>3
      <3> QED
        BY <3>1, <3>2
    <2>3. pc' \in [Actors -> LoopPoints \cup StopperPoints]
      BY DEF Goto, LoopPoints
    <2> QED
      BY <2>1, <2>2, <2>3 DEF ReleaseRead, loopVars
  <1>4. ASSUME NEW a \in Actors, Drain(a) PROVE TypeOK'
    <2> USE <1>4 DEF Drain
    <2>1. status' \in Status /\ report' \in Report
      BY PlainType DEF Report, NoServers
    <2>2. pc' \in [Actors -> LoopPoints \cup StopperPoints]
      BY DEF Goto
    <2>3. state' \in 0..gen'
      BY DEF WaitConfig
    <2> QED
      BY <2>1, <2>2, <2>3 DEF ReleaseWrite, loopVars
  <1>5. ASSUME NEW a \in Stoppers, CallStop(a) PROVE TypeOK'
    BY <1>5 DEF CallStop, Goto, Actors, LoopPoints, lockVars
  <1>6. ASSUME NEW l \in Loops, Build(l) PROVE TypeOK'
    <2>1. status' \in Status
      BY <1>6, PlainType DEF Build
    <2> QED
      BY <1>6, <2>1 DEF Build, Goto, Actors, LoopPoints, lockVars
  <1>7. ASSUME NEW l \in Loops, StartFailed(l) PROVE TypeOK'
    <2>1. status' \in Status
      BY <1>7, PlainType DEF StartFailed
    <2> QED
      BY <1>7, <2>1 DEF StartFailed, Goto, Actors, LoopPoints, lockVars, loopVars
  <1>8. ASSUME NEW l \in Loops, Spawn(l) PROVE TypeOK'
    <2> USE <1>8 DEF Spawn
    <2>1. gen' \in 0..MaxGen /\ state' \in 0..gen'
      BY BoundsAssumption
    <2>2. task' \in [Gens -> [Servers -> TaskState]]
      BY DEF TaskState
    <2>3. snap' \in [Loops -> Report]
      BY DEF Report
    <2>4. pc' \in [Actors -> LoopPoints \cup StopperPoints]
      BY DEF Goto, LoopPoints
    <2> QED
      BY <2>1, <2>2, <2>3, <2>4 DEF lockVars
  <1>9. ASSUME NEW l \in Loops, Publish(l) PROVE TypeOK'
    <2> USE <1>9 DEF Publish
    <2>1. TakeFinished(gen, snap[l]) \in Report
      BY TakeFinishedType
    <2>2. report' \in Report /\ status' \in Status
      BY <2>1 DEF Status
    <2>3. state' \in 0..gen'
      BY BoundsAssumption
    <2>4. pc' \in [Actors -> LoopPoints \cup StopperPoints]
      BY DEF Goto, LoopPoints
    <2> QED
      BY <2>2, <2>3, <2>4 DEF ReleaseWrite, loopVars
  <1>10. ASSUME NEW l \in Loops, ServerExited(l) PROVE TypeOK'
    BY <1>10 DEF ServerExited, Goto, LoopPoints, ReleaseRead, loopVars
  <1>11. ASSUME NEW l \in Loops, Collect(l) PROVE TypeOK'
    <2> USE <1>11 DEF Collect
    <2>0. TakeFinished(state, report) \in Report
      BY TakeFinishedType
    <2>1. report' \in Report /\ snap' \in [Loops -> Report]
      <3>1. CASE state = WaitConfig
        BY <3>1
      <3>2. CASE state # WaitConfig
        <4>1. report' = TakeFinished(state, report)
          BY <3>2
        <4>2. snap' = [snap EXCEPT ![l] = report']
          BY <3>2
        <4> QED
          BY <2>0, <4>1, <4>2
      <3> QED
        BY <3>1, <3>2
    <2>2. pc' \in [Actors -> LoopPoints \cup StopperPoints]
      BY DEF Goto, LoopPoints
    <2> QED
      BY <2>1, <2>2 DEF ReleaseWrite
  <1>12. ASSUME NEW l \in Loops, Announce(l) PROVE TypeOK'
    <2>1. status' \in Status
      BY <1>12 DEF Announce, Status
    <2> QED
      BY <1>12, <2>1 DEF Announce, Goto, LoopPoints, lockVars, loopVars
  <1>13. ASSUME NEW l \in Loops, CloseConnections(l) PROVE TypeOK'
    BY <1>13 DEF CloseConnections, Goto, LoopPoints, lockVars, loopVars
  <1>14. ASSUME NEW l \in Loops, Apply(l) \/ FirstConfigFails(l) PROVE TypeOK'
    BY <1>14 DEF Apply, FirstConfigFails, Goto, LoopPoints, lockVars, loopVars
  <1>15. ASSUME NEW l \in Loops, Withdraw(l)
         PROVE  readers' \subseteq Actors /\ writer' \in Actors \cup {None}
                /\ waitq' \in Seq(Actors)
    <2>1. CASE UNCHANGED waitq
      BY <1>15, <2>1 DEF Withdraw
    <2>2. ASSUME NEW i \in DOMAIN waitq,
                 waitq' = SubSeq(waitq, 1, i - 1) \o SubSeq(waitq, i + 1, Len(waitq))
          PROVE  waitq' \in Seq(Actors)
      BY <2>2, RemoveType
    <2> QED
      BY <1>15, <2>1, <2>2 DEF Withdraw
  <1>16. ASSUME NEW l \in Loops, StreamEnd(l) PROVE TypeOK'
    BY <1>16, <1>15 DEF StreamEnd, Goto, LoopPoints
  <1>a. ASSUME NEW l \in Loops, NEW c \in Config, Deliver(l, c)
        PROVE  cfg' \in [Loops -> Config] /\ fed' \in [Loops -> Nat]
    <2>1. fed[l] + 1 \in Nat
      OBVIOUS
    <2> QED
      BY <1>a, <2>1 DEF Deliver
  <1>17. ASSUME NEW l \in Loops, NEW c \in Config, FirstConfig(l, c) PROVE TypeOK'
    BY <1>17, <1>a DEF FirstConfig, Goto, LoopPoints, lockVars
  <1>18. ASSUME NEW l \in Loops, NEW c \in Config, NewConfig(l, c) PROVE TypeOK'
    BY <1>18, <1>15, <1>a DEF NewConfig, Goto, LoopPoints
  <1>19. ASSUME NEW g \in 1..gen, NEW s \in Servers, ServerReturns(g, s) \/ TaskEnds(g, s)
         PROVE  TypeOK'
    <2>1. task' \in [Gens -> [Servers -> TaskState]]
      <3>1. PICK t \in TaskState : SetTask(g, s, t)
        BY <1>19 DEF ServerReturns, TaskEnds, TaskState, Done
      <3>2. task[g] \in [Servers -> TaskState]
        BY BoundsAssumption DEF Gens
      <3>3. [task[g] EXCEPT ![s] = t] \in [Servers -> TaskState]
        BY <3>2
      <3> QED
        BY <3>1, <3>3 DEF SetTask
    <2> QED
      BY <1>19, <2>1 DEF ServerReturns, TaskEnds, lockVars, loopVars
  <1>20. CASE UNCHANGED vars
    BY <1>20 DEF vars
  <1> QED
    BY <1>1, <1>2, <1>3, <1>4, <1>5, <1>6, <1>7, <1>8, <1>9, <1>10, <1>11, <1>12, <1>13,
       <1>14, <1>16, <1>17, <1>18, <1>19, <1>20
    DEF Next, StopStep, LoopStep, Environment

(* The engine's variables keep their types, for every number of loops,     *)
(* stoppers and servers: a generation is published only after it was       *)
(* spawned, every status is an EngineStatus with a full snapshot.          *)
THEOREM TypeCorrect == Spec => []TypeOK
  BY TypeInit, TypeNext, PTL DEF Spec

-----------------------------------------------------------------------------
(***************************************************************************)
(* Generations do not overlap when one loop runs.  OneGeneration is not    *)
(* inductive: a start() that overwrote a published state would leave its   *)
(* tasks behind.  What rules it out is that from the end of its own stop() *)
(* until it publishes, the only loop finds nothing published (StartClean); *)
(* the stoppers can only take the engine to WaitConfig.                    *)
(***************************************************************************)
SingleLoop == \A k, l \in Loops : k = l

StartClean == \A l \in Loops : pc[l] \in {"start", "publish"} => state = WaitConfig

Inv == TypeOK /\ OneGeneration /\ StartClean

(* Nothing runs in a new RabbitDigger.                                     *)
LEMMA InvInit == Init => Inv
  <1> SUFFICES ASSUME Init PROVE OneGeneration /\ StartClean
    BY TypeInit DEF Inv
  <1>1. OneGeneration
    BY DEF Init, OneGeneration, Live, Gens
  <1>2. StartClean
    BY DEF Init, StartClean, WaitConfig
  <1> QED
    BY <1>1, <1>2

(* A step that leaves state, gen and the actors at "start" or "publish"    *)
(* alone and spawns nothing keeps the two conjuncts.                       *)
LEMMA InvQuiet ==
    ASSUME Inv, UNCHANGED <<state, gen>>,
           \A g \in Gens, s \in Servers : task'[g][s] \in Live => task[g][s] \in Live,
           \A l \in Loops : pc[l] = "publish" => pc'[l] = "publish",
           \A l \in Loops : pc'[l] \in {"start", "publish"} => pc[l] \in {"start", "publish"}
    PROVE  OneGeneration' /\ StartClean'
  <1>1. OneGeneration'
    <2> SUFFICES ASSUME NEW g \in Gens, NEW s \in Servers, task'[g][s] \in Live
                 PROVE  g = state' \/ Starting(g)'
      BY DEF OneGeneration
    <2>1. g = state \/ Starting(g)
      BY DEF Inv, OneGeneration
    <2> QED
      BY <2>1 DEF Starting
  <1>2. StartClean'
    BY DEF Inv, StartClean
  <1> QED
    BY <1>1, <1>2

(* Every action keeps the inductive invariant when one loop runs; the ones *)
(* that matter are drain(), the spawn and the publication of start().      *)
LEMMA InvNext ==
    ASSUME SingleLoop, Inv, [Next]_vars
    PROVE  Inv'
  <1>0. TypeOK /\ TypeOK'
    BY TypeNext DEF Inv
  <1> SUFFICES OneGeneration' /\ StartClean'
    BY <1>0 DEF Inv
  <1>1. CASE Grant \/ \E a \in Actors : Lock(a)
    <2>1. UNCHANGED <<state, gen, task, pc>>
      BY <1>1 DEF Grant, Lock
    <2> QED
      BY <2>1, InvQuiet
  <1>2. ASSUME NEW a \in Actors, AbortAll(a) PROVE OneGeneration' /\ StartClean'
    <2>1. UNCHANGED <<state, gen>> /\ pc' = [pc EXCEPT ![a] = "drain"] /\ pc[a] = "stop"
      BY <1>2 DEF AbortAll, Goto
    <2>2. ASSUME NEW g \in Gens, NEW s \in Servers, task'[g][s] \in Live
          PROVE  task[g][s] \in Live
      BY <1>2, <1>0, <2>2 DEF AbortAll, AbortTasks, Live, TypeOK
    <2>3. \A l \in Loops : pc[l] = "publish" => pc'[l] = "publish"
      BY <1>0, <2>1 DEF TypeOK, Actors
    <2>4. \A l \in Loops : pc'[l] \in {"start", "publish"} => pc[l] \in {"start", "publish"}
      BY <1>0, <2>1 DEF TypeOK, Actors
    <2> QED
      BY <2>1, <2>2, <2>3, <2>4, InvQuiet
  <1>3. ASSUME NEW a \in Actors, Drain(a) PROVE OneGeneration' /\ StartClean'
    <2>1. state' = WaitConfig /\ UNCHANGED <<gen, task>>
      BY <1>3 DEF Drain
    <2>2. pc' = [pc EXCEPT ![a] = ret[a]] /\ pc[a] = "drain"
      BY <1>3 DEF Drain, Goto
    <2>3. StartClean'
      BY <2>1 DEF StartClean, WaitConfig
    <2>4. ASSUME NEW g \in Gens, NEW s \in Servers, task'[g][s] \in Live
          PROVE  Starting(g)'
      <3>1. g = state \/ Starting(g)
        BY <2>1, <2>4 DEF Inv, OneGeneration
      <3>2. ~(g = state)
        BY <1>3, <2>1, <2>4, BoundsAssumption DEF Drain, Finished, Gens, WaitConfig
      <3>3. PICK l \in Loops : g = gen /\ pc[l] = "publish"
        BY <3>1, <3>2 DEF Starting
      <3>4. pc'[l] = "publish"
        BY <1>0, <2>2, <3>3 DEF TypeOK, Actors
      <3> QED
        BY <2>1, <3>3, <3>4 DEF Starting
    <2> QED
      BY <2>3, <2>4 DEF OneGeneration
  <1>4. ASSUME NEW l \in Loops, Spawn(l) PROVE OneGeneration' /\ StartClean'
    <2>1. pc[l] = "start" /\ pc' = [pc EXCEPT ![l] = "publish"] /\ UNCHANGED state
      BY <1>4 DEF Spawn, Goto
    <2>2. state = WaitConfig
      BY <2>1 DEF Inv, StartClean
    <2>3. pc'[l] = "publish"
      BY <1>0, <2>1 DEF TypeOK, Actors
    <2>4. ASSUME NEW g \in Gens, NEW s \in Servers, task[g][s] \in Live
          PROVE  FALSE
      <3>1. g = state \/ Starting(g)
        BY <2>4 DEF Inv, OneGeneration
      <3>2. ~(g = state)
        BY <2>2, BoundsAssumption DEF Gens, WaitConfig
      <3>3. ~Starting(g)
        BY <2>1 DEF Starting, SingleLoop
      <3> QED
        BY <3>1, <3>2, <3>3
    <2>5. ASSUME NEW g \in Gens, NEW s \in Servers, task'[g][s] \in Live
          PROVE  Starting(g)'
      <3>1. CASE g = gen + 1
        BY <1>4, <2>3, <3>1 DEF Spawn, Starting
      <3>2. CASE g # gen + 1
        <4>1. task'[g] = task[g]
          BY <1>0, <1>4, <3>2 DEF Spawn, TypeOK
        <4> QED
          BY <2>4, <2>5, <4>1
      <3> QED
        BY <3>1, <3>2
    <2>6. StartClean'
      BY <2>1, <2>2 DEF StartClean
    <2> QED
      BY <2>5, <2>6 DEF OneGeneration
  <1>5. ASSUME NEW l \in Loops, Publish(l) PROVE OneGeneration' /\ StartClean'
    <2>1. /\ pc[l] = "publish" /\ pc' = [pc EXCEPT ![l] = "wait"]
          /\ state' = gen /\ UNCHANGED <<gen, task>>
      BY <1>5 DEF Publish, Goto
    <2>2. state = WaitConfig
      BY <2>1 DEF Inv, StartClean
    <2>3. ASSUME NEW g \in Gens, NEW s \in Servers, task'[g][s] \in Live
          PROVE  g = state'
      <3>1. g = state \/ Starting(g)
        BY <2>1, <2>3 DEF Inv, OneGeneration
      <3>2. ~(g = state)
        BY <2>2, BoundsAssumption DEF Gens, WaitConfig
      <3> QED
        BY <2>1, <3>1, <3>2 DEF Starting
    <2>4. \A k \in Loops : pc'[k] = "wait"
      BY <1>0, <2>1 DEF TypeOK, Actors, SingleLoop
    <2>5. StartClean'
      BY <2>4 DEF StartClean
    <2> QED
      BY <2>3, <2>5 DEF OneGeneration
  <1>6. ASSUME NEW g \in 1..gen, NEW s \in Servers, ServerReturns(g, s) \/ TaskEnds(g, s)
        PROVE  OneGeneration' /\ StartClean'
    <2>1. UNCHANGED <<state, gen, pc>> /\ task[g][s] \in Live
      BY <1>6 DEF ServerReturns, TaskEnds, Live
    <2>2. PICK t : task' = [task EXCEPT ![g] = [task[g] EXCEPT ![s] = t]]
      BY <1>6 DEF ServerReturns, TaskEnds, SetTask
    <2>3. ASSUME NEW h \in Gens, NEW r \in Servers, task'[h][r] \in Live
          PROVE  task[h][r] \in Live
      <3>1. CASE h = g /\ r = s
        BY <2>1, <3>1
      <3>2. CASE ~(h = g /\ r = s)
        BY <1>0, <2>2, <2>3, <3>2 DEF TypeOK
      <3> QED
        BY <3>1, <3>2
    <2> QED
      BY <2>1, <2>3, InvQuiet
  <1>7. ASSUME NEW a \in Actors, NEW point \in LoopPoints \ {"start", "publish"},
               UNCHANGED <<state, gen, task>>, pc[a] # "publish",
               pc' = [pc EXCEPT ![a] = point]
        PROVE  OneGeneration' /\ StartClean'
    <2>1. \A l \in Loops : pc[l] = "publish" => pc'[l] = "publish"
      BY <1>0, <1>7 DEF TypeOK, Actors
    <2>2. \A l \in Loops : pc'[l] \in {"start", "publish"} => pc[l] \in {"start", "publish"}
      BY <1>0, <1>7 DEF TypeOK, Actors
    <2> QED
      BY <1>7, <2>1, <2>2, InvQuiet
  <1>8. ASSUME NEW a \in Stoppers, CallStop(a) PROVE OneGeneration' /\ StartClean'
    BY <1>7, <1>8 DEF CallStop, Goto, Actors, LoopPoints
  <1>9. ASSUME NEW l \in Loops,
               Build(l) \/ StartFailed(l) \/ ServerExited(l) \/ Collect(l) \/ Announce(l)
               \/ CloseConnections(l) \/ Environment(l)
        PROVE  OneGeneration' /\ StartClean'
    <2>1. UNCHANGED <<state, gen, task>> /\ pc[l] # "publish"
      BY <1>9 DEF Build, StartFailed, ServerExited, Collect, Announce, CloseConnections,
                  Environment, Apply, FirstConfigFails, StreamEnd, FirstConfig, NewConfig
    <2>2. PICK point \in LoopPoints \ {"start", "publish"} : pc' = [pc EXCEPT ![l] = point]
      BY <1>9 DEF Build, StartFailed, ServerExited, Collect, Announce, CloseConnections,
                  Environment, Apply, FirstConfigFails, StreamEnd, FirstConfig, NewConfig,
                  Goto, LoopPoints
    <2> QED
      BY <1>7, <2>1, <2>2 DEF Actors
  <1>10. CASE UNCHANGED vars
    <2>1. UNCHANGED <<state, gen, task, pc>>
      BY <1>10 DEF vars
    <2> QED
      BY <2>1, InvQuiet
  <1> QED
    BY <1>1, <1>2, <1>3, <1>4, <1>5, <1>6, <1>8, <1>9, <1>10
    DEF Next, StopStep, LoopStep

(* With the one loop of the daemon and of the command line program, and    *)
(* any number of concurrent API stops, no server task of one configuration *)
(* outlives the start of the next.                                         *)
THEOREM GenerationsDoNotOverlap ==
    ASSUME SingleLoop
    PROVE  Spec => []OneGeneration
  <1>1. Init => Inv
    BY InvInit
  <1>2. Inv /\ [Next]_vars => Inv'
    BY InvNext
  <1>3. Inv => OneGeneration
    BY DEF Inv
  <1> QED
    BY <1>1, <1>2, <1>3, PTL DEF Spec

(* And a published generation is only replaced when its tasks have ended.  *)
THEOREM DrainedBeforeReplaced ==
    ASSUME SingleLoop
    PROVE  Spec => DrainBeforeReplace
  <1>1. ASSUME Inv, [Next]_vars
        PROVE  [state' # state /\ state # WaitConfig => Finished(state)]_vars
    <2> SUFFICES ASSUME state' # state, state # WaitConfig PROVE Finished(state)
      OBVIOUS
    <2>1. CASE \E a \in Actors : Drain(a)
      BY <2>1 DEF Drain
    <2>2. ASSUME NEW l \in Loops, Publish(l) PROVE FALSE
      BY <1>1, <2>2 DEF Publish, Inv, StartClean
    <2>3. CASE ~(\E a \in Actors : Drain(a)) /\ ~(\E l \in Loops : Publish(l))
      <3>1. CASE Grant \/ (\E a \in Actors : Lock(a) \/ AbortAll(a)) \/ UNCHANGED vars
        BY <3>1 DEF Grant, Lock, AbortAll, vars
      <3>2. CASE \E a \in Stoppers : CallStop(a)
        BY <3>2 DEF CallStop
      <3>3. ASSUME NEW l \in Loops,
                   Build(l) \/ StartFailed(l) \/ Spawn(l) \/ ServerExited(l) \/ Collect(l)
                   \/ Announce(l) \/ CloseConnections(l) \/ Environment(l)
            PROVE  FALSE
        BY <3>3 DEF Build, StartFailed, Spawn, ServerExited, Collect, Announce, Environment,
           CloseConnections, Apply, FirstConfigFails, StreamEnd, FirstConfig, NewConfig
      <3>4. CASE \E g \in 1..gen, s \in Servers : ServerReturns(g, s) \/ TaskEnds(g, s)
        BY <3>4 DEF ServerReturns, TaskEnds
      <3> QED
        BY <1>1, <2>3, <3>1, <3>2, <3>3, <3>4 DEF Next, StopStep, LoopStep
    <2> QED
      BY <2>1, <2>2, <2>3
  <1>2. Init => Inv
    BY InvInit
  <1>3. Inv /\ [Next]_vars => Inv'
    BY InvNext
  <1> QED
    BY <1>1, <1>2, <1>3, PTL DEF Spec, DrainBeforeReplace

-----------------------------------------------------------------------------
(***************************************************************************)
(* current_status is true between calls.  It is not while a loop is inside *)
(* start() or stop(), so the invariant says, for every control point of    *)
(* the loop, what is published and announced there; in particular between  *)
(* the lock and the set_status of collect_finished_servers(), where the    *)
(* announcement lags behind the report.                                    *)
(***************************************************************************)
Told == state # WaitConfig /\ status.kind = "Running" /\ status.servers = report
Silent == state = WaitConfig /\ status.kind # "Running"

LoopTruth(l) ==
    /\ pc[l] # "idle" /\ ret[l] \in {"first", "start", "build", "closing"}
    /\ pc[l] \in {"spawn", "first", "build", "failed", "retry", "closing", "returned"} => Silent
    /\ pc[l] = "publish" => gen # 0
    /\ pc[l] \in {"wait", "collect", "await"} => Told
    /\ pc[l] = "announce" =>
          state # WaitConfig /\ status.kind = "Running" /\ snap[l] = report

StoppersIdle == \A a \in Stoppers : stops[a] = 0 => pc[a] = "idle"

Truth ==
    /\ StoppersIdle
    /\ Untouched => (\A l \in Loops : LoopTruth(l)) /\ (Loops = {} => Silent)

TruthInv == TypeOK /\ Truth

LEMMA TruthInit == Init => TruthInv
  <1> SUFFICES ASSUME Init PROVE Truth
    BY TypeInit DEF TruthInv
  <1>1. Silent
    BY DEF Init, Silent, Plain
  <1>2. StoppersIdle
    BY DEF Init, StoppersIdle, Actors
  <1>3. \A l \in Loops : LoopTruth(l)
    <2> SUFFICES ASSUME NEW l \in Loops PROVE LoopTruth(l)
      OBVIOUS
    <2>1. l \notin Stoppers /\ l \in Actors
      BY LoopsAssumption DEF Actors
    <2>2. pc[l] \in {"spawn", "first"} /\ ret[l] = "first"
      BY <2>1 DEF Init
    <2> QED
      BY <1>1, <2>2 DEF LoopTruth
  <1> QED
    BY <1>1, <1>2, <1>3 DEF Truth

(* A step that publishes and announces nothing and moves no actor.         *)
LEMMA TruthQuiet ==
    ASSUME TruthInv, UNCHANGED <<state, report, status, gen, pc, ret, snap, stops>>
    PROVE  Truth'
  BY DEF TruthInv, Truth, StoppersIdle, Untouched, LoopTruth, Told, Silent

(* A step of the only loop.                                                *)
LEMMA TruthLoop ==
    ASSUME SingleLoop, TruthInv, NEW l \in Loops, LoopTruth(l)', UNCHANGED stops,
           \A a \in Stoppers : pc'[a] = pc[a]
    PROVE  Truth'
  BY DEF SingleLoop, TruthInv, Truth, StoppersIdle, Untouched

(* A step that moves a loop leaves the stoppers where they are.            *)
LEMMA Moved ==
    ASSUME TypeOK, NEW l \in Loops, NEW point, pc' = [pc EXCEPT ![l] = point]
    PROVE  pc'[l] = point /\ \A a \in Stoppers : pc'[a] = pc[a]
  BY LoopsAssumption DEF TypeOK, Actors

LEMMA Reached ==
    ASSUME TruthInv, Untouched, NEW l \in Loops, NEW point, pc' = [pc EXCEPT ![l] = point]
    PROVE  /\ pc'[l] = point /\ LoopTruth(l)
           /\ ret[l] \in {"first", "start", "build", "closing"}
  BY Moved DEF TruthInv, Truth, LoopTruth

(* A stopper that has been called makes no promise.                        *)
LEMMA TruthStopper ==
    ASSUME TruthInv, NEW a \in Stoppers, stops[a] # 0, UNCHANGED stops,
           \A b \in Stoppers : b # a => pc'[b] = pc[b]
    PROVE  Truth'
  BY DEF TruthInv, Truth, StoppersIdle, Untouched

LEMMA TruthNext ==
    ASSUME SingleLoop, TruthInv, [Next]_vars
    PROVE  TruthInv'
  <1>0. TypeOK /\ TypeOK'
    BY TypeNext DEF TruthInv
  <1> SUFFICES Truth'
    BY <1>0 DEF TruthInv
  <1>1. CASE \/ Grant \/ (\E a \in Actors : Lock(a)) \/ UNCHANGED vars
             \/ \E g \in 1..gen, s \in Servers : ServerReturns(g, s) \/ TaskEnds(g, s)
    <2>1. UNCHANGED <<state, report, status, gen, pc, ret, snap, stops>>
      BY <1>1 DEF Grant, Lock, vars, ServerReturns, TaskEnds, loopVars
    <2> QED
      BY <2>1, TruthQuiet
  <1>2. ASSUME NEW a \in Stoppers, CallStop(a) PROVE Truth'
    <2>1. stops'[a] # 0 /\ \A b \in Stoppers : b # a => stops'[b] = stops[b] /\ pc'[b] = pc[b]
      BY <1>0, <1>2, BoundsAssumption DEF CallStop, Goto, TypeOK, Actors
    <2> QED
      BY <1>2, <2>1 DEF TruthInv, Truth, StoppersIdle, Untouched
  <1>3. ASSUME NEW a \in Stoppers, AbortAll(a) \/ Drain(a) PROVE Truth'
    <2>1. /\ pc[a] \in {"stop", "drain"} /\ UNCHANGED stops
          /\ \A b \in Stoppers : b # a => pc'[b] = pc[b]
      BY <1>0, <1>3 DEF AbortAll, Drain, Goto, loopVars, TypeOK, Actors
    <2>2. stops[a] # 0
      BY <2>1 DEF TruthInv, Truth, StoppersIdle
    <2> QED
      BY <2>1, <2>2, TruthStopper
  <1>4. CASE ~Untouched
    <2>1. ASSUME NEW l \in Loops, StopStep(l) \/ LoopStep(l) \/ Environment(l)
          PROVE  UNCHANGED stops /\ \A a \in Stoppers : pc'[a] = pc[a]
      BY <1>0, <2>1, LoopsAssumption
      DEF StopStep, LoopStep, Environment, AbortAll, Drain, Build, StartFailed, Spawn, Publish,
          ServerExited, Collect, Announce, CloseConnections, Apply, FirstConfigFails, StreamEnd,
          FirstConfig, NewConfig, Goto, loopVars, TypeOK, Actors
    <2>2. ASSUME NEW l \in Loops, StopStep(l) \/ LoopStep(l) \/ Environment(l)
          PROVE  Truth'
      BY <1>4, <2>1, <2>2 DEF TruthInv, Truth, StoppersIdle, Untouched
    <2> QED
      BY <1>1, <1>2, <1>3, <2>2 DEF Next, StopStep, Actors
  <1>5. ASSUME Untouched, NEW l \in Loops, AbortAll(l) PROVE Truth'
    <2>1. pc' = [pc EXCEPT ![l] = "drain"] /\ UNCHANGED loopVars
      BY <1>5 DEF AbortAll, Goto
    <2>2. LoopTruth(l)'
      <3>1. pc'[l] = "drain" /\ ret[l] \in {"first", "start", "build", "closing"} /\ ret'[l] = ret[l]
        BY <1>5, <2>1, Reached DEF loopVars
      <3> QED
        BY <3>1 DEF LoopTruth
    <2> QED
      BY <1>0, <2>1, <2>2, Moved, TruthLoop DEF loopVars
  <1>6. ASSUME Untouched, NEW l \in Loops, Drain(l) PROVE Truth'
    <2>1. pc' = [pc EXCEPT ![l] = ret[l]] /\ UNCHANGED loopVars /\ Silent'
      BY <1>6 DEF Drain, Goto, Silent, Plain
    <2>2. LoopTruth(l)'
      <3>1. pc'[l] = ret[l] /\ ret[l] \in {"first", "start", "build", "closing"} /\ ret'[l] = ret[l]
        BY <1>6, <2>1, Reached DEF loopVars
      <3> QED
        BY <2>1, <3>1 DEF LoopTruth
    <2> QED
      BY <1>0, <2>1, <2>2, Moved, TruthLoop DEF loopVars
  <1>7. ASSUME Untouched, NEW l \in Loops, Build(l) \/ StartFailed(l) PROVE Truth'
    <2>1. PICK point \in {"stop", "failed", "retry"} : pc' = [pc EXCEPT ![l] = point]
      BY <1>7 DEF Build, StartFailed, Goto
    <2>2. /\ UNCHANGED <<state, stops>> /\ pc[l] \in {"build", "failed"}
          /\ status'.kind \in {"Starting", "Error"}
      BY <1>7 DEF Build, StartFailed, Plain, loopVars
    <2>3. ret'[l] \in {ret[l], "start"}
      BY <1>0, <1>7 DEF Build, StartFailed, loopVars, TypeOK, Actors
    <2>4. Silent'
      BY <1>7, <2>2 DEF TruthInv, Truth, LoopTruth, Silent
    <2>5. LoopTruth(l)'
      BY <1>7, <2>1, <2>3, <2>4, Reached DEF LoopTruth
    <2> QED
      BY <1>0, <2>1, <2>2, <2>5, Moved, TruthLoop
  <1>8. ASSUME Untouched, NEW l \in Loops, Spawn(l) PROVE Truth'
    <2>1. pc' = [pc EXCEPT ![l] = "publish"] /\ gen' # 0 /\ UNCHANGED <<ret, stops>>
      BY <1>0, <1>8, BoundsAssumption DEF Spawn, Goto, TypeOK
    <2>2. LoopTruth(l)'
      <3>1. pc'[l] = "publish" /\ ret[l] \in {"first", "start", "build", "closing"} /\ ret'[l] = ret[l]
        BY <1>8, <2>1, Reached
      <3> QED
        BY <3>1, <2>1 DEF LoopTruth
    <2> QED
      BY <1>0, <2>1, <2>2, Moved, TruthLoop
  <1>9. ASSUME Untouched, NEW l \in Loops, Publish(l) PROVE Truth'
    <2>1. pc' = [pc EXCEPT ![l] = "wait"] /\ UNCHANGED <<ret, stops>> /\ pc[l] = "publish"
      BY <1>9 DEF Publish, Goto, loopVars
    <2>2. Told'
      BY <1>9, <2>1 DEF Publish, Told, WaitConfig, TruthInv, Truth, LoopTruth
    <2>3. LoopTruth(l)'
      <3>1. pc'[l] = "wait" /\ ret[l] \in {"first", "start", "build", "closing"} /\ ret'[l] = ret[l]
        BY <1>9, <2>1, Reached
      <3> QED
        BY <3>1, <2>2 DEF LoopTruth
    <2> QED
      BY <1>0, <2>1, <2>3, Moved, TruthLoop
  <1>10. ASSUME Untouched, NEW l \in Loops, Collect(l) PROVE Truth'
    <2>1. /\ pc[l] = "collect" /\ UNCHANGED <<state, status, ret, stops>> /\ Told
          /\ snap' = [snap EXCEPT ![l] = report']
          /\ pc' = [pc EXCEPT ![l] = IF report' # report THEN "announce" ELSE "await"]
      BY <1>10 DEF Collect, Goto, TruthInv, Truth, LoopTruth, Told
    <2>2. snap'[l] = report'
      BY <1>0, <2>1 DEF TypeOK
    <2>3. CASE report' = report
      <3>1. pc' = [pc EXCEPT ![l] = "await"] /\ Told'
        BY <2>1, <2>3 DEF Told
      <3>2. LoopTruth(l)'
        <4>1. pc'[l] = "await" /\ ret[l] \in {"first", "start", "build", "closing"} /\ ret'[l] = ret[l]
          BY <1>10, <2>1, <3>1, Reached
        <4> QED
          BY <4>1, <3>1 DEF LoopTruth
      <3> QED
        BY <1>0, <2>1, <3>1, <3>2, Moved, TruthLoop
    <2>4. CASE report' # report
      <3>1. pc' = [pc EXCEPT ![l] = "announce"] /\ state' # WaitConfig /\ status'.kind = "Running"
        BY <2>1, <2>4 DEF Told
      <3>2. LoopTruth(l)'
        <4>1. pc'[l] = "announce" /\ ret[l] \in {"first", "start", "build", "closing"} /\ ret'[l] = ret[l]
          BY <1>10, <2>1, <3>1, Reached
        <4> QED
          BY <4>1, <2>2, <3>1 DEF LoopTruth
      <3> QED
        BY <1>0, <2>1, <3>1, <3>2, Moved, TruthLoop
    <2> QED
      BY <2>3, <2>4
  <1>11. ASSUME Untouched, NEW l \in Loops, Announce(l) PROVE Truth'
    <2>1. /\ pc' = [pc EXCEPT ![l] = "await"] /\ UNCHANGED <<ret, stops>> /\ Told'
      BY <1>11 DEF Announce, Goto, loopVars, TruthInv, Truth, LoopTruth, Told
    <2>2. LoopTruth(l)'
      <3>1. pc'[l] = "await" /\ ret[l] \in {"first", "start", "build", "closing"} /\ ret'[l] = ret[l]
        BY <1>11, <2>1, Reached
      <3> QED
        BY <3>1, <2>1 DEF LoopTruth
    <2> QED
      BY <1>0, <2>1, <2>2, Moved, TruthLoop
  <1>12. ASSUME Untouched, NEW l \in Loops,
                ServerExited(l) \/ CloseConnections(l) \/ Environment(l)
         PROVE  Truth'
    <2>1. UNCHANGED <<state, report, status, gen, snap, stops>>
      BY <1>12 DEF ServerExited, CloseConnections, Environment, Apply, FirstConfigFails,
                   StreamEnd, FirstConfig, NewConfig, Deliver, loopVars
    <2>2. ret'[l] \in {ret[l], "build", "closing"}
      BY <1>0, <1>12 DEF ServerExited, CloseConnections, Environment, Apply, FirstConfigFails,
                   StreamEnd, FirstConfig, NewConfig, loopVars, TypeOK, Actors
    <2>3. \/ pc[l] = "wait" /\ pc' = [pc EXCEPT ![l] = "collect"]
          \/ pc[l] \in {"first", "closing"} /\ pc' = [pc EXCEPT ![l] = "returned"]
          \/ pc[l] \in {"first", "retry"} /\ pc' = [pc EXCEPT ![l] = "build"]
          \/ pc' = [pc EXCEPT ![l] = "stop"]
      BY <1>12 DEF ServerExited, CloseConnections, Environment, Apply, FirstConfigFails,
                   StreamEnd, FirstConfig, NewConfig, Goto
    <2>4. LoopTruth(l) /\ (Told => Told') /\ (Silent => Silent')
      BY <1>12, <2>1 DEF TruthInv, Truth, Told, Silent
    <2>5. LoopTruth(l)' /\ \A a \in Stoppers : pc'[a] = pc[a]
      BY <1>0, <2>2, <2>3, <2>4, Moved DEF LoopTruth
    <2> QED
      BY <2>1, <2>5, TruthLoop
  <1> QED
    BY <1>1, <1>2, <1>3, <1>4, <1>5, <1>6, <1>7, <1>8, <1>9, <1>10, <1>11, <1>12
    DEF Next, StopStep, LoopStep, Actors

(* Between the calls of the one loop, and until an API call stops the      *)
(* engine, current_status says Running exactly when a configuration is     *)
(* published, with the report of its servers.                              *)
THEOREM StatusIsTruthful ==
    ASSUME SingleLoop
    PROVE  Spec => []StatusTruthful
  <1>1. TruthInv => StatusTruthful
    <2> SUFFICES ASSUME TruthInv, Untouched, \A a \in Actors : pc[a] \in RestPoints
                 PROVE  /\ status.kind = "Running" <=> state # WaitConfig
                        /\ state # WaitConfig => status.servers = report
      BY DEF StatusTruthful
    <2>1. ASSUME NEW l \in Loops PROVE Silent \/ Told
      <3>1. pc[l] \in RestPoints /\ LoopTruth(l)
        BY DEF TruthInv, Truth, Actors
      <3> QED
        BY <3>1 DEF LoopTruth, RestPoints
    <2>2. Silent \/ Told
      BY <2>1 DEF TruthInv, Truth
    <2> QED
      BY <2>2 DEF Silent, Told
  <1>2. Init => TruthInv
    BY TruthInit
  <1>3. TruthInv /\ [Next]_vars => TruthInv'
    BY TruthNext
  <1> QED
    BY <1>1, <1>2, <1>3, PTL DEF Spec
=============================================================================
