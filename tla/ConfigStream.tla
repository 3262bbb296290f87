---------------------------- MODULE ConfigStream ----------------------------
(* The stream of configurations (ConfigManager): load the source and the      *)
(* imports it names, yield the configuration, wait until one of them may have *)
(* changed or another source is given, and load again.  Contents are version  *)
(* numbers; time is kept as ages that stop at the interval.                   *)
EXTENDS Naturals

CONSTANTS Interval,      \* the interval of a poll in ticks
          MaxVersion     \* bound: changes of a source

ASSUME IntervalAssumption == Interval \in Nat \ {0}

VARIABLES world,   \* each source: its kind, version, and whether it can be reached
          held,    \* the cache (cfg_mgr) per source: version (0: nothing) and age
          strm     \* the stream: where it is, what it loaded, shows and watches
streamVars == <<world, held, strm>>

S == {1, 2}
Polls(i) == world[i].kind \in {"poll", "poll-once"}     \* the latter has no interval
Watched(i) == world[i].kind \in {"path", "storage"}

\* kinds: of the source (1) and of its import (2).
StreamInit(kinds, pc) ==
  /\ world = [i \in S |-> [kind |-> kinds[i], version |-> 1, up |-> TRUE]]
  /\ held = [i \in S |-> [version |-> 0, age |-> Interval]]
  /\ strm = [pc |-> pc, next |-> 1, loaded |-> [i \in S |-> 0], shown |-> [i \in S |-> 0],
             event |-> [i \in S |-> FALSE], noticed |-> [i \in S |-> 0]]

-----------------------------------------------------------------------------
(* The world: contents change, files and servers come and go, time passes.    *)
Changes(i) == /\ world[i].version < MaxVersion /\ world[i].kind # "text"
              /\ world' = [world EXCEPT ![i].version = @ + 1]
              /\ strm' = IF strm.pc = "wait" /\ Watched(i)
                         THEN [strm EXCEPT !.event[i] = TRUE, !.noticed[i] = world[i].version + 1]
                         ELSE strm
              /\ UNCHANGED held
Flips(i) == /\ world[i].kind # "text" /\ world' = [world EXCEPT ![i].up = ~@]
            /\ strm' = IF strm.pc = "wait" /\ Watched(i) THEN [strm EXCEPT !.event[i] = TRUE] ELSE strm
            /\ UNCHANGED held
Older(age) == IF age < Interval THEN age + 1 ELSE Interval
Tick == /\ held' = [i \in S |-> [held[i] EXCEPT !.age = Older(@)]]
        /\ UNCHANGED <<world, strm>>

-----------------------------------------------------------------------------
(* ImportSource::get_content.                                                 *)
Usable(i) == held[i].version # 0 /\ (world[i].kind = "poll" => held[i].age < Interval)
Take(i, v) == IF i = 2 THEN [strm EXCEPT !.loaded[2] = v, !.pc = "apply"]
              ELSE [strm EXCEPT !.loaded[1] = v, !.next = 2]
EndStream == strm' = [strm EXCEPT !.pc = "ended"]
Loading(i) == strm.pc = "load" /\ strm.next = i
\* The cached content, not expired.
FromHeld(i) == /\ Loading(i) /\ Usable(i)
                /\ strm' = Take(i, held[i].version) /\ UNCHANGED <<world, held>>
\* Path, Storage and Text: what is there now; an error ends the stream.
FromSource(i) == /\ Loading(i) /\ ~Polls(i)
                 /\ IF world[i].up THEN strm' = Take(i, world[i].version) ELSE EndStream
                 /\ UNCHANGED <<world, held>>
\* fetch, three times; then the cache, however old it is, without touching it.
Fetch(i) ==
  /\ Loading(i) /\ Polls(i) /\ ~Usable(i)
  /\ \/ /\ world[i].up
        /\ held' = [held EXCEPT ![i] = [version |-> world[i].version, age |-> 0]]
        /\ strm' = Take(i, world[i].version)
     \/ /\ ~world[i].up /\ held[i].version # 0
        /\ strm' = Take(i, held[i].version)
        /\ UNCHANGED held
     \/ /\ ~world[i].up /\ held[i].version = 0
        /\ EndStream /\ UNCHANGED held
  /\ UNCHANGED world

\* The importers and the select map are applied (ClashImport); content that
\* does not parse ends the stream.
Apply == /\ strm.pc = "apply"
         /\ \/ strm' = [strm EXCEPT !.pc = "yield", !.shown = strm.loaded]
            \/ EndStream
         /\ UNCHANGED <<world, held>>

\* The consumer asks for the next item: wait_source sets up its watches.
StartWait == /\ strm.pc = "yield"
             /\ strm' = [strm EXCEPT !.pc = "wait", !.event = [i \in S |-> FALSE]]
             /\ UNCHANGED <<world, held>>
\* Mutant of Due: content that is cached is not polled for.
DueOnce(i) == CASE world[i].kind \in {"poll", "poll-once"} -> held[i].version = 0
                [] Watched(i) -> strm.event[i] \/ ~world[i].up
                [] OTHER -> FALSE
\* ImportSource::wait returns, also with an error, which nobody looks at.
Due(i) == CASE world[i].kind = "poll" -> held[i].version = 0 \/ held[i].age >= Interval
            [] world[i].kind = "poll-once" -> held[i].version = 0
            [] Watched(i) -> strm.event[i] \/ ~world[i].up
            [] OTHER -> FALSE
\* Mutant of WaitSource: only the imports are loaded again.
WaitSourceImports == /\ strm.pc = "wait" /\ \E i \in S : Due(i)
                     /\ strm' = [strm EXCEPT !.pc = "load", !.next = 2] /\ UNCHANGED <<world, held>>
WaitSource == /\ strm.pc = "wait" /\ \E i \in S : Due(i)
              /\ strm' = [strm EXCEPT !.pc = "load", !.next = 1] /\ UNCHANGED <<world, held>>
\* config_stream_from_sources: another source is given, or there are no more.
NewSource == /\ strm.pc = "wait"
             /\ \/ /\ strm' = [strm EXCEPT !.pc = "load", !.next = 1]
                   /\ world' = [world EXCEPT ![1] = [kind |-> "text", version |-> MaxVersion, up |-> TRUE]]
                   /\ held' = [held EXCEPT ![1].version = 0]
                \/ EndStream /\ UNCHANGED <<world, held>>

StreamStep == \/ Apply \/ StartWait \/ WaitSource
              \/ \E i \in S : FromHeld(i) \/ FromSource(i) \/ Fetch(i)
StreamNext == StreamStep \/ NewSource \/ Tick \/ \E i \in S : Changes(i) \/ Flips(i)
StreamFairness == WF_streamVars(StreamStep) /\ WF_streamVars(Tick)

-----------------------------------------------------------------------------
(* Properties.                                                               *)

\* A change of a file that is noticed while the stream waits is shown, or the stream
\* ends: it is not lost between the event and the load.
NoticedIsShown == \A i \in S, v \in 1..MaxVersion :
                    strm.noticed[i] = v ~> (strm.shown[i] >= v \/ strm.pc = "ended" \/ ~Watched(i))

\* A polled source that stays reachable is followed, whatever failed before, whatever
\* the import or the other source does: in the end its last version is shown.
PollFollowed == \A i \in S : (<>[](world[i].kind = "poll" /\ world[i].up)) =>
                               <>[](strm.shown[i] = world[i].version \/ strm.pc = "ended")
=============================================================================
