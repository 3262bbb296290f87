------------------------------ MODULE NetBuild ------------------------------
(* From a configuration to running nets: importers and selections make the    *)
(* map of nets (deserialize_config_from_source), build_entities builds what   *)
(* the servers reach, depth first, and update_net changes a net that runs.    *)
(* The recursion of BuildContext::get_net is a stack of frames.               *)
EXTENDS ClashImport

CONSTANTS Types,     \* net types the registry knows
          Refs,      \* the NetRefs a configuration is written with, nested ones too
          Callers,   \* requests net.select, each from a session of its own
          Selections \* bound: what they ask for: <<net, selected>>

\* A name of more than one part that begins with "net" or "server" is one that
\* get_net generates: nobody gives it to a net.
Configured(n) == n # None /\ (Len(n) > 1 => n[1] \notin {"net", "server"})
Written(net) == /\ net = [type |-> net.type, opt |-> net.opt, refs |-> net.refs, rule |-> net.rule]
                /\ net.refs \in Seq(Refs)
ASSUME TypesAssumption == "circular reference" \notin Types
ASSUME RefsAssumption ==
  \A r \in Refs : \/ r = Name(r.name) /\ Configured(r.name)
                  \/ r = Inline(r.net) /\ r.net # None /\ Written(r.net)

VARIABLES conf,      \* Config: nets, the servers still to be built: [name, opt, refs], and both as they were read
          stack,     \* the calls of get_net: [name, net, next]
          cache,     \* net_cache: name -> what the RunningNet was built from
          built,     \* "building", "ok", "failed"
          select     \* select_net of each caller, and the SelectMap that is stored
buildVars == <<conf, stack, cache, built, select>>

\* init_default_net: built-in nets unless the configuration has its own.
DefaultNets == [n \in {Noop, Blackhole, Local} |-> Net(n[1], <<>>)]
BuildInit(nets, servers) ==
  /\ conf = [nets |-> MergeProcess(DefaultNets, nets), servers |-> servers,
             read |-> [nets |-> nets, servers |-> servers]]
  /\ stack = <<>> /\ cache = [n \in {} |-> None] /\ built = "building"
  /\ select = [call |-> [x \in Callers |-> [pc |-> "idle", net |-> None, selected |-> None, map |-> <<>>]],
               stored |-> [n \in {} |-> None], overlapped |-> FALSE]

Top == Last(stack)
Placeholder == Net("circular reference", <<>>)
Fail == built' = "failed" /\ UNCHANGED <<conf, stack, cache, select>>

\* build_dyn begins with serde_json::from_value, which fails for options that are not
\* what the builder's Config says, before any reference in them is looked at.
Deserializes(item) == item.opt # "malformed"

\* build_server: the servers in order; a server is a frame of its own.
ServerNet(server) == [Net("server", server.refs) EXCEPT !.opt = server.opt]
NextServer == /\ built = "building" /\ stack = <<>> /\ conf.servers # <<>>
              /\ LET server == Head(conf.servers) IN
                 \/ /\ Deserializes(server)
                    /\ stack' = <<[name |-> server.name, net |-> ServerNet(server), next |-> 1]>>
                    /\ conf' = [conf EXCEPT !.servers = Tail(@)]
                    /\ UNCHANGED <<cache, built, select>>
                 \/ ~Deserializes(server) /\ Fail

\* get_net for the next NetRef of the frame on top.
Visiting == built = "building" /\ stack # <<>> /\ Top.next <= Len(Top.net.refs)
Ref == Top.net.refs[Top.next]
Step(frame) == [frame EXCEPT !.next = @ + 1]
\* A nested net gets the path to it as its name, in place of what had that name;
\* next stands for the path of the field within the net.
GeneratedName == <<IF Len(stack) = 1 THEN "server" ELSE "net", Top.name, Top.next>>
Flatten == /\ Visiting /\ Ref.net # None
           /\ conf' = [conf EXCEPT !.nets = Insert(@, GeneratedName, Ref.net)]
           /\ stack' = [stack EXCEPT ![Len(stack)].net.refs[Top.next] = Name(GeneratedName)]
           /\ UNCHANGED <<cache, built, select>>
Reuse == /\ Visiting /\ Ref.net = None /\ Ref.name \in DOMAIN cache
         /\ stack' = [stack EXCEPT ![Len(stack)] = Step(@)]
         /\ UNCHANGED <<conf, cache, built, select>>
NotFound == Visiting /\ Ref.net = None /\ Ref.name \notin DOMAIN conf.nets /\ Fail
Known(net) == net.type \in Types /\ Deserializes(net)
\* Mutant of Descend: a net is in the cache before what it refers to is built.
DescendCaching == /\ Visiting /\ Ref.net = None /\ Ref.name \notin DOMAIN cache
                  /\ Ref.name \in DOMAIN conf.nets /\ Known(conf.nets[Ref.name])
                  /\ stack' = Append(stack, [name |-> Ref.name, net |-> conf.nets[Ref.name], next |-> 1])
                  /\ cache' = Insert(cache, Ref.name, conf.nets[Ref.name])
                  /\ UNCHANGED <<conf, built, select>>
\* The net is taken out of the configuration, a placeholder left in its place,
\* and its own references come first (build_dyn, resolve_net).
Descend == /\ Visiting /\ Ref.net = None /\ Ref.name \notin DOMAIN cache
           /\ Ref.name \in DOMAIN conf.nets
           /\ LET net == conf.nets[Ref.name] IN
              \/ /\ Known(net)
                 /\ conf' = [conf EXCEPT !.nets[Ref.name] = Placeholder]
                 /\ stack' = Append(stack, [name |-> Ref.name, net |-> net, next |-> 1])
                 /\ UNCHANGED <<cache, built, select>>
              \/ ~Known(net) /\ Fail
\* Builder::build: a builder may refuse options it could read (an unknown cipher, a
\* bad id), and SelectNet::new refuses an empty list.
Accepts(net) == net.opt # "refused" /\ (net.type = "select" => Len(net.refs) > 1)
Return == /\ built = "building" /\ stack # <<>> /\ Top.next > Len(Top.net.refs)
          /\ IF ~Accepts(Top.net) THEN Fail
             ELSE IF Len(stack) = 1 THEN stack' = <<>> /\ UNCHANGED <<conf, cache, built, select>>
             ELSE /\ conf' = [conf EXCEPT !.nets[Top.name] = Top.net]
                  /\ cache' = Insert(cache, Top.name, Top.net)
                  /\ stack' = [Front(stack) EXCEPT ![Len(stack) - 1] = Step(@)]
                  /\ UNCHANGED <<built, select>>
Built == /\ built = "building" /\ stack = <<>> /\ conf.servers = <<>>
         /\ built' = "ok" /\ UNCHANGED <<conf, stack, cache, select>>

-----------------------------------------------------------------------------
(* select_net of the API: update_net, then the stored map is read, changed   *)
(* and written back, each in a step of its own.                              *)
Goes(x, pc) == [select EXCEPT !.call[x].pc = pc]
Active(x) == select.call[x].pc \notin {"idle", "done"}
\* RunningNet::update_net: whoever holds the net goes on with the new one.
Replaced(n, new) == [cache EXCEPT ![n] = new]
\* update_net holds the lock of the configuration.  A net that is not there or
\* does not run is left alone, one that is no select net is built as it was;
\* what it refers to must run.
UpdateNet(x, n, selected) ==
  LET new == IF conf.nets[n].type = "select" THEN [conf.nets[n] EXCEPT !.refs[1] = Name(selected)]
             ELSE conf.nets[n]
      began == [select EXCEPT !.call[x] = [pc |-> "read", net |-> n, selected |-> selected, map |-> <<>>],
                              !.overlapped = @ \/ \E y \in Callers : Active(y)] IN
  /\ built = "ok" /\ select.call[x].pc = "idle"
  /\ \/ /\ n \notin DOMAIN cache
        /\ select' = began /\ UNCHANGED <<conf, cache>>
     \/ /\ n \in DOMAIN cache /\ \A i \in 1..Len(new.refs) : new.refs[i].name \in DOMAIN cache
        /\ conf' = [conf EXCEPT !.nets[n] = new]
        /\ cache' = Replaced(n, new)
        /\ select' = began
     \/ /\ n \in DOMAIN cache /\ \E i \in 1..Len(new.refs) : new.refs[i].name \notin DOMAIN cache
        /\ select' = Goes(x, "done") /\ UNCHANGED <<conf, cache>>
  /\ UNCHANGED <<stack, built>>
FromCache(x) == /\ select.call[x].pc = "read"
                /\ select' = [select EXCEPT !.call[x].pc = "write", !.call[x].map = select.stored]
                /\ UNCHANGED <<conf, stack, cache, built>>
\* Mutant of WriteCache: a net that has a stored selection keeps it.
WriteCacheOnce(x) == LET c == select.call[x] IN
  /\ c.pc = "write"
  /\ select' = [Goes(x, "done") EXCEPT !.stored = IF c.net \in DOMAIN c.map THEN c.map ELSE Insert(c.map, c.net, c.selected)]
  /\ UNCHANGED <<conf, stack, cache, built>>
WriteCache(x) == LET c == select.call[x] IN
  /\ c.pc = "write"
  /\ select' = [Goes(x, "done") EXCEPT !.stored = Insert(c.map, c.net, c.selected)]
  /\ UNCHANGED <<conf, stack, cache, built>>

BuildStep == NextServer \/ Flatten \/ Reuse \/ NotFound \/ Descend \/ Return \/ Built
BuildNext == \/ BuildStep
             \/ \E x \in Callers : \/ \E p \in Selections : UpdateNet(x, p[1], p[2])
                                  \/ FromCache(x) \/ WriteCache(x)

-----------------------------------------------------------------------------
\* What a reference needs to be built: it is there, of a known type, with options its
\* builder reads and accepts, and what it refers to can be built in turn.  The references that can be
\* built are the smallest set that is closed under this, so none is in a cycle.
Target(nets, r) == IF r.net = None THEN nets[r.name] ELSE r.net
Builds(nets, r) == /\ r.net = None => r.name \in DOMAIN nets
                   /\ Known(Target(nets, r)) /\ Accepts(Target(nets, r))
ClosedUnder(nets, S) == \A r \in Refs : Builds(nets, r) /\ Range(Target(nets, r).refs) \subseteq S => r \in S
Sound(nets) == {r \in Refs : \A S \in SUBSET Refs : ClosedUnder(nets, S) => r \in S}

\* A configuration written with Refs: names are configured ones, and no two servers
\* have the same name.
WrittenConfig(c) ==
  /\ \A n \in DOMAIN c.nets : Configured(n) /\ Written(c.nets[n])
  /\ c.servers \in Seq(Range(c.servers))
  /\ \A i \in 1..Len(c.servers) : /\ c.servers[i].refs \in Seq(Refs)
                                  /\ \A j \in 1..Len(c.servers) : c.servers[i].name = c.servers[j].name => i = j

\* build_entities builds exactly the configurations in which every server's own
\* options are good and every net it reaches is sound, in whatever order and however often it comes across one; a net
\* nobody reaches does no harm.  What runs refers only to what runs, also after
\* update_net: a call that finds a name nobody runs leaves the net as it was.
ReferencesRun == built = "ok" => \A n \in DOMAIN cache : \A i \in 1..Len(cache[n].refs) :
                                   cache[n].refs[i].name \in DOMAIN cache
BuildsIffSound ==
  /\ WrittenConfig(conf.read) =>
       LET sound == Sound(MergeProcess(DefaultNets, conf.read.nets))
           good == \A i \in 1..Len(conf.read.servers) :
                     LET server == conf.read.servers[i] IN
                     /\ Deserializes(server) /\ Accepts(ServerNet(server))
                     /\ Range(server.refs) \subseteq sound
       IN (built = "ok" => good) /\ (built = "failed" => ~good)
  /\ ReferencesRun

\* A selection survives a restart: once no call of net.select is under way, and none
\* overlapped another, applying the stored map to the configuration as it was read
\* gives every net that runs the selection it runs with, if its list has it.
Running(n) == conf.nets[n].refs[1].name
SelectionSurvives ==
  built = "ok" /\ ~select.overlapped /\ (\A x \in Callers : ~Active(x)) =>
    LET read == conf.read.nets
        again == ApplySelectMap(select.stored, read) IN
    \A n \in DOMAIN read \cap DOMAIN cache :
      read[n].type = "select" /\ Running(n) \in ListOf(read[n]) => again[n].refs[1].name = Running(n)
=============================================================================
