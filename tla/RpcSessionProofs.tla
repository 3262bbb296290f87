-------------------------- MODULE RpcSessionProofs --------------------------
(***************************************************************************)
(* Theorems about RpcSession for any set of requests: types, that a call   *)
(* returns no object but the one made for it, and that the objects a       *)
(* client has wrappers for are in the server's table.                      *)
(***************************************************************************)
EXTENDS RpcSession, SequenceTheorems, FiniteSetTheorems, TLAPS

(***************************************************************************)
(* The inductive invariant.                                                *)
(***************************************************************************)
(* A request is on its way once, after its call and before its task.       *)
OnItsWay ==
    /\ \A a, b \in DOMAIN c2s : c2s[a] = c2s[b] => a = b
    /\ \A a \in DOMAIN c2s : task[c2s[a]] = "none" /\ st[c2s[a]] # "new"

(* What has not happened yet to a call has left no trace.                  *)
InTurn ==
    \A r \in Calls :
        /\ st[r] = "new" => task[r] = "none" /\ cmd[r].kind = "Handshake" /\ cmd[r].obj = {}
        /\ task[r] \in {"none", "spawned", "running", "cancelled"} => result[r].obj = {}
        /\ r \in waiters => st[r] = "waiting"
        /\ st[r] \in {"new", "sent", "waiting"} => answer[r].obj = {}

(* The objects made so far are numbered without gaps, one for each request *)
(* that made one.                                                          *)
MadeFor == {r \in Calls : result[r].obj # {}}
Numbered ==
    /\ nextObj = Cardinality(MadeFor)
    /\ \A r \in Calls : \A i \in result[r].obj :
          i < nextObj /\ creator[i] = r /\ cmd[r].kind \in Makes

(* A response, and the answer of a call, name no object but the one its    *)
(* request made.                                                           *)
Faithful ==
    /\ \A k \in DOMAIN s2c : s2c[k].out.obj \subseteq result[s2c[k].seq].obj
    /\ \A r \in Calls : answer[r].obj \subseteq result[r].obj

(* The client names only objects it was answered with, and has no wrapper  *)
(* for one it sent a Close for; an object that was made is in the table    *)
(* until such a Close.                                                     *)
Answered(i) == \E r \in Calls : i \in answer[r].obj
Closing(i) == \E q \in Calls : cmd[q].kind = "Close" /\ i \in cmd[q].obj
Owned ==
    /\ \A i \in held : Answered(i)
    /\ \A q \in Calls : \A i \in cmd[q].obj :
          Answered(i) /\ (cmd[q].kind = "Close" => i \notin held)
    /\ \A r \in Calls : \A i \in result[r].obj : i \in objects \/ Closing(i)

Inv == TypeOK /\ OnItsWay /\ InTurn /\ Numbered /\ Faithful /\ Owned

-----------------------------------------------------------------------------
(***************************************************************************)
(* What is on its way: lists that grow at one end, lose their head, or are *)
(* cut.                                                                    *)
(***************************************************************************)
LEMMA TailOf ==
    ASSUME NEW S, NEW s \in Seq(S), s # <<>>
    PROVE  /\ Head(s) \in S /\ 1 \in DOMAIN s /\ Head(s) = s[1]
           /\ Tail(s) \in Seq(S) /\ DOMAIN Tail(s) \subseteq Nat
           /\ \A k \in DOMAIN Tail(s) : k >= 1 /\ k + 1 \in DOMAIN s /\ Tail(s)[k] = s[k + 1]
  <1>1. Len(s) \in Nat /\ Len(s) >= 1 /\ DOMAIN s = 1..Len(s)
    BY LenProperties, EmptySeq
  <1>2. Head(s) \in S /\ Head(s) = s[1] /\ Tail(s) \in Seq(S) /\ Len(Tail(s)) = Len(s) - 1
    BY HeadTailProperties, <1>1, ElementOfSeq
  <1>3. \A k \in 1..(Len(s) - 1) : Tail(s)[k] = s[k + 1]
    BY HeadTailProperties
  <1>4. DOMAIN Tail(s) = 1..(Len(s) - 1)
    BY <1>2, LenProperties
  <1> QED
    BY <1>1, <1>2, <1>3, <1>4

LEMMA AppendOf ==
    ASSUME NEW S, NEW s \in Seq(S), NEW e \in S
    PROVE  /\ Append(s, e) \in Seq(S)
           /\ \A k \in DOMAIN Append(s, e) :
                 \/ k \in DOMAIN s /\ Append(s, e)[k] = s[k]
                 \/ k = Len(s) + 1 /\ Append(s, e)[k] = e
  <1>1. /\ Append(s, e) \in Seq(S) /\ Len(s) \in Nat /\ DOMAIN s = 1..Len(s)
        /\ DOMAIN Append(s, e) = 1..(Len(s) + 1) /\ Append(s, e)[Len(s) + 1] = e
        /\ \A a \in 1..Len(s) : Append(s, e)[a] = s[a]
    BY AppendProperties, LenProperties
  <1> QED
    BY <1>1

LEMMA PrefixOf ==
    ASSUME NEW S, NEW s \in Seq(S), NEW p \in Prefixes(s)
    PROVE  /\ p \in Seq(S)
           /\ \A k \in DOMAIN p : k \in DOMAIN s /\ p[k] = s[k]
  <1>1. Len(s) \in Nat /\ DOMAIN s = 1..Len(s)
    BY LenProperties
  <1>2. PICK n \in 0..Len(s) : p = SubSeq(s, 1, n)
    BY DEF Prefixes
  <1>3. \A a \in 1..Len(s) : s[a] \in S
    BY <1>1, ElementOfSeq
  <1>4. p \in Seq(S) /\ Len(p) = n /\ \A a \in 1..n : p[a] = s[a]
    BY <1>1, <1>2, <1>3
  <1>5. DOMAIN p = 1..n
    BY <1>4, LenProperties
  <1> QED
    BY <1>1, <1>4, <1>5

(* Types of the records on the stream.                                     *)
LEMMA Shapes ==
    /\ \A o \in Outcome : o.obj \subseteq Ids
    /\ \A q \in Response : q.seq \in Calls /\ q.out \in Outcome
    /\ \A r \in Calls, o \in Outcome : [seq |-> r, out |-> o] \in Response
    /\ \A r, o : [seq |-> r, out |-> o].seq = r /\ [seq |-> r, out |-> o].out = o
    /\ Err \in Outcome /\ Err.obj = {} /\ Null \in Outcome /\ Null.obj = {}
    /\ \A i \in Ids : [ok |-> TRUE, obj |-> {i}] \in Outcome
    /\ \A c \in Command : c.obj \subseteq Ids
    /\ [kind |-> "Handshake", obj |-> {}] \in Command
  BY DEF Outcome, Response, Err, Null, Command

(* Numbers of objects.                                                     *)
LEMMA Counting ==
    /\ IsFiniteSet(Calls) /\ Cardinality(Calls) \in Nat
    /\ \A T \in SUBSET Calls : IsFiniteSet(T) /\ Cardinality(T) \in Ids
    /\ \A T \in SUBSET Calls : \A r \in Calls \ T :
          Cardinality(T \cup {r}) = Cardinality(T) + 1 /\ Cardinality(T) + 1 \in Ids
  <1>1. IsFiniteSet(Calls) /\ Cardinality(Calls) \in Nat
    BY ReqsAssumption, FS_AddElement, FS_CardinalityType DEF Calls
  <1>2. \A T \in SUBSET Calls : IsFiniteSet(T) /\ Cardinality(T) \in Ids
    <2> SUFFICES ASSUME NEW T \in SUBSET Calls PROVE IsFiniteSet(T) /\ Cardinality(T) \in Ids
      OBVIOUS
    <2>1. IsFiniteSet(T) /\ Cardinality(T) <= Cardinality(Calls)
      BY <1>1, FS_Subset
    <2>2. Cardinality(T) \in Nat
      BY <2>1, FS_CardinalityType
    <2> QED
      BY <1>1, <2>1, <2>2 DEF Ids
  <1>3. ASSUME NEW T \in SUBSET Calls, NEW r \in Calls \ T
        PROVE  Cardinality(T \cup {r}) = Cardinality(T) + 1 /\ Cardinality(T) + 1 \in Ids
    <2>1. Cardinality(T \cup {r}) = Cardinality(T) + 1
      BY <1>2, FS_AddElement
    <2>2. T \cup {r} \in SUBSET Calls
      OBVIOUS
    <2>3. Cardinality(T \cup {r}) \in Ids
      BY <1>2, <2>2
    <2> QED
      BY <2>1, <2>3
  <1> QED
    BY <1>1, <1>2, <1>3

-----------------------------------------------------------------------------
(***************************************************************************)
(* The invariant is inductive.                                             *)
(***************************************************************************)
LEMMA InvInit == Init => Inv
  <1> SUFFICES ASSUME Init PROVE Inv
    OBVIOUS
  <1>1. TypeOK
    <2>1. nextObj \in Ids
      BY Counting DEF Init, Ids
    <2>2. c2s \in Seq(Calls) /\ s2c \in Seq(Response) /\ creator \in [Ids -> Calls]
      BY DEF Init, Calls
    <2>3. /\ cmd \in [Calls -> Command]
          /\ answer \in [Calls -> Outcome] /\ result \in [Calls -> Outcome]
      BY Shapes DEF Init
    <2> QED
      BY <2>1, <2>2, <2>3 DEF Init, TypeOK
  <1>2. \A r \in Calls : result[r].obj = {} /\ answer[r].obj = {} /\ cmd[r].obj = {}
                          /\ cmd[r].kind = "Handshake"
    BY Shapes DEF Init
  <1>3. OnItsWay /\ InTurn
    BY <1>2 DEF Init, OnItsWay, InTurn
  <1>4. MadeFor = {}
    BY <1>2 DEF MadeFor
  <1>5. Numbered
    BY <1>2, <1>4, FS_EmptySet DEF Init, Numbered
  <1>6. Faithful /\ Owned
    BY <1>2 DEF Init, Faithful, Owned
  <1> QED
    BY <1>1, <1>3, <1>5, <1>6 DEF Inv

(* A call is made: a new request, and for a Close the wrapper is gone.     *)
LEMMA SendInv ==
    ASSUME Inv, NEW r \in Calls, NEW c \in Command, Send(r, c) \/ SendFails(r, c)
    PROVE  Inv'
  <1> USE DEF Inv
  <1>1. /\ st[r] = "new" /\ task[r] = "none" /\ cmd[r].kind = "Handshake" /\ cmd[r].obj = {}
        /\ result[r].obj = {} /\ answer[r].obj = {} /\ r \notin waiters
    BY DEF Send, SendFails, InTurn, TypeOK
  <1>2. /\ cmd' = [cmd EXCEPT ![r] = c]
        /\ held' = IF c.kind = "Close" THEN held \ c.obj ELSE held
        /\ UNCHANGED <<link, s2c, wopen, waiters, readers, answer>>
        /\ UNCHANGED serverVars
    BY DEF Send, SendFails
  <1>3. /\ st' \in [Calls -> {"new", "sent", "waiting", "returned", "dropped"}]
        /\ st'[r] \in {"sent", "returned"} /\ \A q \in Calls : q # r => st'[q] = st[q]
    BY DEF Send, SendFails, TypeOK
  <1>4. /\ cmd' \in [Calls -> Command] /\ cmd'[r] = c
        /\ \A q \in Calls : q # r => cmd'[q] = cmd[q]
    BY <1>2 DEF TypeOK
  <1>5. c.obj \subseteq held
    BY Shapes DEF Send, SendFails, MayCall
  <1>6. /\ c2s' \in Seq(Calls)
        /\ \/ c2s' = c2s
           \/ c2s' = Append(c2s, r)
    <2>1. c2s' = c2s \/ c2s' = Append(c2s, r)
      BY DEF Send, SendFails
    <2>2. c2s \in Seq(Calls) /\ Append(c2s, r) \in Seq(Calls)
      BY AppendOf DEF TypeOK
    <2> QED
      BY <2>1, <2>2
  <1>7. TypeOK'
    <2>1. closed' \in BOOLEAN
      BY Zenon DEF Send, SendFails, TypeOK
    <2>2. held' \subseteq Ids
      BY <1>2 DEF TypeOK
    <2> QED
      BY <1>2, <1>3, <1>4, <1>6, <2>1, <2>2 DEF TypeOK, serverVars
  <1>8. OnItsWay'
    <2>1. \A a \in DOMAIN c2s : c2s[a] # r /\ c2s[a] \in Calls
      BY <1>1, ElementOfSeq, LenProperties DEF OnItsWay, TypeOK
    <2>2. \A k \in DOMAIN c2s' :
             \/ k \in DOMAIN c2s /\ c2s'[k] = c2s[k]
             \/ k = Len(c2s) + 1 /\ c2s'[k] = r
      BY <1>6, AppendOf DEF TypeOK
    <2>3. \A a, b \in DOMAIN c2s' : c2s'[a] = c2s'[b] => a = b
      BY <2>1, <2>2 DEF OnItsWay
    <2>4. \A a \in DOMAIN c2s' : task'[c2s'[a]] = "none" /\ st'[c2s'[a]] # "new"
      BY <1>1, <1>2, <1>3, <2>1, <2>2 DEF OnItsWay, serverVars
    <2> QED
      BY <2>3, <2>4 DEF OnItsWay
  <1>9. InTurn'
    BY <1>1, <1>2, <1>3, <1>4 DEF InTurn, serverVars
  <1>10. Numbered'
    BY <1>1, <1>2, <1>4 DEF Numbered, MadeFor, serverVars
  <1>11. Faithful'
    BY <1>2 DEF Faithful, serverVars
  <1>12. Owned'
    <2>1. \A i : Answered(i)' <=> Answered(i)
      BY <1>2 DEF Answered
    <2>2. \A i : Closing(i) => Closing(i)'
      BY <1>1, <1>4 DEF Closing
    <2>3. held' \subseteq held /\ (c.kind = "Close" => \A i \in c.obj : i \notin held')
      BY <1>2
    <2>4. \A i \in held' : Answered(i)'
      BY <2>1, <2>3 DEF Owned
    <2>5. ASSUME NEW q \in Calls, NEW i \in cmd'[q].obj
          PROVE  Answered(i)' /\ (cmd'[q].kind = "Close" => i \notin held')
      <3>1. CASE q = r
        BY <1>4, <1>5, <2>1, <2>3, <2>5, <3>1 DEF Owned
      <3>2. CASE q # r
        BY <1>4, <2>1, <2>3, <2>5, <3>2 DEF Owned
      <3> QED
        BY <3>1, <3>2
    <2>6. \A q \in Calls : \A i \in result'[q].obj : i \in objects' \/ Closing(i)'
      BY <1>2, <2>2 DEF Owned, serverVars
    <2> QED
      BY <2>4, <2>5, <2>6 DEF Owned
  <1> QED
    BY <1>7, <1>8, <1>9, <1>10, <1>11, <1>12

(* A call that begins to wait, and one whose caller gives up.              *)
LEMMA WaitInv ==
    ASSUME Inv, NEW r \in Calls, Register(r) \/ DropGetter(r)
    PROVE  Inv'
  <1> USE DEF Inv
  <1>1. /\ UNCHANGED <<link, c2s, s2c, wopen, cmd, answer, closed, held>>
        /\ UNCHANGED serverVars
        /\ readers' \in {readers, readers \cup {r}}
    BY DEF Register, DropGetter
  <1>2. /\ st' \in [Calls -> {"new", "sent", "waiting", "returned", "dropped"}]
        /\ \A q \in Calls : q # r => st'[q] = st[q]
        /\ \/ st[r] = "sent" /\ st'[r] = "waiting" /\ waiters' = waiters \cup {r}
           \/ st[r] = "waiting" /\ st'[r] = "dropped" /\ waiters' = waiters \ {r}
    BY DEF Register, DropGetter, TypeOK
  <1>3. TypeOK'
    BY <1>1, <1>2 DEF TypeOK, serverVars
  <1>4. OnItsWay'
    <2>1. \A a \in DOMAIN c2s : c2s[a] \in Calls
      BY ElementOfSeq, LenProperties DEF TypeOK
    <2> QED
      BY <1>1, <1>2, <2>1 DEF OnItsWay, serverVars
  <1>5. InTurn'
    BY <1>1, <1>2 DEF InTurn, serverVars
  <1>6. Numbered'
    BY <1>1 DEF Numbered, MadeFor, serverVars
  <1>7. Faithful' /\ Owned'
    BY <1>1 DEF Faithful, Owned, Answered, Closing, serverVars
  <1> QED
    BY <1>3, <1>4, <1>5, <1>6, <1>7

(* A response reaches its call, or nobody: an object is delivered once,    *)
(* before the client can have named it.                                    *)
LEMMA DeliverInv ==
    ASSUME Inv, NEW r \in Calls, NEW out \in Outcome, out.obj \subseteq result[r].obj,
           SendResponse(r, out), NEW q \in Calls, readers' = readers \ {q},
           s2c' \in Seq(Response), 
           \A k \in DOMAIN s2c' : s2c'[k].out.obj \subseteq result[s2c'[k].seq].obj,
           closed' \in BOOLEAN, UNCHANGED <<link, c2s, wopen, cmd>>, UNCHANGED serverVars
    PROVE  Inv'
  <1> USE DEF Inv
  <1>1. CASE r \notin waiters
    <2>1. UNCHANGED <<waiters, answer, st, held>>
      BY <1>1 DEF SendResponse
    <2>2. TypeOK'
      BY <2>1 DEF TypeOK, serverVars
    <2>3. OnItsWay' /\ InTurn'
      BY <2>1 DEF OnItsWay, InTurn, serverVars
    <2>4. Numbered' /\ Faithful'
      BY <2>1 DEF Numbered, MadeFor, Faithful, serverVars
    <2>5. Owned'
      BY <2>1 DEF Owned, Answered, Closing, serverVars
    <2> QED
      BY <2>2, <2>3, <2>4, <2>5
  <1>2. CASE r \in waiters
    <2>1. /\ waiters' = waiters \ {r} /\ held' = held \cup out.obj
          /\ answer' = [answer EXCEPT ![r] = out] /\ st' = [st EXCEPT ![r] = "returned"]
          /\ st[r] = "waiting" /\ answer[r].obj = {}
      BY <1>2 DEF SendResponse, InTurn
    <2>2. /\ answer' \in [Calls -> Outcome] /\ answer'[r] = out
          /\ \A p \in Calls : p # r => answer'[p] = answer[p]
      BY <2>1 DEF TypeOK
    <2>3. /\ st' \in [Calls -> {"new", "sent", "waiting", "returned", "dropped"}]
          /\ st'[r] = "returned" /\ \A p \in Calls : p # r => st'[p] = st[p]
      BY <2>1 DEF TypeOK
    <2>4. TypeOK'
      BY <2>1, <2>2, <2>3, Shapes DEF TypeOK, serverVars
    <2>5. OnItsWay'
      <3>1. \A a \in DOMAIN c2s : c2s[a] \in Calls
        BY ElementOfSeq, LenProperties DEF TypeOK
      <3> QED
        BY <2>3, <3>1 DEF OnItsWay, serverVars
    <2>6. InTurn'
      BY <2>1, <2>2, <2>3 DEF InTurn, serverVars
    <2>7. Numbered'
      BY DEF Numbered, MadeFor, serverVars
    <2>8. Faithful'
      BY <2>2 DEF Faithful, serverVars
    <2>9. \A i : Answered(i) => Answered(i)'
      BY <2>1, <2>2 DEF Answered
    <2>10. \A i \in out.obj : Answered(i)' /\ ~Answered(i)
      <3> SUFFICES ASSUME NEW i \in out.obj PROVE Answered(i)' /\ ~Answered(i)
        OBVIOUS
      <3>1. Answered(i)'
        BY <2>2 DEF Answered
      <3>2. ASSUME NEW p \in Calls, i \in answer[p].obj PROVE FALSE
        <4>1. i \in result[p].obj /\ i \in result[r].obj
          BY <3>2 DEF Faithful
        <4>2. p = r
          BY <4>1 DEF Numbered
        <4> QED
          BY <2>1, <3>2, <4>2
      <3> QED
        BY <3>1, <3>2 DEF Answered
    <2>11. Owned'
      <3>1. \A i \in held' : Answered(i)'
        BY <2>1, <2>9, <2>10 DEF Owned
      <3>2. \A p \in Calls : \A i \in cmd[p].obj :
               Answered(i)' /\ (cmd[p].kind = "Close" => i \notin held')
        BY <2>1, <2>9, <2>10 DEF Owned
      <3>3. \A p \in Calls : \A i \in result[p].obj : i \in objects \/ Closing(i)
        BY DEF Owned
      <3> QED
        BY <3>1, <3>2, <3>3 DEF Owned, Closing, serverVars
    <2> QED
      BY <2>4, <2>5, <2>6, <2>7, <2>8, <2>11
  <1> QED
    BY <1>1, <1>2

LEMMA ReadInv ==
    ASSUME Inv, NEW q \in Calls, ReadResponse(q) \/ ReaderFails(q)
    PROVE  Inv'
  <1>1. s2c \in Seq(Response)
    BY DEF Inv, TypeOK
  <1>2. \A k \in DOMAIN s2c : s2c[k].out.obj \subseteq result[s2c[k].seq].obj
    BY DEF Inv, Faithful
  <1>3. CASE ReadResponse(q)
    <2>1. Head(s2c) \in Response /\ Head(s2c) = s2c[1] /\ 1 \in DOMAIN s2c
      BY <1>1, <1>3, TailOf DEF ReadResponse
    <2>2. Head(s2c).seq \in Calls /\ Head(s2c).out \in Outcome
      BY <2>1, Shapes
    <2>3. Head(s2c).out.obj \subseteq result[Head(s2c).seq].obj
      BY <1>2, <2>1
    <2>4. /\ s2c' \in Seq(Response)
          /\ \A k \in DOMAIN s2c' : s2c'[k].out.obj \subseteq result[s2c'[k].seq].obj
      BY <1>1, <1>2, <1>3, TailOf DEF ReadResponse
    <2>5. /\ readers' = readers \ {q} /\ closed' \in BOOLEAN
          /\ UNCHANGED <<link, c2s, wopen, cmd>> /\ UNCHANGED serverVars
          /\ SendResponse(Head(s2c).seq, Head(s2c).out)
      BY <1>3 DEF ReadResponse, Inv, TypeOK
    <2> QED
      BY <2>2, <2>3, <2>4, <2>5, DeliverInv
  <1>4. CASE ReaderFails(q)
    <2>1. /\ readers' = readers \ {q} /\ closed' \in BOOLEAN
          /\ UNCHANGED <<link, c2s, s2c, wopen, cmd>> /\ UNCHANGED serverVars
          /\ SendResponse(q, Err)
      BY <1>4 DEF ReaderFails
    <2> QED
      BY <1>1, <1>2, <2>1, Shapes, DeliverInv
  <1> QED
    BY <1>3, <1>4

(* A step that makes no object and delivers none: requests are taken or    *)
(* lost, tasks begin or end, and no response names an object not its own.  *)
LEMMA QuietKeeps ==
    ASSUME Inv, NEW off \in {0, 1},
           c2s' \in Seq(Calls), s2c' \in Seq(Response), DOMAIN c2s' \subseteq Nat,
           \A k \in DOMAIN c2s' : k + off \in DOMAIN c2s /\ c2s'[k] = c2s[k + off],
           \A k \in DOMAIN s2c' : s2c'[k].out.obj \subseteq result[s2c'[k].seq].obj,
           UNCHANGED <<st, cmd, answer, waiters, held, result, objects, nextObj, creator>>,
           \A r \in Calls : \/ task'[r] = task[r]
                            \/ task[r] = "running" /\ task'[r] = "cancelled"
                            \/ task[r] = "answered" /\ task'[r] = "done"
                            \/ /\ task[r] \in {"none", "spawned"}
                               /\ task'[r] \in {"spawned", "running", "answered"}
                               /\ st[r] # "new"
                               /\ \A k \in DOMAIN c2s' : c2s'[k] # r
    PROVE  OnItsWay' /\ InTurn' /\ Numbered' /\ Faithful' /\ Owned'
  <1> USE DEF Inv
  <1>1. OnItsWay'
    <2>1. \A a, b \in DOMAIN c2s' : c2s'[a] = c2s'[b] => a = b
      <3> SUFFICES ASSUME NEW a \in DOMAIN c2s', NEW b \in DOMAIN c2s', c2s'[a] = c2s'[b]
                   PROVE  a = b
        OBVIOUS
      <3>1. a + off = b + off
        BY DEF OnItsWay
      <3> QED
        BY <3>1
    <2>2. \A a \in DOMAIN c2s' : c2s'[a] \in Calls
      BY ElementOfSeq, LenProperties
    <2>3. \A a \in DOMAIN c2s' : task[c2s'[a]] = "none" /\ st[c2s'[a]] # "new"
      BY DEF OnItsWay
    <2>4. \A a \in DOMAIN c2s' : task'[c2s'[a]] = "none"
      BY <2>2, <2>3
    <2> QED
      BY <2>1, <2>3, <2>4 DEF OnItsWay
  <1>2. InTurn'
    BY DEF InTurn
  <1>3. Numbered' /\ Faithful'
    BY DEF Numbered, MadeFor, Faithful
  <1>4. Owned'
    BY DEF Owned, Answered, Closing
  <1> QED
    BY <1>1, <1>2, <1>3, <1>4

(* The stream breaks and drops the end of what was on its way.             *)
LEMMA StreamInv ==
    ASSUME Inv, Break \/ WriterEnds
    PROVE  Inv'
  <1> USE DEF Inv
  <1>1. c2s \in Seq(Calls) /\ s2c \in Seq(Response) /\ DOMAIN c2s \subseteq Nat
    BY LenProperties DEF TypeOK
  <1>2. /\ c2s' \in Seq(Calls)
        /\ \A k \in DOMAIN c2s' : k \in DOMAIN c2s /\ c2s'[k] = c2s[k]
    BY <1>1, PrefixOf DEF Break, WriterEnds
  <1>3. /\ s2c' \in Seq(Response)
        /\ \A k \in DOMAIN s2c' : k \in DOMAIN s2c /\ s2c'[k] = s2c[k]
    BY <1>1, PrefixOf DEF Break, WriterEnds
  <1>4. /\ UNCHANGED <<st, cmd, waiters, readers, answer, closed, held>>
        /\ UNCHANGED <<srv, task, result, objects, nextObj, creator>>
        /\ link' \in {"up", "down"} /\ wopen' \in BOOLEAN
    BY DEF Break, WriterEnds, serverVars, TypeOK
  <1>5. TypeOK'
    BY <1>2, <1>3, <1>4 DEF TypeOK
  <1>6. DOMAIN c2s' \subseteq Nat /\ \A k \in DOMAIN c2s' : k + 0 \in DOMAIN c2s /\ c2s'[k] = c2s[k + 0]
    BY <1>1, <1>2
  <1>7. \A k \in DOMAIN s2c' : s2c'[k].out.obj \subseteq result[s2c'[k].seq].obj
    BY <1>3 DEF Faithful
  <1>8. OnItsWay' /\ InTurn' /\ Numbered' /\ Faithful' /\ Owned'
    BY <1>2, <1>3, <1>4, <1>6, <1>7, QuietKeeps
  <1> QED
    BY <1>5, <1>8

(* The server takes a request, for the handshake or for a task.            *)
LEMMA TakeInv ==
    ASSUME Inv, Handshake \/ Recv
    PROVE  Inv'
  <1> USE DEF Inv
  <1> DEFINE r == Head(c2s)
  <1>1. c2s \in Seq(Calls) /\ s2c \in Seq(Response) /\ c2s # <<>> /\ c2s' = Tail(c2s)
    BY DEF TypeOK, Handshake, Recv
  <1>2. /\ r \in Calls /\ 1 \in DOMAIN c2s /\ r = c2s[1]
        /\ c2s' \in Seq(Calls) /\ DOMAIN c2s' \subseteq Nat
        /\ \A k \in DOMAIN c2s' : k >= 1 /\ k + 1 \in DOMAIN c2s /\ c2s'[k] = c2s[k + 1]
    BY <1>1, TailOf
  <1>3. \A k \in DOMAIN c2s' : c2s'[k] # r
    <2> SUFFICES ASSUME NEW k \in DOMAIN c2s', c2s[k + 1] = c2s[1] PROVE FALSE
      BY <1>2
    <2>1. k + 1 = 1
      BY <1>2 DEF OnItsWay
    <2> QED
      BY <1>2, <2>1
  <1>4. task[r] = "none" /\ st[r] # "new"
    BY <1>2 DEF OnItsWay
  <1>5. /\ s2c' \in Seq(Response)
        /\ \A k \in DOMAIN s2c' : s2c'[k].out.obj \subseteq result[s2c'[k].seq].obj
    <2> DEFINE e == [seq |-> r, out |-> Null]
    <2>1. e \in Response /\ e.out.obj = {}
      BY <1>2, Shapes
    <2>2. s2c' = s2c \/ s2c' = Append(s2c, e)
      BY DEF Handshake, Recv
    <2> HIDE DEF e
    <2>3. \A k \in DOMAIN s2c : s2c[k].out.obj \subseteq result[s2c[k].seq].obj
      BY DEF Faithful
    <2>4. CASE s2c' = Append(s2c, e)
      BY <1>1, <2>1, <2>3, <2>4, AppendOf
    <2> QED
      BY <1>1, <2>2, <2>3, <2>4
  <1>6. /\ UNCHANGED <<link, wopen, st, cmd, waiters, readers, answer, closed, held>>
        /\ UNCHANGED <<result, objects, nextObj, creator>>
        /\ srv' \in {"handshake", "serving", "closed"}
    BY DEF Handshake, Recv, clientVars, TypeOK
  <1>7. task' = task \/ task' = [task EXCEPT ![r] = "spawned"]
    BY DEF Handshake, Recv
  <1> HIDE DEF r
  <1>8. \A q \in Calls : task'[q] = task[q] \/ (q = r /\ task'[q] = "spawned")
    BY <1>7 DEF TypeOK
  <1>9. TypeOK'
    <2>1. task' \in [Calls -> {"none", "spawned", "running", "answered", "done", "cancelled"}]
      BY <1>2, <1>7 DEF TypeOK
    <2> QED
      BY <1>2, <1>5, <1>6, <2>1 DEF TypeOK
  <1>10. \A q \in Calls :
            \/ task'[q] = task[q]
            \/ /\ task[q] \in {"none", "spawned"}
               /\ task'[q] \in {"spawned", "running", "answered"}
               /\ st[q] # "new"
               /\ \A k \in DOMAIN c2s' : c2s'[k] # q
    BY <1>3, <1>4, <1>8
  <1>11. \A k \in DOMAIN c2s' : k + 1 \in DOMAIN c2s /\ c2s'[k] = c2s[k + 1]
    BY <1>2
  <1>12. OnItsWay' /\ InTurn' /\ Numbered' /\ Faithful' /\ Owned'
    BY <1>2, <1>5, <1>6, <1>10, <1>11, QuietKeeps
  <1> QED
    BY <1>9, <1>12

(* A task is polled first, answers, or is told that the session ended.     *)
LEMMA TaskInv ==
    ASSUME Inv, (\E r \in Calls : Begin(r) \/ Respond(r) \/ RespondFails(r))
                \/ ServerEnds \/ ServerStops
    PROVE  Inv'
  <1> USE DEF Inv
  <1> DEFINE Kinds == {"none", "spawned", "running", "answered", "done", "cancelled"}
  <1>1. /\ c2s \in Seq(Calls) /\ s2c \in Seq(Response) /\ DOMAIN c2s \subseteq Nat
        /\ <<>> \in Seq(Calls) /\ task \in [Calls -> Kinds]
    BY LenProperties DEF TypeOK
  <1>2. \A k \in DOMAIN s2c : s2c[k].out.obj \subseteq result[s2c[k].seq].obj
    BY DEF Faithful
  <1>3. /\ UNCHANGED <<wopen, st, cmd, waiters, readers, answer, closed, held>>
        /\ UNCHANGED <<result, objects, nextObj, creator>>
        /\ srv' \in {"handshake", "serving", "closed"} /\ link' \in {"up", "down"}
    BY DEF Begin, Respond, RespondFails, ServerEnds, ServerStops, clientVars, TypeOK
  <1>4. /\ c2s' \in Seq(Calls)
        /\ \A k \in DOMAIN c2s' : k \in DOMAIN c2s /\ c2s'[k] = c2s[k]
    <2>1. c2s' = c2s \/ c2s' = <<>> \/ c2s' \in Prefixes(c2s)
      BY DEF Begin, Respond, RespondFails, ServerEnds, ServerStops
    <2>2. CASE c2s' \in Prefixes(c2s)
      BY <1>1, <2>2, PrefixOf
    <2>3. CASE c2s' = <<>>
      BY <1>1, <2>3
    <2> QED
      BY <1>1, <2>1, <2>2, <2>3
  <1>5. /\ s2c' \in Seq(Response)
        /\ \A k \in DOMAIN s2c' : s2c'[k].out.obj \subseteq result[s2c'[k].seq].obj
    <2>1. \/ s2c' = s2c \/ s2c' \in Prefixes(s2c)
          \/ \E r \in Calls : s2c' = Append(s2c, [seq |-> r, out |-> result[r]])
      BY DEF Begin, Respond, RespondFails, ServerEnds, ServerStops
    <2>2. ASSUME NEW r \in Calls, s2c' = Append(s2c, [seq |-> r, out |-> result[r]])
          PROVE  <1>5!:
      <3> DEFINE e == [seq |-> r, out |-> result[r]]
      <3>1. e \in Response /\ e.out.obj = result[e.seq].obj
        BY Shapes DEF TypeOK
      <3>2. s2c' = Append(s2c, e)
        BY <2>2
      <3> HIDE DEF e
      <3> QED
        BY <1>1, <1>2, <3>1, <3>2, AppendOf
    <2>3. CASE s2c' = s2c
      BY <1>1, <1>2, <2>3
    <2>4. CASE s2c' \in Prefixes(s2c)
      BY <1>1, <1>2, <2>4, PrefixOf
    <2> QED
      BY <2>1, <2>2, <2>3, <2>4
  <1>6. /\ task' \in [Calls -> Kinds]
        /\ \A q \in Calls :
              \/ task'[q] = task[q]
              \/ task[q] = "running" /\ task'[q] = "cancelled"
              \/ task[q] = "answered" /\ task'[q] = "done"
              \/ task[q] = "spawned" /\ task'[q] \in {"running", "answered"}
    <2>1. ASSUME NEW r \in Calls, Begin(r) \/ Respond(r) PROVE <1>6!:
      BY <1>1, <2>1 DEF Begin, Respond
    <2>2. ASSUME NEW r \in Calls, RespondFails(r) PROVE <1>6!:
      BY <1>1, <2>2 DEF RespondFails, NotifyWaiters
    <2>3. CASE ServerEnds \/ ServerStops
      BY <1>1, <2>3 DEF ServerEnds, ServerStops, NotifyWaiters
    <2> QED
      BY <2>1, <2>2, <2>3
  <1>7. TypeOK'
    BY <1>3, <1>4, <1>5, <1>6 DEF TypeOK
  <1>8. /\ DOMAIN c2s' \subseteq Nat
        /\ \A k \in DOMAIN c2s' : k + 0 \in DOMAIN c2s /\ c2s'[k] = c2s[k + 0]
    BY <1>1, <1>4
  <1>9. \A q \in Calls : task[q] = "spawned" =>
           st[q] # "new" /\ \A k \in DOMAIN c2s' : c2s'[k] # q
    BY <1>4 DEF InTurn, OnItsWay
  <1>10. \A q \in Calls :
            \/ task'[q] = task[q]
            \/ task[q] = "running" /\ task'[q] = "cancelled"
            \/ task[q] = "answered" /\ task'[q] = "done"
            \/ /\ task[q] \in {"none", "spawned"}
               /\ task'[q] \in {"spawned", "running", "answered"}
               /\ st[q] # "new"
               /\ \A k \in DOMAIN c2s' : c2s'[k] # q
    BY <1>6, <1>9
  <1>11. OnItsWay' /\ InTurn' /\ Numbered' /\ Faithful' /\ Owned'
    BY <1>3, <1>4, <1>5, <1>8, <1>10, QuietKeeps
  <1> QED
    BY <1>7, <1>11

(* handle_req returns, with a new object or without.                       *)
LEMMA HandleInv ==
    ASSUME Inv, NEW r \in Calls, Handle(r)
    PROVE  Inv'
  <1> USE DEF Inv
  <1> DEFINE Kinds == {"none", "spawned", "running", "answered", "done", "cancelled"}
  <1>1. /\ UNCHANGED <<link, c2s, s2c, srv>>
        /\ UNCHANGED <<wopen, st, cmd, waiters, readers, answer, closed, held>>
    BY DEF Handle, clientVars
  <1>2. /\ task' \in [Calls -> Kinds] /\ task[r] = "running" /\ task'[r] = "answered"
        /\ \A q \in Calls : q # r => task'[q] = task[q]
    BY DEF Handle, TypeOK
  <1>3. result[r].obj = {} /\ answer[r].obj = {} /\ st[r] # "new"
    BY <1>2 DEF InTurn, Faithful
  <1>4. OnItsWay'
    <2>1. \A a \in DOMAIN c2s : c2s[a] \in Calls /\ c2s[a] # r
      BY <1>2, ElementOfSeq, LenProperties DEF OnItsWay, TypeOK
    <2> QED
      BY <1>1, <1>2, <2>1 DEF OnItsWay
  <1>5. CASE cmd[r].kind \in Makes /\ InsertObject(r)
    <2> DEFINE o == [ok |-> TRUE, obj |-> {nextObj}]
    <2>1. nextObj \in Ids /\ nextObj \in Nat
      BY Counting DEF TypeOK, Ids
    <2>2. /\ objects' = objects \cup {nextObj} /\ nextObj' = nextObj + 1
          /\ creator' = [creator EXCEPT ![nextObj] = r] /\ result' = [result EXCEPT ![r] = o]
      BY <1>5 DEF InsertObject
    <2>3. o \in Outcome /\ o.obj = {nextObj}
      BY <2>1, Shapes
    <2> HIDE DEF o
    <2>4. /\ result' \in [Calls -> Outcome] /\ result'[r].obj = {nextObj}
          /\ \A q \in Calls : q # r => result'[q] = result[q]
      BY <2>2, <2>3 DEF TypeOK
    <2>5. nextObj' \in Ids /\ nextObj' = Cardinality(MadeFor')
      <3>1. MadeFor' = MadeFor \cup {r} /\ r \in Calls \ MadeFor /\ MadeFor \in SUBSET Calls
        BY <1>3, <2>4 DEF MadeFor
      <3>2. nextObj = Cardinality(MadeFor)
        BY DEF Numbered
      <3> QED
        BY <2>2, <3>1, <3>2, Counting
    <2>6. TypeOK'
      BY <1>1, <1>2, <2>1, <2>2, <2>4, <2>5 DEF TypeOK
    <2>7. InTurn'
      BY <1>1, <1>2, <1>3, <2>4 DEF InTurn
    <2>8. Numbered'
      <3> SUFFICES ASSUME NEW q \in Calls, NEW i \in result'[q].obj
                   PROVE  i < nextObj' /\ creator'[i] = q /\ cmd'[q].kind \in Makes
        BY <2>5 DEF Numbered
      <3>1. CASE q = r
        BY <1>1, <1>5, <2>1, <2>2, <2>4, <3>1 DEF TypeOK
      <3>2. CASE q # r
        <4>1. i \in Ids /\ i \in Nat
          BY <2>4, <3>2, Shapes, Counting DEF TypeOK, Ids
        <4>2. i < nextObj /\ creator[i] = q /\ cmd[q].kind \in Makes
          BY <2>4, <3>2 DEF Numbered
        <4> QED
          BY <1>1, <2>1, <2>2, <4>1, <4>2 DEF TypeOK
      <3> QED
        BY <3>1, <3>2
    <2>9. Faithful'
      <3>1. \A q \in Calls : result[q].obj \subseteq result'[q].obj
        BY <1>3, <2>4
      <3>2. \A k \in DOMAIN s2c : s2c[k].seq \in Calls
        BY Shapes, ElementOfSeq, LenProperties DEF TypeOK
      <3> QED
        BY <1>1, <3>1, <3>2 DEF Faithful
    <2>10. Owned'
      <3>1. \A i : (Answered(i)' <=> Answered(i)) /\ (Closing(i)' <=> Closing(i))
        BY <1>1 DEF Answered, Closing
      <3> QED
        BY <1>1, <2>2, <2>4, <3>1 DEF Owned
    <2> QED
      BY <1>4, <2>6, <2>7, <2>8, <2>9, <2>10
  <1>6. CASE ~(cmd[r].kind \in Makes /\ InsertObject(r))
    <2>1. /\ UNCHANGED <<nextObj, creator>>
          /\ \/ objects' = objects
             \/ objects' = objects \ cmd[r].obj /\ cmd[r].kind = "Close"
          /\ result' = result \/ result' = [result EXCEPT ![r] = Null]
      BY <1>6 DEF Handle, RemoveObject
    <2>2. /\ result' \in [Calls -> Outcome]
          /\ \A q \in Calls : result'[q].obj = result[q].obj
      BY <1>3, <2>1, Shapes, ZenonT(60) DEF TypeOK
    <2>3. TypeOK'
      BY <1>1, <1>2, <2>1, <2>2 DEF TypeOK
    <2>4. InTurn'
      BY <1>1, <1>2, <1>3, <2>2 DEF InTurn
    <2>5. Numbered'
      <3>1. MadeFor' = MadeFor
        BY <2>2 DEF MadeFor
      <3> QED
        BY <1>1, <2>1, <2>2, <3>1 DEF Numbered
    <2>6. Faithful'
      <3>1. \A k \in DOMAIN s2c : s2c[k].seq \in Calls
        BY Shapes, ElementOfSeq, LenProperties DEF TypeOK
      <3> QED
        BY <1>1, <2>2, <3>1 DEF Faithful
    <2>7. Owned'
      <3>1. \A i : (Answered(i)' <=> Answered(i)) /\ (Closing(i)' <=> Closing(i))
        BY <1>1 DEF Answered, Closing
      <3>2. \A i \in objects : i \in objects' \/ Closing(i)
        BY <2>1 DEF Closing
      <3> QED
        BY <1>1, <2>2, <3>1, <3>2 DEF Owned
    <2> QED
      BY <1>4, <2>3, <2>4, <2>5, <2>6, <2>7
  <1> QED
    BY <1>5, <1>6

LEMMA InvNext == Inv /\ [Next]_vars => Inv'
  <1> SUFFICES ASSUME Inv, [Next]_vars PROVE Inv'
    OBVIOUS
  <1>1. ASSUME NEW r \in Calls, ClientStep(r) PROVE Inv'
    BY <1>1, WaitInv, ReadInv, SendInv DEF ClientStep
  <1>2. ASSUME NEW r \in Calls, ServerStep(r) PROVE Inv'
    BY <1>2, HandleInv, TaskInv DEF ServerStep
  <1>3. CASE UNCHANGED vars
    <2>1. /\ UNCHANGED <<link, c2s, s2c, wopen, st, cmd, waiters, readers, answer, closed, held>>
          /\ UNCHANGED <<srv, task, result, objects, nextObj, creator>>
      BY <1>3 DEF vars, clientVars, serverVars
    <2>2. TypeOK' /\ OnItsWay' /\ InTurn'
      BY <2>1 DEF Inv, TypeOK, OnItsWay, InTurn
    <2>3. Numbered' /\ Faithful' /\ Owned'
      BY <2>1 DEF Inv, Numbered, MadeFor, Faithful, Owned, Answered, Closing
    <2> QED
      BY <2>2, <2>3 DEF Inv
  <1> QED
    BY <1>1, <1>2, <1>3, StreamInv, TakeInv, TaskInv DEF Next

-----------------------------------------------------------------------------
(***************************************************************************)
(* Theorems.                                                               *)
(***************************************************************************)
(* The session keeps its types; above all, obj_id counts the requests that *)
(* made an object, so it never runs past the requests of the session.      *)
THEOREM TypeCorrect == Spec => []TypeOK
  <1>1. Inv => TypeOK
    BY DEF Inv
  <1> QED
    BY InvInit, InvNext, <1>1, PTL DEF Spec

(* Whichever task read the response, and whatever was dropped or lost on   *)
(* the way, a call that returns an object returns the one made for it.     *)
THEOREM OwnAnswer == Spec => []AnswerIsOwn
  <1>1. Inv => AnswerIsOwn
    BY DEF Inv, Faithful, Numbered, AnswerIsOwn
  <1> QED
    BY InvInit, InvNext, <1>1, PTL DEF Spec

(* No Close but the wrapper's own removes an object from the table.        *)
THEOREM HeldInTable == Spec => []HeldExists
  <1>1. Inv => HeldExists
    <2> SUFFICES ASSUME Inv, NEW i \in held PROVE i \in objects
      BY DEF HeldExists
    <2>1. PICK r \in Calls : i \in answer[r].obj
      BY DEF Inv, Owned, Answered
    <2>2. i \in result[r].obj
      BY <2>1 DEF Inv, Faithful
    <2>3. ~Closing(i)
      BY DEF Inv, Owned, Closing
    <2> QED
      BY <2>2, <2>3 DEF Inv, Owned
  <1> QED
    BY InvInit, InvNext, <1>1, PTL DEF Spec
=============================================================================
