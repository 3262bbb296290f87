----------------------- MODULE ConnectionManagerProofs -----------------------
(***************************************************************************)
(* Theorems about ConnectionManager for every set of connections and every *)
(* number of bytes they move.                                              *)
(***************************************************************************)
EXTENDS ConnectionManager, SequenceTheorems, FiniteSetTheorems, WellFoundedInduction, TLAPS

(***************************************************************************)
(* What a channel holds of one connection.                                 *)
(***************************************************************************)
Has(q, c, kind) == \E i \in DOMAIN q : q[i].uuid = c /\ q[i].kind = kind
Silent(q, c) == \A i \in DOMAIN q : q[i].uuid # c
OnlyOf(q, c) == \A i \in DOMAIN q : q[i].uuid = c

(* The New of a connection is its first event, its Close the last one.     *)
Ordered(q, c) ==
    \A i, j \in DOMAIN q :
        q[i].uuid = c /\ q[j].uuid = c =>
            /\ q[j].kind = "New" => j <= i
            /\ q[j].kind = "Close" => i <= j

(* The index of an event of a longer channel.                              *)
LEMMA ConcatIndex ==
    ASSUME NEW q \in Seq(Event), NEW s \in Seq(Event)
    PROVE  /\ q \o s \in Seq(Event)
           /\ DOMAIN q = 1..Len(q) /\ DOMAIN s = 1..Len(s) /\ Len(q) \in Nat /\ Len(s) \in Nat
           /\ DOMAIN (q \o s) = 1..(Len(q) + Len(s))
           /\ \A i \in 1..Len(q) : (q \o s)[i] = q[i]
           /\ \A i \in 1..Len(s) : (q \o s)[Len(q) + i] = s[i]
           /\ \A i \in DOMAIN (q \o s) : i \in 1..Len(q) \/ i - Len(q) \in 1..Len(s)
  <1>1. /\ q \o s \in Seq(Event) /\ Len(q \o s) = Len(q) + Len(s)
        /\ \A i \in 1..Len(q) + Len(s) :
               (q \o s)[i] = IF i <= Len(q) THEN q[i] ELSE s[i - Len(q)]
    BY ConcatProperties
  <1>2. Len(q) \in Nat /\ Len(s) \in Nat /\ DOMAIN q = 1..Len(q) /\ DOMAIN s = 1..Len(s)
    BY LenProperties
  <1>3. DOMAIN (q \o s) = 1..(Len(q) + Len(s))
    BY <1>1, LenProperties
  <1> QED
    BY <1>1, <1>2, <1>3

(* Sending adds events, and loses none.                                    *)
LEMMA HasConcat ==
    ASSUME NEW q \in Seq(Event), NEW s \in Seq(Event), NEW c, NEW kind
    PROVE  Has(q \o s, c, kind) <=> Has(q, c, kind) \/ Has(s, c, kind)
  <1>1. Has(q, c, kind) => Has(q \o s, c, kind)
    <2> SUFFICES ASSUME NEW i \in DOMAIN q, q[i].uuid = c, q[i].kind = kind
                 PROVE  Has(q \o s, c, kind)
      BY DEF Has
    <2>1. i \in DOMAIN (q \o s) /\ (q \o s)[i] = q[i]
      BY ConcatIndex
    <2> QED
      BY <2>1 DEF Has
  <1>2. Has(s, c, kind) => Has(q \o s, c, kind)
    <2> SUFFICES ASSUME NEW i \in DOMAIN s, s[i].uuid = c, s[i].kind = kind
                 PROVE  Has(q \o s, c, kind)
      BY DEF Has
    <2>1. Len(q) + i \in DOMAIN (q \o s) /\ (q \o s)[Len(q) + i] = s[i]
      BY ConcatIndex
    <2> QED
      BY <2>1 DEF Has
  <1>3. Has(q \o s, c, kind) => Has(q, c, kind) \/ Has(s, c, kind)
    <2> SUFFICES ASSUME NEW i \in DOMAIN (q \o s),
                        (q \o s)[i].uuid = c, (q \o s)[i].kind = kind
                 PROVE  Has(q, c, kind) \/ Has(s, c, kind)
      BY DEF Has
    <2>1. CASE i \in 1..Len(q)
      BY <2>1, ConcatIndex DEF Has
    <2>2. CASE i - Len(q) \in 1..Len(s)
      <3>1. (q \o s)[i] = s[i - Len(q)]
        BY <2>2, ConcatIndex
      <3> QED
        BY <2>2, <3>1, ConcatIndex DEF Has
    <2> QED
      BY <2>1, <2>2, ConcatIndex
  <1> QED
    BY <1>1, <1>2, <1>3

(* Events of others do not break the silence of a connection.              *)
LEMMA SilentConcat ==
    ASSUME NEW q \in Seq(Event), NEW s \in Seq(Event), NEW c, Silent(q, c), Silent(s, c)
    PROVE  Silent(q \o s, c)
  <1> SUFFICES ASSUME NEW i \in DOMAIN (q \o s) PROVE (q \o s)[i].uuid # c
    BY DEF Silent
  <1>1. CASE i \in 1..Len(q)
    BY <1>1, ConcatIndex DEF Silent
  <1>2. CASE i - Len(q) \in 1..Len(s)
    <2>1. (q \o s)[i] = s[i - Len(q)]
      BY <1>2, ConcatIndex
    <2> QED
      BY <1>2, <2>1, ConcatIndex DEF Silent
  <1> QED
    BY <1>1, <1>2, ConcatIndex

(* What may be sent without putting events out of order: nothing of the    *)
(* connection; or a New when nothing of it was sent, and nothing after its *)
(* Close.                                                                  *)
LEMMA OrderedConcat ==
    ASSUME NEW q \in Seq(Event), NEW s \in Seq(Event), NEW c,
           Ordered(q, c), Ordered(s, c),
           \/ Silent(s, c)
           \/ ~Has(q, c, "Close") /\ (Silent(q, c) \/ ~Has(s, c, "New"))
    PROVE  Ordered(q \o s, c)
  <1> SUFFICES ASSUME NEW i \in DOMAIN (q \o s), NEW j \in DOMAIN (q \o s),
                      (q \o s)[i].uuid = c, (q \o s)[j].uuid = c
               PROVE  /\ (q \o s)[j].kind = "New" => j <= i
                      /\ (q \o s)[j].kind = "Close" => i <= j
    BY DEF Ordered
  <1>0. i \in Nat /\ j \in Nat /\ Len(q) \in Nat
    BY ConcatIndex
  <1>1. CASE i \in 1..Len(q) /\ j \in 1..Len(q)
    BY <1>1, ConcatIndex DEF Ordered
  <1>2. CASE i \in 1..Len(q) /\ j - Len(q) \in 1..Len(s)
    <2>1. (q \o s)[j] = s[j - Len(q)] /\ (q \o s)[i] = q[i]
      BY <1>2, <1>0, ConcatIndex
    <2>2. ~Silent(s, c) /\ ~Silent(q, c)
      BY <1>2, <2>1, ConcatIndex DEF Silent
    <2>3. s[j - Len(q)].kind # "New"
      BY <1>2, <2>1, <2>2, ConcatIndex DEF Has
    <2> QED
      BY <1>0, <1>2, <2>1, <2>3
  <1>3. CASE i - Len(q) \in 1..Len(s) /\ j \in 1..Len(q)
    <2>1. (q \o s)[i] = s[i - Len(q)] /\ (q \o s)[j] = q[j]
      BY <1>3, <1>0, ConcatIndex
    <2>2. ~Silent(s, c)
      BY <1>3, <2>1, ConcatIndex DEF Silent
    <2>3. q[j].kind # "Close"
      BY <1>3, <2>1, <2>2, ConcatIndex DEF Has
    <2> QED
      BY <1>0, <1>3, <2>1, <2>3
  <1>4. CASE i - Len(q) \in 1..Len(s) /\ j - Len(q) \in 1..Len(s)
    <2>1. (q \o s)[i] = s[i - Len(q)] /\ (q \o s)[j] = s[j - Len(q)]
      BY <1>4, <1>0, ConcatIndex
    <2>2. /\ s[j - Len(q)].kind = "New" => j - Len(q) <= i - Len(q)
          /\ s[j - Len(q)].kind = "Close" => i - Len(q) <= j - Len(q)
      BY <1>4, <2>1, ConcatIndex DEF Ordered
    <2> QED
      BY <1>0, <2>1, <2>2
  <1> QED
    BY <1>1, <1>2, <1>3, <1>4, ConcatIndex

(* Taking the first event.                                                 *)
LEMMA TailIndex ==
    ASSUME NEW q \in Seq(Event), q # <<>>
    PROVE  /\ Tail(q) \in Seq(Event) /\ Head(q) = q[1] /\ Head(q) \in Event
           /\ Len(q) \in Nat /\ Len(q) >= 1 /\ DOMAIN q = 1..Len(q)
           /\ DOMAIN Tail(q) = 1..(Len(q) - 1)
           /\ \A i \in 1..(Len(q) - 1) : Tail(q)[i] = q[i + 1]
  BY HeadTailProperties, LenProperties, EmptySeq

(* What is left of a kind once the first event is taken.                   *)
LEMMA HasTail ==
    ASSUME NEW q \in Seq(Event), q # <<>>, NEW c, NEW kind
    PROVE  Has(q, c, kind) <=>
               (Head(q).uuid = c /\ Head(q).kind = kind) \/ Has(Tail(q), c, kind)
  <1>1. Has(Tail(q), c, kind) => Has(q, c, kind)
    BY TailIndex DEF Has
  <1>2. Head(q).uuid = c /\ Head(q).kind = kind => Has(q, c, kind)
    BY TailIndex DEF Has
  <1>3. ASSUME NEW i \in DOMAIN q, q[i].uuid = c, q[i].kind = kind, i # 1
        PROVE  Has(Tail(q), c, kind)
    <2>1. i - 1 \in DOMAIN Tail(q) /\ Tail(q)[i - 1] = q[i]
      BY <1>3, TailIndex
    <2> QED
      BY <1>3, <2>1 DEF Has
  <1> QED
    BY <1>1, <1>2, <1>3, TailIndex DEF Has

(* Taking an event does not break it either.                               *)
LEMMA SilentTail ==
    ASSUME NEW q \in Seq(Event), q # <<>>, NEW c, Silent(q, c)
    PROVE  Silent(Tail(q), c)
  BY TailIndex DEF Silent

\* Neither does it change the order of the others.
LEMMA OrderedTail ==
    ASSUME NEW q \in Seq(Event), q # <<>>, NEW c, Ordered(q, c)
    PROVE  /\ Ordered(Tail(q), c)
           /\ Head(q).uuid = c /\ Head(q).kind = "New" => ~Has(Tail(q), c, "New")
           /\ Head(q).uuid = c /\ Head(q).kind # "New" => ~Has(q, c, "New")
           /\ Head(q).uuid = c /\ Head(q).kind = "Close" => Silent(Tail(q), c)
  <1>1. Ordered(Tail(q), c)
    <2> SUFFICES ASSUME NEW i \in DOMAIN Tail(q), NEW j \in DOMAIN Tail(q),
                        Tail(q)[i].uuid = c, Tail(q)[j].uuid = c
                 PROVE  /\ Tail(q)[j].kind = "New" => j <= i
                        /\ Tail(q)[j].kind = "Close" => i <= j
      BY DEF Ordered
    <2>1. /\ i + 1 \in DOMAIN q /\ j + 1 \in DOMAIN q /\ i \in Nat /\ j \in Nat
          /\ Tail(q)[i] = q[i + 1] /\ Tail(q)[j] = q[j + 1]
      BY TailIndex
    <2>2. /\ q[j + 1].kind = "New" => j + 1 <= i + 1
          /\ q[j + 1].kind = "Close" => i + 1 <= j + 1
      BY <2>1 DEF Ordered
    <2> QED
      BY <2>1, <2>2
  <1>2. ASSUME NEW j \in DOMAIN Tail(q), Tail(q)[j].uuid = c, Head(q).uuid = c
        PROVE  Tail(q)[j].kind # "New" /\ Head(q).kind # "Close"
    <2>1. /\ j + 1 \in DOMAIN q /\ j \in Nat /\ j >= 1 /\ 1 \in DOMAIN q
          /\ Tail(q)[j] = q[j + 1] /\ Head(q) = q[1]
      BY TailIndex
    <2>2. /\ q[j + 1].kind = "New" => j + 1 <= 1
          /\ q[1].kind = "Close" => j + 1 <= 1
      BY <1>2, <2>1 DEF Ordered
    <2> QED
      BY <2>1, <2>2
  <1>3. Head(q).uuid = c => ~Has(Tail(q), c, "New")
    BY <1>2 DEF Has
  <1>4. Head(q).uuid = c /\ Head(q).kind = "Close" => Silent(Tail(q), c)
    BY <1>2 DEF Silent
  <1> QED
    BY <1>1, <1>3, <1>4, HasTail

-----------------------------------------------------------------------------
(***************************************************************************)
(* Type correctness.                                                       *)
(***************************************************************************)

(* Sums of byte counts are byte counts.                                    *)
LEMMA PlusType == ASSUME NEW a \in Bytes, NEW b \in Bytes PROVE Plus(a, b) \in Bytes
  BY DEF Plus, Bytes

(* What a handle sends of its counters: events of its own, of kind Count.  *)
LEMMA CountedType ==
    ASSUME TypeOK, NEW c \in Conns
    PROVE  /\ Counted(c) \in Seq(Event) /\ OnlyOf(Counted(c), c)
           /\ \A i \in DOMAIN Counted(c) : Counted(c)[i].kind = "Count"
  <1>1. pend[c] \in Bytes
    BY DEF TypeOK
  <1> DEFINE e == [uuid |-> c, kind |-> "Count", bytes |-> pend[c]]
  <1>2. e \in Event
    BY <1>1 DEF Event, Kinds
  <1>3. Counted(c) = <<>> \/ Counted(c) = <<e>>
    BY DEF Counted
  <1> HIDE DEF e
  <1>4. <<e>> \in Seq(Event) /\ DOMAIN <<e>> = {1} /\ <<e>>[1] = e
    BY <1>2
  <1>5. <<>> \in Seq(Event) /\ DOMAIN <<>> = {}
    OBVIOUS
  <1>6. e.uuid = c /\ e.kind = "Count"
    BY DEF e
  <1> QED
    BY <1>3, <1>4, <1>5, <1>6 DEF OnlyOf

(* A new table of connections is well typed.                               *)
LEMMA TypeInit == Init => TypeOK
  <1> SUFFICES ASSUME Init PROVE TypeOK
    OBVIOUS
  <1>1. ZeroBytes \in Bytes /\ NoEntry \in Entry
    BY DEF ZeroBytes, Bytes, NoEntry, Entry
  <1> QED
    BY <1>1 DEF Init, TypeOK

(* What an action on the channel does to it: the handle of c sends Counts  *)
(* of its own, or nothing.                                                 *)
Counting(c) ==
    \E s \in Seq(Event) :
        /\ queue' = queue \o s /\ OnlyOf(s, c)
        /\ \A i \in DOMAIN s : s[i].kind = "Count"

(* A handle that flushes on a heartbeat, and one that does not.            *)
LEMMA FlushCounts ==
    ASSUME TypeOK, NEW c \in Conns,
           queue' = IF beat[c] THEN queue \o Counted(c) ELSE queue
    PROVE  Counting(c)
  <1>1. queue \in Seq(Event)
    BY DEF TypeOK
  <1>2. CASE beat[c]
    <2>1. queue' = queue \o Counted(c)
      BY <1>2
    <2> QED
      BY <2>1, CountedType DEF Counting
  <1>3. CASE ~beat[c]
    <2>1. queue' = queue \o <<>>
      BY <1>1, <1>3
    <2>2. <<>> \in Seq(Event) /\ DOMAIN <<>> = {}
      OBVIOUS
    <2> QED
      BY <2>1, <2>2 DEF Counting, OnlyOf
  <1> QED
    BY <1>2, <1>3

(* Every action keeps the types.                                           *)
LEMMA TypeNext == TypeOK /\ [Next]_vars => TypeOK'
  <1> SUFFICES ASSUME TypeOK, [Next]_vars PROVE TypeOK'
    OBVIOUS
  <1> USE DEF TypeOK
  <1>1. ZeroBytes \in Bytes /\ NoEntry \in Entry
    BY DEF ZeroBytes, Bytes, NoEntry, Entry
  <1>2. \A c \in Conns, kind \in Kinds : Ev(c, kind) \in Event
    BY <1>1 DEF Ev, Event
  <1>3. [down |-> 1, up |-> 0] \in Bytes /\ [down |-> 0, up |-> 1] \in Bytes
    BY DEF Bytes
  <1>4. ASSUME NEW c \in Conns, Counting(c) PROVE queue' \in Seq(Event)
    BY <1>4, ConcatIndex DEF Counting
  <1>5. ASSUME NEW c \in Conns, NewConnection(c) PROVE TypeOK'
    <2>1. Opened(c) \in Seq(Event)
      BY <1>2 DEF Opened, Kinds
    <2>2. queue' \in Seq(Event)
      BY <1>5, <2>1, ConcatIndex DEF NewConnection
    <2> QED
      BY <1>5, <2>2 DEF NewConnection
  <1>6. CASE Heartbeat
    BY <1>6 DEF Heartbeat
  <1>7. ASSUME NEW c \in Conns, PollAborted(c) \/ PollIdle(c) PROVE TypeOK'
    <2>1. Flush(c) /\ UNCHANGED <<blocked, moved, entry, total, signal, closing>>
      BY <1>7 DEF PollAborted, PollIdle
    <2>2. queue' \in Seq(Event)
      BY <2>1, <1>4, FlushCounts DEF Flush
    <2>3. owner' \in [Conns -> {"none", "open", "aborted", "dropped"}]
      BY <1>7 DEF PollAborted, PollIdle
    <2>4. pend' \in [Conns -> Bytes] /\ beat' \in [Conns -> BOOLEAN]
      BY <2>1, <1>1 DEF Flush
    <2> QED
      BY <2>1, <2>2, <2>3, <2>4
  <1>8. ASSUME NEW c \in Conns, PollRead(c) PROVE TypeOK'
    <2>1. queue' \in Seq(Event)
      BY <1>8, <1>4, FlushCounts DEF PollRead
    <2>2. moved' \in [Conns -> Bytes] /\ pend' \in [Conns -> Bytes]
      BY <1>8, <1>3, PlusType DEF PollRead, Moves
    <2> QED
      BY <1>8, <2>1, <2>2 DEF PollRead
  <1>9. ASSUME NEW c \in Conns, PollWrite(c) PROVE TypeOK'
    <2>1. moved' \in [Conns -> Bytes] /\ pend' \in [Conns -> Bytes]
      BY <1>9, <1>3, PlusType DEF PollWrite, Moves
    <2> QED
      BY <1>9, <2>1 DEF PollWrite
  <1>10. ASSUME NEW c \in Conns, DropConnection(c) PROVE TypeOK'
    <2>1. <<Ev(c, "Close")>> \in Seq(Event)
      BY <1>2 DEF Kinds
    <2>2. queue' \in Seq(Event)
      BY <1>10, <2>1, CountedType, ConcatIndex DEF DropConnection
    <2> QED
      BY <1>10, <1>1, <2>2 DEF DropConnection
  <1>11. ASSUME NEW c \in Conns, Backpressure(c) PROVE TypeOK'
    BY <1>11 DEF Backpressure
  <1>12. ASSUME NEW S \in SUBSET Conns, StopAll(S),
                UNCHANGED <<owner, blocked, beat, pend, moved, queue, total, closing>>
         PROVE  TypeOK'
    <2>1. entry' \in [Conns -> Entry]
      BY <1>12 DEF StopAll, Entry
    <2> QED
      BY <1>12, <2>1 DEF StopAll
  <1>13. CASE InputEvent
    <2>1. /\ queue # <<>> /\ queue' = Tail(queue)
          /\ UNCHANGED <<owner, blocked, beat, pend, moved, closing>>
      BY <1>13 DEF InputEvent
    <2>2. Tail(queue) \in Seq(Event) /\ Head(queue) \in Event
      BY <2>1, TailIndex
    <2>3. PICK c \in Conns, n \in Bytes :
              InputNew(c) \/ InputSetStopper(c) \/ InputCount(c, n) \/ InputClose(c)
      BY <1>13, <2>2 DEF InputEvent, Event
    <2>4. entry[c] \in Entry
      OBVIOUS
    <2>5. [NoEntry EXCEPT !.listed = TRUE] \in Entry
      BY <1>1 DEF Entry
    <2>6. \A b \in BOOLEAN : [entry[c] EXCEPT !.stopper = b] \in Entry
      BY <2>4 DEF Entry
    <2>7. [entry[c] EXCEPT !.bytes = Plus(entry[c].bytes, n)] \in Entry
      BY <2>4, PlusType DEF Entry
    <2>8. entry[c].listed \in BOOLEAN
      BY <2>4 DEF Entry
    <2>9. entry' \in [Conns -> Entry]
      BY <1>1, <2>3, <2>5, <2>6, <2>7, <2>8
         DEF InputNew, InputSetStopper, InputCount, InputClose
    <2>10. total' \in Bytes
      BY <2>3, PlusType DEF InputNew, InputSetStopper, InputCount, InputClose
    <2>11. signal' \in [Conns -> {"pending", "sent", "lost"}]
      BY <2>3 DEF InputNew, InputSetStopper, InputCount, InputClose, Lose
    <2> QED
      BY <2>1, <2>2, <2>9, <2>10, <2>11
  <1>14. CASE BeginClosing \/ EndClosing
    BY <1>14 DEF BeginClosing, EndClosing
  <1>15. CASE UNCHANGED vars
    BY <1>15 DEF vars
  <1>16. CASE StopConnections \/ \E c \in Conns : StopConnection(c)
    <2>1. PICK S \in SUBSET Conns : StopAll(S)
      BY <1>16 DEF StopConnections, StopConnection
    <2> QED
      BY <1>12, <1>16, <2>1 DEF StopConnections, StopConnection
  <1> HIDE DEF TypeOK
  <1> QED
    BY <1>5, <1>6, <1>7, <1>8, <1>9, <1>10, <1>11, <1>13, <1>14, <1>15, <1>16
    DEF Next, Handle

(* The table of connections keeps its types.                               *)
THEOREM TypeCorrect == Spec => []TypeOK
  BY TypeInit, TypeNext, PTL DEF Spec

-----------------------------------------------------------------------------
(***************************************************************************)
(* The table and the handles agree, and only a request aborts a stream.    *)
(* Neither property is inductive: both rest on the order of a connection's *)
(* events in the channel.  Its New comes before everything else, so that   *)
(* the stopper always finds the entry and is not lost; its Close comes     *)
(* last, so that nothing revives an entry that was removed.                *)
(***************************************************************************)
Alive == {"open", "aborted"}

ConnInv(c) ==
    /\ Ordered(queue, c)
    /\ owner[c] = "none" => ~entry[c].listed /\ Silent(queue, c)
    /\ owner[c] \in Alive => /\ ~Has(queue, c, "Close")
                             /\ entry[c].listed \/ Has(queue, c, "New")
    /\ owner[c] = "dropped" =>
           (entry[c].listed \/ Has(queue, c, "New") => Has(queue, c, "Close"))
    /\ Has(queue, c, "SetStopper") => entry[c].listed \/ Has(queue, c, "New")
    /\ signal[c] = "lost" => owner[c] = "dropped"
    /\ owner[c] = "aborted" => signal[c] = "sent"

Inv == TypeOK /\ \A c \in Conns : ConnInv(c)

(* A connection of which nothing is sent, received or changed.             *)
LEMMA Untouched ==
    ASSUME TypeOK, NEW c, NEW s \in Seq(Event), Silent(s, c), queue' = queue \o s,
           owner'[c] = owner[c], entry'[c].listed = entry[c].listed,
           signal'[c] \in {signal[c], "sent"}, ConnInv(c)
    PROVE  ConnInv(c)'
  <1>1. queue \in Seq(Event)
    BY DEF TypeOK
  <1>2. Ordered(s, c) /\ \A kind : ~Has(s, c, kind)
    BY DEF Silent, Ordered, Has
  <1>3. Ordered(queue', c)
    BY <1>1, <1>2, OrderedConcat DEF ConnInv
  <1>4. \A kind : Has(queue', c, kind) <=> Has(queue, c, kind)
    BY <1>1, <1>2, HasConcat
  <1>5. Silent(queue, c) => Silent(queue', c)
    BY <1>1, SilentConcat
  <1> QED
    BY <1>3, <1>4, <1>5 DEF ConnInv

(* A new table has no connection.                                          *)
LEMMA InvInit == Init => Inv
  <1> SUFFICES ASSUME Init, NEW c \in Conns PROVE ConnInv(c)
    BY TypeInit DEF Inv
  <1>1. owner[c] = "none" /\ ~entry[c].listed /\ queue = <<>> /\ signal[c] = "pending"
    BY DEF Init, NoEntry
  <1>2. DOMAIN queue = {}
    BY <1>1
  <1> QED
    BY <1>1, <1>2 DEF ConnInv, Ordered, Silent, Has, Alive

(* Every step keeps the invariant.                                         *)
LEMMA InvNext == Inv /\ [Next]_vars => Inv'
  <1> SUFFICES ASSUME Inv, [Next]_vars PROVE \A d \in Conns : ConnInv(d)'
    BY TypeNext DEF Inv
  <1>1. TypeOK /\ queue \in Seq(Event) /\ \A d \in Conns : ConnInv(d)
    BY DEF Inv, TypeOK
  <1>2. <<>> \in Seq(Event) /\ queue = queue \o <<>> /\ \A d : Silent(<<>>, d)
    BY <1>1 DEF Silent
  \* a step that leaves the channel alone
  <1>3. ASSUME UNCHANGED <<owner, queue>>, NEW d \in Conns,
               entry'[d].listed = entry[d].listed, signal'[d] \in {signal[d], "sent"}
        PROVE  ConnInv(d)'
    BY <1>1, <1>2, <1>3, Untouched
  \* a step of the handle of c: another connection
  <1>4. ASSUME NEW c \in Conns, NEW d \in Conns \ {c}, NEW s \in Seq(Event), OnlyOf(s, c),
               queue' = queue \o s, owner'[d] = owner[d], UNCHANGED <<entry, signal>>
        PROVE  ConnInv(d)'
    <2>1. Silent(s, d)
      BY <1>4 DEF Silent, OnlyOf
    <2> QED
      BY <1>1, <1>4, <2>1, Untouched
  <1>5. ASSUME NEW c \in Conns, NewConnection(c), NEW d \in Conns PROVE ConnInv(d)'
    <2> DEFINE s == Opened(c)
    <2>1. /\ s \in Seq(Event) /\ OnlyOf(s, c) /\ Ordered(s, c)
          /\ Has(s, c, "New") /\ ~Has(s, c, "Close")
      <3>1. Ev(c, "New") \in Event /\ Ev(c, "SetStopper") \in Event
        BY DEF Ev, Event, Kinds, ZeroBytes, Bytes
      <3>2. s \in Seq(Event) /\ DOMAIN s = {1, 2}
        BY <3>1 DEF Opened
      <3>3. s[1].uuid = c /\ s[1].kind = "New" /\ s[2].uuid = c /\ s[2].kind = "SetStopper"
        BY DEF Opened, Ev
      <3> QED
        BY <3>2, <3>3 DEF OnlyOf, Ordered, Has
    <2>2. /\ owner[c] = "none" /\ owner' = [owner EXCEPT ![c] = "open"]
          /\ queue' = queue \o s /\ UNCHANGED <<entry, signal>>
      BY <1>5 DEF NewConnection
    <2>3. owner'[c] = "open" /\ \A e \in Conns \ {c} : owner'[e] = owner[e]
      BY <1>1, <2>2 DEF TypeOK
    <2> HIDE DEF s
    <2>4. Silent(queue, c) /\ Ordered(queue, c) /\ signal[c] # "lost"
      BY <1>1, <2>2 DEF ConnInv
    <2>5. \A kind : ~Has(queue, c, kind)
      BY <2>4 DEF Silent, Has
    <2>6. Ordered(queue', c) /\ Has(queue', c, "New") /\ ~Has(queue', c, "Close")
      BY <1>1, <2>1, <2>2, <2>4, <2>5, OrderedConcat, HasConcat
    <2>7. ConnInv(c)'
      BY <2>2, <2>3, <2>4, <2>6 DEF ConnInv, Alive
    <2> QED
      BY <1>4, <2>1, <2>2, <2>3, <2>7
  \* a poll of the handle, which may send Counts and may find its signal
  <1>6. ASSUME NEW c \in Conns, Counting(c), owner[c] = "open", UNCHANGED <<entry, signal>>,
               \/ UNCHANGED owner
               \/ owner' = [owner EXCEPT ![c] = "aborted"] /\ signal[c] # "pending",
               NEW d \in Conns
        PROVE  ConnInv(d)'
    <2>1. PICK s \in Seq(Event) : /\ queue' = queue \o s /\ OnlyOf(s, c)
                                  /\ \A i \in DOMAIN s : s[i].kind = "Count"
      BY <1>6 DEF Counting
    <2>2. Ordered(s, c) /\ \A kind : Has(s, c, kind) => kind = "Count"
      BY <2>1 DEF Ordered, Has
    <2>3. /\ owner'[c] = "open" \/ (owner'[c] = "aborted" /\ signal[c] # "pending")
          /\ \A e \in Conns \ {c} : owner'[e] = owner[e]
      BY <1>1, <1>6 DEF TypeOK
    <2>4. Ordered(queue', c)
      BY <1>1, <1>6, <2>1, <2>2, OrderedConcat DEF ConnInv, Alive
    <2>5. \A kind \in Kinds \ {"Count"} : Has(queue', c, kind) <=> Has(queue, c, kind)
      BY <1>1, <2>1, <2>2, HasConcat
    <2>6. signal[c] \in {"pending", "sent"}
      BY <1>1, <1>6 DEF ConnInv, TypeOK
    <2>7. ConnInv(c)'
      BY <1>1, <1>6, <2>3, <2>4, <2>5, <2>6 DEF ConnInv, Alive, Kinds
    <2> QED
      BY <1>4, <1>6, <2>1, <2>3, <2>7
  <1>7. ASSUME NEW c \in Conns, PollAborted(c) \/ PollIdle(c) \/ PollRead(c),
               NEW d \in Conns
        PROVE  ConnInv(d)'
    <2>1. queue' = IF beat[c] THEN queue \o Counted(c) ELSE queue
      BY <1>7 DEF PollAborted, PollIdle, PollRead, Flush
    <2>2. /\ owner[c] = "open" /\ UNCHANGED <<entry, signal>>
          /\ \/ UNCHANGED owner
             \/ owner' = [owner EXCEPT ![c] = "aborted"] /\ signal[c] # "pending"
      BY <1>7 DEF PollAborted, PollIdle, PollRead
    <2> QED
      BY <1>1, <1>6, <2>1, <2>2, FlushCounts
  <1>8. ASSUME NEW c \in Conns, DropConnection(c), NEW d \in Conns PROVE ConnInv(d)'
    <2> DEFINE s == Counted(c) \o <<Ev(c, "Close")>>
    <2>1. Ev(c, "Close") \in Event /\ Ev(c, "Close").uuid = c /\ Ev(c, "Close").kind = "Close"
      BY DEF Ev, Event, Kinds, ZeroBytes, Bytes
    <2>2. /\ <<Ev(c, "Close")>> \in Seq(Event) /\ DOMAIN <<Ev(c, "Close")>> = {1}
          /\ <<Ev(c, "Close")>>[1] = Ev(c, "Close")
      BY <2>1
    <2>3. Counted(c) \in Seq(Event) /\ OnlyOf(Counted(c), c) /\ Ordered(Counted(c), c)
          /\ \A kind : Has(Counted(c), c, kind) => kind = "Count"
      BY <1>1, CountedType DEF Ordered, Has
    <2>4. Ordered(<<Ev(c, "Close")>>, c) /\ Has(<<Ev(c, "Close")>>, c, "Close")
          /\ \A kind : Has(<<Ev(c, "Close")>>, c, kind) => kind = "Close"
      BY <2>1, <2>2 DEF Ordered, Has
    <2>5. s \in Seq(Event) /\ Ordered(s, c) /\ Has(s, c, "Close")
          /\ ~Has(s, c, "New") /\ ~Has(s, c, "SetStopper")
      BY <2>2, <2>3, <2>4, ConcatIndex, OrderedConcat, HasConcat
    <2>6. OnlyOf(s, c)
      <3> SUFFICES ASSUME NEW i \in DOMAIN s PROVE s[i].uuid = c
        BY DEF OnlyOf
      <3>1. CASE i \in 1..Len(Counted(c))
        BY <3>1, <2>2, <2>3, ConcatIndex DEF OnlyOf
      <3>2. CASE i - Len(Counted(c)) \in 1..Len(<<Ev(c, "Close")>>)
        <4>1. s[i] = <<Ev(c, "Close")>>[i - Len(Counted(c))]
          BY <3>2, <2>2, <2>3, ConcatIndex
        <4> QED
          BY <3>2, <4>1, <2>1, <2>2
      <3> QED
        BY <3>1, <3>2, <2>2, <2>3, ConcatIndex
    <2>7. /\ owner[c] \in Alive /\ owner' = [owner EXCEPT ![c] = "dropped"]
          /\ UNCHANGED <<entry, signal>>
          /\ queue' = (queue \o Counted(c)) \o <<Ev(c, "Close")>>
      BY <1>8 DEF DropConnection, Alive
    <2>8. queue' = queue \o s
      BY <1>1, <2>2, <2>3, <2>7, ConcatAssociative
    <2>9. owner'[c] = "dropped" /\ \A e \in Conns \ {c} : owner'[e] = owner[e]
      BY <1>1, <2>7 DEF TypeOK
    <2> HIDE DEF s
    <2>10. Ordered(queue', c)
      <3>1. Ordered(queue, c) /\ ~Has(queue, c, "Close")
        BY <1>1, <2>7 DEF ConnInv
      <3> QED
        BY <1>1, <2>5, <2>8, <3>1, OrderedConcat
    <2>11. /\ Has(queue', c, "Close")
           /\ Has(queue', c, "New") <=> Has(queue, c, "New")
           /\ Has(queue', c, "SetStopper") <=> Has(queue, c, "SetStopper")
      BY <1>1, <2>5, <2>8, HasConcat
    <2>12. ConnInv(c)'
      BY <1>1, <2>7, <2>9, <2>10, <2>11 DEF ConnInv, Alive
    <2> QED
      BY <1>4, <2>5, <2>6, <2>7, <2>8, <2>9, <2>12
  <1>9. CASE InputEvent
    <2> DEFINE e == Head(queue)
    <2>1. queue # <<>> /\ queue' = Tail(queue) /\ UNCHANGED owner
      BY <1>9 DEF InputEvent
    <2>2. e \in Event /\ e.uuid \in Conns /\ e.kind \in Kinds
      BY <1>1, <2>1, TailIndex DEF Event
    <2>3. \/ e.kind = "New" /\ InputNew(e.uuid)
          \/ e.kind = "SetStopper" /\ InputSetStopper(e.uuid)
          \/ e.kind = "Count" /\ InputCount(e.uuid, e.bytes)
          \/ e.kind = "Close" /\ InputClose(e.uuid)
      BY <1>9 DEF InputEvent
    <2> HIDE DEF e
    <2>4. ASSUME NEW d \in Conns \ {e.uuid} PROVE ConnInv(d)'
      <3>1. entry'[d] = entry[d] /\ signal'[d] = signal[d]
        BY <1>1, <2>2, <2>3 DEF InputNew, InputSetStopper, InputCount, InputClose, Lose, TypeOK
      <3>2. \A kind : Has(queue', d, kind) <=> Has(queue, d, kind)
        BY <1>1, <2>1, <2>4, HasTail DEF e
      <3>3. Ordered(queue', d) /\ (Silent(queue, d) => Silent(queue', d))
        BY <1>1, <2>1, OrderedTail, SilentTail DEF ConnInv
      <3> QED
        BY <1>1, <2>1, <3>1, <3>2, <3>3 DEF ConnInv
    <2>5. ASSUME NEW c \in Conns, c = e.uuid PROVE ConnInv(c)'
      <3>1. /\ Ordered(queue', c)
            /\ e.kind = "New" => ~Has(queue', c, "New")
            /\ e.kind # "New" => ~Has(queue, c, "New")
            /\ e.kind = "Close" => Silent(queue', c)
        BY <1>1, <2>1, <2>5, OrderedTail DEF ConnInv, e
      <3>2. \A kind : Has(queue, c, kind) <=> e.kind = kind \/ Has(queue', c, kind)
        BY <1>1, <2>1, <2>5, HasTail DEF e
      <3>3. owner[c] # "none"
        <4>1. ~Silent(queue, c)
          BY <1>1, <2>1, <2>5, TailIndex DEF Silent, e
        <4> QED
          BY <1>1, <4>1 DEF ConnInv
      <3>4. entry[c] \in Entry /\ entry \in [Conns -> Entry]
            /\ signal \in [Conns -> {"pending", "sent", "lost"}]
        BY <1>1 DEF TypeOK
      <3>5. CASE e.kind = "New" /\ InputNew(c)
        <4>1. entry'[c].listed /\ signal' = signal
          BY <3>4, <3>5 DEF InputNew, NoEntry
        <4> QED
          BY <1>1, <2>1, <3>1, <3>2, <3>3, <3>5, <4>1 DEF ConnInv
      <3>6. CASE e.kind = "SetStopper" /\ InputSetStopper(c)
        <4>1. entry[c].listed
          BY <1>1, <3>1, <3>2, <3>6 DEF ConnInv
        <4>2. entry'[c].listed = entry[c].listed /\ signal' = signal
          BY <3>4, <3>6, <4>1 DEF InputSetStopper, Entry
        <4> QED
          BY <1>1, <2>1, <3>1, <3>2, <3>3, <3>6, <4>1, <4>2 DEF ConnInv
      <3>7. CASE e.kind = "Count" /\ InputCount(c, e.bytes)
        <4>1. entry'[c].listed = entry[c].listed /\ signal' = signal
          BY <3>4, <3>7 DEF InputCount, Entry
        <4> QED
          BY <1>1, <2>1, <3>1, <3>2, <3>3, <3>7, <4>1 DEF ConnInv
      <3>8. CASE e.kind = "Close" /\ InputClose(c)
        <4>1. owner[c] = "dropped"
          BY <1>1, <3>2, <3>3, <3>8 DEF ConnInv, Alive, TypeOK
        <4>2. ~entry'[c].listed
          BY <3>4, <3>8 DEF InputClose, NoEntry
        <4>3. \A kind : ~Has(queue', c, kind)
          BY <3>1, <3>8 DEF Silent, Has
        <4> QED
          BY <2>1, <3>1, <4>1, <4>2, <4>3 DEF ConnInv, Alive
      <3> QED
        BY <2>3, <2>5, <3>5, <3>6, <3>7, <3>8
    <2> QED
      BY <2>2, <2>4, <2>5
  <1>10. ASSUME NEW S \in SUBSET Conns, StopAll(S), UNCHANGED <<owner, queue>>,
                NEW d \in Conns
         PROVE  ConnInv(d)'
    <2>1. entry'[d].listed = entry[d].listed /\ signal'[d] \in {signal[d], "sent"}
      BY <1>1, <1>10 DEF StopAll, TypeOK, Entry
    <2> QED
      BY <1>3, <1>10, <2>1
  <1>11. CASE StopConnections \/ \E c \in Conns : StopConnection(c)
    <2>1. UNCHANGED <<owner, queue>> /\ \E S \in SUBSET Conns : StopAll(S)
      BY <1>11 DEF StopConnections, StopConnection
    <2> QED
      BY <1>10, <2>1
  <1>12. CASE \/ Heartbeat \/ BeginClosing \/ EndClosing \/ UNCHANGED vars
              \/ \E c \in Conns : PollWrite(c) \/ Backpressure(c)
    <2>1. UNCHANGED <<owner, queue, entry, signal>>
      BY <1>12 DEF Heartbeat, BeginClosing, EndClosing, vars, PollWrite, Backpressure
    <2> QED
      BY <1>3, <2>1
  <1> QED
    BY <1>5, <1>7, <1>8, <1>9, <1>11, <1>12 DEF Next, Handle

(* Whatever handles, heartbeats, stops and the recv_event task interleave: *)
(* the table lists exactly the connections that exist, up to events still  *)
(* in the channel.                                                         *)
THEOREM TableFollowsHandles == Spec => []TableMatchesHandles
  <1>1. Inv => TableMatchesHandles
    <2> SUFFICES ASSUME Inv, NEW c \in Conns
                 PROVE  /\ entry[c].listed => owner[c] \in Alive \/ Queued(c, "Close")
                        /\ owner[c] \in Alive => entry[c].listed \/ Queued(c, "New")
      BY DEF TableMatchesHandles, Alive
    <2>1. owner[c] \in {"none", "open", "aborted", "dropped"} /\ ConnInv(c)
      BY DEF Inv, TypeOK
    <2>2. \A kind : Has(queue, c, kind) <=> Queued(c, kind)
      BY DEF Has, Queued
    <2> QED
      BY <2>1, <2>2 DEF ConnInv, Alive
  <1> QED
    BY InvInit, InvNext, <1>1, PTL DEF Spec

(* A stream fails with "Aborted by user" only after stop was sent to it:   *)
(* the sender is never dropped while the stream's handle is open.          *)
THEOREM OnlyRequestsAbort == Spec => []AbortedOnRequest
  <1>1. Inv => AbortedOnRequest
    BY DEF Inv, ConnInv, AbortedOnRequest
  <1> QED
    BY InvInit, InvNext, <1>1, PTL DEF Spec

-----------------------------------------------------------------------------
(***************************************************************************)
(* Sums over a finite set. SumFunctionOnSet takes the elements one by one, *)
(* in an order CHOOSE fixes; the lemmas free its value from that order. An *)
(* induction over a finite set is a smallest counterexample.               *)
(***************************************************************************)

(* A set of numbers up to n has a least one.                               *)
LEMMA LeastUpTo ==
    ASSUME NEW n \in Nat, NEW T \in SUBSET (0..n), T # {}
    PROVE  \E x \in T : \A y \in T : x <= y
  <1> DEFINE D == {1..k : k \in T}
  <1>1. \A k \in 0..n : 1..k \subseteq 1..n
    OBVIOUS
  <1>2. IsWellFoundedOn(StrictSubsetOrdering(1..n), SUBSET (1..n))
    <2>1. IsFiniteSet(1..n)
      BY FS_Interval
    <2> QED
      BY <2>1, FS_FiniteSubsetsOfFinite, FS_StrictSubsetOrderingWellFounded, Zenon
  <1>3. D \subseteq SUBSET (1..n) /\ D # {}
    BY <1>1
  <1>4. PICK x \in D : \A y \in D : ~ (<<y, x>> \in StrictSubsetOrdering(1..n))
    <2> HIDE DEF D
    <2> QED
      BY <1>2, <1>3, WFMin
  <1>5. PICK k \in T : x = 1..k
    BY <1>4
  <1>6. ASSUME NEW j \in T, j < k PROVE FALSE
    <2>1. 1..j \in D /\ 1..j \subseteq 1..k /\ 1..k \subseteq 1..n /\ k \in 1..k /\ k \notin 1..j
      BY <1>6
    <2>2. <<1..j, 1..k>> \in StrictSubsetOrdering(1..n)
      BY <2>1 DEF StrictSubsetOrdering
    <2> QED
      BY <2>1, <2>2, <1>4, <1>5
  <1> QED
    BY <1>6

(* A set of subsets of a finite set has a smallest one.                    *)
LEMMA SmallestSubset ==
    ASSUME NEW S, IsFiniteSet(S), NEW T \in SUBSET (SUBSET S), T # {}
    PROVE  \E t \in T : \A u \in T : u \subseteq t => u = t
  <1>1. IsWellFoundedOn(StrictSubsetOrdering(S), SUBSET S)
    BY FS_FiniteSubsetsOfFinite, FS_StrictSubsetOrderingWellFounded, Zenon
  <1>2. PICK t \in T : \A u \in T : ~ (<<u, t>> \in StrictSubsetOrdering(S))
    BY <1>1, WFMin
  <1>3. ASSUME NEW u \in T, u \subseteq t, u # t PROVE FALSE
    <2>1. <<u, t>> \in StrictSubsetOrdering(S)
      BY <1>3 DEF StrictSubsetOrdering
    <2> QED
      BY <1>2, <2>1
  <1> QED
    BY <1>3

(* What MapThenFoldSet computes, as a function of the subsets of S.        *)
Pick(s) == CHOOSE x \in s : TRUE
Summing(g, f, S) == g = [s \in SUBSET S |-> IF s = {} THEN 0 ELSE f[Pick(s)] + g[s \ {Pick(s)}]]

(* One step of it.                                                         *)
LEMMA SummingStep ==
    ASSUME NEW g, NEW f, NEW S, Summing(g, f, S), NEW s \in SUBSET S
    PROVE  g[s] = IF s = {} THEN 0 ELSE f[Pick(s)] + g[s \ {Pick(s)}]
  BY DEF Summing

(* The element that is taken next is one of the set.                       *)
LEMMA PickIn == ASSUME NEW s, s # {} PROVE Pick(s) \in s
  BY DEF Pick

(* Two such functions agree where both are defined.                        *)
LEMMA SummingUnique ==
    ASSUME NEW f, NEW g, NEW S, NEW h, NEW U, Summing(g, f, S), Summing(h, f, U),
           NEW s \in SUBSET S, s \in SUBSET U, IsFiniteSet(s)
    PROVE  g[s] = h[s]
  <1> DEFINE T == {t \in SUBSET s : g[t] # h[t]}
  <1>1. SUFFICES ASSUME T # {} PROVE FALSE
    OBVIOUS
  <1>2. PICK t \in T : \A u \in T : u \subseteq t => u = t
    <2>1. T \in SUBSET (SUBSET s)
      OBVIOUS
    <2> HIDE DEF T
    <2> QED
      BY <1>1, <2>1, SmallestSubset
  <1>3. t \in SUBSET s /\ g[t] # h[t] /\ t \in SUBSET S /\ t \in SUBSET U
    BY <1>2
  <1>4. /\ g[t] = IF t = {} THEN 0 ELSE f[Pick(t)] + g[t \ {Pick(t)}]
        /\ h[t] = IF t = {} THEN 0 ELSE f[Pick(t)] + h[t \ {Pick(t)}]
    BY <1>3, SummingStep
  <1>5. t # {}
    BY <1>3, <1>4
  <1>6. t \ {Pick(t)} # t /\ t \ {Pick(t)} \subseteq t
    BY <1>5, PickIn
  <1>7. g[t \ {Pick(t)}] = h[t \ {Pick(t)}]
    <2>1. t \ {Pick(t)} \notin T
      BY <1>2, <1>6
    <2> QED
      BY <1>3, <2>1
  <1> QED
    BY <1>3, <1>4, <1>5, <1>7

(* There is one for every finite set.                                      *)
LEMMA SummingExists ==
    ASSUME NEW f, NEW S, IsFiniteSet(S) PROVE \E g : Summing(g, f, S)
  <1> DEFINE T == {s \in SUBSET S : ~\E g : Summing(g, f, s)}
  <1>1. SUFFICES ASSUME T # {} PROVE FALSE
    OBVIOUS
  <1>2. PICK s \in T : \A u \in T : u \subseteq s => u = s
    <2>1. T \in SUBSET (SUBSET S)
      OBVIOUS
    <2> HIDE DEF T
    <2> QED
      BY <1>1, <2>1, SmallestSubset
  <1>3. s \in SUBSET S /\ ~\E g : Summing(g, f, s)
    BY <1>2
  <1>4. \A u \in SUBSET s : u # s => \E g : Summing(g, f, u)
    BY <1>2
  <1> HIDE DEF T
  <1> DEFINE G(u) == CHOOSE g : Summing(g, f, u)
             last == IF s = {} THEN 0 ELSE f[Pick(s)] + G(s \ {Pick(s)})[s \ {Pick(s)}]
             h == [u \in SUBSET s |-> IF u = s THEN last ELSE G(u)[u]]
  <1>5. \A u \in SUBSET s : u # s => Summing(G(u), f, u)
    BY <1>4
  <1> HIDE DEF G
  <1>6. \A u \in SUBSET s : IsFiniteSet(u)
    BY <1>3, FS_Subset
  <1>7. ASSUME NEW u \in SUBSET s PROVE h[u] = IF u = {} THEN 0 ELSE f[Pick(u)] + h[u \ {Pick(u)}]
    <2>1. u # {} => Pick(u) \in u
      BY PickIn
    <2>2. u # {} => u \ {Pick(u)} \in SUBSET s /\ u \ {Pick(u)} # s
      BY <2>1
    <2>3. u # {} => h[u \ {Pick(u)}] = G(u \ {Pick(u)})[u \ {Pick(u)}]
      BY <2>2
    <2>4. CASE u = s
      BY <2>3, <2>4
    <2>5. CASE u # s
      <3>1. h[u] = G(u)[u] /\ Summing(G(u), f, u) /\ u \in SUBSET u
        BY <1>5, <2>5
      <3>2. G(u)[u] = IF u = {} THEN 0 ELSE f[Pick(u)] + G(u)[u \ {Pick(u)}]
        BY <3>1, SummingStep
      <3>3. u # {} => G(u)[u \ {Pick(u)}] = G(u \ {Pick(u)})[u \ {Pick(u)}]
        BY <1>5, <1>6, <2>2, <3>1, SummingUnique
      <3> HIDE DEF h
      <3> QED
        BY <2>3, <3>1, <3>2, <3>3
    <2> QED
      BY <2>4, <2>5
  <1>8. Summing(h, f, s)
    <2>1. DOMAIN h = SUBSET s /\ h = [u \in SUBSET s |-> h[u]]
      OBVIOUS
    <2> HIDE DEF h
    <2>2. [u \in SUBSET s |-> h[u]] = [u \in SUBSET s |-> IF u = {} THEN 0 ELSE f[Pick(u)] + h[u \ {Pick(u)}]]
      BY <1>7
    <2> QED
      BY <2>1, <2>2 DEF Summing
  <1> QED
    BY <1>3, <1>8

(* A sum is the value of such a function.                                  *)
LEMMA SumIs ==
    ASSUME NEW f, NEW S, IsFiniteSet(S)
    PROVE  \E g : Summing(g, f, S) /\ SumFunctionOnSet(f, S) = g[S]
  <1> DEFINE g == CHOOSE g : Summing(g, f, S)
  <1>1. Summing(g, f, S)
    BY SummingExists
  <1>2. SumFunctionOnSet(f, S) = g[S]
    BY DEF SumFunctionOnSet, FoldFunctionOnSet, MapThenFoldSet, Summing, Pick
  <1> QED
    BY <1>1, <1>2

(* A sum takes the elements one after the other.                           *)
LEMMA SumPick ==
    ASSUME NEW f, NEW S, IsFiniteSet(S)
    PROVE  SumFunctionOnSet(f, S) = IF S = {} THEN 0 ELSE f[Pick(S)] + SumFunctionOnSet(f, S \ {Pick(S)})
  <1>1. PICK g : Summing(g, f, S) /\ SumFunctionOnSet(f, S) = g[S]
    BY SumIs
  <1>2. IsFiniteSet(S \ {Pick(S)}) /\ S \in SUBSET S
    BY FS_RemoveElement
  <1>3. PICK h : Summing(h, f, S \ {Pick(S)}) /\ SumFunctionOnSet(f, S \ {Pick(S)}) = h[S \ {Pick(S)}]
    BY <1>2, SumIs
  <1>4. g[S \ {Pick(S)}] = h[S \ {Pick(S)}]
    BY <1>1, <1>2, <1>3, SummingUnique
  <1>5. g[S] = IF S = {} THEN 0 ELSE f[Pick(S)] + g[S \ {Pick(S)}]
    BY <1>1, <1>2, SummingStep
  <1> QED
    BY <1>1, <1>3, <1>4, <1>5

(* Sums of naturals are naturals.                                          *)
LEMMA SumNat ==
    ASSUME NEW S, IsFiniteSet(S), NEW f, \A x \in S : f[x] \in Nat
    PROVE  SumFunctionOnSet(f, S) \in Nat
  <1> DEFINE T == {s \in SUBSET S : SumFunctionOnSet(f, s) \notin Nat}
  <1>1. SUFFICES ASSUME T # {} PROVE FALSE
    OBVIOUS
  <1>2. PICK s \in T : \A u \in T : u \subseteq s => u = s
    <2>1. T \in SUBSET (SUBSET S)
      OBVIOUS
    <2> HIDE DEF T
    <2> QED
      BY <1>1, <2>1, SmallestSubset
  <1>3. s \in SUBSET S /\ SumFunctionOnSet(f, s) \notin Nat /\ IsFiniteSet(s)
    BY <1>2, FS_Subset
  <1>4. SumFunctionOnSet(f, s) = IF s = {} THEN 0 ELSE f[Pick(s)] + SumFunctionOnSet(f, s \ {Pick(s)})
    BY <1>3, SumPick
  <1>5. s # {}
    BY <1>3, <1>4
  <1>6. Pick(s) \in s
    BY <1>5, PickIn
  <1>7. SumFunctionOnSet(f, s \ {Pick(s)}) \in Nat
    <2>1. s \ {Pick(s)} \notin T
      BY <1>2, <1>6
    <2> QED
      BY <1>3, <2>1
  <1> QED
    BY <1>3, <1>4, <1>5, <1>6, <1>7

(* Any element may be taken first.                                         *)
LEMMA SumRemove ==
    ASSUME NEW S, IsFiniteSet(S), NEW f, \A x \in S : f[x] \in Nat, NEW x \in S
    PROVE  SumFunctionOnSet(f, S) = f[x] + SumFunctionOnSet(f, S \ {x})
  <1> DEFINE Good(s) == \A y \in s : SumFunctionOnSet(f, s) = f[y] + SumFunctionOnSet(f, s \ {y})
             T == {s \in SUBSET S : ~Good(s)}
  <1>1. SUFFICES ASSUME T # {} PROVE FALSE
    OBVIOUS
  <1>2. PICK s \in T : \A u \in T : u \subseteq s => u = s
    <2>1. T \in SUBSET (SUBSET S)
      OBVIOUS
    <2> HIDE DEF T
    <2> QED
      BY <1>1, <2>1, SmallestSubset
  <1>3. s \in SUBSET S /\ ~Good(s)
    BY <1>2
  <1>4. \A u \in SUBSET s : u # s => Good(u)
    BY <1>2
  <1>5. \A u \in SUBSET S : IsFiniteSet(u) /\ SumFunctionOnSet(f, u) \in Nat
    BY FS_Subset, SumNat
  <1> HIDE DEF T
  <1>6. PICK y \in s : SumFunctionOnSet(f, s) # f[y] + SumFunctionOnSet(f, s \ {y})
    BY <1>3
  <1> DEFINE z == Pick(s)
  <1>7. z \in s /\ SumFunctionOnSet(f, s) = f[z] + SumFunctionOnSet(f, s \ {z})
    BY <1>3, <1>5, <1>6, SumPick, PickIn
  <1> HIDE DEF z
  <1>8. y # z
    BY <1>6, <1>7
  <1>9. SumFunctionOnSet(f, s \ {z}) = f[y] + SumFunctionOnSet(f, (s \ {z}) \ {y})
    <2>1. s \ {z} \in SUBSET s /\ s \ {z} # s /\ y \in s \ {z}
      BY <1>7, <1>8
    <2> QED
      BY <1>4, <2>1
  <1>10. SumFunctionOnSet(f, s \ {y}) = f[z] + SumFunctionOnSet(f, (s \ {y}) \ {z})
    <2>1. s \ {y} \in SUBSET s /\ s \ {y} # s /\ z \in s \ {y}
      BY <1>7, <1>8
    <2> QED
      BY <1>4, <2>1
  <1>11. (s \ {z}) \ {y} = (s \ {y}) \ {z}
    OBVIOUS
  <1> HIDE DEF Good
  <1>12. f[y] \in Nat /\ f[z] \in Nat /\ SumFunctionOnSet(f, (s \ {y}) \ {z}) \in Nat
    BY <1>3, <1>5, <1>7
  <1> QED
    BY <1>6, <1>7, <1>9, <1>10, <1>11, <1>12

(* A sum depends on the values at its elements only.                       *)
LEMMA SumSame ==
    ASSUME NEW S, IsFiniteSet(S), NEW f, NEW g, \A x \in S : f[x] \in Nat /\ f[x] = g[x]
    PROVE  SumFunctionOnSet(f, S) = SumFunctionOnSet(g, S)
  <1> DEFINE T == {s \in SUBSET S : SumFunctionOnSet(f, s) # SumFunctionOnSet(g, s)}
  <1>1. SUFFICES ASSUME T # {} PROVE FALSE
    OBVIOUS
  <1>2. PICK s \in T : \A u \in T : u \subseteq s => u = s
    <2>1. T \in SUBSET (SUBSET S)
      OBVIOUS
    <2> HIDE DEF T
    <2> QED
      BY <1>1, <2>1, SmallestSubset
  <1>3. s \in SUBSET S /\ SumFunctionOnSet(f, s) # SumFunctionOnSet(g, s) /\ IsFiniteSet(s)
    BY <1>2, FS_Subset
  <1>4. /\ SumFunctionOnSet(f, s) = IF s = {} THEN 0 ELSE f[Pick(s)] + SumFunctionOnSet(f, s \ {Pick(s)})
        /\ SumFunctionOnSet(g, s) = IF s = {} THEN 0 ELSE g[Pick(s)] + SumFunctionOnSet(g, s \ {Pick(s)})
    BY <1>3, SumPick
  <1>5. s # {}
    BY <1>3, <1>4
  <1>6. Pick(s) \in s
    BY <1>5, PickIn
  <1>7. SumFunctionOnSet(f, s \ {Pick(s)}) = SumFunctionOnSet(g, s \ {Pick(s)})
    <2>1. s \ {Pick(s)} \notin T
      BY <1>2, <1>6
    <2> QED
      BY <1>3, <2>1
  <1> QED
    BY <1>3, <1>4, <1>5, <1>6, <1>7

(* A function that differs at one place.                                   *)
LEMMA SumUpdate ==
    ASSUME NEW S, IsFiniteSet(S), NEW f, NEW g, NEW c \in S,
           \A x \in S : f[x] \in Nat /\ g[x] \in Nat, \A x \in S \ {c} : f[x] = g[x]
    PROVE  SumFunctionOnSet(f, S) + g[c] = SumFunctionOnSet(g, S) + f[c]
  <1>1. IsFiniteSet(S \ {c})
    BY FS_RemoveElement
  <1>2. SumFunctionOnSet(f, S \ {c}) = SumFunctionOnSet(g, S \ {c}) /\ SumFunctionOnSet(f, S \ {c}) \in Nat
    BY <1>1, SumSame, SumNat
  <1>3. /\ SumFunctionOnSet(f, S) = f[c] + SumFunctionOnSet(f, S \ {c})
        /\ SumFunctionOnSet(g, S) = g[c] + SumFunctionOnSet(g, S \ {c})
    BY SumRemove
  <1> QED
    BY <1>2, <1>3

(* The places of a sequence: one more at the end.                          *)
LEMMA SumLast ==
    ASSUME NEW n \in Nat, NEW f, \A i \in 1..(n + 1) : f[i] \in Nat
    PROVE  SumFunctionOnSet(f, 1..(n + 1)) = f[n + 1] + SumFunctionOnSet(f, 1..n)
  <1>1. IsFiniteSet(1..(n + 1)) /\ n + 1 \in 1..(n + 1) /\ (1..(n + 1)) \ {n + 1} = 1..n
    BY FS_Interval
  <1> QED
    BY <1>1, SumRemove

(* One less at the front: the others move up.                              *)
LEMMA SumFirst ==
    ASSUME NEW n \in Nat, NEW f, NEW g, \A i \in 1..(n + 1) : f[i] \in Nat, \A i \in 1..n : g[i] = f[i + 1]
    PROVE  SumFunctionOnSet(f, 1..(n + 1)) = f[1] + SumFunctionOnSet(g, 1..n)
  <1> DEFINE Good(m) == SumFunctionOnSet(f, 1..(m + 1)) = f[1] + SumFunctionOnSet(g, 1..m)
             T == {m \in 0..n : ~Good(m)}
  <1>1. SUFFICES ASSUME T # {} PROVE FALSE
    OBVIOUS
  <1>2. PICK m \in T : \A k \in T : m <= k
    <2>1. T \in SUBSET (0..n)
      OBVIOUS
    <2> HIDE DEF T
    <2> QED
      BY <1>1, <2>1, LeastUpTo
  <1>3. m \in 0..n /\ ~Good(m)
    BY <1>2
  <1>4. m # 0 => Good(m - 1)
    BY <1>2, <1>3
  <1> HIDE DEF T
  <1>5. \A k \in 0..n : SumFunctionOnSet(f, 1..(k + 1)) = f[k + 1] + SumFunctionOnSet(f, 1..k)
    BY SumLast
  <1>6. CASE m = 0
    <2>1. SumFunctionOnSet(f, 1..(m + 1)) = f[m + 1] + SumFunctionOnSet(f, 1..m)
      BY <1>3, <1>5
    <2>2. 1..m = {} /\ m + 1 = 1 /\ IsFiniteSet({})
      BY <1>6, FS_EmptySet
    <2>3. SumFunctionOnSet(f, {}) = 0 /\ SumFunctionOnSet(g, {}) = 0
      BY <2>2, SumPick
    <2> QED
      BY <1>3, <2>1, <2>2, <2>3
  <1>7. CASE m # 0
    <2>1. m - 1 \in Nat /\ m - 1 + 1 = m /\ m - 1 \in 0..n
      BY <1>3, <1>7
    <2>2. SumFunctionOnSet(g, 1..m) = g[m] + SumFunctionOnSet(g, 1..(m - 1))
      <3>1. \A i \in 1..(m - 1 + 1) : g[i] \in Nat
        BY <1>3, <2>1
      <3> QED
        BY <2>1, <3>1, SumLast
    <2>3. SumFunctionOnSet(f, 1..(m + 1)) = f[m + 1] + SumFunctionOnSet(f, 1..m)
      BY <1>3, <1>5
    <2>4. SumFunctionOnSet(f, 1..m) = f[1] + SumFunctionOnSet(g, 1..(m - 1))
      BY <1>4, <1>7, <2>1
    <2>5. g[m] = f[m + 1] /\ f[m + 1] \in Nat /\ f[1] \in Nat
      BY <1>3, <1>7
    <2>6. SumFunctionOnSet(g, 1..(m - 1)) \in Nat
      <3>1. \A i \in 1..(m - 1) : g[i] \in Nat
        BY <1>3, <2>1
      <3>2. IsFiniteSet(1..(m - 1))
        BY <2>1, FS_Interval
      <3> QED
        BY <3>1, <3>2, SumNat
    <2> HIDE DEF Good
    <2> QED
      BY <1>3, <2>2, <2>3, <2>4, <2>5, <2>6 DEF Good
  <1> QED
    BY <1>6, <1>7

-----------------------------------------------------------------------------
(***************************************************************************)
(* Every byte is counted once.  The bytes of a connection that are owed to *)
(* the table are in its handle or in the channel; a step of a handle moves *)
(* them on, and recv_event takes the share of one event out of the channel *)
(* and adds it to an entry, which is there: a Count comes after the New    *)
(* and before the Close.                                                   *)
(***************************************************************************)
Ways == {"down", "up"}
Sent(q, c, way) == SumFunctionOnSet([i \in DOMAIN q |-> Share(q[i], c, way)], DOMAIN q)
Owed(c, way) == pend[c][way] + Sent(queue, c, way)

Account(c) ==
    /\ Has(queue, c, "Count") => entry[c].listed \/ Has(queue, c, "New")
    /\ entry[c].listed => ~Has(queue, c, "New")
    /\ \A way \in Ways :
         /\ entry[c].listed => entry[c].bytes[way] + Owed(c, way) = moved[c][way]
         /\ owner[c] = "none" \/ Has(queue, c, "New") => Owed(c, way) = moved[c][way]

AllOwed(way) == SumFunctionOnSet([c \in Conns |-> Owed(c, way)], Conns)
AllMoved(way) == SumFunctionOnSet([c \in Conns |-> moved[c][way]], Conns)
Accounts == /\ \A c \in Conns : Account(c)
            /\ \A way \in Ways : total[way] + AllOwed(way) = AllMoved(way)

(* Byte counts, down and up.                                               *)
LEMMA BytesWays ==
    /\ \A b \in Bytes, way \in Ways : b[way] \in Nat
    /\ \A a, b \in Bytes, way \in Ways : Plus(a, b)[way] = a[way] + b[way]
    /\ ZeroBytes \in Bytes /\ \A way \in Ways : ZeroBytes[way] = 0
    /\ \A a, b \in Bytes : (\A way \in Ways : a[way] = b[way]) => a = b
  BY DEF Bytes, Ways, Plus, ZeroBytes

(* An event carries a number of bytes.                                     *)
LEMMA ShareNat ==
    ASSUME NEW e \in Event, NEW c, NEW way \in Ways PROVE Share(e, c, way) \in Nat
  BY BytesWays DEF Share, Event

(* What the channel carries of a connection is a number of bytes.          *)
LEMMA SentNat ==
    ASSUME NEW q \in Seq(Event), NEW c, NEW way \in Ways PROVE Sent(q, c, way) \in Nat
  <1>1. IsFiniteSet(DOMAIN q) /\ \A i \in DOMAIN q : q[i] \in Event
    BY LenProperties, FS_Interval, ElementOfSeq
  <1> DEFINE f == [i \in DOMAIN q |-> Share(q[i], c, way)]
  <1>2. \A i \in DOMAIN q : f[i] \in Nat
    BY <1>1, ShareNat
  <1> HIDE DEF f
  <1>3. SumFunctionOnSet(f, DOMAIN q) \in Nat
    BY <1>1, <1>2, SumNat
  <1> QED
    BY <1>3 DEF Sent, f

(* An empty channel carries none.                                          *)
LEMMA SentEmpty ==
    ASSUME NEW c, NEW way PROVE Sent(<<>>, c, way) = 0
  <1>1. DOMAIN <<>> = {} /\ IsFiniteSet({})
    BY FS_EmptySet
  <1>2. \A f : SumFunctionOnSet(f, {}) = 0
    BY <1>1, SumPick
  <1> QED
    BY <1>1, <1>2 DEF Sent

(* An event that is sent adds its share.                                   *)
LEMMA SentOne ==
    ASSUME NEW q \in Seq(Event), NEW e \in Event, NEW c, NEW way \in Ways
    PROVE  Sent(q \o <<e>>, c, way) = Sent(q, c, way) + Share(e, c, way)
  <1> DEFINE n == Len(q)  p == q \o <<e>>
             f == [i \in DOMAIN p |-> Share(p[i], c, way)]
             g == [i \in DOMAIN q |-> Share(q[i], c, way)]
  <1>1. <<e>> \in Seq(Event) /\ Len(<<e>>) = 1 /\ <<e>>[1] = e
    OBVIOUS
  <1>2. /\ n \in Nat /\ DOMAIN q = 1..n /\ DOMAIN p = 1..(n + 1) /\ p \in Seq(Event)
        /\ p[n + 1] = e /\ \A i \in 1..n : p[i] = q[i]
    BY <1>1, ConcatIndex
  <1>3. \A i \in 1..(n + 1) : p[i] \in Event
    BY <1>2, ElementOfSeq
  <1> HIDE DEF n, p
  <1>4. \A i \in 1..(n + 1) : f[i] \in Nat
    BY <1>2, <1>3, ShareNat
  <1>5. f[n + 1] = Share(e, c, way) /\ \A i \in 1..n : f[i] = g[i] /\ f[i] \in Nat
    BY <1>2, <1>4
  <1>6. Sent(p, c, way) = SumFunctionOnSet(f, 1..(n + 1)) /\ Sent(q, c, way) = SumFunctionOnSet(g, 1..n)
    BY <1>2 DEF Sent
  <1> HIDE DEF f, g
  <1>7. IsFiniteSet(1..n)
    BY <1>2, FS_Interval
  <1>8. SumFunctionOnSet(f, 1..n) = SumFunctionOnSet(g, 1..n)
    BY <1>5, <1>7, SumSame
  <1>9. SumFunctionOnSet(f, 1..(n + 1)) = f[n + 1] + SumFunctionOnSet(f, 1..n)
    BY <1>2, <1>4, SumLast
  <1>10. Share(e, c, way) \in Nat /\ Sent(q, c, way) \in Nat
    BY ShareNat, SentNat
  <1> QED
    BY <1>5, <1>6, <1>8, <1>9, <1>10 DEF p

(* An event that is received takes its share out.                          *)
LEMMA SentTail ==
    ASSUME NEW q \in Seq(Event), q # <<>>, NEW c, NEW way \in Ways
    PROVE  Sent(q, c, way) = Share(Head(q), c, way) + Sent(Tail(q), c, way)
  <1> DEFINE n == Len(q) - 1  p == Tail(q)
             f == [i \in DOMAIN q |-> Share(q[i], c, way)]
             g == [i \in DOMAIN p |-> Share(p[i], c, way)]
  <1>1. /\ n \in Nat /\ DOMAIN q = 1..(n + 1) /\ DOMAIN p = 1..n /\ Head(q) = q[1]
        /\ \A i \in 1..n : p[i] = q[i + 1]
    BY TailIndex
  <1>2. \A i \in 1..(n + 1) : q[i] \in Event
    BY <1>1, ElementOfSeq
  <1> HIDE DEF n, p
  <1>3. \A i \in 1..(n + 1) : f[i] \in Nat
    BY <1>1, <1>2, ShareNat
  <1>4. f[1] = Share(Head(q), c, way) /\ \A i \in 1..n : g[i] = f[i + 1]
    BY <1>1
  <1>5. Sent(q, c, way) = SumFunctionOnSet(f, 1..(n + 1)) /\ Sent(p, c, way) = SumFunctionOnSet(g, 1..n)
    BY <1>1 DEF Sent
  <1> HIDE DEF f, g
  <1>6. SumFunctionOnSet(f, 1..(n + 1)) = f[1] + SumFunctionOnSet(g, 1..n)
    BY <1>1, <1>3, <1>4, SumFirst
  <1> QED
    BY <1>4, <1>5, <1>6 DEF p

(* What a handle sends of its counters.                                    *)
LEMMA SentCounted ==
    ASSUME TypeOK, NEW c \in Conns, NEW d, NEW way \in Ways, NEW q \in Seq(Event)
    PROVE  Sent(q \o Counted(c), d, way) = Sent(q, d, way) + (IF d = c THEN pend[c][way] ELSE 0)
  <1> DEFINE e == [uuid |-> c, kind |-> "Count", bytes |-> pend[c]]
  <1>1. pend[c] \in Bytes /\ pend[c][way] \in Nat /\ Sent(q, d, way) \in Nat
    BY BytesWays, SentNat DEF TypeOK
  <1>2. CASE pend[c] = ZeroBytes
    <2>1. q \o Counted(c) = q /\ pend[c][way] = 0
      BY <1>2, BytesWays DEF Counted
    <2> QED
      BY <1>1, <2>1
  <1>3. CASE pend[c] # ZeroBytes
    <2>1. e \in Event /\ e.uuid = c /\ e.kind = "Count" /\ e.bytes = pend[c]
      BY <1>1 DEF Event, Kinds
    <2>2. Counted(c) = <<e>>
      BY <1>3 DEF Counted
    <2> HIDE DEF e
    <2>3. Share(e, d, way) = IF d = c THEN pend[c][way] ELSE 0
      BY <2>1 DEF Share
    <2> QED
      BY <2>1, <2>2, <2>3, SentOne
  <1> QED
    BY <1>2, <1>3

(* New, SetStopper and Close carry no bytes.                               *)
LEMMA SentMark ==
    ASSUME NEW q \in Seq(Event), NEW c \in Conns, NEW kind \in Kinds \ {"Count"}, NEW d, NEW way \in Ways
    PROVE  q \o <<Ev(c, kind)>> \in Seq(Event) /\ Sent(q \o <<Ev(c, kind)>>, d, way) = Sent(q, d, way)
  <1>1. Ev(c, kind) \in Event /\ Ev(c, kind).kind # "Count"
    BY BytesWays DEF Ev, Event
  <1>2. Share(Ev(c, kind), d, way) = 0
    BY <1>1 DEF Share
  <1>3. <<Ev(c, kind)>> \in Seq(Event)
    BY <1>1
  <1> QED
    BY <1>1, <1>2, <1>3, SentOne, SentNat, ConcatIndex

(* A step that changes what one connection owes and moved.                 *)
LEMMA TotalKept ==
    ASSUME TypeOK, TypeOK', Accounts, NEW c \in Conns, NEW way \in Ways,
           \A d \in Conns \ {c} : Owed(d, way)' = Owed(d, way) /\ moved'[d] = moved[d],
           total'[way] + Owed(c, way)' + moved[c][way] = total[way] + Owed(c, way) + moved'[c][way]
    PROVE  total'[way] + AllOwed(way)' = AllMoved(way)'
  <1> DEFINE f == [d \in Conns |-> Owed(d, way)]  h == [d \in Conns |-> Owed(d, way)']
             m == [d \in Conns |-> moved[d][way]]  k == [d \in Conns |-> moved'[d][way]]
  <1>1. \A d \in Conns : Owed(d, way) \in Nat /\ Owed(d, way)' \in Nat
    <2> TAKE d \in Conns
    <2>1. pend[d][way] \in Nat /\ pend'[d][way] \in Nat
      BY BytesWays DEF TypeOK
    <2>2. Sent(queue, d, way) \in Nat /\ Sent(queue', d, way) \in Nat
      BY SentNat DEF TypeOK
    <2> QED
      BY <2>1, <2>2 DEF Owed
  <1>2. \A d \in Conns : moved[d][way] \in Nat /\ moved'[d][way] \in Nat
    BY BytesWays DEF TypeOK
  <1>3. total[way] \in Nat /\ total'[way] \in Nat
    BY BytesWays DEF TypeOK
  <1>4. /\ \A d \in Conns : f[d] \in Nat /\ h[d] \in Nat
        /\ \A d \in Conns : m[d] \in Nat /\ k[d] \in Nat
        /\ \A d \in Conns \ {c} : f[d] = h[d] /\ m[d] = k[d]
    BY <1>1, <1>2
  <1>5. f[c] = Owed(c, way) /\ h[c] = Owed(c, way)' /\ m[c] = moved[c][way] /\ k[c] = moved'[c][way]
    OBVIOUS
  <1>6. /\ AllOwed(way) = SumFunctionOnSet(f, Conns) /\ AllOwed(way)' = SumFunctionOnSet(h, Conns)
        /\ AllMoved(way) = SumFunctionOnSet(m, Conns) /\ AllMoved(way)' = SumFunctionOnSet(k, Conns)
    BY DEF AllOwed, AllMoved
  <1> HIDE DEF f, h, m, k
  <1>7. /\ SumFunctionOnSet(f, Conns) + h[c] = SumFunctionOnSet(h, Conns) + f[c]
        /\ SumFunctionOnSet(m, Conns) + k[c] = SumFunctionOnSet(k, Conns) + m[c]
    BY <1>4, ConnsAssumption, SumUpdate
  <1>8. /\ SumFunctionOnSet(f, Conns) \in Nat /\ SumFunctionOnSet(h, Conns) \in Nat
        /\ SumFunctionOnSet(m, Conns) \in Nat /\ SumFunctionOnSet(k, Conns) \in Nat
    BY <1>4, ConnsAssumption, SumNat
  <1>9. total[way] + SumFunctionOnSet(f, Conns) = SumFunctionOnSet(m, Conns)
    BY <1>6 DEF Accounts
  <1>10. SumFunctionOnSet(h, Conns) = SumFunctionOnSet(f, Conns) + h[c] - f[c]
         /\ SumFunctionOnSet(k, Conns) = SumFunctionOnSet(m, Conns) + k[c] - m[c]
    BY <1>4, <1>7, <1>8
  <1>11. total'[way] + h[c] + m[c] = total[way] + f[c] + k[c]
    BY <1>5
  <1> QED
    BY <1>3, <1>4, <1>6, <1>8, <1>9, <1>10, <1>11

(* A step of the handle of c that moves n bytes.                           *)
LEMMA HandleAccounts ==
    ASSUME Inv, TypeOK', Accounts, NEW c \in Conns, NEW n \in Bytes,
           owner[c] \in Alive, owner'[c] # "none",
           \A d \in Conns \ {c} : owner'[d] = owner[d] /\ pend'[d] = pend[d],
           UNCHANGED <<entry, total>>, moved' = [moved EXCEPT ![c] = Plus(@, n)],
           \A way \in Ways : Owed(c, way)' = Owed(c, way) + n[way],
           \A d \in Conns \ {c}, way \in Ways : Sent(queue', d, way) = Sent(queue, d, way),
           \A d \in Conns : Has(queue', d, "New") <=> Has(queue, d, "New"),
           \A d \in Conns \ {c} : Has(queue', d, "Count") <=> Has(queue, d, "Count")
    PROVE  Accounts'
  <1>1. TypeOK /\ \A d \in Conns : ConnInv(d) /\ Account(d)
    BY DEF Inv, Accounts
  <1>2. moved'[c] = Plus(moved[c], n) /\ \A d \in Conns \ {c} : moved'[d] = moved[d]
    BY <1>1 DEF TypeOK
  <1>3. \A way \in Ways : /\ moved'[c][way] = moved[c][way] + n[way] /\ n[way] \in Nat
                           /\ moved[c][way] \in Nat /\ total[way] \in Nat
    BY <1>1, <1>2, BytesWays DEF TypeOK
  <1>4. \A way \in Ways : Owed(c, way) \in Nat
    <2> TAKE way \in Ways
    <2>1. pend[c][way] \in Nat /\ Sent(queue, c, way) \in Nat
      BY <1>1, BytesWays, SentNat DEF TypeOK
    <2> QED
      BY <2>1 DEF Owed
  <1>5. \A d \in Conns \ {c}, way \in Ways : Owed(d, way)' = Owed(d, way)
    BY DEF Owed
  <1>6. ASSUME NEW way \in Ways PROVE total'[way] + AllOwed(way)' = AllMoved(way)'
    <2>1. total'[way] + Owed(c, way)' + moved[c][way] = total[way] + Owed(c, way) + moved'[c][way]
      BY <1>3, <1>4
    <2> QED
      BY <1>1, <1>2, <1>5, <2>1, TotalKept
  <1>7. ASSUME NEW d \in Conns \ {c} PROVE Account(d)'
    BY <1>1, <1>2, <1>5 DEF Account
  <1>8. Account(c)'
    <2>1. entry[c].listed \/ Has(queue, c, "New")
      BY <1>1 DEF ConnInv
    <2>2. \A way \in Ways : entry[c].listed => entry[c].bytes[way] \in Nat
      BY <1>1, BytesWays DEF TypeOK, Entry
    <2>3. ASSUME NEW way \in Ways
          PROVE  /\ entry[c].listed => entry[c].bytes[way] + Owed(c, way)' = moved'[c][way]
                 /\ Has(queue, c, "New") => Owed(c, way)' = moved'[c][way]
      <3>1. /\ entry[c].listed => entry[c].bytes[way] + Owed(c, way) = moved[c][way]
            /\ Has(queue, c, "New") => Owed(c, way) = moved[c][way]
        BY <1>1 DEF Account
      <3>2. Owed(c, way)' = Owed(c, way) + n[way]
        OBVIOUS
      <3> QED
        BY <1>3, <1>4, <2>2, <3>1, <3>2
    <2>4. entry[c].listed => ~Has(queue, c, "New")
      BY <1>1 DEF Account
    <2> QED
      BY <2>1, <2>3, <2>4 DEF Account
  <1> QED
    BY <1>6, <1>7, <1>8 DEF Accounts

(* A step that moves no byte and nothing in the channel.                   *)
LEMMA AccountsStay ==
    ASSUME Accounts, UNCHANGED <<owner, pend, moved, queue, total>>,
           \A c \in Conns : entry'[c].listed = entry[c].listed /\ entry'[c].bytes = entry[c].bytes
    PROVE  Accounts'
  <1>1. \A c \in Conns, way \in Ways : Owed(c, way)' = Owed(c, way)
    BY DEF Owed
  <1>2. \A c \in Conns : Account(c)'
    BY <1>1 DEF Account, Accounts
  <1>3. \A way \in Ways : AllOwed(way)' = AllOwed(way) /\ AllMoved(way)' = AllMoved(way)
    BY <1>1 DEF AllOwed, AllMoved
  <1> QED
    BY <1>2, <1>3 DEF Accounts

(* A table that is empty owes nothing.                                     *)
LEMMA AccountsInit == Init => Accounts
  <1> SUFFICES ASSUME Init PROVE Accounts
    OBVIOUS
  <1>1. TypeOK
    BY TypeInit
  <1>2. DOMAIN queue = {} /\ \A c \in Conns : pend[c] = ZeroBytes /\ moved[c] = ZeroBytes /\ ~entry[c].listed
    BY DEF Init, NoEntry
  <1>3. \A c \in Conns, way \in Ways : pend[c][way] = 0 /\ moved[c][way] = 0 /\ Sent(queue, c, way) = 0
    BY <1>2, BytesWays, SentEmpty DEF Init
  <1>4. \A c \in Conns, way \in Ways : Owed(c, way) = moved[c][way] /\ moved[c][way] \in Nat
    BY <1>3 DEF Owed
  <1>5. ASSUME NEW way \in Ways PROVE total[way] + AllOwed(way) = AllMoved(way)
    <2>1. [c \in Conns |-> Owed(c, way)] = [c \in Conns |-> moved[c][way]]
      BY <1>4
    <2>2. AllOwed(way) = AllMoved(way)
      BY <2>1 DEF AllOwed, AllMoved
    <2>3. AllMoved(way) \in Nat
      <3> DEFINE m == [c \in Conns |-> moved[c][way]]
      <3>1. \A c \in Conns : m[c] \in Nat
        BY <1>4
      <3> HIDE DEF m
      <3>2. SumFunctionOnSet(m, Conns) \in Nat
        BY <3>1, ConnsAssumption, SumNat
      <3> QED
        BY <3>2 DEF AllMoved, m
    <2>4. total[way] = 0
      BY BytesWays DEF Init
    <2> QED
      BY <2>2, <2>3, <2>4
  <1>6. \A c \in Conns : Account(c)
    BY <1>2, <1>4 DEF Account, Has
  <1> QED
    BY <1>5, <1>6 DEF Accounts

(* Every step keeps the accounts.                                          *)
LEMMA AccountsNext == Inv /\ Accounts /\ [Next]_vars => Accounts'
  <1> SUFFICES ASSUME Inv, Accounts, [Next]_vars PROVE Accounts'
    OBVIOUS
  <1>1. TypeOK /\ TypeOK' /\ queue \in Seq(Event) /\ \A d \in Conns : ConnInv(d) /\ Account(d)
    BY TypeNext DEF Inv, TypeOK, Accounts
  <1>2. \A d \in Conns : pend[d] \in Bytes /\ \A way \in Ways : pend[d][way] \in Nat /\ Sent(queue, d, way) \in Nat
    BY <1>1, BytesWays, SentNat DEF TypeOK
  <1>3. ASSUME NEW c \in Conns, NewConnection(c) PROVE Accounts'
    <2> DEFINE p == queue \o <<Ev(c, "New")>>
    <2>1. queue' = p \o <<Ev(c, "SetStopper")>>
      <3>1. queue' = queue \o <<Ev(c, "New"), Ev(c, "SetStopper")>>
        BY <1>3 DEF NewConnection, Opened
      <3>2. Ev(c, "New") \in Event /\ Ev(c, "SetStopper") \in Event
        BY DEF Ev, Event, Kinds, ZeroBytes, Bytes
      <3> QED
        BY <1>1, <3>1, <3>2
    <2>2. \A d \in Conns, way \in Ways : Sent(queue', d, way) = Sent(queue, d, way)
      <3> TAKE d \in Conns, way \in Ways
      <3>1. "New" \in Kinds \ {"Count"} /\ "SetStopper" \in Kinds \ {"Count"}
        BY DEF Kinds
      <3>2. p \in Seq(Event) /\ Sent(p, d, way) = Sent(queue, d, way)
        BY <1>1, <3>1, SentMark
      <3> HIDE DEF p
      <3>3. Sent(p \o <<Ev(c, "SetStopper")>>, d, way) = Sent(p, d, way)
        BY <3>1, <3>2, SentMark
      <3> QED
        BY <2>1, <3>2, <3>3
    <2>3. /\ owner[c] = "none" /\ UNCHANGED <<pend, moved, entry, total>>
          /\ owner' = [owner EXCEPT ![c] = "open"]
      BY <1>3 DEF NewConnection
    <2>4. \A d \in Conns, way \in Ways : Owed(d, way)' = Owed(d, way)
      BY <2>2, <2>3 DEF Owed
    <2>5. \A way \in Ways : AllOwed(way)' = AllOwed(way) /\ AllMoved(way)' = AllMoved(way)
      BY <2>3, <2>4 DEF AllOwed, AllMoved
    <2>6. \A d \in Conns \ {c} : \A kind : Has(queue', d, kind) <=> Has(queue, d, kind)
      <3> SUFFICES ASSUME NEW d \in Conns \ {c}, NEW kind PROVE Has(queue', d, kind) <=> Has(queue, d, kind)
        OBVIOUS
      <3>1. Opened(c) \in Seq(Event) /\ ~Has(Opened(c), d, kind)
        BY DEF Opened, Has, Ev, Event, Kinds, ZeroBytes, Bytes
      <3>2. queue' = queue \o Opened(c)
        BY <1>3 DEF NewConnection
      <3> QED
        BY <1>1, <3>1, <3>2, HasConcat
    <2>7. ASSUME NEW d \in Conns \ {c} PROVE Account(d)'
      <3>1. owner'[d] = owner[d]
        BY <1>1, <2>3 DEF TypeOK
      <3> QED
        BY <1>1, <2>3, <2>4, <2>6, <3>1 DEF Account
    <2>8. Account(c)'
      <3>1. ~entry[c].listed /\ owner'[c] = "open"
        BY <1>1, <2>3 DEF ConnInv, TypeOK
      <3>2. \A way \in Ways : Owed(c, way) = moved[c][way]
        BY <1>1, <2>3 DEF Account
      <3>3. Has(queue', c, "New")
        <4>1. Opened(c) \in Seq(Event) /\ Has(Opened(c), c, "New")
          <5>1. Opened(c) \in Seq(Event) /\ 1 \in DOMAIN Opened(c) /\ Opened(c)[1] = Ev(c, "New")
            BY DEF Opened, Ev, Event, Kinds, ZeroBytes, Bytes
          <5> QED
            BY <5>1 DEF Has, Ev
        <4>2. queue' = queue \o Opened(c)
          BY <1>3 DEF NewConnection
        <4> QED
          BY <1>1, <4>1, <4>2, HasConcat
      <3> QED
        BY <2>3, <2>4, <3>1, <3>2, <3>3 DEF Account
    <2> QED
      BY <2>3, <2>5, <2>7, <2>8 DEF Accounts
  \* what a handle that sends its counters, and moves n bytes, owes
  <1>4. ASSUME NEW c \in Conns, NEW n \in Bytes, owner[c] = "open", owner'[c] # "none",
               \A d \in Conns \ {c} : owner'[d] = owner[d],
               UNCHANGED <<entry, total>>, moved' = [moved EXCEPT ![c] = Plus(@, n)],
               queue' = IF beat[c] THEN queue \o Counted(c) ELSE queue,
               pend' = [pend EXCEPT ![c] = IF beat[c] THEN n ELSE Plus(@, n)]
        PROVE  Accounts'
    <2>1. \A d \in Conns, way \in Ways : Sent(queue', d, way) =
              Sent(queue, d, way) + (IF beat[c] /\ d = c THEN pend[c][way] ELSE 0)
      BY <1>1, <1>2, <1>4, SentCounted
    <2>2. /\ pend'[c] = (IF beat[c] THEN n ELSE Plus(pend[c], n))
          /\ \A d \in Conns \ {c} : pend'[d] = pend[d]
      BY <1>1, <1>4 DEF TypeOK
    <2>3. \A way \in Ways : n[way] \in Nat /\ Plus(pend[c], n)[way] = pend[c][way] + n[way]
      BY <1>2, BytesWays
    <2>4. \A way \in Ways : Owed(c, way)' = Owed(c, way) + n[way]
      BY <1>2, <2>1, <2>2, <2>3 DEF Owed
    <2>5. PICK s \in Seq(Event) : /\ queue' = queue \o s /\ OnlyOf(s, c)
                                  /\ \A i \in DOMAIN s : s[i].kind = "Count"
      BY <1>1, <1>4, FlushCounts DEF Counting
    <2>6. \A d \in Conns : /\ ~Has(s, d, "New")
                           /\ d # c => ~Has(s, d, "Count")
      BY <2>5 DEF Has, OnlyOf
    <2>7. \A d \in Conns : /\ Has(queue', d, "New") <=> Has(queue, d, "New")
                           /\ d # c => (Has(queue', d, "Count") <=> Has(queue, d, "Count"))
      BY <1>1, <2>5, <2>6, HasConcat
    <2>8. \A d \in Conns \ {c}, way \in Ways : Sent(queue', d, way) = Sent(queue, d, way)
      BY <1>2, <2>1
    <2> QED
      BY <1>1, <1>4, <2>2, <2>4, <2>7, <2>8, HandleAccounts DEF Alive
  <1>5. ASSUME NEW c \in Conns, PollAborted(c) \/ PollIdle(c) PROVE Accounts'
    <2>1. /\ owner[c] = "open" /\ Flush(c) /\ UNCHANGED <<entry, total, moved>>
          /\ UNCHANGED owner \/ owner' = [owner EXCEPT ![c] = "aborted"]
      BY <1>5 DEF PollAborted, PollIdle
    <2>2. owner'[c] # "none" /\ \A d \in Conns \ {c} : owner'[d] = owner[d]
      BY <1>1, <2>1 DEF TypeOK
    <2>3. \A b \in Bytes : Plus(b, ZeroBytes) = b
      BY DEF Plus, ZeroBytes, Bytes
    <2>4. moved' = [moved EXCEPT ![c] = Plus(@, ZeroBytes)]
      BY <1>1, <2>1, <2>3 DEF TypeOK
    <2>5. pend' = [pend EXCEPT ![c] = IF beat[c] THEN ZeroBytes ELSE Plus(@, ZeroBytes)]
      BY <1>1, <2>1, <2>3 DEF TypeOK, Flush
    <2>6. queue' = IF beat[c] THEN queue \o Counted(c) ELSE queue
      BY <2>1 DEF Flush
    <2> QED
      BY <1>4, <2>1, <2>2, <2>4, <2>5, <2>6, BytesWays
  <1>6. ASSUME NEW c \in Conns, PollRead(c) PROVE Accounts'
    <2>1. [down |-> 1, up |-> 0] \in Bytes
      BY DEF Bytes
    <2> QED
      BY <1>4, <1>6, <2>1 DEF PollRead, Moves
  <1>7. ASSUME NEW c \in Conns, PollWrite(c) PROVE Accounts'
    <2> DEFINE n == [down |-> 0, up |-> 1]
    <2>1. n \in Bytes
      BY DEF Bytes
    <2>2. /\ owner[c] = "open" /\ UNCHANGED <<owner, queue, entry, total>>
          /\ moved' = [moved EXCEPT ![c] = Plus(@, n)] /\ pend' = [pend EXCEPT ![c] = Plus(@, n)]
      BY <1>7 DEF PollWrite, Moves
    <2> HIDE DEF n
    <2>3. pend'[c] = Plus(pend[c], n) /\ \A d \in Conns \ {c} : pend'[d] = pend[d]
      BY <1>1, <2>2 DEF TypeOK
    <2>4. \A way \in Ways : n[way] \in Nat /\ Plus(pend[c], n)[way] = pend[c][way] + n[way]
      BY <1>2, <2>1, BytesWays
    <2>5. \A way \in Ways : Owed(c, way)' = Owed(c, way) + n[way]
      BY <1>2, <2>2, <2>3, <2>4 DEF Owed
    <2> QED
      BY <1>1, <2>1, <2>2, <2>3, <2>5, HandleAccounts DEF Alive
  <1>8. ASSUME NEW c \in Conns, DropConnection(c) PROVE Accounts'
    <2> DEFINE p == queue \o Counted(c)
    <2>1. /\ owner[c] \in Alive /\ owner' = [owner EXCEPT ![c] = "dropped"]
          /\ queue' = p \o <<Ev(c, "Close")>> /\ pend' = [pend EXCEPT ![c] = ZeroBytes]
          /\ UNCHANGED <<entry, total, moved>>
      BY <1>8 DEF DropConnection, Alive
    <2>2. /\ p \in Seq(Event)
          /\ \A d \in Conns, way \in Ways : Sent(p, d, way) = Sent(queue, d, way) + (IF d = c THEN pend[c][way] ELSE 0)
      BY <1>1, CountedType, ConcatIndex, SentCounted
    <2>3. \A d \in Conns, way \in Ways : Sent(queue', d, way) = Sent(p, d, way)
      <3> HIDE DEF p
      <3> QED
        BY <2>1, <2>2, SentMark DEF Kinds
    <2>4. /\ owner'[c] = "dropped" /\ pend'[c] = ZeroBytes
          /\ \A d \in Conns \ {c} : owner'[d] = owner[d] /\ pend'[d] = pend[d]
      BY <1>1, <2>1 DEF TypeOK
    <2>5. \A way \in Ways : Owed(c, way)' = Owed(c, way) + ZeroBytes[way]
      <3> TAKE way \in Ways
      <3>1. Sent(queue', c, way) = Sent(queue, c, way) + pend[c][way]
        BY <2>2, <2>3
      <3>2. pend'[c][way] = 0 /\ ZeroBytes[way] = 0 /\ pend[c][way] \in Nat /\ Sent(queue, c, way) \in Nat
        BY <1>2, <2>4, BytesWays
      <3> QED
        BY <3>1, <3>2 DEF Owed
    <2>6. moved' = [moved EXCEPT ![c] = Plus(@, ZeroBytes)]
      <3>1. \A b \in Bytes : Plus(b, ZeroBytes) = b
        BY DEF Plus, ZeroBytes, Bytes
      <3> QED
        BY <1>1, <2>1, <3>1 DEF TypeOK
    <2>7. \A d \in Conns : /\ Has(queue', d, "New") <=> Has(queue, d, "New")
                           /\ d # c => (Has(queue', d, "Count") <=> Has(queue, d, "Count"))
      <3> TAKE d \in Conns
      <3>1. /\ Counted(c) \in Seq(Event) /\ ~Has(Counted(c), d, "New")
            /\ d # c => ~Has(Counted(c), d, "Count")
        BY <1>1, CountedType DEF Has, OnlyOf
      <3>2. /\ <<Ev(c, "Close")>> \in Seq(Event) /\ ~Has(<<Ev(c, "Close")>>, d, "New")
            /\ ~Has(<<Ev(c, "Close")>>, d, "Count")
        BY DEF Has, Ev, Event, Kinds, ZeroBytes, Bytes
      <3>3. /\ Has(p, d, "New") <=> Has(queue, d, "New")
            /\ d # c => (Has(p, d, "Count") <=> Has(queue, d, "Count"))
        BY <1>1, <3>1, HasConcat
      <3> HIDE DEF p
      <3> QED
        BY <2>1, <2>2, <3>2, <3>3, HasConcat
    <2>8. \A d \in Conns \ {c}, way \in Ways : Sent(queue', d, way) = Sent(queue, d, way)
      BY <1>2, <2>2, <2>3
    <2> QED
      BY <1>1, <2>1, <2>4, <2>5, <2>6, <2>7, <2>8, BytesWays, HandleAccounts
  <1>9. CASE InputEvent
    <2>1. queue # <<>> /\ queue' = Tail(queue) /\ UNCHANGED <<owner, pend, moved>>
      BY <1>9 DEF InputEvent
    <2>e. PICK e \in Event : e = Head(queue)
      BY <1>1, <2>1, TailIndex
    <2>c. PICK c \in Conns : c = e.uuid
      BY DEF Event
    <2>2. e.kind \in Kinds /\ e.bytes \in Bytes
      BY DEF Event
    <2>3. \/ e.kind = "New" /\ InputNew(c)
          \/ e.kind = "SetStopper" /\ InputSetStopper(c)
          \/ e.kind = "Count" /\ InputCount(c, e.bytes)
          \/ e.kind = "Close" /\ InputClose(c)
      BY <1>9, <2>e, <2>c DEF InputEvent
    <2>4. \A d \in Conns, way \in Ways :
              Sent(queue, d, way) = Share(e, d, way) + Sent(queue', d, way)
      BY <1>1, <2>1, <2>e, SentTail
    <2>5. \A d \in Conns, way \in Ways : Share(e, d, way) \in Nat /\ Sent(queue', d, way) \in Nat
      BY <1>1, ShareNat, SentNat DEF TypeOK
    <2>6. /\ Ordered(queue, c)
          /\ \A d \in Conns : \A kind : Has(queue, d, kind) <=> (c = d /\ e.kind = kind) \/ Has(queue', d, kind)
      BY <1>1, <2>1, <2>e, <2>c, HasTail DEF ConnInv
    <2>7. /\ e.kind = "New" => ~Has(queue', c, "New")
          /\ e.kind # "New" => ~Has(queue, c, "New")
          /\ e.kind = "Close" => Silent(queue', c)
      BY <1>1, <2>1, <2>e, <2>c, <2>6, OrderedTail
    <2>8. owner[c] # "none"
      <3>1. ~Silent(queue, c)
        BY <1>1, <2>1, <2>e, <2>c, TailIndex DEF Silent
      <3> QED
        BY <1>1, <3>1 DEF ConnInv
    <2>9. ASSUME NEW d \in Conns, NEW way \in Ways
          PROVE  Owed(d, way) = Owed(d, way)' + Share(e, d, way) /\ Owed(d, way)' \in Nat
      <3>1. pend[d][way] \in Nat /\ pend'[d][way] = pend[d][way]
        BY <1>2, <2>1
      <3> QED
        BY <2>4, <2>5, <3>1 DEF Owed
    <2>10. \A d \in Conns \ {c}, way \in Ways : Share(e, d, way) = 0 /\ Owed(d, way)' = Owed(d, way)
      <3> TAKE d \in Conns \ {c}, way \in Ways
      <3>1. Share(e, d, way) = 0
        BY <2>c DEF Share
      <3> QED
        BY <2>9, <3>1
    <2>11. ASSUME NEW d \in Conns \ {c} PROVE Account(d)'
      <3>1. entry'[d] = entry[d]
        BY <1>1, <2>2, <2>3 DEF InputNew, InputSetStopper, InputCount, InputClose, TypeOK
      <3> QED
        BY <1>1, <2>1, <2>6, <2>10, <3>1 DEF Account
    <2>12. entry \in [Conns -> Entry] /\ entry[c] \in Entry
      BY <1>1, <2>2 DEF TypeOK
    \* an event without bytes
    <2>13. ASSUME e.kind # "Count", UNCHANGED total PROVE \A way \in Ways :
               Owed(c, way)' = Owed(c, way) /\ total'[way] + AllOwed(way)' = AllMoved(way)'
      <3> TAKE way \in Ways
      <3>1. Share(e, c, way) = 0
        BY <2>13 DEF Share
      <3>2. Owed(c, way)' = Owed(c, way)
        BY <2>2, <2>9, <3>1
      <3> QED
        BY <1>1, <2>1, <2>2, <2>10, <2>13, <3>2, TotalKept
    <2>14. CASE e.kind = "New" /\ InputNew(c)
      <3>1. /\ entry'[c].listed /\ entry'[c].bytes = ZeroBytes /\ UNCHANGED total
            /\ Has(queue, c, "New")
        BY <2>2, <2>6, <2>12, <2>14 DEF InputNew, NoEntry
      <3>2. \A way \in Ways : ZeroBytes[way] = 0 /\ Owed(c, way) = moved[c][way] /\ Owed(c, way)' \in Nat
        BY <1>1, <2>2, <2>9, <3>1, BytesWays DEF Account
      <3>3. Account(c)'
        BY <2>1, <2>7, <2>8, <2>13, <2>14, <3>1, <3>2 DEF Account
      <3> QED
        BY <2>11, <2>13, <2>14, <3>1, <3>3 DEF Accounts
    <2>15. CASE e.kind = "SetStopper" /\ InputSetStopper(c)
      <3>1. entry'[c].listed = entry[c].listed /\ entry'[c].bytes = entry[c].bytes /\ UNCHANGED total
        BY <2>2, <2>12, <2>15 DEF InputSetStopper, Entry
      <3>2. Account(c)'
        BY <1>1, <2>1, <2>2, <2>6, <2>7, <2>8, <2>13, <2>15, <3>1 DEF Account
      <3> QED
        BY <2>11, <2>13, <2>15, <3>1, <3>2 DEF Accounts
    <2>16. CASE e.kind = "Close" /\ InputClose(c)
      <3>1. ~entry'[c].listed /\ UNCHANGED total
        BY <2>2, <2>12, <2>16 DEF InputClose, NoEntry
      <3>2. \A kind : ~Has(queue', c, kind)
        BY <2>7, <2>16 DEF Silent, Has
      <3>3. Account(c)'
        BY <2>1, <2>8, <3>1, <3>2 DEF Account
      <3> QED
        BY <2>11, <2>13, <2>16, <3>1, <3>3 DEF Accounts
    <2>17. CASE e.kind = "Count" /\ InputCount(c, e.bytes)
      <3>1. entry[c].listed /\ ~Has(queue, c, "New") /\ ~Has(queue', c, "New")
        BY <1>1, <2>2, <2>6, <2>7, <2>17 DEF Account
      <3>2. /\ entry'[c].listed /\ entry'[c].bytes = Plus(entry[c].bytes, e.bytes)
            /\ total' = Plus(total, e.bytes)
        BY <2>2, <2>12, <2>17, <3>1 DEF InputCount, Entry
      <3>3. entry[c].bytes \in Bytes /\ total \in Bytes
        BY <1>1, <2>12 DEF Entry, TypeOK
      <3>4. ASSUME NEW way \in Ways
            PROVE  /\ total'[way] + AllOwed(way)' = AllMoved(way)'
                   /\ entry'[c].bytes[way] + Owed(c, way)' = moved'[c][way]
        <4>1. Share(e, c, way) = e.bytes[way]
          BY <2>c, <2>17 DEF Share
        <4>2. Owed(c, way) = Owed(c, way)' + e.bytes[way] /\ Owed(c, way)' \in Nat
          BY <2>2, <2>9, <4>1
        <4>3. /\ total'[way] = total[way] + e.bytes[way]
              /\ entry'[c].bytes[way] = entry[c].bytes[way] + e.bytes[way]
              /\ e.bytes[way] \in Nat /\ total[way] \in Nat /\ entry[c].bytes[way] \in Nat
          BY <2>2, <3>2, <3>3, BytesWays
        <4>4. moved'[c] = moved[c] /\ moved[c][way] \in Nat
          BY <1>1, <2>1, <2>2, BytesWays DEF TypeOK
        <4>5. total'[way] + Owed(c, way)' + moved[c][way] = total[way] + Owed(c, way) + moved'[c][way]
          BY <4>2, <4>3, <4>4
        <4>6. entry[c].bytes[way] + Owed(c, way) = moved[c][way]
          BY <1>1, <2>2, <3>1 DEF Account
        <4>7. entry'[c].bytes[way] + Owed(c, way)' = moved'[c][way]
          BY <4>2, <4>3, <4>4, <4>6
        <4> QED
          BY <1>1, <2>1, <2>2, <2>10, <4>5, <4>7, TotalKept
      <3>5. Account(c)'
        BY <2>1, <2>8, <3>1, <3>2, <3>4 DEF Account
      <3> QED
        BY <2>11, <3>4, <3>5 DEF Accounts
    <2> QED
      BY <2>3, <2>14, <2>15, <2>16, <2>17
  <1>10. CASE StopConnections \/ \E c \in Conns : StopConnection(c)
    <2>1. /\ UNCHANGED <<owner, pend, moved, queue, total>>
          /\ \E S \in SUBSET Conns : StopAll(S)
      BY <1>10 DEF StopConnections, StopConnection
    <2>2. \A c \in Conns : entry'[c].listed = entry[c].listed /\ entry'[c].bytes = entry[c].bytes
      BY <1>1, <2>1 DEF StopAll, TypeOK, Entry
    <2> QED
      BY <2>1, <2>2, AccountsStay
  <1>11. CASE \/ Heartbeat \/ BeginClosing \/ EndClosing \/ UNCHANGED vars
              \/ \E c \in Conns : Backpressure(c)
    <2>1. UNCHANGED <<owner, pend, moved, queue, entry, total>>
      BY <1>11 DEF Heartbeat, BeginClosing, EndClosing, vars, Backpressure
    <2> QED
      BY <2>1, AccountsStay
  <1> QED
    BY <1>3, <1>5, <1>6, <1>7, <1>8, <1>9, <1>10, <1>11 DEF Next, Handle

(* Whatever handles, heartbeats, drops and the recv_event task interleave, *)
(* the counters lose no byte and count none twice: what every connection   *)
(* moved is in its handle, in the channel or in the totals, and a listed   *)
(* connection shows its own share.                                         *)
THEOREM EveryByteCounted == Spec => []NothingLost
  <1>1. Inv /\ Accounts => NothingLost
    <2> SUFFICES ASSUME Inv, Accounts, NEW way \in Ways
                 PROVE  /\ total[way] + SumFunction([c \in Conns |-> pend[c][way] + InFlight(c, way)])
                              = SumFunction([c \in Conns |-> moved[c][way]])
                        /\ \A c \in Conns : entry[c].listed =>
                              entry[c].bytes[way] + pend[c][way] + InFlight(c, way) = moved[c][way]
      BY DEF NothingLost, Ways
    <2>1. \A c \in Conns : Owed(c, way) = pend[c][way] + InFlight(c, way)
      BY DEF Owed, Sent, InFlight, SumFunction
    <2>2. [c \in Conns |-> pend[c][way] + InFlight(c, way)] = [c \in Conns |-> Owed(c, way)]
      BY <2>1
    <2>3. /\ SumFunction([c \in Conns |-> Owed(c, way)]) = AllOwed(way)
          /\ SumFunction([c \in Conns |-> moved[c][way]]) = AllMoved(way)
      BY DEF SumFunction, AllOwed, AllMoved
    <2>4. total[way] + AllOwed(way) = AllMoved(way)
      BY DEF Accounts
    <2>5. ASSUME NEW c \in Conns, entry[c].listed
          PROVE  entry[c].bytes[way] + pend[c][way] + InFlight(c, way) = moved[c][way]
      <3>1. entry[c].bytes[way] + Owed(c, way) = moved[c][way]
        BY <2>5 DEF Accounts, Account
      <3>2. entry[c].bytes[way] \in Nat /\ pend[c][way] \in Nat /\ Sent(queue, c, way) \in Nat
        BY BytesWays, SentNat DEF Inv, TypeOK, Entry
      <3>3. InFlight(c, way) = Sent(queue, c, way)
        BY DEF Sent, InFlight, SumFunction
      <3> QED
        BY <3>1, <3>2, <3>3 DEF Owed
    <2> QED
      BY <2>2, <2>3, <2>4, <2>5
  <1> QED
    BY InvInit, InvNext, AccountsInit, AccountsNext, <1>1, PTL DEF Spec
=============================================================================
