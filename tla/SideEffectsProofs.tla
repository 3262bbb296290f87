-------------------------- MODULE SideEffectsProofs --------------------------
(***************************************************************************)
(* Theorems about SideEffects for every number of steps and crashes: type  *)
(* correctness for any number of managers, and, for a configuration in     *)
(* which one server changes the system, that a crash at any point loses no *)
(* effect and that effects are undone in reverse.                          *)
(***************************************************************************)
EXTENDS SideEffects, SequenceTheorems, TLAPS

(***************************************************************************)
(* Lists of entries.                                                       *)
(***************************************************************************)
(* Every list of entries has the steps of the set-up in their order.       *)
Increasing(es) == \A a, b \in DOMAIN es : a < b => es[a][2] < es[b][2]

(* Front and Last of a list that is not empty.                             *)
LEMMA FrontLast ==
    ASSUME NEW es \in Seq(Effects), es # <<>>
    PROVE  /\ Front(es) \in Seq(Effects) /\ Last(es) \in Effects
           /\ Len(es) \in Nat /\ Len(es) >= 1 /\ DOMAIN es = 1..Len(es)
           /\ DOMAIN Front(es) = 1..(Len(es) - 1) /\ Last(es) = es[Len(es)]
           /\ \A a \in 1..(Len(es) - 1) : Front(es)[a] = es[a]
           /\ ToSet(es) = ToSet(Front(es)) \cup {Last(es)}
  <1>1. Len(es) \in Nat /\ Len(es) >= 1 /\ DOMAIN es = 1..Len(es)
    BY LenProperties, EmptySeq
  <1>2. \A a \in 1..Len(es) : es[a] \in Effects
    BY <1>1, ElementOfSeq
  <1>3. /\ SubSeq(es, 1, Len(es) - 1) \in Seq(Effects)
        /\ Len(SubSeq(es, 1, Len(es) - 1)) = Len(es) - 1
        /\ \A a \in 1..(Len(es) - 1) : SubSeq(es, 1, Len(es) - 1)[a] = es[a]
    BY <1>1, <1>2
  <1>4. /\ Front(es) \in Seq(Effects) /\ DOMAIN Front(es) = 1..(Len(es) - 1)
        /\ \A a \in 1..(Len(es) - 1) : Front(es)[a] = es[a]
    BY <1>3, LenProperties DEF Front
  <1>5. Last(es) = es[Len(es)] /\ Last(es) \in Effects
    BY <1>1, <1>2 DEF Last
  <1>6. ASSUME NEW e \in ToSet(es) PROVE e \in ToSet(Front(es)) \cup {Last(es)}
    <2>1. PICK a \in DOMAIN es : e = es[a]
      BY DEF ToSet
    <2>2. CASE a = Len(es)
      BY <2>1, <2>2, <1>5
    <2>3. CASE a # Len(es)
      <3>1. a \in DOMAIN Front(es) /\ Front(es)[a] = e
        BY <2>1, <2>3, <1>1, <1>4
      <3> QED
        BY <3>1 DEF ToSet
    <2> QED
      BY <2>2, <2>3
  <1>7. ASSUME NEW e \in ToSet(Front(es)) \cup {Last(es)} PROVE e \in ToSet(es)
    <2>1. CASE e = Last(es)
      BY <2>1, <1>1, <1>5 DEF ToSet
    <2>2. CASE e \in ToSet(Front(es))
      <3>1. PICK a \in DOMAIN Front(es) : e = Front(es)[a]
        BY <2>2 DEF ToSet
      <3>2. a \in DOMAIN es /\ e = es[a]
        BY <3>1, <1>1, <1>4
      <3> QED
        BY <3>2 DEF ToSet
    <2> QED
      BY <2>1, <2>2
  <1> QED
    BY <1>1, <1>4, <1>5, <1>6, <1>7

LEMMA IncreasingFront ==
    ASSUME NEW es \in Seq(Effects), es # <<>>, Increasing(es)
    PROVE  Increasing(Front(es))
  <1> SUFFICES ASSUME NEW a \in DOMAIN Front(es), NEW b \in DOMAIN Front(es), a < b
               PROVE  Front(es)[a][2] < Front(es)[b][2]
    BY DEF Increasing
  <1>1. /\ Len(es) \in Nat /\ DOMAIN es = 1..Len(es) /\ DOMAIN Front(es) = 1..(Len(es) - 1)
        /\ \A k \in 1..(Len(es) - 1) : Front(es)[k] = es[k]
    BY FrontLast
  <1>2. a \in DOMAIN es /\ b \in DOMAIN es /\ Front(es)[a] = es[a] /\ Front(es)[b] = es[b]
    BY <1>1
  <1> QED
    BY <1>2 DEF Increasing

(* No entry of a list is later than the one that is undone first.          *)
LEMMA LastIsLatest ==
    ASSUME NEW es \in Seq(Effects), es # <<>>, Increasing(es), NEW e \in ToSet(es)
    PROVE  ~(Last(es)[2] < e[2])
  <1>1. PICK a \in DOMAIN es : e = es[a]
    BY DEF ToSet
  <1>2. a \in 1..Len(es) /\ Len(es) \in DOMAIN es /\ Len(es) \in Nat /\ Last(es) = es[Len(es)]
    BY <1>1, FrontLast
  <1>3. es[a] \in Effects /\ es[Len(es)] \in Effects
    BY <1>2, ElementOfSeq
  <1>4. es[a][2] \in Nat /\ es[Len(es)][2] \in Nat
    BY <1>3, StepsAssumption DEF Effects
  <1>5. a = Len(es) \/ es[a][2] < es[Len(es)][2]
    BY <1>1, <1>2 DEF Increasing
  <1> QED
    BY <1>1, <1>2, <1>4, <1>5

(* Registering an effect.                                                  *)
LEMMA AppendEntry ==
    ASSUME NEW es \in Seq(Effects), NEW e \in Effects
    PROVE  /\ Append(es, e) \in Seq(Effects)
           /\ ToSet(Append(es, e)) = ToSet(es) \cup {e}
           /\ Increasing(es) /\ (\A x \in ToSet(es) : x[2] < e[2]) => Increasing(Append(es, e))
  <1>1. /\ Append(es, e) \in Seq(Effects) /\ Len(es) \in Nat /\ DOMAIN es = 1..Len(es)
        /\ DOMAIN Append(es, e) = 1..(Len(es) + 1) /\ Append(es, e)[Len(es) + 1] = e
        /\ \A a \in 1..Len(es) : Append(es, e)[a] = es[a]
    BY AppendProperties, LenProperties
  <1>2. ASSUME NEW x \in ToSet(Append(es, e)) PROVE x \in ToSet(es) \cup {e}
    <2>1. PICK a \in DOMAIN Append(es, e) : x = Append(es, e)[a]
      BY DEF ToSet
    <2> QED
      BY <1>1, <2>1 DEF ToSet
  <1>3. ASSUME NEW x \in ToSet(es) \cup {e} PROVE x \in ToSet(Append(es, e))
    <2>1. CASE x = e
      <3>1. Len(es) + 1 \in DOMAIN Append(es, e)
        BY <1>1
      <3> QED
        BY <1>1, <2>1, <3>1 DEF ToSet
    <2>2. CASE x \in ToSet(es)
      <3>1. PICK a \in DOMAIN es : x = es[a]
        BY <2>2 DEF ToSet
      <3>2. a \in DOMAIN Append(es, e) /\ x = Append(es, e)[a]
        BY <1>1, <3>1
      <3> QED
        BY <3>2 DEF ToSet
    <2> QED
      BY <2>1, <2>2
  <1>4. ASSUME Increasing(es), \A x \in ToSet(es) : x[2] < e[2],
               NEW a \in DOMAIN Append(es, e), NEW b \in DOMAIN Append(es, e), a < b
        PROVE  Append(es, e)[a][2] < Append(es, e)[b][2]
    <2>1. a \in DOMAIN es /\ Append(es, e)[a] = es[a] /\ es[a] \in ToSet(es)
      BY <1>1, <1>4 DEF ToSet
    <2>2. CASE b = Len(es) + 1
      BY <1>1, <1>4, <2>1, <2>2
    <2>3. CASE b \in DOMAIN es
      BY <1>1, <1>4, <2>1, <2>3 DEF Increasing
    <2> QED
      BY <1>1, <2>2, <2>3
  <1> QED
    BY <1>1, <1>2, <1>3, <1>4 DEF Increasing

(* There is nothing in an empty list.                                      *)
LEMMA EmptyList == <<>> \in Seq(Effects) /\ ToSet(<<>>) = {} /\ Increasing(<<>>)
  BY DEF ToSet, Increasing

-----------------------------------------------------------------------------
(***************************************************************************)
(* Type correctness.                                                       *)
(***************************************************************************)

(* A manager in the middle of apply() has not passed its last step; TypeOK *)
(* alone does not say so.                                                  *)
StepOK == \A m \in Managers : pc[m] \in {"acted", "truncated"} => next[m] <= Steps

TypeInv == TypeOK /\ StepOK

(* A system without effects is well typed.                                 *)
LEMMA TypeInit == Init => TypeInv
  <1> SUFFICES ASSUME Init PROVE TypeInv
    OBVIOUS
  <1>1. file.kind = "absent" /\ file.entries = <<>>
    BY DEF Init, Absent
  <1>2. next \in [Managers -> 1..(Steps + 1)] /\ crashes \in 0..MaxCrashes
    BY StepsAssumption DEF Init
  <1>3. entries \in [Managers -> Seq(Effects)] /\ todo \in Seq(Effects)
    BY EmptyList DEF Init
  <1>4. TypeOK
    BY <1>1, <1>2, <1>3, EmptyList DEF Init, TypeOK
  <1>5. StepOK
    BY DEF Init, StepOK
  <1> QED
    BY <1>4, <1>5 DEF TypeInv

(* Executing an undo.                                                      *)
LEMMA ExecuteType ==
    ASSUME TypeOK, NEW e \in Effects, Execute(e)
    PROVE  system' \subseteq Effects /\ stuck' \subseteq Effects
  BY DEF TypeOK, Execute

(* Every step keeps the types, a crash and a recovery too.                 *)
LEMMA TypeNext == TypeInv /\ [Next]_vars => TypeInv'
  <1> SUFFICES ASSUME TypeInv, [Next]_vars PROVE TypeInv'
    OBVIOUS
  <1> USE DEF TypeInv, TypeOK, StepOK
  <1>0. /\ Absent.kind = "absent" /\ Absent.entries = <<>>
        /\ Empty.kind = "empty" /\ Empty.entries = <<>>
        /\ \A es : Holding(es).kind = "data" /\ Holding(es).entries = es
    BY DEF Absent, Empty, Holding
  <1>1. ASSUME NEW m \in Managers, NewManager(m) \/ ActFails(m) \/ Drop(m) PROVE TypeInv'
    <2>1. CASE NewManager(m)
      BY <2>1, StepsAssumption DEF NewManager
    <2>2. CASE ActFails(m)
      <3>1. next[m] + 1 \in 1..(Steps + 1)
        BY <2>2, StepsAssumption DEF ActFails
      <3>2. next' = [next EXCEPT ![m] = next[m] + 1] /\ pc[m] = "ready"
        BY <2>2 DEF ActFails
      <3>3. UNCHANGED <<system, stuck, up, pc, entries, file, recovering, todo, unsaved, crashes>>
        BY <2>2 DEF ActFails
      <3> QED
        BY <3>1, <3>2, <3>3
    <2>3. CASE Drop(m)
      BY <2>3 DEF Drop
    <2> QED
      BY <1>1, <2>1, <2>2, <2>3
  <1>2. ASSUME NEW m \in Managers, Act(m) PROVE TypeInv'
    <2>1. <<m, next[m]>> \in Effects
      BY <1>2, StepsAssumption DEF Act, Effects
    <2>2. Append(entries[m], <<m, next[m]>>) \in Seq(Effects)
      BY <2>1, AppendEntry
    <2>3. entries' \in [Managers -> Seq(Effects)]
      BY <1>2, <2>2 DEF Act
    <2> QED
      BY <1>2, <2>1, <2>3 DEF Act
  <1>3. ASSUME NEW m \in Managers, Truncate(m) PROVE TypeInv'
    <2>1. file'.kind = "empty" /\ file'.entries \in Seq(Effects)
      BY <1>0, <1>3, EmptyList DEF Truncate
    <2> QED
      BY <1>3, <2>1 DEF Truncate
  <1>4. ASSUME NEW m \in Managers, Write(m) \/ PersistFails(m) PROVE TypeInv'
    <2>1. file'.kind \in {"absent", "empty", "data"} /\ file'.entries \in Seq(Effects)
      BY <1>0, <1>4 DEF Write, PersistFails
    <2>2. next[m] + 1 \in 1..(Steps + 1)
      BY <1>4, StepsAssumption DEF Write, PersistFails
    <2>3. next' = [next EXCEPT ![m] = next[m] + 1] /\ pc' = [pc EXCEPT ![m] = "ready"]
      BY <1>4 DEF Write, PersistFails
    <2>4. /\ UNCHANGED <<system, stuck, up, entries, recovering, todo, crashes>>
          /\ unsaved' \in BOOLEAN
      BY <1>4 DEF Write, PersistFails
    <2> QED
      BY <2>1, <2>2, <2>3, <2>4
  <1>5. ASSUME NEW m \in Managers, Rollback(m) PROVE TypeInv'
    <2>1. Last(entries[m]) \in Effects /\ Front(entries[m]) \in Seq(Effects)
      BY <1>5, FrontLast DEF Rollback
    <2>2. system' \subseteq Effects /\ stuck' \subseteq Effects
      BY <1>5, <2>1, ExecuteType DEF Rollback
    <2>3. entries' \in [Managers -> Seq(Effects)]
      BY <1>5, <2>1 DEF Rollback
    <2> QED
      BY <1>5, <2>2, <2>3 DEF Rollback
  <1>6. ASSUME NEW m \in Managers, ClearPersisted(m) PROVE TypeInv'
    <2>1. file'.kind = "absent" /\ file'.entries \in Seq(Effects)
      BY <1>0, <1>6, EmptyList DEF ClearPersisted
    <2> QED
      BY <1>6, <2>1 DEF ClearPersisted
  <1>7. CASE Crash
    <2>1. crashes' \in 0..MaxCrashes
      BY <1>7, StepsAssumption DEF Crash
    <2>2. unsaved' \in BOOLEAN
      BY <1>7, Zenon DEF Crash
    <2> QED
      BY <1>7, <2>1, <2>2, EmptyList DEF Crash
  <1>8. CASE RecoverNothing
    <2>1. file' = file \/ file' = Absent
      BY <1>8 DEF RecoverNothing
    <2>2. file'.kind \in {"absent", "empty", "data"} /\ file'.entries \in Seq(Effects)
      BY <1>0, <2>1, EmptyList
    <2> QED
      BY <1>8, <2>2 DEF RecoverNothing
  <1>9. CASE RecoverRead
    BY <1>9 DEF RecoverRead
  <1>10. CASE RecoverUndo
    <2>1. Last(todo) \in Effects /\ Front(todo) \in Seq(Effects)
      BY <1>10, FrontLast DEF RecoverUndo
    <2>2. system' \subseteq Effects /\ stuck' \subseteq Effects
      BY <1>10, <2>1, ExecuteType DEF RecoverUndo
    <2> QED
      BY <1>10, <2>1, <2>2 DEF RecoverUndo
  <1>11. CASE RecoverDone
    <2>1. file'.kind = "absent" /\ file'.entries \in Seq(Effects)
      BY <1>0, <1>11, EmptyList DEF RecoverDone
    <2> QED
      BY <1>11, <2>1 DEF RecoverDone
  <1>12. CASE UNCHANGED vars
    BY <1>12 DEF vars
  <1> HIDE DEF TypeInv, TypeOK, StepOK
  <1> QED
    BY <1>1, <1>2, <1>3, <1>4, <1>5, <1>6, <1>7, <1>8, <1>9, <1>10, <1>11, <1>12
    DEF Next, ManagerStep, Recover

(* The managers and recover() keep their types.                            *)
THEOREM TypeCorrect == Spec => []TypeOK
  <1>1. TypeInv => TypeOK
    BY DEF TypeInv
  <1> QED
    BY TypeInit, TypeNext, <1>1, PTL DEF Spec

-----------------------------------------------------------------------------
(***************************************************************************)
(* Crash recovery.  Two managers share one file, and each one's write      *)
(* replaces the other's entries: what follows is about a configuration in  *)
(* which one server changes the system.                                    *)
(***************************************************************************)
SingleManager == \A m, n \in Managers : m = n

(* Entries are listed in the order of their steps, wherever they are.      *)
Ordered ==
    /\ \A m \in Managers : Increasing(entries[m])
    /\ Increasing(file.entries)
    /\ Increasing(todo)

(* The step at hand is later than every registered one.                    *)
Before ==
    \A m \in Managers : \A e \in ToSet(entries[m]) :
        /\ pc[m] = "ready" => e[2] < next[m]
        /\ pc[m] \in {"acted", "truncated"} => e[2] <= next[m]

(* Nothing is left to recover in a running daemon, and no manager lives    *)
(* outside of one.                                                         *)
Idle ==
    /\ recovering => ~up
    /\ ~recovering => todo = <<>>
    /\ \A m \in Managers :
        /\ ~up => pc[m] = "none"
        /\ pc[m] = "none" => entries[m] = <<>>

(* Where the effects in force are known, in each phase: by the managers,   *)
(* who have written them unless an apply() is under way; by the file; and, *)
(* while recover() works, by what it has yet to undo and still by the file.*)
KnownUp ==
    /\ system \subseteq Registered \cup stuck
    /\ \A m \in Managers : pc[m] \notin {"acted", "truncated"} =>
          ToSet(entries[m]) \subseteq ToSet(file.entries)
KnownDown == system \subseteq ToSet(file.entries) \cup stuck
KnownRecovering ==
    /\ system \subseteq ToSet(todo) \cup stuck
    /\ ToSet(todo) \subseteq ToSet(file.entries)
Kept ==
    ~unsaved =>
        /\ up => KnownUp
        /\ ~up /\ ~recovering => KnownDown
        /\ recovering => KnownRecovering

Inv == TypeInv /\ Ordered /\ Before /\ Idle /\ Kept

LEMMA InvInit == Init => Inv
  <1> SUFFICES ASSUME Init PROVE Inv
    OBVIOUS
  <1>1. TypeInv
    BY TypeInit
  <1>2. file.entries = <<>>
    BY DEF Init, Absent
  <1>3. Ordered
    BY <1>2, EmptyList DEF Init, Ordered
  <1>4. Before
    BY EmptyList DEF Init, Before
  <1>5. Idle
    BY DEF Init, Idle
  <1>6. Kept
    BY DEF Init, Kept, KnownDown
  <1> QED
    BY <1>1, <1>3, <1>4, <1>5, <1>6 DEF Inv

(* What one manager registered is all there is.                            *)
LEMMA OneManager ==
    ASSUME SingleManager, NEW m \in Managers
    PROVE  /\ \A n \in Managers : n = m
           /\ Registered = ToSet(entries[m])
           /\ Registered' = ToSet(entries'[m])
  <1>1. \A n \in Managers : n = m
    BY DEF SingleManager
  <1>2. Registered = ToSet(entries[m])
    BY <1>1 DEF Registered
  <1>3. Registered' = ToSet(entries'[m])
    BY <1>1 DEF Registered
  <1> QED
    BY <1>1, <1>2, <1>3

(* An undo that was executed leaves its effect nowhere or among the stuck. *)
LEMMA ExecuteKept ==
    ASSUME NEW e, Execute(e), NEW S, system \subseteq (S \cup {e}) \cup stuck
    PROVE  system' \subseteq S \cup stuck'
  BY DEF Execute

(* apply() adds an entry to the list of its manager.                       *)
LEMMA ActInv ==
    ASSUME SingleManager, Inv, NEW m \in Managers, Act(m)
    PROVE  Ordered' /\ Before' /\ Idle' /\ Kept'
  <1> DEFINE e == <<m, next[m]>>
  <1>1. /\ e \in Effects /\ entries[m] \in Seq(Effects) /\ e[2] = next[m]
        /\ next[m] \in Nat /\ pc[m] = "ready" /\ up
    BY StepsAssumption DEF Inv, TypeInv, TypeOK, Act, Effects
  <1>2. /\ entries'[m] = Append(entries[m], e) /\ pc'[m] = "acted" /\ next'[m] = next[m]
        /\ UNCHANGED <<up, file, recovering, todo, unsaved>>
        /\ system' = system \cup {e} /\ stuck' = stuck \ {e}
    BY DEF Inv, TypeInv, TypeOK, Act
  <1>3. \A x \in ToSet(entries[m]) : x[2] < e[2]
    BY <1>1 DEF Inv, Before
  <1>4. Increasing(entries[m])
    BY DEF Inv, Ordered
  <1>5. Increasing(entries'[m]) /\ ToSet(entries'[m]) = ToSet(entries[m]) \cup {e}
    BY <1>1, <1>2, <1>3, <1>4, AppendEntry
  <1>6. \A n \in Managers : n = m
    BY OneManager
  <1>7. Ordered'
    BY <1>2, <1>5, <1>6 DEF Inv, Ordered
  <1>8. Before'
    <2>1. \A x \in ToSet(entries'[m]) : x[2] <= next'[m]
      <3> SUFFICES ASSUME NEW x \in ToSet(entries'[m]) PROVE x[2] <= next'[m]
        OBVIOUS
      <3>1. CASE x = e
        BY <1>1, <1>2, <3>1
      <3>2. CASE x \in ToSet(entries[m])
        <4>1. x \in Effects
          BY <1>1, <3>2, ElementOfSeq DEF ToSet
        <4>2. x[2] \in Nat
          BY <4>1, StepsAssumption DEF Effects
        <4> QED
          BY <1>1, <1>2, <1>3, <3>2, <4>2
      <3> QED
        BY <1>5, <3>1, <3>2
    <2> QED
      BY <1>2, <1>6, <2>1 DEF Before
  <1>9. Idle'
    BY <1>1, <1>2, <1>6 DEF Inv, Idle
  <1>10. ~unsaved => KnownUp'
    <2>1. ~unsaved => system \subseteq ToSet(entries[m]) \cup stuck
      BY <1>1, OneManager DEF Inv, Kept, KnownUp
    <2>2. ~unsaved => system' \subseteq ToSet(entries'[m]) \cup stuck'
      BY <2>1, <1>2, <1>5
    <2>3. Registered' = ToSet(entries'[m])
      BY OneManager
    <2> QED
      BY <1>2, <1>6, <2>2, <2>3 DEF KnownUp
  <1>11. Kept'
    BY <1>1, <1>2, <1>10 DEF Kept, Inv, Idle
  <1> QED
    BY <1>7, <1>8, <1>9, <1>11

(* The steps of a manager that register and undo nothing.                  *)
LEMMA QuietInv ==
    ASSUME SingleManager, Inv, NEW m \in Managers,
           NewManager(m) \/ ActFails(m) \/ Drop(m)
    PROVE  Ordered' /\ Before' /\ Idle' /\ Kept'
  <1>1. /\ UNCHANGED <<system, stuck, up, entries, file, recovering, todo, unsaved>>
        /\ up /\ pc[m] \in {"none", "ready"} /\ pc'[m] \in {"ready", "rolling"}
    BY DEF Inv, TypeInv, TypeOK, NewManager, ActFails, Drop
  <1>2. \A n \in Managers : n = m
    BY OneManager
  <1>3. Ordered'
    BY <1>1 DEF Inv, Ordered
  <1>4. Before'
    <2> SUFFICES ASSUME NEW x \in ToSet(entries[m]), pc'[m] = "ready"
                 PROVE  x[2] < next'[m]
      BY <1>1, <1>2 DEF Before
    <2>1. CASE NewManager(m)
      BY <2>1, EmptyList DEF NewManager, Inv, Idle
    <2>2. CASE ActFails(m)
      <3>1. /\ x[2] < next[m] /\ next'[m] = next[m] + 1 /\ next[m] \in Nat
        BY <2>2, StepsAssumption DEF ActFails, Inv, Before, TypeInv, TypeOK
      <3>2. x \in Effects
        BY ElementOfSeq DEF Inv, TypeInv, TypeOK, ToSet
      <3>3. x[2] \in Nat
        BY <3>2, StepsAssumption DEF Effects
      <3> QED
        BY <3>1, <3>3
    <2>3. CASE Drop(m)
      BY <2>3 DEF Drop, Inv, TypeInv, TypeOK
    <2> QED
      BY <2>1, <2>2, <2>3
  <1>5. Idle'
    BY <1>1, <1>2 DEF Inv, Idle
  <1>6. ~unsaved => KnownUp'
    <2>1. ~unsaved => KnownUp
      BY <1>1 DEF Inv, Kept
    <2>2. Registered' = Registered
      BY <1>1 DEF Registered
    <2> QED
      BY <1>1, <1>2, <2>1, <2>2 DEF KnownUp
  <1>7. Kept'
    BY <1>1, <1>6 DEF Kept, Inv, Idle
  <1> QED
    BY <1>3, <1>4, <1>5, <1>7

(* The write of the file, from its cut to its end or its failure.          *)
LEMMA PersistInv ==
    ASSUME SingleManager, Inv, NEW m \in Managers,
           Truncate(m) \/ Write(m) \/ PersistFails(m)
    PROVE  Ordered' /\ Before' /\ Idle' /\ Kept'
  <1>1. /\ UNCHANGED <<system, stuck, up, entries, recovering, todo>>
        /\ up /\ pc[m] \in {"acted", "truncated"} /\ pc'[m] \in {"ready", "truncated"}
        /\ next[m] \in Nat
    BY StepsAssumption DEF Inv, TypeInv, TypeOK, Truncate, Write, PersistFails
  <1>2. (\A n \in Managers : n = m) /\ Registered' = Registered
    BY <1>1, OneManager DEF Registered
  <1>3. file'.entries \in {<<>>, entries[m], file.entries}
    BY DEF Truncate, Write, PersistFails, Empty, Holding
  <1>4. Ordered'
    BY <1>1, <1>3, EmptyList DEF Inv, Ordered
  <1>5. Before'
    <2> SUFFICES ASSUME NEW x \in ToSet(entries[m])
                 PROVE  /\ pc'[m] = "ready" => x[2] < next'[m]
                        /\ pc'[m] = "truncated" => x[2] <= next'[m]
      BY <1>1, <1>2 DEF Before
    <2>1. x[2] <= next[m]
      BY <1>1 DEF Inv, Before
    <2>2. x \in Effects
      BY ElementOfSeq DEF Inv, TypeInv, TypeOK, ToSet
    <2>3. x[2] \in Nat
      BY <2>2, StepsAssumption DEF Effects
    <2>4. \/ pc'[m] = "truncated" /\ next'[m] = next[m]
          \/ pc'[m] = "ready" /\ next'[m] = next[m] + 1
      BY DEF Inv, TypeInv, TypeOK, Truncate, Write, PersistFails
    <2> QED
      BY <1>1, <2>1, <2>3, <2>4
  <1>6. Idle'
    BY <1>1, <1>2 DEF Inv, Idle
  <1>7. ASSUME ~unsaved' PROVE KnownUp'
    <2>1. /\ ~unsaved
          /\ \/ pc'[m] = "truncated"
             \/ pc'[m] = "ready" /\ file'.entries = entries[m]
      BY <1>7 DEF Inv, TypeInv, TypeOK, Truncate, Write, PersistFails, Holding
    <2>2. system \subseteq Registered \cup stuck
      BY <1>1, <2>1 DEF Inv, Kept, KnownUp
    <2>3. pc'[m] = "ready" => ToSet(entries'[m]) \subseteq ToSet(file'.entries)
      BY <1>1, <2>1
    <2> QED
      BY <1>1, <1>2, <2>1, <2>2, <2>3 DEF KnownUp
  <1>8. Kept'
    BY <1>1, <1>7 DEF Kept, Inv, Idle
  <1> QED
    BY <1>4, <1>5, <1>6, <1>8

(* One undo of rollback_all(), and its end.                                *)
LEMMA RollbackInv ==
    ASSUME SingleManager, Inv, NEW m \in Managers, Rollback(m)
    PROVE  Ordered' /\ Before' /\ Idle' /\ Kept'
  <1>1. /\ entries[m] \in Seq(Effects) /\ entries[m] # <<>> /\ pc'[m] = "rolling" /\ up
        /\ pc[m] = "rolling"
        /\ entries'[m] = Front(entries[m]) /\ Execute(Last(entries[m]))
        /\ UNCHANGED <<up, pc, file, recovering, todo, unsaved>>
    BY DEF Inv, TypeInv, TypeOK, Rollback
  <1>2. (\A n \in Managers : n = m) /\ Registered' = ToSet(entries'[m])
        /\ Registered = ToSet(entries[m])
    BY OneManager
  <1>3. ToSet(entries[m]) = ToSet(entries'[m]) \cup {Last(entries[m])}
    BY <1>1, FrontLast
  <1>4. Ordered'
    <2>1. Increasing(entries'[m])
      BY <1>1, IncreasingFront DEF Inv, Ordered
    <2> QED
      BY <1>1, <1>2, <2>1 DEF Inv, Ordered
  <1>5. Before' /\ Idle'
    BY <1>1, <1>2 DEF Inv, Idle, Before
  <1>6. ASSUME ~unsaved PROVE KnownUp'
    <2>1. system \subseteq (ToSet(entries'[m]) \cup {Last(entries[m])}) \cup stuck
      BY <1>1, <1>2, <1>3, <1>6 DEF Inv, Kept, KnownUp
    <2>2. system' \subseteq ToSet(entries'[m]) \cup stuck'
      BY <1>1, <2>1, ExecuteKept
    <2>3. ToSet(entries'[m]) \subseteq ToSet(file.entries)
      BY <1>1, <1>3, <1>6 DEF Inv, Kept, KnownUp
    <2> QED
      BY <1>1, <1>2, <2>2, <2>3 DEF KnownUp
  <1>7. Kept'
    BY <1>1, <1>6 DEF Kept, Inv, Idle
  <1> QED
    BY <1>4, <1>5, <1>7

LEMMA ClearInv ==
    ASSUME SingleManager, Inv, NEW m \in Managers, ClearPersisted(m)
    PROVE  Ordered' /\ Before' /\ Idle' /\ Kept'
  <1>1. /\ entries[m] = <<>> /\ pc'[m] = "none" /\ up /\ file'.entries = <<>>
        /\ UNCHANGED <<system, stuck, up, entries, recovering, todo, unsaved>>
    BY DEF Inv, TypeInv, TypeOK, ClearPersisted, Absent
  <1>2. (\A n \in Managers : n = m) /\ Registered' = Registered
    BY <1>1, OneManager DEF Registered
  <1>3. Ordered' /\ Before' /\ Idle'
    BY <1>1, <1>2, EmptyList DEF Inv, Ordered, Before, Idle
  <1>4. ~unsaved => KnownUp'
    BY <1>1, <1>2, EmptyList DEF Inv, Kept, KnownUp
  <1>5. Kept'
    BY <1>1, <1>4 DEF Kept, Inv, Idle
  <1> QED
    BY <1>3, <1>5

(* A crash keeps what is known: by the file, if no apply() was under way.  *)
LEMMA CrashInv ==
    ASSUME SingleManager, Inv, Crash
    PROVE  Ordered' /\ Before' /\ Idle' /\ Kept'
  <1>1. /\ up' = FALSE /\ recovering' = FALSE /\ todo' = <<>> /\ UNCHANGED <<system, stuck, file>>
        /\ \A m \in Managers : pc'[m] = "none" /\ entries'[m] = <<>>
    BY DEF Crash
  <1>2. Ordered' /\ Before' /\ Idle'
    BY <1>1, EmptyList DEF Inv, Ordered, Before, Idle
  <1>3. ASSUME ~unsaved' PROVE KnownDown
    <2>1. ~unsaved /\ \A m \in Managers : pc[m] \notin {"acted", "truncated"}
      BY <1>3 DEF Crash
    <2>2. CASE up
      <3>1. Registered \subseteq ToSet(file.entries)
        BY <2>1, <2>2 DEF Registered, Inv, Kept, KnownUp
      <3> QED
        BY <2>1, <2>2, <3>1 DEF Inv, Kept, KnownUp, KnownDown
    <2>3. CASE ~up
      BY <2>1, <2>3 DEF Inv, Kept, KnownDown, KnownRecovering
    <2> QED
      BY <2>2, <2>3
  <1>4. Kept'
    BY <1>1, <1>3 DEF Kept, KnownDown
  <1> QED
    BY <1>2, <1>4

(* recover(), from reading the file to its removal.                        *)
LEMMA RecoverInv ==
    ASSUME SingleManager, Inv, Recover
    PROVE  Ordered' /\ Before' /\ Idle' /\ Kept'
  <1>1. /\ ~up /\ UNCHANGED <<pc, next, entries, unsaved>>
        /\ \A m \in Managers : pc[m] = "none" /\ entries[m] = <<>>
    BY DEF Recover, RecoverNothing, RecoverRead, RecoverUndo, RecoverDone, Inv, Idle
  <1>2. Before'
    BY <1>1, EmptyList DEF Before
  <1>3. Registered' = {} /\ \A m \in Managers : ToSet(entries'[m]) = {}
    BY <1>1, EmptyList DEF Registered
  <1>4. Absent.entries = <<>>
    BY DEF Absent
  <1>5. CASE RecoverNothing
    <2>1. /\ file.entries = <<>> /\ file'.entries = <<>> /\ up' /\ ~recovering
          /\ UNCHANGED <<system, stuck, recovering, todo>>
      BY <1>4, <1>5 DEF RecoverNothing
    <2>2. Ordered' /\ Idle'
      BY <1>1, <2>1, EmptyList DEF Inv, Ordered, Idle
    <2>3. ~unsaved => system \subseteq stuck
      BY <1>1, <2>1, EmptyList DEF Inv, Kept, KnownDown
    <2>4. ~unsaved => KnownUp'
      BY <1>3, <2>1, <2>3 DEF KnownUp
    <2>5. Kept'
      BY <1>1, <2>1, <2>4 DEF Kept
    <2> QED
      BY <1>2, <2>2, <2>5
  <1>6. CASE RecoverRead
    <2>1. /\ todo' = file.entries /\ ~recovering /\ recovering' /\ ~up'
          /\ UNCHANGED <<system, stuck, file>>
      BY <1>1, <1>6 DEF RecoverRead
    <2>2. Ordered' /\ Idle'
      BY <1>1, <2>1 DEF Inv, Ordered, Idle
    <2>3. ~unsaved => KnownRecovering'
      BY <1>1, <2>1 DEF Inv, Kept, KnownDown, KnownRecovering
    <2>4. Kept'
      BY <1>1, <2>1, <2>3 DEF Kept
    <2> QED
      BY <1>2, <2>2, <2>4
  <1>7. CASE RecoverUndo
    <2>1. /\ todo' = Front(todo) /\ todo # <<>> /\ Execute(Last(todo))
          /\ recovering /\ recovering' /\ ~up' /\ file' = file
          /\ todo \in Seq(Effects)
      BY <1>1, <1>7 DEF RecoverUndo, Inv, TypeInv, TypeOK
    <2>2. ToSet(todo) = ToSet(todo') \cup {Last(todo)}
      BY <2>1, FrontLast
    <2>3. Ordered'
      <3>1. Increasing(todo')
        BY <2>1, IncreasingFront DEF Inv, Ordered
      <3> QED
        BY <1>1, <2>1, <3>1, EmptyList DEF Inv, Ordered
    <2>4. Idle'
      BY <1>1, <2>1 DEF Idle
    <2>5. ASSUME ~unsaved PROVE system' \subseteq ToSet(todo') \cup stuck'
      <3>1. system \subseteq (ToSet(todo') \cup {Last(todo)}) \cup stuck
        BY <1>1, <2>1, <2>2, <2>5 DEF Inv, Kept, KnownRecovering
      <3> QED
        BY <2>1, <3>1, ExecuteKept
    <2>6. ~unsaved => KnownRecovering'
      BY <1>1, <2>1, <2>2, <2>5 DEF Inv, Kept, KnownRecovering
    <2>7. Kept'
      BY <1>1, <2>1, <2>6 DEF Kept
    <2> QED
      BY <1>2, <2>3, <2>4, <2>7
  <1>8. CASE RecoverDone
    <2>1. /\ file'.entries = <<>> /\ up' /\ recovering /\ ~recovering' /\ todo = <<>>
          /\ UNCHANGED <<system, stuck, todo>>
      BY <1>4, <1>8 DEF RecoverDone
    <2>2. Ordered' /\ Idle'
      BY <1>1, <2>1, EmptyList DEF Inv, Ordered, Idle
    <2>3. ~unsaved => system \subseteq stuck
      BY <1>1, <2>1, EmptyList DEF Inv, Kept, KnownRecovering
    <2>4. ~unsaved => KnownUp'
      BY <1>3, <2>1, <2>3 DEF KnownUp
    <2>5. Kept'
      BY <1>1, <2>1, <2>4 DEF Kept
    <2> QED
      BY <1>2, <2>2, <2>5
  <1> QED
    BY <1>5, <1>6, <1>7, <1>8 DEF Recover

LEMMA InvNext == SingleManager /\ Inv /\ [Next]_vars => Inv'
  <1> SUFFICES ASSUME SingleManager, Inv, [Next]_vars PROVE Inv'
    OBVIOUS
  <1>1. TypeInv'
    BY TypeNext DEF Inv
  <1>2. ASSUME NEW m \in Managers, ManagerStep(m)
        PROVE  Ordered' /\ Before' /\ Idle' /\ Kept'
    BY <1>2, QuietInv, ActInv, PersistInv, RollbackInv, ClearInv DEF ManagerStep
  <1>3. ASSUME UNCHANGED vars PROVE Ordered' /\ Before' /\ Idle' /\ Kept'
    BY <1>3 DEF vars, Inv, Ordered, Before, Idle, Kept, KnownUp, KnownDown, KnownRecovering,
                Registered
  <1>4. Ordered' /\ Before' /\ Idle' /\ Kept'
    BY <1>2, <1>3, CrashInv, RecoverInv DEF Next
  <1> QED
    BY <1>1, <1>4 DEF Inv

(* A daemon that runs again after crashes, at whatever points they came,   *)
(* has undone what its predecessors left in force.                         *)
THEOREM CrashLeavesNothing ==
    ASSUME SingleManager PROVE Spec => []NothingLeftOver
  <1>1. Inv => NothingLeftOver
    BY DEF Inv, Kept, KnownUp, NothingLeftOver
  <1> QED
    BY SingleManager, InvInit, InvNext, <1>1, PTL DEF Spec

(* Outside of apply() the file names every effect in force.                *)
THEOREM FileNamesEffects ==
    ASSUME SingleManager PROVE Spec => []Recoverable
  <1>1. Inv => Recoverable
    <2> SUFFICES ASSUME Inv, ~unsaved, \A m \in Managers : pc[m] \notin {"acted", "truncated"}
                 PROVE  system \subseteq ToSet(file.entries) \cup stuck
      BY DEF Recoverable
    <2>1. up => Registered \subseteq ToSet(file.entries)
      BY DEF Registered, Inv, Kept, KnownUp
    <2> QED
      BY <2>1 DEF Inv, Kept, KnownUp, KnownDown, KnownRecovering
  <1> QED
    BY SingleManager, InvInit, InvNext, <1>1, PTL DEF Spec

(* Rollback and recover() undo the effects of the server in reverse.       *)
THEOREM UndoneInReverse ==
    ASSUME SingleManager PROVE Spec => ReverseOrder
  <1> DEFINE Later == \A m \in Managers, i, j \in 1..Steps :
          (i < j /\ <<m, i>> \in system \ system' /\ <<m, j>> \in system)
              => <<m, j>> \in stuck \/ unsaved
  <1>1. Inv /\ [Next]_vars => [Later]_vars
    <2> SUFFICES ASSUME Inv, Next, NEW m \in Managers, NEW i \in 1..Steps, NEW j \in 1..Steps,
                        i < j, <<m, i>> \in system, <<m, i>> \notin system',
                        <<m, j>> \in system, <<m, j>> \notin stuck, ~unsaved
                 PROVE  FALSE
      OBVIOUS
    <2>1. \/ Rollback(m) /\ up
          \/ RecoverUndo
      <3>1. ASSUME NEW n \in Managers, ManagerStep(n) PROVE Rollback(n) /\ up
        BY <3>1 DEF ManagerStep, NewManager, Act, ActFails, Truncate, Write, PersistFails,
                    Drop, Rollback, ClearPersisted
      <3>2. ~Crash /\ ~RecoverNothing /\ ~RecoverRead /\ ~RecoverDone
        BY DEF Crash, RecoverNothing, RecoverRead, RecoverDone
      <3> QED
        BY <3>1, <3>2, OneManager DEF Next, Recover
    <2>2. ASSUME NEW es \in Seq(Effects), es # <<>>, Increasing(es), Execute(Last(es)),
                 <<m, j>> \in ToSet(es)
          PROVE  FALSE
      <3>1. Last(es) = <<m, i>>
        BY <2>2 DEF Execute
      <3>2. ~(i < j)
        BY <2>2, <3>1, LastIsLatest
      <3> QED
        BY <3>2
    <2>3. CASE Rollback(m) /\ up
      <3>1. <<m, j>> \in ToSet(entries[m])
        BY <2>3, OneManager DEF Inv, Kept, KnownUp
      <3>2. /\ entries[m] \in Seq(Effects) /\ entries[m] # <<>>
            /\ Increasing(entries[m]) /\ Execute(Last(entries[m]))
        BY <2>3 DEF Rollback, Inv, TypeInv, TypeOK, Ordered
      <3> QED
        BY <2>2, <3>1, <3>2
    <2>4. CASE RecoverUndo
      <3>1. <<m, j>> \in ToSet(todo)
        BY <2>4 DEF RecoverUndo, Inv, Kept, KnownRecovering
      <3>2. todo \in Seq(Effects) /\ todo # <<>> /\ Increasing(todo) /\ Execute(Last(todo))
        BY <2>4 DEF RecoverUndo, Inv, TypeInv, TypeOK, Ordered
      <3> QED
        BY <2>2, <3>1, <3>2
    <2> QED
      BY <2>1, <2>3, <2>4
  <1> QED
    BY SingleManager, InvInit, InvNext, <1>1, PTL DEF Spec, ReverseOrder
=============================================================================
