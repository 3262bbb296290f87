-------------------------- MODULE FileStorageProofs --------------------------
(***************************************************************************)
(* Theorems about FileStorage for every number of clients, keys, values    *)
(* and crashes: type correctness, and that no key ever answers with the    *)
(* value of another, however operations overlap.                           *)
(***************************************************************************)
EXTENDS FileStorage, TLAPS

(* What an operation under way is, at each of its control points.          *)
OpOK ==
    \A c \in Clients :
        /\ pc[c] # "idle" => op[c] \in Operations
        /\ pc[c] \in {"content", "fill"} => op[c].kind = "set" /\ name[c] \in Files
        /\ pc[c] = "fetch" => op[c].kind = "get"
        /\ pc[c] = "idle" => name[c] = NoFile

TypeInv == TypeOK /\ OpOK

-----------------------------------------------------------------------------
(***************************************************************************)
(* Type correctness.                                                       *)
(***************************************************************************)

(* The keys an operation is about are keys.                                *)
LEMMA ScopeType == ASSUME NEW o \in Operations PROVE Scope(o) \subseteq Keys
  BY DEF Operations, Scope, Clear

(* An operation on one key carries that key, and a set() a value.          *)
LEMMA OperationType ==
    ASSUME NEW o \in Operations
    PROVE  /\ o.kind \in {"set", "remove", "clear", "get"}
           /\ o.kind \in {"set", "remove", "get"} => o.key \in Keys
           /\ o.kind = "set" => o.value \in Values
  BY DEF Operations, Clear

(* An empty directory is well typed.                                       *)
LEMMA TypeInit == Init => TypeInv
  <1> SUFFICES ASSUME Init PROVE TypeInv
    OBVIOUS
  <1>1. names \in 0..MaxFiles /\ crashes \in 0..MaxCrashes
    BY FilesAssumption DEF Init
  <1>2. NoEntries \in Entries
    BY DEF NoEntries, Entries
  <1> QED
    BY <1>1, <1>2 DEF Init, TypeInv, TypeOK, OpOK, Content, Item, EmptyMap, NoAnswer

(* Every step keeps the types.                                             *)
LEMMA TypeNext == TypeInv /\ [Next]_vars => TypeInv'
  <1> SUFFICES ASSUME TypeInv, [Next]_vars PROVE TypeInv'
    OBVIOUS
  <1> USE DEF TypeInv, TypeOK, OpOK
  <1>0. NoEntries \in Entries
    BY DEF NoEntries, Entries
  <1>1. ASSUME NEW c \in Clients, NEW o \in Operations, GetIndex(c, o) PROVE TypeInv'
    <2> USE <1>1 DEF GetIndex
    <2>1. o.kind \in {"set", "remove", "clear", "get"}
          /\ (o.kind \in {"set", "remove", "get"} => o.key \in Keys)
      BY OperationType
    <2>2. /\ names' \in 0..MaxFiles
          /\ name' \in [Clients -> Files \cup {NoFile}]
          /\ o.kind = "set" => name'[c] \in Files
          /\ \A d \in Clients \ {c} : name'[d] = name[d]
      <3>1. index.map \in [Keys -> Files \cup {NoFile}]
        BY DEF Entries
      <3>2. CASE o.kind = "set" /\ index.map[o.key] = NoFile /\ names < MaxFiles
                 /\ names' = names + 1 /\ name' = [name EXCEPT ![c] = names + 1]
        <4>1. names + 1 \in Files /\ names + 1 \in 0..MaxFiles
          BY <3>2, FilesAssumption DEF Files
        <4> QED
          BY <3>2, <4>1
      <3>3. CASE (o.kind = "get" \/ (o.kind = "set" /\ index.map[o.key] # NoFile))
                 /\ name' = [name EXCEPT ![c] = index.map[o.key]] /\ UNCHANGED names
        <4>1. index.map[o.key] \in Files \cup {NoFile}
          BY <2>1, <3>1, <3>3
        <4> QED
          BY <3>3, <4>1
      <3>4. CASE o.kind \in {"remove", "clear"} /\ UNCHANGED <<name, names>>
        BY <3>4
      <3> QED
        BY <3>2, <3>3, <3>4 DEF Named, NewName
    <2>3. pc' = [pc EXCEPT ![c] = First(o.kind)]
      BY DEF Goto
    <2>4. First(o.kind) \in {"content", "fetch", "unlink"}
          /\ (First(o.kind) = "content" => o.kind = "set")
          /\ (First(o.kind) = "fetch" => o.kind = "get")
      BY <2>1 DEF First
    <2>5. TypeOK'
      BY <2>2, <2>3, <2>4 DEF NoAnswer
    <2>6. OpOK'
      BY <2>2, <2>3, <2>4
    <2> QED
      BY <2>5, <2>6
  <1>2. ASSUME NEW c \in Clients, Fetch(c) PROVE TypeInv'
    <2> USE <1>2 DEF Fetch, Return, Goto, history
    <2>1. op[c].key \in Keys
      BY OperationType
    <2>2. got' \in [Clients -> [key : Keys \cup {Nothing}, content : Content \cup {Nothing}]]
      BY <2>1
    <2>3. TypeOK'
      BY <1>0, <2>2 DEF NoFile
    <2>4. OpOK'
      OBVIOUS
    <2> QED
      BY <2>3, <2>4
  <1>3. ASSUME NEW c \in Clients, CutContent(c) PROVE TypeInv'
    BY <1>3 DEF CutContent, Goto, history, Content
  <1>4. ASSUME NEW c \in Clients, FillContent(c) PROVE TypeInv'
    <2> USE <1>4 DEF FillContent, Goto, history
    <2>1. op[c].key \in Keys /\ op[c].value \in Values /\ name[c] \in Files
      BY OperationType
    <2>2. files' \in [Files -> Content]
      BY <2>1 DEF Content, Item
    <2>3. copy' \in [Clients -> Entries]
      BY <2>1 DEF Entries
    <2>4. TypeOK'
      BY <2>2, <2>3
    <2>5. OpOK'
      OBVIOUS
    <2> QED
      BY <2>4, <2>5
  <1>5. ASSUME NEW c \in Clients, Unlink(c) PROVE TypeInv'
    <2> USE <1>5 DEF Unlink, history
    <2>1. PICK k \in Scope(op[c]) :
              /\ copy[c][k] # NoFile
              /\ files' = [files EXCEPT ![copy[c][k]] = Missing]
              /\ copy' = [copy EXCEPT ![c][k] = NoFile]
      OBVIOUS
    <2>2. k \in Keys
      BY ScopeType
    <2>3. copy' \in [Clients -> Entries] /\ files' \in [Files -> Content]
      BY <2>1, <2>2 DEF Entries, Content
    <2> QED
      BY <2>3
  <1>6. ASSUME NEW c \in Clients, CutIndex(c) PROVE TypeInv'
    BY <1>6 DEF CutIndex, Goto, history
  <1>7. ASSUME NEW c \in Clients, SetIndex(c) PROVE TypeInv'
    <2> USE <1>7 DEF SetIndex, Return, Goto
    <2>1. ideal' \in [Keys -> Item \cup {Nothing}]
      BY OperationType DEF Result, Item
    <2>2. TypeOK'
      BY <1>0, <2>1
    <2>3. OpOK'
      OBVIOUS
    <2> QED
      BY <2>2, <2>3
  <1>8. CASE Crash
    <2> USE <1>8 DEF Crash
    <2>1. crashes' \in 0..MaxCrashes
      BY FilesAssumption
    <2>2. harmed' \subseteq Keys
      BY ScopeType
    <2>3. ideal' \in [Keys -> Item \cup {Nothing}]
      BY DEF EmptyMap
    <2>4. index'.kind \in {"absent", "cut", "fresh", "data"} /\ index'.map \in Entries
      OBVIOUS
    <2>5. TypeOK'
      BY <1>0, <2>1, <2>2, <2>3, <2>4 DEF NoAnswer
    <2>6. OpOK'
      OBVIOUS
    <2> QED
      BY <2>5, <2>6
  <1>9. CASE New \/ NewRemovesCorrupt \/ NewCreates \/ NewWrites
    <2>1. index'.kind \in {"absent", "cut", "fresh", "data"} /\ index'.map \in Entries
      <3>1. \/ UNCHANGED index
            \/ index' = [kind |-> "absent", map |-> NoEntries]
            \/ index' = [kind |-> "fresh", map |-> NoEntries]
            \/ index' = [kind |-> "data", map |-> NoEntries]
        BY <1>9 DEF New, NewRemovesCorrupt, NewCreates, NewWrites
      <3> QED
        BY <1>0, <3>1
    <2>2. up' \in BOOLEAN
      BY <1>9, Zenon DEF New, NewRemovesCorrupt, NewCreates, NewWrites
    <2>3. Reopened
      BY <1>9, Zenon DEF New, NewRemovesCorrupt, NewCreates, NewWrites
    <2>4. TypeOK' /\ OpOK'
      BY <2>1, <2>2, <2>3 DEF Reopened, history
    <2> QED
      BY <2>4
  <1>10. CASE UNCHANGED vars
    BY <1>10 DEF vars
  <1> HIDE DEF TypeInv, TypeOK, OpOK
  <1> QED
    BY <1>1, <1>2, <1>3, <1>4, <1>5, <1>6, <1>7, <1>8, <1>9, <1>10 DEF Next, ClientStep

(* FileStorage keeps its types, whatever operations and crashes interleave *)
(* between get_index() and set_index().                                    *)
THEOREM TypeCorrect == Spec => []TypeOK
  <1>1. TypeInv => TypeOK
    BY DEF TypeInv
  <1> QED
    BY TypeInit, TypeNext, <1>1, PTL DEF Spec

-----------------------------------------------------------------------------
(***************************************************************************)
(* Keys do not mix.  AnswersOwnKey speaks of answers; what keeps it true   *)
(* is about names.  A name is used for a key by the index, by a client's   *)
(* copy of it, or by an operation under way.  Every name is used for one   *)
(* key at most, although clients write back copies that are out of date,   *)
(* and its file, if it has content, has that key's.                        *)
(***************************************************************************)
Uses(k, f) ==
    \/ index.map[k] = f
    \/ \E c \in Clients : copy[c][k] = f
    \/ \E c \in Clients : op[c].key = k /\ name[c] = f

FilesOwned ==
    \A f \in Files, k \in Keys :
        Uses(k, f) =>
            /\ f <= names
            /\ \A j \in Keys : Uses(j, f) => j = k
            /\ files[f] \in Item => files[f][1] = k

Fresh == \A f \in Files : names < f => files[f] = Missing

Inv == TypeInv /\ FilesOwned /\ Fresh /\ AnswersOwnKey

(* The content of a file that is missing or torn is no value.              *)
LEMMA NotItem == Missing \notin Item /\ Torn \notin Item /\ Nothing \notin Item
  BY NothingAssumption DEF Item

(* A step that uses no name in a new way, and fills a file only with the   *)
(* content of the key it is used for, keeps files and keys apart.          *)
LEMMA SameUses ==
    ASSUME FilesOwned, UNCHANGED names,
           \A f \in Files, k \in Keys : Uses(k, f)' => Uses(k, f),
           \A f \in Files : \/ files'[f] \notin Item
                            \/ files'[f] = files[f]
                            \/ \E k \in Keys : Uses(k, f) /\ files'[f][1] = k
    PROVE  FilesOwned'
  <1> SUFFICES ASSUME NEW f \in Files, NEW k \in Keys, Uses(k, f)'
               PROVE  /\ f <= names'
                      /\ \A j \in Keys : Uses(j, f)' => j = k
                      /\ files'[f] \in Item => files'[f][1] = k
    BY DEF FilesOwned
  <1>1. Uses(k, f)
    OBVIOUS
  <1>2. f <= names /\ (\A j \in Keys : Uses(j, f) => j = k)
        /\ (files[f] \in Item => files[f][1] = k)
    BY <1>1 DEF FilesOwned
  <1> QED
    BY <1>1, <1>2

(* Nothing is used in an empty directory.                                  *)
LEMMA InvInit == Init => Inv
  <1> SUFFICES ASSUME Init PROVE FilesOwned /\ Fresh /\ AnswersOwnKey
    BY TypeInit DEF Inv
  <1>1. \A f \in Files, k \in Keys : ~Uses(k, f)
    BY DEF Init, Uses, NoEntries, NoFile, Files
  <1>2. FilesOwned
    BY <1>1 DEF FilesOwned
  <1>3. AnswersOwnKey
    BY NotItem DEF Init, NoAnswer, AnswersOwnKey
  <1>4. Fresh
    BY DEF Init, Fresh
  <1> QED
    BY <1>2, <1>3, <1>4

(* Every step keeps the invariant.                                         *)
LEMMA InvNext == Inv /\ [Next]_vars => Inv'
  <1> SUFFICES ASSUME Inv, [Next]_vars PROVE FilesOwned' /\ Fresh' /\ AnswersOwnKey'
    BY TypeNext DEF Inv
  <1> USE DEF Inv, TypeInv
  <1>1. ASSUME NEW c \in Clients, NEW o \in Operations, GetIndex(c, o)
        PROVE  FilesOwned' /\ Fresh' /\ AnswersOwnKey'
    <2> USE <1>1
    <2>1. Named(c, o) /\ op' = [op EXCEPT ![c] = o] /\ copy' = [copy EXCEPT ![c] = index.map]
          /\ UNCHANGED <<index, files>> /\ got' = [got EXCEPT ![c] = NoAnswer]
      BY DEF GetIndex
    <2>2. o.kind \in {"set", "remove", "clear", "get"}
          /\ (o.kind \in {"set", "remove", "get"} => o.key \in Keys)
      BY OperationType
    <2>3. AnswersOwnKey'
      BY <2>1, NotItem DEF TypeOK, AnswersOwnKey, NoAnswer
    <2>4. CASE o.kind = "set" /\ index.map[o.key] = NoFile /\ names < MaxFiles
               /\ names' = names + 1 /\ name' = [name EXCEPT ![c] = names + 1]
      <3>1. names \in Nat /\ names + 1 \in Files /\ o.key \in Keys
        BY <2>2, <2>4, FilesAssumption DEF TypeOK, Files
      <3>2. \A f \in Files, k \in Keys :
                Uses(k, f)' => Uses(k, f) \/ (f = names + 1 /\ k = o.key)
        BY <2>1, <2>4, <3>1 DEF Uses, TypeOK
      <3>3. \A k \in Keys : ~Uses(k, names + 1)
        BY <3>1 DEF FilesOwned
      <3>4. files[names + 1] = Missing
        BY <3>1 DEF Fresh
      <3>5. Fresh'
        BY <2>1, <2>4, <3>1 DEF Fresh, Files
      <3>6. ASSUME NEW f \in Files, NEW k \in Keys, Uses(k, f)'
            PROVE  /\ f <= names'
                   /\ \A j \in Keys : Uses(j, f)' => j = k
                   /\ files'[f] \in Item => files'[f][1] = k
        <4>1. CASE f = names + 1
          BY <4>1, <2>1, <2>4, <3>1, <3>2, <3>3, <3>4, <3>6, NotItem DEF Files
        <4>2. CASE f # names + 1
          <5>1. Uses(k, f) /\ \A j \in Keys : Uses(j, f)' => Uses(j, f)
            BY <4>2, <3>2, <3>6
          <5>2. f <= names /\ (\A j \in Keys : Uses(j, f) => j = k)
                /\ (files[f] \in Item => files[f][1] = k)
            BY <5>1 DEF FilesOwned
          <5> QED
            BY <2>1, <2>4, <3>1, <5>1, <5>2 DEF Files
        <4> QED
          BY <4>1, <4>2
      <3>7. FilesOwned'
        BY <3>6 DEF FilesOwned
      <3> QED
        BY <2>3, <3>5, <3>7
    <2>5. CASE (o.kind = "get" \/ (o.kind = "set" /\ index.map[o.key] # NoFile))
               /\ name' = [name EXCEPT ![c] = index.map[o.key]] /\ UNCHANGED names
      <3>1. \A f \in Files, k \in Keys : Uses(k, f)' => Uses(k, f)
        BY <2>1, <2>5 DEF Uses, TypeOK
      <3> QED
        BY <2>1, <2>3, <2>5, <3>1, SameUses DEF Fresh
    <2>6. CASE o.kind \in {"remove", "clear"} /\ UNCHANGED <<name, names>>
      <3>1. name[c] \notin Files
        BY DEF GetIndex, OpOK, NoFile, Files
      <3>2. \A f \in Files, k \in Keys : Uses(k, f)' => Uses(k, f)
        BY <2>1, <2>6, <3>1 DEF Uses, TypeOK
      <3> QED
        BY <2>1, <2>3, <2>6, <3>2, SameUses DEF Fresh
    <2> QED
      BY <2>1, <2>4, <2>5, <2>6 DEF Named, NewName
  <1>2. ASSUME NEW c \in Clients, Fetch(c) PROVE FilesOwned' /\ Fresh' /\ AnswersOwnKey'
    <2> USE <1>2 DEF Fetch, Return
    <2>1. op[c].key \in Keys
      BY OperationType DEF OpOK
    <2>2. \A f \in Files, k \in Keys : Uses(k, f)' => Uses(k, f)
      BY DEF Uses, TypeOK, NoEntries, NoFile, Files
    <2>3. FilesOwned' /\ Fresh'
      BY <2>2, SameUses DEF Fresh
    <2>4. name[c] \in Files =>
              (files[name[c]] \in Item => files[name[c]][1] = op[c].key)
      <3>1. Uses(op[c].key, name[c])
        BY DEF Uses
      <3> QED
        BY <2>1, <3>1 DEF FilesOwned
    <2>5. got'[c].content \in Item => got'[c].content[1] = got'[c].key
      BY <2>4, NotItem DEF TypeOK
    <2>6. \A d \in Clients \ {c} : got'[d] = got[d]
      BY DEF TypeOK
    <2>7. AnswersOwnKey'
      BY <2>5, <2>6 DEF AnswersOwnKey
    <2> QED
      BY <2>3, <2>7
  <1>3. ASSUME NEW c \in Clients, CutContent(c) PROVE FilesOwned' /\ Fresh' /\ AnswersOwnKey'
    <2> USE <1>3 DEF CutContent
    <2>1. op[c].key \in Keys /\ name[c] \in Files
      BY OperationType DEF OpOK
    <2>2. name[c] <= names
      BY <2>1 DEF FilesOwned, Uses
    <2>3. \A f \in Files, k \in Keys : Uses(k, f)' => Uses(k, f)
      BY DEF Uses
    <2>4. \A f \in Files : files'[f] = IF f = name[c] THEN Torn ELSE files[f]
      BY DEF TypeOK
    <2>5. FilesOwned'
      BY <2>3, <2>4, SameUses, NotItem
    <2>6. Fresh'
      BY <2>1, <2>2, <2>4 DEF Fresh, TypeOK, Files
    <2> QED
      BY <2>5, <2>6 DEF AnswersOwnKey
  <1>4. ASSUME NEW c \in Clients, FillContent(c) PROVE FilesOwned' /\ Fresh' /\ AnswersOwnKey'
    <2> USE <1>4 DEF FillContent
    <2>1. op[c].key \in Keys /\ name[c] \in Files
      BY OperationType DEF OpOK
    <2>2. Uses(op[c].key, name[c])
      BY DEF Uses
    <2>3. name[c] <= names
      BY <2>1, <2>2 DEF FilesOwned
    <2>4. \A f \in Files, k \in Keys : Uses(k, f)' => Uses(k, f)
      BY <2>1 DEF Uses, TypeOK, Entries
    <2>5. \A f \in Files :
              files'[f] = IF f = name[c] THEN <<op[c].key, op[c].value>> ELSE files[f]
      BY DEF TypeOK
    <2>6. FilesOwned'
      BY <2>1, <2>2, <2>4, <2>5, SameUses
    <2>7. Fresh'
      BY <2>1, <2>3, <2>5 DEF Fresh, TypeOK, Files
    <2> QED
      BY <2>6, <2>7 DEF AnswersOwnKey
  <1>5. ASSUME NEW c \in Clients, Unlink(c) PROVE FilesOwned' /\ Fresh' /\ AnswersOwnKey'
    <2> USE <1>5 DEF Unlink
    <2>1. PICK i \in Scope(op[c]) :
              /\ copy[c][i] # NoFile
              /\ files' = [files EXCEPT ![copy[c][i]] = Missing]
              /\ copy' = [copy EXCEPT ![c][i] = NoFile]
      OBVIOUS
    <2>2. \A f \in Files, k \in Keys : Uses(k, f)' => Uses(k, f)
      BY <2>1 DEF Uses, TypeOK, Entries, NoFile, Files
    <2>3. \A f \in Files : files'[f] = IF f = copy[c][i] THEN Missing ELSE files[f]
      BY <2>1 DEF TypeOK
    <2>4. FilesOwned'
      BY <2>2, <2>3, SameUses, NotItem
    <2>5. Fresh'
      BY <2>3 DEF Fresh
    <2> QED
      BY <2>4, <2>5 DEF AnswersOwnKey
  <1>6. ASSUME NEW c \in Clients, CutIndex(c) PROVE FilesOwned' /\ Fresh' /\ AnswersOwnKey'
    <2> USE <1>6 DEF CutIndex
    <2>1. \A f \in Files, k \in Keys : Uses(k, f)' => Uses(k, f)
      BY DEF Uses, TypeOK
    <2> QED
      BY <2>1, SameUses DEF Fresh, AnswersOwnKey
  <1>7. ASSUME NEW c \in Clients, SetIndex(c) PROVE FilesOwned' /\ Fresh' /\ AnswersOwnKey'
    <2> USE <1>7 DEF SetIndex, Return
    <2>1. \A f \in Files, k \in Keys : Uses(k, f)' => Uses(k, f)
      BY DEF Uses, TypeOK, NoEntries, NoFile, Files
    <2> QED
      BY <2>1, SameUses DEF Fresh, AnswersOwnKey
  <1>8. CASE Crash
    <2> USE <1>8 DEF Crash
    <2>1. \A f \in Files, k \in Keys : Uses(k, f)' => Uses(k, f)
      BY DEF Uses, TypeOK, NoEntries, NoFile, Files
    <2>2. AnswersOwnKey'
      BY NotItem DEF AnswersOwnKey, NoAnswer
    <2> QED
      BY <2>1, <2>2, SameUses DEF Fresh
  <1>9. CASE New \/ NewRemovesCorrupt \/ NewCreates \/ NewWrites
    <2>1. index'.map \in {index.map, NoEntries} /\ Reopened
      BY <1>9 DEF New, NewRemovesCorrupt, NewCreates, NewWrites
    <2>2. \A f \in Files, k \in Keys : Uses(k, f)' => Uses(k, f)
      BY <2>1 DEF Uses, Reopened, NoEntries, NoFile, Files
    <2> QED
      BY <2>1, <2>2, SameUses DEF Reopened, Fresh, AnswersOwnKey
  <1>10. CASE UNCHANGED vars
    BY <1>10 DEF vars, FilesOwned, Uses, Fresh, AnswersOwnKey
  <1> HIDE DEF Inv, TypeInv
  <1> QED
    BY <1>1, <1>2, <1>3, <1>4, <1>5, <1>6, <1>7, <1>8, <1>9, <1>10 DEF Next, ClientStep

(* However set(), remove(), clear() and get() overlap, write back indexes  *)
(* that are out of date or are cut by crashes, get() never answers with a  *)
(* value that was set for another key.                                     *)
THEOREM KeysDoNotMix == Spec => []AnswersOwnKey
  <1>1. Inv => AnswersOwnKey
    BY DEF Inv
  <1> QED
    BY InvInit, InvNext, <1>1, PTL DEF Spec

-----------------------------------------------------------------------------
(***************************************************************************)
(* The index can be parsed.  What keeps IndexReadable true across crashes  *)
(* is that no operation is under way before new() has returned.            *)
(***************************************************************************)
ClosedIdle == ~up => \A c \in Clients : pc[c] = "idle"

ReadInv == TypeInv /\ ClosedIdle /\ IndexReadable

(* Every step keeps the index readable.                                    *)
LEMMA ReadNext == ReadInv /\ [Next]_vars => ReadInv'
  <1> SUFFICES ASSUME ReadInv, [Next]_vars PROVE ClosedIdle' /\ IndexReadable'
    BY TypeNext DEF ReadInv
  <1> USE DEF ReadInv, TypeInv, ClosedIdle, IndexReadable
  <1>1. ASSUME NEW c \in Clients, NEW o \in Operations, GetIndex(c, o)
        PROVE  ClosedIdle' /\ IndexReadable'
    BY <1>1 DEF GetIndex, Unlocked
  <1>2. ASSUME NEW c \in Clients, Fetch(c) \/ CutContent(c) \/ FillContent(c) \/ Unlink(c)
        PROVE  ClosedIdle' /\ IndexReadable'
    <2>1. pc[c] \notin {"idle", "writing"} /\ UNCHANGED <<up, index>>
          /\ \A d \in Clients \ {c} : pc'[d] = pc[d]
      BY <1>2 DEF Fetch, CutContent, FillContent, Unlink, Return, Goto, TypeOK
    <2> QED
      BY <2>1
  <1>3. ASSUME NEW c \in Clients, CutIndex(c) PROVE ClosedIdle' /\ IndexReadable'
    BY <1>3 DEF CutIndex, Goto, TypeOK
  <1>4. ASSUME NEW c \in Clients, SetIndex(c) PROVE ClosedIdle' /\ IndexReadable'
    BY <1>4 DEF SetIndex
  <1>5. CASE Crash
    BY <1>5 DEF Crash
  <1>6. CASE New \/ NewRemovesCorrupt \/ NewCreates \/ NewWrites
    BY <1>6 DEF New, NewRemovesCorrupt, NewCreates, NewWrites, Opening, Reopened
  <1>7. CASE UNCHANGED vars
    BY <1>7 DEF vars
  <1> HIDE DEF ReadInv, TypeInv, ClosedIdle, IndexReadable
  <1> QED
    BY <1>1, <1>2, <1>3, <1>4, <1>5, <1>6, <1>7 DEF Next, ClientStep

(* Whenever new() has returned and nobody holds index.lock as a writer,    *)
(* get_index() parses index.json: a crash in the middle of set_index()     *)
(* leaves a cut index only to new(), which removes it.                     *)
THEOREM IndexParses == Spec => []IndexReadable
  <1>1. Init => ReadInv
    BY TypeInit DEF Init, ReadInv, ClosedIdle, IndexReadable
  <1>2. ReadInv => IndexReadable
    BY DEF ReadInv
  <1> QED
    BY <1>1, <1>2, ReadNext, PTL DEF Spec

-----------------------------------------------------------------------------
(***************************************************************************)
(* Operations that do not overlap keep the map.  The invariant follows the *)
(* one operation under way: its copy is the index but for the keys it is   *)
(* about, and before it writes the index it has done its work on the       *)
(* content files.  FilesOwned is what keeps that work from other keys.     *)
(***************************************************************************)
Alone == \A c, d \in Clients : c # d => pc[c] = "idle" \/ pc[d] = "idle"

Worked(c) ==
    /\ op[c].kind = "set" =>
          /\ name[c] \in Files /\ copy[c][op[c].key] = name[c]
          /\ files[name[c]] = <<op[c].key, op[c].value>>
    /\ op[c].kind # "set" => \A k \in Scope(op[c]) : copy[c][k] = NoFile

InOrder(c) ==
    /\ \A k \in Keys \ Scope(op[c]) : copy[c][k] = index.map[k]
    /\ pc[c] = "unlink" => op[c].kind # "set"
    /\ pc[c] = "index" => op[c].kind = "set"
    /\ pc[c] \in {"index", "writing"} => Worked(c)

Kept ==
    /\ up \/ index.kind = "data" =>
          \A k \in Keys \ harmed : ~Busy(k) => View(k) = ideal[k]
    /\ ~up /\ index.kind # "data" => ideal = EmptyMap /\ harmed = {}

Sequential ==
    ~overlapped => Alone /\ Kept /\ \A c \in Clients : pc[c] # "idle" => InOrder(c)

SeqInv == Inv /\ ReadInv /\ Sequential

(* An operation that runs alone is what makes a key busy.                  *)
LEMMA OnlyOne ==
    ASSUME SeqInv, ~overlapped, NEW c \in Clients, pc[c] # "idle"
    PROVE  /\ up /\ op[c] \in Operations /\ Scope(op[c]) \subseteq Keys
           /\ \A d \in Clients : d # c => pc[d] = "idle"
           /\ \A k : Busy(k) <=> pc[c] # "fetch" /\ k \in Scope(op[c])
  <1>1. \A d \in Clients : d # c => pc[d] = "idle"
    BY DEF SeqInv, Sequential, Alone
  <1>2. up /\ op[c] \in Operations
    BY DEF SeqInv, ReadInv, ClosedIdle, Inv, TypeInv, OpOK
  <1>3. \A k : Busy(k) <=> pc[c] # "fetch" /\ k \in Scope(op[c])
    BY <1>1 DEF Busy
  <1> QED
    BY <1>1, <1>2, <1>3, ScopeType

(* What get() answers depends on one entry and one file.                   *)
LEMMA SameView ==
    ASSUME Inv, NEW k \in Keys, index'.map[k] = index.map[k],
           index.map[k] \in Files => files'[index.map[k]] = files[index.map[k]]
    PROVE  View(k)' = View(k)
  <1>1. index.map[k] \in Files \cup {NoFile}
    BY DEF Inv, TypeInv, TypeOK, Entries
  <1> QED
    BY <1>1 DEF View

(* A step of an operation that changes content files of its own keys only. *)
LEMMA StepSeq ==
    ASSUME SeqInv, ~overlapped, NEW c \in Clients, pc[c] \notin {"idle", "fetch"},
           pc'[c] \notin {"idle", "fetch"}, UNCHANGED <<up, op, ideal, harmed, overlapped>>,
           index'.map = index.map, \A d \in Clients : d # c => pc'[d] = pc[d],
           \A k \in Keys \ Scope(op[c]) :
               index.map[k] \in Files => files'[index.map[k]] = files[index.map[k]],
           InOrder(c)'
    PROVE  Sequential'
  <1>1. /\ up /\ \A d \in Clients : d # c => pc[d] = "idle" /\ pc'[d] = "idle"
        /\ \A k : Busy(k) <=> k \in Scope(op[c])
    BY OnlyOne
  <1>2. Alone'
    BY <1>1 DEF Alone
  <1>3. \A k : Busy(k)' <=> k \in Scope(op[c])
    BY <1>1 DEF Busy
  <1>4. ASSUME NEW k \in Keys \ harmed, ~Busy(k)' PROVE View(k)' = ideal[k]
    <2>1. k \in Keys \ Scope(op[c]) /\ ~Busy(k)
      BY <1>1, <1>3, <1>4
    <2>2. View(k)' = View(k)
      BY <2>1, SameView DEF SeqInv
    <2> QED
      BY <1>1, <2>1, <2>2 DEF SeqInv, Sequential, Kept
  <1>5. Kept'
    BY <1>1, <1>4 DEF Kept
  <1>6. \A d \in Clients : pc'[d] # "idle" => InOrder(d)'
    BY <1>1
  <1> QED
    BY <1>2, <1>5, <1>6 DEF Sequential

(* No other key has the file of an operation under way.                    *)
LEMMA OwnFile ==
    ASSUME Inv, NEW c \in Clients, NEW i \in Keys, NEW f \in Files,
           copy[c][i] = f \/ (op[c].key = i /\ name[c] = f),
           NEW k \in Keys, k # i
    PROVE  index.map[k] # f
  <1>1. Uses(i, f) /\ (index.map[k] = f => Uses(k, f))
    BY DEF Uses
  <1> QED
    BY <1>1 DEF Inv, FilesOwned

(* The key of an operation on one key is what it is about.                 *)
LEMMA ScopeOfSet ==
    ASSUME NEW o \in Operations, o.kind = "set"
    PROVE  Scope(o) = {o.key} /\ o.key \in Keys /\ o.value \in Values
  <1>1. o # Clear
    BY DEF Clear
  <1> QED
    BY <1>1, OperationType DEF Scope

LEMMA SeqNext == SeqInv /\ [Next]_vars => SeqInv'
  <1> SUFFICES ASSUME SeqInv, [Next]_vars, ~overlapped' PROVE Sequential'
    BY InvNext, ReadNext DEF SeqInv, Sequential
  <1>a. TypeOK /\ OpOK /\ Inv /\ ReadInv
    BY DEF SeqInv, Inv, TypeInv
  <1>b. ~overlapped
    BY DEF Next, ClientStep, GetIndex, Fetch, CutContent, FillContent, Unlink, CutIndex,
           SetIndex, Crash, New, NewRemovesCorrupt, NewCreates, NewWrites, Reopened, history, vars
  <1>c. Alone /\ Kept /\ \A c \in Clients : pc[c] # "idle" => InOrder(c)
    BY <1>b DEF SeqInv, Sequential
  <1>1. ASSUME NEW c \in Clients, NEW o \in Operations, GetIndex(c, o) PROVE Sequential'
    <2>1. /\ UNCHANGED <<index, files, up, ideal, harmed>> /\ up
          /\ op'[c] = o /\ copy'[c] = index.map /\ pc'[c] = First(o.kind)
          /\ \A d \in Clients : d # c => pc'[d] = pc[d] /\ op'[d] = op[d]
          /\ pc[c] = "idle"
      BY <1>1, <1>a DEF GetIndex, Goto, TypeOK
    <2>2. \A d \in Clients : d # c => pc[d] = "idle"
      BY <1>1 DEF GetIndex
    <2>3. Alone'
      BY <2>1, <2>2 DEF Alone
    <2>4. First(o.kind) \in {"content", "fetch", "unlink"}
          /\ (First(o.kind) = "unlink" => o.kind # "set")
      BY OperationType DEF First
    <2>5. InOrder(c)'
      BY <2>1, <2>4 DEF InOrder
    <2>6. Kept'
      <3>1. ASSUME NEW k \in Keys \ harmed PROVE View(k) = ideal[k] /\ View(k)' = View(k)
        <4>1. ~Busy(k)
          BY <2>1, <2>2 DEF Busy
        <4> QED
          BY <1>c, <2>1, <4>1 DEF Kept, View
      <3> QED
        BY <2>1, <3>1 DEF Kept
    <2> QED
      BY <2>1, <2>2, <2>3, <2>5, <2>6 DEF Sequential
  <1>2. ASSUME NEW c \in Clients, Fetch(c) PROVE Sequential'
    <2>1. /\ UNCHANGED <<index, files, up, ideal, harmed>> /\ pc[c] = "fetch" /\ pc'[c] = "idle"
          /\ \A d \in Clients : d # c => pc'[d] = pc[d]
      BY <1>2, <1>a DEF Fetch, Return, Goto, TypeOK, history
    <2>2. up /\ (\A d \in Clients : d # c => pc[d] = "idle") /\ \A k : ~Busy(k)
      BY <1>b, <2>1, OnlyOne
    <2>3. \A d \in Clients : pc'[d] = "idle"
      BY <2>1, <2>2
    <2>4. Kept'
      BY <1>c, <2>1, <2>2 DEF Kept, View
    <2> QED
      BY <2>3, <2>4 DEF Sequential, Alone
  <1>3. ASSUME NEW c \in Clients, CutContent(c) PROVE Sequential'
    <2>1. /\ UNCHANGED <<index, up, op, copy, name, ideal, harmed, overlapped>>
          /\ pc[c] = "content" /\ pc'[c] = "fill" /\ \A d \in Clients : d # c => pc'[d] = pc[d]
          /\ files' = [files EXCEPT ![name[c]] = Torn]
      BY <1>3, <1>a DEF CutContent, Goto, TypeOK, history
    <2>2. op[c] \in Operations /\ op[c].kind = "set" /\ name[c] \in Files
      BY <1>a, <2>1 DEF OpOK
    <2>3. Scope(op[c]) = {op[c].key} /\ op[c].key \in Keys
      BY <2>2, ScopeOfSet
    <2>4. \A k \in Keys \ Scope(op[c]) : index.map[k] # name[c]
      BY <1>a, <2>2, <2>3, OwnFile
    <2>5. \A k \in Keys \ Scope(op[c]) :
             index.map[k] \in Files => files'[index.map[k]] = files[index.map[k]]
      BY <1>a, <2>1, <2>4 DEF TypeOK
    <2>6. InOrder(c)'
      BY <1>c, <2>1 DEF InOrder
    <2> QED
      BY <1>b, <2>1, <2>5, <2>6, StepSeq
  <1>4. ASSUME NEW c \in Clients, FillContent(c) PROVE Sequential'
    <2>1. /\ UNCHANGED <<index, up, op, name, ideal, harmed, overlapped>>
          /\ pc[c] = "fill" /\ pc'[c] = "index" /\ \A d \in Clients : d # c => pc'[d] = pc[d]
          /\ files' = [files EXCEPT ![name[c]] = <<op[c].key, op[c].value>>]
          /\ copy' = [copy EXCEPT ![c][op[c].key] = name[c]]
      BY <1>4, <1>a DEF FillContent, Goto, TypeOK, history
    <2>2. op[c] \in Operations /\ op[c].kind = "set" /\ name[c] \in Files
      BY <1>a, <2>1 DEF OpOK
    <2>3. Scope(op[c]) = {op[c].key} /\ op[c].key \in Keys
      BY <2>2, ScopeOfSet
    <2>4. \A k \in Keys \ Scope(op[c]) : index.map[k] # name[c]
      BY <1>a, <2>2, <2>3, OwnFile
    <2>5. \A k \in Keys \ Scope(op[c]) :
             index.map[k] \in Files => files'[index.map[k]] = files[index.map[k]]
      BY <1>a, <2>1, <2>4 DEF TypeOK
    <2>6. /\ copy'[c][op[c].key] = name[c] /\ files'[name[c]] = <<op[c].key, op[c].value>>
          /\ \A k \in Keys \ Scope(op[c]) : copy'[c][k] = copy[c][k]
      BY <1>a, <2>1, <2>2, <2>3 DEF TypeOK, Entries
    <2>7. InOrder(c)'
      BY <1>c, <2>1, <2>2, <2>6 DEF InOrder, Worked
    <2> QED
      BY <1>b, <2>1, <2>5, <2>7, StepSeq
  <1>5. ASSUME NEW c \in Clients, Unlink(c) PROVE Sequential'
    <2>1. /\ UNCHANGED <<index, up, pc, op, name, ideal, harmed, overlapped>>
          /\ pc[c] = "unlink"
      BY <1>5 DEF Unlink, history
    <2>2. PICK i \in Scope(op[c]) :
              /\ copy[c][i] # NoFile
              /\ files' = [files EXCEPT ![copy[c][i]] = Missing]
              /\ copy' = [copy EXCEPT ![c][i] = NoFile]
      BY <1>5 DEF Unlink
    <2>3. i \in Keys /\ copy[c][i] \in Files
      BY <1>a, <1>b, <2>1, <2>2, OnlyOne DEF TypeOK, Entries
    <2>4. \A k \in Keys \ Scope(op[c]) : index.map[k] # copy[c][i]
      BY <1>a, <2>2, <2>3, OwnFile
    <2>5. \A k \in Keys \ Scope(op[c]) :
             index.map[k] \in Files => files'[index.map[k]] = files[index.map[k]]
      BY <1>a, <2>2, <2>4 DEF TypeOK
    <2>6. \A k \in Keys \ Scope(op[c]) : copy'[c][k] = copy[c][k]
      BY <1>a, <2>2 DEF TypeOK, Entries
    <2>7. InOrder(c)'
      BY <1>c, <2>1, <2>6 DEF InOrder
    <2> QED
      BY <1>b, <2>1, <2>5, <2>7, StepSeq
  <1>6. ASSUME NEW c \in Clients, CutIndex(c) PROVE Sequential'
    <2>1. /\ UNCHANGED <<files, up, op, copy, name, ideal, harmed, overlapped>>
          /\ pc[c] \in {"index", "unlink"} /\ pc'[c] = "writing"
          /\ \A d \in Clients : d # c => pc'[d] = pc[d]
          /\ index'.map = index.map
          /\ pc[c] = "unlink" => \A k \in Scope(op[c]) : copy[c][k] = NoFile
      BY <1>6, <1>a DEF CutIndex, Goto, TypeOK, history
    <2>2. InOrder(c)'
      BY <1>c, <2>1 DEF InOrder, Worked
    <2> QED
      BY <1>b, <2>1, <2>2, StepSeq
  <1>7. ASSUME NEW c \in Clients, SetIndex(c) PROVE Sequential'
    <2>1. /\ pc[c] = "writing" /\ pc'[c] = "idle" /\ \A d \in Clients : d # c => pc'[d] = pc[d]
          /\ index'.map = copy[c] /\ ideal' = Result(op[c]) /\ harmed' = harmed \ Scope(op[c])
          /\ UNCHANGED <<files, up>>
      BY <1>7, <1>a DEF SetIndex, Return, Goto, TypeOK
    <2>2. /\ up /\ (\A d \in Clients : d # c => pc[d] = "idle")
          /\ \A k : Busy(k) <=> k \in Scope(op[c])
          /\ op[c] \in Operations
      BY <1>b, <2>1, OnlyOne
    <2>3. \A d \in Clients : pc'[d] = "idle"
      BY <2>1, <2>2
    <2>4. ASSUME NEW k \in Keys, k \in Scope(op[c]) PROVE View(k)' = ideal'[k]
      <3>1. Worked(c)
        BY <1>c, <2>1 DEF InOrder
      <3>2. CASE op[c].kind = "set"
        <4>1. k = op[c].key
          BY <2>2, <2>4, <3>2, ScopeOfSet
        <4>2. index'.map[k] = name[c] /\ name[c] \in Files /\ files[name[c]] = <<k, op[c].value>>
          BY <2>1, <3>1, <3>2, <4>1 DEF Worked
        <4>3. View(k)' = <<k, op[c].value>>
          BY <2>1, <4>2 DEF View, NoFile, Files
        <4> QED
          BY <2>1, <2>4, <3>2, <4>3 DEF Result
      <3>3. CASE op[c].kind # "set"
        <4>1. index'.map[k] = NoFile
          BY <2>1, <2>4, <3>1, <3>3 DEF Worked
        <4> QED
          BY <2>1, <2>4, <3>3, <4>1 DEF View, Result
      <3> QED
        BY <3>2, <3>3
    <2>5. ASSUME NEW k \in Keys \ harmed, k \notin Scope(op[c]) PROVE View(k)' = ideal'[k]
      <3>1. index'.map[k] = index.map[k]
        BY <1>c, <2>1, <2>5 DEF InOrder
      <3>2. View(k)' = View(k)
        BY <1>a, <2>1, <3>1, SameView
      <3>3. View(k) = ideal[k]
        BY <1>c, <2>2, <2>5 DEF Kept
      <3> QED
        BY <2>1, <2>5, <3>2, <3>3 DEF Result
    <2>6. Kept'
      BY <2>1, <2>2, <2>4, <2>5 DEF Kept
    <2> QED
      BY <2>3, <2>6 DEF Sequential, Alone
  <1>8. CASE Crash
    <2>1. /\ \A d \in Clients : pc'[d] = "idle"
          /\ up' = FALSE /\ UNCHANGED files /\ index'.map = index.map
      BY <1>8 DEF Crash
    <2>2. CASE index.kind = "data"
      <3>1. /\ index' = index /\ ideal' = ideal
            /\ harmed' = harmed \cup UNION {Scope(op[c]) :
                            c \in {d \in Clients : pc[d] \notin {"idle", "fetch"}}}
        BY <1>8, <2>2 DEF Crash
      <3>2. ASSUME NEW k \in Keys \ harmed' PROVE View(k)' = ideal[k]
        <4>1. k \in Keys \ harmed /\ ~Busy(k)
          BY <3>1, <3>2 DEF Busy
        <4>2. View(k) = ideal[k]
          BY <1>c, <2>2, <4>1 DEF Kept
        <4> QED
          BY <2>1, <3>1, <4>2 DEF View
      <3>3. Kept'
        BY <2>1, <2>2, <3>1, <3>2 DEF Kept
      <3> QED
        BY <2>1, <3>3 DEF Sequential, Alone
    <2>3. CASE index.kind # "data"
      <3>1. ideal' = EmptyMap /\ harmed' = {} /\ index'.kind # "data"
        BY <1>8, <2>3 DEF Crash
      <3>2. Kept'
        BY <2>1, <3>1 DEF Kept
      <3> QED
        BY <2>1, <3>2 DEF Sequential, Alone
    <2> QED
      BY <2>2, <2>3
  <1>9. CASE New \/ NewRemovesCorrupt \/ NewCreates \/ NewWrites
    <2>1. /\ ~up /\ UNCHANGED <<files, pc, op, ideal, harmed>>
      BY <1>9 DEF New, NewRemovesCorrupt, NewCreates, NewWrites, Opening, Reopened, history
    <2>2. \A c \in Clients : pc[c] = "idle" /\ pc'[c] = "idle"
      BY <1>a, <2>1 DEF ReadInv, ClosedIdle
    <2>3. CASE New
      <3>1. index.kind = "data" /\ UNCHANGED index /\ up'
        BY <2>3 DEF New, Opening
      <3>2. Kept'
        BY <1>c, <2>1, <2>2, <3>1 DEF Kept, Busy, View
      <3> QED
        BY <2>2, <3>2 DEF Sequential, Alone
    <2>4. CASE NewRemovesCorrupt \/ NewCreates
      <3>1. index.kind # "data" /\ index'.kind # "data" /\ ~up'
        BY <2>1, <2>4 DEF NewRemovesCorrupt, NewCreates, Opening
      <3>2. Kept'
        BY <1>c, <2>1, <3>1 DEF Kept
      <3> QED
        BY <2>2, <3>2 DEF Sequential, Alone
    <2>5. CASE NewWrites
      <3>1. index.kind # "data" /\ index'.map = NoEntries /\ up'
        BY <2>5 DEF NewWrites, Opening
      <3>2. ideal' = EmptyMap
        BY <1>c, <2>1, <3>1 DEF Kept
      <3>3. \A k \in Keys : View(k)' = Nothing /\ ideal'[k] = Nothing
        BY <3>1, <3>2 DEF View, NoEntries, EmptyMap
      <3>4. Kept'
        BY <3>1, <3>3 DEF Kept
      <3> QED
        BY <2>2, <3>4 DEF Sequential, Alone
    <2> QED
      BY <1>9, <2>3, <2>4, <2>5
  <1>10. CASE UNCHANGED vars
    BY <1>c, <1>10 DEF vars, Sequential, Alone, Kept, InOrder, Worked, Busy, View
  <1> QED
    BY <1>1, <1>2, <1>3, <1>4, <1>5, <1>6, <1>7, <1>8, <1>9, <1>10 DEF Next, ClientStep

(* As long as operations do not overlap, a completed set(), remove() or    *)
(* clear() shows in every later get(), across crashes and restarts.        *)
THEOREM SequentialKeepsMap == Spec => []SequentialMapKept
  <1>1. Init => SeqInv
    <2> SUFFICES ASSUME Init PROVE ReadInv /\ Sequential
      BY InvInit DEF SeqInv
    <2>1. ReadInv
      BY TypeInit DEF Init, ReadInv, ClosedIdle, IndexReadable
    <2>2. Kept
      BY DEF Init, Kept
    <2> QED
      BY <2>1, <2>2 DEF Init, Sequential, Alone
  <1>2. SeqInv => SequentialMapKept
    BY DEF SeqInv, Sequential, Kept, SequentialMapKept, MapKept
  <1> QED
    BY <1>1, <1>2, SeqNext, PTL DEF Spec
=============================================================================
