----------------------------- MODULE FileStorage -----------------------------
(***************************************************************************)
(* FileStorage: a key-value store in a directory, used for user data, for  *)
(* the selected nets and for cached configurations.  index.json maps keys  *)
(* to content files with made-up names; index.lock is an advisory lock     *)
(* that makes one reading or one writing of index.json atomic for other    *)
(* clients.  set, remove and clear read the index, change content files    *)
(* and write the index back; the RwLock they take is released in the       *)
(* statement that takes it (`let _ = ...`), so it orders nothing.          *)
(*                                                                         *)
(* The process may die between any two steps; new() then reopens the       *)
(* directory.  A set() of an empty value returns at once and is left out,  *)
(* as are keys() and get_updated_at(), which only read the index.          *)
(***************************************************************************)
EXTENDS Naturals, FiniteSets

CONSTANTS
    Clients,      \* tasks that use the store
    Keys,
    Values,       \* non-empty values; a value carries the key it was set for
    KeysOf,       \* the keys each client works on
    Kinds,        \* the operations clients use
    Nothing,      \* the answer None
    Missing,      \* a content file that does not exist
    Torn,         \* a content file cut by an unfinished write
    MaxFiles,     \* bound: content files ever named
    MaxCrashes    \* bound: crashes of the process

ASSUME KeysOfAssumption == KeysOf \in [Clients -> SUBSET Keys]
ASSUME KindsAssumption == Kinds \subseteq {"set", "remove", "clear", "get"}
ASSUME FilesAssumption == MaxFiles \in Nat /\ MaxCrashes \in Nat
ASSUME NothingAssumption ==
    /\ {Nothing, Missing, Torn} \cap (Keys \cup Values \cup (Keys \X Values)) = {}
    /\ Nothing \notin {Missing, Torn} /\ Missing # Torn

VARIABLES
    index,        \* index.json: absent, cut by an unfinished write, or a map
    files,        \* the content files
    names,        \* how many file names were made up
    up,           \* new() has returned
    pc,           \* where each client's operation is
    op,           \* the operation of each client
    copy,         \* its copy of the index
    name,         \* the content file it reads or writes
    got,          \* a get() that just returned: its key and its answer
    ideal,        \* history: the map the completed operations amount to
    harmed,       \* history: keys whose operation a crash interrupted
    overlapped,   \* history: two operations ran at the same time
    crashes

vars == <<index, files, names, up, pc, op, copy, name, got, ideal, harmed,
          overlapped, crashes>>
history == <<ideal, harmed, overlapped>>

Files == 1..MaxFiles
NoFile == 0
Entries == [Keys -> Files \cup {NoFile}]
NoEntries == [k \in Keys |-> NoFile]
EmptyMap == [k \in Keys |-> Nothing]

(* A content file holds a value, here with the key of the set() that wrote *)
(* it, or is missing or torn.                                              *)
Item == Keys \X Values
Content == Item \cup {Missing, Torn}

(* What a client may call.                                                 *)
Clear == [kind |-> "clear", key |-> Nothing, value |-> Nothing]
Operations ==
    [kind : {"set"}, key : Keys, value : Values]
        \cup [kind : {"remove", "get"}, key : Keys, value : {Nothing}] \cup {Clear}
Scope(o) == IF o = Clear THEN Keys ELSE {o.key}

(* A client between two operations, and no answer.                         *)
NoOperation == [kind |-> "none", key |-> Nothing, value |-> Nothing]
NoAnswer == [key |-> Nothing, content |-> Nothing]

TypeOK ==
    /\ index.kind \in {"absent", "cut", "fresh", "data"} /\ index.map \in Entries
    /\ files \in [Files -> Content]
    /\ names \in 0..MaxFiles
    /\ up \in BOOLEAN
    /\ pc \in [Clients -> {"idle", "content", "fill", "unlink", "index", "writing", "fetch"}]
    /\ op \in [Clients -> Operations \cup {NoOperation}]
    /\ copy \in [Clients -> Entries]
    /\ name \in [Clients -> Files \cup {NoFile}]
    /\ got \in [Clients -> [key : Keys \cup {Nothing}, content : Content \cup {Nothing}]]
    /\ ideal \in [Keys -> Item \cup {Nothing}]
    /\ harmed \subseteq Keys
    /\ overlapped \in BOOLEAN
    /\ crashes \in 0..MaxCrashes

Init ==
    /\ index = [kind |-> "absent", map |-> NoEntries]
    /\ files = [f \in Files |-> Missing]
    /\ names = 0
    /\ up = FALSE
    /\ pc = [c \in Clients |-> "idle"]
    /\ op = [c \in Clients |-> NoOperation]
    /\ copy = [c \in Clients |-> NoEntries]
    /\ name = [c \in Clients |-> NoFile]
    /\ got = [c \in Clients |-> NoAnswer]
    /\ ideal = EmptyMap
    /\ harmed = {}
    /\ overlapped = FALSE
    /\ crashes = 0

-----------------------------------------------------------------------------
(***************************************************************************)
(* index.lock.  Only a writer holds it across a step of the model.         *)
(***************************************************************************)
Unlocked == \A c \in Clients : pc[c] # "writing"

Goto(c, point) == pc' = [pc EXCEPT ![c] = point]

(* The operation returns and its locals are gone.                          *)
Return(c) ==
    /\ Goto(c, "idle")
    /\ op' = [op EXCEPT ![c] = NoOperation]
    /\ copy' = [copy EXCEPT ![c] = NoEntries]
    /\ name' = [name EXCEPT ![c] = NoFile]

(* Defect: a content file is named after the number of keys in the index.  *)
NewNameCounted(es) == Cardinality({k \in Keys : es[k] # NoFile}) + 1

(* Uuid::new_v4: a name nobody has used.                                   *)
NewName(es) == names + 1

(***************************************************************************)
(* Every operation begins with get_index().                                *)
(***************************************************************************)
First(kind) ==
    CASE kind = "set" -> "content" [] kind = "get" -> "fetch" [] OTHER -> "unlink"

(* The content file of the key: the index knows it, or set() makes it up.  *)
Named(c, o) ==
    \/ /\ o.kind = "set" /\ index.map[o.key] = NoFile
       /\ names < MaxFiles
       /\ names' = names + 1
       /\ name' = [name EXCEPT ![c] = NewName(index.map)]
    \/ /\ o.kind = "get" \/ (o.kind = "set" /\ index.map[o.key] # NoFile)
       /\ name' = [name EXCEPT ![c] = index.map[o.key]]
       /\ UNCHANGED names
    \/ /\ o.kind \in {"remove", "clear"}
       /\ UNCHANGED <<name, names>>

GetIndex(c, o) ==
    /\ up /\ pc[c] = "idle"
    /\ o.kind \in Kinds /\ Scope(o) \subseteq KeysOf[c]
    /\ Unlocked
    /\ op' = [op EXCEPT ![c] = o]
    /\ copy' = [copy EXCEPT ![c] = index.map]
    /\ Named(c, o)
    /\ got' = [got EXCEPT ![c] = NoAnswer]
    /\ overlapped' = (overlapped \/ \E d \in Clients \ {c} : pc[d] # "idle")
    /\ Goto(c, First(o.kind))
    /\ UNCHANGED <<index, files, up, ideal, harmed, crashes>>

(* get(): read the content file.  A missing one is an error.               *)
Fetch(c) ==
    /\ pc[c] = "fetch"
    /\ got' = [got EXCEPT ![c] = [key |-> op[c].key,
                                  content |-> IF name[c] = NoFile THEN Nothing
                                              ELSE files[name[c]]]]
    /\ Return(c)
    /\ UNCHANGED <<index, files, names, up, crashes>>
    /\ UNCHANGED history

(* set(): tokio::fs::write cuts the content file, then fills it.           *)
CutContent(c) ==
    /\ pc[c] = "content"
    /\ files' = [files EXCEPT ![name[c]] = Torn]
    /\ Goto(c, "fill")
    /\ UNCHANGED <<index, names, up, op, copy, name, got, crashes>>
    /\ UNCHANGED history

(* Defect: set() does not put a new key into the index.                    *)
FillContentUnindexed(c) ==
    /\ pc[c] = "fill"
    /\ files' = [files EXCEPT ![name[c]] = <<op[c].key, op[c].value>>]
    /\ Goto(c, "index")
    /\ UNCHANGED <<index, names, up, op, copy, name, got, crashes>>
    /\ UNCHANGED history

FillContent(c) ==
    /\ pc[c] = "fill"
    /\ files' = [files EXCEPT ![name[c]] = <<op[c].key, op[c].value>>]
    /\ copy' = [copy EXCEPT ![c][op[c].key] = name[c]]
    /\ Goto(c, "index")
    /\ UNCHANGED <<index, names, up, op, name, got, crashes>>
    /\ UNCHANGED history

(* remove() and each round of clear(): the content file, then the entry.   *)
Unlink(c) ==
    /\ pc[c] = "unlink"
    /\ \E k \in Scope(op[c]) :
         /\ copy[c][k] # NoFile
         /\ files' = [files EXCEPT ![copy[c][k]] = Missing]
         /\ copy' = [copy EXCEPT ![c][k] = NoFile]
    /\ UNCHANGED <<index, names, up, pc, op, name, got, crashes>>
    /\ UNCHANGED history

(* set_index(), with the lock: File::create cuts the index ...             *)
CutIndex(c) ==
    /\ \/ pc[c] = "index"
       \/ pc[c] = "unlink" /\ \A k \in Scope(op[c]) : copy[c][k] = NoFile
    /\ Unlocked
    /\ index' = [index EXCEPT !.kind = "cut"]
    /\ Goto(c, "writing")
    /\ UNCHANGED <<files, names, up, op, copy, name, got, crashes>>
    /\ UNCHANGED history

Result(o) ==
    [k \in Keys |-> IF k \notin Scope(o) THEN ideal[k]
                    ELSE IF o.kind = "set" THEN <<k, o.value>> ELSE Nothing]

(* ... then it is written and the operation returns.                       *)
SetIndex(c) ==
    /\ pc[c] = "writing"
    /\ index' = [kind |-> "data", map |-> copy[c]]
    /\ Return(c)
    /\ ideal' = Result(op[c])
    /\ harmed' = harmed \ Scope(op[c])
    /\ UNCHANGED <<files, names, up, got, overlapped, crashes>>

-----------------------------------------------------------------------------
(***************************************************************************)
(* The process dies; what is on disk stays.                                *)
(***************************************************************************)
Crash ==
    /\ crashes < MaxCrashes
    /\ crashes' = crashes + 1
    /\ up' = FALSE
    /\ pc' = [c \in Clients |-> "idle"]
    /\ op' = [c \in Clients |-> NoOperation]
    /\ copy' = [c \in Clients |-> NoEntries]
    /\ name' = [c \in Clients |-> NoFile]
    /\ got' = [c \in Clients |-> NoAnswer]
    /\ index' = IF index.kind = "fresh" THEN [index EXCEPT !.kind = "cut"] ELSE index
    /\ \/ /\ index.kind = "data"
          /\ harmed' = harmed \cup UNION {Scope(op[c]) :
                            c \in {d \in Clients : pc[d] \notin {"idle", "fetch"}}}
          /\ UNCHANGED ideal
       \/ /\ index.kind # "data"
          /\ harmed' = {}
          /\ ideal' = EmptyMap
    /\ UNCHANGED <<files, names, overlapped>>

(* new(): an index that does not parse is removed, a missing one written.  *)
Opening(kind) == ~up /\ index.kind = kind
Reopened == UNCHANGED <<files, names, pc, op, copy, name, got, crashes>> /\ UNCHANGED history

New ==
    /\ Opening("data")
    /\ up' = TRUE
    /\ UNCHANGED index
    /\ Reopened

(* Defect: an index that does not parse is taken as it is.                 *)
NewRemovesCorruptNot ==
    /\ Opening("cut")
    /\ up' = TRUE
    /\ UNCHANGED index
    /\ Reopened

NewRemovesCorrupt ==
    /\ Opening("cut")
    /\ index' = [kind |-> "absent", map |-> NoEntries]
    /\ UNCHANGED up
    /\ Reopened

NewCreates ==
    /\ Opening("absent")
    /\ index' = [kind |-> "fresh", map |-> NoEntries]
    /\ UNCHANGED up
    /\ Reopened

NewWrites ==
    /\ Opening("fresh")
    /\ index' = [kind |-> "data", map |-> NoEntries]
    /\ up' = TRUE
    /\ Reopened

-----------------------------------------------------------------------------
ClientStep(c) ==
    \/ Fetch(c) \/ CutContent(c) \/ FillContent(c) \/ Unlink(c) \/ CutIndex(c) \/ SetIndex(c)
    \/ \E o \in Operations : GetIndex(c, o)

Next ==
    \/ \E c \in Clients : ClientStep(c)
    \/ Crash
    \/ New \/ NewRemovesCorrupt \/ NewCreates \/ NewWrites

Spec == Init /\ [][Next]_vars

-----------------------------------------------------------------------------
(***************************************************************************)
(* Properties.                                                             *)
(***************************************************************************)
(* Once new() has returned, get_index() finds an index it can parse: only  *)
(* the holder of index.lock ever sees a cut one, whatever crashes came     *)
(* before.                                                                 *)
IndexReadable == up /\ (\A c \in Clients : pc[c] # "writing") => index.kind = "data"

(* What get() would answer for a key.                                      *)
View(k) == IF index.map[k] = NoFile THEN Nothing ELSE files[index.map[k]]

(* A completed set, remove or clear shows in every later get() of its keys *)
(* until the next operation on them.  The exceptions: a key whose          *)
(* operation a crash interrupted, and a crash while the index is written,  *)
(* which empties the whole store.                                          *)
Busy(k) == \E c \in Clients : pc[c] \notin {"idle", "fetch"} /\ k \in Scope(op[c])
MapKept ==
    (up /\ index.kind = "data") =>
        \A k \in Keys \ harmed : ~Busy(k) => View(k) = ideal[k]

(* Operations that do not overlap keep the map, across crashes and         *)
(* restarts.                                                               *)
SequentialMapKept == ~overlapped => MapKept

(* However operations overlap or are cut by crashes, get(k) never answers  *)
(* with a value that was set for another key: no content file ever serves  *)
(* two keys.                                                               *)
AnswersOwnKey ==
    \A c \in Clients : got[c].content \in Item => got[c].content[1] = got[c].key
=============================================================================
