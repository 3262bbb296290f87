----------------------------- MODULE SideEffects -----------------------------
(***************************************************************************)
(* SideEffectManager: reversible changes to the system (routes, ip rules,  *)
(* resolv.conf) that a server makes when it starts, that are rolled back   *)
(* when its EngineContext is dropped, and that the next daemon rolls back  *)
(* from a file after a crash.                                              *)
(*                                                                         *)
(* RabbitDigger::start gives every server a manager of its own and the     *)
(* same persist_path.  A manager applies the steps 1..Steps of its server  *)
(* (setup_linux in route_setup.rs) in order; an effect is a pair of the    *)
(* manager and the step.                                                   *)
(***************************************************************************)
EXTENDS Naturals, SequencesExt

CONSTANTS
    Managers,     \* the servers of the configuration, one manager each
    Steps,        \* how many effects a server's set-up applies
    MaxCrashes    \* bound: crashes of the process

ASSUME StepsAssumption == Steps \in Nat /\ MaxCrashes \in Nat

VARIABLES
    system,       \* the effects in force in the operating system
    stuck,        \* effects whose undo was executed and failed
    up,           \* whether the daemon is past recover()
    pc,           \* where each manager is
    next,         \* the next step of each manager's set-up
    entries,      \* SideEffectManager.entries
    file,         \* what persist_path holds
    recovering,   \* whether recover() has read the file and is not done
    todo,         \* what it has yet to undo
    unsaved,      \* an apply() never finished writing the file: a crash or a failed write
    crashes

vars == <<system, stuck, up, pc, next, entries, file, recovering, todo, unsaved, crashes>>

Effects == Managers \X (1..Steps)

(* persist_path: no file, a file cut by an unfinished write, or the        *)
(* entries last written.  A cut file is empty or not JSON: recover() finds *)
(* no entry in either.                                                     *)
Absent == [kind |-> "absent", entries |-> <<>>]
Empty == [kind |-> "empty", entries |-> <<>>]
Holding(es) == [kind |-> "data", entries |-> es]

TypeOK ==
    /\ system \subseteq Effects
    /\ stuck \subseteq Effects
    /\ up \in BOOLEAN
    /\ pc \in [Managers -> {"none", "ready", "acted", "truncated", "rolling"}]
    /\ next \in [Managers -> 1..(Steps + 1)]
    /\ entries \in [Managers -> Seq(Effects)]
    /\ file.kind \in {"absent", "empty", "data"} /\ file.entries \in Seq(Effects)
    /\ recovering \in BOOLEAN
    /\ todo \in Seq(Effects)
    /\ unsaved \in BOOLEAN
    /\ crashes \in 0..MaxCrashes

Init ==
    /\ system = {}
    /\ stuck = {}
    /\ up = FALSE
    /\ pc = [m \in Managers |-> "none"]
    /\ next = [m \in Managers |-> 1]
    /\ entries = [m \in Managers |-> <<>>]
    /\ file = Absent
    /\ recovering = FALSE
    /\ todo = <<>>
    /\ unsaved = FALSE
    /\ crashes = 0

(* SideEffectUndo::execute: the effect is gone, or the command failed and  *)
(* only a warning says so.                                                 *)
Execute(e) ==
    \/ system' = system \ {e} /\ UNCHANGED stuck
    \/ stuck' = stuck \cup {e} /\ UNCHANGED system

-----------------------------------------------------------------------------
(***************************************************************************)
(* A manager in the running daemon.                                        *)
(***************************************************************************)
(* RabbitDigger::start: a manager for the server's new task.               *)
NewManager(m) ==
    /\ up /\ pc[m] = "none"
    /\ pc' = [pc EXCEPT ![m] = "ready"]
    /\ next' = [next EXCEPT ![m] = 1]
    /\ UNCHANGED <<system, stuck, up, entries, file, recovering, todo, unsaved, crashes>>

(* apply(): the action runs and, if it succeeds, its undo is registered.   *)
Act(m) ==
    /\ up /\ pc[m] = "ready" /\ next[m] <= Steps
    /\ system' = system \cup {<<m, next[m]>>}
    /\ stuck' = stuck \ {<<m, next[m]>>}
    /\ entries' = [entries EXCEPT ![m] = Append(@, <<m, next[m]>>)]
    /\ pc' = [pc EXCEPT ![m] = "acted"]
    /\ UNCHANGED <<up, next, file, recovering, todo, unsaved, crashes>>

(* apply() whose action fails: setup_linux goes on with a best-effort step *)
(* and gives up on any other, which drops the manager (Drop below).        *)
ActFails(m) ==
    /\ up /\ pc[m] = "ready" /\ next[m] <= Steps
    /\ next' = [next EXCEPT ![m] = @ + 1]
    /\ UNCHANGED <<system, stuck, up, pc, entries, file, recovering, todo, unsaved, crashes>>

(* persist(): fs::write cuts the file, then writes all entries.            *)
Truncate(m) ==
    /\ up /\ pc[m] = "acted"
    /\ file' = Empty
    /\ pc' = [pc EXCEPT ![m] = "truncated"]
    /\ UNCHANGED <<system, stuck, up, next, entries, recovering, todo, unsaved, crashes>>

(* Defect: only the newest entry is written.                               *)
WriteNewest(m) ==
    /\ up /\ pc[m] = "truncated"
    /\ file' = Holding(<<Last(entries[m])>>)
    /\ pc' = [pc EXCEPT ![m] = "ready"]
    /\ next' = [next EXCEPT ![m] = @ + 1]
    /\ UNCHANGED <<system, stuck, up, entries, recovering, todo, unsaved, crashes>>

Write(m) ==
    /\ up /\ pc[m] = "truncated"
    /\ file' = Holding(entries[m])
    /\ pc' = [pc EXCEPT ![m] = "ready"]
    /\ next' = [next EXCEPT ![m] = @ + 1]
    /\ UNCHANGED <<system, stuck, up, entries, recovering, todo, unsaved, crashes>>

(* A write that fails is logged; the effect stays applied.                 *)
PersistFails(m) ==
    /\ up /\ pc[m] \in {"acted", "truncated"}
    /\ pc' = [pc EXCEPT ![m] = "ready"]
    /\ next' = [next EXCEPT ![m] = @ + 1]
    /\ unsaved' = TRUE
    /\ UNCHANGED <<system, stuck, up, entries, file, recovering, todo, crashes>>

(* The server's task ends or is aborted, its EngineContext is dropped.     *)
Drop(m) ==
    /\ up /\ pc[m] = "ready"
    /\ pc' = [pc EXCEPT ![m] = "rolling"]
    /\ UNCHANGED <<system, stuck, up, next, entries, file, recovering, todo, unsaved, crashes>>

(* Defect: entries are undone in the order they were applied.              *)
RollbackForward(m) ==
    /\ up /\ pc[m] = "rolling" /\ entries[m] # <<>>
    /\ Execute(Head(entries[m]))
    /\ entries' = [entries EXCEPT ![m] = Tail(@)]
    /\ UNCHANGED <<up, pc, next, file, recovering, todo, unsaved, crashes>>

(* rollback_all(): newest first, whether or not an undo fails ...          *)
Rollback(m) ==
    /\ up /\ pc[m] = "rolling" /\ entries[m] # <<>>
    /\ Execute(Last(entries[m]))
    /\ entries' = [entries EXCEPT ![m] = Front(@)]
    /\ UNCHANGED <<up, pc, next, file, recovering, todo, unsaved, crashes>>

(* ... and the file is removed at the end, even by a manager that never    *)
(* wrote it.                                                               *)
ClearPersisted(m) ==
    /\ up /\ pc[m] = "rolling" /\ entries[m] = <<>>
    /\ file' = Absent
    /\ pc' = [pc EXCEPT ![m] = "none"]
    /\ UNCHANGED <<system, stuck, up, next, entries, recovering, todo, unsaved, crashes>>

-----------------------------------------------------------------------------
(***************************************************************************)
(* The process dies: no Drop runs, the system and the file stay.           *)
(***************************************************************************)
Crash ==
    /\ crashes < MaxCrashes
    /\ crashes' = crashes + 1
    /\ unsaved' = (unsaved \/ \E m \in Managers : pc[m] \in {"acted", "truncated"})
    /\ up' = FALSE
    /\ pc' = [m \in Managers |-> "none"]
    /\ entries' = [m \in Managers |-> <<>>]
    /\ recovering' = FALSE
    /\ todo' = <<>>
    /\ UNCHANGED <<system, stuck, next, file>>

(* recover(), at the start of run_daemon: nothing to do without entries.   *)
(* A file that does not parse is removed, an empty one is left.            *)
RecoverNothing ==
    /\ ~up /\ ~recovering
    /\ file.entries = <<>>
    /\ file' \in {file, Absent}
    /\ up' = TRUE
    /\ UNCHANGED <<system, stuck, pc, next, entries, recovering, todo, unsaved, crashes>>

RecoverRead ==
    /\ ~up /\ ~recovering
    /\ file.entries # <<>>
    /\ recovering' = TRUE
    /\ todo' = file.entries
    /\ UNCHANGED <<system, stuck, up, pc, next, entries, file, unsaved, crashes>>

(* Defect: the file is removed before the entries are undone.              *)
RecoverUndoUnprotected ==
    /\ recovering /\ todo # <<>>
    /\ Execute(Last(todo))
    /\ todo' = Front(todo)
    /\ file' = Absent
    /\ UNCHANGED <<up, pc, next, entries, recovering, unsaved, crashes>>

(* Undo in reverse ...                                                     *)
RecoverUndo ==
    /\ recovering /\ todo # <<>>
    /\ Execute(Last(todo))
    /\ todo' = Front(todo)
    /\ UNCHANGED <<up, pc, next, entries, file, recovering, unsaved, crashes>>

(* ... and remove the file.                                                *)
RecoverDone ==
    /\ recovering /\ todo = <<>>
    /\ file' = Absent
    /\ recovering' = FALSE
    /\ up' = TRUE
    /\ UNCHANGED <<system, stuck, pc, next, entries, todo, unsaved, crashes>>

-----------------------------------------------------------------------------
ManagerStep(m) ==
    \/ NewManager(m) \/ Act(m) \/ ActFails(m) \/ Truncate(m) \/ Write(m)
    \/ PersistFails(m)
    \/ Drop(m) \/ Rollback(m) \/ ClearPersisted(m)

Recover == RecoverNothing \/ RecoverRead \/ RecoverUndo \/ RecoverDone

Next == (\E m \in Managers : ManagerStep(m)) \/ Crash \/ Recover

Spec == Init /\ [][Next]_vars

-----------------------------------------------------------------------------
(***************************************************************************)
(* Properties.                                                             *)
(***************************************************************************)
(* "Every side effect is persisted to disk immediately after it's applied. *)
(* On crash recovery, the daemon reads the persisted file and rolls back": *)
(* while a daemon runs, every effect in force belongs to a live manager or *)
(* its undo failed; nothing is left over from before a crash.  The         *)
(* exception is an apply() whose write failed or was cut by the crash      *)
(* (unsaved).                                                              *)
Registered == UNION {ToSet(entries[m]) : m \in Managers}
NothingLeftOver == (up /\ ~unsaved) => system \subseteq Registered \cup stuck

(* The same promise seen from the file: whenever a crash may come and no   *)
(* apply() is under way, the file names every effect in force whose undo   *)
(* did not fail.                                                           *)
Recoverable ==
    (~unsaved /\ \A m \in Managers : pc[m] \notin {"acted", "truncated"}) =>
        system \subseteq ToSet(file.entries) \cup stuck

(* Effects are undone in reverse order: an effect goes away only when no   *)
(* later one of the same server is in force, other than one whose undo     *)
(* failed.                                                                 *)
ReverseOrder ==
    [][\A m \in Managers, i, j \in 1..Steps :
          (i < j /\ <<m, i>> \in system \ system' /\ <<m, j>> \in system)
              => <<m, j>> \in stuck \/ unsaved]_vars
=============================================================================
