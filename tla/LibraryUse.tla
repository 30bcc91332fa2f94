------------------------------- MODULE LibraryUse -------------------------------
(* The library under callers in any order (LibrarySpec), with at most MaxSaves saves
   in a behaviour: a finite instance for TLC.  The theorems are about LibrarySpec. *)
EXTENDS Library

CONSTANT MaxSaves   \* bound on the saves of a behaviour
VARIABLE saves
vars == <<lib, clock, hist, asked, saves>>

Init == LibraryInit /\ saves = 0

\* save_project, and import_from_file for a fresh uuid
Save(u, s) ==
    /\ saves < MaxSaves
    /\ SaveProject(u, s)
    /\ saves' = saves + 1

TakeSnapshot(u) == SnapshotProject(u) /\ UNCHANGED saves
Delete(u) == DeleteProject(u) /\ UNCHANGED saves
Duplicate(u, v) == DuplicateProject(u, v) /\ UNCHANGED saves
TimePasses == Tick /\ UNCHANGED saves

Next ==
    \/ \E u \in Uuid :
        \/ \E s \in State : Save(u, s)
        \/ TakeSnapshot(u)
        \/ Delete(u)
        \/ \E v \in Uuid : Duplicate(u, v)
    \/ TimePasses

Spec == Init /\ [][Next]_vars
================================================================================
