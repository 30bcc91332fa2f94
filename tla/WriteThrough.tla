------------------------------ MODULE WriteThrough ------------------------------
(* The write-through session (oak-storage, writethrough.rs) on top of the library:
   every successful command saves every bound project, a background thread
   snapshots the dirty ones, closing a project and leaving the program flush.

   Two threads move: the user interface (`ui`), which edits, writes through and
   flushes, and the snapshot thread (`snap`).  A lock is held only inside one
   action; what the code reads under one lock and uses under the next is kept in
   `ui` or `snap` between two actions.  The user interface is the only thread that
   edits or saves, so reading the project and committing it is one step. *)
EXTENDS Library

CONSTANTS
    MaxEdits,   \* bound on commands
    MaxFaults,  \* bound on failed transactions
    MaxCrashes  \* bound on crashes of the process

\* A closed project is not a project
ASSUME SessionAssumption == None \notin State

VARIABLES
    doc,      \* the projects in memory; None when not open
    binding,  \* bindings(): one record per project
    stop,     \* SnapshotRuntime.stop
    snap,     \* the snapshot thread: where it is and the jobs of its pass
    ui,       \* the user interface: what it is executing and for which keys
    edits, faults, crashes  \* what the bounds have used up

storageVars == <<doc, binding, stop, snap>>
vars == <<lib, clock, hist, asked, doc, binding, stop, snap, ui, edits, faults, crashes>>
budgets == <<edits, faults, crashes>>

Unbound == [on |-> FALSE, dirty |-> FALSE, write_gen |-> 0, last_error |-> FALSE]
Fresh == [Unbound EXCEPT !.on = TRUE]
Bound == {u \in Uuid : binding[u].on}

\* ui.task: what was called; ui.at: the next step of write_through or flush_one for
\* ui.key; ui.keys: the bindings its loop has still to visit; ui.gen: the generation a
\* flush read before its snapshot
Idle == [task |-> "idle", at |-> "next", key |-> None, keys |-> {}, ok |-> TRUE, gen |-> 0]
NoThread == [at |-> "none", jobs |-> {}, job |-> None]

TypeOK ==
    /\ LibraryTypeOK
    /\ doc \in [Uuid -> State \cup {None}]
    /\ binding \in [Uuid -> [on: BOOLEAN, dirty: BOOLEAN, write_gen: Nat, last_error: BOOLEAN]]
    /\ stop \in BOOLEAN
    /\ snap.at \in {"none", "loop", "asleep", "woken", "pass", "clear"}
    /\ snap.jobs \subseteq [key: Uuid, gen: Nat]
    /\ snap.at = "clear" => snap.job \in [key: Uuid, gen: Nat]
    /\ ui.task \in {"idle", "note", "unbind", "stop", "join", "flush", "flushed"}
    /\ ui.at \in {"next", "write", "mark", "snapshot", "clear"}
    /\ ui.keys \subseteq Bound
    /\ ui.gen \in Nat

Init ==
    /\ LibraryInit
    /\ doc = [u \in Uuid |-> None]
    /\ binding = [u \in Uuid |-> Unbound]
    /\ stop = FALSE
    /\ snap = NoThread
    /\ ui = Idle
    /\ edits = 0 /\ faults = 0 /\ crashes = 0

--------------------------------------------------------------------------------
(* Opening, binding, editing *)

\* A new project, or the head of a library row
NewProject(u) ==
    /\ ui.task = "idle" /\ doc[u] = None /\ lib[u].head = 0
    /\ doc' = [doc EXCEPT ![u] = EmptyState]
    /\ UNCHANGED <<libVars, binding, stop, snap, ui, budgets>>

OpenProject(u) ==
    /\ ui.task = "idle" /\ doc[u] = None /\ lib[u].head > 0
    /\ doc' = [doc EXCEPT ![u] = HeadState(lib[u])]
    /\ UNCHANGED <<libVars, binding, stop, snap, ui, budgets>>

\* bind_project: no database write; the thread is started when none is alive
EnsureThread ==
    IF snap.at = "none"
    THEN stop' = FALSE /\ snap' = [NoThread EXCEPT !.at = "loop"]
    ELSE UNCHANGED <<stop, snap>>

\* A binding's key is the address of the project.  The model assumes that a project
\* closed during a pass is not reallocated at the same address before the pass is over.
AddressFree(u) ==
    /\ \A j \in snap.jobs : j.key # u
    /\ snap.at = "clear" => snap.job.key # u

BindProject(u) ==
    /\ ui.task = "idle" /\ doc[u] # None /\ ~binding[u].on
    /\ AddressFree(u)
    /\ binding' = [binding EXCEPT ![u] = Fresh]
    /\ EnsureThread
    /\ UNCHANGED <<libVars, doc, ui, budgets>>

\* A command succeeds and its observer, note_command, takes the bound keys
Command(u, s) ==
    /\ ui.task = "idle" /\ doc[u] # None /\ edits < MaxEdits
    /\ doc' = [doc EXCEPT ![u] = s]
    /\ edits' = edits + 1
    /\ ui' = [Idle EXCEPT !.task = "note", !.keys = Bound]
    /\ UNCHANGED <<libVars, binding, stop, snap, faults, crashes>>

\* unbind_project, and with it the project is closed
UnbindProject(u) ==
    /\ ui.task = "idle" /\ binding[u].on
    /\ ui' = [Idle EXCEPT !.task = "unbind", !.keys = {u}]
    /\ UNCHANGED <<libVars, storageVars, budgets>>

--------------------------------------------------------------------------------
(* The steps of write_through and flush_one *)

\* The loop takes the next key: note_command writes it, a flush skips a clean one
NextKey(u) ==
    /\ ui.task \in {"note", "unbind", "flush"} /\ ui.at = "next" /\ u \in ui.keys
    /\ ui' = [ui EXCEPT !.key = u, !.keys = @ \ {u},
                        !.at = IF ui.task = "note" \/ binding[u].dirty THEN "write" ELSE "next"]
    /\ UNCHANGED <<libVars, storageVars, budgets>>

Write ==
    /\ ui.at = "write"
    /\ SaveProject(ui.key, doc[ui.key])
    /\ ui' = [ui EXCEPT !.at = "mark", !.ok = TRUE]
    /\ UNCHANGED <<storageVars, budgets>>

WriteFails ==
    /\ ui.at = "write" /\ faults < MaxFaults
    /\ faults' = faults + 1
    /\ ui' = [ui EXCEPT !.at = "mark", !.ok = FALSE]
    /\ UNCHANGED <<libVars, storageVars, edits, crashes>>

\* What a committed save and an error leave in a binding, if it is still there
Wrote(b) == [on |-> b.on, dirty |-> TRUE, write_gen |-> b.write_gen + 1, last_error |-> FALSE]
RecordError(b) == IF b.on THEN [b EXCEPT !.last_error = TRUE] ELSE b

\* Mutant: a failed write is not recorded
MarkSwallowsError ==
    /\ ui.at = "mark"
    /\ binding' = [binding EXCEPT ![ui.key] =
            IF ui.ok THEN Wrote(@) ELSE @]
    /\ ui' = [ui EXCEPT !.at = IF ui.task = "note" THEN "next" ELSE "snapshot"]
    /\ UNCHANGED <<libVars, doc, stop, snap, budgets>>

Mark ==
    /\ ui.at = "mark"
    /\ binding' = [binding EXCEPT ![ui.key] =
            IF ui.ok THEN Wrote(@) ELSE RecordError(@)]
    /\ ui' = [ui EXCEPT !.at = IF ui.task = "note" THEN "next" ELSE "snapshot"]
    /\ UNCHANGED <<libVars, doc, stop, snap, budgets>>

\* Mutant: a snapshot clears the flag whatever was written meanwhile
GenMatchesAlways(u, gen) == TRUE

\* the generation tells whether a write landed since it was read
GenMatches(u, gen) == binding[u].write_gen = gen

\* A snapshot fails with NotFound when the row is gone, else by a fault
SnapshotFails(u) ==
    /\ lib[u].head = 0 \/ faults < MaxFaults
    /\ faults' = IF lib[u].head = 0 THEN faults ELSE faults + 1
    /\ binding' = [binding EXCEPT ![u] = RecordError(@)]
    /\ UNCHANGED <<libVars, doc, stop, edits, crashes>>

\* Mutant: the generation is the one before the write
FlushSnapshotStaleGen ==
    /\ ui.at = "snapshot"
    /\ SnapshotProject(ui.key)
    /\ ui' = [ui EXCEPT !.at = "clear", !.gen = binding[ui.key].write_gen - 1]
    /\ UNCHANGED <<storageVars, budgets>>

\* The generation is read after the write, before the snapshot
FlushSnapshot ==
    /\ ui.at = "snapshot"
    /\ SnapshotProject(ui.key)
    /\ ui' = [ui EXCEPT !.at = "clear", !.gen = binding[ui.key].write_gen]
    /\ UNCHANGED <<storageVars, budgets>>

FlushSnapshotFails ==
    /\ ui.at = "snapshot"
    /\ SnapshotFails(ui.key)
    /\ ui' = [ui EXCEPT !.at = "next"]
    /\ UNCHANGED snap

FlushClear ==
    /\ ui.at = "clear"
    /\ binding' = [binding EXCEPT ![ui.key] =
            IF @.on /\ GenMatches(ui.key, ui.gen) THEN [@ EXCEPT !.dirty = FALSE] ELSE @]
    /\ ui' = [ui EXCEPT !.at = "next", !.gen = 0]
    /\ UNCHANGED <<libVars, doc, stop, snap, budgets>>

TaskDone ==
    /\ ui.task \in {"note", "unbind", "flush"} /\ ui.at = "next" /\ ui.keys = {}
    /\ IF ui.task = "unbind"
       THEN /\ binding' = [binding EXCEPT ![ui.key] = Unbound]
            /\ doc' = [doc EXCEPT ![ui.key] = None]
       ELSE UNCHANGED <<binding, doc>>
    /\ ui' = IF ui.task = "flush" THEN [Idle EXCEPT !.task = "flushed"] ELSE Idle
    /\ UNCHANGED <<libVars, stop, snap, budgets>>

--------------------------------------------------------------------------------
(* The exit flush *)

\* flush_all: raise the flag under the lock ...
FlushAll ==
    /\ ui.task = "idle"
    /\ stop' = TRUE
    /\ ui' = [Idle EXCEPT !.task = "stop"]
    /\ UNCHANGED <<libVars, doc, binding, snap, budgets>>

\* ... notify whoever waits at that moment ...
NotifyStop ==
    /\ ui.task = "stop"
    /\ snap' = IF snap.at = "asleep" THEN [snap EXCEPT !.at = "woken"] ELSE snap
    /\ ui' = [ui EXCEPT !.task = "join"]
    /\ UNCHANGED <<libVars, doc, binding, stop, budgets>>

\* ... join the thread and drain the bindings
Join ==
    /\ ui.task = "join" /\ snap.at = "none"
    /\ ui' = [Idle EXCEPT !.task = "flush", !.keys = Bound]
    /\ UNCHANGED <<libVars, storageVars, budgets>>

\* The process ends after the flush, or the caller goes on (flush_all may be repeated)
GoOn ==
    /\ ui.task = "flushed"
    /\ ui' = Idle
    /\ UNCHANGED <<libVars, storageVars, budgets>>

--------------------------------------------------------------------------------
(* The snapshot thread *)

\* snapshot_loop waits without looking at the flag first
Sleep ==
    /\ snap.at = "loop"
    /\ snap' = [snap EXCEPT !.at = "asleep"]
    /\ UNCHANGED <<libVars, doc, binding, stop, ui, budgets>>

Timeout ==
    /\ snap.at = "asleep"
    /\ snap' = [snap EXCEPT !.at = "woken"]
    /\ UNCHANGED <<libVars, doc, binding, stop, ui, budgets>>

\* Mutant: the flag is not looked at after a wait
WakeIgnoresStop ==
    /\ snap.at = "woken"
    /\ snap' = [NoThread EXCEPT !.at = "pass",
                    !.jobs = {[key |-> u, gen |-> binding[u].write_gen] :
                                u \in {v \in Bound : binding[v].dirty}}]
    /\ UNCHANGED <<libVars, doc, binding, stop, ui, budgets>>

\* the flag ends the thread, else snapshot_dirty takes the dirty keys
Wake ==
    /\ snap.at = "woken"
    /\ snap' = IF stop THEN NoThread
               ELSE [NoThread EXCEPT !.at = "pass",
                        !.jobs = {[key |-> u, gen |-> binding[u].write_gen] :
                                    u \in {v \in Bound : binding[v].dirty}}]
    /\ UNCHANGED <<libVars, doc, binding, stop, ui, budgets>>

PassJob(j) ==
    /\ snap.at = "pass" /\ j \in snap.jobs
    /\ SnapshotProject(j.key)
    /\ snap' = [at |-> "clear", jobs |-> snap.jobs \ {j}, job |-> j]
    /\ UNCHANGED <<doc, binding, stop, ui, budgets>>

PassJobFails(j) ==
    /\ snap.at = "pass" /\ j \in snap.jobs
    /\ SnapshotFails(j.key)
    /\ snap' = [snap EXCEPT !.jobs = @ \ {j}]
    /\ UNCHANGED ui

\* Mutant: the thread leaves the flag alone
PassClearDropped ==
    /\ snap.at = "clear"
    /\ snap' = [snap EXCEPT !.at = "pass", !.job = None]
    /\ UNCHANGED <<libVars, doc, binding, stop, ui, budgets>>

PassClear ==
    /\ snap.at = "clear"
    /\ binding' = [binding EXCEPT ![snap.job.key] =
            IF @.on /\ GenMatches(snap.job.key, snap.job.gen)
            THEN [@ EXCEPT !.dirty = FALSE] ELSE @]
    /\ snap' = [snap EXCEPT !.at = "pass", !.job = None]
    /\ UNCHANGED <<libVars, doc, stop, ui, budgets>>

PassEnds ==
    /\ snap.at = "pass" /\ snap.jobs = {}
    /\ snap' = [NoThread EXCEPT !.at = "loop"]
    /\ UNCHANGED <<libVars, doc, binding, stop, ui, budgets>>

--------------------------------------------------------------------------------
(* The library manager, and the end of the process *)

ManagerDelete(u) ==
    /\ ui.task = "idle"
    /\ DeleteProject(u)
    /\ UNCHANGED <<storageVars, ui, budgets>>

TimePasses ==
    /\ Tick
    /\ UNCHANGED <<storageVars, ui, budgets>>

\* What is in memory is gone; a transaction is committed or it is not
Crash ==
    /\ crashes < MaxCrashes
    /\ crashes' = crashes + 1
    /\ doc' = [u \in Uuid |-> None]
    /\ binding' = [u \in Uuid |-> Unbound]
    /\ stop' = FALSE /\ snap' = NoThread /\ ui' = Idle
    /\ UNCHANGED <<libVars, edits, faults>>

--------------------------------------------------------------------------------
UiStep ==
    \/ \E u \in Uuid : NextKey(u)
    \/ Write \/ WriteFails \/ Mark
    \/ FlushSnapshot \/ FlushSnapshotFails \/ FlushClear
    \/ TaskDone \/ NotifyStop \/ Join

ThreadStep ==
    \/ Sleep \/ Timeout \/ Wake
    \/ \E j \in snap.jobs : PassJob(j) \/ PassJobFails(j)
    \/ PassClear \/ PassEnds

UserStep ==
    \/ \E u \in Uuid :
        \/ NewProject(u) \/ OpenProject(u) \/ BindProject(u) \/ UnbindProject(u)
        \/ \E s \in State : Command(u, s)
        \/ ManagerDelete(u)
    \/ FlushAll \/ GoOn

Next == UiStep \/ ThreadStep \/ UserStep \/ TimePasses \/ Crash

Safety == Init /\ [][Next]_vars

\* A call that started goes on, the snapshot thread runs and its waits time out;
\* nobody has to edit, close or leave.
Spec == Safety /\ WF_vars(UiStep) /\ WF_vars(ThreadStep)

--------------------------------------------------------------------------------
(* Properties *)

\* a write of u is due or under way
Writing(u) == u \in ui.keys \/ (ui.key = u /\ ui.at \in {"write", "mark"})
Snapshotted(u) == \E s \in lib[u].snaps : s.seq = lib[u].head
Written(u) == binding[u].on /\ binding[u].write_gen > 0 /\ lib[u].head > 0

(* The user sees every loss: when no write is due and a written project shows no
   error, the library holds it exactly as it is in memory, so a crash at that
   moment loses nothing (write_through, record_error). *)
LossIsReported ==
    \A u \in Uuid :
        Written(u) /\ ~Writing(u) /\ ~binding[u].last_error => HeadState(lib[u]) = doc[u]

(* A binding is clean only if the head it last wrote is covered by a snapshot: a
   write that lands while the thread or a flush snapshots is not lost (write_gen). *)
CleanIsSnapshotted ==
    \A u \in Uuid : Written(u) /\ ~Writing(u) /\ ~binding[u].dirty => Snapshotted(u)

(* When the exit flush is over, a project that is still dirty shows an error and
   the thread is gone (flush_all). *)
FlushDrains ==
    ui.task = "flushed" =>
        /\ snap.at = "none"
        /\ \A u \in Bound : binding[u].dirty => binding[u].last_error

(* A binding that was written is snapshotted in time, as long as its row and the
   thread live (snapshot_loop, snapshot_dirty). *)
DirtyIsSnapshotted ==
    \A u \in Uuid :
        binding[u].dirty ~> (~binding[u].dirty \/ lib[u].head = 0 \/ snap.at = "none")

(* The exit flush ends: a missed notification costs one interval, never more
   (flush_all joins a thread that waits with a timeout). *)
FlushEnds == ui.task = "stop" ~> ui.task \in {"flushed", "idle"}

================================================================================
