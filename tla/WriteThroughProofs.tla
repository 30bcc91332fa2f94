--------------------------- MODULE WriteThroughProofs ---------------------------
(* The safety of the write-through session for any projects, any number of commands,
   faults and crashes, and any snapshot and retention policy: a loss is reported, a
   clean project is snapshotted, and the exit flush drains. *)
EXTENDS WriteThrough, LibraryProofs

--------------------------------------------------------------------------------
(* The inductive invariant *)

Job == [key: Uuid, gen: Nat]
Binding == [on: BOOLEAN, dirty: BOOLEAN, write_gen: Nat, last_error: BOOLEAN]
Visiting == {"note", "unbind", "flush"}
Interface == [task: Visiting \cup {"idle", "stop", "join", "flushed"},
              at: {"next", "write", "mark", "snapshot", "clear"},
              key: Uuid \cup {None}, keys: SUBSET Uuid, ok: BOOLEAN, gen: Nat]
Thread == [at: {"none", "loop", "asleep", "woken", "pass", "clear"}, jobs: SUBSET Job, job: Job \cup {None}]

Types ==
    /\ doc \in [Uuid -> State \cup {None}]
    /\ binding \in [Uuid -> Binding]
    /\ stop \in BOOLEAN
    /\ snap \in Thread
    /\ ui \in Interface

\* What the user interface visits is bound, and what is bound is open
UiSound ==
    /\ \A u \in Bound : doc[u] \in State
    /\ ui.keys \subseteq Bound
    /\ ui.task \notin Visiting => ui.at = "next" /\ ui.keys = {}
    /\ ui.at # "next" => ui.key \in Bound
    /\ ui.task = "unbind" /\ ui.keys = {} => ui.key \in Bound
    /\ ui.task = "note" => ui.at \in {"next", "write", "mark"}
    /\ ui.at = "clear" => binding[ui.key].write_gen = ui.gen

\* A command is not yet written; a flush only writes again what was
Pending(u) == ui.task = "note" /\ (u \in ui.keys \/ (ui.key = u /\ ui.at \in {"write", "mark"}))
\* The write of u is committed and not yet marked
Committed(u) == ui.key = u /\ ui.at = "mark" /\ ui.ok
\* The head of a row is snapshotted
Covered(p) == \E s \in p.snaps : s.seq = p.head

LossSound ==
    /\ \A u \in Uuid : Written(u) /\ ~Pending(u) /\ ~binding[u].last_error => HeadState(lib[u]) = doc[u]
    /\ \A u \in Uuid : Committed(u) => lib[u].head > 0 /\ HeadState(lib[u]) = doc[u]

\* The jobs of a pass are not newer than their bindings, and the one that is snapshotted
\* may clear its binding only while nothing was committed since
JobsSound ==
    /\ \A j \in snap.jobs : binding[j.key].on => j.gen <= binding[j.key].write_gen
    /\ snap.at = "clear" =>
          /\ snap.job \in Job
          /\ binding[snap.job.key].on => snap.job.gen <= binding[snap.job.key].write_gen
          /\ Written(snap.job.key) /\ ~Committed(snap.job.key)
               /\ binding[snap.job.key].write_gen = snap.job.gen => Covered(lib[snap.job.key])

CleanSound ==
    /\ \A u \in Uuid : Written(u) /\ ~Committed(u) /\ ~binding[u].dirty => Covered(lib[u])
    /\ ui.at = "clear" => Covered(lib[ui.key])

DrainSound ==
    /\ ui.task \in {"flush", "flushed"} => snap.at = "none"
    /\ ui.task = "flush" => \A u \in Bound :
          u \in ui.keys \/ (ui.key = u /\ ui.at # "next") \/ ~binding[u].dirty \/ binding[u].last_error
    /\ ui.task = "flushed" => \A u \in Bound : binding[u].dirty => binding[u].last_error

IInv == LibSound /\ Types /\ UiSound /\ LossSound /\ JobsSound /\ CleanSound /\ DrainSound

--------------------------------------------------------------------------------
(* Every action keeps it *)

\* What a job and a binding are made of.
LEMMA Parts ==
    ASSUME IInv
    PROVE  /\ \A j \in snap.jobs : j.key \in Uuid /\ j.gen \in Nat
           /\ snap.at = "clear" => snap.job.key \in Uuid /\ snap.job.gen \in Nat
           /\ \A u \in Uuid : binding[u].on \in BOOLEAN /\ binding[u].write_gen \in Nat
BY DEF IInv, Types, Thread, Job, Binding, JobsSound

\* What a committed save leaves in a binding.
LEMMA WroteIs ==
    ASSUME NEW b \in Binding
    PROVE  /\ Wrote(b) \in Binding /\ Wrote(b).on = b.on /\ Wrote(b).dirty = TRUE
           /\ Wrote(b).write_gen = b.write_gen + 1 /\ Wrote(b).last_error = FALSE
BY DEF Binding, Wrote

\* What an error leaves in a binding.
LEMMA RecordErrorIs ==
    ASSUME NEW b \in Binding
    PROVE  /\ RecordError(b) \in Binding /\ RecordError(b).on = b.on /\ RecordError(b).dirty = b.dirty
           /\ RecordError(b).write_gen = b.write_gen
           /\ b.on \/ b.last_error => RecordError(b).last_error
BY DEF Binding, RecordError

\* The state at the head of a row is a project.
LEMMA HeadIsProject == ASSUME LibSound, NEW u \in Uuid PROVE HeadState(lib[u]) \in State
<1>1. RowSound(lib[u], hist[u])
  BY DEF LibSound
<1>2. hist[u] \in Seq(State) /\ Len(hist[u]) = lib[u].head /\ EmptyState \in State
  BY <1>1 DEF RowSound, EmptyState, State
<1>3. lib[u].head \in Nat
  BY <1>1 DEF RowSound, Row
<1>4. At(hist[u], lib[u].head) \in State
  BY <1>2, <1>3 DEF At
<1> QED
  BY <1>1, <1>4, HeadIs

\* A new project is opened, which no binding shows yet.
LEMMA NewProjectKeeps == ASSUME IInv, NEW u \in Uuid, NewProject(u) PROVE IInv'
<1>0. EmptyState \in State
  BY DEF EmptyState, State
<1>1. /\ \A v \in Uuid : v # u => doc'[v] = doc[v]
      /\ doc[u] = None
      /\ doc' \in [Uuid -> State \cup {None}]
      /\ binding' = binding /\ stop' = stop /\ snap' = snap /\ ui' = ui
      /\ ~binding[u].on
  BY <1>0, SessionAssumption DEF NewProject, IInv, Types, UiSound, Bound
<1>2. LibSound' /\ lib' = lib
  BY LibraryStutters DEF NewProject, IInv, libVars
<1>3. Types'
  BY <1>1, <1>2 DEF IInv, Types, Interface, Thread, Binding, Job, Visiting
<1>4. UiSound'
  BY <1>1, <1>2 DEF IInv, UiSound, Bound, Visiting
<1>5. LossSound'
  <2>1. \A v \in Uuid : Committed(v) => v # u
    BY <1>1 DEF IInv, UiSound, Bound, Committed
  <2> QED
    BY <1>1, <1>2, <2>1 DEF IInv, LossSound, Written, Pending, Committed
<1>6. JobsSound'
  BY <1>1, <1>2, Parts DEF IInv, JobsSound, Written, Committed
<1>7. CleanSound'
  BY <1>1, <1>2 DEF IInv, CleanSound, Written, Committed
<1>8. DrainSound'
  BY <1>1, <1>2 DEF IInv, DrainSound, Bound
<1> QED
  BY <1>2, <1>3, <1>4, <1>5, <1>6, <1>7, <1>8 DEF IInv

\* A project of the library is opened.
LEMMA OpenProjectKeeps == ASSUME IInv, NEW u \in Uuid, OpenProject(u) PROVE IInv'
<1>0. HeadState(lib[u]) \in State
  BY HeadIsProject DEF IInv
<1>1. /\ \A v \in Uuid : v # u => doc'[v] = doc[v]
      /\ doc[u] = None
      /\ doc' \in [Uuid -> State \cup {None}]
      /\ binding' = binding /\ stop' = stop /\ snap' = snap /\ ui' = ui
      /\ ~binding[u].on
  BY <1>0, SessionAssumption DEF OpenProject, IInv, Types, UiSound, Bound
<1>2. LibSound' /\ lib' = lib
  BY LibraryStutters DEF OpenProject, IInv, libVars
<1>3. Types'
  BY <1>1, <1>2 DEF IInv, Types, Interface, Thread, Binding, Job, Visiting
<1>4. UiSound'
  BY <1>1, <1>2 DEF IInv, UiSound, Bound, Visiting
<1>5. LossSound'
  <2>1. \A v \in Uuid : Committed(v) => v # u
    BY <1>1 DEF IInv, UiSound, Bound, Committed
  <2> QED
    BY <1>1, <1>2, <2>1 DEF IInv, LossSound, Written, Pending, Committed
<1>6. JobsSound'
  BY <1>1, <1>2, Parts DEF IInv, JobsSound, Written, Committed
<1>7. CleanSound'
  BY <1>1, <1>2 DEF IInv, CleanSound, Written, Committed
<1>8. DrainSound'
  BY <1>1, <1>2 DEF IInv, DrainSound, Bound
<1> QED
  BY <1>2, <1>3, <1>4, <1>5, <1>6, <1>7, <1>8 DEF IInv

\* The user closes a project.
LEMMA UnbindProjectKeeps == ASSUME IInv, NEW u \in Uuid, UnbindProject(u) PROVE IInv'
<1>1. /\ doc' = doc /\ binding' = binding /\ stop' = stop /\ snap' = snap
      /\ ui.task = "idle" /\ binding[u].on
      /\ ui' \in Interface /\ ui'.task = "unbind" /\ ui'.at = "next" /\ ui'.key = None /\ ui'.keys = {u}
      /\ ui'.ok = TRUE
      /\ ui.at = "next"
  BY DEF UnbindProject, IInv, Types, UiSound, Idle, Interface, Visiting, storageVars
<1>2. LibSound' /\ lib' = lib
  BY LibraryStutters DEF UnbindProject, IInv, libVars
<1>3. Types'
  BY <1>1, <1>2 DEF IInv, Types, Interface, Thread, Binding, Job, Visiting
<1>4. UiSound'
  BY <1>1, <1>2 DEF IInv, UiSound, Bound, Visiting
<1>5. LossSound'
  BY <1>1, <1>2 DEF IInv, LossSound, Written, Pending, Committed
<1>6. JobsSound'
  BY <1>1, <1>2, Parts DEF IInv, JobsSound, Written, Committed
<1>7. CleanSound'
  BY <1>1, <1>2 DEF IInv, CleanSound, Written, Committed
<1>8. DrainSound'
  BY <1>1, <1>2 DEF IInv, DrainSound, Bound
<1> QED
  BY <1>2, <1>3, <1>4, <1>5, <1>6, <1>7, <1>8 DEF IInv

\* A command succeeds; its observer is about to save every bound project.
LEMMA CommandKeeps == ASSUME IInv, NEW u \in Uuid, NEW s \in State, Command(u, s) PROVE IInv'
<1>1. /\ \A v \in Uuid : v # u => doc'[v] = doc[v]
      /\ doc'[u] \in State /\ doc' \in [Uuid -> State \cup {None}]
      /\ binding' = binding /\ stop' = stop /\ snap' = snap
      /\ ui.task = "idle"
      /\ ui' \in Interface /\ ui'.task = "note" /\ ui'.at = "next" /\ ui'.key = None /\ ui'.keys = Bound
      /\ ui'.ok = TRUE
      /\ ui.at = "next"
  BY DEF Command, IInv, Types, UiSound, Idle, Interface, Visiting, Bound
<1>2. LibSound' /\ lib' = lib
  BY LibraryStutters DEF Command, IInv, libVars
<1>3. Types'
  BY <1>1, <1>2 DEF IInv, Types, Interface, Thread, Binding, Job, Visiting
<1>4. UiSound'
  BY <1>1, <1>2 DEF IInv, UiSound, Bound, Visiting
<1>5. LossSound'
  BY <1>1, <1>2 DEF IInv, LossSound, Written, Pending, Committed, Bound
<1>6. JobsSound'
  BY <1>1, <1>2, Parts DEF IInv, JobsSound, Written, Committed
<1>7. CleanSound'
  BY <1>1, <1>2 DEF IInv, CleanSound, Written, Committed
<1>8. DrainSound'
  BY <1>1, <1>2 DEF IInv, DrainSound, Bound
<1> QED
  BY <1>2, <1>3, <1>4, <1>5, <1>6, <1>7, <1>8 DEF IInv

\* The loop takes its next key.
LEMMA NextKeyKeeps == ASSUME IInv, NEW u \in Uuid, NextKey(u) PROVE IInv'
<1>1. /\ doc' = doc /\ binding' = binding /\ stop' = stop /\ snap' = snap
      /\ ui.task \in Visiting /\ ui.at = "next" /\ u \in ui.keys
      /\ /\ ui' \in Interface /\ ui'.task = ui.task /\ ui'.key = u /\ ui'.keys = ui.keys \ {u}
      /\ ui'.at = IF ui.task = "note" \/ binding[u].dirty THEN "write" ELSE "next"
  BY DEF NextKey, IInv, Types, Interface, Visiting, storageVars
<1>2. LibSound' /\ lib' = lib
  BY LibraryStutters DEF NextKey, IInv, libVars
<1>3. Types'
  BY <1>1, <1>2 DEF IInv, Types, Interface, Thread, Binding, Job, Visiting
<1>4. UiSound'
  BY <1>1, <1>2 DEF IInv, UiSound, Bound, Visiting
<1>5. LossSound'
  BY <1>1, <1>2 DEF IInv, LossSound, Written, Pending, Committed
<1>6. JobsSound'
  BY <1>1, <1>2, Parts DEF IInv, JobsSound, Written, Committed
<1>7. CleanSound'
  BY <1>1, <1>2 DEF IInv, CleanSound, Written, Committed
<1>8. DrainSound'
  BY <1>1, <1>2 DEF IInv, DrainSound, Bound
<1> QED
  BY <1>2, <1>3, <1>4, <1>5, <1>6, <1>7, <1>8 DEF IInv

\* A save fails.
LEMMA WriteFailsKeeps == ASSUME IInv, WriteFails PROVE IInv'
<1>1. /\ doc' = doc /\ binding' = binding /\ stop' = stop /\ snap' = snap
      /\ ui.at = "write"
      /\ ui' \in Interface /\ ui'.task = ui.task /\ ui'.at = "mark" /\ ui'.key = ui.key
      /\ ui'.keys = ui.keys /\ ui'.ok = FALSE
  BY DEF WriteFails, IInv, Types, Interface, storageVars
<1>2. LibSound' /\ lib' = lib
  BY LibraryStutters DEF WriteFails, IInv, libVars
<1>3. Types'
  BY <1>1, <1>2 DEF IInv, Types, Interface, Thread, Binding, Job, Visiting
<1>4. UiSound'
  BY <1>1, <1>2 DEF IInv, UiSound, Bound, Visiting
<1>5. LossSound'
  BY <1>1, <1>2 DEF IInv, LossSound, Written, Pending, Committed
<1>6. JobsSound'
  BY <1>1, <1>2, Parts DEF IInv, JobsSound, Written, Committed
<1>7. CleanSound'
  BY <1>1, <1>2 DEF IInv, CleanSound, Written, Committed
<1>8. DrainSound'
  BY <1>1, <1>2 DEF IInv, DrainSound, Bound
<1> QED
  BY <1>2, <1>3, <1>4, <1>5, <1>6, <1>7, <1>8 DEF IInv

\* The exit flush begins.
LEMMA FlushAllKeeps == ASSUME IInv, FlushAll PROVE IInv'
<1>1. /\ doc' = doc /\ binding' = binding /\ stop' \in BOOLEAN /\ snap' = snap
      /\ ui' \in Interface /\ ui'.task = "stop" /\ ui'.at = "next" /\ ui'.key = None /\ ui'.keys = {} /\ ui'.ok = TRUE
      /\ ui.task = "idle" /\ ui.at = "next"
  BY DEF FlushAll, IInv, Types, UiSound, Visiting, Idle, Interface
<1>2. LibSound' /\ lib' = lib
  BY LibraryStutters DEF FlushAll, IInv, libVars
<1>3. Types'
  BY <1>1, <1>2 DEF IInv, Types, Interface, Thread, Binding, Job, Visiting
<1>4. UiSound'
  BY <1>1, <1>2 DEF IInv, UiSound, Bound, Visiting
<1>5. LossSound'
  BY <1>1, <1>2 DEF IInv, LossSound, Written, Pending, Committed
<1>6. JobsSound'
  BY <1>1, <1>2, Parts DEF IInv, JobsSound, Written, Committed
<1>7. CleanSound'
  BY <1>1, <1>2 DEF IInv, CleanSound, Written, Committed
<1>8. DrainSound'
  BY <1>1, <1>2 DEF IInv, DrainSound, Bound
<1> QED
  BY <1>2, <1>3, <1>4, <1>5, <1>6, <1>7, <1>8 DEF IInv

\* The thread is gone and the bindings are drained.
LEMMA JoinKeeps == ASSUME IInv, Join PROVE IInv'
<1>1. /\ doc' = doc /\ binding' = binding /\ stop' = stop /\ snap' = snap
      /\ ui.task = "join" /\ snap.at = "none"
      /\ ui' \in Interface /\ ui'.task = "flush" /\ ui'.at = "next" /\ ui'.key = None /\ ui'.keys = Bound
      /\ ui'.ok = TRUE
      /\ ui.at = "next"
  BY DEF Join, IInv, Types, UiSound, Idle, Interface, Visiting, Bound, storageVars
<1>2. LibSound' /\ lib' = lib
  BY LibraryStutters DEF Join, IInv, libVars
<1>3. Types'
  BY <1>1, <1>2 DEF IInv, Types, Interface, Thread, Binding, Job, Visiting
<1>4. UiSound'
  BY <1>1, <1>2 DEF IInv, UiSound, Bound, Visiting
<1>5. LossSound'
  BY <1>1, <1>2 DEF IInv, LossSound, Written, Pending, Committed
<1>6. JobsSound'
  BY <1>1, <1>2, Parts DEF IInv, JobsSound, Written, Committed
<1>7. CleanSound'
  BY <1>1, <1>2 DEF IInv, CleanSound, Written, Committed
<1>8. DrainSound'
  BY <1>1, <1>2 DEF IInv, DrainSound, Bound
<1> QED
  BY <1>2, <1>3, <1>4, <1>5, <1>6, <1>7, <1>8 DEF IInv

\* The caller of the flush goes on.
LEMMA GoOnKeeps == ASSUME IInv, GoOn PROVE IInv'
<1>1. /\ doc' = doc /\ binding' = binding /\ stop' = stop /\ snap' = snap
      /\ ui.task = "flushed"
      /\ ui' \in Interface /\ ui'.task = "idle" /\ ui'.at = "next" /\ ui'.key = None /\ ui'.keys = {} /\ ui'.ok = TRUE
      /\ ui.at = "next"
  BY DEF GoOn, IInv, Types, UiSound, Visiting, Idle, Interface, storageVars
<1>2. LibSound' /\ lib' = lib
  BY LibraryStutters DEF GoOn, IInv, libVars
<1>3. Types'
  BY <1>1, <1>2 DEF IInv, Types, Interface, Thread, Binding, Job, Visiting
<1>4. UiSound'
  BY <1>1, <1>2 DEF IInv, UiSound, Bound, Visiting
<1>5. LossSound'
  BY <1>1, <1>2 DEF IInv, LossSound, Written, Pending, Committed
<1>6. JobsSound'
  BY <1>1, <1>2, Parts DEF IInv, JobsSound, Written, Committed
<1>7. CleanSound'
  BY <1>1, <1>2 DEF IInv, CleanSound, Written, Committed
<1>8. DrainSound'
  BY <1>1, <1>2 DEF IInv, DrainSound, Bound
<1> QED
  BY <1>2, <1>3, <1>4, <1>5, <1>6, <1>7, <1>8 DEF IInv

\* The thread is notified, if it waits.
LEMMA NotifyStopKeeps == ASSUME IInv, NotifyStop PROVE IInv'
<1>1. /\ doc' = doc /\ binding' = binding /\ stop' = stop
      /\ ui.task = "stop"
      /\ ui' \in Interface /\ ui'.task = "join" /\ ui'.at = ui.at /\ ui'.key = ui.key /\ ui'.keys = ui.keys
      /\ ui'.ok = ui.ok
      /\ snap' \in Thread /\ snap'.jobs = snap.jobs /\ snap'.job = snap.job
      /\ snap'.at = "clear" <=> snap.at = "clear"
  BY DEF NotifyStop, IInv, Types, Interface, Thread
<1>2. LibSound' /\ lib' = lib
  BY LibraryStutters DEF NotifyStop, IInv, libVars
<1>3. Types'
  BY <1>1, <1>2 DEF IInv, Types, Interface, Thread, Binding, Job, Visiting
<1>4. UiSound'
  BY <1>1, <1>2 DEF IInv, UiSound, Bound, Visiting
<1>5. LossSound'
  BY <1>1, <1>2 DEF IInv, LossSound, Written, Pending, Committed
<1>6. JobsSound'
  BY <1>1, <1>2, Parts DEF IInv, JobsSound, Written, Committed
<1>7. CleanSound'
  BY <1>1, <1>2 DEF IInv, CleanSound, Written, Committed
<1>8. DrainSound'
  BY <1>1, <1>2 DEF IInv, DrainSound, Bound
<1> QED
  BY <1>2, <1>3, <1>4, <1>5, <1>6, <1>7, <1>8 DEF IInv

\* The thread waits.
LEMMA SleepKeeps == ASSUME IInv, Sleep PROVE IInv'
<1>1. /\ doc' = doc /\ binding' = binding /\ stop' = stop /\ ui' = ui
      /\ snap.at = "loop" /\ snap' \in Thread /\ snap'.at = "asleep" /\ snap'.jobs = snap.jobs
  BY DEF Sleep, IInv, Types, Thread
<1>2. LibSound' /\ lib' = lib
  BY LibraryStutters DEF Sleep, IInv, libVars
<1>3. Types'
  BY <1>1, <1>2 DEF IInv, Types, Interface, Thread, Binding, Job, Visiting
<1>4. UiSound'
  BY <1>1, <1>2 DEF IInv, UiSound, Bound, Visiting
<1>5. LossSound'
  BY <1>1, <1>2 DEF IInv, LossSound, Written, Pending, Committed
<1>6. JobsSound'
  BY <1>1, <1>2, Parts DEF IInv, JobsSound, Written, Committed
<1>7. CleanSound'
  BY <1>1, <1>2 DEF IInv, CleanSound, Written, Committed
<1>8. DrainSound'
  BY <1>1, <1>2 DEF IInv, DrainSound, Bound
<1> QED
  BY <1>2, <1>3, <1>4, <1>5, <1>6, <1>7, <1>8 DEF IInv

\* Its wait times out.
LEMMA TimeoutKeeps == ASSUME IInv, Timeout PROVE IInv'
<1>1. /\ doc' = doc /\ binding' = binding /\ stop' = stop /\ ui' = ui
      /\ snap.at = "asleep" /\ snap' \in Thread /\ snap'.at = "woken" /\ snap'.jobs = snap.jobs
  BY DEF Timeout, IInv, Types, Thread
<1>2. LibSound' /\ lib' = lib
  BY LibraryStutters DEF Timeout, IInv, libVars
<1>3. Types'
  BY <1>1, <1>2 DEF IInv, Types, Interface, Thread, Binding, Job, Visiting
<1>4. UiSound'
  BY <1>1, <1>2 DEF IInv, UiSound, Bound, Visiting
<1>5. LossSound'
  BY <1>1, <1>2 DEF IInv, LossSound, Written, Pending, Committed
<1>6. JobsSound'
  BY <1>1, <1>2, Parts DEF IInv, JobsSound, Written, Committed
<1>7. CleanSound'
  BY <1>1, <1>2 DEF IInv, CleanSound, Written, Committed
<1>8. DrainSound'
  BY <1>1, <1>2 DEF IInv, DrainSound, Bound
<1> QED
  BY <1>2, <1>3, <1>4, <1>5, <1>6, <1>7, <1>8 DEF IInv

\* A project is bound: nothing of it is written yet, and no job names it.
LEMMA BindProjectKeeps == ASSUME IInv, NEW u \in Uuid, BindProject(u) PROVE IInv'
<1>1. /\ doc' = doc /\ ui' = ui
      /\ \A v \in Uuid : v # u => binding'[v] = binding[v]
      /\ binding'[u].on /\ ~binding'[u].dirty /\ binding'[u].write_gen = 0 /\ ~binding'[u].last_error
      /\ binding' \in [Uuid -> Binding]
      /\ doc[u] \in State /\ ~binding[u].on
      /\ ui.task = "idle" /\ ui.at = "next" /\ ui.keys = {}
      /\ stop' \in BOOLEAN /\ snap' \in Thread
      /\ \/ snap' = snap /\ AddressFree(u)
         \/ snap'.jobs = {} /\ snap'.at = "loop"
  BY DEF BindProject, IInv, Types, UiSound, Unbound, Fresh, Binding, Thread, NoThread, EnsureThread, Visiting
<1>2. LibSound' /\ lib' = lib
  BY LibraryStutters DEF BindProject, IInv, libVars
<1>3. Types'
  BY <1>1, <1>2 DEF IInv, Types, Interface, Thread, Binding, Job, Visiting
<1>4. UiSound'
  BY <1>1, <1>2 DEF IInv, UiSound, Bound, Visiting
<1>5. LossSound'
  BY <1>1, <1>2 DEF IInv, LossSound, Written, Pending, Committed
<1>6. JobsSound'
  BY <1>1, <1>2, Parts DEF IInv, JobsSound, AddressFree, Written, Committed
<1>7. CleanSound'
  BY <1>1, <1>2 DEF IInv, CleanSound, Written, Committed
<1>8. DrainSound'
  BY <1>1, <1>2 DEF IInv, DrainSound, Bound
<1> QED
  BY <1>2, <1>3, <1>4, <1>5, <1>6, <1>7, <1>8 DEF IInv

\* A save commits.
LEMMA WriteKeeps == ASSUME IInv, Write PROVE IInv'
<1>1. /\ doc' = doc /\ binding' = binding /\ stop' = stop /\ snap' = snap
      /\ ui.at = "write" /\ ui.key \in Bound /\ ui.key \in Uuid
      /\ ui' \in Interface /\ ui'.task = ui.task /\ ui'.at = "mark" /\ ui'.key = ui.key
      /\ ui'.keys = ui.keys /\ ui'.ok = TRUE
  BY DEF Write, IInv, Types, UiSound, Bound, Interface, storageVars
<1>2. /\ LibSound' /\ lib'[ui.key].head > 0 /\ HeadState(lib'[ui.key]) = doc[ui.key]
      /\ \A v \in Uuid : v # ui.key => lib'[v] = lib[v]
  BY <1>1, SaveProjectKeeps DEF Write, IInv, UiSound, Bound
<1>3. Types'
  BY <1>1, <1>2 DEF IInv, Types, Interface, Thread, Binding, Job, Visiting
<1>4. UiSound'
  BY <1>1, <1>2 DEF IInv, UiSound, Bound, Visiting
<1>5. LossSound'
  BY <1>1, <1>2 DEF IInv, LossSound, Written, Pending, Committed
<1>6. JobsSound'
  BY <1>1, <1>2, Parts DEF IInv, JobsSound, Written, Committed
<1>7. CleanSound'
  BY <1>1, <1>2 DEF IInv, CleanSound, Written, Committed
<1>8. DrainSound'
  BY <1>1, <1>2 DEF IInv, DrainSound, Bound
<1> QED
  BY <1>2, <1>3, <1>4, <1>5, <1>6, <1>7, <1>8 DEF IInv

\* The outcome of the save is marked in the binding.
LEMMA MarkKeeps == ASSUME IInv, Mark PROVE IInv'
<1>0. ui.at = "mark" /\ ui.key \in Bound /\ ui.key \in Uuid /\ binding[ui.key].on /\ binding[ui.key] \in Binding
  BY DEF Mark, IInv, Types, UiSound, Bound
<1>a. /\ \A v \in Uuid : v # ui.key => binding'[v] = binding[v]
      /\ binding'[ui.key] = IF ui.ok THEN Wrote(binding[ui.key]) ELSE RecordError(binding[ui.key])
  BY <1>0 DEF Mark, IInv, Types
<1>b. ui.ok => /\ binding'[ui.key] \in Binding /\ binding'[ui.key].on
               /\ binding'[ui.key].dirty /\ binding'[ui.key].write_gen = binding[ui.key].write_gen + 1
               /\ ~binding'[ui.key].last_error
  BY <1>0, <1>a, WroteIs
<1>c. ~ui.ok => /\ binding'[ui.key] \in Binding /\ binding'[ui.key].on
                /\ (binding'[ui.key].dirty <=> binding[ui.key].dirty)
                /\ binding'[ui.key].write_gen = binding[ui.key].write_gen /\ binding'[ui.key].last_error
  BY <1>0, <1>a, RecordErrorIs
<1>d. binding' \in [Uuid -> Binding]
  BY <1>0, <1>a, <1>b, <1>c DEF Mark, IInv, Types
<1>1. /\ doc' = doc /\ stop' = stop /\ snap' = snap
      /\ ui.at = "mark" /\ ui.key \in Bound /\ ui.key \in Uuid
      /\ \A v \in Uuid : v # ui.key => binding'[v] = binding[v]
      /\ binding' \in [Uuid -> Binding] /\ binding'[ui.key].on
      /\ ui.ok => /\ binding'[ui.key].dirty /\ binding'[ui.key].write_gen = binding[ui.key].write_gen + 1
                  /\ ~binding'[ui.key].last_error
      /\ ~ui.ok => /\ (binding'[ui.key].dirty <=> binding[ui.key].dirty)
                   /\ binding'[ui.key].write_gen = binding[ui.key].write_gen /\ binding'[ui.key].last_error
      /\ ui' \in Interface /\ ui'.task = ui.task
      /\ ui'.at = (IF ui.task = "note" THEN "next" ELSE "snapshot") /\ ui'.key = ui.key /\ ui'.keys = ui.keys /\ ui'.ok = ui.ok
  BY <1>0, <1>a, <1>b, <1>c, <1>d DEF Mark, IInv, Types, Interface
<1>2. LibSound' /\ lib' = lib
  BY LibraryStutters DEF Mark, IInv, libVars
<1>3. Types'
  BY <1>1, <1>2 DEF IInv, Types, Interface, Thread, Binding, Job, Visiting
<1>4. UiSound'
  BY <1>1, <1>2 DEF IInv, UiSound, Bound, Visiting
<1>5. LossSound'
  BY <1>1, <1>2 DEF IInv, LossSound, Written, Pending, Committed
<1>6. JobsSound'
  <2>1. ASSUME NEW j \in snap'.jobs, binding'[j.key].on PROVE j.gen <= binding'[j.key].write_gen
    <3>1. j \in snap.jobs /\ j.key \in Uuid /\ j.gen \in Nat /\ binding[j.key].write_gen \in Nat
      BY <1>1, Parts
    <3>2. CASE j.key = ui.key
      BY <1>1, <2>1, <3>1, <3>2 DEF IInv, JobsSound, Bound
    <3>3. CASE j.key # ui.key
      BY <1>1, <2>1, <3>1, <3>3 DEF IInv, JobsSound
    <3> QED
      BY <3>2, <3>3
  <2>2. ASSUME snap'.at = "clear"
        PROVE  /\ snap'.job \in Job
               /\ binding'[snap'.job.key].on => snap'.job.gen <= binding'[snap'.job.key].write_gen
               /\ Written(snap.job.key)' /\ ~Committed(snap.job.key)'
                    /\ binding'[snap.job.key].write_gen = snap.job.gen => Covered(lib'[snap.job.key])
    <3>1. snap.at = "clear" /\ snap' = snap /\ snap.job.key \in Uuid /\ snap.job.gen \in Nat
          /\ binding[snap.job.key].write_gen \in Nat
      BY <1>1, <2>2, Parts
    <3>2. CASE snap.job.key = ui.key
      BY <1>1, <1>2, <3>1, <3>2 DEF IInv, JobsSound, Written, Committed, Bound
    <3>3. CASE snap.job.key # ui.key
      BY <1>1, <1>2, <3>1, <3>3 DEF IInv, JobsSound, Written, Committed
    <3> QED
      BY <3>1, <3>2, <3>3
  <2> QED
    BY <1>1, <2>1, <2>2 DEF JobsSound
<1>7. CleanSound'
  <2>1. ASSUME NEW u \in Uuid, Written(u)', ~Committed(u)', ~binding'[u].dirty PROVE Covered(lib'[u])
    <3>1. CASE u = ui.key
      BY <1>1, <1>2, <2>1, <3>1 DEF IInv, CleanSound, Written, Committed, Bound
    <3>2. CASE u # ui.key
      BY <1>1, <1>2, <2>1, <3>2 DEF IInv, CleanSound, Written, Committed
    <3> QED
      BY <3>1, <3>2
  <2>2. ui'.at = "clear" => Covered(lib'[ui'.key])
    BY <1>1, <1>2 DEF IInv, CleanSound
  <2> QED
    BY <2>1, <2>2 DEF CleanSound
<1>8. DrainSound'
  BY <1>1, <1>2 DEF IInv, DrainSound, UiSound, Visiting, Bound
<1> QED
  BY <1>2, <1>3, <1>4, <1>5, <1>6, <1>7, <1>8 DEF IInv

\* A flush snapshots the project it visits.
LEMMA FlushSnapshotKeeps == ASSUME IInv, FlushSnapshot PROVE IInv'
<1>1. /\ doc' = doc /\ binding' = binding /\ stop' = stop /\ snap' = snap
      /\ ui.at = "snapshot" /\ ui.key \in Uuid
      /\ ui' \in Interface /\ ui'.task = ui.task /\ ui'.at = "clear" /\ ui'.key = ui.key
      /\ ui'.keys = ui.keys /\ ui'.ok = ui.ok /\ ui'.gen = binding[ui.key].write_gen
  <2>1. ui.at = "snapshot" /\ ui.key \in Uuid /\ binding[ui.key].write_gen \in Nat
    BY DEF FlushSnapshot, IInv, Types, UiSound, Bound, Binding
  <2> QED
    BY <2>1 DEF FlushSnapshot, IInv, Types, Interface, storageVars
<1>2. /\ LibSound' /\ lib'[ui.key].head = lib[ui.key].head /\ HeadState(lib'[ui.key]) = HeadState(lib[ui.key])
      /\ Covered(lib'[ui.key]) /\ \A v \in Uuid : v # ui.key => lib'[v] = lib[v]
  BY <1>1, SnapshotProjectKeeps DEF FlushSnapshot, IInv, Covered
<1>3. Types'
  BY <1>1, <1>2 DEF IInv, Types, Interface, Thread, Binding, Job, Visiting
<1>4. UiSound'
  BY <1>1, <1>2 DEF IInv, UiSound, Bound, Visiting
<1>5. LossSound'
  BY <1>1, <1>2 DEF IInv, LossSound, Written, Pending, Committed
<1>6. JobsSound'
  BY <1>1, <1>2, Parts DEF IInv, JobsSound, Written, Committed
<1>7. CleanSound'
  BY <1>1, <1>2 DEF IInv, CleanSound, Written, Committed
<1>8. DrainSound'
  BY <1>1, <1>2 DEF IInv, DrainSound, Bound
<1> QED
  BY <1>2, <1>3, <1>4, <1>5, <1>6, <1>7, <1>8 DEF IInv

\* The snapshot of a flush fails, which its binding shows.
LEMMA FlushSnapshotFailsKeeps == ASSUME IInv, FlushSnapshotFails PROVE IInv'
<1>1. /\ doc' = doc /\ stop' = stop /\ snap' = snap
      /\ ui.at = "snapshot" /\ ui.key \in Bound /\ ui.key \in Uuid
      /\ \A v \in Uuid : v # ui.key => binding'[v] = binding[v]
      /\ binding' \in [Uuid -> Binding] /\ binding'[ui.key].on /\ (binding'[ui.key].dirty <=> binding[ui.key].dirty)
      /\ binding'[ui.key].write_gen = binding[ui.key].write_gen /\ binding'[ui.key].last_error
      /\ ui' \in Interface /\ ui'.task = ui.task /\ ui'.at = "next" /\ ui'.key = ui.key
      /\ ui'.keys = ui.keys /\ ui'.ok = ui.ok
  BY DEF FlushSnapshotFails, IInv, Types, UiSound, Bound, Binding, Interface, SnapshotFails, RecordError
<1>2. LibSound' /\ lib' = lib
  BY LibraryStutters DEF FlushSnapshotFails, SnapshotFails, IInv, libVars
<1>3. Types'
  BY <1>1, <1>2 DEF IInv, Types, Interface, Thread, Binding, Job, Visiting
<1>4. UiSound'
  BY <1>1, <1>2 DEF IInv, UiSound, Bound, Visiting
<1>5. LossSound'
  BY <1>1, <1>2 DEF IInv, LossSound, Written, Pending, Committed
<1>6. JobsSound'
  <2>1. ASSUME NEW j \in snap'.jobs, binding'[j.key].on PROVE j.gen <= binding'[j.key].write_gen
    <3>1. j \in snap.jobs /\ j.key \in Uuid /\ j.gen \in Nat /\ binding[j.key].write_gen \in Nat
      BY <1>1, Parts
    <3>2. CASE j.key = ui.key
      BY <1>1, <2>1, <3>1, <3>2 DEF IInv, JobsSound, Bound
    <3>3. CASE j.key # ui.key
      BY <1>1, <2>1, <3>1, <3>3 DEF IInv, JobsSound
    <3> QED
      BY <3>2, <3>3
  <2>2. ASSUME snap'.at = "clear"
        PROVE  /\ snap'.job \in Job
               /\ binding'[snap'.job.key].on => snap'.job.gen <= binding'[snap'.job.key].write_gen
               /\ Written(snap.job.key)' /\ ~Committed(snap.job.key)'
                    /\ binding'[snap.job.key].write_gen = snap.job.gen => Covered(lib'[snap.job.key])
    <3>1. snap.at = "clear" /\ snap' = snap /\ snap.job.key \in Uuid /\ snap.job.gen \in Nat
          /\ binding[snap.job.key].write_gen \in Nat
      BY <1>1, <2>2, Parts
    <3>2. CASE snap.job.key = ui.key
      BY <1>1, <1>2, <3>1, <3>2 DEF IInv, JobsSound, Written, Committed, Bound
    <3>3. CASE snap.job.key # ui.key
      BY <1>1, <1>2, <3>1, <3>3 DEF IInv, JobsSound, Written, Committed
    <3> QED
      BY <3>1, <3>2, <3>3
  <2> QED
    BY <1>1, <2>1, <2>2 DEF JobsSound
<1>7. CleanSound'
  <2>1. ASSUME NEW u \in Uuid, Written(u)', ~Committed(u)', ~binding'[u].dirty PROVE Covered(lib'[u])
    <3>1. CASE u = ui.key
      BY <1>1, <1>2, <2>1, <3>1 DEF IInv, CleanSound, Written, Committed, Bound
    <3>2. CASE u # ui.key
      BY <1>1, <1>2, <2>1, <3>2 DEF IInv, CleanSound, Written, Committed
    <3> QED
      BY <3>1, <3>2
  <2>2. ui'.at = "clear" => Covered(lib'[ui'.key])
    BY <1>1, <1>2 DEF IInv, CleanSound
  <2> QED
    BY <2>1, <2>2 DEF CleanSound
<1>8. DrainSound'
  BY <1>1, <1>2 DEF IInv, DrainSound, Bound
<1> QED
  BY <1>2, <1>3, <1>4, <1>5, <1>6, <1>7, <1>8 DEF IInv

\* A flush has snapshotted the project and clears its flag.
LEMMA FlushClearKeeps == ASSUME IInv, FlushClear PROVE IInv'
<1>1. /\ doc' = doc /\ stop' = stop /\ snap' = snap
      /\ ui.at = "clear" /\ ui.key \in Bound /\ ui.key \in Uuid
      /\ \A v \in Uuid : v # ui.key => binding'[v] = binding[v]
      /\ binding' \in [Uuid -> Binding] /\ binding'[ui.key].on /\ ~binding'[ui.key].dirty
      /\ binding'[ui.key].write_gen = binding[ui.key].write_gen /\ (binding'[ui.key].last_error <=> binding[ui.key].last_error)
      /\ ui' \in Interface /\ ui'.task = ui.task /\ ui'.at = "next" /\ ui'.key = ui.key
      /\ ui'.keys = ui.keys /\ ui'.ok = ui.ok
  <2>1. /\ ui.at = "clear" /\ ui.key \in Bound /\ ui.key \in Uuid
        /\ binding[ui.key] \in Binding /\ binding[ui.key].on /\ GenMatches(ui.key, ui.gen)
    BY DEF FlushClear, IInv, Types, UiSound, Bound, GenMatches
  <2>2. binding' = [binding EXCEPT ![ui.key] = [binding[ui.key] EXCEPT !.dirty = FALSE]]
    <3> DEFINE b == IF binding[ui.key].on /\ GenMatches(ui.key, ui.gen)
                    THEN [binding[ui.key] EXCEPT !.dirty = FALSE] ELSE binding[ui.key]
    <3>1. b = [binding[ui.key] EXCEPT !.dirty = FALSE]
      BY <2>1
    <3>2. binding' = [binding EXCEPT ![ui.key] = b]
      BY DEF FlushClear
    <3> HIDE DEF b
    <3> QED
      BY <3>1, <3>2
  <2> DEFINE c == [binding[ui.key] EXCEPT !.dirty = FALSE]
  <2>3. /\ c \in Binding /\ c.on /\ ~c.dirty /\ c.write_gen = binding[ui.key].write_gen
        /\ (c.last_error <=> binding[ui.key].last_error)
    BY <2>1 DEF Binding
  <2>4. /\ doc' = doc /\ stop' = stop /\ snap' = snap
        /\ ui' \in Interface /\ ui'.task = ui.task /\ ui'.at = "next" /\ ui'.key = ui.key
        /\ ui'.keys = ui.keys /\ ui'.ok = ui.ok
    BY DEF FlushClear, IInv, Types, Interface
  <2>5. binding' = [binding EXCEPT ![ui.key] = c] /\ binding \in [Uuid -> Binding]
    BY <2>2 DEF IInv, Types
  <2> HIDE DEF c
  <2> QED
    BY <2>1, <2>3, <2>4, <2>5
<1>2. LibSound' /\ lib' = lib
  BY LibraryStutters DEF FlushClear, IInv, libVars
<1>3. Types'
  BY <1>1, <1>2 DEF IInv, Types, Interface, Thread, Binding, Job, Visiting
<1>4. UiSound'
  BY <1>1, <1>2 DEF IInv, UiSound, Bound, Visiting
<1>5. LossSound'
  <2>1. ASSUME NEW u \in Uuid, Written(u)', ~Pending(u)', ~binding'[u].last_error
        PROVE  HeadState(lib'[u]) = doc'[u]
    <3>1. CASE u = ui.key
      BY <1>1, <1>2, <2>1, <3>1 DEF IInv, LossSound, Written, Pending, Committed, Bound
    <3>2. CASE u # ui.key
      BY <1>1, <1>2, <2>1, <3>2 DEF IInv, LossSound, Written, Pending, Committed
    <3> QED
      BY <3>1, <3>2
  <2>2. \A u \in Uuid : Committed(u)' => lib'[u].head > 0 /\ HeadState(lib'[u]) = doc'[u]
    BY <1>1, <1>2 DEF IInv, LossSound, Committed
  <2> QED
    BY <2>1, <2>2 DEF LossSound
<1>6. JobsSound'
  <2>1. ASSUME NEW j \in snap'.jobs, binding'[j.key].on PROVE j.gen <= binding'[j.key].write_gen
    <3>1. j \in snap.jobs /\ j.key \in Uuid /\ j.gen \in Nat /\ binding[j.key].write_gen \in Nat
      BY <1>1, Parts
    <3>2. CASE j.key = ui.key
      BY <1>1, <2>1, <3>1, <3>2 DEF IInv, JobsSound, Bound
    <3>3. CASE j.key # ui.key
      BY <1>1, <2>1, <3>1, <3>3 DEF IInv, JobsSound
    <3> QED
      BY <3>2, <3>3
  <2>2. ASSUME snap'.at = "clear"
        PROVE  /\ snap'.job \in Job
               /\ binding'[snap'.job.key].on => snap'.job.gen <= binding'[snap'.job.key].write_gen
               /\ Written(snap.job.key)' /\ ~Committed(snap.job.key)'
                    /\ binding'[snap.job.key].write_gen = snap.job.gen => Covered(lib'[snap.job.key])
    <3>1. snap.at = "clear" /\ snap' = snap /\ snap.job.key \in Uuid /\ snap.job.gen \in Nat
          /\ binding[snap.job.key].write_gen \in Nat
      BY <1>1, <2>2, Parts
    <3>2. CASE snap.job.key = ui.key
      BY <1>1, <1>2, <3>1, <3>2 DEF IInv, JobsSound, Written, Committed, Bound
    <3>3. CASE snap.job.key # ui.key
      BY <1>1, <1>2, <3>1, <3>3 DEF IInv, JobsSound, Written, Committed
    <3> QED
      BY <3>1, <3>2, <3>3
  <2> QED
    BY <1>1, <2>1, <2>2 DEF JobsSound
<1>7. CleanSound'
  BY <1>1, <1>2 DEF IInv, CleanSound, Written, Committed
<1>8. DrainSound'
  BY <1>1, <1>2 DEF IInv, DrainSound, Bound
<1> QED
  BY <1>2, <1>3, <1>4, <1>5, <1>6, <1>7, <1>8 DEF IInv

\* A loop ends: a closed project is unbound, a flush is over.
LEMMA TaskDoneKeeps == ASSUME IInv, TaskDone PROVE IInv'
<1>0. /\ ui.task \in Visiting /\ ui.at = "next" /\ ui.keys = {}
      /\ Unbound \in Binding /\ ~Unbound.on /\ Unbound.write_gen = 0
      /\ ui.task = "unbind" => ui.key \in Uuid
  BY DEF TaskDone, IInv, UiSound, Visiting, Bound, Unbound, Binding
<1> DEFINE Effect == /\ \A v \in Uuid : \/ binding'[v] = binding[v] /\ doc'[v] = doc[v]
                                        \/ ~binding'[v].on /\ binding'[v].write_gen = 0
                     /\ ui.task = "flush" => binding' = binding
                     /\ binding' \in [Uuid -> Binding] /\ doc' \in [Uuid -> State \cup {None}]
<1>a. ASSUME ui.task = "unbind" PROVE Effect
  <2>1. binding' = [binding EXCEPT ![ui.key] = Unbound] /\ doc' = [doc EXCEPT ![ui.key] = None]
    BY <1>a DEF TaskDone
  <2> QED
    BY <1>0, <1>a, <2>1 DEF IInv, Types
<1>b. ASSUME ui.task # "unbind" PROVE Effect
  <2>1. binding' = binding /\ doc' = doc
    BY <1>b DEF TaskDone
  <2> QED
    BY <1>b, <2>1 DEF IInv, Types
<1>c. /\ ui' \in Interface /\ ui'.task = (IF ui.task = "flush" THEN "flushed" ELSE "idle")
      /\ ui'.at = "next" /\ ui'.keys = {}
  BY DEF TaskDone, Idle, Interface, Visiting
<1>1. /\ stop' = stop /\ snap' = snap
      /\ ui.task \in Visiting /\ ui.at = "next" /\ ui.keys = {}
      /\ \A v \in Uuid : \/ binding'[v] = binding[v] /\ doc'[v] = doc[v]
                         \/ ~binding'[v].on /\ binding'[v].write_gen = 0
      /\ ui.task = "flush" => binding' = binding
      /\ binding' \in [Uuid -> Binding] /\ doc' \in [Uuid -> State \cup {None}]
      /\ ui' \in Interface /\ ui'.task = (IF ui.task = "flush" THEN "flushed" ELSE "idle")
      /\ ui'.at = "next" /\ ui'.keys = {}
  BY <1>0, <1>a, <1>b, <1>c DEF TaskDone
<1>2. LibSound' /\ lib' = lib
  BY LibraryStutters DEF TaskDone, IInv, libVars
<1>3. Types'
  BY <1>1, <1>2 DEF IInv, Types, Interface, Thread, Binding, Job, Visiting
<1>4. UiSound'
  BY <1>1, <1>2 DEF IInv, UiSound, Bound, Visiting
<1>5. LossSound'
  BY <1>1, <1>2 DEF IInv, LossSound, Written, Pending, Committed
<1>6. JobsSound'
  BY <1>1, <1>2, Parts DEF IInv, JobsSound, Written, Committed
<1>7. CleanSound'
  BY <1>1, <1>2 DEF IInv, CleanSound, Written, Committed
<1>8. DrainSound'
  BY <1>1, <1>2 DEF IInv, DrainSound, Bound
<1> QED
  BY <1>2, <1>3, <1>4, <1>5, <1>6, <1>7, <1>8 DEF IInv

\* The thread ends, or takes the dirty bindings.
LEMMA WakeKeeps == ASSUME IInv, Wake PROVE IInv'
<1> DEFINE js == {[key |-> u, gen |-> binding[u].write_gen] : u \in {v \in Bound : binding[v].dirty}}
<1>0. js \subseteq Job /\ \A j \in js : j.gen = binding[j.key].write_gen /\ j.gen \in Nat
  BY DEF IInv, Types, Bound, Binding, Job
<1>a. \/ snap' = NoThread
      \/ snap' = [at |-> "pass", jobs |-> js, job |-> None]
  BY DEF Wake, NoThread
<1> HIDE DEF js
<1>1. /\ doc' = doc /\ binding' = binding /\ stop' = stop /\ ui' = ui
      /\ snap' \in Thread /\ snap'.at \in {"none", "pass"} /\ snap.at = "woken"
      /\ \A j \in snap'.jobs : j.gen = binding[j.key].write_gen /\ j.gen \in Nat
  BY <1>0, <1>a DEF Wake, Thread, NoThread
<1>2. LibSound' /\ lib' = lib
  BY LibraryStutters DEF Wake, IInv, libVars
<1>3. Types'
  BY <1>1, <1>2 DEF IInv, Types, Interface, Thread, Binding, Job, Visiting
<1>4. UiSound'
  BY <1>1, <1>2 DEF IInv, UiSound, Bound, Visiting
<1>5. LossSound'
  BY <1>1, <1>2 DEF IInv, LossSound, Written, Pending, Committed
<1>6. JobsSound'
  BY <1>1, <1>2, Parts DEF IInv, JobsSound, Written, Committed
<1>7. CleanSound'
  BY <1>1, <1>2 DEF IInv, CleanSound, Written, Committed
<1>8. DrainSound'
  BY <1>1, <1>2 DEF IInv, DrainSound, Bound
<1> QED
  BY <1>2, <1>3, <1>4, <1>5, <1>6, <1>7, <1>8 DEF IInv

\* The thread snapshots the project of a job.
LEMMA PassJobKeeps == ASSUME IInv, NEW j \in snap.jobs, PassJob(j) PROVE IInv'
<1>1. /\ doc' = doc /\ binding' = binding /\ stop' = stop /\ ui' = ui
      /\ snap.at = "pass" /\ j \in Job /\ j \in snap.jobs /\ j.key \in Uuid /\ j.gen \in Nat
      /\ snap' \in Thread /\ snap'.at = "clear" /\ snap'.jobs = snap.jobs \ {j} /\ snap'.job = j
  BY DEF PassJob, IInv, Types, Thread, Job
<1>2. /\ LibSound' /\ lib'[j.key].head = lib[j.key].head /\ HeadState(lib'[j.key]) = HeadState(lib[j.key])
      /\ Covered(lib'[j.key]) /\ \A v \in Uuid : v # j.key => lib'[v] = lib[v]
  BY <1>1, SnapshotProjectKeeps DEF PassJob, IInv, Covered
<1>3. Types'
  BY <1>1, <1>2 DEF IInv, Types, Interface, Thread, Binding, Job, Visiting
<1>4. UiSound'
  BY <1>1, <1>2 DEF IInv, UiSound, Bound, Visiting
<1>5. LossSound'
  BY <1>1, <1>2 DEF IInv, LossSound, Written, Pending, Committed
<1>6. JobsSound'
  BY <1>1, <1>2, Parts DEF IInv, JobsSound, Written, Committed
<1>7. CleanSound'
  <2>1. ASSUME NEW u \in Uuid, Written(u)', ~Committed(u)', ~binding'[u].dirty PROVE Covered(lib'[u])
    <3>1. CASE u = j.key
      BY <1>1, <1>2, <2>1, <3>1 DEF IInv, CleanSound, Written, Committed, Bound
    <3>2. CASE u # j.key
      BY <1>1, <1>2, <2>1, <3>2 DEF IInv, CleanSound, Written, Committed
    <3> QED
      BY <3>1, <3>2
  <2>2. ui'.at = "clear" => Covered(lib'[ui'.key])
    BY <1>1, <1>2 DEF IInv, CleanSound, UiSound, Bound
  <2> QED
    BY <2>1, <2>2 DEF CleanSound
<1>8. DrainSound'
  BY <1>1, <1>2 DEF IInv, DrainSound, Bound
<1> QED
  BY <1>2, <1>3, <1>4, <1>5, <1>6, <1>7, <1>8 DEF IInv

\* The snapshot of a job fails.
LEMMA PassJobFailsKeeps == ASSUME IInv, NEW j \in snap.jobs, PassJobFails(j) PROVE IInv'
<1>1. /\ doc' = doc /\ stop' = stop /\ ui' = ui
      /\ snap.at = "pass" /\ j.key \in Uuid
      /\ snap' \in Thread /\ snap'.at = "pass" /\ snap'.jobs = snap.jobs \ {j}
      /\ \A v \in Uuid : v # j.key => binding'[v] = binding[v]
      /\ binding' \in [Uuid -> Binding] /\ (binding'[j.key].on <=> binding[j.key].on) /\ (binding'[j.key].dirty <=> binding[j.key].dirty)
      /\ binding'[j.key].write_gen = binding[j.key].write_gen
      /\ binding[j.key].last_error => binding'[j.key].last_error
  BY DEF PassJobFails, IInv, Types, Thread, Job, Binding, SnapshotFails, RecordError
<1>2. LibSound' /\ lib' = lib
  BY LibraryStutters DEF PassJobFails, SnapshotFails, IInv, libVars
<1>3. Types'
  BY <1>1, <1>2 DEF IInv, Types, Interface, Thread, Binding, Job, Visiting
<1>4. UiSound'
  BY <1>1, <1>2 DEF IInv, UiSound, Bound, Visiting
<1>5. LossSound'
  BY <1>1, <1>2 DEF IInv, LossSound, Written, Pending, Committed
<1>6. JobsSound'
  BY <1>1, <1>2, Parts DEF IInv, JobsSound, Written, Committed
<1>7. CleanSound'
  BY <1>1, <1>2 DEF IInv, CleanSound, Written, Committed
<1>8. DrainSound'
  BY <1>1, <1>2 DEF IInv, DrainSound, Bound
<1> QED
  BY <1>2, <1>3, <1>4, <1>5, <1>6, <1>7, <1>8 DEF IInv

\* The thread clears the flag of a job, unless something was written since.
LEMMA PassClearKeeps == ASSUME IInv, PassClear PROVE IInv'
<1> DEFINE k == snap.job.key
           b == IF binding[k].on /\ GenMatches(k, snap.job.gen) THEN [binding[k] EXCEPT !.dirty = FALSE] ELSE binding[k]
<1>0. k \in Uuid /\ binding[k] \in Binding
  BY DEF PassClear, IInv, JobsSound, Job, Types
<1>a. /\ b \in Binding /\ (b.on <=> binding[k].on) /\ b.write_gen = binding[k].write_gen
      /\ (b.last_error <=> binding[k].last_error)
      /\ b.dirty # binding[k].dirty => ~b.dirty /\ binding[k].write_gen = snap.job.gen
  BY <1>0 DEF Binding, GenMatches
<1>b. binding' = [binding EXCEPT ![k] = b]
  BY <1>0 DEF PassClear, IInv, Types
<1>c. binding'[k] = b /\ binding' \in [Uuid -> Binding] /\ \A v \in Uuid : v # k => binding'[v] = binding[v]
  <2> HIDE DEF b
  <2> QED
    BY <1>0, <1>a, <1>b DEF IInv, Types
<1>1. /\ doc' = doc /\ stop' = stop /\ ui' = ui
      /\ snap.at = "clear" /\ snap.job \in Job /\ snap.job.key \in Uuid
      /\ snap' \in Thread /\ snap'.at = "pass" /\ snap'.jobs = snap.jobs
      /\ \A v \in Uuid : v # snap.job.key => binding'[v] = binding[v]
      /\ binding' \in [Uuid -> Binding] /\ (binding'[snap.job.key].on <=> binding[snap.job.key].on)
      /\ binding'[snap.job.key].write_gen = binding[snap.job.key].write_gen
      /\ (binding'[snap.job.key].last_error <=> binding[snap.job.key].last_error)
      /\ binding'[snap.job.key].dirty # binding[snap.job.key].dirty =>
            /\ ~binding'[snap.job.key].dirty /\ binding[snap.job.key].write_gen = snap.job.gen
  <2> HIDE DEF b
  <2> QED
    BY <1>0, <1>a, <1>c DEF PassClear, IInv, Types, JobsSound, Thread, Job
<1>2. LibSound' /\ lib' = lib
  BY LibraryStutters DEF PassClear, IInv, libVars
<1>3. Types'
  BY <1>1, <1>2 DEF IInv, Types, Interface, Thread, Binding, Job, Visiting
<1>4. UiSound'
  BY <1>1, <1>2 DEF IInv, UiSound, Bound, Visiting
<1>5. LossSound'
  BY <1>1, <1>2 DEF IInv, LossSound, Written, Pending, Committed
<1>6. JobsSound'
  BY <1>1, <1>2, Parts DEF IInv, JobsSound, Written, Committed
<1>7. CleanSound'
  <2>1. ASSUME NEW u \in Uuid, Written(u)', ~Committed(u)', ~binding'[u].dirty PROVE Covered(lib'[u])
    <3>1. CASE u = snap.job.key
      BY <1>1, <1>2, <2>1, <3>1 DEF IInv, CleanSound, JobsSound, Written, Committed, Bound
    <3>2. CASE u # snap.job.key
      BY <1>1, <1>2, <2>1, <3>2 DEF IInv, CleanSound, JobsSound, Written, Committed
    <3> QED
      BY <3>1, <3>2
  <2>2. ui'.at = "clear" => Covered(lib'[ui'.key])
    BY <1>1, <1>2 DEF IInv, CleanSound
  <2> QED
    BY <2>1, <2>2 DEF CleanSound
<1>8. DrainSound'
  BY <1>1, <1>2 DEF IInv, DrainSound, Bound
<1> QED
  BY <1>2, <1>3, <1>4, <1>5, <1>6, <1>7, <1>8 DEF IInv

\* A pass ends.
LEMMA PassEndsKeeps == ASSUME IInv, PassEnds PROVE IInv'
<1>1. /\ doc' = doc /\ binding' = binding /\ stop' = stop /\ ui' = ui
      /\ snap.at = "pass" /\ snap' \in Thread /\ snap'.at = "loop" /\ snap'.jobs = {}
  BY DEF PassEnds, IInv, Types, Thread, NoThread
<1>2. LibSound' /\ lib' = lib
  BY LibraryStutters DEF PassEnds, IInv, libVars
<1>3. Types'
  BY <1>1, <1>2 DEF IInv, Types, Interface, Thread, Binding, Job, Visiting
<1>4. UiSound'
  BY <1>1, <1>2 DEF IInv, UiSound, Bound, Visiting
<1>5. LossSound'
  BY <1>1, <1>2 DEF IInv, LossSound, Written, Pending, Committed
<1>6. JobsSound'
  BY <1>1, <1>2, Parts DEF IInv, JobsSound, Written, Committed
<1>7. CleanSound'
  BY <1>1, <1>2 DEF IInv, CleanSound, Written, Committed
<1>8. DrainSound'
  BY <1>1, <1>2 DEF IInv, DrainSound, Bound
<1> QED
  BY <1>2, <1>3, <1>4, <1>5, <1>6, <1>7, <1>8 DEF IInv

\* The library manager deletes a row.
LEMMA ManagerDeleteKeeps == ASSUME IInv, NEW u \in Uuid, ManagerDelete(u) PROVE IInv'
<1>1. /\ doc' = doc /\ binding' = binding /\ stop' = stop /\ ui' = ui /\ snap' = snap
      /\ ui.at = "next"
  BY DEF ManagerDelete, IInv, Types, UiSound, Visiting, storageVars
<1>2. LibSound' /\ lib'[u].head = 0 /\ \A v \in Uuid : v # u => lib'[v] = lib[v]
  BY DeleteProjectKeeps DEF ManagerDelete, IInv
<1>3. Types'
  BY <1>1, <1>2 DEF IInv, Types, Interface, Thread, Binding, Job, Visiting
<1>4. UiSound'
  BY <1>1, <1>2 DEF IInv, UiSound, Bound, Visiting
<1>5. LossSound'
  BY <1>1, <1>2 DEF IInv, LossSound, Written, Pending, Committed
<1>6. JobsSound'
  BY <1>1, <1>2, Parts DEF IInv, JobsSound, Written, Committed
<1>7. CleanSound'
  BY <1>1, <1>2 DEF IInv, CleanSound, Written, Committed
<1>8. DrainSound'
  BY <1>1, <1>2 DEF IInv, DrainSound, Bound
<1> QED
  BY <1>2, <1>3, <1>4, <1>5, <1>6, <1>7, <1>8 DEF IInv

\* Time passes.
LEMMA TimePassesKeeps == ASSUME IInv, TimePasses PROVE IInv'
<1>1. /\ doc' = doc /\ binding' = binding /\ stop' = stop /\ ui' = ui /\ snap' = snap
  BY DEF TimePasses, IInv, Types, storageVars
<1>2. LibSound' /\ lib' = lib
  BY TickKeeps DEF TimePasses, IInv
<1>3. Types'
  BY <1>1, <1>2 DEF IInv, Types, Interface, Thread, Binding, Job, Visiting
<1>4. UiSound'
  BY <1>1, <1>2 DEF IInv, UiSound, Bound, Visiting
<1>5. LossSound'
  BY <1>1, <1>2 DEF IInv, LossSound, Written, Pending, Committed
<1>6. JobsSound'
  BY <1>1, <1>2, Parts DEF IInv, JobsSound, Written, Committed
<1>7. CleanSound'
  BY <1>1, <1>2 DEF IInv, CleanSound, Written, Committed
<1>8. DrainSound'
  BY <1>1, <1>2 DEF IInv, DrainSound, Bound
<1> QED
  BY <1>2, <1>3, <1>4, <1>5, <1>6, <1>7, <1>8 DEF IInv

\* The process dies and is started again.
LEMMA CrashKeeps == ASSUME IInv, Crash PROVE IInv'
<1>1. /\ stop' = FALSE /\ snap' \in Thread /\ snap'.at = "none" /\ snap'.jobs = {}
      /\ ui' \in Interface /\ ui'.task = "idle" /\ ui'.at = "next" /\ ui'.key = None /\ ui'.keys = {} /\ ui'.ok = TRUE
      /\ doc' \in [Uuid -> State \cup {None}] /\ binding' \in [Uuid -> Binding]
      /\ \A v \in Uuid : ~binding'[v].on
  BY DEF Crash, IInv, Types, Unbound, Binding, Idle, Interface, Visiting, NoThread, Thread
<1>2. LibSound' /\ lib' = lib
  BY LibraryStutters DEF Crash, IInv, libVars
<1>3. Types'
  BY <1>1, <1>2 DEF IInv, Types, Interface, Thread, Binding, Job, Visiting
<1>4. UiSound'
  BY <1>1, <1>2 DEF IInv, UiSound, Bound, Visiting
<1>5. LossSound'
  BY <1>1, <1>2 DEF IInv, LossSound, Written, Pending, Committed
<1>6. JobsSound'
  BY <1>1, <1>2, Parts DEF IInv, JobsSound, Written, Committed
<1>7. CleanSound'
  BY <1>1, <1>2 DEF IInv, CleanSound, Written, Committed
<1>8. DrainSound'
  BY <1>1, <1>2 DEF IInv, DrainSound, Bound
<1> QED
  BY <1>2, <1>3, <1>4, <1>5, <1>6, <1>7, <1>8 DEF IInv

--------------------------------------------------------------------------------
(* The theorems *)

\* The session starts in it.
LEMMA InitSound == Init => IInv
<1> SUFFICES ASSUME Init PROVE IInv
  OBVIOUS
<1>1. LibSound
  BY LibraryInitSound DEF Init
<1>2. /\ ui = Idle /\ snap = NoThread /\ \A u \in Uuid : binding[u] = Unbound
      /\ Unbound \in Binding /\ ~Unbound.on
      /\ Idle \in Interface /\ Idle.task = "idle" /\ Idle.at = "next" /\ Idle.keys = {}
      /\ NoThread \in Thread /\ NoThread.at = "none" /\ NoThread.jobs = {}
  BY DEF Init, Unbound, Idle, NoThread, Binding, Interface, Visiting, Thread
<1>3. Types
  BY <1>2 DEF Init, Types
<1>4. UiSound /\ DrainSound
  BY <1>2 DEF UiSound, DrainSound, Bound
<1>5. LossSound /\ CleanSound
  BY <1>2 DEF LossSound, CleanSound, Written, Committed
<1>6. JobsSound
  BY <1>2 DEF JobsSound
<1> QED
  BY <1>1, <1>3, <1>4, <1>5, <1>6 DEF IInv

\* Nothing happens.
LEMMA SessionStutters == ASSUME IInv, UNCHANGED vars PROVE IInv'
<1>1. /\ doc' = doc /\ binding' = binding /\ stop' = stop /\ snap' = snap /\ ui' = ui
      /\ LibSound' /\ lib' = lib
  BY LibraryStutters DEF IInv, vars, libVars
<1>2. Types' /\ UiSound' /\ DrainSound'
  BY <1>1 DEF IInv, Types, UiSound, DrainSound, Bound
<1>3. LossSound' /\ CleanSound'
  BY <1>1 DEF IInv, LossSound, CleanSound, Written, Pending, Committed
<1>4. JobsSound'
  BY <1>1 DEF IInv, JobsSound, Written, Committed
<1> QED
  BY <1>1, <1>2, <1>3, <1>4 DEF IInv

\* Every step keeps it: the user interface, the thread, the user, time and a crash.
LEMMA StepKeeps == ASSUME IInv, [Next]_vars PROVE IInv'
<1>1. CASE UiStep
  BY <1>1, NextKeyKeeps, WriteKeeps, WriteFailsKeeps, MarkKeeps, FlushSnapshotKeeps, FlushSnapshotFailsKeeps,
     FlushClearKeeps, TaskDoneKeeps, NotifyStopKeeps, JoinKeeps DEF UiStep
<1>2. CASE ThreadStep
  BY <1>2, SleepKeeps, TimeoutKeeps, WakeKeeps, PassJobKeeps, PassJobFailsKeeps, PassClearKeeps, PassEndsKeeps
     DEF ThreadStep
<1>3. CASE UserStep
  BY <1>3, NewProjectKeeps, OpenProjectKeeps, BindProjectKeeps, UnbindProjectKeeps, CommandKeeps,
     ManagerDeleteKeeps, FlushAllKeeps, GoOnKeeps DEF UserStep
<1>4. CASE TimePasses
  BY <1>4, TimePassesKeeps
<1>5. CASE Crash
  BY <1>5, CrashKeeps
<1>6. CASE UNCHANGED vars
  BY <1>6, SessionStutters
<1> QED
  BY <1>1, <1>2, <1>3, <1>4, <1>5, <1>6 DEF Next

\* The inductive invariant holds in every state of the session.
LEMMA Inductive == Spec => []IInv
<1>1. Init => IInv
  BY InitSound
<1>2. IInv /\ [Next]_vars => IInv'
  BY StepKeeps
<1> QED
  BY <1>1, <1>2, PTL DEF Spec, Safety

(* Every variable of the session keeps its type, and the loops of the user interface
   visit only projects that are still bound, whatever is closed meanwhile. *)
THEOREM SessionTypeCorrect == Spec => []TypeOK
<1>1. IInv => TypeOK
  <2> SUFFICES ASSUME IInv PROVE TypeOK
    OBVIOUS
  <2>1. LibraryTypeOK
    BY SoundTypes DEF IInv
  <2>2. /\ doc \in [Uuid -> State \cup {None}] /\ stop \in BOOLEAN
        /\ binding \in [Uuid -> [on: BOOLEAN, dirty: BOOLEAN, write_gen: Nat, last_error: BOOLEAN]]
    BY DEF IInv, Types, Binding
  <2>3. /\ snap.at \in {"none", "loop", "asleep", "woken", "pass", "clear"}
        /\ snap.jobs \subseteq [key: Uuid, gen: Nat]
        /\ snap.at = "clear" => snap.job \in [key: Uuid, gen: Nat]
    BY DEF IInv, Types, Thread, Job, JobsSound
  <2>4. /\ ui.task \in {"idle", "note", "unbind", "stop", "join", "flush", "flushed"}
        /\ ui.at \in {"next", "write", "mark", "snapshot", "clear"}
        /\ ui.keys \subseteq Bound /\ ui.gen \in Nat
    BY DEF IInv, Types, Interface, Visiting, UiSound
  <2> QED
    BY <2>1, <2>2, <2>3, <2>4 DEF TypeOK
<1> QED
  BY <1>1, Inductive, PTL

(* The user sees every loss: a written project that shows no error and has no write
   due is in the library exactly as it is in memory, for any number of projects,
   failed saves, deleted rows and crashes (write_through, record_error). *)
THEOREM LossesShown == Spec => []LossIsReported
<1>1. IInv => LossIsReported
  BY DEF IInv, LossSound, LossIsReported, Pending, Writing
<1> QED
  BY <1>1, Inductive, PTL

(* A clean binding is snapshotted at the head it last wrote: neither the thread nor a
   flush clears the flag of a write that landed while it snapshotted (write_gen). *)
THEOREM CleanMeansSnapshotted == Spec => []CleanIsSnapshotted
<1>1. IInv => CleanIsSnapshotted
  BY DEF IInv, CleanSound, CleanIsSnapshotted, Committed, Writing, Covered, Snapshotted
<1> QED
  BY <1>1, Inductive, PTL

(* After the exit flush no thread is left, and a project that is still dirty shows an
   error, whatever failed and however often the flush is repeated (flush_all). *)
THEOREM FlushIsComplete == Spec => []FlushDrains
<1>1. IInv => FlushDrains
  BY DEF IInv, DrainSound, FlushDrains
<1> QED
  BY <1>1, Inductive, PTL

================================================================================
