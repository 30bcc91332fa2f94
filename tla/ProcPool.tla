-------------------------------- MODULE ProcPool --------------------------------
(***************************************************************************)
(* The process-isolated render dispatcher of oak-render/src/procpool.rs:   *)
(* worker handles, their child processes (oak-worker) and control pipes,   *)
(* the ticket table, the pump and the preview scheduler it drives.         *)
(*                                                                         *)
(* One mutex guards the dispatcher.  A poll holds it through the phases of *)
(* pump (resize, drain events, restart the dead, dispatch, retire), so     *)
(* only child processes move between the phases; every other call runs     *)
(* while no pump is under way.  A child's stdout, the reader thread behind *)
(* it and the event channel are one queue per child: draining takes any    *)
(* prefix of it, as the reader may not have forwarded the rest yet.        *)
(*                                                                         *)
(* Worker w of the code is handles[w + 1].  Slots are counted; which slot  *)
(* a ticket gets, and the rings behind it, are the subject of SlotExchange.*)
(* Elapsed time (throttle, handshake timeout, retirement deadline) is a    *)
(* choice; crashes, timeouts and failures share the budget MaxFaults.      *)
(***************************************************************************)
EXTENDS PreviewScheduler, Sequences

CONSTANTS
    InitialWorkers,  \* workers of the pool at start
    BatchSize,       \* configured batch size
    Slots,           \* slots of a fresh segment
    BaseBytes,       \* bytes per slot of a fresh segment
    SegmentBudget,   \* bytes a grown segment may take
    MAX_RESTARTS,    \* restart budget of a worker (5 in the code)
    Jobs,            \* what callers may post: [key, priority, slot_bytes]
    MaxTickets,      \* bound: tickets ever posted
    MaxFaults,       \* bound: crashes, timeouts, failed renders and spawns
    Targets,         \* worker counts a resize may ask for
    MaxResizes,      \* bound: resizes
    MayCancel,       \* bound: whether callers cancel
    MayShutdown      \* bound: whether the pool is shut down

ASSUME PoolAssumption ==
    /\ InitialWorkers \in Nat \ {0} /\ BatchSize \in Nat \ {0}
    /\ Slots \in Nat /\ Slots >= 2
    /\ BaseBytes \in Nat /\ SegmentBudget \in Nat /\ MAX_RESTARTS \in Nat
    /\ Jobs \subseteq [key : Key, priority : Seek..Background, slot_bytes : Nat]
    /\ MaxTickets \in Nat /\ MaxFaults \in Nat /\ MaxResizes \in Nat
    /\ Targets \subseteq Nat \ {0}
    /\ MayCancel \in BOOLEAN /\ MayShutdown \in BOOLEAN

VARIABLES
    handles,      \* inner.workers: the worker handles
    procs,        \* the child processes ever spawned, by process number
    segments,     \* segments ever created
    posted,       \* the job of every ticket, in the order of their numbers
    tickets,      \* inner.tickets: the open tickets
    answer,       \* how each ticket was completed, "open" before
    refs,         \* frames delivered to consumers and not yet released
    pump,         \* phase of the pump, and the worker its walk has reached
    shutting,     \* "no", "draining" or "down"
    target,       \* target_workers
    next_target,  \* throttled target, 0 for none
    resized,      \* whether a resize was ever applied (last_resize_at)
    resizes,
    faults

poolVars == <<handles, procs, segments>>
ticketVars == <<posted, tickets, answer, refs>>
resizeVars == <<target, next_target, resized, resizes>>
vars == <<schedVars, poolVars, ticketVars, pump, shutting, resizeVars, faults>>

--------------------------------------------------------------------------------
(* Handles, processes and messages                                         *)

Workers == 0..(Len(handles) - 1)
Handle(w) == handles[w + 1]
Message(type, batch) == [type |-> type, batch |-> batch]
Event(type, ticket) == [type |-> type, ticket |-> ticket]

\* A fresh handle and its child; WorkerHandle::shell and spawn_worker.  The
\* generation is the restart count of the handle that is replaced.
NewHandle(restarts, pid, segment) ==
    [state |-> "Starting", generation |-> restarts, restarts |-> restarts, pid |-> pid,
     segment |-> segment, bytes |-> BaseBytes, slots |-> Slots, free |-> Slots,
     out |-> {}, held |-> {}, reconfiguring |-> FALSE, retiring |-> FALSE, signalled |-> FALSE]
NewProc(w, generation) ==
    [worker |-> w, generation |-> generation, up |-> TRUE, inbox |-> <<>>,
     pipe |-> <<Event("handshake", 0)>>]

Up(pid) == pid # 0 /\ procs[pid].up
Send(ps, pid, message) == [ps EXCEPT ![pid].inbox = Append(@, message)]
Kill(ps, pid) ==
    IF pid = 0 \/ ~ps[pid].up THEN ps
    ELSE [ps EXCEPT ![pid].up = FALSE, ![pid].pipe = Append(@, Event("eof", 0))]

Payloads(requests) == {r.payload : r \in requests}

\* Completes the tickets of a set that are still in the table.
Complete(ids, result) ==
    /\ tickets' = tickets \ ids
    /\ answer' = [t \in DOMAIN answer |-> IF t \in ids \cap tickets THEN result ELSE answer[t]]

Locked == pump.at # "idle"
Fault == faults < MaxFaults /\ faults' = faults + 1

\* A pump starts with the throttled resize, if there is one.
StartPump == pump' = [at |-> IF next_target # 0 THEN "resize" ELSE "drain", worker |-> 0]
Phase(at) == pump' = [at |-> at, worker |-> 0]

\* After start(): every worker is handshaken.
Init ==
    /\ New(InitialWorkers, BatchSize)
    /\ handles = [i \in 1..InitialWorkers |-> [NewHandle(0, i, i) EXCEPT !.state = "Alive"]]
    /\ procs = [i \in 1..InitialWorkers |-> [NewProc(i - 1, 0) EXCEPT !.pipe = <<>>]]
    /\ segments = InitialWorkers
    /\ posted = <<>>
    /\ tickets = {}
    /\ answer = <<>>
    /\ refs = {}
    /\ pump = [at |-> "idle", worker |-> 0]
    /\ shutting = "no"
    /\ target = InitialWorkers
    /\ next_target = 0
    /\ resized = FALSE
    /\ resizes = 0
    /\ faults = 0

--------------------------------------------------------------------------------
(* Calls                                                                   *)

\* post: the ticket enters the table and the scheduler; a replaced request, or
\* the new one when its key is in flight, is cancelled.  The call ends in a poll,
\* unless another thread gets the lock first; the poll is then one of those to come.
Post(job) ==
    LET id == Len(posted) + 1
        request == [key |-> job.key, priority |-> job.priority, distance |-> 0,
                    payload |-> id, slot_bytes |-> job.slot_bytes]
        back == Payloads(HandedBack(request)) \cap (tickets \cup {id})
    IN  /\ ~Locked /\ shutting = "no" /\ id <= MaxTickets
        /\ Submit(request)
        /\ posted' = Append(posted, job)
        /\ tickets' = (tickets \cup {id}) \ back
        /\ answer' = [t \in 1..id |-> IF t \in back THEN "cancelled"
                                      ELSE IF t = id THEN "open" ELSE answer[t]]
        /\ StartPump \/ UNCHANGED pump
        /\ UNCHANGED <<poolVars, refs, shutting, resizeVars, faults>>

\* cancel_frame: the ticket is found by its key.
CancelFrame(key) ==
    /\ ~Locked /\ MayCancel
    /\ Known(key)
    /\ CancelKey(key)
    /\ LET found == {t \in tickets : posted[t].key = key}
       IN  IF found = {} THEN UNCHANGED <<tickets, answer>>
           ELSE \E t \in found : Complete({t}, "cancelled")
    /\ UNCHANGED <<poolVars, posted, refs, pump, shutting, resizeVars, faults>>

\* cancel_preview_sequence
CancelPreviewSequence(sequence) ==
    /\ ~Locked /\ MayCancel
    /\ OfSequence(sequence) # {}
    /\ CancelSequence(sequence)
    /\ Complete(Payloads(OfSequence(sequence)), "cancelled")
    /\ UNCHANGED <<poolVars, posted, refs, pump, shutting, resizeVars, faults>>

\* release_frame: a reference into a replaced segment is ignored.
ReleaseFrame(ref) ==
    /\ ~Locked
    /\ handles' = IF \/ ref.worker \notin Workers
                     \/ Handle(ref.worker).segment # ref.segment
                     \/ ref.ticket \notin Handle(ref.worker).held
                  THEN handles
                  ELSE [handles EXCEPT ![ref.worker + 1].held = @ \ {ref.ticket},
                                       ![ref.worker + 1].free = @ + 1]
    /\ refs' = refs \ {ref}
    /\ UNCHANGED <<schedVars, procs, segments, posted, tickets, answer, pump, shutting, resizeVars, faults>>

\* Missing workers are spawned, until one spawn fails.
Grow(n) ==
    LET size == Len(handles)
    IN  \E made \in 0..(n - size) :
          /\ IF made = n - size THEN UNCHANGED faults ELSE Fault
          /\ handles' = handles \o [i \in 1..made |-> NewHandle(0, Len(procs) + i, segments + i)]
          /\ procs' = procs \o [i \in 1..made |-> NewProc(size + i - 1, 0)]
          /\ segments' = segments + made

\* The workers beyond the target that are alive or starting retire.
Shrink(n) ==
    /\ handles' = [i \in DOMAIN handles |->
          [handles[i] EXCEPT !.retiring = @ \/ (i > n /\ handles[i].state \in {"Alive", "Starting"})]]
    /\ UNCHANGED <<procs, segments, faults>>

\* apply_target_workers: the scheduler's modulus follows the target at once.
ApplyTarget(n) ==
    /\ IF target = n THEN UNCHANGED <<schedVars, poolVars, target, faults>>
       ELSE /\ IF n > Len(handles) THEN Grow(n) ELSE Shrink(n)
            /\ SetWorkerCount(n)
            /\ target' = n
    /\ resized' = TRUE
    /\ next_target' = 0

\* set_target_workers: inside the throttle window only the wish is noted.
SetTargetWorkers(n) ==
    /\ ~Locked /\ shutting = "no" /\ resizes < MaxResizes
    /\ resizes' = resizes + 1
    /\ \/ ApplyTarget(n)
       \/ /\ resized
          /\ next_target' = IF target # n THEN n ELSE next_target
          /\ UNCHANGED <<schedVars, poolVars, target, resized, faults>>
    /\ UNCHANGED <<ticketVars, pump, shutting>>

\* poll takes the lock and pumps; once shutting down it returns at once.
Poll ==
    /\ ~Locked /\ shutting = "no"
    /\ StartPump
    /\ UNCHANGED <<schedVars, poolVars, ticketVars, shutting, resizeVars, faults>>
StalePoll == ~Locked /\ shutting # "no" /\ UNCHANGED vars

--------------------------------------------------------------------------------
(* The pump                                                                *)

\* Step 0: the throttled target is applied once the window has passed.
PumpResize ==
    /\ pump.at = "resize"
    /\ \/ ApplyTarget(next_target)
       \/ UNCHANGED <<schedVars, poolVars, target, next_target, resized, faults>>
    /\ Phase("drain")
    /\ UNCHANGED <<ticketVars, shutting, resizes>>

\* Step 1: the next event of child p.  It is for the handle at the index the
\* reader thread was started with, if that handle has the same generation.
HasEvent(p, type) ==
    /\ pump.at = "drain"
    /\ procs[p].pipe # <<>>
    /\ Head(procs[p].pipe).type = type
Taken(p) == [procs EXCEPT ![p].pipe = Tail(@)]

ForHandle(p) ==
    /\ procs[p].worker \in Workers
    /\ Handle(procs[p].worker).generation = procs[p].generation

DropEvent(p) ==
    /\ pump.at = "drain"
    /\ procs[p].pipe # <<>>
    /\ ~ForHandle(p)
    /\ procs' = Taken(p)
    /\ UNCHANGED <<schedVars, handles, segments, ticketVars, pump, shutting, resizeVars, faults>>

OnHandshake(p) ==
    LET w == procs[p].worker
        pid == Handle(w).pid
    IN  /\ HasEvent(p, "handshake") /\ ForHandle(p)
        /\ IF Up(pid)
           THEN /\ procs' = Send(Taken(p), pid, Message("handshake", {}))
                /\ UNCHANGED handles
           ELSE /\ procs' = Taken(p)
                /\ handles' = [handles EXCEPT ![w + 1].state = "Dead"]
        /\ UNCHANGED <<schedVars, segments, ticketVars, pump, shutting, resizeVars, faults>>

OnHelloCaps(p) ==
    /\ HasEvent(p, "hello_caps") /\ ForHandle(p)
    /\ procs' = Taken(p)
    /\ handles' = [handles EXCEPT ![procs[p].worker + 1].state = "Alive",
                                  ![procs[p].worker + 1].reconfiguring = FALSE]
    /\ UNCHANGED <<schedVars, segments, ticketVars, pump, shutting, resizeVars, faults>>

\* Mutant: the slot of a cancelled frame is not recycled.
OnFrameReadyNoRecycle(p) ==
    LET w == procs[p].worker
        t == Head(procs[p].pipe).ticket
        h == Handle(w)
    IN  /\ HasEvent(p, "frame_ready") /\ ForHandle(p)
        /\ procs' = Taken(p)
        /\ IF t \notin h.out THEN UNCHANGED <<schedVars, handles, ticketVars>>
           ELSE /\ handles' = [handles EXCEPT ![w + 1].out = @ \ {t}, ![w + 1].held = @ \cup {t}]
                /\ IF t \notin tickets THEN UNCHANGED <<schedVars, ticketVars>>
                   ELSE /\ FrameDone(posted[t].key)
                        /\ UNCHANGED posted
                        /\ refs' = refs \cup {[ticket |-> t, worker |-> w, segment |-> h.segment]}
                        /\ Complete({t}, "ok")
        /\ UNCHANGED <<segments, pump, shutting, resizeVars, faults>>

\* on_frame_ready: the slot goes to the consumer, or back to the free pool when
\* the ticket was cancelled meanwhile; an unknown ticket is ignored.
OnFrameReady(p) ==
    LET w == procs[p].worker
        t == Head(procs[p].pipe).ticket
        h == Handle(w)
    IN  /\ HasEvent(p, "frame_ready") /\ ForHandle(p)
        /\ procs' = Taken(p)
        /\ IF t \notin h.out THEN UNCHANGED <<schedVars, handles, ticketVars>>
           ELSE IF t \notin tickets
           THEN /\ handles' = [handles EXCEPT ![w + 1].out = @ \ {t}, ![w + 1].free = @ + 1]
                /\ UNCHANGED <<schedVars, ticketVars>>
           ELSE /\ handles' = [handles EXCEPT ![w + 1].out = @ \ {t}, ![w + 1].held = @ \cup {t}]
                /\ FrameDone(posted[t].key)
                /\ UNCHANGED posted
                /\ refs' = refs \cup {[ticket |-> t, worker |-> w, segment |-> h.segment]}
                /\ Complete({t}, "ok")
        /\ UNCHANGED <<segments, pump, shutting, resizeVars, faults>>

\* on_frame_failed: the slot is recycled and the ticket fails.
OnFrameFailed(p) ==
    LET w == procs[p].worker
        t == Head(procs[p].pipe).ticket
    IN  /\ HasEvent(p, "frame_failed") /\ ForHandle(p)
        /\ procs' = Taken(p)
        /\ IF t \notin Handle(w).out THEN UNCHANGED <<schedVars, handles, tickets, answer>>
           ELSE /\ handles' = [handles EXCEPT ![w + 1].out = @ \ {t}, ![w + 1].free = @ + 1]
                /\ IF t \notin tickets THEN UNCHANGED <<schedVars, tickets, answer>>
                   ELSE /\ FrameDone(posted[t].key)
                        /\ Complete({t}, "failed")
        /\ UNCHANGED <<segments, posted, refs, pump, shutting, resizeVars, faults>>

\* A session-level error only recycles a worker that is still starting.
OnError(p) ==
    LET w == procs[p].worker
    IN  /\ HasEvent(p, "error") /\ ForHandle(p)
        /\ procs' = Taken(p)
        /\ handles' = IF Handle(w).state = "Starting"
                      THEN [handles EXCEPT ![w + 1].state = "Dead"] ELSE handles
        /\ UNCHANGED <<schedVars, segments, ticketVars, pump, shutting, resizeVars, faults>>

OnEof(p) ==
    LET w == procs[p].worker
    IN  /\ HasEvent(p, "eof") /\ ForHandle(p)
        /\ procs' = Taken(p)
        /\ handles' = IF Handle(w).state = "PermanentlyDead" THEN handles
                      ELSE [handles EXCEPT ![w + 1].state = "Dead"]
        /\ UNCHANGED <<schedVars, segments, ticketVars, pump, shutting, resizeVars, faults>>

Drain(p) ==
    \/ DropEvent(p)
    \/ OnHandshake(p)
    \/ OnHelloCaps(p)
    \/ OnFrameReady(p)
    \/ OnFrameFailed(p)
    \/ OnError(p)
    \/ OnEof(p)

\* The channel is empty; what the readers have not forwarded yet stays behind.
DrainEnd ==
    /\ pump.at = "drain"
    /\ Phase("restart")
    /\ UNCHANGED <<schedVars, poolVars, ticketVars, shutting, resizeVars, faults>>

\* Step 2: a dead worker that is not retiring is restarted, in index order.
Crashed(w) == Handle(w).state = "Dead" /\ ~Handle(w).retiring

\* Mutant: the tickets of the worker are left open.
GiveUpKeepsTickets(w) ==
    /\ handles' = [handles EXCEPT ![w + 1].state = "PermanentlyDead", ![w + 1].restarts = @ + 1,
                                  ![w + 1].pid = 0, ![w + 1].out = {}, ![w + 1].held = {}]
    /\ procs' = Kill(procs, Handle(w).pid)
    /\ claimed' = claimed \ ClaimsOf(w)
    /\ UNCHANGED <<workers, batch_size, pending, segments, ticketVars>>

\* restart_worker when the budget is used up: the claims of the worker fail.
GiveUp(w) ==
    /\ handles' = [handles EXCEPT ![w + 1].state = "PermanentlyDead", ![w + 1].restarts = @ + 1,
                                  ![w + 1].pid = 0, ![w + 1].out = {}, ![w + 1].held = {}]
    /\ procs' = Kill(procs, Handle(w).pid)
    /\ claimed' = claimed \ ClaimsOf(w)
    /\ Complete(Payloads({c.request : c \in ClaimsOf(w)}), "failed")
    /\ UNCHANGED <<workers, batch_size, pending, segments, posted, refs>>

\* Mutant: the frames in flight are forgotten.
RespawnLosingClaims(w) ==
    LET h == Handle(w)
    IN  /\ UNCHANGED <<schedVars, ticketVars>>
        /\ procs' = Append(Kill(procs, h.pid), NewProc(w, h.restarts + 1))
        /\ handles' = [handles EXCEPT ![w + 1] = NewHandle(h.restarts + 1, Len(procs) + 1, segments + 1)]
        /\ segments' = segments + 1

\* restart_worker within the budget: the claims return to the queue and a new
\* child on a new segment takes the place of the old one.
Respawn(w) ==
    LET h == Handle(w)
    IN  /\ WorkerCrashed(w)
        /\ procs' = Append(Kill(procs, h.pid), NewProc(w, h.restarts + 1))
        /\ handles' = [handles EXCEPT ![w + 1] = NewHandle(h.restarts + 1, Len(procs) + 1, segments + 1)]
        /\ segments' = segments + 1
        /\ UNCHANGED ticketVars

\* The spawn fails: the handle stays dead, without a child.
RespawnFails(w) ==
    /\ WorkerCrashed(w)
    /\ procs' = Kill(procs, Handle(w).pid)
    /\ handles' = [handles EXCEPT ![w + 1].restarts = @ + 1, ![w + 1].pid = 0,
                                  ![w + 1].out = {}, ![w + 1].held = {}, ![w + 1].state = "Dead"]
    /\ UNCHANGED <<segments, ticketVars>>

RestartWorker(w) ==
    /\ pump.at = "restart" /\ w >= pump.worker
    /\ \A v \in Workers : v >= pump.worker /\ v < w => ~Crashed(v)
    /\ pump' = [pump EXCEPT !.worker = w + 1]
    /\ \/ /\ Crashed(w)                                     \* EOF or a failed write
          /\ IF Handle(w).restarts + 1 > MAX_RESTARTS THEN GiveUp(w) ELSE Respawn(w)
          /\ UNCHANGED faults
       \/ /\ Crashed(w) /\ Handle(w).restarts + 1 <= MAX_RESTARTS
          /\ RespawnFails(w)
          /\ Fault
       \/ /\ Handle(w).state = "Starting" /\ ~Handle(w).retiring  \* handshake timeout
          /\ Fault
          /\ IF Handle(w).restarts + 1 > MAX_RESTARTS THEN GiveUp(w) ELSE Respawn(w)
    /\ UNCHANGED <<shutting, resizeVars>>

RestartsDone ==
    /\ pump.at = "restart"
    /\ \A w \in Workers : w >= pump.worker => ~Crashed(w)
    /\ Phase("dispatch")
    /\ UNCHANGED <<schedVars, poolVars, ticketVars, shutting, resizeVars, faults>>

--------------------------------------------------------------------------------
(* Step 3: dispatch                                                        *)

\* Mutant: a grown segment may have a single slot.
AtLeastOneSlot(n) == AtLeastOne(n)

AtLeastTwo(n) == IF n < 2 THEN 2 ELSE n

\* default_slots_for_bytes
SlotsForBytes(bytes, current) ==
    AtLeastTwo(Smaller(AtLeastTwo(SegmentBudget \div AtLeastOne(bytes)), current))

\* The segment size worker w must grow to, 0 when it need not or may not.
Growth(w) ==
    IF Handle(w).free = 0 \/ Handle(w).out # {} THEN 0 ELSE NeededBytes(w, Handle(w).bytes)

MayDispatch(w) ==
    Handle(w).state = "Alive" /\ ~Handle(w).reconfiguring /\ ~Handle(w).retiring

HasWork(w) ==
    MayDispatch(w) /\ (Growth(w) > 0 \/ Batches(w, Handle(w).free, Handle(w).bytes) # {})

\* The walk has reached worker w: the earlier ones had nothing more to claim.
Reached(w) ==
    /\ pump.at = "dispatch" /\ w >= pump.worker /\ HasWork(w)
    /\ \A v \in Workers : v >= pump.worker /\ v < w => ~HasWork(v)

\* rebuild_segment: a larger segment under a new key; the consumers' references
\* into the old one become stale and the worker re-attaches.
RebuildSegment(w) ==
    /\ Reached(w) /\ Growth(w) > 0
    /\ LET slots == SlotsForBytes(Growth(w), Handle(w).slots)
           grown == [Handle(w) EXCEPT !.segment = segments + 1, !.bytes = Growth(w), !.slots = slots,
                                      !.free = slots, !.held = {}, !.reconfiguring = TRUE,
                                      !.state = IF Up(Handle(w).pid) THEN @ ELSE "Dead"]
       IN  handles' = [handles EXCEPT ![w + 1] = grown]
    /\ procs' = IF Up(Handle(w).pid) THEN Send(procs, Handle(w).pid, Message("handshake", {})) ELSE procs
    /\ segments' = segments + 1
    /\ pump' = [pump EXCEPT !.worker = w + 1]
    /\ UNCHANGED <<schedVars, ticketVars, shutting, resizeVars, faults>>

\* The larger segment cannot be created: the worker is left as it is for this pump.
RebuildFails(w) ==
    /\ Reached(w) /\ Growth(w) > 0
    /\ Fault
    /\ pump' = [pump EXCEPT !.worker = w + 1]
    /\ UNCHANGED <<schedVars, poolVars, ticketVars, shutting, resizeVars>>

\* One batch is claimed, given slots and sent; a failed write ends the walk of
\* this worker with its claims still in place.
DispatchBatch(w) ==
    /\ Reached(w) /\ Growth(w) = 0
    /\ \E batch \in Batches(w, Handle(w).free, Handle(w).bytes) :
         LET sent == {e.request.payload : e \in batch}
             alive == Up(Handle(w).pid)
         IN  /\ ClaimBatch(w, batch)
             /\ handles' = [handles EXCEPT ![w + 1].out = @ \cup sent,
                                           ![w + 1].free = @ - Cardinality(batch),
                                           ![w + 1].state = IF alive THEN @ ELSE "Dead"]
             /\ procs' = IF alive THEN Send(procs, Handle(w).pid, Message("render", sent)) ELSE procs
             /\ pump' = [pump EXCEPT !.worker = IF alive THEN w ELSE w + 1]
    /\ UNCHANGED <<segments, ticketVars, shutting, resizeVars, faults>>

--------------------------------------------------------------------------------
(* Step 4: retirement                                                      *)

Signal(h) ==
    /\ h.retiring /\ ~h.signalled
    /\ h.out = {} /\ h.held = {}
    /\ h.state \in {"Alive", "Starting"}

\* Nothing is left to claim; drained retiring workers get the shutdown message.
DispatchDone ==
    LET told == {w \in Workers : Signal(Handle(w))}
    IN  /\ pump.at = "dispatch"
        /\ \A w \in Workers : w >= pump.worker => ~HasWork(w)
        /\ handles' = [i \in DOMAIN handles |->
                          IF i - 1 \in told THEN [handles[i] EXCEPT !.signalled = TRUE] ELSE handles[i]]
        /\ procs' = [p \in DOMAIN procs |->
                        IF procs[p].up /\ \E w \in told : Handle(w).pid = p
                        THEN [procs[p] EXCEPT !.inbox = Append(@, Message("shutdown", {}))]
                        ELSE procs[p]]
        /\ pump' = [at |-> "reap", worker |-> Len(handles)]
        /\ UNCHANGED <<schedVars, segments, ticketVars, shutting, resizeVars, faults>>

Exited(w) == Handle(w).retiring /\ ~Up(Handle(w).pid)

\* A retiring worker whose child exited, or hung past the deadline and is
\* killed, leaves the vector: the later workers move down one index.  The
\* claims under its index return to the queue.
Reap(w) ==
    /\ pump.at = "reap" /\ w < pump.worker
    /\ \A v \in Workers : v > w /\ v < pump.worker => ~Exited(v)
    /\ \/ Exited(w) /\ UNCHANGED faults
       \/ Handle(w).retiring /\ Handle(w).signalled /\ ~Exited(w) /\ Fault
    /\ WorkerCrashed(w)
    /\ procs' = IF Exited(w) \/ Handle(w).state # "Dead" THEN Kill(procs, Handle(w).pid)
                ELSE Send(procs, Handle(w).pid, Message("shutdown", {}))  \* its stdin closes
    /\ handles' = SubSeq(handles, 1, w) \o SubSeq(handles, w + 2, Len(handles))
    /\ pump' = [pump EXCEPT !.worker = w]
    /\ UNCHANGED <<segments, ticketVars, shutting, resizeVars>>

\* The lock is released.
PumpEnd ==
    /\ pump.at = "reap"
    /\ \A w \in Workers : w < pump.worker => ~Exited(w)
    /\ Phase("idle")
    /\ UNCHANGED <<schedVars, poolVars, ticketVars, shutting, resizeVars, faults>>

--------------------------------------------------------------------------------
(* Shutdown                                                                *)

\* The first pump follows at once: the calls that could come between (releases and
\* cancellations) would do the same before.
ShutdownBegin ==
    /\ ~Locked /\ shutting = "no" /\ MayShutdown
    /\ shutting' = "draining"
    /\ procs' = [p \in DOMAIN procs |->
                    IF procs[p].up /\ \E w \in Workers : /\ Handle(w).pid = p
                                                         /\ Handle(w).state \in {"Alive", "Starting"}
                    THEN [procs[p] EXCEPT !.inbox = Append(@, Message("shutdown", {}))]
                    ELSE procs[p]]
    /\ StartPump
    /\ UNCHANGED <<schedVars, handles, segments, ticketVars, resizeVars, faults>>

\* The drain window pumps while a child is running; pump does not ask whether
\* the pool is shutting down.
ShutdownPump ==
    /\ ~Locked /\ shutting = "draining"
    /\ \E w \in Workers : Up(Handle(w).pid)
    /\ StartPump
    /\ UNCHANGED <<schedVars, poolVars, ticketVars, shutting, resizeVars, faults>>

\* Mutant: a child that was restarted during the drain is not killed.
ShutdownFinishSparesStarting ==
    /\ ~Locked /\ shutting = "draining"
    /\ shutting' = "down"
    /\ procs' = [p \in DOMAIN procs |->
                    IF \E w \in Workers : Handle(w).pid = p /\ Handle(w).state # "Starting"
                    THEN Kill(procs, p)[p] ELSE procs[p]]
    /\ handles' = [i \in DOMAIN handles |-> [handles[i] EXCEPT !.pid = 0]]
    /\ Complete(tickets, "cancelled")
    /\ UNCHANGED <<schedVars, segments, posted, refs, pump, resizeVars, faults>>

\* Mutant: the open tickets are not cancelled.
ShutdownFinishKeepsTickets ==
    /\ ~Locked /\ shutting = "draining"
    /\ shutting' = "down"
    /\ procs' = [p \in DOMAIN procs |->
                    IF \E w \in Workers : Handle(w).pid = p THEN Kill(procs, p)[p] ELSE procs[p]]
    /\ handles' = [i \in DOMAIN handles |-> [handles[i] EXCEPT !.pid = 0]]
    /\ UNCHANGED <<schedVars, segments, ticketVars, pump, resizeVars, faults>>

\* No child is running, or the deadline has passed: stragglers are killed and
\* every open ticket is cancelled.
ShutdownFinish ==
    /\ ~Locked /\ shutting = "draining"
    /\ shutting' = "down"
    /\ procs' = [p \in DOMAIN procs |->
                    IF \E w \in Workers : Handle(w).pid = p THEN Kill(procs, p)[p] ELSE procs[p]]
    /\ handles' = [i \in DOMAIN handles |-> [handles[i] EXCEPT !.pid = 0]]
    /\ Complete(tickets, "cancelled")
    /\ UNCHANGED <<schedVars, segments, posted, refs, pump, resizeVars, faults>>

--------------------------------------------------------------------------------
(* The child processes (oak-worker's control loop)                         *)

HasMessage(p, type) ==
    /\ procs[p].up
    /\ procs[p].inbox # <<>>
    /\ Head(procs[p].inbox).type = type

\* The handshake attaches the segment, or reports an error and stays without.
ProcHandshake(p) ==
    /\ HasMessage(p, "handshake")
    /\ \E ok \in BOOLEAN :
         /\ procs' = [procs EXCEPT ![p].inbox = Tail(@),
                                   ![p].pipe = Append(@, Event(IF ok THEN "hello_caps" ELSE "error", 0))]
         /\ IF ok THEN UNCHANGED faults ELSE Fault
    /\ UNCHANGED <<schedVars, handles, segments, ticketVars, pump, shutting, resizeVars>>

\* One frame of the batch at the head of the pipe.
ProcRender(p) ==
    /\ HasMessage(p, "render")
    /\ \E t \in Head(procs[p].inbox).batch, ok \in BOOLEAN :
         LET rest == Head(procs[p].inbox).batch \ {t}
         IN  /\ procs' = [procs EXCEPT
                    ![p].inbox = IF rest = {} THEN Tail(@) ELSE [@ EXCEPT ![1] = Message("render", rest)],
                    ![p].pipe = Append(@, Event(IF ok THEN "frame_ready" ELSE "frame_failed", t))]
             /\ IF ok THEN UNCHANGED faults ELSE Fault
    /\ UNCHANGED <<schedVars, handles, segments, ticketVars, pump, shutting, resizeVars>>

\* shutdown ends the control loop; what is behind it in the pipe is not read.
ProcExit(p) ==
    /\ HasMessage(p, "shutdown")
    /\ procs' = Kill(procs, p)
    /\ UNCHANGED <<schedVars, handles, segments, ticketVars, pump, shutting, resizeVars, faults>>

ProcCrash(p) ==
    /\ procs[p].up
    /\ Fault
    /\ procs' = Kill(procs, p)
    /\ UNCHANGED <<schedVars, handles, segments, ticketVars, pump, shutting, resizeVars>>

--------------------------------------------------------------------------------

PumpStep ==
    \/ PumpResize
    \/ DrainEnd
    \/ \E w \in Workers : \/ RestartWorker(w)
                           \/ RebuildSegment(w) \/ RebuildFails(w) \/ DispatchBatch(w)
                           \/ Reap(w)
    \/ RestartsDone
    \/ DispatchDone
    \/ PumpEnd

ProcStep(p) == ProcHandshake(p) \/ ProcRender(p) \/ ProcExit(p)

Next ==
    \/ \E job \in Jobs : Post(job)
    \/ \E key \in Key : CancelFrame(key)
    \/ \E sequence \in {key.sequence : key \in Key} : CancelPreviewSequence(sequence)
    \/ \E ref \in refs : ReleaseFrame(ref)
    \/ \E n \in Targets : SetTargetWorkers(n)
    \/ Poll
    \/ StalePoll
    \/ PumpStep
    \/ \E p \in DOMAIN procs : Drain(p) \/ ProcStep(p) \/ ProcCrash(p)
    \/ ShutdownBegin
    \/ ShutdownPump
    \/ ShutdownFinish

\* The UI tick polls again and again, a pump that holds the lock runs on, the
\* children serve their pipes and the readers forward what they read, so that a
\* waiting event is drained by one of the coming pumps.  The shutdown deadline
\* passes.
BaseFairness ==
    /\ WF_vars(Poll)
    /\ WF_vars(PumpStep)
    /\ WF_vars(\E p \in DOMAIN procs : ProcStep(p))
    /\ SF_vars(\E p \in DOMAIN procs : Drain(p))
    /\ SF_vars(ShutdownFinish)

\* Whoever waits for a seek takes the frame and releases it; the frames of the
\* playback window stay until the UI consumes them.  The same thread polls, so a
\* release waits for the lock only until the poll is over.
SeekRelease == SF_vars(\E ref \in refs : posted[ref.ticket].priority = Seek /\ ReleaseFrame(ref))

Safety == Init /\ [][Next]_vars
Spec == Safety /\ BaseFairness /\ SeekRelease

--------------------------------------------------------------------------------
(* Properties                                                              *)

\* Type invariant of the dispatcher.
TypeOK ==
    /\ SchedTypeOK
    /\ \A i \in DOMAIN handles :
         /\ handles[i].state \in {"Starting", "Alive", "Dead", "PermanentlyDead"}
         /\ handles[i].pid \in 0..Len(procs)
         /\ handles[i].free \in 0..handles[i].slots
         /\ handles[i].out \cup handles[i].held \subseteq DOMAIN posted
    /\ tickets \subseteq DOMAIN posted
    /\ answer \in [DOMAIN posted -> {"open", "ok", "cancelled", "failed"}]
    /\ \A ref \in refs : ref.ticket \in DOMAIN posted

\* The requests the scheduler knows are exactly the open tickets, each once and
\* under the key it was posted with: no ticket is left without a request that
\* could answer it, and no request without the ticket that dispatch_to and
\* cancel_frame look up.
TicketPerRequest ==
    shutting # "down" =>
        LET requests == {e.request : e \in pending} \cup {c.request : c \in claimed}
        IN  /\ Payloads(requests) = tickets
            /\ \A r \in requests : r.key = posted[r.payload].key
            /\ \A r, q \in requests : r.payload = q.payload => r = q

\* Every claim is with the worker the scheduler says: the handle at that index
\* has the ticket outstanding, so a crash or an answer of that worker settles it.
ClaimsOutstanding ==
    shutting # "down" =>
        \A c \in claimed : c.worker \in Workers /\ c.request.payload \in Handle(c.worker).out

\* The credit is exact: the slots of a worker are free, outstanding or held, and
\* the held ones are those of frames that a consumer has and has not released.
SlotsAccounted ==
    \A w \in Workers :
        LET h == Handle(w)
        IN  h.state # "PermanentlyDead" /\ h.pid # 0 =>
              /\ h.free + Cardinality(h.out) + Cardinality(h.held) = h.slots
              /\ h.held = {ref.ticket : ref \in {r \in refs : r.segment = h.segment}}

\* Every running child belongs to a handle, or was told to exit: the only children
\* that outlive shutdown are those whose stdin it, or a retirement, has closed.
NoOrphans ==
    \A p \in DOMAIN procs : procs[p].up =>
        \/ \E w \in Workers : Handle(w).pid = p
        \/ \E i \in DOMAIN procs[p].inbox : procs[p].inbox[i].type = "shutdown"

\* Once shutdown has returned every ticket is answered, also those that were
\* posted, re-queued or in a worker's hands while it drained.
ShutdownAnswersAll == shutting = "down" => \A t \in DOMAIN posted : answer[t] # "open"

\* A re-attach that failed: the worker lives on with nothing to read or to say, and
\* is given no more work.
Hung(w) ==
    /\ Handle(w).reconfiguring /\ Up(Handle(w).pid)
    /\ procs[Handle(w).pid].inbox = <<>> /\ procs[Handle(w).pid].pipe = <<>>

\* Every shard has a worker that can still be given work.
Whole ==
    /\ Len(handles) >= target
    /\ \A w \in Workers : Handle(w).state # "PermanentlyDead" /\ ~Hung(w)

\* Frames of the playback window hold a worker's slots, down to the interactive reserve.
WindowFull ==
    \E w \in Workers : /\ Handle(w).free < 2
                       /\ \E t \in Handle(w).held : posted[t].priority # Seek

\* In a pool that stays whole every ticket is answered, whatever crashes, fails to
\* render or must grow its segment; only a playback frame may have to wait, for a
\* consumer that does not release the frames of the playback window, a seek may not
\* (the interactive reserve, default_slots_for_bytes, restart_worker).  Of a pool that
\* is not whole nothing is promised: the frames of such a shard stay queued.
EveryTicketAnswered ==
    \A t \in 1..MaxTickets :
        (t \in tickets) ~> \/ t \notin tickets
                           \/ ~Whole
                           \/ posted[t].priority # Seek /\ WindowFull

================================================================================
