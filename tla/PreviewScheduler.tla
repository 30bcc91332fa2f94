---------------------------- MODULE PreviewScheduler ----------------------------
(***************************************************************************)
(* The preview scheduler of crates/oak-render/src/scheduler.rs: pending    *)
(* frame requests, interleaved batch claims, crash re-dispatch, flow       *)
(* control and cancellation.  This module holds its state and one action   *)
(* per method; SchedulerUse closes it with a dispatcher that calls them in *)
(* any order, and ProcPool is the dispatcher of procpool.rs.               *)
(*                                                                         *)
(* The pending vector is a set: its order only breaks ties between         *)
(* requests that differ in nothing but their version, and a claim here may *)
(* break them either way.  The claim map is the set of its values; an      *)
(* insertion replaces the claim under the same key, as HashMap does.       *)
(***************************************************************************)
EXTENDS Integers, FiniteSets

CONSTANTS
    WindowFrames,  \* frames of one round of batches (120 in the code)
    Key            \* request keys: [sequence, frame, version]

ASSUME SchedulerAssumption ==
    /\ WindowFrames \in Nat
    /\ Key \subseteq [sequence : Nat, frame : Int, version : Nat]

VARIABLES
    workers,     \* worker count, the modulus of the shards
    batch_size,  \* most frames of one batch
    pending,     \* unclaimed requests
    claimed      \* requests in flight and the worker that holds each

schedVars == <<workers, batch_size, pending, claimed>>

\* FramePriority: a lower value is more urgent.
Seek == 0
Playback == 1
Background == 2

Request == [key : Key, priority : Seek..Background, distance : Int, payload : Nat, slot_bytes : Nat]
PendingEntry == [request : Request, any_worker : BOOLEAN]
Claim == [worker : Nat, request : Request]

PendingUnder(key) == {e \in pending : e.request.key = key}
ClaimsUnder(key) == {c \in claimed : c.request.key = key}
ClaimsOf(worker) == {c \in claimed : c.worker = worker}

AtLeastOne(n) == IF n < 1 THEN 1 ELSE n
Smaller(m, n) == IF m < n THEN m ELSE n

--------------------------------------------------------------------------------
(* Construction and resize                                                 *)

\* PreviewScheduler::new; a batch size of 0 asks for the design figure.
New(n, size) ==
    /\ workers = AtLeastOne(n)
    /\ batch_size = IF size = 0 THEN AtLeastOne(WindowFrames \div workers) ELSE size
    /\ pending = {}
    /\ claimed = {}

\* Mutant: a count of 0 is taken as it is.
SetWorkerCountUnclamped(n) ==
    /\ workers' = n
    /\ batch_size' = batch_size
    /\ UNCHANGED <<pending, claimed>>

\* set_worker_count: the shards follow at once, the batch size only shrinks.
SetWorkerCount(n) ==
    /\ workers' = AtLeastOne(n)
    /\ batch_size' = IF workers' = workers THEN batch_size
                     ELSE Smaller(AtLeastOne(WindowFrames \div workers'), AtLeastOne(batch_size))
    /\ UNCHANGED <<pending, claimed>>

--------------------------------------------------------------------------------
(* Submission and claims                                                   *)

\* Mutant: the outcome of submit is ignored.
HandedBackNothing(request) == {}

\* What submit hands back to the dispatcher: the request itself when its key is
\* in flight, the request it replaces, or nothing.
HandedBack(request) ==
    IF ClaimsUnder(request.key) # {} THEN {request}
    ELSE {e.request : e \in PendingUnder(request.key)}

\* Mutant: the claims are not looked at.
SubmitIgnoringClaims(request) ==
    /\ pending' = (pending \ PendingUnder(request.key))
                    \cup {[request |-> request, any_worker |-> request.priority = Seek]}
    /\ UNCHANGED <<workers, batch_size, claimed>>

\* submit: a key in flight is rejected, a pending one is replaced in place.
Submit(request) ==
    /\ pending' = IF ClaimsUnder(request.key) # {} THEN pending
                  ELSE (pending \ PendingUnder(request.key))
                         \cup {[request |-> request, any_worker |-> request.priority = Seek]}
    /\ UNCHANGED <<workers, batch_size, claimed>>

\* Mutant: a shard is the frame number itself.
InShardUnfolded(entry, worker) == entry.any_worker \/ entry.request.key.frame = worker

\* The interleaved shard of a worker, and what any worker may take.
InShard(entry, worker) ==
    entry.any_worker \/ entry.request.key.frame % workers = worker

Eligible(worker, max_bytes) ==
    {e \in pending : e.request.slot_bytes <= max_bytes /\ InShard(e, worker)}

\* The order of a batch: priority, distance, frame number, sequence.
MoreUrgent(a, b) ==
    \/ a.priority < b.priority
    \/ /\ a.priority = b.priority
       /\ \/ a.distance < b.distance
          \/ /\ a.distance = b.distance
             /\ \/ a.key.frame < b.key.frame
                \/ a.key.frame = b.key.frame /\ a.key.sequence < b.key.sequence

Seeks(entries) == {e \in entries : e.request.priority = Seek}

\* Playback and background frames leave one credit unused, the interactive
\* reserve of the worker.
NonSeekLimit(credit) == Smaller(batch_size, credit - 1)

\* The batches claim_batch may form: the most urgent eligible requests, as many
\* as the batch size and the credit allow.
Batches(worker, credit, max_bytes) ==
    LET eligible == Eligible(worker, max_bytes)
        cap == Smaller(batch_size, credit)
        seeks == Smaller(Cardinality(Seeks(eligible)), cap)
        room == NonSeekLimit(credit) - seeks
        others == Smaller(Cardinality(eligible \ Seeks(eligible)), IF room < 0 THEN 0 ELSE room)
    IN  IF worker >= workers \/ credit = 0 THEN {}
        ELSE {batch \in SUBSET eligible :
                /\ batch # {}
                /\ Cardinality(Seeks(batch)) = seeks
                /\ Cardinality(batch \ Seeks(batch)) = others
                /\ \A e \in batch, f \in eligible \ batch : ~MoreUrgent(f.request, e.request)}

\* The requests of a batch move from the queue to the claims of the worker.
ClaimBatch(worker, batch) ==
    /\ pending' = pending \ batch
    /\ claimed' = (claimed \ UNION {ClaimsUnder(e.request.key) : e \in batch})
                    \cup {[worker |-> worker, request |-> e.request] : e \in batch}
    /\ UNCHANGED <<workers, batch_size>>

\* max_pending_bytes_for_worker: the size a worker's segment should grow to, or
\* 0 when its present size is enough.
NeededBytes(worker, current) ==
    LET sizes == {e.request.slot_bytes : e \in {f \in pending : InShard(f, worker)}}
    IN  IF worker >= workers \/ \A s \in sizes : s <= current THEN 0
        ELSE CHOOSE s \in sizes : \A t \in sizes : t <= s

--------------------------------------------------------------------------------
(* The end of a claim                                                      *)

\* frame_done and frame_failed drop the claim under the key.
FrameDone(key) ==
    /\ claimed' = claimed \ ClaimsUnder(key)
    /\ UNCHANGED <<workers, batch_size, pending>>

\* mutant: the claims are dropped, not queued again
WorkerCrashedDrops(worker) ==
    /\ claimed' = claimed \ ClaimsOf(worker)
    /\ UNCHANGED <<workers, batch_size, pending>>

\* worker_crashed: every claim of the worker returns to the queue, for anyone.
WorkerCrashed(worker) ==
    /\ claimed' = claimed \ ClaimsOf(worker)
    /\ pending' = pending \cup {[request |-> c.request, any_worker |-> TRUE] : c \in ClaimsOf(worker)}
    /\ UNCHANGED <<workers, batch_size>>

Known(key) == PendingUnder(key) # {} \/ ClaimsUnder(key) # {}

\* cancel_key: the pending request under the key, or else the claim.
CancelKey(key) ==
    /\ pending' = pending \ PendingUnder(key)
    /\ claimed' = IF PendingUnder(key) # {} THEN claimed ELSE claimed \ ClaimsUnder(key)
    /\ UNCHANGED <<workers, batch_size>>

OfSequence(sequence) ==
    {e.request : e \in {f \in pending : f.request.key.sequence = sequence}}
      \cup {c.request : c \in {d \in claimed : d.request.key.sequence = sequence}}

\* cancel_sequence drops the requests OfSequence hands back.
CancelSequence(sequence) ==
    /\ pending' = {e \in pending : e.request.key.sequence # sequence}
    /\ claimed' = {c \in claimed : c.request.key.sequence # sequence}
    /\ UNCHANGED <<workers, batch_size>>

--------------------------------------------------------------------------------
(* Invariants of the scheduler under any caller                            *)

\* Type invariant of the scheduler's fields.
SchedTypeOK ==
    /\ workers \in Nat \ {0}
    /\ batch_size \in Nat \ {0}
    /\ pending \subseteq PendingEntry
    /\ claimed \subseteq Claim

\* A key has one home: two pending requests never share it, no two workers hold
\* it, and it is never queued while it is in flight, so no frame is rendered
\* twice and cancelling a key finds the only request there is.
OneHomePerKey ==
    /\ \A e, f \in pending : e.request.key = f.request.key => e = f
    /\ \A c, d \in claimed : c.request.key = d.request.key => c = d
    /\ \A e \in pending, c \in claimed : e.request.key # c.request.key

================================================================================
