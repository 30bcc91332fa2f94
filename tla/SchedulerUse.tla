------------------------------ MODULE SchedulerUse ------------------------------
(***************************************************************************)
(* The preview scheduler under a dispatcher that calls its methods in any  *)
(* order: what PreviewScheduler promises to whoever drives it.             *)
(***************************************************************************)
EXTENDS PreviewScheduler

CONSTANTS
    InitialWorkers,  \* workers of the pool at start
    MaxWorkers,      \* bound: workers a resize may ask for
    MaxCredit,       \* bound: free slots of a worker
    Jobs,            \* what a dispatcher may ask for: requests without their payload
    Sizes,           \* slot sizes a segment may have
    MaxPosts,        \* bound: requests ever submitted
    MaxCrashes,      \* bound: crashes
    MaxResizes       \* bound: resizes

ASSUME UseAssumption ==
    /\ InitialWorkers \in Nat /\ MaxWorkers \in Nat /\ MaxCredit \in Nat
    /\ Jobs \subseteq [key : Key, priority : Seek..Background, distance : Int, slot_bytes : Sizes]
    /\ Sizes \subseteq Nat /\ MaxPosts \in Nat /\ MaxCrashes \in Nat /\ MaxResizes \in Nat

VARIABLES
    posted,    \* requests submitted so far; the payload of the last one
    returned,  \* payloads handed back: replaced, rejected, done, failed, cancelled
    crashes,
    resizes

vars == <<schedVars, posted, returned, crashes, resizes>>

Payloads(requests) == {r.payload : r \in requests}
Queued == {e.request : e \in pending}
InFlight == {c.request : c \in claimed}

Init ==
    /\ New(InitialWorkers, 0)
    /\ posted = 0
    /\ returned = {}
    /\ crashes = 0
    /\ resizes = 0

Post(job) ==
    LET request == [key |-> job.key, priority |-> job.priority, distance |-> job.distance,
                    payload |-> posted + 1, slot_bytes |-> job.slot_bytes]
    IN  /\ posted < MaxPosts
        /\ Submit(request)
        /\ posted' = posted + 1
        /\ returned' = returned \cup Payloads(HandedBack(request))
        /\ UNCHANGED <<crashes, resizes>>

DoClaim(worker, credit, max_bytes) ==
    /\ \E batch \in Batches(worker, credit, max_bytes) : ClaimBatch(worker, batch)
    /\ UNCHANGED <<posted, returned, crashes, resizes>>

Finish(key) ==
    /\ ClaimsUnder(key) # {}
    /\ FrameDone(key)
    /\ returned' = returned \cup Payloads({c.request : c \in ClaimsUnder(key)})
    /\ UNCHANGED <<posted, crashes, resizes>>

Crash(worker) ==
    /\ crashes < MaxCrashes
    /\ WorkerCrashed(worker)
    /\ crashes' = crashes + 1
    /\ UNCHANGED <<posted, returned, resizes>>

Cancel(key) ==
    /\ Known(key)
    /\ CancelKey(key)
    /\ returned' = returned \cup Payloads({r \in Queued \cup InFlight : r.key = key})
    /\ UNCHANGED <<posted, crashes, resizes>>

CancelAll(sequence) ==
    /\ CancelSequence(sequence)
    /\ returned' = returned \cup Payloads(OfSequence(sequence))
    /\ UNCHANGED <<posted, crashes, resizes>>

Resize(n) ==
    /\ resizes < MaxResizes
    /\ SetWorkerCount(n)
    /\ resizes' = resizes + 1
    /\ UNCHANGED <<posted, returned, crashes>>

Next ==
    \/ \E job \in Jobs : Post(job)
    \/ \E worker \in 0..(MaxWorkers - 1), credit \in 1..MaxCredit, bytes \in Sizes :
         DoClaim(worker, credit, bytes)
    \/ \E key \in Key : Finish(key) \/ Cancel(key)
    \/ \E worker \in 0..(MaxWorkers - 1) : Crash(worker)
    \/ \E sequence \in {k.sequence : k \in Key} : CancelAll(sequence)
    \/ \E n \in 0..MaxWorkers : Resize(n)

\* Every worker that the modulus knows keeps asking with free slots and a
\* segment of the largest size: the dispatcher's poll loop walks all workers.
Fairness ==
    \A worker \in 0..(MaxWorkers - 1) :
        WF_vars(\E bytes \in Sizes : (\A b \in Sizes : b <= bytes) /\ DoClaim(worker, MaxCredit, bytes))

Spec == Init /\ [][Next]_vars /\ Fairness

--------------------------------------------------------------------------------
(* Properties                                                              *)

\* Type invariant of the scheduler and of its caller.
TypeOK ==
    /\ SchedTypeOK
    /\ posted \in Nat
    /\ returned \subseteq Nat
    /\ crashes \in Nat
    /\ resizes \in Nat

\* No request is lost and none is answered twice: a request is with the
\* scheduler or was handed back to the dispatcher, never both, through
\* replacement, rejection, crashes, cancellations and resizes.
EachRequestOnce ==
    /\ Payloads(Queued \cup InFlight) \cap returned = {}
    /\ Payloads(Queued \cup InFlight) \cup returned = 1..posted
    /\ \A r, q \in Queued \cup InFlight : r.payload = q.payload => r = q

\* Every queued request is eventually claimed or handed back: no shard, crash or
\* resize leaves a frame that no worker may take.
QueueDrains ==
    \A p \in 1..MaxPosts : (p \in Payloads(Queued)) ~> (p \notin Payloads(Queued))

================================================================================
