---------------------------- MODULE SchedulerProofs ----------------------------
(***************************************************************************)
(* Type correctness, one home per key, conservation of requests and the    *)
(* claim loop against its rule, for every number of workers, keys, sizes,  *)
(* posts, crashes and resizes.                                             *)
(***************************************************************************)
EXTENDS ClaimLoop, TLAPS, FiniteSetTheorems, NaturalsInduction

\* The inductive invariant.  Conservation leans on the other two: a cancelled key
\* has one request at most, and a new payload is larger than all the old ones.
IInv == TypeOK /\ OneHomePerKey /\ EachRequestOnce

Live == Queued \cup InFlight

--------------------------------------------------------------------------------
(* What the operations return                                              *)

\* A batch that claim_batch forms is taken from the queue.
LEMMA BatchFromQueue ==
    ASSUME NEW worker, NEW credit, NEW bytes, NEW batch \in Batches(worker, credit, bytes)
    PROVE  batch \subseteq pending
BY DEF Batches, Eligible

\* set_worker_count leaves at least one worker and a batch size of at least one.
LEMMA ResizeType ==
    ASSUME SchedTypeOK, NEW n \in Nat, SetWorkerCount(n)
    PROVE  workers' \in Nat \ {0} /\ batch_size' \in Nat \ {0}
<1>1. workers' \in Nat \ {0}
  BY DEF SetWorkerCount, AtLeastOne
<1>2. WindowFrames \div workers' \in Int
  BY <1>1, SchedulerAssumption
<1>3. AtLeastOne(WindowFrames \div workers') \in Nat \ {0}
  BY <1>2 DEF AtLeastOne
<1>4. AtLeastOne(batch_size) \in Nat \ {0} /\ batch_size \in Nat \ {0}
  BY DEF AtLeastOne, SchedTypeOK
<1>5. Smaller(AtLeastOne(WindowFrames \div workers'), AtLeastOne(batch_size)) \in Nat \ {0}
  BY <1>3, <1>4 DEF Smaller
<1> QED
  BY <1>1, <1>4, <1>5 DEF SetWorkerCount

\* A posted job makes a request.
LEMMA PostedRequest ==
    ASSUME TypeOK, NEW job \in Jobs
    PROVE  [key |-> job.key, priority |-> job.priority, distance |-> job.distance,
            payload |-> posted + 1, slot_bytes |-> job.slot_bytes] \in Request
<1>1. job \in [key : Key, priority : Seek..Background, distance : Int, slot_bytes : Sizes]
  BY UseAssumption
<1>2. job.slot_bytes \in Nat
  BY <1>1, UseAssumption
<1>3. posted + 1 \in Nat
  BY DEF TypeOK
<1> QED
  BY <1>1, <1>2, <1>3 DEF Request

--------------------------------------------------------------------------------
(* Types                                                                   *)

\* The initial state is well typed.
LEMMA InitType == Init => TypeOK
<1> SUFFICES ASSUME Init PROVE TypeOK
  OBVIOUS
<1>1. workers \in Nat \ {0}
  BY UseAssumption DEF Init, New, AtLeastOne
<1>2. WindowFrames \div workers \in Int
  BY <1>1, SchedulerAssumption
<1>3. batch_size \in Nat \ {0}
  BY <1>2 DEF Init, New, AtLeastOne
<1> QED
  BY <1>1, <1>3 DEF Init, New, TypeOK, SchedTypeOK

\* Every call keeps the types.
LEMMA NextType == TypeOK /\ [Next]_vars => TypeOK'
<1> SUFFICES ASSUME TypeOK, [Next]_vars PROVE TypeOK'
  OBVIOUS
<1>1. ASSUME NEW job \in Jobs, Post(job) PROVE TypeOK'
  <2> DEFINE request == [key |-> job.key, priority |-> job.priority, distance |-> job.distance,
                         payload |-> posted + 1, slot_bytes |-> job.slot_bytes]
  <2>1. request \in Request
    BY PostedRequest
  <2>2. Submit(request) /\ posted' = posted + 1
        /\ returned' = returned \cup Payloads(HandedBack(request)) /\ UNCHANGED <<crashes, resizes>>
    BY <1>1 DEF Post
  <2>3. HandedBack(request) \subseteq Request
    BY <2>1 DEF HandedBack, ClaimsUnder, PendingUnder, TypeOK, SchedTypeOK, PendingEntry
  <2> HIDE DEF request
  <2>4. Payloads(HandedBack(request)) \subseteq Nat
    BY <2>3 DEF Payloads, Request
  <2>5. [request |-> request, any_worker |-> request.priority = Seek] \in PendingEntry
    BY <2>1 DEF PendingEntry
  <2>6. pending' \subseteq PendingEntry /\ UNCHANGED <<workers, batch_size, claimed>>
    BY <2>2, <2>5 DEF Submit, TypeOK, SchedTypeOK, PendingUnder
  <2>7. posted' \in Nat /\ returned' \subseteq Nat
    <3>1. posted \in Nat /\ returned \subseteq Nat
      BY DEF TypeOK
    <3>2. posted' = posted + 1
      BY <2>2
    <3>3. returned' = returned \cup Payloads(HandedBack(request))
      BY <2>2
    <3>4. returned' \subseteq Nat
      BY <2>4, <3>1, <3>3
    <3> QED
      BY <3>1, <3>2, <3>4
  <2>8. crashes' \in Nat /\ resizes' \in Nat
    BY <2>2 DEF TypeOK
  <2>9. SchedTypeOK'
    BY <2>6 DEF TypeOK, SchedTypeOK
  <2> QED
    BY <2>7, <2>8, <2>9 DEF TypeOK
<1>2. ASSUME NEW worker \in 0..(MaxWorkers - 1), NEW credit, NEW bytes, DoClaim(worker, credit, bytes)
      PROVE  TypeOK'
  <2>1. PICK batch \in Batches(worker, credit, bytes) : ClaimBatch(worker, batch)
    BY <1>2 DEF DoClaim
  <2>2. batch \subseteq PendingEntry
    BY BatchFromQueue DEF TypeOK, SchedTypeOK
  <2>3. \A e \in batch : [worker |-> worker, request |-> e.request] \in Claim
    BY <2>2, UseAssumption DEF PendingEntry, Claim
  <2>4. claimed' \subseteq Claim /\ pending' \subseteq PendingEntry /\ UNCHANGED <<workers, batch_size>>
    BY <2>1, <2>3 DEF ClaimBatch, TypeOK, SchedTypeOK
  <2> QED
    BY <1>2, <2>4 DEF DoClaim, TypeOK, SchedTypeOK
<1>3. ASSUME NEW key \in Key, Finish(key) PROVE TypeOK'
  <2>1. Payloads({c.request : c \in ClaimsUnder(key)}) \subseteq Nat
    BY DEF Payloads, ClaimsUnder, TypeOK, SchedTypeOK, Claim, Request
  <2> QED
    BY <1>3, <2>1 DEF Finish, FrameDone, TypeOK, SchedTypeOK
<1>4. ASSUME NEW key \in Key, Cancel(key) PROVE TypeOK'
  <2>1. Payloads({r \in Queued \cup InFlight : r.key = key}) \subseteq Nat
    BY DEF Payloads, Queued, InFlight, TypeOK, SchedTypeOK, Claim, PendingEntry, Request
  <2> QED
    BY <1>4, <2>1 DEF Cancel, CancelKey, TypeOK, SchedTypeOK
<1>5. ASSUME NEW worker, Crash(worker) PROVE TypeOK'
  <2>1. \A c \in ClaimsOf(worker) : [request |-> c.request, any_worker |-> TRUE] \in PendingEntry
    BY DEF ClaimsOf, TypeOK, SchedTypeOK, Claim, PendingEntry
  <2> QED
    BY <1>5, <2>1 DEF Crash, WorkerCrashed, TypeOK, SchedTypeOK
<1>6. ASSUME NEW sequence, CancelAll(sequence) PROVE TypeOK'
  <2>1. Payloads(OfSequence(sequence)) \subseteq Nat
    BY DEF Payloads, OfSequence, TypeOK, SchedTypeOK, Claim, PendingEntry, Request
  <2> QED
    BY <1>6, <2>1 DEF CancelAll, CancelSequence, TypeOK, SchedTypeOK
<1>7. ASSUME NEW n \in 0..MaxWorkers, Resize(n) PROVE TypeOK'
  <2>1. workers' \in Nat \ {0} /\ batch_size' \in Nat \ {0}
    BY <1>7, ResizeType, UseAssumption DEF Resize, TypeOK
  <2> QED
    BY <1>7, <2>1 DEF Resize, SetWorkerCount, TypeOK, SchedTypeOK
<1>8. CASE UNCHANGED vars
  BY <1>8 DEF vars, schedVars, TypeOK, SchedTypeOK
<1> QED
  BY <1>1, <1>2, <1>3, <1>4, <1>5, <1>6, <1>7, <1>8 DEF Next

--------------------------------------------------------------------------------
(* One home per key                                                        *)

\* Whatever a call does to the queue and the claims, a key keeps one home.
LEMMA NextOneHome == TypeOK /\ OneHomePerKey /\ [Next]_vars => OneHomePerKey'
<1> SUFFICES ASSUME TypeOK, OneHomePerKey, [Next]_vars PROVE OneHomePerKey'
  OBVIOUS
<1>1. ASSUME NEW job \in Jobs, Post(job) PROVE OneHomePerKey'
  <2> DEFINE request == [key |-> job.key, priority |-> job.priority, distance |-> job.distance,
                         payload |-> posted + 1, slot_bytes |-> job.slot_bytes]
             entry == [request |-> request, any_worker |-> request.priority = Seek]
  <2>1. Submit(request)
    BY <1>1 DEF Post
  <2>2. entry.request = request
    OBVIOUS
  <2> HIDE DEF request
  <2>3. claimed' = claimed
    BY <2>1 DEF Submit
  <2>4. CASE ClaimsUnder(request.key) # {}
    BY <2>1, <2>3, <2>4 DEF Submit, OneHomePerKey
  <2>5. CASE ClaimsUnder(request.key) = {}
    <3>1. pending' = (pending \ PendingUnder(request.key)) \cup {entry}
      BY <2>1, <2>5 DEF Submit
    <3> HIDE DEF entry
    <3>2. \A e \in pending \ PendingUnder(request.key) : e.request.key # request.key
      BY DEF PendingUnder
    <3>3. \A c \in claimed : c.request.key # request.key
      BY <2>5 DEF ClaimsUnder
    <3> QED
      BY <2>2, <2>3, <3>1, <3>2, <3>3 DEF OneHomePerKey
  <2> QED
    BY <2>4, <2>5
<1>2. ASSUME NEW worker, NEW credit, NEW bytes, DoClaim(worker, credit, bytes)
      PROVE  OneHomePerKey'
  <2>1. PICK batch \in Batches(worker, credit, bytes) : ClaimBatch(worker, batch)
    BY <1>2 DEF DoClaim
  <2>2. batch \subseteq pending
    BY BatchFromQueue
  <2>3. pending' = pending \ batch
    BY <2>1 DEF ClaimBatch
  <2>4. \A c \in claimed' : c \in claimed \/ \E e \in batch : c = [worker |-> worker, request |-> e.request]
    BY <2>1 DEF ClaimBatch
  <2>5. \A c, d \in claimed' : c.request.key = d.request.key => c = d
    BY <2>2, <2>4 DEF OneHomePerKey
  <2>6. \A e \in pending', c \in claimed' : e.request.key # c.request.key
    BY <2>2, <2>3, <2>4 DEF OneHomePerKey
  <2> QED
    BY <2>3, <2>5, <2>6 DEF OneHomePerKey
<1>3. ASSUME NEW key, Finish(key) PROVE OneHomePerKey'
  BY <1>3 DEF Finish, FrameDone, OneHomePerKey
<1>4. ASSUME NEW key, Cancel(key) PROVE OneHomePerKey'
  BY <1>4 DEF Cancel, CancelKey, OneHomePerKey
<1>5. ASSUME NEW worker, Crash(worker) PROVE OneHomePerKey'
  <2>1. claimed' = claimed \ ClaimsOf(worker)
    BY <1>5 DEF Crash, WorkerCrashed
  <2>2. \A e \in pending' : e \in pending
            \/ \E c \in claimed \ claimed' : e = [request |-> c.request, any_worker |-> TRUE]
    BY <1>5, <2>1 DEF Crash, WorkerCrashed, ClaimsOf
  <2>3. ASSUME NEW e \in pending', NEW f \in pending', e.request.key = f.request.key PROVE e = f
    <3>1. CASE e \in pending /\ f \in pending
      BY <2>3, <3>1 DEF OneHomePerKey
    <3>2. CASE e \notin pending /\ f \in pending
      BY <2>2, <2>3, <3>2 DEF OneHomePerKey
    <3>3. CASE e \in pending /\ f \notin pending
      BY <2>2, <2>3, <3>3 DEF OneHomePerKey
    <3>4. CASE e \notin pending /\ f \notin pending
      <4>1. PICK c \in claimed : e = [request |-> c.request, any_worker |-> TRUE]
        BY <2>2, <3>4
      <4>2. PICK d \in claimed : f = [request |-> d.request, any_worker |-> TRUE]
        BY <2>2, <3>4
      <4>3. c = d
        BY <2>3, <4>1, <4>2 DEF OneHomePerKey
      <4> QED
        BY <4>1, <4>2, <4>3
    <3> QED
      BY <3>1, <3>2, <3>3, <3>4
  <2>4. \A e \in pending', c \in claimed' : e.request.key # c.request.key
    BY <2>1, <2>2 DEF OneHomePerKey
  <2> QED
    BY <2>1, <2>3, <2>4 DEF OneHomePerKey
<1>6. ASSUME NEW sequence, CancelAll(sequence) PROVE OneHomePerKey'
  BY <1>6 DEF CancelAll, CancelSequence, OneHomePerKey
<1>7. ASSUME NEW n, Resize(n) PROVE OneHomePerKey'
  BY <1>7 DEF Resize, SetWorkerCount, OneHomePerKey
<1>8. CASE UNCHANGED vars
  BY <1>8 DEF vars, schedVars, OneHomePerKey
<1> QED
  BY <1>1, <1>2, <1>3, <1>4, <1>5, <1>6, <1>7, <1>8 DEF Next

--------------------------------------------------------------------------------
(* Conservation                                                            *)

\* When the requests with the scheduler and what was handed back stay the same,
\* conservation stays.
LEMMA SameRequests ==
    ASSUME EachRequestOnce, Live' = Live, returned' = returned, posted' = posted
    PROVE  EachRequestOnce'
BY DEF EachRequestOnce, Live, Payloads

\* Requests that leave the scheduler and are handed back in the same call.
LEMMA HandBack ==
    ASSUME EachRequestOnce, NEW gone \in SUBSET Live, Live' = Live \ gone,
           returned' = returned \cup Payloads(gone), posted' = posted
    PROVE  EachRequestOnce'
<1> USE DEF Live
<1>1. (Payloads(Live) \cap returned)' = {}
  BY DEF EachRequestOnce, Payloads
<1>2. (Payloads(Live) \cup returned)' = 1..posted
  BY DEF EachRequestOnce, Payloads
<1>3. \A r, q \in Live' : r.payload = q.payload => r = q
  BY DEF EachRequestOnce
<1> QED
  BY <1>1, <1>2, <1>3 DEF EachRequestOnce

\* Every call conserves the requests.
LEMMA NextConserves == IInv /\ [Next]_vars => EachRequestOnce'
<1> SUFFICES ASSUME IInv, [Next]_vars PROVE EachRequestOnce'
  OBVIOUS
<1> USE DEF IInv
<1>1. ASSUME NEW job \in Jobs, Post(job) PROVE EachRequestOnce'
  <2> DEFINE request == [key |-> job.key, priority |-> job.priority, distance |-> job.distance,
                         payload |-> posted + 1, slot_bytes |-> job.slot_bytes]
             entry == [request |-> request, any_worker |-> request.priority = Seek]
             old == {e.request : e \in PendingUnder(request.key)}
  <2>1. Submit(request) /\ posted' = posted + 1
        /\ returned' = returned \cup Payloads(HandedBack(request))
    BY <1>1 DEF Post
  <2>2. entry.request = request /\ request.payload = posted + 1
    OBVIOUS
  <2> HIDE DEF request, entry
  <2>3. posted \in Nat /\ 1..(posted + 1) = 1..posted \cup {posted + 1} /\ posted + 1 \notin 1..posted
    BY DEF TypeOK
  <2>4. Payloads(Live) \cup returned = 1..posted /\ Payloads(Live) \cap returned = {}
        /\ \A r, q \in Live : r.payload = q.payload => r = q
    BY DEF EachRequestOnce, Live
  <2>5. claimed' = claimed /\ InFlight' = InFlight
    BY <2>1 DEF Submit, InFlight
  <2>6. CASE ClaimsUnder(request.key) # {}
    <3>1. HandedBack(request) = {request} /\ Live' = Live
      BY <2>1, <2>5, <2>6 DEF HandedBack, Submit, Live, Queued
    <3>2. returned' = returned \cup {posted + 1}
      BY <2>1, <2>2, <3>1 DEF Payloads
    <3>3. (Payloads(Live))' = Payloads(Live)
      BY <3>1 DEF Payloads
    <3>4. (Payloads(Live) \cap returned)' = {} /\ (Payloads(Live) \cup returned)' = 1..posted'
      BY <2>1, <2>3, <2>4, <3>2, <3>3
    <3>5. \A r, q \in Live' : r.payload = q.payload => r = q
      BY <2>4, <3>1
    <3> QED
      BY <3>4, <3>5 DEF EachRequestOnce, Live
  <2>7. CASE ClaimsUnder(request.key) = {}
    <3>1. pending' = (pending \ PendingUnder(request.key)) \cup {entry}
      BY <2>1, <2>7 DEF Submit, entry
    <3>2. HandedBack(request) = old
      BY <2>7 DEF HandedBack
    <3>3. \A c \in claimed : c.request.key # request.key
      BY <2>7 DEF ClaimsUnder
    <3>4. old \subseteq Queued /\ \A r \in Queued : r \in old <=> r.key = request.key
      BY DEF PendingUnder, Queued
    <3>5. old \cap InFlight = {}
      BY <3>3, <3>4 DEF InFlight
    <3>6. Queued' = (Queued \ old) \cup {request}
      <4>1. \A e \in pending : e \in PendingUnder(request.key) <=> e.request \in old
        BY DEF PendingUnder
      <4> HIDE DEF old
      <4> QED
        BY <2>2, <3>1, <4>1 DEF Queued
    <3> HIDE DEF old
    <3>7. Live' = (Live \ old) \cup {request} /\ old \subseteq Live
      BY <2>5, <3>4, <3>5, <3>6 DEF Live
    <3>8. returned' = returned \cup Payloads(old)
      BY <2>1, <3>2
    <3>9. (Payloads(Live))' = (Payloads(Live) \ Payloads(old)) \cup {posted + 1}
      BY <2>2, <2>4, <3>7 DEF Payloads
    <3>10. Payloads(old) \subseteq Payloads(Live)
      BY <3>7 DEF Payloads
    <3>11. \A r \in Live : r.payload # posted + 1
      BY <2>3, <2>4 DEF Payloads
    <3>12. \A r, q \in Live' : r.payload = q.payload => r = q
      BY <2>2, <2>4, <3>7, <3>11
    <3>13. (Payloads(Live) \cap returned)' = {}
      BY <2>3, <2>4, <3>8, <3>9, <3>10
    <3>14. (Payloads(Live) \cup returned)' = 1..posted'
      BY <2>1, <2>3, <2>4, <3>8, <3>9, <3>10
    <3> QED
      BY <3>12, <3>13, <3>14 DEF EachRequestOnce, Live
  <2> QED
    BY <2>6, <2>7
<1>2. ASSUME NEW worker, NEW credit, NEW bytes, DoClaim(worker, credit, bytes)
      PROVE  EachRequestOnce'
  <2>1. PICK batch \in Batches(worker, credit, bytes) : ClaimBatch(worker, batch)
    BY <1>2 DEF DoClaim
  <2>2. batch \subseteq pending
    BY BatchFromQueue
  <2>3. pending' = pending \ batch
    BY <2>1 DEF ClaimBatch
  <2>4. claimed' = claimed \cup {[worker |-> worker, request |-> e.request] : e \in batch}
    BY <2>1, <2>2 DEF ClaimBatch, ClaimsUnder, OneHomePerKey
  <2>5. InFlight' = InFlight \cup {e.request : e \in batch}
    <3>1. \A e \in batch : [worker |-> worker, request |-> e.request] \in claimed'
      BY <2>4
    <3>2. \A c \in claimed' : c \in claimed \/ \E e \in batch : c.request = e.request
      BY <2>4
    <3>3. ASSUME NEW e \in batch PROVE e.request \in InFlight'
      <4>1. PICK c \in claimed' : c = [worker |-> worker, request |-> e.request]
        BY <3>1
      <4>2. c.request = e.request
        BY <4>1
      <4> QED
        BY <4>2 DEF InFlight
    <3>4. claimed \subseteq claimed'
      BY <2>4
    <3> QED
      BY <3>2, <3>3, <3>4 DEF InFlight
  <2>6. Queued' \cup {e.request : e \in batch} = Queued
    BY <2>2, <2>3 DEF Queued
  <2>7. Live' = Live
    BY <2>5, <2>6 DEF Live
  <2> QED
    BY <1>2, <2>7, SameRequests DEF DoClaim
<1>3. ASSUME NEW key, Finish(key) PROVE EachRequestOnce'
  <2> DEFINE gone == {c.request : c \in ClaimsUnder(key)}
  <2>1. returned' = returned \cup Payloads(gone) /\ posted' = posted
    BY <1>3 DEF Finish
  <2>2. claimed' = claimed \ ClaimsUnder(key) /\ pending' = pending
    BY <1>3 DEF Finish, FrameDone
  <2>3. \A c \in claimed : c \in ClaimsUnder(key) <=> c.request \in gone
    BY DEF ClaimsUnder
  <2>4. gone \subseteq InFlight /\ gone \cap Queued = {}
    BY <1>3 DEF InFlight, Queued, ClaimsUnder, OneHomePerKey
  <2> HIDE DEF gone
  <2>5. InFlight' = InFlight \ gone /\ Queued' = Queued
    BY <2>2, <2>3 DEF InFlight, Queued
  <2>6. Live' = Live \ gone /\ gone \in SUBSET Live
    BY <2>4, <2>5 DEF Live
  <2> QED
    BY <2>1, <2>6, HandBack
<1>4. ASSUME NEW key, Cancel(key) PROVE EachRequestOnce'
  <2> DEFINE gone == {r \in Live : r.key = key}
  <2>1. returned' = returned \cup Payloads(gone) /\ posted' = posted /\ CancelKey(key)
    BY <1>4 DEF Cancel, Live
  <2>2. Queued' = {r \in Queued : r.key # key}
    BY <2>1 DEF CancelKey, PendingUnder, Queued
  <2>3. PendingUnder(key) # {} => ClaimsUnder(key) = {}
    BY DEF PendingUnder, ClaimsUnder, OneHomePerKey
  <2>4. claimed' = claimed \ ClaimsUnder(key)
    BY <2>1, <2>3 DEF CancelKey
  <2>5. InFlight' = {r \in InFlight : r.key # key}
    BY <2>4 DEF ClaimsUnder, InFlight
  <2>6. Live' = Live \ gone /\ gone \in SUBSET Live
    BY <2>2, <2>5 DEF Live
  <2> HIDE DEF gone
  <2> QED
    BY <2>1, <2>6, HandBack
<1>5. ASSUME NEW worker, Crash(worker) PROVE EachRequestOnce'
  <2>1. claimed' = claimed \ ClaimsOf(worker)
        /\ pending' = pending \cup {[request |-> c.request, any_worker |-> TRUE] : c \in ClaimsOf(worker)}
    BY <1>5 DEF Crash, WorkerCrashed
  <2>2. ClaimsOf(worker) \subseteq claimed
    BY DEF ClaimsOf
  <2>3. Queued' = Queued \cup {c.request : c \in ClaimsOf(worker)}
    <3>1. \A c \in ClaimsOf(worker) : [request |-> c.request, any_worker |-> TRUE] \in pending'
      BY <2>1
    <3>2. \A e \in pending' : e \in pending \/ \E c \in ClaimsOf(worker) : e.request = c.request
      BY <2>1
    <3>3. ASSUME NEW c \in ClaimsOf(worker) PROVE c.request \in Queued'
      <4>1. PICK e \in pending' : e = [request |-> c.request, any_worker |-> TRUE]
        BY <3>1
      <4>2. e.request = c.request
        BY <4>1
      <4> QED
        BY <4>2 DEF Queued
    <3>4. pending \subseteq pending'
      BY <2>1
    <3> QED
      BY <3>2, <3>3, <3>4 DEF Queued
  <2>4. InFlight' \cup {c.request : c \in ClaimsOf(worker)} = InFlight
    BY <2>1, <2>2 DEF InFlight
  <2>5. Live' = Live
    BY <2>3, <2>4 DEF Live
  <2> QED
    BY <1>5, <2>5, SameRequests DEF Crash
<1>6. ASSUME NEW sequence, CancelAll(sequence) PROVE EachRequestOnce'
  <2> DEFINE gone == {r \in Live : r.key.sequence = sequence}
  <2>1. OfSequence(sequence) = gone
    BY DEF OfSequence, Live, Queued, InFlight
  <2>2. Queued' = {r \in Queued : r.key.sequence # sequence}
        /\ InFlight' = {r \in InFlight : r.key.sequence # sequence}
    BY <1>6 DEF CancelAll, CancelSequence, Queued, InFlight
  <2>3. Live' = Live \ gone /\ gone \in SUBSET Live
    BY <2>2 DEF Live
  <2>4. returned' = returned \cup Payloads(gone) /\ posted' = posted
    BY <1>6, <2>1 DEF CancelAll
  <2> HIDE DEF gone
  <2> QED
    BY <2>3, <2>4, HandBack
<1>7. ASSUME NEW n, Resize(n) PROVE EachRequestOnce'
  <2>1. Live' = Live /\ returned' = returned /\ posted' = posted
    BY <1>7 DEF Resize, SetWorkerCount, Live, Queued, InFlight
  <2> QED
    BY <2>1, SameRequests
<1>8. CASE UNCHANGED vars
  <2>1. Live' = Live /\ returned' = returned /\ posted' = posted
    BY <1>8 DEF vars, schedVars, Live, Queued, InFlight
  <2> QED
    BY <2>1, SameRequests
<1> QED
  BY <1>1, <1>2, <1>3, <1>4, <1>5, <1>6, <1>7, <1>8 DEF Next

--------------------------------------------------------------------------------
(* The theorems                                                            *)

\* The three invariants hold together in every reachable state of the scheduler.
THEOREM Invariance == Spec => []IInv
<1>1. Init => IInv
  <2>1. Init => OneHomePerKey
    BY DEF Init, New, OneHomePerKey
  <2>2. Init => EachRequestOnce
    BY DEF Init, New, EachRequestOnce, Queued, InFlight, Payloads
  <2> QED
    BY <2>1, <2>2, InitType DEF IInv
<1>2. IInv /\ [Next]_vars => IInv'
  BY NextType, NextOneHome, NextConserves DEF IInv
<1> QED
  BY <1>1, <1>2, PTL DEF Spec

\* The scheduler's fields keep their types: at least one worker, a batch size of
\* at least one (set_worker_count clamps both), requests and claims well formed.
THEOREM TypeCorrect == Spec => []TypeOK
<1>1. IInv => TypeOK
  BY DEF IInv
<1> QED
  BY <1>1, Invariance, PTL

\* submit, claim_batch, worker_crashed and the cancellations never leave a key
\* queued twice, claimed twice, or queued while it is in flight.
THEOREM KeysHaveOneHome == Spec => []OneHomePerKey
<1>1. IInv => OneHomePerKey
  BY DEF IInv
<1> QED
  BY <1>1, Invariance, PTL

\* No call loses a request, and none hands a request back that it keeps.
THEOREM RequestsAreConserved == Spec => []EachRequestOnce
<1>1. IInv => EachRequestOnce
  BY DEF IInv
<1> QED
  BY <1>1, Invariance, PTL

--------------------------------------------------------------------------------
(* The loop of claim_batch                                                 *)

NatOrder == {ss \in Nat \X Nat : ss[1] < ss[2]}

\* A set of naturals has a least element.
LEMMA Least ==
    ASSUME NEW S, S \subseteq Nat, S # {}
    PROVE  \E m \in S : \A y \in S : m <= y
<1>1. IsWellFoundedOn(NatOrder, Nat)
  BY NatLessThanWellFounded DEF OpToRel, NatOrder
<1>2. PICK m \in S : \A y \in S : <<y, m>> \notin NatOrder
  BY <1>1, WFMin
<1>3. ASSUME NEW y \in S PROVE m <= y
  <2>1. m \in Nat /\ y \in Nat
    OBVIOUS
  <2>2. y < m => <<y, m>> \in NatOrder
    BY <2>1 DEF NatOrder
  <2> QED
    BY <1>2, <2>1, <2>2
<1> QED
  BY <1>3

\* The first k entries of a walk; a walk that visits no entry twice; one that has its
\* first s entries, and no other, for seeks
Ahead(walk, k) == {walk[j] : j \in 1..k}
Once(walk, n) == \A i, j \in 1..n : walk[i] = walk[j] => i = j
Leading(walk, n, s) == \A i \in 1..n : walk[i].request.priority = Seek <=> i <= s

\* A walk visits every entry of the shard once, the first k of them are k entries.
LEMMA WalkVisits ==
    ASSUME NEW entries, IsFiniteSet(entries), NEW n \in Nat, n = Cardinality(entries), NEW walk \in Walks(entries)
    PROVE  /\ walk \in [1..n -> entries]
           /\ \A i, j \in 1..n : i < j => walk[i] # walk[j] /\ ~MoreUrgent(walk[j].request, walk[i].request)
           /\ Once(walk, n)
           /\ Ahead(walk, n) = entries
<1>1. /\ walk \in [1..n -> entries]
      /\ \A i, j \in 1..n : i < j => walk[i] # walk[j] /\ ~MoreUrgent(walk[j].request, walk[i].request)
  BY DEF Walks
<1>2. \A i, j \in 1..n : walk[i] = walk[j] => i = j
  <2> SUFFICES ASSUME NEW i \in 1..n, NEW j \in 1..n, walk[i] = walk[j] PROVE i = j
    OBVIOUS
  <2>1. i < j \/ j < i \/ i = j
    OBVIOUS
  <2> QED
    BY <1>1, <2>1
<1>3. walk \in Injection(1..n, entries)
  BY <1>1, <1>2 DEF Injection, IsInjective
<1>4. IsFiniteSet(1..n) /\ Cardinality(1..n) = n
  <2>1. 1 \in Int /\ n \in Int
    OBVIOUS
  <2>2. IsFiniteSet(1..n) /\ Cardinality(1..n) = IF 1 > n THEN 0 ELSE n - 1 + 1
    BY ONLY <2>1, FS_Interval
  <2> QED
    BY <2>2
<1>5. walk \in Surjection(1..n, entries)
  BY <1>3, <1>4, FS_Injection
<1>6. Ahead(walk, n) = entries
  <2>1. \A e \in entries : \E i \in 1..n : walk[i] = e
    BY <1>5 DEF Surjection
  <2>2. \A e \in Ahead(walk, n) : e \in entries
    BY <1>1 DEF Ahead
  <2> QED
    BY <2>1, <2>2 DEF Ahead
<1> QED
  BY <1>1, <1>2, <1>6 DEF Once

LEMMA AheadCount ==
    ASSUME NEW n \in Nat, NEW walk, Once(walk, n), NEW k \in 0..n
    PROVE  IsFiniteSet(Ahead(walk, k)) /\ Cardinality(Ahead(walk, k)) = k
<1> DEFINE g == [i \in 1..k |-> walk[i]]
<1>1. \A i \in 1..k : i \in 1..n
  OBVIOUS
<1>2. g \in [1..k -> Ahead(walk, k)] /\ \A t \in Ahead(walk, k) : \E i \in 1..k : g[i] = t
  BY DEF Ahead
<1>3. \A i, j \in 1..k : g[i] = g[j] => i = j
  BY <1>1 DEF Once
<1> HIDE DEF g
<1>4. g \in Surjection(1..k, Ahead(walk, k)) /\ g \in Injection(1..k, Ahead(walk, k))
  BY <1>2, <1>3 DEF Surjection, Injection, IsInjective
<1>5. IsFiniteSet(1..k) /\ Cardinality(1..k) = k
  <2>1. k \in Nat /\ 1 \in Int /\ k \in Int
    OBVIOUS
  <2>2. IsFiniteSet(1..k) /\ Cardinality(1..k) = IF 1 > k THEN 0 ELSE k - 1 + 1
    BY ONLY <2>1, FS_Interval
  <2> QED
    BY <2>1, <2>2
<1> QED
  BY <1>4, <1>5, FS_Surjection

LEMMA AheadNext ==
    ASSUME NEW walk, NEW k \in Nat
    PROVE  Ahead(walk, k + 1) = Ahead(walk, k) \cup {walk[k + 1]} /\ Ahead(walk, 0) = {}
<1>1. 1..(k + 1) = 1..k \cup {k + 1} /\ 1..0 = {}
  OBVIOUS
<1> QED
  BY <1>1 DEF Ahead

\* The seeks come first in a walk.
LEMMA SeeksLead ==
    ASSUME NEW entries, entries \subseteq PendingEntry, IsFiniteSet(entries),
           NEW n \in Nat, n = Cardinality(entries), NEW walk \in Walks(entries)
    PROVE  \E s \in 0..n : Leading(walk, n, s)
<1> DEFINE Rest == {i \in 1..n : walk[i].request.priority # Seek}
<1>1. /\ walk \in [1..n -> entries]
      /\ \A i, j \in 1..n : i < j => ~MoreUrgent(walk[j].request, walk[i].request)
  BY WalkVisits
<1>2. CASE Rest = {}
  <2>1. n \in 0..n /\ \A i \in 1..n : i <= n
    OBVIOUS
  <2>2. \A i \in 1..n : walk[i].request.priority = Seek
    BY <1>2
  <2> QED
    BY <2>1, <2>2 DEF Leading
<1>3. CASE Rest # {}
  <2>1. PICK m \in Rest : \A y \in Rest : m <= y
    <3>1. Rest \subseteq Nat
      OBVIOUS
    <3> HIDE DEF Rest
    <3> QED
      BY <1>3, <3>1, Least
  <2>2. m \in 1..n /\ walk[m].request.priority # Seek
    OBVIOUS
  <2>3. \A i \in 1..n : i < m => walk[i].request.priority = Seek
    BY <2>1
  <2>4. ASSUME NEW i \in 1..n, m < i PROVE walk[i].request.priority # Seek
    <3>1. walk[m] \in PendingEntry
      BY <1>1, <2>2
    <3>2. walk[m].request.priority \in Seek..Background
      BY <3>1 DEF PendingEntry, Request
    <3>3. walk[m].request.priority > Seek
      BY <2>2, <3>2 DEF Seek, Background
    <3>4. ~MoreUrgent(walk[i].request, walk[m].request)
      BY <1>1, <2>2, <2>4
    <3>5. ~(walk[i].request.priority < walk[m].request.priority)
      BY <3>4 DEF MoreUrgent
    <3> QED
      BY <3>3, <3>5 DEF Seek
  <2>5. m - 1 \in 0..n
    BY <2>2
  <2>6. \A i \in 1..n : walk[i].request.priority = Seek <=> i <= m - 1
    <3> SUFFICES ASSUME NEW i \in 1..n PROVE walk[i].request.priority = Seek <=> i <= m - 1
      OBVIOUS
    <3>1. i < m \/ i = m \/ m < i
      BY <2>2
    <3>2. (i <= m - 1) <=> i < m
      BY <2>2
    <3> QED
      BY <2>2, <2>3, <2>4, <3>1, <3>2
  <2> QED
    BY <2>5, <2>6 DEF Leading
<1> QED
  BY <1>2, <1>3

\* t[i] is what the loop took of the first i entries of the walk
Takes(t, walk, n, cap, credit) ==
    t = [i \in 0..n |-> IF i = 0 THEN {} ELSE LoopStep(t[i - 1], walk[i], cap, credit)]

\* There is such a function: the least length without one would follow one with.
LEMMA TakesExist ==
    ASSUME NEW n \in Nat, NEW walk, NEW cap, NEW credit
    PROVE  \E t : Takes(t, walk, n, cap, credit)
<1> DEFINE Missing == {m \in Nat : ~\E t : Takes(t, walk, m, cap, credit)}
<1>1. Missing = {}
  <2> SUFFICES ASSUME Missing # {} PROVE FALSE
    OBVIOUS
  <2>1. PICK m \in Missing : \A y \in Missing : m <= y
    <3>1. Missing \subseteq Nat
      OBVIOUS
    <3> HIDE DEF Missing
    <3> QED
      BY <3>1, Least
  <2>2. m \in Nat /\ ~\E t : Takes(t, walk, m, cap, credit)
    OBVIOUS
  <2>3. m # 0
    <3>1. 0..0 = {0}
      OBVIOUS
    <3>2. Takes([i \in {0} |-> {}], walk, 0, cap, credit)
      BY <3>1 DEF Takes
    <3> QED
      BY <2>2, <3>2
  <2>4. PICK k \in Nat : m = k + 1
    <3>1. m - 1 \in Nat /\ m = (m - 1) + 1
      BY <2>2, <2>3
    <3> QED
      BY <3>1
  <2>5. k \notin Missing
    BY <2>1, <2>4
  <2>6. PICK t : Takes(t, walk, k, cap, credit)
    BY <2>5
  <2> DEFINE g == [i \in 0..(k + 1) |-> IF i = 0 THEN {} ELSE LoopStep(t[i - 1], walk[i], cap, credit)]
             h == [i \in 0..(k + 1) |-> IF i = 0 THEN {} ELSE LoopStep(g[i - 1], walk[i], cap, credit)]
  <2>7. \A i \in 0..k : g[i] = t[i]
    <3> SUFFICES ASSUME NEW i \in 0..k PROVE g[i] = t[i]
      OBVIOUS
    <3>1. t[i] = IF i = 0 THEN {} ELSE LoopStep(t[i - 1], walk[i], cap, credit)
      BY <2>6 DEF Takes
    <3>2. i \in 0..(k + 1)
      OBVIOUS
    <3> QED
      BY <3>1, <3>2
  <2>8. \A i \in 0..(k + 1) : g[i] = IF i = 0 THEN {} ELSE LoopStep(t[i - 1], walk[i], cap, credit)
    OBVIOUS
  <2>9. \A i \in 0..(k + 1) : h[i] = IF i = 0 THEN {} ELSE LoopStep(g[i - 1], walk[i], cap, credit)
    OBVIOUS
  <2>10. g = [i \in 0..(k + 1) |-> g[i]] /\ h = [i \in 0..(k + 1) |-> h[i]]
    OBVIOUS
  <2> HIDE DEF g, h
  <2>11. ASSUME NEW i \in 0..(k + 1) PROVE g[i] = h[i]
    <3>1. CASE i = 0
      BY <2>8, <2>9, <3>1
    <3>2. CASE i # 0
      <4>1. i - 1 \in 0..k
        BY <3>2
      <4>2. g[i - 1] = t[i - 1]
        BY <2>7, <4>1
      <4> QED
        BY <2>8, <2>9, <3>2, <4>2
    <3> QED
      BY <3>1, <3>2
  <2>12. g = h
    BY <2>10, <2>11
  <2>13. Takes(g, walk, k + 1, cap, credit)
    BY <2>12 DEF Takes, h
  <2> QED
    BY <2>2, <2>4, <2>13
<1> QED
  BY <1>1

\* What the loop takes of the first i entries when the first s of a walk are seeks: as
\* many seeks as the cap allows, then as many others as the reserve leaves room for.
Past(i, s) == IF i <= s THEN 0 ELSE i - s
Room(limit, seeks) == IF limit - seeks < 0 THEN 0 ELSE limit - seeks
Took(i, s, cap, limit) == Smaller(Smaller(i, s), cap) + Smaller(Past(i, s), Room(limit, Smaller(s, cap)))

\* The arithmetic of one iteration, for a seek and for any other entry
LEMMA TookSeek ==
    ASSUME NEW k \in Nat, NEW s \in Nat, NEW cap \in Nat, NEW limit \in Int, k + 1 <= s
    PROVE  /\ Took(k, s, cap, limit) = Smaller(k, cap)
           /\ Took(k + 1, s, cap, limit) = Smaller(k + 1, cap)
<1>1. \A i \in Nat : i <= s => Took(i, s, cap, limit) = Smaller(i, cap)
  <2> SUFFICES ASSUME NEW i \in Nat, i <= s PROVE Took(i, s, cap, limit) = Smaller(i, cap)
    OBVIOUS
  <2>1. Smaller(i, s) = i /\ Past(i, s) = 0
    BY DEF Smaller, Past
  <2>2. Smaller(s, cap) \in Nat /\ Smaller(i, cap) \in Nat
    BY DEF Smaller
  <2>3. Room(limit, Smaller(s, cap)) \in Nat
    BY <2>2 DEF Room
  <2>4. Smaller(0, Room(limit, Smaller(s, cap))) = 0
    BY <2>3 DEF Smaller
  <2> QED
    BY <2>1, <2>2, <2>4 DEF Took
<1> QED
  BY <1>1

LEMMA TookOther ==
    ASSUME NEW k \in Nat, NEW s \in Nat, NEW cap \in Nat, NEW limit \in Int, limit <= cap, s <= k
    PROVE  /\ Took(k, s, cap, limit) < limit => Took(k, s, cap, limit) = k
                                                /\ Took(k + 1, s, cap, limit) = k + 1
           /\ Took(k, s, cap, limit) >= limit => Took(k + 1, s, cap, limit) = Took(k, s, cap, limit)
<1>1. PICK m \in Nat : m = Smaller(s, cap)
  BY DEF Smaller
<1>2. PICK room \in Nat : room = Room(limit, m)
  BY <1>1 DEF Room
<1>3. \A i \in Nat : s <= i => Took(i, s, cap, limit) = m + Smaller(i - s, room)
  <2> SUFFICES ASSUME NEW i \in Nat, s <= i PROVE Took(i, s, cap, limit) = m + Smaller(i - s, room)
    OBVIOUS
  <2>1. Smaller(i, s) = s
    BY DEF Smaller
  <2>2. Past(i, s) = i - s
    BY DEF Past
  <2> QED
    BY <1>1, <1>2, <2>1, <2>2 DEF Took
<1>4. Took(k, s, cap, limit) = m + Smaller(k - s, room)
  BY <1>3
<1>5. Took(k + 1, s, cap, limit) = m + Smaller(k + 1 - s, room)
  BY <1>3
<1>6. room = IF limit - m < 0 THEN 0 ELSE limit - m
  BY <1>2 DEF Room
<1>7. m <= s /\ m <= cap /\ (m = s \/ m = cap)
  BY <1>1 DEF Smaller
<1>8. Smaller(k - s, room) = (IF k - s < room THEN k - s ELSE room)
      /\ Smaller(k + 1 - s, room) = (IF k + 1 - s < room THEN k + 1 - s ELSE room)
  BY DEF Smaller
<1>9. CASE Took(k, s, cap, limit) < limit
  <2>1. k - s < room /\ m < cap
    BY <1>4, <1>6, <1>7, <1>8, <1>9
  <2>2. m = s
    BY <1>7, <2>1
  <2>3. Smaller(k - s, room) = k - s /\ Smaller(k + 1 - s, room) = k + 1 - s
    BY <1>8, <2>1
  <2>4. Took(k, s, cap, limit) = k /\ Took(k + 1, s, cap, limit) = k + 1
    BY <1>4, <1>5, <2>2, <2>3
  <2> QED
    BY <1>9, <2>4
<1>10. CASE Took(k, s, cap, limit) >= limit
  <2>1. room <= k - s
    BY <1>4, <1>6, <1>8, <1>10
  <2>2. Smaller(k - s, room) = room /\ Smaller(k + 1 - s, room) = room
    BY <1>8, <2>1
  <2>3. Took(k + 1, s, cap, limit) = Took(k, s, cap, limit)
    BY <1>4, <1>5, <2>2
  <2>4. Took(k, s, cap, limit) \in Int
    BY <1>4, <2>2
  <2> QED
    BY <1>10, <2>3, <2>4
<1>11. Took(k, s, cap, limit) \in Int
  BY <1>4, <1>8
<1> QED
  BY <1>9, <1>10, <1>11

LEMMA TookBounds ==
    ASSUME NEW k \in Nat, NEW s \in Nat, NEW cap \in Nat, NEW limit \in Int
    PROVE  Took(k, s, cap, limit) \in 0..k
<1>1. PICK m \in Nat : m = Smaller(s, cap)
  BY DEF Smaller
<1>2. PICK room \in Nat : room = Room(limit, m)
  BY <1>1 DEF Room
<1>3. PICK past \in Nat : past = Past(k, s) /\ past + Smaller(k, s) = k
  BY DEF Past, Smaller
<1>4. Smaller(Smaller(k, s), cap) \in Nat /\ Smaller(Smaller(k, s), cap) <= Smaller(k, s) /\ Smaller(k, s) \in Nat
  BY DEF Smaller
<1>5. Smaller(past, room) \in Nat /\ Smaller(past, room) <= past
  BY DEF Smaller
<1>6. Took(k, s, cap, limit) = Smaller(Smaller(k, s), cap) + Smaller(past, room)
  BY <1>1, <1>2, <1>3 DEF Took
<1> QED
  BY <1>3, <1>4, <1>5, <1>6

\* The loop takes an initial stretch of the walk.
LEMMA LoopTakesAhead ==
    ASSUME NEW n \in Nat, NEW walk, Once(walk, n), NEW s \in 0..n, Leading(walk, n, s),
           NEW cap \in Nat, NEW credit \in Nat, NEW limit \in Int, limit = Smaller(cap, credit - 1),
           NEW t, Takes(t, walk, n, cap, credit)
    PROVE  t[n] = Ahead(walk, Took(n, s, cap, limit))
<1> DEFINE Missing == {k \in 0..n : t[k] # Ahead(walk, Took(k, s, cap, limit))}
<1>1. \A k \in 0..n : t[k] = IF k = 0 THEN {} ELSE LoopStep(t[k - 1], walk[k], cap, credit)
  BY DEF Takes
<1>2. limit <= cap /\ s \in Nat
  BY DEF Smaller
<1>3. Missing = {}
  <2> SUFFICES ASSUME Missing # {} PROVE FALSE
    OBVIOUS
  <2>1. PICK m \in Missing : \A y \in Missing : m <= y
    <3>1. Missing \subseteq Nat
      OBVIOUS
    <3> HIDE DEF Missing
    <3> QED
      BY <3>1, Least
  <2>2. m \in 0..n /\ t[m] # Ahead(walk, Took(m, s, cap, limit))
    OBVIOUS
  <2>3. m # 0
    <3>1. Took(0, s, cap, limit) \in 0..0
      BY <1>2, TookBounds
    <3>2. Took(0, s, cap, limit) = 0
      BY <3>1
    <3>3. Ahead(walk, 0) = {}
      BY AheadNext
    <3>4. t[0] = {} /\ 0 \in 0..n
      BY <1>1
    <3> QED
      BY <2>2, <3>2, <3>3, <3>4
  <2>4. PICK k \in 0..n : m = k + 1
    <3>1. m - 1 \in 0..n /\ m = (m - 1) + 1
      BY <2>2, <2>3
    <3> QED
      BY <3>1
  <2>5. k \notin Missing /\ k \in Nat
    BY <2>1, <2>4
  <2>6. PICK c \in 0..k : c = Took(k, s, cap, limit)
    BY <1>2, <2>5, TookBounds
  <2>7. t[k] = Ahead(walk, c)
    BY <2>5, <2>6
  <2>8. t[m] = LoopStep(Ahead(walk, c), walk[m], cap, credit)
    <3>1. t[m] = LoopStep(t[m - 1], walk[m], cap, credit)
      BY <1>1, <2>2, <2>3
    <3>2. m - 1 = k
      BY <2>4
    <3> QED
      BY <2>7, <3>1, <3>2
  <2>9. Cardinality(Ahead(walk, c)) = c
    <3>1. c \in 0..n
      BY <2>6
    <3> QED
      BY <3>1, AheadCount
  <2>10. m \in 1..n
    BY <2>2, <2>3
  <2>11. Ahead(walk, m) = Ahead(walk, k) \cup {walk[m]}
    BY <2>4, <2>5, AheadNext
  <2>12. CASE m <= s
    <3>1. c = Smaller(k, cap) /\ Took(m, s, cap, limit) = Smaller(m, cap)
      BY <2>4, <2>5, <2>6, <2>12, TookSeek
    <3>2. walk[m].request.priority = Seek
      BY <2>10, <2>12 DEF Leading
    <3>3. CASE c >= cap
      <4>1. t[m] = Ahead(walk, c)
        BY <2>8, <2>9, <3>3 DEF LoopStep
      <4>2. Took(m, s, cap, limit) = c
        BY <2>4, <2>5, <3>1, <3>3 DEF Smaller
      <4> QED
        BY <2>2, <4>1, <4>2
    <3>4. CASE ~(c >= cap)
      <4>1. t[m] = Ahead(walk, c) \cup {walk[m]}
        BY <2>8, <2>9, <3>2, <3>4 DEF LoopStep
      <4>2. c = k /\ Took(m, s, cap, limit) = m
        BY <2>4, <2>5, <3>1, <3>4 DEF Smaller
      <4> QED
        BY <2>2, <2>11, <4>1, <4>2
    <3> QED
      BY <3>3, <3>4
  <2>13. CASE ~(m <= s)
    <3>1. s <= k /\ s \in Nat
      BY <2>4, <2>5, <2>13
    <3>2. /\ c < limit => c = k /\ Took(m, s, cap, limit) = m
          /\ c >= limit => Took(m, s, cap, limit) = c
      BY <1>2, <2>4, <2>5, <2>6, <3>1, TookOther
    <3>3. walk[m].request.priority # Seek
      BY <2>10, <2>13 DEF Leading
    <3>4. c < limit <=> ~(c >= cap) /\ ~(c + 1 >= credit)
      BY <2>6 DEF Smaller
    <3>5. CASE c < limit
      <4>1. t[m] = Ahead(walk, c) \cup {walk[m]}
        BY <2>8, <2>9, <3>3, <3>4, <3>5 DEF LoopStep
      <4> QED
        BY <2>2, <2>11, <3>2, <3>5, <4>1
    <3>6. CASE ~(c < limit)
      <4>1. t[m] = Ahead(walk, c)
        BY <2>8, <2>9, <3>3, <3>4, <3>6 DEF LoopStep
      <4>2. Took(m, s, cap, limit) = c
        BY <2>6, <3>2, <3>6
      <4> QED
        BY <2>2, <4>1, <4>2
    <3> QED
      BY <3>5, <3>6
  <2> QED
    BY <2>12, <2>13
<1>4. n \notin Missing
  BY <1>3
<1> QED
  BY <1>4

\* What the batch holds: the seeks that fit the cap, the others that fit the room.
LEMMA TookParts ==
    ASSUME NEW n \in Nat, NEW s \in 0..n, NEW cap \in Nat, NEW limit \in Int, limit <= cap
    PROVE  /\ Smaller(Took(n, s, cap, limit), s) = Smaller(s, cap)
           /\ Took(n, s, cap, limit) - Smaller(s, cap) = Smaller(n - s, Room(limit, Smaller(s, cap)))
<1>1. PICK m \in Nat : m = Smaller(s, cap)
  BY DEF Smaller
<1>2. PICK room \in Nat : room = Room(limit, m)
  BY <1>1 DEF Room
<1>3. Smaller(n, s) = s /\ Past(n, s) = n - s
  BY DEF Smaller, Past
<1>4. Took(n, s, cap, limit) = m + Smaller(n - s, room)
  BY <1>1, <1>2, <1>3 DEF Took
<1>5. PICK others \in Nat : others = Smaller(n - s, room) /\ others <= room
  BY DEF Smaller
<1>6. room = IF limit - m < 0 THEN 0 ELSE limit - m
  BY <1>2 DEF Room
<1>7. m <= s /\ m <= cap /\ (m = s \/ m = cap)
  BY <1>1 DEF Smaller
<1>8. m = s \/ others = 0
  <2>1. m = cap => room = 0
    BY <1>6
  <2> QED
    BY <1>5, <1>7, <2>1
<1>9. Smaller(m + others, s) = m
  <2>1. CASE m = s
    BY <1>5, <2>1 DEF Smaller
  <2>2. CASE others = 0
    BY <1>5, <1>7, <2>2 DEF Smaller
  <2> QED
    BY <1>8, <2>1, <2>2
<1>10. m + others - m = others
  BY <1>5
<1> QED
  BY <1>1, <1>2, <1>4, <1>5, <1>9, <1>10

\* The seeks among the first k entries of a walk, and the rest of them
LEMMA AheadSeeks ==
    ASSUME NEW n \in Nat, NEW walk, Once(walk, n), NEW s \in 0..n, Leading(walk, n, s),
           NEW k \in 0..n
    PROVE  /\ Cardinality(Seeks(Ahead(walk, k))) = Smaller(k, s)
           /\ Cardinality(Ahead(walk, k) \ Seeks(Ahead(walk, k))) = k - Smaller(k, s)
<1>1. PICK l \in 0..n : l = Smaller(k, s) /\ l <= k /\ l <= s /\ (l = k \/ l = s)
  BY DEF Smaller
<1>2. Seeks(Ahead(walk, k)) = Ahead(walk, l)
  <2>1. ASSUME NEW e \in Seeks(Ahead(walk, k)) PROVE e \in Ahead(walk, l)
    <3>1. PICK i \in 1..k : e = walk[i]
      BY DEF Seeks, Ahead
    <3>2. e.request.priority = Seek
      BY DEF Seeks
    <3>3. i \in 1..n
      OBVIOUS
    <3>4. i <= s
      BY <3>1, <3>2, <3>3 DEF Leading
    <3>5. i \in 1..l
      BY <1>1, <3>4
    <3> QED
      BY <3>1, <3>5 DEF Ahead
  <2>2. ASSUME NEW e \in Ahead(walk, l) PROVE e \in Seeks(Ahead(walk, k))
    <3>1. PICK i \in 1..l : e = walk[i]
      BY DEF Ahead
    <3>2. i \in 1..n /\ i \in 1..k /\ i <= s
      BY <1>1
    <3>3. e.request.priority = Seek
      BY <3>1, <3>2 DEF Leading
    <3> QED
      BY <3>1, <3>2, <3>3 DEF Ahead, Seeks
  <2> QED
    BY <2>1, <2>2
<1>3. Cardinality(Ahead(walk, l)) = l
  BY AheadCount
<1>4. IsFiniteSet(Ahead(walk, k)) /\ Cardinality(Ahead(walk, k)) = k
  BY AheadCount
<1>5. Ahead(walk, k) \cap Ahead(walk, l) = Ahead(walk, l)
  BY <1>2 DEF Seeks
<1>6. Cardinality(Ahead(walk, k) \ Ahead(walk, l))
        = Cardinality(Ahead(walk, k)) - Cardinality(Ahead(walk, k) \cap Ahead(walk, l))
  BY <1>4, FS_Difference
<1>7. Cardinality(Ahead(walk, k) \ Ahead(walk, l)) = k - l
  BY <1>3, <1>4, <1>5, <1>6
<1> QED
  BY <1>1, <1>2, <1>3, <1>7

\* Requests have numbers of their own, so there are finitely many of them.
LEMMA QueueIsFinite ==
    ASSUME IInv
    PROVE  IsFiniteSet(pending)
<1> DEFINE g == [e \in pending |-> e.request.payload]
<1>1. \A e \in pending : e.request \in Queued
  BY DEF Queued
<1>2. \A e \in pending : e.request.payload \in 1..posted
  BY <1>1 DEF IInv, EachRequestOnce, Payloads
<1>3. ASSUME NEW e \in pending, NEW f \in pending, e.request.payload = f.request.payload PROVE e = f
  <2>1. e.request = f.request
    BY <1>1, <1>3 DEF IInv, EachRequestOnce
  <2> QED
    BY <2>1 DEF IInv, OneHomePerKey
<1>4. g \in [pending -> 1..posted]
  BY <1>2
<1>5. \A e, f \in pending : g[e] = g[f] => e = f
  BY <1>3
<1> HIDE DEF g
<1>6. g \in Injection(pending, 1..posted)
  BY <1>4, <1>5 DEF Injection, IsInjective
<1>7. IsFiniteSet(1..posted)
  <2>1. posted \in Int /\ 1 \in Int
    BY DEF IInv, TypeOK
  <2> QED
    BY ONLY <2>1, FS_Interval
<1> QED
  BY <1>6, <1>7, FS_Injection

\* What the loop forms from one walk is a batch of the rule, or there is none.
LEMMA LoopFormsOne ==
    ASSUME IInv, NEW worker \in Nat, worker < workers, NEW credit \in Nat \ {0}, NEW bytes,
           NEW n \in Nat, n = Cardinality(Eligible(worker, bytes)), NEW walk \in Walks(Eligible(worker, bytes)),
           NEW batch, batch = LoopTakes(walk, n, credit)[n]
    PROVE  IF batch = {} THEN Batches(worker, credit, bytes) = {}
           ELSE batch \in Batches(worker, credit, bytes)
<1> DEFINE entries == Eligible(worker, bytes)
<1>1. entries \subseteq pending /\ entries \subseteq PendingEntry /\ batch_size \in Nat \ {0} /\ workers \in Nat
  BY DEF Eligible, IInv, TypeOK, SchedTypeOK
<1>2. IsFiniteSet(entries)
  BY <1>1, QueueIsFinite, FS_Subset
<1> HIDE DEF entries
<1>3. n = Cardinality(entries) /\ walk \in Walks(entries)
  BY DEF entries
<1>4. /\ walk \in [1..n -> entries]
      /\ \A i, j \in 1..n : i < j => ~MoreUrgent(walk[j].request, walk[i].request)
      /\ Once(walk, n)
      /\ Ahead(walk, n) = entries
  BY <1>2, <1>3, WalkVisits
<1>5. PICK s \in 0..n : Leading(walk, n, s)
  BY <1>1, <1>2, <1>3, SeeksLead
<1>6. PICK cap \in Nat : cap = Smaller(batch_size, credit)
  BY <1>1 DEF Smaller
<1>7. PICK limit \in Int : limit = NonSeekLimit(credit) /\ limit = Smaller(cap, credit - 1) /\ limit <= cap
  BY <1>1, <1>6 DEF Smaller, NonSeekLimit
<1>8. PICK t : t = LoopTakes(walk, n, credit) /\ Takes(t, walk, n, cap, credit)
  <2> DEFINE F == CHOOSE f : f = [i \in 0..n |->
                      IF i = 0 THEN {}
                      ELSE LoopStep(f[i - 1], walk[i], Smaller(batch_size, credit), credit)]
  <2>1. \E f : f = [i \in 0..n |-> IF i = 0 THEN {} ELSE LoopStep(f[i - 1], walk[i], cap, credit)]
    <3>1. \E f : Takes(f, walk, n, cap, credit)
      BY TakesExist
    <3> QED
      BY <3>1 DEF Takes
  <2>2. Takes(F, walk, n, cap, credit)
    BY <1>6, <2>1 DEF Takes
  <2>3. LoopTakes(walk, n, credit) = F
    BY DEF LoopTakes
  <2> QED
    BY <2>2, <2>3
<1>9. PICK k \in 0..n : k = Took(n, s, cap, limit)
  <2>1. n \in Nat /\ s \in Nat
    OBVIOUS
  <2>2. Took(n, s, cap, limit) \in 0..n
    BY <2>1, TookBounds
  <2> QED
    BY <2>2
<1>10. batch = Ahead(walk, k)
  <2>1. batch = t[n]
    BY <1>8
  <2>2. credit \in Nat
    OBVIOUS
  <2>3. t[n] = Ahead(walk, Took(n, s, cap, limit))
    BY <1>4, <1>5, <1>7, <1>8, <2>2, LoopTakesAhead
  <2> QED
    BY <1>9, <2>1, <2>3
<1>11. /\ Cardinality(Seeks(entries)) = s
       /\ Cardinality(entries \ Seeks(entries)) = n - s
  <2>1. n \in 0..n /\ Smaller(n, s) = s
    BY DEF Smaller
  <2>2. /\ Cardinality(Seeks(Ahead(walk, n))) = Smaller(n, s)
        /\ Cardinality(Ahead(walk, n) \ Seeks(Ahead(walk, n))) = n - Smaller(n, s)
    BY <1>4, <1>5, <2>1, AheadSeeks
  <2> QED
    BY <1>4, <2>1, <2>2
<1>12. PICK seeks \in Nat : seeks = Smaller(Cardinality(Seeks(entries)), cap) /\ seeks = Smaller(s, cap)
  BY <1>11 DEF Smaller
<1>13. PICK others \in Nat : /\ others = Smaller(Cardinality(entries \ Seeks(entries)),
                                                 IF limit - seeks < 0 THEN 0 ELSE limit - seeks)
                             /\ others = Smaller(n - s, Room(limit, seeks))
  BY <1>3, <1>11 DEF Smaller, Room
<1>14. /\ Cardinality(Seeks(batch)) = seeks /\ Cardinality(batch \ Seeks(batch)) = others
       /\ k = seeks + others
  <2>1. Smaller(k, s) = seeks /\ k - seeks = others
    BY <1>3, <1>7, <1>9, <1>12, <1>13, TookParts
  <2>2. /\ Cardinality(Seeks(Ahead(walk, k))) = Smaller(k, s)
        /\ Cardinality(Ahead(walk, k) \ Seeks(Ahead(walk, k))) = k - Smaller(k, s)
    BY <1>4, <1>5, AheadSeeks
  <2> QED
    BY <1>10, <1>12, <1>13, <2>1, <2>2
<1>15. \A rule : rule \in Batches(worker, credit, bytes) <=>
          /\ rule \in SUBSET entries /\ rule # {}
          /\ Cardinality(Seeks(rule)) = seeks
          /\ Cardinality(rule \ Seeks(rule)) = others
          /\ \A e \in rule, f \in entries \ rule : ~MoreUrgent(f.request, e.request)
  <2>1. ~(worker >= workers \/ credit = 0)
    BY <1>1
  <2> QED
    BY <1>6, <1>7, <1>12, <1>13, <2>1 DEF Batches, entries
<1>16. CASE batch = {}
  <2>1. k = 0
    <3>1. Cardinality(batch) = k
      BY <1>3, <1>4, <1>10, AheadCount
    <3> QED
      BY <1>16, <3>1, FS_EmptySet
  <2>2. seeks = 0 /\ others = 0
    BY <1>14, <2>1
  <2>3. ASSUME NEW rule \in Batches(worker, credit, bytes) PROVE FALSE
    <3>1. rule \in SUBSET entries /\ rule # {}
          /\ Cardinality(Seeks(rule)) = 0 /\ Cardinality(rule \ Seeks(rule)) = 0
      BY <1>15, <2>2
    <3>2. IsFiniteSet(Seeks(rule)) /\ IsFiniteSet(rule \ Seeks(rule))
      BY <1>2, <3>1, FS_Subset DEF Seeks
    <3>3. Seeks(rule) = {} /\ rule \ Seeks(rule) = {}
      BY <3>1, <3>2, FS_EmptySet
    <3> QED
      BY <3>1, <3>3
  <2> QED
    BY <1>16, <2>3
<1>17. CASE batch # {}
  <2>1. batch \in SUBSET entries
    BY <1>3, <1>4, <1>10 DEF Ahead
  <2>2. ASSUME NEW e \in batch, NEW f \in entries \ batch PROVE ~MoreUrgent(f.request, e.request)
    <3>1. PICK i \in 1..k : e = walk[i]
      BY <1>10 DEF Ahead
    <3>2. PICK j \in 1..n : f = walk[j]
      BY <1>4 DEF Ahead
    <3>3. j \notin 1..k
      BY <1>10, <3>2 DEF Ahead
    <3>4. i \in 1..n /\ i < j
      BY <1>3, <3>3
    <3> QED
      BY <1>4, <3>1, <3>2, <3>4
  <2> QED
    BY <1>14, <1>15, <1>17, <2>1, <2>2
<1> QED
  BY <1>16, <1>17

\* claim_batch sorts, walks, breaks at the cap and skips what would take the reserve:
\* whatever order it leaves ties in, the batch it forms is one the rule allows, and it
\* forms none only when the rule has none.
THEOREM LoopIsTheRule == Spec => []LoopFormsBatch
<1>1. IInv => LoopFormsBatch
  <2> SUFFICES ASSUME IInv, NEW worker \in 0..(MaxWorkers - 1), NEW credit \in 1..MaxCredit, NEW bytes \in Sizes,
                      worker < workers, NEW walk \in Walks(Eligible(worker, bytes))
               PROVE  LET batch == LoopTakes(walk, Cardinality(Eligible(worker, bytes)), credit)
                                              [Cardinality(Eligible(worker, bytes))]
                      IN  IF batch = {} THEN Batches(worker, credit, bytes) = {}
                          ELSE batch \in Batches(worker, credit, bytes)
    BY DEF LoopFormsBatch
  <2>1. worker \in Nat /\ credit \in Nat \ {0}
    BY UseAssumption
  <2>2. PICK n \in Nat : n = Cardinality(Eligible(worker, bytes))
    <3>1. IsFiniteSet(Eligible(worker, bytes))
      BY QueueIsFinite, FS_Subset DEF Eligible
    <3> QED
      BY <3>1, FS_CardinalityType
  <2> QED
    BY <2>1, <2>2, LoopFormsOne
<1> QED
  BY <1>1, Invariance, PTL

================================================================================
