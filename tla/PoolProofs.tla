------------------------------- MODULE PoolProofs -------------------------------
(***************************************************************************)
(* Theorems of ProcPool, for any number of workers, slots, keys, tickets,  *)
(* faults and resizes.                                                     *)
(***************************************************************************)
EXTENDS ProcPool, FiniteSetTheorems, NaturalsInduction, SequenceTheorems, TLAPS

HandleState == {"Starting", "Alive", "Dead", "PermanentlyDead"}
Answer == {"open", "ok", "cancelled", "failed"}

HandleType ==
    [state : HandleState, generation : Nat, restarts : Nat, pid : Nat, segment : Nat,
     bytes : Nat, slots : Nat, free : Nat, out : SUBSET Nat, held : SUBSET Nat,
     reconfiguring : BOOLEAN, retiring : BOOLEAN, signalled : BOOLEAN]
MessageType == [type : {"handshake", "render", "shutdown"}, batch : SUBSET Nat]
EventType ==
    [type : {"handshake", "hello_caps", "frame_ready", "frame_failed", "error", "eof"}, ticket : Nat]
ProcType ==
    [worker : Nat, generation : Nat, up : BOOLEAN, inbox : Seq(MessageType), pipe : Seq(EventType)]

--------------------------------------------------------------------------------
(* Sets of naturals and images of finite sets                              *)

NatOrder == {ss \in Nat \X Nat : ss[1] < ss[2]}

\* A set of naturals has a least element.
LEMMA Least ==
    ASSUME NEW S, S \subseteq Nat, S # {}
    PROVE  \E m \in S : \A y \in S : m <= y
<1>1. IsWellFoundedOn(NatOrder, Nat)
  BY NatLessThanWellFounded DEF OpToRel, NatOrder
<1>2. PICK m \in S : \A y \in S : <<y, m>> \notin NatOrder
  BY <1>1, WFMin
<1>3. ASSUME NEW y \in S PROVE m <= y
  <2>1. m \in Nat /\ y \in Nat
    OBVIOUS
  <2>2. y < m => <<y, m>> \in NatOrder
    BY <2>1 DEF NatOrder
  <2> QED
    BY <1>2, <2>1, <2>2
<1> QED
  BY <1>3

\* A finite set of naturals is bounded: the least length at which the listed
\* elements had no bound would follow one at which they had.
LEMMA FiniteBounded ==
    ASSUME NEW S, S \subseteq Nat, IsFiniteSet(S)
    PROVE  \E b \in Nat : \A s \in S : s <= b
<1>1. PICK n \in Nat : \E f : f \in Surjection(1..n, S)
  BY FS_CardinalityType DEF ExistsBijection, Bijection
<1>2. PICK f : f \in Surjection(1..n, S)
  BY <1>1
<1>3. f \in [1..n -> S] /\ \A s \in S : \E i \in 1..n : f[i] = s
  BY <1>2 DEF Surjection
<1> DEFINE Unbounded == {k \in 0..n : ~\E b \in Nat : \A i \in 1..k : f[i] <= b}
<1>4. Unbounded = {}
  <2> SUFFICES ASSUME Unbounded # {} PROVE FALSE
    OBVIOUS
  <2>1. Unbounded \subseteq Nat
    OBVIOUS
  <2>2. PICK m \in Unbounded : \A y \in Unbounded : m <= y
    BY <2>1, Least
  <2>3. m \in 0..n /\ ~\E b \in Nat : \A i \in 1..m : f[i] <= b
    OBVIOUS
  <2>4. m # 0
    <3>1. \A i \in 1..0 : f[i] <= 0
      OBVIOUS
    <3> QED
      BY <2>3, <3>1
  <2>5. m - 1 \in 0..n /\ m - 1 \notin Unbounded
    <3>1. m \in Nat /\ m <= n /\ m >= 1
      BY <2>3, <2>4
    <3> HIDE DEF Unbounded
    <3>2. m - 1 \in 0..n /\ ~(m <= m - 1)
      BY <3>1
    <3> QED
      BY <2>2, <3>2
  <2>6. PICK b \in Nat : \A i \in 1..(m - 1) : f[i] <= b
    BY <2>5
  <2>7. \A i \in 1..n : f[i] \in Nat
    BY <1>3
  <2>8. m \in 1..n /\ 1..m \subseteq 1..n
    BY <2>3, <2>4
  <2>9. \A i \in 1..m : f[i] <= b + f[m]
    <3> SUFFICES ASSUME NEW i \in 1..m PROVE f[i] <= b + f[m]
      OBVIOUS
    <3>1. i = m \/ i \in 1..(m - 1)
      BY <2>3
    <3> QED
      BY <3>1, <2>6, <2>7, <2>8
  <2>10. b + f[m] \in Nat
    BY <2>7, <2>8
  <2> QED
    BY <2>3, <2>9, <2>10
<1>5. PICK b \in Nat : \A i \in 1..n : f[i] <= b
  BY <1>4
<1> QED
  BY <1>3, <1>5

\* A finite set of naturals that is not empty has a greatest element.
LEMMA FiniteGreatest ==
    ASSUME NEW S, S \subseteq Nat, IsFiniteSet(S), S # {}
    PROVE  \E m \in S : \A s \in S : s <= m
<1> DEFINE Bounds == {b \in Nat : \A s \in S : s <= b}
<1>1. Bounds \subseteq Nat /\ Bounds # {}
  BY FiniteBounded
<1>2. PICK m \in Bounds : \A y \in Bounds : m <= y
  BY <1>1, Least
<1>3. m \in S
  <2> SUFFICES ASSUME m \notin S PROVE FALSE
    OBVIOUS
  <2>1. PICK s \in S : s <= m /\ s # m
    BY <1>2
  <2>2. m \in Nat /\ s \in Nat /\ m > 0
    BY <1>1, <2>1
  <2>3. \A t \in S : t <= m - 1
    BY <1>1, <1>2, <2>2
  <2>4. m - 1 \in Bounds
    BY <2>2, <2>3
  <2> QED
    BY <1>2, <2>2, <2>4
<1> QED
  BY <1>2, <1>3

\* The image of a finite set is finite and no larger; it is as large when no two
\* elements have the same image.
LEMMA ImageOf ==
    ASSUME NEW S, IsFiniteSet(S), NEW T, NEW f \in [S -> T], \A t \in T : \E s \in S : f[s] = t
    PROVE  /\ IsFiniteSet(T)
           /\ Cardinality(T) <= Cardinality(S)
           /\ (\A r, s \in S : f[r] = f[s] => r = s) => Cardinality(T) = Cardinality(S)
<1>1. f \in Surjection(S, T)
  BY DEF Surjection
<1>2. (\A r, s \in S : f[r] = f[s] => r = s) => f \in Injection(S, T)
  BY DEF Injection, IsInjective
<1> QED
  BY <1>1, <1>2, FS_Surjection

--------------------------------------------------------------------------------
(* The parts of the invariant that need no restriction                     *)

\* The scheduler is well typed and finite, and its requests are posted ones.
SchedOK ==
    /\ SchedTypeOK
    /\ IsFiniteSet(pending) /\ IsFiniteSet(claimed)
    /\ \A e \in pending : e.request.payload \in 1..Len(posted)
    /\ \A c \in claimed : c.request.payload \in 1..Len(posted)

\* A handle with children 1..n, tickets 1..m and segments 1..k: no slot is counted
\* twice as free, outstanding and held.
HandleOK(h, n, m, k) ==
    /\ h \in HandleType
    /\ h.pid <= n /\ h.segment <= k
    /\ h.out \subseteq 1..m /\ h.held \subseteq 1..m
    /\ IsFiniteSet(h.out) /\ IsFiniteSet(h.held)
    /\ h.free + Cardinality(h.out) + Cardinality(h.held) <= h.slots

HandlesOK ==
    /\ handles \in Seq(HandleType)
    /\ \A i \in 1..Len(handles) : HandleOK(handles[i], Len(procs), Len(posted), segments)

ProcsOK == procs \in Seq(ProcType)

\* An open answer belongs to an open ticket.
TicketsOK ==
    /\ posted \in Seq(Jobs)
    /\ tickets \subseteq 1..Len(posted)
    /\ answer \in [1..Len(posted) -> Answer]
    /\ \A t \in 1..Len(posted) : answer[t] = "open" => t \in tickets
    /\ \A ref \in refs : ref.ticket \in 1..Len(posted)
    /\ segments \in Nat /\ next_target \in Nat

\* After shutdown nothing is open and no pump runs any more.
DownOK == shutting = "down" => tickets = {} /\ pump.at = "idle"

Told(ps, p) == \E i \in 1..Len(ps[p].inbox) : ps[p].inbox[i].type = "shutdown"

\* A running child belongs to a handle or was told to exit (NoOrphans).
ChildrenOK ==
    \A p \in 1..Len(procs) : procs[p].up =>
        (\E i \in 1..Len(handles) : handles[i].pid = p) \/ Told(procs, p)

Inv == SchedOK /\ HandlesOK /\ ProcsOK /\ TicketsOK /\ DownOK /\ ChildrenOK

--------------------------------------------------------------------------------
(* What the operators return                                               *)

\* A batch comes from the queue and is no larger than the credit.
LEMMA BatchIs ==
    ASSUME SchedOK, NEW w, NEW credit \in Nat, NEW bytes, NEW batch \in Batches(w, credit, bytes)
    PROVE  /\ batch \subseteq pending
           /\ IsFiniteSet(batch)
           /\ Cardinality(batch) <= credit
<1> DEFINE eligible == Eligible(w, bytes)
           cap == Smaller(batch_size, credit)
           seeks == Smaller(Cardinality(Seeks(eligible)), cap)
           room == NonSeekLimit(credit) - seeks
           others == Smaller(Cardinality(eligible \ Seeks(eligible)), IF room < 0 THEN 0 ELSE room)
<1>1. /\ batch \subseteq eligible
      /\ Cardinality(Seeks(batch)) = seeks
      /\ Cardinality(batch \ Seeks(batch)) = others
  BY DEF Batches
<1>2. eligible \subseteq pending
  BY DEF Eligible
<1>3. IsFiniteSet(eligible) /\ IsFiniteSet(batch)
  BY <1>1, <1>2, FS_Subset DEF SchedOK
<1>4. Seeks(batch) \subseteq batch /\ Seeks(eligible) \subseteq eligible
  BY DEF Seeks
<1>5. /\ IsFiniteSet(Seeks(batch)) /\ IsFiniteSet(batch \ Seeks(batch))
      /\ Cardinality(Seeks(eligible)) \in Nat /\ Cardinality(eligible \ Seeks(eligible)) \in Nat
  BY <1>3, <1>4, FS_Subset, FS_Difference, FS_CardinalityType
<1>6. Cardinality(batch) = Cardinality(Seeks(batch)) + Cardinality(batch \ Seeks(batch))
  <2>1. batch = Seeks(batch) \cup (batch \ Seeks(batch))
    BY <1>4
  <2>2. Seeks(batch) \cap (batch \ Seeks(batch)) = {}
    OBVIOUS
  <2>3. /\ Cardinality(Seeks(batch)) \in Nat /\ Cardinality(batch \ Seeks(batch)) \in Nat
        /\ Cardinality({}) = 0
    BY <1>5, FS_CardinalityType, FS_EmptySet
  <2>4. Cardinality(Seeks(batch) \cup (batch \ Seeks(batch)))
          = Cardinality(Seeks(batch)) + Cardinality(batch \ Seeks(batch))
              - Cardinality(Seeks(batch) \cap (batch \ Seeks(batch)))
    BY <1>5, FS_Union
  <2>5. Cardinality(Seeks(batch) \cap (batch \ Seeks(batch))) = 0
    BY <2>2, <2>3
  <2>6. Cardinality(batch) = Cardinality(Seeks(batch)) + Cardinality(batch \ Seeks(batch))
              - Cardinality(Seeks(batch) \cap (batch \ Seeks(batch)))
    BY <2>1, <2>4
  <2> QED
    BY <2>3, <2>5, <2>6
<1>7. batch_size \in Nat \ {0}
  BY DEF SchedOK, SchedTypeOK
<1>8. seeks \in Nat /\ seeks <= credit
  BY <1>5, <1>7 DEF Smaller
<1>9. NonSeekLimit(credit) \in Int /\ NonSeekLimit(credit) <= credit
  BY <1>7 DEF NonSeekLimit, Smaller
<1> HIDE DEF seeks
<1>10. others \in Nat /\ seeks + others <= credit
  BY <1>5, <1>8, <1>9 DEF Smaller
<1> QED
  BY <1>1, <1>2, <1>3, <1>6, <1>10

\* The size a segment must grow to is 0 or the size of a queued request.
LEMMA NeededIs ==
    ASSUME SchedOK, NEW w, NEW current \in Nat
    PROVE  NeededBytes(w, current) \in Nat
<1> DEFINE asking == {f \in pending : InShard(f, w)}
           sizes == {e.request.slot_bytes : e \in asking}
<1>1. asking \subseteq pending /\ IsFiniteSet(asking)
  BY FS_Subset DEF SchedOK
<1>2. \A e \in asking : e.request.slot_bytes \in Nat
  BY DEF SchedOK, SchedTypeOK, PendingEntry, Request
<1>3. IsFiniteSet(sizes) /\ sizes \subseteq Nat
  <2> DEFINE f == [e \in asking |-> e.request.slot_bytes]
  <2>1. f \in [asking -> sizes] /\ \A t \in sizes : \E e \in asking : f[e] = t
    OBVIOUS
  <2> HIDE DEF f
  <2>2. IsFiniteSet(sizes)
    BY <1>1, <2>1, ImageOf
  <2> QED
    BY <1>2, <2>2
<1>4. NeededBytes(w, current) = IF w >= workers \/ \A s \in sizes : s <= current THEN 0
                                ELSE CHOOSE s \in sizes : \A t \in sizes : t <= s
  BY DEF NeededBytes
<1> HIDE DEF sizes
<1>5. CASE w >= workers \/ \A s \in sizes : s <= current
  BY <1>4, <1>5
<1>6. CASE ~(w >= workers \/ \A s \in sizes : s <= current)
  <2>1. sizes # {}
    BY <1>6
  <2>2. \E m \in sizes : \A s \in sizes : s <= m
    BY <1>3, <2>1, FiniteGreatest
  <2>3. (CHOOSE s \in sizes : \A t \in sizes : t <= s) \in sizes
    BY <2>2
  <2> QED
    BY <1>3, <1>4, <1>6, <2>3
<1> QED
  BY <1>5, <1>6

\* The slot count of a grown segment.
LEMMA SlotsForBytesIs ==
    ASSUME NEW bytes \in Nat, NEW current \in Nat
    PROVE  SlotsForBytes(bytes, current) \in Nat
<1>1. AtLeastOne(bytes) \in Nat \ {0}
  BY DEF AtLeastOne
<1>2. SegmentBudget \div AtLeastOne(bytes) \in Int
  BY <1>1, PoolAssumption
<1>3. AtLeastTwo(SegmentBudget \div AtLeastOne(bytes)) \in Nat
  BY <1>2 DEF AtLeastTwo
<1>4. Smaller(AtLeastTwo(SegmentBudget \div AtLeastOne(bytes)), current) \in Nat
  BY <1>3 DEF Smaller
<1> QED
  BY <1>4 DEF SlotsForBytes, AtLeastTwo

--------------------------------------------------------------------------------
(* Children                                                                *)

\* What a step of a child or a message to it may do to the others: nobody starts to
\* run, and who was told to exit stays told.
Calmer(ps, qs) ==
    /\ qs \in Seq(ProcType) /\ Len(qs) = Len(ps)
    /\ \A q \in 1..Len(ps) : qs[q].worker = ps[q].worker /\ qs[q].generation = ps[q].generation
    /\ \A q \in 1..Len(ps) : qs[q].up => ps[q].up
    /\ \A q \in 1..Len(ps) : Told(ps, q) => Told(qs, q)

\* Killing a child.
LEMMA KillIs ==
    ASSUME NEW ps \in Seq(ProcType), NEW p \in 0..Len(ps)
    PROVE  /\ Calmer(ps, Kill(ps, p))
           /\ p # 0 => ~Kill(ps, p)[p].up
<1>1. CASE p = 0 \/ ~ps[p].up
  BY <1>1 DEF Kill, Calmer, Told
<1>2. CASE ~(p = 0 \/ ~ps[p].up)
  <2>1. PICK r \in ProcType : r = ps[p]
    BY <1>2, ElementOfSeq
  <2> DEFINE x == Append(r.pipe, Event("eof", 0))
             new == [r EXCEPT !.up = FALSE, !.pipe = x]
  <2>2. x \in Seq(EventType)
    <3>1. Event("eof", 0) \in EventType
      BY DEF Event, EventType
    <3>2. r.pipe \in Seq(EventType)
      BY <2>1 DEF ProcType
    <3> QED
      BY <3>1, <3>2, AppendProperties
  <2>3. Kill(ps, p) = [ps EXCEPT ![p] = new]
    BY <1>2, <2>1 DEF Kill
  <2> HIDE DEF x
  <2>4. /\ new \in ProcType
        /\ new.worker = r.worker /\ new.generation = r.generation /\ new.up = FALSE /\ new.inbox = r.inbox
    BY <2>2 DEF ProcType
  <2> HIDE DEF new
  <2> DEFINE qs == [ps EXCEPT ![p] = new]
  <2>5. /\ qs \in Seq(ProcType) /\ Len(qs) = Len(ps)
        /\ \A j \in 1..Len(ps) : qs[j] = IF j = p THEN new ELSE ps[j]
    BY <1>2, <2>4, ExceptSeq
  <2> HIDE DEF qs
  <2>6. Calmer(ps, qs) /\ ~qs[p].up
    BY <1>2, <2>1, <2>4, <2>5 DEF Calmer, Told
  <2> QED
    BY <2>3, <2>6 DEF qs
<1> QED
  BY <1>1, <1>2

\* A message to a child.
LEMMA SendIs ==
    ASSUME NEW ps \in Seq(ProcType), NEW p \in 1..Len(ps), NEW m \in MessageType
    PROVE  /\ Calmer(ps, Send(ps, p, m))
           /\ m.type = "shutdown" => Told(Send(ps, p, m), p)
<1>1. PICK r \in ProcType : r = ps[p]
  BY ElementOfSeq
<1> DEFINE x == Append(r.inbox, m)
           new == [r EXCEPT !.inbox = x]
<1>2. r.inbox \in Seq(MessageType) /\ x \in Seq(MessageType)
  BY <1>1, AppendProperties DEF ProcType
<1>3. /\ Len(x) = Len(r.inbox) + 1 /\ Len(r.inbox) \in Nat
      /\ \A i \in 1..Len(r.inbox) : x[i] = r.inbox[i]
      /\ x[Len(r.inbox) + 1] = m
  BY <1>2, AppendProperties
<1>4. Send(ps, p, m) = [ps EXCEPT ![p] = new]
  BY <1>1 DEF Send
<1> HIDE DEF x
<1>5. /\ new \in ProcType
      /\ new.worker = r.worker /\ new.generation = r.generation /\ new.up = r.up /\ new.inbox = x
  BY <1>2 DEF ProcType
<1> HIDE DEF new
<1> DEFINE qs == [ps EXCEPT ![p] = new]
<1>6. /\ qs \in Seq(ProcType) /\ Len(qs) = Len(ps)
      /\ \A j \in 1..Len(ps) : qs[j] = IF j = p THEN new ELSE ps[j]
  BY <1>5, ExceptSeq
<1> HIDE DEF qs
<1>7. \A q \in 1..Len(ps) : Told(ps, q) => Told(qs, q)
  <2> SUFFICES ASSUME NEW q \in 1..Len(ps), Told(ps, q) PROVE Told(qs, q)
    OBVIOUS
  <2>1. PICK i \in 1..Len(ps[q].inbox) : ps[q].inbox[i].type = "shutdown"
    BY DEF Told
  <2>2. CASE q = p
    <3>1. i \in 1..Len(x) /\ x[i] = r.inbox[i]
      BY <1>1, <1>3, <2>1, <2>2
    <3> QED
      BY <1>1, <1>5, <1>6, <2>1, <2>2, <3>1 DEF Told
  <2>3. CASE q # p
    BY <1>6, <2>1, <2>3 DEF Told
  <2> QED
    BY <2>2, <2>3
<1>8. m.type = "shutdown" => Told(qs, p)
  BY <1>3, <1>5, <1>6 DEF Told
<1>9. Calmer(ps, qs)
  BY <1>1, <1>5, <1>6, <1>7 DEF Calmer
<1> QED
  BY <1>4, <1>8, <1>9 DEF qs

\* An event is read from a child's pipe.
LEMMA TakenIs ==
    ASSUME ProcsOK, NEW p \in 1..Len(procs), procs[p].pipe # <<>>
    PROVE  Calmer(procs, Taken(p)) /\ \A q \in 1..Len(procs) : Taken(p)[q].up = procs[q].up
<1>1. PICK r \in ProcType : r = procs[p]
  BY ElementOfSeq DEF ProcsOK
<1> DEFINE x == Tail(r.pipe)
           new == [r EXCEPT !.pipe = x]
<1>2. x \in Seq(EventType)
  BY <1>1, HeadTailProperties DEF ProcType
<1>3. Taken(p) = [procs EXCEPT ![p] = new]
  BY <1>1 DEF Taken
<1> HIDE DEF x
<1>4. /\ new \in ProcType
      /\ new.worker = r.worker /\ new.generation = r.generation /\ new.up = r.up /\ new.inbox = r.inbox
  BY <1>2 DEF ProcType
<1> HIDE DEF new
<1> DEFINE qs == [procs EXCEPT ![p] = new]
<1>5. /\ qs \in Seq(ProcType) /\ Len(qs) = Len(procs)
      /\ \A j \in 1..Len(procs) : qs[j] = IF j = p THEN new ELSE procs[j]
  BY <1>4, ExceptSeq DEF ProcsOK
<1> HIDE DEF qs
<1>6. Calmer(procs, qs) /\ \A q \in 1..Len(procs) : qs[q].up = procs[q].up
  BY <1>1, <1>4, <1>5 DEF Calmer, Told
<1> QED
  BY <1>3, <1>6 DEF qs

\* Calmer is reflexive and transitive.
LEMMA CalmerOrder ==
    /\ \A ps \in Seq(ProcType) : Calmer(ps, ps)
    /\ \A ps, qs, rs : Calmer(ps, qs) /\ Calmer(qs, rs) => Calmer(ps, rs)
BY DEF Calmer

--------------------------------------------------------------------------------
(* Handles                                                                 *)

\* The handle at index w is replaced by new, and no other changes.
HandleStep(w, new) ==
    /\ handles' \in Seq(HandleType) /\ Len(handles') = Len(handles)
    /\ handles'[w + 1] = new
    /\ \A i \in 1..Len(handles) : i # w + 1 => handles'[i] = handles[i]

SameCredit(g, h) ==
    /\ g.out = h.out /\ g.held = h.held /\ g.free = h.free
    /\ g.slots = h.slots /\ g.segment = h.segment

\* No handle comes, goes or changes its child or its credit.
CreditKept ==
    /\ handles' \in Seq(HandleType) /\ Len(handles') = Len(handles)
    /\ \A i \in 1..Len(handles) :
         /\ SameCredit(handles'[i], handles[i])
         /\ handles'[i].pid = handles[i].pid
         /\ handles'[i].generation = handles[i].generation
         /\ handles'[i].restarts = handles[i].restarts

\* A worker has a handle.
LEMMA WorkerHandle ==
    ASSUME HandlesOK, NEW w \in Workers
    PROVE  /\ w \in Nat /\ w + 1 \in 1..Len(handles)
           /\ Handle(w) = handles[w + 1] /\ Handle(w) \in HandleType
           /\ HandleOK(Handle(w), Len(procs), Len(posted), segments)
<1>1. w \in Nat /\ w + 1 \in 1..Len(handles)
  BY DEF Workers, HandlesOK
<1> QED
  BY <1>1, ElementOfSeq DEF Handle, HandlesOK

\* Replacing one handle.
LEMMA PutHandle ==
    ASSUME HandlesOK, NEW w \in Workers, NEW new \in HandleType,
           handles' = [handles EXCEPT ![w + 1] = new]
    PROVE  HandleStep(w, new)
<1>1. w + 1 \in 1..Len(handles)
  BY WorkerHandle
<1> QED
  BY <1>1, ExceptSeq DEF HandlesOK, HandleStep

\* The bounds of HandleOK only grow.
LEMMA HandleOKGrows ==
    ASSUME NEW h, NEW n \in Nat, NEW m \in Nat, NEW k \in Nat, HandleOK(h, n, m, k),
           NEW n2 \in Nat, NEW m2 \in Nat, NEW k2 \in Nat, n <= n2, m <= m2, k <= k2
    PROVE  HandleOK(h, n2, m2, k2)
<1>1. h.pid \in Nat /\ h.segment \in Nat
  BY DEF HandleOK, HandleType
<1>2. 1..m \subseteq 1..m2
  OBVIOUS
<1> QED
  BY <1>1, <1>2 DEF HandleOK

\* What only grows: children, tickets and segments.
Grows ==
    /\ Len(procs) \in Nat /\ Len(posted) \in Nat /\ segments \in Nat
    /\ Len(procs') \in Nat /\ Len(posted') \in Nat /\ segments' \in Nat
    /\ Len(procs) <= Len(procs') /\ Len(posted) <= Len(posted') /\ segments <= segments'

LEMMA PutKeeps ==
    ASSUME HandlesOK, Grows, NEW w \in Workers, NEW new, HandleStep(w, new),
           HandleOK(new, Len(procs'), Len(posted'), segments')
    PROVE  HandlesOK'
<1> SUFFICES ASSUME NEW i \in 1..Len(handles) PROVE HandleOK(handles'[i], Len(procs'), Len(posted'), segments')
  BY DEF HandlesOK, HandleStep
<1>1. CASE i = w + 1
  BY <1>1 DEF HandleStep
<1>2. CASE i # w + 1
  <2>1. handles'[i] = handles[i] /\ HandleOK(handles[i], Len(procs), Len(posted), segments)
    BY <1>2 DEF HandleStep, HandlesOK
  <2> QED
    BY <2>1, HandleOKGrows DEF Grows
<1> QED
  BY <1>1, <1>2

LEMMA CreditKeeps ==
    ASSUME HandlesOK, Grows, CreditKept
    PROVE  HandlesOK'
<1> SUFFICES ASSUME NEW i \in 1..Len(handles) PROVE HandleOK(handles'[i], Len(procs'), Len(posted'), segments')
  BY DEF HandlesOK, CreditKept
<1>1. HandleOK(handles[i], Len(procs'), Len(posted'), segments')
  BY HandleOKGrows DEF Grows, HandlesOK
<1>2. handles'[i] \in HandleType
  BY ElementOfSeq DEF CreditKept
<1> QED
  BY <1>1, <1>2 DEF CreditKept, SameCredit, HandleOK

\* A change of one handle that leaves its child and its credit.
LEMMA PutState ==
    ASSUME HandlesOK, NEW w \in Workers, NEW new \in HandleType, HandleStep(w, new),
           SameCredit(new, Handle(w)), new.pid = Handle(w).pid,
           new.generation = Handle(w).generation, new.restarts = Handle(w).restarts
    PROVE  CreditKept
<1>1. Handle(w) = handles[w + 1]
  BY DEF Handle
<1> SUFFICES ASSUME NEW i \in 1..Len(handles)
             PROVE  /\ SameCredit(handles'[i], handles[i])
                    /\ handles'[i].pid = handles[i].pid
                    /\ handles'[i].generation = handles[i].generation
                    /\ handles'[i].restarts = handles[i].restarts
  BY DEF CreditKept, HandleStep
<1>2. CASE i = w + 1
  BY <1>1, <1>2 DEF HandleStep
<1>3. CASE i # w + 1
  BY <1>3 DEF HandleStep, SameCredit
<1> QED
  BY <1>2, <1>3

LEMMA CreditUnchanged == ASSUME HandlesOK, UNCHANGED handles PROVE CreditKept
BY DEF HandlesOK, CreditKept, SameCredit

\* A worker is marked dead.
LEMMA MarkDead ==
    ASSUME HandlesOK, NEW w \in Workers, handles' = [handles EXCEPT ![w + 1].state = "Dead"]
    PROVE  CreditKept
<1>1. PICK h \in HandleType : h = Handle(w)
  BY WorkerHandle
<1> DEFINE new == [h EXCEPT !.state = "Dead"]
<1>2. handles' = [handles EXCEPT ![w + 1] = new]
  BY <1>1 DEF Handle
<1>3. /\ new \in HandleType /\ SameCredit(new, h)
      /\ new.pid = h.pid /\ new.generation = h.generation /\ new.restarts = h.restarts
  BY DEF HandleType, HandleState, SameCredit
<1> HIDE DEF new
<1> QED
  BY <1>1, <1>2, <1>3, PutHandle, PutState

\* The handshake of a worker is complete.
LEMMA MarkAlive ==
    ASSUME HandlesOK, NEW w \in Workers,
           handles' = [handles EXCEPT ![w + 1].state = "Alive", ![w + 1].reconfiguring = FALSE]
    PROVE  CreditKept
<1>1. PICK h \in HandleType : h = Handle(w)
  BY WorkerHandle
<1> DEFINE new == [h EXCEPT !.state = "Alive", !.reconfiguring = FALSE]
<1>2. handles' = [handles EXCEPT ![w + 1] = new]
  BY <1>1 DEF Handle
<1>3. /\ new \in HandleType /\ SameCredit(new, h)
      /\ new.pid = h.pid /\ new.generation = h.generation /\ new.restarts = h.restarts
  BY DEF HandleType, HandleState, SameCredit
<1> HIDE DEF new
<1> QED
  BY <1>1, <1>2, <1>3, PutHandle, PutState

\* Retirement only sets a mark.
LEMMA ShrinkIs ==
    ASSUME HandlesOK, NEW n, Shrink(n)
    PROVE  CreditKept
<1> DEFINE new(i) == [handles[i] EXCEPT !.retiring = @ \/ (i > n /\ handles[i].state \in {"Alive", "Starting"})]
<1>1. Len(handles) \in Nat /\ DOMAIN handles = 1..Len(handles)
  BY LenProperties DEF HandlesOK
<1>2. ASSUME NEW i \in 1..Len(handles)
      PROVE  /\ new(i) \in HandleType /\ SameCredit(new(i), handles[i])
             /\ new(i).pid = handles[i].pid /\ new(i).generation = handles[i].generation
             /\ new(i).restarts = handles[i].restarts
  <2>1. PICK h \in HandleType : h = handles[i]
    BY ElementOfSeq DEF HandlesOK
  <2> DEFINE b == h.retiring \/ (i > n /\ h.state \in {"Alive", "Starting"})
             g == [h EXCEPT !.retiring = b]
  <2>2. b \in BOOLEAN
    BY DEF HandleType
  <2>3. new(i) = g
    BY <2>1
  <2> HIDE DEF b
  <2>4. /\ g \in HandleType /\ SameCredit(g, h)
        /\ g.pid = h.pid /\ g.generation = h.generation /\ g.restarts = h.restarts
    BY <2>2 DEF HandleType, SameCredit
  <2> HIDE DEF g, new
  <2> QED
    BY <2>1, <2>3, <2>4
<1>3. handles' = [i \in 1..Len(handles) |-> new(i)]
  BY <1>1 DEF Shrink
<1> HIDE DEF new
<1>4. handles' \in Seq(HandleType)
  BY <1>1, <1>2, <1>3, IsASeq
<1>5. Len(handles') = Len(handles) /\ \A i \in 1..Len(handles) : handles'[i] = new(i)
  BY <1>1, <1>3, <1>4
<1> QED
  BY <1>2, <1>4, <1>5 DEF CreditKept

Signalled(told) ==
    handles' = [i \in DOMAIN handles |->
                   IF i - 1 \in told THEN [handles[i] EXCEPT !.signalled = TRUE] ELSE handles[i]]

\* The shutdown signal of retirement only sets a mark.
LEMMA SignalIs ==
    ASSUME HandlesOK, NEW told, Signalled(told)
    PROVE  CreditKept
<1> DEFINE new(i) == IF i - 1 \in told THEN [handles[i] EXCEPT !.signalled = TRUE] ELSE handles[i]
<1>1. Len(handles) \in Nat /\ DOMAIN handles = 1..Len(handles)
  BY LenProperties DEF HandlesOK
<1>2. ASSUME NEW i \in 1..Len(handles)
      PROVE  /\ new(i) \in HandleType /\ SameCredit(new(i), handles[i])
             /\ new(i).pid = handles[i].pid /\ new(i).generation = handles[i].generation
             /\ new(i).restarts = handles[i].restarts
  <2>1. PICK h \in HandleType : h = handles[i]
    BY ElementOfSeq DEF HandlesOK
  <2> DEFINE g == [h EXCEPT !.signalled = TRUE]
  <2>2. new(i) = g \/ new(i) = h
    BY <2>1
  <2>3. /\ g \in HandleType /\ SameCredit(g, h)
        /\ g.pid = h.pid /\ g.generation = h.generation /\ g.restarts = h.restarts
    BY DEF HandleType, SameCredit
  <2>4. SameCredit(h, h)
    BY DEF SameCredit
  <2> HIDE DEF g, new
  <2> QED
    BY <2>1, <2>2, <2>3, <2>4
<1>3. handles' = [i \in 1..Len(handles) |-> new(i)]
  BY <1>1 DEF Signalled
<1> HIDE DEF new
<1>4. handles' \in Seq(HandleType)
  <2>1. \A i \in 1..Len(handles) : new(i) \in HandleType
    BY <1>2
  <2> QED
    BY <1>1, <1>3, <2>1, IsASeq
<1>5. Len(handles') = Len(handles) /\ \A i \in 1..Len(handles) : handles'[i] = new(i)
  BY <1>1, <1>3, <1>4
<1> QED
  BY <1>2, <1>4, <1>5 DEF CreditKept

\* Shutdown takes the children out of their handles.
LEMMA ForgetIs ==
    ASSUME HandlesOK, handles' = [i \in DOMAIN handles |-> [handles[i] EXCEPT !.pid = 0]]
    PROVE  /\ handles' \in Seq(HandleType) /\ Len(handles') = Len(handles)
           /\ \A i \in 1..Len(handles) : SameCredit(handles'[i], handles[i]) /\ handles'[i].pid = 0
<1> DEFINE new(i) == [handles[i] EXCEPT !.pid = 0]
<1>1. Len(handles) \in Nat /\ DOMAIN handles = 1..Len(handles)
  BY LenProperties DEF HandlesOK
<1>2. ASSUME NEW i \in 1..Len(handles)
      PROVE  new(i) \in HandleType /\ SameCredit(new(i), handles[i]) /\ new(i).pid = 0
  <2>1. PICK h \in HandleType : h = handles[i]
    BY ElementOfSeq DEF HandlesOK
  <2> DEFINE g == [h EXCEPT !.pid = 0]
  <2>2. new(i) = g
    BY <2>1
  <2>3. g \in HandleType /\ SameCredit(g, h) /\ g.pid = 0
    BY DEF HandleType, SameCredit
  <2> HIDE DEF g, new
  <2> QED
    BY <2>1, <2>2, <2>3
<1>3. handles' = [i \in 1..Len(handles) |-> new(i)]
  BY <1>1
<1> HIDE DEF new
<1>4. handles' \in Seq(HandleType)
  <2>1. \A i \in 1..Len(handles) : new(i) \in HandleType
    BY <1>2
  <2> QED
    BY <1>1, <1>3, <2>1, IsASeq
<1>5. Len(handles') = Len(handles) /\ \A i \in 1..Len(handles) : handles'[i] = new(i)
  BY <1>1, <1>3, <1>4
<1> QED
  BY <1>2, <1>4, <1>5

\* A fresh handle has all its slots free.
LEMMA NewHandleIs ==
    ASSUME NEW restarts \in Nat, NEW pid \in Nat, NEW segment \in Nat,
           NEW h, h = NewHandle(restarts, pid, segment)
    PROVE  /\ h \in HandleType
           /\ h.pid = pid /\ h.segment = segment /\ h.out = {} /\ h.held = {}
           /\ h.free = Slots /\ h.slots = Slots /\ h.generation = restarts /\ h.restarts = restarts
BY PoolAssumption DEF NewHandle, HandleType, HandleState

LEMMA NewHandleOK ==
    ASSUME NEW restarts \in Nat, NEW pid \in Nat, NEW segment \in Nat,
           NEW h, h = NewHandle(restarts, pid, segment),
           NEW n \in Nat, NEW m \in Nat, NEW k \in Nat, pid <= n, segment <= k
    PROVE  HandleOK(h, n, m, k)
<1>1. /\ h \in HandleType
      /\ h.pid = pid /\ h.segment = segment /\ h.out = {} /\ h.held = {}
      /\ h.free = Slots /\ h.slots = Slots
  BY NewHandleIs
<1>2. IsFiniteSet({}) /\ Cardinality({}) = 0
  BY FS_EmptySet
<1> QED
  BY <1>1, <1>2, PoolAssumption DEF HandleOK

\* A fresh child.
LEMMA NewProcIs ==
    ASSUME NEW w \in Nat, NEW generation \in Nat
    PROVE  /\ NewProc(w, generation) \in ProcType
           /\ NewProc(w, generation).worker = w
           /\ NewProc(w, generation).generation = generation
<1>1. Event("handshake", 0) \in EventType
  BY DEF Event, EventType
<1>2. <<Event("handshake", 0)>> \in Seq(EventType) /\ <<>> \in Seq(MessageType)
  BY <1>1
<1> QED
  BY <1>2 DEF NewProc, ProcType

\* The elements of a concatenation, side by side.
LEMMA ConcatIs ==
    ASSUME NEW S, NEW s \in Seq(S), NEW t \in Seq(S), NEW u, u = s \o t
    PROVE  /\ u \in Seq(S) /\ Len(u) = Len(s) + Len(t)
           /\ \A i \in 1..Len(s) : u[i] = s[i]
           /\ \A i \in 1..Len(t) : u[Len(s) + i] = t[i]
<1>1. Len(s) \in Nat /\ Len(t) \in Nat
  BY LenProperties
<1>2. /\ u \in Seq(S) /\ Len(u) = Len(s) + Len(t)
      /\ \A i \in 1..(Len(s) + Len(t)) : u[i] = IF i <= Len(s) THEN s[i] ELSE t[i - Len(s)]
  BY ConcatProperties
<1>4. \A i \in 1..Len(s) : u[i] = s[i]
  BY <1>1, <1>2
<1>5. \A i \in 1..Len(t) : u[Len(s) + i] = t[i]
  <2> SUFFICES ASSUME NEW i \in 1..Len(t) PROVE u[Len(s) + i] = t[i]
    OBVIOUS
  <2>1. /\ Len(s) + i \in 1..(Len(s) + Len(t)) /\ ~(Len(s) + i <= Len(s))
        /\ (Len(s) + i) - Len(s) = i
    BY <1>1
  <2> QED
    BY <1>2, <2>1
<1> QED
  BY <1>2, <1>4, <1>5

\* The workers a growth adds: each has a child and a segment of its own.
LEMMA GrowIs ==
    ASSUME HandlesOK, ProcsOK, segments \in Nat, NEW n \in Nat, n > Len(handles), Grow(n)
    PROVE  \E made \in Nat :
             /\ handles' \in Seq(HandleType) /\ Len(handles') = Len(handles) + made
             /\ procs' \in Seq(ProcType) /\ Len(procs') = Len(procs) + made
             /\ segments' = segments + made
             /\ \A i \in 1..Len(handles) : handles'[i] = handles[i]
             /\ \A i \in 1..Len(procs) : procs'[i] = procs[i]
             /\ \A i \in 1..made :
                  /\ handles'[Len(handles) + i] = NewHandle(0, Len(procs) + i, segments + i)
                  /\ procs'[Len(procs) + i] = NewProc(Len(handles) + i - 1, 0)
<1> DEFINE size == Len(handles)
<1>0. Len(handles) \in Nat /\ Len(procs) \in Nat
  BY LenProperties DEF HandlesOK, ProcsOK
<1>1. PICK made \in 0..(n - size) :
        /\ handles' = handles \o [i \in 1..made |-> NewHandle(0, Len(procs) + i, segments + i)]
        /\ procs' = procs \o [i \in 1..made |-> NewProc(size + i - 1, 0)]
        /\ segments' = segments + made
  BY DEF Grow
<1>2. made \in Nat
  BY <1>0, <1>1
<1> DEFINE hs == [i \in 1..made |-> NewHandle(0, Len(procs) + i, segments + i)]
           ps == [i \in 1..made |-> NewProc(size + i - 1, 0)]
<1>3. \A i \in 1..made : NewHandle(0, Len(procs) + i, segments + i) \in HandleType
  <2> SUFFICES ASSUME NEW i \in 1..made, NEW h, h = NewHandle(0, Len(procs) + i, segments + i)
               PROVE  h \in HandleType
    OBVIOUS
  <2>1. 0 \in Nat /\ Len(procs) + i \in Nat /\ segments + i \in Nat
    BY <1>0, <1>2
  <2> QED
    BY <2>1, NewHandleIs
<1>4. \A i \in 1..made : NewProc(size + i - 1, 0) \in ProcType
  <2> SUFFICES ASSUME NEW i \in 1..made PROVE NewProc(size + i - 1, 0) \in ProcType
    OBVIOUS
  <2>1. size + i - 1 \in Nat
    BY <1>0, <1>2
  <2> QED
    BY <2>1, NewProcIs
<1>5. hs \in Seq(HandleType) /\ Len(hs) = made /\ ps \in Seq(ProcType) /\ Len(ps) = made
  BY <1>2, <1>3, <1>4, IsASeq
<1>6. handles' = handles \o hs /\ procs' = procs \o ps
  BY <1>1
<1>7. /\ \A i \in 1..made : hs[i] = NewHandle(0, Len(procs) + i, segments + i)
      /\ \A i \in 1..made : ps[i] = NewProc(size + i - 1, 0)
  OBVIOUS
<1> HIDE DEF hs, ps
<1>8. /\ handles' \in Seq(HandleType) /\ Len(handles') = Len(handles) + made
      /\ \A i \in 1..Len(handles) : handles'[i] = handles[i]
      /\ \A i \in 1..made : handles'[Len(handles) + i] = hs[i]
  <2>1. handles \in Seq(HandleType)
    BY DEF HandlesOK
  <2>2. hs \in Seq(HandleType) /\ handles' = handles \o hs
    BY <1>5, <1>6
  <2>3. handles' \in Seq(HandleType) /\ Len(handles') = Len(handles) + Len(hs)
    BY <2>1, <2>2, ConcatIs
  <2>4. \A i \in 1..Len(handles) : handles'[i] = handles[i]
    BY <2>1, <2>2, ConcatIs
  <2>5. \A i \in 1..Len(hs) : handles'[Len(handles) + i] = hs[i]
    BY <2>1, <2>2, ConcatIs
  <2> QED
    BY <1>5, <2>3, <2>4, <2>5
<1>9. /\ procs' \in Seq(ProcType) /\ Len(procs') = Len(procs) + made
      /\ \A i \in 1..Len(procs) : procs'[i] = procs[i]
      /\ \A i \in 1..made : procs'[Len(procs) + i] = ps[i]
  <2>1. procs \in Seq(ProcType)
    BY DEF ProcsOK
  <2>2. ps \in Seq(ProcType) /\ procs' = procs \o ps
    BY <1>5, <1>6
  <2>3. procs' \in Seq(ProcType) /\ Len(procs') = Len(procs) + Len(ps)
    BY <2>1, <2>2, ConcatIs
  <2>4. \A i \in 1..Len(procs) : procs'[i] = procs[i]
    BY <2>1, <2>2, ConcatIs
  <2>5. \A i \in 1..Len(ps) : procs'[Len(procs) + i] = ps[i]
    BY <2>1, <2>2, ConcatIs
  <2> QED
    BY <1>5, <2>3, <2>4, <2>5
<1> QED
  BY <1>1, <1>2, <1>7, <1>8, <1>9

Removed(w) == handles' = SubSeq(handles, 1, w) \o SubSeq(handles, w + 2, Len(handles))

\* A reaped worker leaves the vector.
LEMMA RemoveIs ==
    ASSUME HandlesOK, NEW w \in Workers, Removed(w)
    PROVE  /\ handles' \in Seq(HandleType) /\ Len(handles') = Len(handles) - 1
           /\ \A i \in 1..Len(handles) :
                i # w + 1 => \E j \in 1..Len(handles') : handles'[j] = handles[i]
           /\ \A j \in 1..Len(handles') : handles'[j] = handles[IF j <= w THEN j ELSE j + 1]
<1>1. w \in Nat /\ w + 1 \in 1..Len(handles) /\ Len(handles) \in Nat
  BY WorkerHandle, LenProperties DEF HandlesOK
<1> DEFINE a == SubSeq(handles, 1, w)
           b == SubSeq(handles, w + 2, Len(handles))
<1>2. a \in Seq(HandleType) /\ Len(a) = w /\ \A i \in 1..w : a[i] = handles[i]
  <2>1. \A i \in 1..w : handles[i] \in HandleType
    BY <1>1, ElementOfSeq DEF HandlesOK
  <2>2. /\ a \in Seq(HandleType) /\ Len(a) = IF 1 <= w THEN w - 1 + 1 ELSE 0
        /\ \A i \in 1..(w - 1 + 1) : a[i] = handles[1 + i - 1]
    BY <1>1, <2>1, SubSeqProperties
  <2> QED
    BY <1>1, <2>2
<1>3. /\ b \in Seq(HandleType) /\ Len(b) = Len(handles) - w - 1
      /\ \A i \in 1..(Len(handles) - w - 1) : b[i] = handles[w + 1 + i]
  <2>1. \A i \in (w + 2)..Len(handles) : handles[i] \in HandleType
    BY <1>1, ElementOfSeq DEF HandlesOK
  <2>2. /\ b \in Seq(HandleType)
        /\ Len(b) = IF w + 2 <= Len(handles) THEN Len(handles) - (w + 2) + 1 ELSE 0
        /\ \A i \in 1..(Len(handles) - (w + 2) + 1) : b[i] = handles[(w + 2) + i - 1]
    BY <1>1, <2>1, SubSeqProperties
  <2>3. Len(b) = Len(handles) - w - 1
    BY <1>1, <2>2
  <2>4. \A i \in 1..(Len(handles) - w - 1) : b[i] = handles[w + 1 + i]
    BY <1>1, <2>2
  <2> QED
    BY <2>2, <2>3, <2>4
<1>4. handles' = a \o b
  BY DEF Removed
<1> HIDE DEF a, b
<1>5. /\ handles' \in Seq(HandleType) /\ Len(handles') = Len(handles) - 1
      /\ \A j \in 1..w : handles'[j] = a[j]
      /\ \A j \in 1..(Len(handles) - w - 1) : handles'[w + j] = b[j]
  <2>0. a \in Seq(HandleType) /\ b \in Seq(HandleType)
    BY <1>2, <1>3
  <2>1. handles' \in Seq(HandleType) /\ Len(handles') = Len(a) + Len(b)
    BY <1>4, <2>0, ConcatIs
  <2>2. \A i \in 1..Len(a) : handles'[i] = a[i]
    BY <1>4, <2>0, ConcatIs
  <2>3. \A i \in 1..Len(b) : handles'[Len(a) + i] = b[i]
    BY <1>4, <2>0, ConcatIs
  <2>4. Len(a) + Len(b) = Len(handles) - 1
    BY <1>1, <1>2, <1>3
  <2> QED
    BY <1>2, <1>3, <2>1, <2>2, <2>3, <2>4
<1>6. \A j \in 1..(Len(handles) - 1) : handles'[j] = handles[IF j <= w THEN j ELSE j + 1]
  <2> SUFFICES ASSUME NEW j \in 1..(Len(handles) - 1) PROVE handles'[j] = handles[IF j <= w THEN j ELSE j + 1]
    OBVIOUS
  <2>1. CASE j <= w
    <3>1. j \in 1..w
      BY <1>1, <2>1
    <3> QED
      BY <1>2, <1>5, <2>1, <3>1
  <2>2. CASE ~(j <= w)
    <3>1. PICK k \in 1..(Len(handles) - w - 1) : j = w + k
      <4>1. j - w \in 1..(Len(handles) - w - 1) /\ j = w + (j - w)
        BY <1>1, <2>2
      <4> QED
        BY <4>1
    <3>2. w + 1 + k = j + 1
      BY <1>1, <3>1
    <3>3. handles'[j] = b[k] /\ b[k] = handles[w + 1 + k]
      BY <1>3, <1>5, <3>1
    <3> QED
      BY <2>2, <3>2, <3>3
  <2> QED
    BY <2>1, <2>2
<1>7. ASSUME NEW i \in 1..Len(handles), i # w + 1
      PROVE  \E j \in 1..Len(handles') : handles'[j] = handles[i]
  <2>1. CASE i <= w
    <3>1. i \in 1..(Len(handles) - 1)
      BY <1>1, <2>1
    <3>2. handles'[i] = handles[i]
      BY <1>6, <2>1, <3>1
    <3> QED
      BY <1>5, <3>1, <3>2
  <2>2. CASE i > w + 1
    <3>1. i - 1 \in 1..(Len(handles) - 1) /\ ~(i - 1 <= w) /\ (i - 1) + 1 = i
      BY <1>1, <2>2
    <3> QED
      BY <1>5, <1>6, <3>1
  <2>3. i <= w \/ i > w + 1
    BY <1>1, <1>7
  <2> QED
    BY <2>1, <2>2, <2>3
<1> QED
  BY <1>5, <1>6, <1>7

--------------------------------------------------------------------------------
(* Credit                                                                  *)

Credit(h) == h.free + Cardinality(h.out) + Cardinality(h.held)

SameChild(g, h) ==
    /\ g.pid = h.pid /\ g.generation = h.generation /\ g.restarts = h.restarts
    /\ g.segment = h.segment /\ g.slots = h.slots

HandleNow(h) == HandleOK(h, Len(procs), Len(posted), segments)

Recycled(w, t) ==
    handles' = [handles EXCEPT ![w + 1].out = @ \ {t}, ![w + 1].free = @ + 1]
Delivered(w, t) ==
    handles' = [handles EXCEPT ![w + 1].out = @ \ {t}, ![w + 1].held = @ \cup {t}]
Returned(w, t) ==
    handles' = [handles EXCEPT ![w + 1].held = @ \ {t}, ![w + 1].free = @ + 1]

\* The slot of an outstanding ticket goes back to the free ones.
LEMMA RecycledIs ==
    ASSUME HandlesOK, NEW w \in Workers, NEW t \in Handle(w).out, Recycled(w, t)
    PROVE  \E new \in HandleType :
             /\ HandleStep(w, new) /\ HandleNow(new) /\ SameChild(new, Handle(w))
             /\ new.out = Handle(w).out \ {t} /\ new.held = Handle(w).held
             /\ Credit(new) = Credit(Handle(w))
<1>1. PICK h \in HandleType : h = Handle(w) /\ HandleNow(h)
  BY WorkerHandle DEF HandleNow
<1> DEFINE x == h.out \ {t}
           y == h.free + 1
           new == [h EXCEPT !.out = x, !.free = y]
<1>2. handles' = [handles EXCEPT ![w + 1] = new]
  BY <1>1 DEF Handle, Recycled
<1>3. x \in SUBSET Nat /\ y \in Nat
  BY DEF HandleType
<1>4. IsFiniteSet(x) /\ Cardinality(x) = Cardinality(h.out) - 1
  BY <1>1, FS_RemoveElement DEF HandleNow, HandleOK
<1>5. Cardinality(h.out) \in Nat /\ Cardinality(h.held) \in Nat /\ h.free \in Nat
  BY <1>1, FS_CardinalityType DEF HandleNow, HandleOK, HandleType
<1>6. x \subseteq h.out /\ y = h.free + 1
  OBVIOUS
<1> HIDE DEF x, y
<1>7. /\ new \in HandleType /\ new.out = x /\ new.free = y /\ new.held = h.held
      /\ SameChild(new, h)
  BY <1>3 DEF HandleType, SameChild
<1> HIDE DEF new
<1>8. Credit(new) = Credit(h)
  BY <1>4, <1>5, <1>6, <1>7 DEF Credit
<1>9. HandleNow(new)
  BY <1>1, <1>4, <1>5, <1>6, <1>7, <1>8 DEF HandleNow, HandleOK, Credit, SameChild
<1>10. HandleStep(w, new)
  BY <1>2, <1>7, PutHandle
<1> QED
  BY <1>1, <1>7, <1>8, <1>9, <1>10 DEF x

\* The slot of an outstanding ticket goes to a consumer.
LEMMA DeliveredIs ==
    ASSUME HandlesOK, NEW w \in Workers, NEW t \in Handle(w).out, Delivered(w, t)
    PROVE  \E new \in HandleType :
             /\ HandleStep(w, new) /\ HandleNow(new) /\ SameChild(new, Handle(w))
             /\ new.out = Handle(w).out \ {t} /\ new.held = Handle(w).held \cup {t}
             /\ t \notin Handle(w).held => Credit(new) = Credit(Handle(w))
<1>1. PICK h \in HandleType : h = Handle(w) /\ HandleNow(h)
  BY WorkerHandle DEF HandleNow
<1> DEFINE x == h.out \ {t}
           y == h.held \cup {t}
           new == [h EXCEPT !.out = x, !.held = y]
<1>2. handles' = [handles EXCEPT ![w + 1] = new]
  BY <1>1 DEF Handle, Delivered
<1>3. x \in SUBSET Nat /\ y \in SUBSET Nat
  BY <1>1 DEF HandleType
<1>4. IsFiniteSet(x) /\ Cardinality(x) = Cardinality(h.out) - 1
  BY <1>1, FS_RemoveElement DEF HandleNow, HandleOK
<1>5. /\ IsFiniteSet(y)
      /\ Cardinality(y) = IF t \in h.held THEN Cardinality(h.held) ELSE Cardinality(h.held) + 1
  BY <1>1, FS_AddElement DEF HandleNow, HandleOK
<1>6. Cardinality(h.out) \in Nat /\ Cardinality(h.held) \in Nat /\ h.free \in Nat /\ h.slots \in Nat
  BY <1>1, FS_CardinalityType DEF HandleNow, HandleOK, HandleType
<1>7. x \subseteq h.out /\ y \subseteq h.out \cup h.held
  BY <1>1
<1> HIDE DEF x, y
<1>8. /\ new \in HandleType /\ new.out = x /\ new.held = y /\ new.free = h.free
      /\ SameChild(new, h)
  BY <1>3 DEF HandleType, SameChild
<1> HIDE DEF new
<1>9. (t \notin h.held => Credit(new) = Credit(h)) /\ Credit(new) <= Credit(h)
  BY <1>4, <1>5, <1>6, <1>8 DEF Credit
<1>10. Credit(h) <= h.slots /\ Credit(h) \in Int /\ Credit(new) \in Int
  BY <1>1, <1>4, <1>5, <1>6, <1>8 DEF Credit, HandleNow, HandleOK
<1>11. Credit(new) <= new.slots
  BY <1>6, <1>8, <1>9, <1>10 DEF SameChild
<1>12. HandleNow(new)
  BY <1>1, <1>4, <1>5, <1>7, <1>8, <1>11 DEF HandleNow, HandleOK, Credit, SameChild
<1>13. HandleStep(w, new)
  BY <1>2, <1>8, PutHandle
<1> QED
  BY <1>1, <1>8, <1>9, <1>12, <1>13 DEF x, y

\* A consumer gives its slot back.
LEMMA ReturnedIs ==
    ASSUME HandlesOK, NEW w \in Workers, NEW t \in Handle(w).held, Returned(w, t)
    PROVE  \E new \in HandleType :
             /\ HandleStep(w, new) /\ HandleNow(new) /\ SameChild(new, Handle(w))
             /\ new.out = Handle(w).out /\ new.held = Handle(w).held \ {t}
             /\ Credit(new) = Credit(Handle(w))
<1>1. PICK h \in HandleType : h = Handle(w) /\ HandleNow(h)
  BY WorkerHandle DEF HandleNow
<1> DEFINE x == h.held \ {t}
           y == h.free + 1
           new == [h EXCEPT !.held = x, !.free = y]
<1>2. handles' = [handles EXCEPT ![w + 1] = new]
  BY <1>1 DEF Handle, Returned
<1>3. x \in SUBSET Nat /\ y \in Nat
  BY DEF HandleType
<1>4. IsFiniteSet(x) /\ Cardinality(x) = Cardinality(h.held) - 1
  BY <1>1, FS_RemoveElement DEF HandleNow, HandleOK
<1>5. Cardinality(h.out) \in Nat /\ Cardinality(h.held) \in Nat /\ h.free \in Nat
  BY <1>1, FS_CardinalityType DEF HandleNow, HandleOK, HandleType
<1>6. x \subseteq h.held /\ y = h.free + 1
  OBVIOUS
<1> HIDE DEF x, y
<1>7. /\ new \in HandleType /\ new.held = x /\ new.free = y /\ new.out = h.out
      /\ SameChild(new, h)
  BY <1>3 DEF HandleType, SameChild
<1> HIDE DEF new
<1>8. Credit(new) = Credit(h)
  BY <1>4, <1>5, <1>6, <1>7 DEF Credit
<1>9. HandleNow(new)
  BY <1>1, <1>4, <1>5, <1>6, <1>7, <1>8 DEF HandleNow, HandleOK, Credit, SameChild
<1>10. HandleStep(w, new)
  BY <1>2, <1>7, PutHandle
<1> QED
  BY <1>1, <1>7, <1>8, <1>9, <1>10 DEF x

\* A worker that is given up, or whose replacement could not be spawned, has
\* neither child nor frames.
Emptied(w) ==
    \E new \in HandleType :
       /\ HandleStep(w, new) /\ HandleNow(new)
       /\ new.pid = 0 /\ new.out = {} /\ new.held = {}
       /\ new.segment = Handle(w).segment
       /\ new.generation = Handle(w).generation /\ new.restarts = Handle(w).restarts + 1

LEMMA EmptiedOK ==
    ASSUME NEW h \in HandleType, HandleNow(h), NEW g \in HandleType, g.pid = 0, g.out = {}, g.held = {},
           g.segment = h.segment, g.free = h.free, g.slots = h.slots, ProcsOK
    PROVE  HandleNow(g)
<1>1. IsFiniteSet({}) /\ Cardinality({}) = 0
  BY FS_EmptySet
<1>2. Cardinality(h.out) \in Nat /\ Cardinality(h.held) \in Nat /\ h.free \in Nat /\ h.slots \in Nat
  BY FS_CardinalityType DEF HandleNow, HandleOK, HandleType
<1>3. g.free + Cardinality(g.out) + Cardinality(g.held) <= g.slots
  BY <1>1, <1>2 DEF HandleNow, HandleOK
<1>4. 0 <= Len(procs)
  BY LenProperties DEF ProcsOK
<1> QED
  BY <1>1, <1>3, <1>4 DEF HandleNow, HandleOK

LEMMA GiveUpIs ==
    ASSUME HandlesOK, ProcsOK, NEW w \in Workers, GiveUp(w)
    PROVE  Emptied(w)
<1>1. PICK h \in HandleType : h = Handle(w) /\ HandleNow(h)
  BY WorkerHandle DEF HandleNow
<1> DEFINE y == h.restarts + 1
           new == [h EXCEPT !.state = "PermanentlyDead", !.restarts = y, !.pid = 0, !.out = {}, !.held = {}]
<1>2. handles' = [handles EXCEPT ![w + 1] = new]
  BY <1>1 DEF Handle, GiveUp
<1>3. y \in Nat /\ y = h.restarts + 1
  BY DEF HandleType
<1> HIDE DEF y
<1>4. /\ new \in HandleType /\ new.pid = 0 /\ new.out = {} /\ new.held = {} /\ new.restarts = y
      /\ new.segment = h.segment /\ new.generation = h.generation
      /\ new.free = h.free /\ new.slots = h.slots
  BY <1>3 DEF HandleType, HandleState
<1> HIDE DEF new
<1>5. HandleNow(new)
  BY <1>1, <1>4, EmptiedOK
<1>6. HandleStep(w, new)
  BY <1>2, <1>4, PutHandle
<1> QED
  BY <1>1, <1>3, <1>4, <1>5, <1>6 DEF Emptied

LEMMA RespawnFailsIs ==
    ASSUME HandlesOK, ProcsOK, NEW w \in Workers, RespawnFails(w)
    PROVE  Emptied(w)
<1>1. PICK h \in HandleType : h = Handle(w) /\ HandleNow(h)
  BY WorkerHandle DEF HandleNow
<1> DEFINE y == h.restarts + 1
           new == [h EXCEPT !.restarts = y, !.pid = 0, !.out = {}, !.held = {}, !.state = "Dead"]
<1>2. handles' = [handles EXCEPT ![w + 1] = new]
  BY <1>1 DEF Handle, RespawnFails
<1>3. y \in Nat /\ y = h.restarts + 1
  BY DEF HandleType
<1> HIDE DEF y
<1>4. /\ new \in HandleType /\ new.pid = 0 /\ new.out = {} /\ new.held = {} /\ new.restarts = y
      /\ new.segment = h.segment /\ new.generation = h.generation
      /\ new.free = h.free /\ new.slots = h.slots
  BY <1>3 DEF HandleType, HandleState
<1> HIDE DEF new
<1>5. HandleNow(new)
  BY <1>1, <1>4, EmptiedOK
<1>6. HandleStep(w, new)
  BY <1>2, <1>4, PutHandle
<1> QED
  BY <1>1, <1>3, <1>4, <1>5, <1>6 DEF Emptied

\* A growth of the segment needs a worker without outstanding frames.
LEMMA GrowthIs ==
    ASSUME SchedOK, HandlesOK, NEW w \in Workers, Growth(w) > 0
    PROVE  Growth(w) \in Nat /\ Handle(w).out = {}
<1>1. Handle(w).bytes \in Nat
  BY WorkerHandle DEF HandleType
<1>2. NeededBytes(w, Handle(w).bytes) \in Nat
  BY <1>1, NeededIs
<1> QED
  BY <1>2 DEF Growth

\* A grown segment starts with all slots free, and the frames that consumers still
\* have stay in the old one.
LEMMA RebuildIs ==
    ASSUME SchedOK, HandlesOK, segments \in Nat, NEW w \in Workers, RebuildSegment(w)
    PROVE  \E new \in HandleType :
             /\ HandleStep(w, new) /\ HandleOK(new, Len(procs), Len(posted), segments + 1)
             /\ new.pid = Handle(w).pid /\ new.generation = Handle(w).generation
             /\ new.restarts = Handle(w).restarts
             /\ new.segment = segments + 1 /\ Handle(w).out = {} /\ new.out = {} /\ new.held = {}
             /\ new.free = new.slots
<1>1. PICK h \in HandleType : h = Handle(w) /\ HandleNow(h)
  BY WorkerHandle DEF HandleNow
<1>2. Growth(w) \in Nat /\ Growth(w) > 0 /\ h.out = {}
  BY <1>1, GrowthIs DEF RebuildSegment
<1> DEFINE g == Growth(w)
           s == SlotsForBytes(g, h.slots)
           st == IF Up(h.pid) THEN h.state ELSE "Dead"
           k == segments + 1
           new == [h EXCEPT !.segment = k, !.bytes = g, !.slots = s, !.free = s, !.held = {},
                            !.reconfiguring = TRUE, !.state = st]
<1>3. handles' = [handles EXCEPT ![w + 1] = new]
  BY <1>1 DEF RebuildSegment
<1>4. s \in Nat /\ g \in Nat /\ st \in HandleState /\ k \in Nat
  BY <1>2, SlotsForBytesIs DEF HandleType, HandleState
<1> HIDE DEF g, s, st
<1>5. /\ new \in HandleType /\ new.segment = k /\ new.slots = s /\ new.free = s /\ new.held = {}
      /\ new.pid = h.pid /\ new.generation = h.generation /\ new.restarts = h.restarts /\ new.out = h.out
  BY <1>4 DEF HandleType
<1> HIDE DEF new
<1>6. IsFiniteSet({}) /\ Cardinality({}) = 0
  BY FS_EmptySet
<1>7. HandleOK(new, Len(procs), Len(posted), segments + 1)
  BY <1>1, <1>2, <1>4, <1>5, <1>6 DEF HandleNow, HandleOK
<1>8. HandleStep(w, new)
  BY <1>3, <1>5, PutHandle
<1> QED
  BY <1>1, <1>2, <1>5, <1>7, <1>8

\* The tickets of a batch, and the handle that gets them.  Nothing is counted twice
\* when the tickets differ and none of them is outstanding already.
LEMMA DispatchIs ==
    ASSUME SchedOK, HandlesOK, NEW w \in Workers, DispatchBatch(w)
    PROVE  \E batch \in SUBSET pending, new \in HandleType :
             /\ ClaimBatch(w, batch)
             /\ HandleStep(w, new) /\ HandleNow(new) /\ SameChild(new, Handle(w))
             /\ new.out = Handle(w).out \cup {e.request.payload : e \in batch}
             /\ new.held = Handle(w).held
             /\ Handle(w).state = "Alive"
             /\ (\A e, f \in batch : e.request.payload = f.request.payload => e = f)
                  /\ (\A e \in batch : e.request.payload \notin Handle(w).out)
                  => Credit(new) = Credit(Handle(w))
<1>1. PICK h \in HandleType : h = Handle(w) /\ HandleNow(h)
  BY WorkerHandle DEF HandleNow
<1>2. PICK batch \in Batches(w, h.free, h.bytes) :
        /\ ClaimBatch(w, batch)
        /\ handles' = [handles EXCEPT ![w + 1].out = @ \cup {e.request.payload : e \in batch},
                                      ![w + 1].free = @ - Cardinality(batch),
                                      ![w + 1].state = IF Up(h.pid) THEN @ ELSE "Dead"]
  <2>1. PICK batch \in Batches(w, Handle(w).free, Handle(w).bytes) :
          /\ ClaimBatch(w, batch)
          /\ handles' = [handles EXCEPT ![w + 1].out = @ \cup {e.request.payload : e \in batch},
                                        ![w + 1].free = @ - Cardinality(batch),
                                        ![w + 1].state = IF Up(Handle(w).pid) THEN @ ELSE "Dead"]
    BY Zenon DEF DispatchBatch
  <2> QED
    BY <1>1, <2>1
<1> DEFINE sent == {e.request.payload : e \in batch}
           x == h.out \cup sent
           y == h.free - Cardinality(batch)
           st == IF Up(h.pid) THEN h.state ELSE "Dead"
           new == [h EXCEPT !.out = x, !.free = y, !.state = st]
<1>3. handles' = [handles EXCEPT ![w + 1] = new]
  BY <1>1, <1>2 DEF Handle
<1>4. h.free \in Nat /\ h.slots \in Nat /\ h.state \in HandleState
  BY DEF HandleType
<1>5. batch \subseteq pending /\ IsFiniteSet(batch) /\ Cardinality(batch) <= h.free
  BY <1>4, BatchIs
<1>6. sent \subseteq 1..Len(posted) /\ sent \subseteq Nat
  <2>1. \A e \in batch : e.request.payload \in 1..Len(posted)
    BY <1>5 DEF SchedOK
  <2> QED
    BY <2>1
<1>7. /\ IsFiniteSet(sent) /\ Cardinality(sent) <= Cardinality(batch)
      /\ (\A e, f \in batch : e.request.payload = f.request.payload => e = f)
           => Cardinality(sent) = Cardinality(batch)
  <2> DEFINE f == [e \in batch |-> e.request.payload]
  <2>1. f \in [batch -> sent] /\ \A t \in sent : \E e \in batch : f[e] = t
    OBVIOUS
  <2>2. \A e \in batch : f[e] = e.request.payload
    OBVIOUS
  <2> HIDE DEF f, sent
  <2>3. /\ IsFiniteSet(sent) /\ Cardinality(sent) <= Cardinality(batch)
        /\ (\A r, s \in batch : f[r] = f[s] => r = s) => Cardinality(sent) = Cardinality(batch)
    BY <1>5, <2>1, ImageOf
  <2> QED
    BY <2>2, <2>3
<1>8. (\A e \in batch : e.request.payload \notin h.out) => h.out \cap sent = {}
  OBVIOUS
<1> HIDE DEF sent
<1>9. IsFiniteSet(h.out) /\ IsFiniteSet(h.held) /\ Cardinality(h.out) \in Nat /\ Cardinality(h.held) \in Nat
  BY <1>1, FS_CardinalityType DEF HandleNow, HandleOK
<1>10. Cardinality(sent) \in Nat /\ Cardinality(batch) \in Nat
  BY <1>5, <1>7, FS_CardinalityType
<1>11. /\ IsFiniteSet(x) /\ IsFiniteSet(h.out \cap sent)
       /\ Cardinality(x) = Cardinality(h.out) + Cardinality(sent) - Cardinality(h.out \cap sent)
  BY <1>7, <1>9, FS_Union, FS_Intersection
<1>12. Cardinality(h.out \cap sent) \in Nat /\ (h.out \cap sent = {} => Cardinality(h.out \cap sent) = 0)
  BY <1>11, FS_CardinalityType, FS_EmptySet
<1>13. x \in SUBSET Nat /\ y \in Nat /\ st \in HandleState
  <2>1. x \in SUBSET Nat
    BY <1>6 DEF HandleType
  <2>2. y \in Nat
    BY <1>4, <1>5, <1>10
  <2>3. st \in HandleState
    BY <1>4 DEF HandleState
  <2> QED
    BY <2>1, <2>2, <2>3
<1>14. x = h.out \cup sent /\ y = h.free - Cardinality(batch)
  OBVIOUS
<1> HIDE DEF x, y, st
<1>15. /\ new \in HandleType /\ new.out = x /\ new.free = y /\ new.held = h.held
       /\ SameChild(new, h)
  BY <1>13 DEF HandleType, SameChild
<1> HIDE DEF new
<1>16. /\ Credit(new) <= Credit(h) /\ Credit(h) \in Int /\ Credit(new) \in Int
       /\ Cardinality(sent) = Cardinality(batch) /\ h.out \cap sent = {} => Credit(new) = Credit(h)
  BY <1>4, <1>7, <1>9, <1>10, <1>11, <1>12, <1>14, <1>15 DEF Credit
<1>17. Credit(new) <= new.slots
  BY <1>1, <1>4, <1>15, <1>16 DEF Credit, HandleNow, HandleOK, SameChild
<1>18. x \subseteq 1..Len(posted)
  BY <1>1, <1>6, <1>14 DEF HandleNow, HandleOK
<1>19. HandleNow(new)
  BY <1>1, <1>9, <1>11, <1>15, <1>17, <1>18 DEF HandleNow, HandleOK, Credit, SameChild
<1>20. HandleStep(w, new)
  BY <1>3, <1>15, PutHandle
<1>21. h.state = "Alive"
  BY <1>1 DEF DispatchBatch, Reached, HasWork, MayDispatch
<1>22. new.out = h.out \cup {e.request.payload : e \in batch}
  BY <1>14, <1>15 DEF sent
<1> QED
  BY <1>1, <1>2, <1>5, <1>7, <1>8, <1>15, <1>16, <1>19, <1>20, <1>21, <1>22

--------------------------------------------------------------------------------
(* How the parts of the invariant are kept                                 *)

\* A running child keeps its handle, or is told to exit, or stops.
LEMMA ChildrenKept ==
    ASSUME ChildrenOK, Calmer(procs, procs'),
           \A i \in 1..Len(handles) : handles[i].pid \in 1..Len(procs) =>
               \/ \E j \in 1..Len(handles') : handles'[j].pid = handles[i].pid
               \/ ~procs'[handles[i].pid].up
               \/ Told(procs', handles[i].pid)
    PROVE  ChildrenOK'
<1> SUFFICES ASSUME NEW p \in 1..Len(procs), procs'[p].up
             PROVE  (\E j \in 1..Len(handles') : handles'[j].pid = p) \/ Told(procs', p)
  BY DEF ChildrenOK, Calmer
<1>1. procs[p].up /\ (Told(procs, p) => Told(procs', p))
  BY DEF Calmer
<1>2. (\E i \in 1..Len(handles) : handles[i].pid = p) \/ Told(procs, p)
  BY <1>1 DEF ChildrenOK
<1> QED
  BY <1>1, <1>2

\* Requests only leave the scheduler.
LEMMA SchedShrinks ==
    ASSUME SchedOK, pending' \subseteq pending, claimed' \subseteq claimed,
           UNCHANGED <<workers, batch_size>>, Len(posted) \in Nat, Len(posted') \in Nat,
           Len(posted) <= Len(posted')
    PROVE  SchedOK'
<1>1. IsFiniteSet(pending') /\ IsFiniteSet(claimed')
  BY FS_Subset DEF SchedOK
<1>2. SchedTypeOK'
  BY DEF SchedOK, SchedTypeOK
<1>3. 1..Len(posted) \subseteq 1..Len(posted')
  OBVIOUS
<1> QED
  BY <1>1, <1>2, <1>3 DEF SchedOK

\* The claims of a worker return to the queue.
LEMMA CrashKeepsSched ==
    ASSUME SchedOK, NEW w, WorkerCrashed(w), UNCHANGED posted
    PROVE  SchedOK'
<1> DEFINE back == {[request |-> c.request, any_worker |-> TRUE] : c \in ClaimsOf(w)}
<1>1. ClaimsOf(w) \subseteq claimed
  BY DEF ClaimsOf
<1>2. IsFiniteSet(ClaimsOf(w))
  BY <1>1, FS_Subset DEF SchedOK
<1>3. IsFiniteSet(back)
  <2> DEFINE f == [c \in ClaimsOf(w) |-> [request |-> c.request, any_worker |-> TRUE]]
  <2>1. f \in [ClaimsOf(w) -> back] /\ \A t \in back : \E c \in ClaimsOf(w) : f[c] = t
    OBVIOUS
  <2> HIDE DEF f, back
  <2> QED
    BY <1>2, <2>1, ImageOf
<1>4. back \subseteq PendingEntry /\ \A e \in back : e.request.payload \in 1..Len(posted)
  <2> SUFFICES ASSUME NEW c \in ClaimsOf(w)
               PROVE  LET e == [request |-> c.request, any_worker |-> TRUE]
                      IN  e \in PendingEntry /\ e.request.payload \in 1..Len(posted)
    OBVIOUS
  <2> QED
    BY <1>1 DEF SchedOK, SchedTypeOK, Claim, PendingEntry
<1>5. pending' = pending \cup back /\ claimed' \subseteq claimed /\ UNCHANGED <<workers, batch_size>>
  BY DEF WorkerCrashed
<1> HIDE DEF back
<1>6. IsFiniteSet(pending') /\ IsFiniteSet(claimed')
  BY <1>3, <1>5, FS_Union, FS_Subset DEF SchedOK
<1>7. SchedTypeOK'
  BY <1>4, <1>5 DEF SchedOK, SchedTypeOK
<1> QED
  BY <1>4, <1>5, <1>6, <1>7 DEF SchedOK

\* A batch moves from the queue to the claims.
LEMMA ClaimKeepsSched ==
    ASSUME SchedOK, NEW w \in Nat, NEW batch \in SUBSET pending, ClaimBatch(w, batch), UNCHANGED posted
    PROVE  SchedOK'
<1> DEFINE new == {[worker |-> w, request |-> e.request] : e \in batch}
<1>1. IsFiniteSet(batch)
  BY FS_Subset DEF SchedOK
<1>2. IsFiniteSet(new)
  <2> DEFINE f == [e \in batch |-> [worker |-> w, request |-> e.request]]
  <2>1. f \in [batch -> new] /\ \A t \in new : \E e \in batch : f[e] = t
    OBVIOUS
  <2> HIDE DEF f, new
  <2> QED
    BY <1>1, <2>1, ImageOf
<1>3. new \subseteq Claim /\ \A c \in new : c.request.payload \in 1..Len(posted)
  <2> SUFFICES ASSUME NEW e \in batch
               PROVE  LET c == [worker |-> w, request |-> e.request]
                      IN  c \in Claim /\ c.request.payload \in 1..Len(posted)
    OBVIOUS
  <2> QED
    BY DEF SchedOK, SchedTypeOK, Claim, PendingEntry
<1>4. /\ pending' \subseteq pending /\ claimed' \subseteq claimed \cup new
      /\ UNCHANGED <<workers, batch_size>>
  BY DEF ClaimBatch
<1> HIDE DEF new
<1>5. IsFiniteSet(pending') /\ IsFiniteSet(claimed')
  BY <1>2, <1>4, FS_Union, FS_Subset DEF SchedOK
<1>6. SchedTypeOK'
  BY <1>3, <1>4 DEF SchedOK, SchedTypeOK
<1> QED
  BY <1>3, <1>4, <1>5, <1>6 DEF SchedOK

\* A resize of the scheduler.
LEMMA ResizeKeepsSched ==
    ASSUME SchedOK, NEW n \in Nat, SetWorkerCount(n), UNCHANGED posted
    PROVE  SchedOK'
<1>1. workers' \in Nat \ {0}
  BY DEF SetWorkerCount, AtLeastOne
<1>2. WindowFrames \div workers' \in Int
  BY <1>1, SchedulerAssumption
<1>3. AtLeastOne(WindowFrames \div workers') \in Nat \ {0}
  BY <1>2 DEF AtLeastOne
<1>4. AtLeastOne(batch_size) \in Nat \ {0} /\ batch_size \in Nat \ {0}
  BY DEF AtLeastOne, SchedOK, SchedTypeOK
<1>5. Smaller(AtLeastOne(WindowFrames \div workers'), AtLeastOne(batch_size)) \in Nat \ {0}
  BY <1>3, <1>4 DEF Smaller
<1>6. batch_size' \in Nat \ {0} /\ UNCHANGED <<pending, claimed>>
  BY <1>4, <1>5 DEF SetWorkerCount
<1> QED
  BY <1>1, <1>6 DEF SchedOK, SchedTypeOK

\* Completing tickets.
LEMMA CompleteKeeps ==
    ASSUME TicketsOK, NEW ids, NEW result \in Answer \ {"open"}, Complete(ids, result), UNCHANGED posted,
           \A ref \in refs' : ref.ticket \in 1..Len(posted), segments' \in Nat, next_target' \in Nat
    PROVE  TicketsOK' /\ tickets' \subseteq tickets
<1>1. DOMAIN answer = 1..Len(posted)
  BY DEF TicketsOK
<1>2. tickets' = tickets \ ids
  BY DEF Complete
<1>3. answer' = [t \in 1..Len(posted) |-> IF t \in ids \cap tickets THEN result ELSE answer[t]]
  BY <1>1 DEF Complete
<1>4. answer' \in [1..Len(posted) -> Answer]
  BY <1>3 DEF TicketsOK
<1>5. ASSUME NEW t \in 1..Len(posted), answer'[t] = "open" PROVE t \in tickets'
  BY <1>2, <1>3, <1>5 DEF TicketsOK
<1> QED
  BY <1>2, <1>4, <1>5 DEF TicketsOK

\* The tickets stay as they are.
LEMMA TicketsKept ==
    ASSUME TicketsOK, UNCHANGED <<posted, tickets, answer>>,
           \A ref \in refs' : ref.ticket \in 1..Len(posted), segments' \in Nat, next_target' \in Nat
    PROVE  TicketsOK' /\ tickets' \subseteq tickets
BY DEF TicketsOK

\* Shutdown is over only once.
LEMMA DownKept ==
    ASSUME DownOK, UNCHANGED shutting,
           pump.at # "idle" \/ shutting = "no" \/ shutting = "draining"
             \/ (tickets' \subseteq tickets /\ UNCHANGED pump)
    PROVE  DownOK'
BY DEF DownOK

\* A step that leaves the scheduler, the tickets and every handle's child and credit.
LEMMA QuietKeeps ==
    ASSUME Inv, CreditKept, Calmer(procs, procs'), UNCHANGED <<schedVars, ticketVars, segments>>,
           next_target' \in Nat, DownOK'
    PROVE  Inv'
<1> USE DEF Inv
<1>1. Len(posted) \in Nat /\ Len(procs) \in Nat /\ segments \in Nat /\ Len(procs') = Len(procs)
  BY LenProperties DEF TicketsOK, ProcsOK, Calmer
<1>2. SchedOK'
  BY <1>1, SchedShrinks DEF schedVars, ticketVars
<1>3. TicketsOK'
  <2>1. \A ref \in refs' : ref.ticket \in 1..Len(posted)
    BY DEF ticketVars, TicketsOK
  <2> QED
    BY <1>1, <2>1, TicketsKept DEF ticketVars
<1>4. HandlesOK'
  BY <1>1, CreditKeeps DEF Grows, ticketVars
<1>5. ProcsOK'
  BY DEF ProcsOK, Calmer
<1>6. ChildrenOK'
  <2>1. \A i \in 1..Len(handles) : \E j \in 1..Len(handles') : handles'[j].pid = handles[i].pid
    BY DEF CreditKept
  <2> QED
    BY <2>1, ChildrenKept
<1> QED
  BY <1>2, <1>3, <1>4, <1>5, <1>6

--------------------------------------------------------------------------------
(* Steps that leave scheduler, tickets and credit                          *)

\* Some children are told to exit.
TellExit(S) ==
    procs' = [p \in DOMAIN procs |-> IF p \in S THEN [procs[p] EXCEPT !.inbox = Append(@, Message("shutdown", {}))]
                                     ELSE procs[p]]

LEMMA TellExitIs ==
    ASSUME ProcsOK, NEW S, TellExit(S)
    PROVE  Calmer(procs, procs')
<1> DEFINE m == Message("shutdown", {})
           new(p) == IF p \in S THEN Send(procs, p, m)[p] ELSE procs[p]
<1>1. Len(procs) \in Nat /\ DOMAIN procs = 1..Len(procs)
  BY LenProperties DEF ProcsOK
<1>2. m \in MessageType
  BY DEF Message, MessageType
<1> HIDE DEF m
<1>3. ASSUME NEW p \in 1..Len(procs)
      PROVE  /\ new(p) \in ProcType /\ new(p).worker = procs[p].worker
             /\ new(p).generation = procs[p].generation /\ (new(p).up => procs[p].up)
             /\ Told(procs, p) => \E i \in 1..Len(new(p).inbox) : new(p).inbox[i].type = "shutdown"
  <2>1. Calmer(procs, Send(procs, p, m))
    BY <1>2, SendIs DEF ProcsOK
  <2>2. Send(procs, p, m)[p] \in ProcType
    BY <2>1, ElementOfSeq DEF Calmer
  <2>3. procs[p] \in ProcType
    BY ElementOfSeq DEF ProcsOK
  <2>4. CASE p \in S
    BY <2>1, <2>2, <2>4 DEF Calmer, Told
  <2>5. CASE p \notin S
    BY <2>3, <2>5 DEF Told
  <2> QED
    BY <2>4, <2>5
<1>4. procs' = [p \in 1..Len(procs) |-> new(p)]
  <2>1. \A p \in 1..Len(procs) : Send(procs, p, m)[p] = [procs[p] EXCEPT !.inbox = Append(@, m)]
    BY <1>1 DEF Send
  <2> QED
    BY <1>1, <2>1 DEF TellExit, m
<1> HIDE DEF new
<1>5. procs' \in Seq(ProcType)
  <2>1. \A p \in 1..Len(procs) : new(p) \in ProcType
    BY <1>3
  <2> QED
    BY <1>1, <1>4, <2>1, IsASeq
<1>6. Len(procs') = Len(procs) /\ \A p \in 1..Len(procs) : procs'[p] = new(p)
  BY <1>1, <1>4, <1>5
<1> QED
  BY <1>3, <1>5, <1>6 DEF Calmer, Told

\* The phases of the pump that only move it on, and the calls that only start it.
LEMMA PhaseKeeps ==
    ASSUME Inv, Poll \/ StalePoll \/ DrainEnd \/ RestartsDone \/ PumpEnd \/ ShutdownPump
                  \/ (\E w \in Workers : RebuildFails(w))
    PROVE  Inv'
<1>1. UNCHANGED <<schedVars, poolVars, ticketVars, resizeVars, shutting>>
  BY DEF Poll, StalePoll, DrainEnd, RestartsDone, PumpEnd, ShutdownPump, RebuildFails, vars
<1>2. DownOK'
  <2>1. CASE StalePoll
    BY <2>1, DownKept DEF Inv, StalePoll, vars, ticketVars
  <2>2. CASE Poll \/ ShutdownPump
    BY <1>1, <2>2, DownKept DEF Inv, Poll, ShutdownPump
  <2>3. CASE DrainEnd \/ RestartsDone \/ PumpEnd \/ (\E w \in Workers : RebuildFails(w))
    <3>1. pump.at # "idle"
      BY <2>3 DEF DrainEnd, RestartsDone, PumpEnd, RebuildFails, Reached
    <3> QED
      BY <1>1, <3>1, DownKept DEF Inv
  <2> QED
    BY <2>1, <2>2, <2>3
<1>3. CreditKept /\ Calmer(procs, procs')
  BY <1>1, CreditUnchanged, CalmerOrder DEF Inv, poolVars, ProcsOK
<1> QED
  BY <1>1, <1>2, <1>3, QuietKeeps DEF Inv, TicketsOK, poolVars, resizeVars

\* An event of a child: the child and the handle it is for.
LEMMA EventFor ==
    ASSUME Inv, NEW p \in DOMAIN procs, NEW type, HasEvent(p, type)
    PROVE  /\ p \in 1..Len(procs) /\ procs[p].pipe # <<>> /\ Calmer(procs, Taken(p))
           /\ Taken(p) \in Seq(ProcType) /\ Len(Taken(p)) = Len(procs)
           /\ pump.at # "idle"
           /\ ForHandle(p) => procs[p].worker \in Workers
<1>1. p \in 1..Len(procs)
  BY LenProperties DEF Inv, ProcsOK
<1>2. procs[p].pipe # <<>> /\ pump.at # "idle"
  BY DEF HasEvent
<1>3. Calmer(procs, Taken(p))
  BY <1>1, <1>2, TakenIs DEF Inv
<1> QED
  BY <1>1, <1>2, <1>3 DEF Calmer, ForHandle

LEMMA DropKeeps == ASSUME Inv, NEW p \in DOMAIN procs, DropEvent(p) PROVE Inv'
<1>1. p \in 1..Len(procs)
  BY LenProperties DEF Inv, ProcsOK
<1>2. procs[p].pipe # <<>> /\ pump.at # "idle" /\ procs' = Taken(p)
      /\ UNCHANGED <<schedVars, handles, segments, ticketVars, shutting, resizeVars>>
  BY DEF DropEvent
<1>3. Calmer(procs, procs')
  BY <1>1, <1>2, TakenIs DEF Inv
<1>4. DownOK'
  BY <1>2, DownKept DEF Inv
<1>5. CreditKept
  BY <1>2, CreditUnchanged DEF Inv
<1> QED
  BY <1>2, <1>3, <1>4, <1>5, QuietKeeps DEF Inv, TicketsOK, resizeVars

LEMMA OnHandshakeQuiet ==
    ASSUME Inv, NEW p \in DOMAIN procs, OnHandshake(p)
    PROVE  /\ CreditKept /\ Calmer(procs, procs') /\ pump.at # "idle"
           /\ UNCHANGED <<schedVars, segments, ticketVars, shutting, resizeVars>>
<1> DEFINE w == procs[p].worker
           pid == Handle(w).pid
<1>1. /\ HasEvent(p, "handshake") /\ ForHandle(p)
      /\ UNCHANGED <<schedVars, segments, ticketVars, shutting, resizeVars>>
  BY DEF OnHandshake
<1>2. /\ Calmer(procs, Taken(p)) /\ Taken(p) \in Seq(ProcType) /\ Len(Taken(p)) = Len(procs)
      /\ pump.at # "idle" /\ w \in Workers
  BY <1>1, EventFor
<1>3. CreditKept /\ Calmer(procs, procs')
  <2>1. CASE Up(pid)
    <3>1. procs' = Send(Taken(p), pid, Message("handshake", {})) /\ UNCHANGED handles
      BY <2>1 DEF OnHandshake
    <3>2. pid \in 1..Len(procs)
      BY <1>2, <2>1, WorkerHandle DEF Inv, Up, HandleOK, HandleType
    <3>3. Message("handshake", {}) \in MessageType
      BY DEF Message, MessageType
    <3>4. Calmer(Taken(p), procs')
      BY <1>2, <3>1, <3>2, <3>3, SendIs
    <3>5. Calmer(procs, procs')
      BY <1>2, <3>4, CalmerOrder
    <3> QED
      BY <3>1, <3>5, CreditUnchanged DEF Inv
  <2>2. CASE ~Up(pid)
    <3>1. procs' = Taken(p) /\ handles' = [handles EXCEPT ![w + 1].state = "Dead"]
      BY <2>2 DEF OnHandshake
    <3> QED
      BY <1>2, <3>1, MarkDead DEF Inv
  <2> QED
    BY <2>1, <2>2
<1> QED
  BY <1>1, <1>2, <1>3

LEMMA OnHandshakeKeeps == ASSUME Inv, NEW p \in DOMAIN procs, OnHandshake(p) PROVE Inv'
<1>1. /\ CreditKept /\ Calmer(procs, procs') /\ pump.at # "idle"
      /\ UNCHANGED <<schedVars, segments, ticketVars, shutting, resizeVars>>
  BY OnHandshakeQuiet
<1>2. DownOK'
  BY <1>1, DownKept DEF Inv
<1> QED
  BY <1>1, <1>2, QuietKeeps DEF Inv, TicketsOK, resizeVars

LEMMA StateEventsKeep ==
    ASSUME Inv, NEW p \in DOMAIN procs, OnHelloCaps(p) \/ OnError(p) \/ OnEof(p)
    PROVE  Inv'
<1> DEFINE w == procs[p].worker
<1>1. PICK type : HasEvent(p, type) /\ ForHandle(p) /\ procs' = Taken(p)
                  /\ UNCHANGED <<schedVars, segments, ticketVars, shutting, resizeVars>>
  BY DEF OnHelloCaps, OnError, OnEof
<1>2. Calmer(procs, procs') /\ pump.at # "idle" /\ w \in Workers
  BY <1>1, EventFor
<1>3. CreditKept
  <2>1. CASE OnHelloCaps(p)
    BY <1>2, <2>1, MarkAlive DEF Inv, OnHelloCaps
  <2>2. CASE OnError(p) \/ OnEof(p)
    <3>1. UNCHANGED handles \/ handles' = [handles EXCEPT ![w + 1].state = "Dead"]
      BY <2>2 DEF OnError, OnEof
    <3> QED
      BY <1>2, <3>1, MarkDead, CreditUnchanged DEF Inv
  <2> QED
    BY <2>1, <2>2
<1>4. DownOK'
  BY <1>1, <1>2, DownKept DEF Inv
<1> QED
  BY <1>1, <1>2, <1>3, <1>4, QuietKeeps DEF Inv, TicketsOK, resizeVars

LEMMA DispatchDoneKeeps == ASSUME Inv, DispatchDone PROVE Inv'
<1> DEFINE told == {w \in Workers : Signal(Handle(w))}
           S == {p \in DOMAIN procs : procs[p].up /\ \E w \in told : Handle(w).pid = p}
<1>1. /\ pump.at # "idle" /\ Signalled(told) /\ TellExit(S)
      /\ UNCHANGED <<schedVars, segments, ticketVars, shutting, resizeVars>>
  BY DEF DispatchDone, Signalled, TellExit
<1> HIDE DEF told, S
<1>2. CreditKept /\ Calmer(procs, procs')
  BY <1>1, SignalIs, TellExitIs DEF Inv
<1>3. DownOK'
  BY <1>1, DownKept DEF Inv
<1> QED
  BY <1>1, <1>2, <1>3, QuietKeeps DEF Inv, TicketsOK, resizeVars

LEMMA ShutdownBeginKeeps == ASSUME Inv, ShutdownBegin PROVE Inv'
<1> DEFINE S == {p \in DOMAIN procs : procs[p].up /\ \E w \in Workers : /\ Handle(w).pid = p
                                                         /\ Handle(w).state \in {"Alive", "Starting"}}
<1>1. /\ shutting' = "draining" /\ TellExit(S)
      /\ UNCHANGED <<schedVars, handles, segments, ticketVars, resizeVars>>
  BY DEF ShutdownBegin, TellExit
<1> HIDE DEF S
<1>2. CreditKept /\ Calmer(procs, procs')
  BY <1>1, CreditUnchanged, TellExitIs DEF Inv
<1>3. DownOK'
  BY <1>1 DEF DownOK
<1> QED
  BY <1>1, <1>2, <1>3, QuietKeeps DEF Inv, TicketsOK, resizeVars

\* A child has read its inbox down to x and written event e.
Served(p, x, e) ==
    procs' = [procs EXCEPT ![p] = [procs[p] EXCEPT !.inbox = x, !.pipe = Append(procs[p].pipe, e)]]

LEMMA ServedIs ==
    ASSUME ProcsOK, NEW p \in 1..Len(procs), NEW x \in Seq(MessageType), NEW e \in EventType,
           Told(procs, p) => \E i \in 1..Len(x) : x[i].type = "shutdown", Served(p, x, e)
    PROVE  Calmer(procs, procs')
<1>1. PICK r \in ProcType : r = procs[p]
  BY ElementOfSeq DEF ProcsOK
<1> DEFINE y == Append(r.pipe, e)
           new == [r EXCEPT !.inbox = x, !.pipe = y]
<1>2. y \in Seq(EventType)
  BY AppendProperties DEF ProcType
<1>3. procs' = [procs EXCEPT ![p] = new]
  BY <1>1 DEF Served
<1> HIDE DEF y
<1>4. /\ new \in ProcType
      /\ new.worker = r.worker /\ new.generation = r.generation /\ new.up = r.up /\ new.inbox = x
  BY <1>2 DEF ProcType
<1> HIDE DEF new
<1>5. /\ procs' \in Seq(ProcType) /\ Len(procs') = Len(procs)
      /\ \A j \in 1..Len(procs) : procs'[j] = IF j = p THEN new ELSE procs[j]
  BY <1>3, <1>4, ExceptSeq DEF ProcsOK
<1>6. ASSUME NEW q \in 1..Len(procs), Told(procs, q) PROVE Told(procs', q)
  <2>1. CASE q = p
    BY <1>4, <1>5, <1>6, <2>1 DEF Told
  <2>2. CASE q # p
    BY <1>5, <1>6, <2>2 DEF Told
  <2> QED
    BY <2>1, <2>2
<1> QED
  BY <1>1, <1>4, <1>5, <1>6 DEF Calmer

\* The head of an inbox, when it is not the shutdown message, hides none.
LEMMA TailTold ==
    ASSUME ProcsOK, NEW p \in 1..Len(procs), procs[p].inbox # <<>>, Head(procs[p].inbox).type # "shutdown"
    PROVE  /\ procs[p].inbox \in Seq(MessageType)
           /\ Tail(procs[p].inbox) \in Seq(MessageType)
           /\ Told(procs, p) =>
                \E i \in 1..Len(Tail(procs[p].inbox)) : Tail(procs[p].inbox)[i].type = "shutdown"
<1>0. procs[p] \in ProcType
  BY ElementOfSeq DEF ProcsOK
<1>1. PICK b \in Seq(MessageType) : b = procs[p].inbox
  BY <1>0 DEF ProcType
<1>2. /\ b # <<>> /\ Head(b) = b[1] /\ Tail(b) \in Seq(MessageType) /\ Len(b) \in Nat
      /\ Len(Tail(b)) = Len(b) - 1 /\ \A i \in 1..(Len(b) - 1) : Tail(b)[i] = b[i + 1]
  BY <1>1
<1>3. ASSUME Told(procs, p) PROVE \E i \in 1..Len(Tail(b)) : Tail(b)[i].type = "shutdown"
  <2>1. PICK i \in 1..Len(b) : b[i].type = "shutdown"
    BY <1>1, <1>3 DEF Told
  <2>2. i # 1
    BY <1>1, <1>2, <2>1
  <2>3. i - 1 \in 1..(Len(b) - 1) /\ (i - 1) + 1 = i
    BY <1>2, <2>2
  <2>4. Tail(b)[i - 1] = b[i]
    BY <1>2, <2>3
  <2> QED
    BY <1>2, <2>1, <2>3, <2>4
<1> QED
  BY <1>1, <1>2, <1>3

\* A step of a child leaves all but the children.
LEMMA ChildKeeps ==
    ASSUME Inv, Calmer(procs, procs'),
           UNCHANGED <<schedVars, handles, segments, ticketVars, pump, shutting, resizeVars>>
    PROVE  Inv'
<1>1. CreditKept
  BY CreditUnchanged DEF Inv
<1>2. DownOK'
  BY DownKept DEF Inv, ticketVars
<1> QED
  BY <1>1, <1>2, QuietKeeps DEF Inv, TicketsOK, resizeVars

\* What a child does keeps the others, and all of the dispatcher.
ChildOnly ==
    /\ Calmer(procs, procs')
    /\ UNCHANGED <<schedVars, handles, segments, ticketVars, pump, shutting, resizeVars>>

LEMMA ProcHandshakeCalm == ASSUME Inv, NEW p \in DOMAIN procs, ProcHandshake(p) PROVE ChildOnly
<1>1. p \in 1..Len(procs)
  BY LenProperties DEF Inv, ProcsOK
<1>2. /\ procs[p].inbox # <<>> /\ Head(procs[p].inbox).type # "shutdown"
      /\ UNCHANGED <<schedVars, handles, segments, ticketVars, pump, shutting, resizeVars>>
  BY DEF ProcHandshake, HasMessage
<1> DEFINE x == Tail(procs[p].inbox)
<1>3. PICK ok \in BOOLEAN : Served(p, x, Event(IF ok THEN "hello_caps" ELSE "error", 0))
  BY DEF ProcHandshake, Served
<1>4. Event(IF ok THEN "hello_caps" ELSE "error", 0) \in EventType
  BY DEF Event, EventType
<1>5. x \in Seq(MessageType) /\ (Told(procs, p) => \E i \in 1..Len(x) : x[i].type = "shutdown")
  BY <1>1, <1>2, TailTold DEF Inv
<1> HIDE DEF x
<1>6. Calmer(procs, procs')
  BY <1>1, <1>3, <1>4, <1>5, ServedIs DEF Inv
<1> QED
  BY <1>2, <1>6 DEF ChildOnly

LEMMA ProcRenderCalm == ASSUME Inv, NEW p \in DOMAIN procs, ProcRender(p) PROVE ChildOnly
<1>1. p \in 1..Len(procs)
  BY LenProperties DEF Inv, ProcsOK
<1>2. /\ procs[p].inbox # <<>> /\ Head(procs[p].inbox).type = "render"
      /\ UNCHANGED <<schedVars, handles, segments, ticketVars, pump, shutting, resizeVars>>
  BY DEF ProcRender, HasMessage
<1> DEFINE b == procs[p].inbox
           Rest(t) == Head(b).batch \ {t}
           X(t) == IF Rest(t) = {} THEN Tail(b) ELSE [b EXCEPT ![1] = Message("render", Rest(t))]
<1>3. PICK t \in Head(b).batch, ok \in BOOLEAN :
        Served(p, X(t), Event(IF ok THEN "frame_ready" ELSE "frame_failed", t))
  <2>1. PICK t \in Head(b).batch, ok \in BOOLEAN :
          procs' = [procs EXCEPT ![p].inbox = X(t),
                                 ![p].pipe = Append(@, Event(IF ok THEN "frame_ready" ELSE "frame_failed", t))]
    BY DEF ProcRender
  <2> DEFINE x == X(t)
             e == Event(IF ok THEN "frame_ready" ELSE "frame_failed", t)
  <2> HIDE DEF X, e
  <2>2. procs' = [procs EXCEPT ![p].inbox = x, ![p].pipe = Append(@, e)]
    BY <2>1 DEF e
  <2> HIDE DEF x
  <2>3. Served(p, x, e)
    BY <2>2 DEF Served
  <2> QED
    BY <2>3 DEF x, e
<1>4. b \in Seq(MessageType) /\ Tail(b) \in Seq(MessageType)
      /\ (Told(procs, p) => \E i \in 1..Len(Tail(b)) : Tail(b)[i].type = "shutdown")
  BY <1>1, <1>2, TailTold DEF Inv
<1>5. b # <<>>
  BY <1>2
<1>6. Told(procs, p) <=> \E i \in 1..Len(b) : b[i].type = "shutdown"
  BY DEF Told
<1>7. Head(b).type = "render"
  BY <1>2
<1> DEFINE e == Event(IF ok THEN "frame_ready" ELSE "frame_failed", t)
           new == Message("render", Rest(t))
<1> HIDE DEF b
<1>8. Head(b) \in MessageType /\ Head(b) = b[1] /\ 1 \in 1..Len(b)
  BY <1>4, <1>5, HeadTailProperties, LenProperties
<1>9. Head(b).batch \subseteq Nat
  BY <1>8 DEF MessageType
<1>10. e \in EventType
  BY <1>3, <1>9 DEF Event, EventType
<1>11. new \in MessageType /\ new.type = "render"
  BY <1>9 DEF Message, MessageType
<1>12. X(t) \in Seq(MessageType) /\ (Told(procs, p) => \E i \in 1..Len(X(t)) : X(t)[i].type = "shutdown")
  <2>1. CASE Rest(t) = {}
    BY <1>4, <2>1
  <2>2. CASE Rest(t) # {}
    <3> DEFINE x == [b EXCEPT ![1] = new]
    <3>1. X(t) = x
      BY <2>2
    <3> HIDE DEF new, X
    <3>2. /\ x \in Seq(MessageType) /\ Len(x) = Len(b)
          /\ \A j \in 1..Len(b) : x[j] = IF j = 1 THEN new ELSE b[j]
      BY <1>4, <1>8, <1>11, ExceptSeq
    <3> HIDE DEF x
    <3>3. \A j \in 1..Len(b) : x[j].type = b[j].type
      BY <1>7, <1>8, <1>11, <3>2
    <3> QED
      BY <1>6, <3>1, <3>2, <3>3
  <2> QED
    BY <2>1, <2>2
<1> HIDE DEF X, e
<1>13. Calmer(procs, procs')
  <2>1. Served(p, X(t), e)
    BY <1>3 DEF e
  <2> QED
    BY <1>1, <1>10, <1>12, <2>1, ServedIs DEF Inv
<1> QED
  BY <1>2, <1>13 DEF ChildOnly

LEMMA ProcEndCalm == ASSUME Inv, NEW p \in DOMAIN procs, ProcExit(p) \/ ProcCrash(p) PROVE ChildOnly
<1>1. p \in 0..Len(procs)
  BY LenProperties DEF Inv, ProcsOK
<1>2. /\ procs' = Kill(procs, p)
      /\ UNCHANGED <<schedVars, handles, segments, ticketVars, pump, shutting, resizeVars>>
  BY DEF ProcExit, ProcCrash
<1>3. Calmer(procs, procs')
  BY <1>1, <1>2, KillIs DEF Inv, ProcsOK
<1> QED
  BY <1>2, <1>3 DEF ChildOnly

LEMMA ChildCalm == ASSUME Inv, NEW p \in DOMAIN procs, ProcStep(p) \/ ProcCrash(p) PROVE ChildOnly
  BY ProcHandshakeCalm, ProcRenderCalm, ProcEndCalm DEF ProcStep

--------------------------------------------------------------------------------
(* Steps that change tickets, scheduler or one handle                      *)

\* The child of a handle is one of those that were spawned.
LEMMA UpChild ==
    ASSUME HandlesOK, ProcsOK, NEW w \in Workers
    PROVE  /\ Handle(w).pid \in 0..Len(procs)
           /\ Up(Handle(w).pid) => Handle(w).pid \in 1..Len(procs)
<1>1. Handle(w).pid \in Nat /\ Handle(w).pid <= Len(procs) /\ Len(procs) \in Nat
  BY WorkerHandle, LenProperties DEF HandleOK, HandleType, ProcsOK
<1>2. Up(Handle(w).pid) => Handle(w).pid # 0
  BY DEF Up
<1> QED
  BY <1>1, <1>2

\* A step that leaves handles and children alone.
LEMMA PoolLeft ==
    ASSUME Inv, UNCHANGED poolVars, Len(posted') \in Nat, Len(posted) <= Len(posted'),
           SchedOK', TicketsOK', DownOK'
    PROVE  Inv'
<1>1. Len(posted) \in Nat /\ Len(procs) \in Nat /\ segments \in Nat
  BY LenProperties DEF Inv, TicketsOK, ProcsOK
<1>2. CreditKept
  BY CreditUnchanged DEF Inv, poolVars
<1>3. Grows
  BY <1>1 DEF Grows, poolVars
<1>4. HandlesOK'
  BY <1>2, <1>3, CreditKeeps DEF Inv
<1>5. ProcsOK' /\ ChildrenOK'
  BY DEF Inv, ProcsOK, ChildrenOK, Told, poolVars
<1> QED
  BY <1>4, <1>5 DEF Inv

\* A step that changes the handle of one worker and no other.
LEMMA OneHandleKeeps ==
    ASSUME Inv, NEW w \in Workers, NEW new, HandleStep(w, new), Calmer(procs, procs'), UNCHANGED posted,
           segments' \in Nat, segments <= segments', HandleOK(new, Len(procs), Len(posted), segments'),
           new.pid = Handle(w).pid \/ (Handle(w).pid # 0 => ~procs'[Handle(w).pid].up),
           SchedOK', TicketsOK', DownOK'
    PROVE  Inv'
<1>1. Len(posted) \in Nat /\ Len(procs) \in Nat /\ segments \in Nat /\ Len(procs') = Len(procs)
  BY LenProperties DEF Inv, TicketsOK, ProcsOK, Calmer
<1>2. Grows
  BY <1>1 DEF Grows
<1>3. HandlesOK'
  BY <1>1, <1>2, PutKeeps DEF Inv
<1>4. ProcsOK'
  BY DEF Calmer, ProcsOK
<1>5. w + 1 \in 1..Len(handles) /\ Handle(w) = handles[w + 1]
  BY WorkerHandle DEF Inv
<1>6. ASSUME NEW i \in 1..Len(handles), handles[i].pid \in 1..Len(procs)
      PROVE  \/ \E j \in 1..Len(handles') : handles'[j].pid = handles[i].pid
             \/ ~procs'[handles[i].pid].up
  <2>1. CASE i = w + 1
    <3>1. handles'[i] = new /\ i \in 1..Len(handles') /\ handles[i] = Handle(w)
      BY <1>5, <2>1 DEF HandleStep
    <3>2. Handle(w).pid # 0
      BY <1>6, <3>1
    <3> QED
      BY <3>1, <3>2
  <2>2. CASE i # w + 1
    <3>1. handles'[i] = handles[i] /\ i \in 1..Len(handles')
      BY <2>2 DEF HandleStep
    <3> QED
      BY <3>1
  <2> QED
    BY <2>1, <2>2
<1>7. ChildrenOK'
  BY <1>6, ChildrenKept DEF Inv
<1> QED
  BY <1>3, <1>4, <1>7 DEF Inv

LEMMA PostKeeps == ASSUME Inv, NEW job \in Jobs, Post(job) PROVE Inv'
<1> DEFINE id == Len(posted) + 1
           request == [key |-> job.key, priority |-> job.priority, distance |-> 0,
                       payload |-> id, slot_bytes |-> job.slot_bytes]
           back == Payloads(HandedBack(request)) \cap (tickets \cup {id})
           entry == [request |-> request, any_worker |-> request.priority = Seek]
<1>1. /\ shutting = "no" /\ UNCHANGED <<poolVars, refs, shutting, resizeVars>>
      /\ posted' = Append(posted, job)
      /\ tickets' = (tickets \cup {id}) \ back
      /\ answer' = [t \in 1..id |-> IF t \in back THEN "cancelled"
                                    ELSE IF t = id THEN "open" ELSE answer[t]]
  BY DEF Post
<1>2. pending' \subseteq pending \cup {entry} /\ UNCHANGED <<workers, batch_size, claimed>>
  BY DEF Post, Submit
<1>3. /\ posted \in Seq(Jobs) /\ Len(posted) \in Nat
      /\ posted' \in Seq(Jobs) /\ Len(posted') = id
  BY <1>1, LenProperties, AppendProperties DEF Inv, TicketsOK
<1>4. request \in Request /\ request.payload = id
  <2>1. job \in [key : Key, priority : Seek..Background, slot_bytes : Nat]
    BY PoolAssumption
  <2> QED
    BY <1>3, <2>1 DEF Request
<1> HIDE DEF request
<1>5. entry \in PendingEntry /\ entry.request.payload = id
  BY <1>4 DEF PendingEntry
<1> HIDE DEF entry
<1>6. SchedOK'
  <2>1. IsFiniteSet(pending \cup {entry})
    BY FS_Singleton, FS_Union DEF Inv, SchedOK
  <2>2. IsFiniteSet(pending')
    BY <1>2, <2>1, FS_Subset
  <2>3. SchedTypeOK'
    BY <1>2, <1>5 DEF Inv, SchedOK, SchedTypeOK
  <2>4. 1..Len(posted) \subseteq 1..Len(posted') /\ id \in 1..Len(posted')
    BY <1>3
  <2>5. \A e \in pending' : e.request.payload \in 1..Len(posted')
    BY <1>2, <1>5, <2>4 DEF Inv, SchedOK
  <2>6. \A c \in claimed' : c.request.payload \in 1..Len(posted')
    BY <1>2, <2>4 DEF Inv, SchedOK
  <2> QED
    BY <1>2, <2>2, <2>3, <2>5, <2>6 DEF Inv, SchedOK
<1> HIDE DEF back
<1>7. TicketsOK'
  <2>1. id \in 1..id /\ \A t \in 1..id : t = id \/ t \in 1..Len(posted)
    BY <1>3
  <2>2. tickets' \subseteq 1..id
    <3>1. 1..Len(posted) \subseteq 1..id /\ tickets \subseteq 1..Len(posted)
      BY <1>3 DEF Inv, TicketsOK
    <3> QED
      BY <1>1, <2>1, <3>1
  <2>3. answer' \in [1..id -> Answer]
    <3> SUFFICES ASSUME NEW t \in 1..id PROVE answer'[t] \in Answer
      BY <1>1
    <3> QED
      BY <1>1, <2>1 DEF Inv, TicketsOK, Answer
  <2>4. ASSUME NEW t \in 1..id, answer'[t] = "open" PROVE t \in tickets'
    <3>1. t \notin back /\ (t = id \/ answer[t] = "open")
      BY <1>1, <2>4
    <3>2. t \in tickets \cup {id}
      BY <2>1, <3>1 DEF Inv, TicketsOK
    <3> QED
      BY <1>1, <3>1, <3>2
  <2>5. \A ref \in refs' : ref.ticket \in 1..id
    <3>1. 1..Len(posted) \subseteq 1..id
      BY <1>3
    <3>2. \A ref \in refs' : ref.ticket \in 1..Len(posted)
      BY <1>1 DEF Inv, TicketsOK
    <3> QED
      BY <3>1, <3>2
  <2>6. segments' \in Nat /\ next_target' \in Nat
    BY <1>1 DEF Inv, TicketsOK, poolVars, resizeVars
  <2> HIDE DEF id
  <2> QED
    BY <1>3, <2>2, <2>3, <2>4, <2>5, <2>6 DEF TicketsOK
<1>8. DownOK'
  BY <1>1 DEF DownOK
<1>9. Len(posted') \in Nat /\ Len(posted) <= Len(posted')
  BY <1>3
<1> QED
  BY <1>1, <1>6, <1>7, <1>8, <1>9, PoolLeft

\* Cancelling drops requests and completes tickets.
LEMMA CancelKeeps ==
    ASSUME Inv, UNCHANGED <<workers, batch_size>>, pending' \subseteq pending, claimed' \subseteq claimed,
           UNCHANGED <<tickets, answer>> \/ \E ids : Complete(ids, "cancelled"),
           UNCHANGED <<poolVars, posted, refs, pump, shutting, resizeVars>>
    PROVE  Inv'
<1>1. Len(posted) \in Nat
  BY LenProperties DEF Inv, TicketsOK
<1>2. SchedOK'
  BY <1>1, SchedShrinks DEF Inv
<1>3. /\ \A ref \in refs' : ref.ticket \in 1..Len(posted)
      /\ segments' \in Nat /\ next_target' \in Nat
  BY DEF Inv, TicketsOK, poolVars, resizeVars
<1>4. "cancelled" \in Answer \ {"open"}
  BY DEF Answer
<1>5. TicketsOK' /\ tickets' \subseteq tickets
  BY <1>3, <1>4, TicketsKept, CompleteKeeps DEF Inv
<1>6. DownOK'
  BY <1>5, DownKept DEF Inv
<1> QED
  BY <1>1, <1>2, <1>5, <1>6, PoolLeft

LEMMA CancelFrameKeeps == ASSUME Inv, NEW key, CancelFrame(key) PROVE Inv'
<1>1. /\ UNCHANGED <<workers, batch_size>> /\ pending' \subseteq pending /\ claimed' \subseteq claimed
      /\ UNCHANGED <<poolVars, posted, refs, pump, shutting, resizeVars>>
  BY DEF CancelFrame, CancelKey
<1>2. UNCHANGED <<tickets, answer>> \/ \E ids : Complete(ids, "cancelled")
  <2> DEFINE found == {t \in tickets : posted[t].key = key}
  <2>1. CASE found = {}
    BY <2>1 DEF CancelFrame
  <2>2. CASE found # {}
    <3>1. PICK t \in found : Complete({t}, "cancelled")
      BY <2>2 DEF CancelFrame
    <3> QED
      BY <3>1
  <2> QED
    BY <2>1, <2>2
<1> QED
  BY <1>1, <1>2, CancelKeeps

LEMMA CancelSequenceKeeps == ASSUME Inv, NEW sequence, CancelPreviewSequence(sequence) PROVE Inv'
<1>1. /\ UNCHANGED <<workers, batch_size>> /\ pending' \subseteq pending /\ claimed' \subseteq claimed
      /\ UNCHANGED <<poolVars, posted, refs, pump, shutting, resizeVars>>
      /\ \E ids : Complete(ids, "cancelled")
  BY DEF CancelPreviewSequence, CancelSequence
<1> QED
  BY <1>1, CancelKeeps

LEMMA ReleaseKeeps == ASSUME Inv, NEW ref \in refs, ReleaseFrame(ref) PROVE Inv'
<1>1. /\ UNCHANGED <<schedVars, procs, segments, posted, tickets, answer, pump, shutting, resizeVars>>
      /\ refs' \subseteq refs
  BY DEF ReleaseFrame
<1>2. Calmer(procs, procs') /\ segments' \in Nat /\ segments <= segments' /\ Len(posted) \in Nat
  BY <1>1, CalmerOrder, LenProperties DEF Inv, ProcsOK, TicketsOK
<1>3. SchedOK'
  BY <1>1, <1>2, SchedShrinks DEF Inv, schedVars
<1>4. TicketsOK' /\ tickets' \subseteq tickets
  <2>1. /\ \A r \in refs' : r.ticket \in 1..Len(posted)
        /\ segments' \in Nat /\ next_target' \in Nat
    BY <1>1 DEF Inv, TicketsOK, resizeVars
  <2> QED
    BY <1>1, <2>1, TicketsKept DEF Inv
<1>5. DownOK'
  BY <1>1, <1>4, DownKept DEF Inv
<1>6. CASE handles' = handles
  <2>1. UNCHANGED poolVars
    BY <1>1, <1>6 DEF poolVars
  <2> QED
    BY <1>1, <1>2, <1>3, <1>4, <1>5, <2>1, PoolLeft
<1>7. CASE ~(handles' = handles)
  <2> DEFINE w == ref.worker
             t == ref.ticket
  <2>1. w \in Workers /\ t \in Handle(w).held /\ Returned(w, t)
    BY <1>7 DEF ReleaseFrame, Returned
  <2> HIDE DEF w, t
  <2>2. PICK new \in HandleType : HandleStep(w, new) /\ HandleNow(new) /\ SameChild(new, Handle(w))
    BY <2>1, ReturnedIs DEF Inv
  <2>3. HandleOK(new, Len(procs), Len(posted), segments') /\ new.pid = Handle(w).pid
    BY <1>1, <2>2 DEF HandleNow, SameChild
  <2> QED
    BY <1>1, <1>2, <1>3, <1>4, <1>5, <2>1, <2>2, <2>3, OneHandleKeeps
<1> QED
  BY <1>6, <1>7


\* What the events about a frame have in common: the ticket's slot moves within
\* the handle, and the ticket is completed when it is still open.
LEMMA FrameKeeps ==
    ASSUME Inv, NEW p \in DOMAIN procs, NEW type, HasEvent(p, type), ForHandle(p), procs' = Taken(p),
           UNCHANGED <<segments, posted, shutting, resizeVars>>,
           \/ UNCHANGED handles
           \/ \E t \in Handle(procs[p].worker).out :
                Recycled(procs[p].worker, t) \/ Delivered(procs[p].worker, t),
           UNCHANGED <<workers, batch_size>>, pending' \subseteq pending, claimed' \subseteq claimed,
           \/ UNCHANGED <<tickets, answer>>
           \/ \E ids : \E result \in {"ok", "failed"} : Complete(ids, result),
           \A ref \in refs' : ref.ticket \in 1..Len(posted)
    PROVE  Inv'
<1> DEFINE w == procs[p].worker
<1>1. Calmer(procs, procs') /\ pump.at # "idle" /\ w \in Workers
  BY EventFor
<1>2. segments' \in Nat /\ segments <= segments' /\ Len(posted) \in Nat /\ next_target' \in Nat
  BY LenProperties DEF Inv, TicketsOK, resizeVars
<1>3. SchedOK'
  BY <1>2, SchedShrinks DEF Inv
<1>4. TicketsOK'
  <2>1. "ok" \in Answer \ {"open"} /\ "failed" \in Answer \ {"open"}
    BY DEF Answer
  <2> QED
    BY <1>2, <2>1, TicketsKept, CompleteKeeps DEF Inv
<1>5. DownOK'
  BY <1>1, DownKept DEF Inv
<1> HIDE DEF w
<1>6. \E new : HandleStep(w, new) /\ HandleOK(new, Len(procs), Len(posted), segments')
               /\ new.pid = Handle(w).pid
  <2>1. CASE UNCHANGED handles
    <3>1. w + 1 \in 1..Len(handles) /\ Handle(w) = handles[w + 1]
          /\ HandleOK(Handle(w), Len(procs), Len(posted), segments)
      BY <1>1, WorkerHandle DEF Inv
    <3>2. HandleStep(w, Handle(w))
      BY <2>1, <3>1 DEF HandleStep, Inv, HandlesOK
    <3> QED
      BY <3>1, <3>2
  <2>2. ASSUME NEW t \in Handle(w).out, Recycled(w, t) \/ Delivered(w, t)
        PROVE  \E new : HandleStep(w, new) /\ HandleOK(new, Len(procs), Len(posted), segments')
                        /\ new.pid = Handle(w).pid
    <3>1. PICK new \in HandleType : HandleStep(w, new) /\ HandleNow(new) /\ SameChild(new, Handle(w))
      BY <1>1, <2>2, RecycledIs, DeliveredIs DEF Inv
    <3> QED
      BY <3>1 DEF HandleNow, SameChild
  <2> QED
    BY <2>1, <2>2 DEF w
<1>7. PICK new : HandleStep(w, new) /\ HandleOK(new, Len(procs), Len(posted), segments')
               /\ new.pid = Handle(w).pid
  BY <1>6
<1> QED
  BY <1>1, <1>2, <1>3, <1>4, <1>5, <1>7, OneHandleKeeps

LEMMA OnFrameReadyKeeps == ASSUME Inv, NEW p \in DOMAIN procs, OnFrameReady(p) PROVE Inv'
<1> DEFINE w == procs[p].worker
           t == Head(procs[p].pipe).ticket
<1>1. /\ HasEvent(p, "frame_ready") /\ ForHandle(p) /\ procs' = Taken(p)
      /\ UNCHANGED <<segments, shutting, resizeVars>>
  BY DEF OnFrameReady
<1>2. w \in Workers
  BY <1>1, EventFor
<1>3. UNCHANGED posted
  BY DEF OnFrameReady, ticketVars
<1>4. UNCHANGED handles \/ (t \in Handle(w).out /\ (Recycled(w, t) \/ Delivered(w, t)))
  BY DEF OnFrameReady, Recycled, Delivered
<1>5. UNCHANGED <<workers, batch_size>> /\ pending' \subseteq pending /\ claimed' \subseteq claimed
  BY DEF OnFrameReady, FrameDone, schedVars
<1>6. UNCHANGED <<tickets, answer>> \/ Complete({t}, "ok")
  BY DEF OnFrameReady, ticketVars
<1>7. \A ref \in refs' : ref.ticket \in 1..Len(posted)
  <2>1. refs' = refs \/ (t \in tickets
          /\ refs' = refs \cup {[ticket |-> t, worker |-> w, segment |-> Handle(w).segment]})
    BY DEF OnFrameReady, ticketVars
  <2>2. /\ \A ref \in refs : ref.ticket \in 1..Len(posted)
        /\ tickets \subseteq 1..Len(posted)
    BY DEF Inv, TicketsOK
  <2> HIDE DEF t, w
  <2>3. CASE refs' = refs
    BY <2>2, <2>3
  <2>4. CASE t \in tickets /\ refs' = refs \cup {[ticket |-> t, worker |-> w, segment |-> Handle(w).segment]}
    <3>1. t \in 1..Len(posted)
      BY <2>2, <2>4
    <3> QED
      BY <2>2, <2>4, <3>1
  <2> QED
    BY <2>1, <2>3, <2>4
<1> HIDE DEF t
<1> QED
  BY <1>1, <1>2, <1>3, <1>4, <1>5, <1>6, <1>7, FrameKeeps

LEMMA OnFrameFailedKeeps == ASSUME Inv, NEW p \in DOMAIN procs, OnFrameFailed(p) PROVE Inv'
<1> DEFINE w == procs[p].worker
           t == Head(procs[p].pipe).ticket
<1>1. /\ HasEvent(p, "frame_failed") /\ ForHandle(p) /\ procs' = Taken(p)
      /\ UNCHANGED <<segments, posted, refs, shutting, resizeVars>>
  BY DEF OnFrameFailed
<1>2. UNCHANGED handles \/ (t \in Handle(w).out /\ (Recycled(w, t) \/ Delivered(w, t)))
  BY DEF OnFrameFailed, Recycled
<1>3. UNCHANGED <<workers, batch_size>> /\ pending' \subseteq pending /\ claimed' \subseteq claimed
  BY DEF OnFrameFailed, FrameDone, schedVars
<1>4. UNCHANGED <<tickets, answer>> \/ Complete({t}, "failed")
  BY DEF OnFrameFailed
<1>5. \A ref \in refs' : ref.ticket \in 1..Len(posted)
  BY <1>1 DEF Inv, TicketsOK
<1> HIDE DEF t
<1> QED
  BY <1>1, <1>2, <1>3, <1>4, <1>5, FrameKeeps

LEMMA RebuildCalm ==
    ASSUME Inv, NEW w \in Workers, RebuildSegment(w)
    PROVE  Calmer(procs, procs')
<1>0. procs' = IF Up(Handle(w).pid) THEN Send(procs, Handle(w).pid, Message("handshake", {})) ELSE procs
  BY DEF RebuildSegment
<1>1. CASE Up(Handle(w).pid)
  <2>1. Handle(w).pid \in 1..Len(procs)
    BY <1>1, UpChild DEF Inv
  <2>2. Message("handshake", {}) \in MessageType
    BY DEF Message, MessageType
  <2> QED
    BY <1>0, <1>1, <2>1, <2>2, SendIs DEF Inv, ProcsOK
<1>2. CASE ~Up(Handle(w).pid)
  BY <1>0, <1>2, CalmerOrder DEF Inv, ProcsOK
<1> QED
  BY <1>1, <1>2

LEMMA RebuildKeeps == ASSUME Inv, NEW w \in Workers, RebuildSegment(w) PROVE Inv'
<1>1. /\ pump.at # "idle" /\ segments' = segments + 1
      /\ UNCHANGED <<schedVars, ticketVars, shutting, resizeVars>>
  BY DEF RebuildSegment, Reached
<1>2. segments \in Nat /\ Len(posted) \in Nat
  BY LenProperties DEF Inv, TicketsOK
<1>3. PICK new \in HandleType :
        /\ HandleStep(w, new) /\ HandleOK(new, Len(procs), Len(posted), segments + 1)
        /\ new.pid = Handle(w).pid
  BY <1>2, RebuildIs DEF Inv
<1>4. Calmer(procs, procs')
  BY RebuildCalm
<1>5. SchedOK'
  BY <1>1, <1>2, SchedShrinks DEF Inv, schedVars, ticketVars
<1>6. segments' \in Nat /\ segments <= segments'
  BY <1>1, <1>2
<1>7. TicketsOK'
  <2>1. (\A ref \in refs' : ref.ticket \in 1..Len(posted)) /\ next_target' \in Nat
    BY <1>1 DEF Inv, TicketsOK, ticketVars, resizeVars
  <2> QED
    BY <1>1, <1>6, <2>1, TicketsKept DEF Inv, ticketVars
<1>8. DownOK'
  BY <1>1, DownKept DEF Inv
<1>9. HandleOK(new, Len(procs), Len(posted), segments') /\ UNCHANGED posted
  BY <1>1, <1>3 DEF ticketVars
<1> QED
  BY <1>3, <1>4, <1>5, <1>6, <1>7, <1>8, <1>9, OneHandleKeeps

LEMMA DispatchCalm ==
    ASSUME Inv, NEW w \in Workers, DispatchBatch(w)
    PROVE  Calmer(procs, procs')
<1>0. Len(posted) \in Nat
  BY LenProperties DEF Inv, TicketsOK
<1>1. PICK b \in Batches(w, Handle(w).free, Handle(w).bytes) :
        procs' = IF Up(Handle(w).pid)
                 THEN Send(procs, Handle(w).pid, Message("render", {e.request.payload : e \in b})) ELSE procs
  BY DEF DispatchBatch
<1>2. CASE Up(Handle(w).pid)
  <2> DEFINE sent == {e.request.payload : e \in b}
  <2>1. Handle(w).pid \in 1..Len(procs) /\ Handle(w).free \in Nat
    BY <1>2, UpChild, WorkerHandle DEF Inv, HandleType
  <2>2. b \subseteq pending
    BY <1>1, <2>1, BatchIs DEF Inv
  <2>3. sent \subseteq Nat
    BY <2>2, <1>0 DEF Inv, SchedOK
  <2> HIDE DEF sent
  <2>4. Message("render", sent) \in MessageType
    BY <2>3 DEF Message, MessageType
  <2>5. procs' = Send(procs, Handle(w).pid, Message("render", sent))
    BY <1>1, <1>2 DEF sent
  <2> QED
    BY <2>1, <2>4, <2>5, SendIs DEF Inv, ProcsOK
<1>3. CASE ~Up(Handle(w).pid)
  BY <1>1, <1>3, CalmerOrder DEF Inv, ProcsOK
<1> QED
  BY <1>2, <1>3

LEMMA DispatchKeeps == ASSUME Inv, NEW w \in Workers, DispatchBatch(w) PROVE Inv'
<1>1. /\ pump.at # "idle" /\ UNCHANGED <<segments, ticketVars, shutting, resizeVars>>
  BY DEF DispatchBatch, Reached
<1>2. /\ segments \in Nat /\ Len(posted) \in Nat /\ segments' \in Nat /\ segments <= segments'
      /\ UNCHANGED posted
  BY <1>1, LenProperties DEF Inv, TicketsOK, ticketVars
<1>3. PICK batch \in SUBSET pending, new \in HandleType :
        /\ ClaimBatch(w, batch) /\ HandleStep(w, new) /\ HandleNow(new) /\ SameChild(new, Handle(w))
  BY DispatchIs DEF Inv
<1>4. w \in Nat
  BY WorkerHandle DEF Inv
<1>5. SchedOK'
  BY <1>2, <1>3, <1>4, ClaimKeepsSched DEF Inv
<1>6. Calmer(procs, procs')
  BY DispatchCalm
<1>7. TicketsOK'
  <2>1. (\A ref \in refs' : ref.ticket \in 1..Len(posted)) /\ next_target' \in Nat
    BY <1>1 DEF Inv, TicketsOK, ticketVars, resizeVars
  <2> QED
    BY <1>1, <1>2, <2>1, TicketsKept DEF Inv, ticketVars
<1>8. DownOK'
  BY <1>1, DownKept DEF Inv
<1>9. HandleOK(new, Len(procs), Len(posted), segments') /\ new.pid = Handle(w).pid
  BY <1>1, <1>3 DEF HandleNow, SameChild
<1> QED
  BY <1>2, <1>3, <1>5, <1>6, <1>7, <1>8, <1>9, OneHandleKeeps


\* A restarted or abandoned worker has lost its child.
LEMMA KilledKeeps ==
    ASSUME Inv, NEW w \in Workers, procs' = Kill(procs, Handle(w).pid), Emptied(w), pump.at # "idle",
           UNCHANGED <<segments, posted, refs, shutting, resizeVars>>, SchedOK', TicketsOK'
    PROVE  Inv'
<1>1. Handle(w).pid \in 0..Len(procs)
  BY UpChild DEF Inv
<1>2. Calmer(procs, procs') /\ (Handle(w).pid # 0 => ~procs'[Handle(w).pid].up)
  BY <1>1, KillIs DEF Inv, ProcsOK
<1>3. PICK new \in HandleType : HandleStep(w, new) /\ HandleNow(new)
  BY DEF Emptied
<1>4. segments' \in Nat /\ segments <= segments'
  BY DEF Inv, TicketsOK
<1>5. HandleOK(new, Len(procs), Len(posted), segments')
  BY <1>3 DEF HandleNow
<1>6. DownOK'
  BY DownKept DEF Inv
<1> QED
  BY <1>2, <1>3, <1>4, <1>5, <1>6, OneHandleKeeps

LEMMA GiveUpKeeps ==
    ASSUME Inv, NEW w \in Workers, GiveUp(w), pump.at # "idle", UNCHANGED <<shutting, resizeVars>>
    PROVE  Inv'
<1>1. /\ procs' = Kill(procs, Handle(w).pid) /\ claimed' \subseteq claimed
      /\ UNCHANGED <<workers, batch_size, pending, segments, posted, refs>>
      /\ \E ids : Complete(ids, "failed")
  BY DEF GiveUp
<1>2. Emptied(w)
  BY GiveUpIs DEF Inv
<1>3. Len(posted) \in Nat
  BY LenProperties DEF Inv, TicketsOK
<1>4. SchedOK'
  BY <1>1, <1>3, SchedShrinks DEF Inv
<1>5. TicketsOK'
  <2>1. "failed" \in Answer \ {"open"}
    BY DEF Answer
  <2>2. (\A ref \in refs' : ref.ticket \in 1..Len(posted)) /\ segments' \in Nat /\ next_target' \in Nat
    BY <1>1 DEF Inv, TicketsOK, resizeVars
  <2> QED
    BY <1>1, <2>1, <2>2, CompleteKeeps DEF Inv
<1> QED
  BY <1>1, <1>2, <1>4, <1>5, KilledKeeps

LEMMA RespawnFailsKeeps ==
    ASSUME Inv, NEW w \in Workers, RespawnFails(w), pump.at # "idle", UNCHANGED <<shutting, resizeVars>>
    PROVE  Inv'
<1>1. /\ procs' = Kill(procs, Handle(w).pid) /\ WorkerCrashed(w)
      /\ UNCHANGED <<segments, posted, tickets, answer, refs>>
  BY DEF RespawnFails, ticketVars
<1>2. Emptied(w)
  BY RespawnFailsIs DEF Inv
<1>3. SchedOK'
  BY <1>1, CrashKeepsSched DEF Inv
<1>4. TicketsOK'
  <2>1. (\A ref \in refs' : ref.ticket \in 1..Len(posted)) /\ segments' \in Nat /\ next_target' \in Nat
    BY <1>1 DEF Inv, TicketsOK, resizeVars
  <2> QED
    BY <1>1, <2>1, TicketsKept DEF Inv
<1> QED
  BY <1>1, <1>2, <1>3, <1>4, KilledKeeps

\* A child is spawned behind the others.
Spawned(qs, np) == procs' = Append(qs, np)
LEMMA SpawnIs ==
    ASSUME NEW qs \in Seq(ProcType), NEW np \in ProcType, Spawned(qs, np)
    PROVE  /\ procs' \in Seq(ProcType) /\ Len(procs') = Len(qs) + 1
           /\ \A q \in 1..Len(qs) : procs'[q] = qs[q]
           /\ procs'[Len(qs) + 1] = np
BY AppendProperties DEF Spawned

LEMMA RespawnKeeps ==
    ASSUME Inv, NEW w \in Workers, Respawn(w), pump.at # "idle", UNCHANGED <<shutting, resizeVars>>
    PROVE  Inv'
<1> DEFINE h == Handle(w)
           n == Len(procs)
           qs == Kill(procs, h.pid)
           np == NewProc(w, h.restarts + 1)
           new == NewHandle(h.restarts + 1, n + 1, segments + 1)
<1>1. /\ WorkerCrashed(w) /\ Spawned(qs, np) /\ handles' = [handles EXCEPT ![w + 1] = new]
      /\ segments' = segments + 1 /\ UNCHANGED ticketVars
  BY DEF Respawn, Spawned
<1>2. /\ w \in Nat /\ w + 1 \in 1..Len(handles) /\ h = handles[w + 1] /\ h \in HandleType
      /\ h.pid \in 0..n /\ n \in Nat /\ segments \in Nat /\ Len(posted) \in Nat
  BY WorkerHandle, UpChild, LenProperties DEF Inv, ProcsOK, TicketsOK
<1>3. h.restarts + 1 \in Nat
  BY <1>2 DEF HandleType
<1>4. np \in ProcType
  BY <1>2, <1>3, NewProcIs
<1>5. new \in HandleType /\ new.pid = n + 1 /\ HandleOK(new, n + 1, Len(posted), segments + 1)
  <2>1. PICK r \in Nat, a \in Nat, k \in Nat : r = h.restarts + 1 /\ a = n + 1 /\ k = segments + 1
    BY <1>2, <1>3
  <2>2. new = NewHandle(r, a, k)
    BY <2>1
  <2> HIDE DEF new, h, n
  <2>3. new \in HandleType /\ new.pid = a
    BY <2>2, NewHandleIs
  <2>4. HandleOK(new, a, Len(posted), k)
    <3>1. PICK m \in Nat : m = Len(posted)
      BY <1>2
    <3>2. a <= a /\ k <= k
      OBVIOUS
    <3>3. HandleOK(new, a, m, k)
      BY <2>2, <3>2, NewHandleOK
    <3> QED
      BY <3>1, <3>3
  <2> QED
    BY <2>1, <2>3, <2>4
<1>6. Calmer(procs, qs) /\ (h.pid # 0 => ~qs[h.pid].up)
  BY <1>2, KillIs DEF Inv, ProcsOK
<1> HIDE DEF new, np, qs
<1>7. HandleStep(w, new)
  BY <1>1, <1>5, PutHandle DEF Inv
<1>8. qs \in Seq(ProcType) /\ Len(qs) = n
  BY <1>6 DEF Calmer
<1>9. /\ procs' \in Seq(ProcType) /\ Len(procs') = n + 1
      /\ \A q \in 1..n : procs'[q] = qs[q]
  BY <1>1, <1>4, <1>8, SpawnIs
<1>10. UNCHANGED posted
  BY <1>1 DEF ticketVars
<1>11. HandlesOK'
  <2>1. Grows
    BY <1>1, <1>2, <1>9, <1>10 DEF Grows
  <2>2. HandleOK(new, Len(procs'), Len(posted'), segments')
    BY <1>1, <1>2, <1>5, <1>9, <1>10
  <2> QED
    BY <1>7, <2>1, <2>2, PutKeeps DEF Inv
<1>12. ChildrenOK'
  <2> SUFFICES ASSUME NEW p \in 1..(n + 1), procs'[p].up
               PROVE  (\E j \in 1..Len(handles') : handles'[j].pid = p) \/ Told(procs', p)
    BY <1>9 DEF ChildrenOK
  <2>1. CASE p = n + 1
    BY <1>2, <1>5, <1>7, <2>1 DEF HandleStep
  <2>2. CASE p # n + 1
    <3>1. p \in 1..n /\ procs'[p] = qs[p]
      BY <1>2, <1>9, <2>2
    <3>2. procs[p].up /\ qs[p].up /\ (Told(procs, p) => Told(qs, p))
      BY <1>6, <3>1 DEF Calmer
    <3>3. Told(procs', p) <=> Told(qs, p)
      BY <3>1 DEF Told
    <3>4. ASSUME NEW i \in 1..Len(handles), handles[i].pid = p
          PROVE  \E j \in 1..Len(handles') : handles'[j].pid = p
      <4>1. i # w + 1
        BY <1>2, <1>6, <3>1, <3>2, <3>4
      <4> QED
        BY <1>7, <3>4, <4>1 DEF HandleStep
    <3> QED
      BY <3>1, <3>2, <3>3, <3>4 DEF Inv, ChildrenOK
  <2> QED
    BY <2>1, <2>2
<1>13. SchedOK'
  BY <1>1, <1>10, CrashKeepsSched DEF Inv
<1>14. TicketsOK'
  <2>1. (\A ref \in refs' : ref.ticket \in 1..Len(posted)) /\ segments' \in Nat /\ next_target' \in Nat
    BY <1>1 DEF Inv, TicketsOK, ticketVars, resizeVars
  <2> QED
    BY <1>1, <2>1, TicketsKept DEF Inv, ticketVars
<1>15. DownOK'
  BY DownKept DEF Inv
<1> QED
  BY <1>9, <1>11, <1>12, <1>13, <1>14, <1>15 DEF Inv, ProcsOK

LEMMA RestartKeeps == ASSUME Inv, NEW w \in Workers, RestartWorker(w) PROVE Inv'
<1>1. pump.at # "idle" /\ UNCHANGED <<shutting, resizeVars>>
      /\ (GiveUp(w) \/ Respawn(w) \/ RespawnFails(w))
  BY DEF RestartWorker
<1> QED
  BY <1>1, GiveUpKeeps, RespawnKeeps, RespawnFailsKeeps

LEMMA ReapCalm ==
    ASSUME Inv, NEW w \in Workers, Reap(w)
    PROVE  /\ Calmer(procs, procs')
           /\ LET pid == Handle(w).pid IN pid # 0 => ~procs'[pid].up \/ Told(procs', pid)
<1> DEFINE pid == Handle(w).pid
<1>1. /\ Handle(w).retiring
      /\ procs' = IF Exited(w) \/ Handle(w).state # "Dead" THEN Kill(procs, pid)
                  ELSE Send(procs, pid, Message("shutdown", {}))
  BY DEF Reap, Exited
<1>2. pid \in 0..Len(procs)
  BY UpChild DEF Inv
<1>3. CASE Exited(w) \/ Handle(w).state # "Dead"
  BY <1>1, <1>2, <1>3, KillIs DEF Inv, ProcsOK
<1>4. CASE ~(Exited(w) \/ Handle(w).state # "Dead")
  <2>1. Up(pid)
    BY <1>1, <1>4 DEF Exited
  <2>2. pid \in 1..Len(procs)
    BY <2>1, UpChild DEF Inv
  <2>3. Message("shutdown", {}) \in MessageType /\ Message("shutdown", {}).type = "shutdown"
    BY DEF Message, MessageType
  <2>4. procs' = Send(procs, pid, Message("shutdown", {}))
    BY <1>1, <1>4
  <2> QED
    BY <2>2, <2>3, <2>4, SendIs DEF Inv, ProcsOK
<1> QED
  BY <1>3, <1>4

LEMMA ReapKeeps == ASSUME Inv, NEW w \in Workers, Reap(w) PROVE Inv'
<1> DEFINE pid == Handle(w).pid
<1>1. /\ pump.at # "idle" /\ WorkerCrashed(w) /\ Removed(w)
      /\ UNCHANGED <<segments, ticketVars, shutting, resizeVars>>
  BY DEF Reap, Removed, Exited
<1>2. /\ w \in Nat /\ w + 1 \in 1..Len(handles) /\ Handle(w) = handles[w + 1]
      /\ pid \in 0..Len(procs) /\ Len(procs) \in Nat /\ Len(posted) \in Nat /\ segments \in Nat
  BY WorkerHandle, UpChild, LenProperties DEF Inv, ProcsOK, TicketsOK
<1>3. Calmer(procs, procs') /\ (pid # 0 => ~procs'[pid].up \/ Told(procs', pid))
  BY ReapCalm
<1>4. /\ handles' \in Seq(HandleType) /\ Len(handles') = Len(handles) - 1
      /\ \A i \in 1..Len(handles) :
           i # w + 1 => \E j \in 1..Len(handles') : handles'[j] = handles[i]
      /\ \A j \in 1..Len(handles') : handles'[j] = handles[IF j <= w THEN j ELSE j + 1]
  BY <1>1, RemoveIs DEF Inv
<1>5. HandlesOK'
  <2> SUFFICES ASSUME NEW j \in 1..Len(handles')
               PROVE  HandleOK(handles'[j], Len(procs'), Len(posted'), segments')
    BY <1>4 DEF HandlesOK
  <2>1. (IF j <= w THEN j ELSE j + 1) \in 1..Len(handles)
    BY <1>2, <1>4
  <2>2. Len(procs') = Len(procs) /\ posted' = posted /\ segments' = segments
    BY <1>1, <1>3 DEF Calmer, ticketVars
  <2> QED
    BY <1>4, <2>1, <2>2 DEF Inv, HandlesOK
<1>6. ASSUME NEW i \in 1..Len(handles), handles[i].pid \in 1..Len(procs)
      PROVE  \/ \E j \in 1..Len(handles') : handles'[j].pid = handles[i].pid
             \/ ~procs'[handles[i].pid].up
             \/ Told(procs', handles[i].pid)
  <2>1. CASE i = w + 1
    BY <1>2, <1>3, <1>6, <2>1
  <2>2. CASE i # w + 1
    BY <1>4, <2>2
  <2> QED
    BY <2>1, <2>2
<1>7. ChildrenOK'
  BY <1>3, <1>6, ChildrenKept DEF Inv
<1>8. SchedOK'
  BY <1>1, CrashKeepsSched DEF Inv, ticketVars
<1>9. TicketsOK'
  <2>1. (\A ref \in refs' : ref.ticket \in 1..Len(posted)) /\ segments' \in Nat /\ next_target' \in Nat
    BY <1>1 DEF Inv, TicketsOK, ticketVars, resizeVars
  <2> QED
    BY <1>1, <2>1, TicketsKept DEF Inv, ticketVars
<1>10. DownOK'
  BY <1>1, DownKept DEF Inv
<1> QED
  BY <1>3, <1>5, <1>7, <1>8, <1>9, <1>10 DEF Inv, ProcsOK, Calmer

\* Stragglers are killed; no child comes to life.
LEMMA ShutdownFinishCalm ==
    ASSUME Inv, ShutdownFinish
    PROVE  /\ Calmer(procs, procs')
           /\ \A p \in 1..Len(procs) : \A w \in Workers : procs'[p].up => Handle(w).pid # p
<1> DEFINE Owned(p) == \E w \in Workers : Handle(w).pid = p
<1>1. procs' = [p \in DOMAIN procs |-> IF Owned(p) THEN Kill(procs, p)[p] ELSE procs[p]]
  BY DEF ShutdownFinish
<1> HIDE DEF Owned
<1>2. /\ Len(procs) \in Nat /\ DOMAIN procs = 1..Len(procs)
      /\ procs \in Seq(ProcType)
  BY LenProperties DEF Inv, ProcsOK
<1>3. ASSUME NEW p \in 1..Len(procs)
      PROVE  /\ procs'[p] = (IF Owned(p) THEN Kill(procs, p)[p] ELSE procs[p])
             /\ Calmer(procs, Kill(procs, p)) /\ ~Kill(procs, p)[p].up
             /\ Kill(procs, p)[p] \in ProcType /\ procs[p] \in ProcType
  <2>1. p \in 0..Len(procs) /\ p # 0 /\ p \in DOMAIN procs
    BY <1>2
  <2>2. Calmer(procs, Kill(procs, p)) /\ ~Kill(procs, p)[p].up
    BY <1>2, <2>1, KillIs
  <2>3. Kill(procs, p) \in Seq(ProcType) /\ Len(Kill(procs, p)) = Len(procs)
    BY <2>2 DEF Calmer
  <2>4. Kill(procs, p)[p] \in ProcType /\ procs[p] \in ProcType
    BY <1>2, <2>3, ElementOfSeq
  <2>5. procs'[p] = (IF Owned(p) THEN Kill(procs, p)[p] ELSE procs[p])
    BY <1>1, <2>1
  <2> QED
    BY <2>2, <2>4, <2>5
<1>4. procs' \in Seq(ProcType) /\ Len(procs') = Len(procs)
  <2>1. \A p \in 1..Len(procs) : (IF Owned(p) THEN Kill(procs, p)[p] ELSE procs[p]) \in ProcType
    BY <1>3
  <2>2. procs' = [p \in 1..Len(procs) |-> IF Owned(p) THEN Kill(procs, p)[p] ELSE procs[p]]
    BY <1>1, <1>2
  <2> QED
    BY <1>2, <2>1, <2>2, IsASeq, LenProperties
<1>5. ASSUME NEW p \in 1..Len(procs)
      PROVE  /\ procs'[p].worker = procs[p].worker /\ procs'[p].generation = procs[p].generation
             /\ procs'[p].up => procs[p].up /\ ~Owned(p)
             /\ Told(procs, p) => Told(procs', p)
  <2>1. CASE Owned(p)
    <3>1. procs'[p] = Kill(procs, p)[p] /\ Calmer(procs, Kill(procs, p)) /\ ~Kill(procs, p)[p].up
      BY <1>3, <2>1
    <3>2. Told(procs', p) <=> Told(Kill(procs, p), p)
      BY <3>1 DEF Told
    <3> QED
      BY <3>1, <3>2 DEF Calmer
  <2>2. CASE ~Owned(p)
    <3>1. procs'[p] = procs[p]
      BY <1>3, <2>2
    <3>2. Told(procs', p) <=> Told(procs, p)
      BY <3>1 DEF Told
    <3> QED
      BY <2>2, <3>1, <3>2
  <2> QED
    BY <2>1, <2>2
<1>6. \A p \in 1..Len(procs) : \A w \in Workers : procs'[p].up => Handle(w).pid # p
  BY <1>5 DEF Owned
<1> QED
  BY <1>4, <1>5, <1>6 DEF Calmer

LEMMA ShutdownFinishKeeps == ASSUME Inv, ShutdownFinish PROVE Inv'
<1>1. /\ handles' = [i \in DOMAIN handles |-> [handles[i] EXCEPT !.pid = 0]]
      /\ Complete(tickets, "cancelled") /\ pump.at = "idle"
      /\ UNCHANGED <<schedVars, segments, posted, refs, pump, resizeVars>>
  BY DEF ShutdownFinish, Locked
<1>2. Len(procs) \in Nat /\ Len(posted) \in Nat
  BY LenProperties DEF Inv, ProcsOK, TicketsOK
<1>3. procs' \in Seq(ProcType) /\ Len(procs') = Len(procs)
  BY ShutdownFinishCalm DEF Calmer
<1>4. ASSUME NEW p \in 1..Len(procs)
      PROVE  /\ procs'[p].up => procs[p].up /\ \A w \in Workers : Handle(w).pid # p
             /\ Told(procs, p) => Told(procs', p)
  BY ShutdownFinishCalm DEF Calmer
<1>5. /\ handles' \in Seq(HandleType) /\ Len(handles') = Len(handles)
      /\ \A i \in 1..Len(handles) : SameCredit(handles'[i], handles[i]) /\ handles'[i].pid = 0
  BY <1>1, ForgetIs DEF Inv
<1>6. HandlesOK'
  <2> SUFFICES ASSUME NEW i \in 1..Len(handles)
               PROVE  HandleOK(handles'[i], Len(procs'), Len(posted'), segments')
    BY <1>5 DEF HandlesOK
  <2>1. HandleOK(handles[i], Len(procs), Len(posted), segments)
    BY DEF Inv, HandlesOK
  <2>2. handles'[i] \in HandleType
    BY <1>5, ElementOfSeq
  <2>3. SameCredit(handles'[i], handles[i]) /\ handles'[i].pid = 0
    BY <1>5
  <2>4. Len(procs') \in Nat /\ UNCHANGED <<posted, segments>>
    BY <1>1, <1>2, <1>3
  <2> QED
    BY <2>1, <2>2, <2>3, <2>4 DEF HandleOK, SameCredit
<1>7. ChildrenOK'
  <2> SUFFICES ASSUME NEW p \in 1..Len(procs), procs'[p].up PROVE Told(procs', p)
    BY <1>3 DEF ChildrenOK
  <2>1. procs[p].up /\ (\A w \in Workers : Handle(w).pid # p) /\ (Told(procs, p) => Told(procs', p))
    BY <1>4
  <2>2. ~\E i \in 1..Len(handles) : handles[i].pid = p
    <3> SUFFICES ASSUME NEW i \in 1..Len(handles), handles[i].pid = p PROVE FALSE
      OBVIOUS
    <3>1. Len(handles) \in Nat
      BY LenProperties DEF Inv, HandlesOK
    <3>2. i - 1 \in Workers /\ Handle(i - 1) = handles[i]
      BY <3>1 DEF Workers, Handle
    <3> QED
      BY <2>1, <3>2
  <2> QED
    BY <2>1, <2>2 DEF Inv, ChildrenOK
<1>8. SchedOK'
  BY <1>1, <1>2, SchedShrinks DEF Inv, schedVars
<1>9. TicketsOK'
  <2>1. "cancelled" \in Answer \ {"open"}
    BY DEF Answer
  <2>2. (\A ref \in refs' : ref.ticket \in 1..Len(posted)) /\ segments' \in Nat /\ next_target' \in Nat
    BY <1>1 DEF Inv, TicketsOK, resizeVars
  <2> QED
    BY <1>1, <2>1, <2>2, CompleteKeeps DEF Inv
<1>10. DownOK'
  BY <1>1 DEF DownOK, Complete
<1> QED
  BY <1>3, <1>6, <1>7, <1>8, <1>9, <1>10 DEF Inv, ProcsOK

\* The target takes effect: handles and children are added at the end, or the
\* last ones are marked.
LEMMA ApplyKeeps ==
    ASSUME Inv, NEW n \in Nat, ApplyTarget(n), UNCHANGED ticketVars, DownOK'
    PROVE  Inv'
<1>1. /\ Len(handles) \in Nat /\ Len(procs) \in Nat /\ segments \in Nat /\ Len(posted) \in Nat
      /\ UNCHANGED posted
  BY LenProperties DEF Inv, HandlesOK, ProcsOK, TicketsOK, ticketVars
<1>2. next_target' \in Nat
  BY DEF ApplyTarget
<1>3. CASE target = n
  <2>1. UNCHANGED <<schedVars, poolVars>>
    BY <1>3 DEF ApplyTarget
  <2>2. CreditKept /\ Calmer(procs, procs')
    BY <2>1, CreditUnchanged, CalmerOrder DEF Inv, poolVars, ProcsOK
  <2> QED
    BY <1>2, <2>1, <2>2, QuietKeeps DEF poolVars
<1>4. CASE target # n
  <2>1. SetWorkerCount(n) /\ (IF n > Len(handles) THEN Grow(n) ELSE Shrink(n))
    BY <1>4 DEF ApplyTarget
  <2>2. SchedOK'
    BY <1>1, <2>1, ResizeKeepsSched DEF Inv
  <2>3. segments' \in Nat => TicketsOK'
    <3>1. \A ref \in refs' : ref.ticket \in 1..Len(posted)
      BY DEF Inv, TicketsOK, ticketVars
    <3> QED
      BY <1>2, <3>1, TicketsKept DEF Inv, ticketVars
  <2>4. CASE n > Len(handles)
    <3>1. PICK made \in Nat :
             /\ handles' \in Seq(HandleType) /\ Len(handles') = Len(handles) + made
             /\ procs' \in Seq(ProcType) /\ Len(procs') = Len(procs) + made
             /\ segments' = segments + made
             /\ \A i \in 1..Len(handles) : handles'[i] = handles[i]
             /\ \A i \in 1..Len(procs) : procs'[i] = procs[i]
             /\ \A i \in 1..made :
                  /\ handles'[Len(handles) + i] = NewHandle(0, Len(procs) + i, segments + i)
                  /\ procs'[Len(procs) + i] = NewProc(Len(handles) + i - 1, 0)
      BY <1>1, <2>1, <2>4, GrowIs DEF Inv
    <3>2. \A k \in 1..made : handles'[Len(handles) + k].pid = Len(procs) + k
      <4> SUFFICES ASSUME NEW k \in 1..made PROVE handles'[Len(handles) + k].pid = Len(procs) + k
        OBVIOUS
      <4>1. Len(procs) + k \in Nat /\ segments + k \in Nat /\ 0 \in Nat
        BY <1>1
      <4>2. PICK h : h = handles'[Len(handles) + k]
        OBVIOUS
      <4>3. h = NewHandle(0, Len(procs) + k, segments + k)
        BY <3>1, <4>2
      <4>4. h.pid = Len(procs) + k
        <5>1. PICK z \in Nat, a \in Nat, b \in Nat : z = 0 /\ a = Len(procs) + k /\ b = segments + k
          BY <4>1
        <5>2. h = NewHandle(z, a, b)
          BY <4>3, <5>1
        <5>3. h.pid = a
          BY <5>2, NewHandleIs
        <5> QED
          BY <5>1, <5>3
      <4> QED
        BY <4>2, <4>4
    <3>3. segments' \in Nat
      BY <1>1, <3>1
    <3>4. HandlesOK'
      <4> SUFFICES ASSUME NEW i \in 1..Len(handles')
                   PROVE  HandleOK(handles'[i], Len(procs'), Len(posted'), segments')
        BY <3>1 DEF HandlesOK
      <4>1. Len(procs') \in Nat /\ Len(procs) <= Len(procs') /\ segments <= segments' /\ Len(posted') = Len(posted)
        BY <1>1, <3>1
      <4>2. CASE i \in 1..Len(handles)
        <5>1. handles'[i] = handles[i] /\ HandleOK(handles[i], Len(procs), Len(posted), segments)
          BY <3>1, <4>2 DEF Inv, HandlesOK
        <5> QED
          BY <1>1, <3>3, <4>1, <5>1, HandleOKGrows
      <4>3. CASE i \notin 1..Len(handles)
        <5>1. i - Len(handles) \in 1..made /\ Len(handles) + (i - Len(handles)) = i
          BY <1>1, <3>1, <4>3
        <5>2. PICK k \in 1..made : i = Len(handles) + k
          BY <5>1
        <5>3. handles'[i] = NewHandle(0, Len(procs) + k, segments + k)
          BY <3>1, <5>2
        <5>4. PICK z \in Nat, a \in Nat, b \in Nat : z = 0 /\ a = Len(procs) + k /\ b = segments + k
          <6>1. Len(procs) + k \in Nat /\ segments + k \in Nat
            BY <1>1
          <6> QED
            BY <6>1
        <5>5. a <= Len(procs') /\ b <= segments'
          BY <1>1, <3>1, <5>2, <5>4
        <5>6. PICK h : h = handles'[i]
          OBVIOUS
        <5>7. h = NewHandle(z, a, b)
          BY <5>3, <5>4, <5>6
        <5>8. HandleOK(h, Len(procs'), Len(posted), segments')
          BY <1>1, <3>3, <4>1, <5>5, <5>7, NewHandleOK
        <5> QED
          BY <4>1, <5>6, <5>8
      <4> QED
        BY <4>2, <4>3
    <3>5. ChildrenOK'
      <4> SUFFICES ASSUME NEW p \in 1..Len(procs'), procs'[p].up
                   PROVE  (\E j \in 1..Len(handles') : handles'[j].pid = p) \/ Told(procs', p)
        BY DEF ChildrenOK
      <4>1. CASE p \in 1..Len(procs)
        <5>1. procs'[p] = procs[p] /\ (Told(procs', p) <=> Told(procs, p))
          BY <3>1, <4>1 DEF Told
        <5>2. (\E i \in 1..Len(handles) : handles[i].pid = p) \/ Told(procs, p)
          BY <4>1, <5>1 DEF Inv, ChildrenOK
        <5>3. 1..Len(handles) \subseteq 1..Len(handles')
          BY <1>1, <3>1
        <5> QED
          BY <3>1, <5>1, <5>2, <5>3
      <4>2. CASE p \notin 1..Len(procs)
        <5>1. p - Len(procs) \in 1..made /\ Len(procs) + (p - Len(procs)) = p
          BY <1>1, <3>1, <4>2
        <5>2. PICK k \in 1..made : p = Len(procs) + k
          BY <5>1
        <5>3. Len(handles) + k \in 1..Len(handles')
          BY <1>1, <3>1
        <5> QED
          BY <3>2, <5>2, <5>3
      <4> QED
        BY <4>1, <4>2
    <3> QED
      BY <2>2, <2>3, <3>1, <3>3, <3>4, <3>5 DEF Inv, ProcsOK
  <2>5. CASE ~(n > Len(handles))
    <3>1. Shrink(n)
      BY <2>1, <2>5
    <3>2. UNCHANGED <<procs, segments>>
      BY <3>1 DEF Shrink
    <3>3. CreditKept
      BY <3>1, ShrinkIs DEF Inv
    <3>4. Grows
      BY <1>1, <3>2 DEF Grows
    <3>5. HandlesOK'
      BY <3>3, <3>4, CreditKeeps DEF Inv
    <3>6. Calmer(procs, procs')
      BY <3>2, CalmerOrder DEF Inv, ProcsOK
    <3>7. \A i \in 1..Len(handles) : \E j \in 1..Len(handles') : handles'[j].pid = handles[i].pid
      BY <3>3 DEF CreditKept
    <3>8. ChildrenOK'
      BY <3>6, <3>7, ChildrenKept DEF Inv
    <3>9. TicketsOK' /\ ProcsOK'
      BY <1>1, <2>3, <3>2 DEF Inv, ProcsOK
    <3> QED
      BY <2>2, <3>5, <3>8, <3>9 DEF Inv
  <2> QED
    BY <2>4, <2>5
<1> QED
  BY <1>3, <1>4

LEMMA SetTargetKeeps == ASSUME Inv, NEW n \in Targets, SetTargetWorkers(n) PROVE Inv'
<1>1. n \in Nat /\ n # 0
  BY PoolAssumption
<1>2. shutting = "no" /\ UNCHANGED <<ticketVars, pump, shutting>>
  BY DEF SetTargetWorkers
<1>3. DownOK'
  BY <1>2 DEF DownOK
<1>4. CASE ApplyTarget(n)
  BY <1>1, <1>2, <1>3, <1>4, ApplyKeeps
<1>5. CASE ~ApplyTarget(n)
  <2>1. next_target' = (IF target # n THEN n ELSE next_target) /\ UNCHANGED <<schedVars, poolVars>>
    BY <1>5 DEF SetTargetWorkers
  <2>2. next_target' \in Nat
    BY <1>1, <2>1 DEF Inv, TicketsOK
  <2>3. CreditKept /\ Calmer(procs, procs')
    BY <2>1, CreditUnchanged, CalmerOrder DEF Inv, poolVars, ProcsOK
  <2> QED
    BY <1>2, <1>3, <2>1, <2>2, <2>3, QuietKeeps DEF poolVars
<1> QED
  BY <1>4, <1>5

LEMMA PumpResizeKeeps == ASSUME Inv, PumpResize PROVE Inv'
<1>1. pump.at # "idle" /\ UNCHANGED <<ticketVars, shutting>> /\ next_target \in Nat
  BY DEF PumpResize, Inv, TicketsOK
<1>2. DownOK'
  BY <1>1, DownKept DEF Inv
<1>3. CASE ApplyTarget(next_target)
  BY <1>1, <1>2, <1>3, ApplyKeeps
<1>4. CASE ~ApplyTarget(next_target)
  <2>1. UNCHANGED <<schedVars, poolVars, next_target>>
    BY <1>4 DEF PumpResize
  <2>2. CreditKept /\ Calmer(procs, procs')
    BY <2>1, CreditUnchanged, CalmerOrder DEF Inv, poolVars, ProcsOK
  <2> QED
    BY <1>1, <1>2, <2>1, <2>2, QuietKeeps DEF poolVars
<1> QED
  BY <1>3, <1>4

--------------------------------------------------------------------------------
(* The invariant and the theorems                                          *)

LEMMA InitInv == ASSUME Init PROVE Inv
<1>0. InitialWorkers \in Nat \ {0} /\ BatchSize \in Nat \ {0}
  BY PoolAssumption
<1>1. SchedOK
  <2>1. pending = {} /\ claimed = {} /\ workers = InitialWorkers /\ batch_size = BatchSize
    BY <1>0 DEF Init, New, AtLeastOne
  <2>2. IsFiniteSet({})
    BY FS_EmptySet
  <2> QED
    BY <1>0, <2>1, <2>2 DEF SchedOK, SchedTypeOK
<1>2. ASSUME NEW i \in 1..InitialWorkers
      PROVE  LET h == [NewHandle(0, i, i) EXCEPT !.state = "Alive"]
             IN  h \in HandleType /\ HandleOK(h, InitialWorkers, 0, InitialWorkers) /\ h.pid = i
  <2>1. 0 \in Nat /\ i \in Nat
    BY <1>0
  <2>2. PICK g : g = NewHandle(0, i, i)
    OBVIOUS
  <2>3. /\ g \in HandleType /\ g.pid = i /\ g.segment = i /\ g.out = {} /\ g.held = {}
        /\ g.free = Slots /\ g.slots = Slots
    <3>1. PICK z \in Nat : z = 0
      OBVIOUS
    <3>2. g = NewHandle(z, i, i)
      BY <2>2, <3>1
    <3> QED
      BY <2>1, <3>2, NewHandleIs
  <2> DEFINE h == [g EXCEPT !.state = "Alive"]
  <2>4. /\ h \in HandleType /\ h.pid = i /\ h.segment = i /\ h.out = {} /\ h.held = {}
        /\ h.free = Slots /\ h.slots = Slots
    BY <2>3 DEF HandleType, HandleState
  <2> HIDE DEF h
  <2>5. IsFiniteSet({}) /\ Cardinality({}) = 0
    BY FS_EmptySet
  <2>6. HandleOK(h, InitialWorkers, 0, InitialWorkers)
    BY <1>0, <2>1, <2>4, <2>5, PoolAssumption DEF HandleOK
  <2> QED
    BY <2>2, <2>4, <2>6 DEF h
<1>3. /\ handles \in Seq(HandleType) /\ Len(handles) = InitialWorkers
      /\ \A i \in 1..InitialWorkers :
           /\ HandleOK(handles[i], InitialWorkers, 0, InitialWorkers) /\ handles[i].pid = i
  <2> DEFINE h(i) == [NewHandle(0, i, i) EXCEPT !.state = "Alive"]
  <2>1. handles = [i \in 1..InitialWorkers |-> h(i)]
    BY DEF Init
  <2>2. \A i \in 1..InitialWorkers :
           h(i) \in HandleType /\ HandleOK(h(i), InitialWorkers, 0, InitialWorkers) /\ h(i).pid = i
    BY <1>2
  <2> HIDE DEF h
  <2> QED
    BY <1>0, <2>1, <2>2, IsASeq, LenProperties
<1>4. procs \in Seq(ProcType) /\ Len(procs) = InitialWorkers
  <2> DEFINE h(i) == [NewProc(i - 1, 0) EXCEPT !.pipe = <<>>]
  <2>1. procs = [i \in 1..InitialWorkers |-> h(i)]
    BY DEF Init
  <2>2. ASSUME NEW i \in 1..InitialWorkers PROVE h(i) \in ProcType
    <3>1. i - 1 \in Nat /\ 0 \in Nat
      BY <1>0
    <3>2. PICK g \in ProcType : g = NewProc(i - 1, 0)
      BY <3>1, NewProcIs
    <3>3. <<>> \in Seq(EventType)
      OBVIOUS
    <3>4. [g EXCEPT !.pipe = <<>>] \in ProcType
      BY <3>3 DEF ProcType
    <3> QED
      BY <3>2, <3>4
  <2> HIDE DEF h
  <2> QED
    BY <1>0, <2>1, <2>2, IsASeq, LenProperties
<1>5. /\ posted = <<>> /\ Len(posted) = 0 /\ segments = InitialWorkers /\ tickets = {} /\ answer = <<>>
      /\ refs = {} /\ next_target = 0 /\ pump.at = "idle"
  BY DEF Init
<1>6. HandlesOK
  BY <1>3, <1>4, <1>5 DEF HandlesOK
<1>7. TicketsOK
  BY <1>0, <1>5 DEF TicketsOK
<1>8. DownOK
  BY <1>5 DEF DownOK
<1>9. ChildrenOK
  BY <1>3, <1>4 DEF ChildrenOK
<1> QED
  BY <1>1, <1>4, <1>6, <1>7, <1>8, <1>9 DEF Inv, ProcsOK

LEMMA Unmoved == ASSUME Inv, UNCHANGED vars PROVE Inv'
<1>1. CreditKept /\ Calmer(procs, procs')
  BY CreditUnchanged, CalmerOrder DEF Inv, vars, poolVars, ProcsOK
<1>2. DownOK'
  BY DEF Inv, DownOK, vars, ticketVars
<1>3. next_target' \in Nat /\ UNCHANGED <<schedVars, ticketVars, segments>>
  BY DEF Inv, TicketsOK, vars, poolVars, resizeVars
<1> QED
  BY <1>1, <1>2, <1>3, QuietKeeps

LEMMA StepInv == ASSUME Inv, [Next]_vars PROVE Inv'
<1>1. CASE UNCHANGED vars
  BY <1>1, Unmoved
<1>2. ASSUME NEW job \in Jobs, Post(job) PROVE Inv'
  BY <1>2, PostKeeps
<1>3. ASSUME NEW key \in Key, CancelFrame(key) PROVE Inv'
  BY <1>3, CancelFrameKeeps
<1>4. ASSUME NEW sequence, CancelPreviewSequence(sequence) PROVE Inv'
  BY <1>4, CancelSequenceKeeps
<1>5. ASSUME NEW ref \in refs, ReleaseFrame(ref) PROVE Inv'
  BY <1>5, ReleaseKeeps
<1>6. ASSUME NEW n \in Targets, SetTargetWorkers(n) PROVE Inv'
  BY <1>6, SetTargetKeeps
<1>7. CASE Poll \/ StalePoll \/ ShutdownPump
  BY <1>7, PhaseKeeps
<1>8. CASE ShutdownBegin \/ ShutdownFinish
  BY <1>8, ShutdownBeginKeeps, ShutdownFinishKeeps
<1>9. CASE PumpStep
  <2>1. ASSUME NEW w \in Workers, RestartWorker(w) \/ RebuildSegment(w) \/ RebuildFails(w)
                                    \/ DispatchBatch(w) \/ Reap(w)
        PROVE  Inv'
    BY <2>1, RestartKeeps, RebuildKeeps, PhaseKeeps, DispatchKeeps, ReapKeeps
  <2> QED
    BY <1>9, <2>1, PumpResizeKeeps, PhaseKeeps, DispatchDoneKeeps DEF PumpStep
<1>10. ASSUME NEW p \in DOMAIN procs, Drain(p) PROVE Inv'
  BY <1>10, DropKeeps, OnHandshakeKeeps, StateEventsKeep, OnFrameReadyKeeps, OnFrameFailedKeeps DEF Drain
<1>11. ASSUME NEW p \in DOMAIN procs, ProcStep(p) \/ ProcCrash(p) PROVE Inv'
  BY <1>11, ChildCalm, ChildKeeps DEF ChildOnly
<1> QED
  BY <1>1, <1>2, <1>3, <1>4, <1>5, <1>6, <1>7, <1>8, <1>9, <1>10, <1>11 DEF Next

THEOREM Inductive == Safety => []Inv
<1>1. Init => Inv
  BY InitInv
<1>2. Inv /\ [Next]_vars => Inv'
  BY StepInv
<1> QED
  BY <1>1, <1>2, PTL DEF Safety

\* The dispatcher is well typed in every reachable state.
THEOREM PoolTypeCorrect == Safety => []TypeOK
<1>1. ASSUME Inv PROVE TypeOK
  <2>1. DOMAIN posted = 1..Len(posted) /\ DOMAIN handles = 1..Len(handles)
    BY <1>1, LenProperties DEF Inv, TicketsOK, HandlesOK
  <2>2. ASSUME NEW i \in 1..Len(handles)
        PROVE  /\ handles[i].state \in {"Starting", "Alive", "Dead", "PermanentlyDead"}
               /\ handles[i].pid \in 0..Len(procs)
               /\ handles[i].free \in 0..handles[i].slots
               /\ handles[i].out \cup handles[i].held \subseteq 1..Len(posted)
    <3>1. PICK h \in HandleType : h = handles[i] /\ HandleOK(h, Len(procs), Len(posted), segments)
      BY <1>1 DEF Inv, HandlesOK, HandleOK
    <3>2. h.state \in {"Starting", "Alive", "Dead", "PermanentlyDead"} /\ h.pid \in 0..Len(procs)
          /\ h.out \cup h.held \subseteq 1..Len(posted)
      BY <1>1, <3>1, LenProperties DEF HandleOK, HandleType, HandleState, Inv, ProcsOK
    <3>3. Cardinality(h.out) \in Nat /\ Cardinality(h.held) \in Nat /\ h.free \in Nat /\ h.slots \in Nat
      BY <3>1, FS_CardinalityType DEF HandleOK, HandleType
    <3>4. h.free \in 0..h.slots
      BY <3>1, <3>3 DEF HandleOK
    <3> QED
      BY <3>1, <3>2, <3>4
  <2> QED
    BY <1>1, <2>1, <2>2 DEF TypeOK, Inv, SchedOK, TicketsOK, Answer
<1> QED
  BY <1>1, Inductive, PTL

\* Every running child has a handle or was told to exit.
THEOREM ChildrenOwned == Safety => []NoOrphans
<1>1. ASSUME Inv PROVE NoOrphans
  <2>1. DOMAIN procs = 1..Len(procs) /\ Len(handles) \in Nat
    BY <1>1, LenProperties DEF Inv, ProcsOK, HandlesOK
  <2> SUFFICES ASSUME NEW p \in 1..Len(procs), procs[p].up
               PROVE  \/ \E w \in Workers : Handle(w).pid = p
                      \/ \E i \in DOMAIN procs[p].inbox : procs[p].inbox[i].type = "shutdown"
    BY <2>1 DEF NoOrphans
  <2>2. ASSUME NEW i \in 1..Len(handles), handles[i].pid = p
        PROVE  \E w \in Workers : Handle(w).pid = p
    <3>1. i - 1 \in Workers /\ Handle(i - 1) = handles[i]
      BY <2>1 DEF Workers, Handle
    <3> QED
      BY <2>2, <3>1
  <2>3. procs[p] \in ProcType
    BY <1>1, ElementOfSeq DEF Inv, ProcsOK
  <2>4. procs[p].inbox \in Seq(MessageType)
    BY <2>3 DEF ProcType
  <2>5. DOMAIN procs[p].inbox = 1..Len(procs[p].inbox)
    BY <2>4, LenProperties
  <2> QED
    BY <1>1, <2>2, <2>5 DEF Inv, ChildrenOK, Told
<1> QED
  BY <1>1, Inductive, PTL

\* Once shutdown has returned, every ticket ever posted has an answer.
THEOREM ShutdownComplete == Safety => []ShutdownAnswersAll
<1>1. ASSUME Inv PROVE ShutdownAnswersAll
  <2>1. DOMAIN posted = 1..Len(posted)
    BY <1>1, LenProperties DEF Inv, TicketsOK
  <2> QED
    BY <1>1, <2>1 DEF Inv, TicketsOK, DownOK, ShutdownAnswersAll
<1> QED
  BY <1>1, Inductive, PTL

--------------------------------------------------------------------------------
(* Scheduler, tickets and handles, linked                                  *)

\* The requests of the scheduler are the open tickets, under the keys they were
\* posted with.
RequestsOK ==
    /\ \A e \in pending : e.request.payload \in tickets /\ e.request.key = posted[e.request.payload].key
    /\ \A c \in claimed : c.request.payload \in tickets /\ c.request.key = posted[c.request.payload].key
    /\ \A t \in tickets : \/ \E e \in pending : e.request.payload = t
                          \/ \E c \in claimed : c.request.payload = t

\* A claim is outstanding with the worker that holds it, and what a worker has
\* outstanding is claimed by it or no longer open.
ClaimsOut ==
    \A c \in claimed : c.worker + 1 \in 1..Len(handles) /\ c.request.payload \in handles[c.worker + 1].out
OutClaimed ==
    \A i \in 1..Len(handles) : \A t \in handles[i].out :
        t \in tickets => \E c \in claimed : c.worker + 1 = i /\ c.request.payload = t

Links == OneHomePerKey /\ RequestsOK /\ ClaimsOut /\ OutClaimed
LinksOK == shutting # "down" => Links

\* An open ticket is under one key with one request.
LEMMA OneRequest ==
    ASSUME Links
    PROVE  /\ \A e, f \in pending : e.request.payload = f.request.payload => e = f
           /\ \A c, d \in claimed : c.request.payload = d.request.payload => c = d
           /\ \A e \in pending, c \in claimed : e.request.payload # c.request.payload
  BY DEF Links, RequestsOK, OneHomePerKey

\* The scheduler and the tickets stay, the outstanding frames too; what is new has none.
OutKept ==
    /\ \A i \in 1..Len(handles) : i \in 1..Len(handles') /\ handles'[i].out = handles[i].out
    /\ \A i \in 1..Len(handles') : i \in 1..Len(handles) \/ handles'[i].out = {}

LEMMA LinksStay ==
    ASSUME Links, OutKept, UNCHANGED <<pending, claimed, posted, tickets>>
    PROVE  Links'
<1>1. OneHomePerKey' /\ RequestsOK'
  BY DEF Links, OneHomePerKey, RequestsOK
<1>2. ClaimsOut'
  BY DEF Links, ClaimsOut, OutKept
<1>3. OutClaimed'
  BY DEF Links, OutClaimed, OutKept
<1> QED
  BY <1>1, <1>2, <1>3 DEF Links

\* Some open tickets are answered and their requests dropped; a handle may lose
\* frames that are no longer open.
Dropped(ids) ==
    /\ pending' = {e \in pending : e.request.payload \notin ids}
    /\ claimed' = {c \in claimed : c.request.payload \notin ids}
    /\ tickets' = tickets \ ids
    /\ UNCHANGED posted
OpenKept ==
    /\ Len(handles') = Len(handles)
    /\ \A i \in 1..Len(handles) : \A t \in tickets' : t \in handles'[i].out <=> t \in handles[i].out

LEMMA LinksDrop ==
    ASSUME Links, NEW ids, Dropped(ids), OpenKept,
           \A i \in 1..Len(handles) : handles'[i].out \subseteq handles[i].out
    PROVE  Links'
<1>1. OneHomePerKey'
  BY DEF Links, OneHomePerKey, Dropped
<1>2. RequestsOK'
  BY DEF Links, RequestsOK, Dropped
<1>3. ClaimsOut'
  <2> SUFFICES ASSUME NEW c \in claimed'
               PROVE  c.worker + 1 \in 1..Len(handles) /\ c.request.payload \in handles'[c.worker + 1].out
    BY DEF ClaimsOut, OpenKept
  <2>1. c \in claimed /\ c.request.payload \in tickets'
    BY DEF Links, RequestsOK, Dropped
  <2>2. c.worker + 1 \in 1..Len(handles) /\ c.request.payload \in handles[c.worker + 1].out
    BY <2>1 DEF Links, ClaimsOut
  <2> QED
    BY <2>1, <2>2 DEF OpenKept
<1>4. OutClaimed'
  <2> SUFFICES ASSUME NEW i \in 1..Len(handles), NEW t \in handles'[i].out, t \in tickets'
               PROVE  \E c \in claimed' : c.worker + 1 = i /\ c.request.payload = t
    BY DEF OutClaimed, OpenKept
  <2>1. t \in handles[i].out /\ t \in tickets /\ t \notin ids
    BY DEF OpenKept, Dropped
  <2>2. PICK c \in claimed : c.worker + 1 = i /\ c.request.payload = t
    BY <2>1 DEF Links, OutClaimed
  <2> QED
    BY <2>1, <2>2 DEF Dropped
<1> QED
  BY <1>1, <1>2, <1>3, <1>4 DEF Links

\* The claims of a worker return to the queue, and the worker has nothing
\* outstanding any more or was the last one and is gone.
Returns(w) ==
    /\ \A i \in 1..Len(handles') : i \in 1..Len(handles)
                                   /\ handles'[i].out = (IF i = w + 1 THEN {} ELSE handles[i].out)
    /\ \A i \in 1..Len(handles) : i \in 1..Len(handles') \/ i = w + 1

LEMMA LinksReturn ==
    ASSUME Links, SchedOK, NEW w \in Workers, WorkerCrashed(w), Returns(w), UNCHANGED <<posted, tickets>>
    PROVE  Links'
<1>1. /\ \A c \in claimed' : c \in claimed /\ c.worker # w
      /\ \A c \in claimed : c.worker = w \/ c \in claimed'
      /\ \A e \in pending : e \in pending'
      /\ \A e \in pending' : e \in pending \/ \E c \in claimed : /\ c.worker = w
                                                                 /\ e = [request |-> c.request, any_worker |-> TRUE]
      /\ \A c \in claimed : c.worker = w => \E e \in pending' : e.request = c.request
  <2>1. claimed' = {c \in claimed : c.worker # w}
    BY DEF WorkerCrashed, ClaimsOf
  <2>2. pending' = pending \cup {[request |-> c.request, any_worker |-> TRUE] : c \in {d \in claimed : d.worker = w}}
    BY DEF WorkerCrashed, ClaimsOf
  <2>3. ASSUME NEW c \in claimed, c.worker = w PROVE \E e \in pending' : e.request = c.request
    <3>1. [request |-> c.request, any_worker |-> TRUE] \in pending'
      BY <2>2, <2>3
    <3> QED
      BY <3>1
  <2>4. ASSUME NEW e \in pending', e \notin pending
        PROVE  \E c \in claimed : c.worker = w /\ e = [request |-> c.request, any_worker |-> TRUE]
    BY <2>2, <2>4
  <2> QED
    BY <2>1, <2>2, <2>3, <2>4
<1>2. OneHomePerKey'
  <2>0. OneHomePerKey
    BY DEF Links
  <2>1. \A c, d \in claimed' : c.request.key = d.request.key => c = d
    BY <1>1, <2>0 DEF OneHomePerKey
  <2>2. ASSUME NEW e \in pending', NEW f \in pending', e.request.key = f.request.key PROVE e = f
    <3>1. CASE e \in pending /\ f \in pending
      BY <2>0, <2>2, <3>1 DEF OneHomePerKey
    <3>2. CASE e \notin pending /\ f \notin pending
      <4>1. PICK c \in claimed : e = [request |-> c.request, any_worker |-> TRUE]
        BY <1>1, <3>2
      <4>2. PICK d \in claimed : f = [request |-> d.request, any_worker |-> TRUE]
        BY <1>1, <3>2
      <4>3. c = d
        BY <2>0, <2>2, <4>1, <4>2 DEF OneHomePerKey
      <4> QED
        BY <4>1, <4>2, <4>3
    <3>3. CASE e \in pending /\ f \notin pending
      <4>1. PICK d \in claimed : f = [request |-> d.request, any_worker |-> TRUE]
        BY <1>1, <3>3
      <4> QED
        BY <2>0, <2>2, <3>3, <4>1 DEF OneHomePerKey
    <3>4. CASE e \notin pending /\ f \in pending
      <4>1. PICK c \in claimed : e = [request |-> c.request, any_worker |-> TRUE]
        BY <1>1, <3>4
      <4> QED
        BY <2>0, <2>2, <3>4, <4>1 DEF OneHomePerKey
    <3> QED
      BY <3>1, <3>2, <3>3, <3>4
  <2>3. ASSUME NEW e \in pending', NEW d \in claimed' PROVE e.request.key # d.request.key
    <3>1. CASE e \in pending
      BY <1>1, <2>0, <3>1 DEF OneHomePerKey
    <3>2. CASE e \notin pending
      <4>1. PICK c \in claimed : c.worker = w /\ e = [request |-> c.request, any_worker |-> TRUE]
        BY <1>1, <3>2
      <4>2. c # d
        BY <1>1, <4>1
      <4> QED
        BY <1>1, <2>0, <4>1, <4>2 DEF OneHomePerKey
    <3> QED
      BY <3>1, <3>2
  <2> QED
    BY <2>1, <2>2, <2>3 DEF OneHomePerKey
<1>3. RequestsOK'
  <2>0. RequestsOK
    BY DEF Links
  <2>1. \A c \in claimed' : c.request.payload \in tickets' /\ c.request.key = posted'[c.request.payload].key
    BY <1>1, <2>0 DEF RequestsOK
  <2>2. ASSUME NEW e \in pending'
        PROVE  e.request.payload \in tickets' /\ e.request.key = posted'[e.request.payload].key
    <3>1. CASE e \in pending
      BY <2>0, <3>1 DEF RequestsOK
    <3>2. CASE e \notin pending
      <4>1. PICK c \in claimed : e = [request |-> c.request, any_worker |-> TRUE]
        BY <1>1, <3>2
      <4> QED
        BY <2>0, <4>1 DEF RequestsOK
    <3> QED
      BY <3>1, <3>2
  <2>3. ASSUME NEW t \in tickets'
        PROVE  (\E e \in pending' : e.request.payload = t) \/ (\E c \in claimed' : c.request.payload = t)
    <3>1. CASE \E e \in pending : e.request.payload = t
      BY <1>1, <3>1
    <3>2. CASE \E c \in claimed : c.request.payload = t
      <4>1. PICK c \in claimed : c.request.payload = t
        BY <3>2
      <4>2. CASE c.worker = w
        <5>1. PICK e \in pending' : e.request = c.request
          BY <1>1, <4>2
        <5> QED
          BY <4>1, <5>1
      <4> QED
        BY <1>1, <4>1, <4>2
    <3> QED
      BY <2>0, <3>1, <3>2 DEF RequestsOK
  <2> QED
    BY <2>1, <2>2, <2>3 DEF RequestsOK
<1>4. w \in Int /\ \A c \in claimed : c.worker \in Int
  BY DEF SchedOK, SchedTypeOK, Claim, Workers
<1>5. ClaimsOut'
  <2> SUFFICES ASSUME NEW c \in claimed'
               PROVE  c.worker + 1 \in 1..Len(handles') /\ c.request.payload \in handles'[c.worker + 1].out
    BY DEF ClaimsOut
  <2>1. c \in claimed /\ c.worker # w /\ c.worker + 1 # w + 1
    BY <1>1, <1>4
  <2>2. c.worker + 1 \in 1..Len(handles) /\ c.request.payload \in handles[c.worker + 1].out
    BY <2>1 DEF Links, ClaimsOut
  <2> QED
    BY <2>1, <2>2 DEF Returns
<1>6. OutClaimed'
  <2> SUFFICES ASSUME NEW i \in 1..Len(handles'), NEW t \in handles'[i].out, t \in tickets
               PROVE  \E c \in claimed' : c.worker + 1 = i /\ c.request.payload = t
    BY DEF OutClaimed
  <2>1. i \in 1..Len(handles) /\ i # w + 1 /\ t \in handles[i].out
    BY DEF Returns
  <2>2. PICK c \in claimed : c.worker + 1 = i /\ c.request.payload = t
    BY <2>1 DEF Links, OutClaimed
  <2>3. c.worker # w
    BY <1>4, <2>1, <2>2
  <2> QED
    BY <1>1, <2>2, <2>3
<1> QED
  BY <1>2, <1>3, <1>5, <1>6 DEF Links

\* A batch is claimed: none of its keys was in flight.
LEMMA LinksClaim ==
    ASSUME Links, SchedOK, HandlesOK, NEW w \in Workers, NEW batch \in SUBSET pending, ClaimBatch(w, batch),
           NEW new, HandleStep(w, new),
           new.out = Handle(w).out \cup {e.request.payload : e \in batch},
           UNCHANGED <<posted, tickets>>
    PROVE  Links'
<1> DEFINE claim(e) == [worker |-> w, request |-> e.request]
<1>0. OneHomePerKey /\ RequestsOK
  BY DEF Links
<1>1. /\ \A c \in claimed : c \in claimed'
      /\ \A c \in claimed' : c \in claimed \/ \E e \in batch : c = claim(e)
      /\ \A e \in batch : claim(e) \in claimed'
      /\ \A e \in pending' : e \in pending /\ e \notin batch
      /\ \A e \in pending : e \in batch \/ e \in pending'
  <2>1. claimed' = (claimed \ UNION {ClaimsUnder(e.request.key) : e \in batch}) \cup {claim(e) : e \in batch}
        /\ pending' = pending \ batch
    BY DEF ClaimBatch
  <2>2. \A e \in batch : ClaimsUnder(e.request.key) = {}
    BY <1>0 DEF ClaimsUnder, OneHomePerKey
  <2>3. UNION {ClaimsUnder(e.request.key) : e \in batch} = {}
    BY <2>2
  <2> HIDE DEF claim
  <2> QED
    BY <2>1, <2>3
<1>2. \A e \in batch : e \in pending /\ claim(e).request = e.request /\ claim(e).worker = w
  OBVIOUS
<1> HIDE DEF claim
<1>3. OneHomePerKey'
  <2>1. \A e, f \in pending' : e.request.key = f.request.key => e = f
    BY <1>0, <1>1 DEF OneHomePerKey
  <2>2. ASSUME NEW c \in claimed', NEW d \in claimed', c.request.key = d.request.key PROVE c = d
    <3>1. CASE c \in claimed /\ d \in claimed
      BY <1>0, <2>2, <3>1 DEF OneHomePerKey
    <3>2. CASE c \in claimed /\ d \notin claimed
      BY <1>0, <1>1, <1>2, <2>2, <3>2 DEF OneHomePerKey
    <3>3. CASE c \notin claimed /\ d \in claimed
      BY <1>0, <1>1, <1>2, <2>2, <3>3 DEF OneHomePerKey
    <3>4. CASE c \notin claimed /\ d \notin claimed
      <4>1. PICK e \in batch, f \in batch : c = claim(e) /\ d = claim(f)
        BY <1>1, <3>4
      <4>2. e = f
        BY <1>0, <1>2, <2>2, <4>1 DEF OneHomePerKey
      <4> QED
        BY <4>1, <4>2
    <3> QED
      BY <3>1, <3>2, <3>3, <3>4
  <2>3. ASSUME NEW e \in pending', NEW d \in claimed' PROVE e.request.key # d.request.key
    <3>1. CASE d \in claimed
      BY <1>0, <1>1, <3>1 DEF OneHomePerKey
    <3>2. CASE d \notin claimed
      <4>1. PICK f \in batch : d = claim(f)
        BY <1>1, <3>2
      <4> QED
        BY <1>0, <1>1, <1>2, <4>1 DEF OneHomePerKey
    <3> QED
      BY <3>1, <3>2
  <2> QED
    BY <2>1, <2>2, <2>3 DEF OneHomePerKey
<1>4. RequestsOK'
  <2>1. \A e \in pending' : e.request.payload \in tickets' /\ e.request.key = posted'[e.request.payload].key
    BY <1>0, <1>1 DEF RequestsOK
  <2>2. ASSUME NEW c \in claimed'
        PROVE  c.request.payload \in tickets' /\ c.request.key = posted'[c.request.payload].key
    <3>1. CASE c \in claimed
      BY <1>0, <3>1 DEF RequestsOK
    <3>2. CASE c \notin claimed
      BY <1>0, <1>1, <1>2, <3>2 DEF RequestsOK
    <3> QED
      BY <3>1, <3>2
  <2>3. ASSUME NEW t \in tickets'
        PROVE  (\E e \in pending' : e.request.payload = t) \/ (\E c \in claimed' : c.request.payload = t)
    <3>1. ASSUME NEW e \in pending, e.request.payload = t
          PROVE  (\E f \in pending' : f.request.payload = t) \/ (\E c \in claimed' : c.request.payload = t)
      <4>1. CASE e \in batch
        BY <1>1, <1>2, <3>1, <4>1
      <4>2. CASE e \notin batch
        BY <1>1, <3>1, <4>2
      <4> QED
        BY <4>1, <4>2
    <3> QED
      BY <1>0, <1>1, <3>1 DEF RequestsOK
  <2> QED
    BY <2>1, <2>2, <2>3 DEF RequestsOK
<1>5. /\ w + 1 \in 1..Len(handles) /\ Handle(w) = handles[w + 1] /\ w \in Nat
      /\ Len(handles') = Len(handles) /\ handles'[w + 1] = new
      /\ \A i \in 1..Len(handles) : i # w + 1 => handles'[i] = handles[i]
  BY WorkerHandle DEF HandleStep
<1>6. \A i \in 1..Len(handles) : handles[i].out \subseteq handles'[i].out
  BY <1>5
<1>7. \A e \in batch : e.request.payload \in handles'[w + 1].out
  BY <1>5
<1>8. ClaimsOut'
  <2> SUFFICES ASSUME NEW c \in claimed'
               PROVE  c.worker + 1 \in 1..Len(handles) /\ c.request.payload \in handles'[c.worker + 1].out
    BY <1>5 DEF ClaimsOut
  <2>1. CASE c \in claimed
    BY <1>6, <2>1 DEF Links, ClaimsOut
  <2>2. CASE c \notin claimed
    <3>1. PICK e \in batch : c = claim(e)
      BY <1>1, <2>2
    <3> QED
      BY <1>2, <1>5, <1>7, <3>1
  <2> QED
    BY <2>1, <2>2
<1>9. OutClaimed'
  <2> SUFFICES ASSUME NEW i \in 1..Len(handles), NEW t \in handles'[i].out, t \in tickets
               PROVE  \E c \in claimed' : c.worker + 1 = i /\ c.request.payload = t
    BY <1>5 DEF OutClaimed
  <2>1. CASE t \in handles[i].out
    BY <1>1, <2>1 DEF Links, OutClaimed
  <2>2. CASE t \notin handles[i].out
    <3>1. i = w + 1 /\ \E e \in batch : e.request.payload = t
      BY <1>5, <2>2
    <3>2. PICK e \in batch : e.request.payload = t
      BY <3>1
    <3> QED
      BY <1>1, <1>2, <3>1, <3>2
  <2> QED
    BY <2>1, <2>2
<1> QED
  BY <1>3, <1>4, <1>8, <1>9 DEF Links

\* The ticket of a request that is new is open: the request is queued, or the key was
\* in flight and the ticket is answered at once.
LEMMA LinksPost ==
    ASSUME Inv, Links, NEW job \in Jobs, Post(job)
    PROVE  Links'
<1> DEFINE id == Len(posted) + 1
           request == [key |-> job.key, priority |-> job.priority, distance |-> 0,
                       payload |-> id, slot_bytes |-> job.slot_bytes]
           entry == [request |-> request, any_worker |-> request.priority = Seek]
           back == Payloads(HandedBack(request)) \cap (tickets \cup {id})
<1>0. OneHomePerKey /\ RequestsOK
  BY DEF Links
<1>1. /\ Len(posted) \in Nat /\ tickets \subseteq 1..Len(posted) /\ id \notin tickets /\ id \notin 1..Len(posted)
  BY LenProperties DEF Inv, TicketsOK
<1>2. /\ posted' = Append(posted, job)
      /\ tickets' = (tickets \cup {id}) \ back
      /\ pending' = IF ClaimsUnder(job.key) # {} THEN pending ELSE (pending \ PendingUnder(job.key)) \cup {entry}
      /\ claimed' = claimed /\ handles' = handles
  BY DEF Post, Submit, poolVars
<1>3. posted'[id] = job /\ \A t \in 1..Len(posted) : posted'[t] = posted[t]
  BY <1>1, <1>2, AppendProperties DEF Inv, TicketsOK
<1>4. back = IF ClaimsUnder(job.key) # {} THEN {id}
             ELSE {e.request.payload : e \in PendingUnder(job.key)}
  <2>1. CASE ClaimsUnder(job.key) # {}
    <3>1. HandedBack(request) = {request} /\ request.payload = id
      BY <2>1 DEF HandedBack
    <3> HIDE DEF request
    <3> QED
      BY <2>1, <3>1 DEF Payloads
  <2>2. CASE ClaimsUnder(job.key) = {}
    <3>1. HandedBack(request) = {e.request : e \in PendingUnder(job.key)}
      BY <2>2 DEF HandedBack
    <3>2. \A e \in PendingUnder(job.key) : e.request.payload \in tickets
      BY <1>0 DEF PendingUnder, RequestsOK
    <3> HIDE DEF request
    <3>3. Payloads(HandedBack(request)) = {e.request.payload : e \in PendingUnder(job.key)}
      BY <3>1 DEF Payloads
    <3> QED
      BY <2>2, <3>2, <3>3
  <2> QED
    BY <2>1, <2>2
<1>5. entry.request.key = job.key /\ entry.request.payload = id
  OBVIOUS
<1> HIDE DEF id, request, entry, back
<1>6. OutKept /\ \A i \in 1..Len(handles) : \A t \in handles[i].out : t \in 1..Len(posted)
  BY <1>2 DEF OutKept, Inv, HandlesOK, HandleOK
<1>7. CASE ClaimsUnder(job.key) # {}
  <2>1. tickets' = tickets /\ pending' = pending
    BY <1>1, <1>2, <1>4, <1>7
  <2>2. OneHomePerKey'
    BY <1>0, <1>2, <2>1 DEF OneHomePerKey
  <2>3. RequestsOK'
    BY <1>0, <1>1, <1>2, <1>3, <2>1 DEF RequestsOK
  <2>4. ClaimsOut' /\ OutClaimed'
    BY <1>2, <2>1 DEF Links, ClaimsOut, OutClaimed
  <2> QED
    BY <2>2, <2>3, <2>4 DEF Links
<1>8. CASE ClaimsUnder(job.key) = {}
  <2>1. /\ \A e \in pending' : (e \in pending /\ e.request.key # job.key) \/ e = entry
        /\ \A e \in pending : e.request.key # job.key => e \in pending'
        /\ entry \in pending'
        /\ \A c \in claimed : c.request.key # job.key
    BY <1>2, <1>8 DEF PendingUnder, ClaimsUnder
  <2>2. /\ \A t \in tickets' : t = id \/ (t \in tickets /\ \A e \in pending : e.request.key = job.key => e.request.payload # t)
        /\ id \in tickets'
        /\ \A t \in tickets : t \in tickets' \/ \E e \in pending : e.request.key = job.key /\ e.request.payload = t
    <3>1. \A t : t \in back <=> \E e \in pending : e.request.key = job.key /\ e.request.payload = t
      BY <1>4, <1>8 DEF PendingUnder
    <3>2. \A e \in pending : e.request.payload # id
      BY <1>0, <1>1 DEF RequestsOK
    <3> QED
      BY <1>2, <3>1, <3>2
  <2>3. OneHomePerKey'
    BY <1>0, <1>2, <1>5, <2>1 DEF OneHomePerKey
  <2>4. RequestsOK'
    <3>1. ASSUME NEW e \in pending' PROVE e.request.payload \in tickets' /\ e.request.key = posted'[e.request.payload].key
      <4>1. CASE e = entry
        BY <1>3, <1>5, <2>2, <4>1
      <4>2. CASE e # entry
        <5>1. e \in pending /\ e.request.key # job.key /\ e.request.payload \in tickets
              /\ e.request.key = posted[e.request.payload].key
          BY <1>0, <2>1, <4>2 DEF RequestsOK
        <5>2. ~\E f \in pending : f.request.key = job.key /\ f.request.payload = e.request.payload
          BY <5>1, OneRequest
        <5> QED
          BY <1>1, <1>3, <2>2, <5>1, <5>2
      <4> QED
        BY <4>1, <4>2
    <3>2. ASSUME NEW c \in claimed' PROVE c.request.payload \in tickets' /\ c.request.key = posted'[c.request.payload].key
      <4>1. c \in claimed /\ c.request.payload \in tickets /\ c.request.key = posted[c.request.payload].key
        BY <1>0, <1>2 DEF RequestsOK
      <4>2. ~\E f \in pending : f.request.payload = c.request.payload
        BY <4>1, OneRequest
      <4> QED
        BY <1>1, <1>3, <2>2, <4>1, <4>2
    <3>3. ASSUME NEW t \in tickets'
          PROVE  (\E e \in pending' : e.request.payload = t) \/ (\E c \in claimed' : c.request.payload = t)
      <4>1. CASE t = id
        BY <1>5, <2>1, <4>1
      <4>2. CASE t # id
        <5>1. t \in tickets /\ \A e \in pending : e.request.key = job.key => e.request.payload # t
          BY <2>2, <4>2
        <5>2. (\E e \in pending : e.request.payload = t) \/ (\E c \in claimed : c.request.payload = t)
          BY <1>0, <5>1 DEF RequestsOK
        <5> QED
          BY <1>2, <2>1, <5>1, <5>2
      <4> QED
        BY <4>1, <4>2
    <3> QED
      BY <3>1, <3>2, <3>3 DEF RequestsOK
  <2>5. ClaimsOut'
    BY <1>2 DEF Links, ClaimsOut
  <2>6. OutClaimed'
    <3>1. \A i \in 1..Len(handles) : \A t \in handles[i].out : t \in tickets' => t \in tickets
      BY <1>1, <1>6, <2>2
    <3> QED
      BY <1>2, <3>1 DEF Links, OutClaimed
  <2> QED
    BY <2>3, <2>4, <2>5, <2>6 DEF Links
<1> QED
  BY <1>7, <1>8

--------------------------------------------------------------------------------
(* Segments, held slots and the consumers' references                      *)

RefType == [ticket : Nat, worker : Nat, segment : Nat]

\* A segment belongs to one handle.
SegmentsDiffer == \A i, j \in 1..Len(handles) : handles[i].segment = handles[j].segment => i = j

\* A reference names the handle that has its segment.
RefsKnown ==
    \A r \in refs : /\ r \in RefType /\ r.segment <= segments
                    /\ \A i \in 1..Len(handles) : handles[i].segment = r.segment => r.worker + 1 = i

\* What a consumer holds is answered.
HeldDone == \A i \in 1..Len(handles) : \A t \in handles[i].held : t \notin tickets

\* No slot is lost, and the held ones are those referred to.
ExactHandle(h, rs) ==
    h.pid # 0 => /\ Credit(h) = h.slots
                 /\ \A t \in h.held : \E r \in rs : r.segment = h.segment /\ r.ticket = t
                 /\ \A r \in rs : r.segment = h.segment => r.ticket \in h.held
Exact == \A i \in 1..Len(handles) : ExactHandle(handles[i], refs)

Owns == SegmentsDiffer /\ RefsKnown /\ HeldDone /\ Exact

\* A reference into a segment that no child serves any more.
Unserved(r) == \A i \in 1..Len(handles) : handles[i].segment = r.segment => handles[i].pid = 0

\* The handle at i keeps its segment and loses no slot, or its child is gone.
KeptHandle(i) ==
    /\ i \in 1..Len(handles)
    /\ handles'[i].segment = handles[i].segment
    /\ handles'[i].held \subseteq handles[i].held
    /\ handles'[i].pid # 0 => handles[i].pid # 0 /\ SameCredit(handles'[i], handles[i])

\* The handle at i has a segment that did not exist before.
FreshHandle(i) ==
    /\ handles'[i].segment > segments /\ handles'[i].segment <= segments'
    /\ handles'[i].held = {} /\ Credit(handles'[i]) = handles'[i].slots

\* Handles stay, come with a segment of their own, or leave; references are
\* dropped only when nobody serves them.
HandlesTurn ==
    /\ \A i \in 1..Len(handles') : KeptHandle(i) \/ FreshHandle(i)
    /\ \A i, j \in 1..Len(handles') :
         FreshHandle(i) /\ FreshHandle(j) /\ handles'[i].segment = handles'[j].segment => i = j
    /\ segments' \in Nat /\ segments <= segments'
RefsTurn ==
    /\ refs' \subseteq refs
    /\ \A r \in refs : r \in refs' \/ Unserved(r)
    /\ \A t \in tickets' : t \in tickets \/ t \notin 1..Len(posted)

LEMMA OwnsTurn ==
    ASSUME HandlesOK, Owns, segments \in Nat, HandlesTurn, RefsTurn
    PROVE  Owns'
<1>1. \A i \in 1..Len(handles) : /\ handles[i] \in HandleType /\ handles[i].segment <= segments
                                 /\ handles[i].held \subseteq 1..Len(posted)
  BY ElementOfSeq DEF HandlesOK, HandleOK
<1>2. SegmentsDiffer'
  <2> SUFFICES ASSUME NEW i \in 1..Len(handles'), NEW j \in 1..Len(handles'),
                      handles'[i].segment = handles'[j].segment
               PROVE  i = j
    BY DEF SegmentsDiffer
  <2>1. CASE KeptHandle(i) /\ KeptHandle(j)
    BY <2>1 DEF KeptHandle, Owns, SegmentsDiffer
  <2>2. CASE FreshHandle(i) /\ FreshHandle(j)
    BY <2>2 DEF HandlesTurn
  <2>3. CASE KeptHandle(i) /\ FreshHandle(j)
    <3>1. handles'[i].segment <= segments /\ handles'[i].segment \in Nat
      BY <1>1, <2>3 DEF KeptHandle, HandleType
    <3> QED
      BY <2>3, <3>1 DEF FreshHandle
  <2>4. CASE FreshHandle(i) /\ KeptHandle(j)
    <3>1. handles'[j].segment <= segments /\ handles'[j].segment \in Nat
      BY <1>1, <2>4 DEF KeptHandle, HandleType
    <3> QED
      BY <2>4, <3>1 DEF FreshHandle
  <2> QED
    BY <2>1, <2>2, <2>3, <2>4 DEF HandlesTurn
<1>3. \A r \in refs' : r \in refs /\ r \in RefType /\ r.segment <= segments /\ r.segment \in Nat
  BY DEF RefsTurn, Owns, RefsKnown, RefType
<1>4. ASSUME NEW r \in refs', NEW i \in 1..Len(handles'), FreshHandle(i)
      PROVE  handles'[i].segment # r.segment
  BY <1>3, <1>4 DEF FreshHandle
<1>5. RefsKnown'
  <2>1. ASSUME NEW r \in refs' PROVE r \in RefType /\ r.segment <= segments'
    BY <1>3 DEF HandlesTurn
  <2>2. ASSUME NEW r \in refs', NEW i \in 1..Len(handles'), handles'[i].segment = r.segment
        PROVE  r.worker + 1 = i
    <3>1. KeptHandle(i)
      BY <1>4, <2>2 DEF HandlesTurn
    <3> QED
      BY <1>3, <2>2, <3>1 DEF KeptHandle, Owns, RefsKnown
  <2> QED
    BY <2>1, <2>2 DEF RefsKnown
<1>6. HeldDone'
  <2> SUFFICES ASSUME NEW i \in 1..Len(handles'), NEW t \in handles'[i].held PROVE t \notin tickets'
    BY DEF HeldDone
  <2>1. KeptHandle(i)
    BY DEF HandlesTurn, FreshHandle
  <2>2. t \in handles[i].held /\ i \in 1..Len(handles)
    BY <2>1 DEF KeptHandle
  <2> QED
    BY <1>1, <2>2 DEF RefsTurn, Owns, HeldDone
<1>7. Exact'
  <2> SUFFICES ASSUME NEW i \in 1..Len(handles'), handles'[i].pid # 0
               PROVE  ExactHandle(handles'[i], refs')
    BY DEF Exact, ExactHandle
  <2>1. CASE FreshHandle(i)
    BY <1>4, <2>1 DEF ExactHandle, FreshHandle
  <2>2. CASE KeptHandle(i)
    <3>1. /\ i \in 1..Len(handles) /\ handles[i].pid # 0
          /\ SameCredit(handles'[i], handles[i])
      BY <2>2 DEF KeptHandle
    <3>2. ExactHandle(handles[i], refs)
      BY <3>1 DEF Owns, Exact
    <3>3. \A r \in refs : r.segment = handles[i].segment => r \in refs'
      BY <3>1 DEF RefsTurn, Unserved
    <3> QED
      BY <1>3, <3>1, <3>2, <3>3 DEF ExactHandle, SameCredit, Credit
  <2> QED
    BY <2>1, <2>2 DEF HandlesTurn
<1> QED
  BY <1>2, <1>5, <1>6, <1>7 DEF Owns

\* A slot moves within one handle.
LEMMA OwnsMove ==
    ASSUME HandlesOK, Owns, NEW w \in Workers, NEW new, HandleStep(w, new),
           new.segment = Handle(w).segment, new.pid = Handle(w).pid,
           \A t \in new.held : t \notin tickets', tickets' \subseteq tickets,
           UNCHANGED segments,
           \A r \in refs : r.segment # Handle(w).segment => r \in refs',
           \A r \in refs' : r \in refs \/ (r \in RefType /\ r.worker = w /\ r.segment = Handle(w).segment),
           ExactHandle(new, refs')
    PROVE  Owns'
<1>1. /\ w \in Nat /\ w + 1 \in 1..Len(handles) /\ Handle(w) = handles[w + 1]
      /\ HandleOK(Handle(w), Len(procs), Len(posted), segments)
      /\ Len(handles') = Len(handles) /\ handles'[w + 1] = new
      /\ \A i \in 1..Len(handles) : i # w + 1 => handles'[i] = handles[i]
  BY WorkerHandle DEF HandleStep
<1>2. \A i \in 1..Len(handles) : handles'[i].segment = handles[i].segment
  BY <1>1
<1>3. SegmentsDiffer'
  BY <1>1, <1>2 DEF Owns, SegmentsDiffer
<1>4. RefsKnown'
  <2> SUFFICES ASSUME NEW r \in refs'
               PROVE  /\ r \in RefType /\ r.segment <= segments
                      /\ \A i \in 1..Len(handles) : handles[i].segment = r.segment => r.worker + 1 = i
    BY <1>1, <1>2 DEF RefsKnown
  <2>1. CASE r \in refs
    BY <2>1 DEF Owns, RefsKnown
  <2>2. CASE r \notin refs
    <3>1. r \in RefType /\ r.worker = w /\ r.segment = Handle(w).segment
      BY <2>2
    <3>2. Handle(w).segment <= segments
      BY <1>1 DEF HandleOK
    <3> QED
      BY <1>1, <3>1, <3>2 DEF Owns, SegmentsDiffer
  <2> QED
    BY <2>1, <2>2
<1>5. HeldDone'
  BY <1>1 DEF Owns, HeldDone
<1>6. Exact'
  <2> SUFFICES ASSUME NEW i \in 1..Len(handles) PROVE ExactHandle(handles'[i], refs')
    BY <1>1 DEF Exact
  <2>1. CASE i = w + 1
    BY <1>1, <2>1
  <2>2. CASE i # w + 1
    <3>1. handles'[i] = handles[i] /\ ExactHandle(handles[i], refs)
      BY <1>1, <2>2 DEF Owns, Exact
    <3>2. handles[i].segment # Handle(w).segment
      BY <1>1, <2>2 DEF Owns, SegmentsDiffer
    <3>3. \A r : r.segment = handles[i].segment => (r \in refs <=> r \in refs')
      BY <3>2
    <3> QED
      BY <3>1, <3>3 DEF ExactHandle
  <2> QED
    BY <2>1, <2>2
<1> QED
  BY <1>3, <1>4, <1>5, <1>6 DEF Owns

--------------------------------------------------------------------------------
(* The steps that leave the links and the credit alone                     *)

Linked == LinksOK /\ Owns
NotRevived == shutting' # "down" => shutting # "down"

\* No request, ticket, reference, slot or segment moves.
Still == CreditKept /\ UNCHANGED <<schedVars, ticketVars, segments>>

LEMMA StillLinked ==
    ASSUME Inv, Linked, Still, NotRevived
    PROVE  Linked'
<1>1. /\ Len(handles') = Len(handles) /\ UNCHANGED <<pending, claimed, posted, tickets, refs, segments>>
      /\ \A i \in 1..Len(handles) : SameCredit(handles'[i], handles[i]) /\ handles'[i].pid = handles[i].pid
  BY DEF Still, CreditKept, schedVars, ticketVars
<1>2. OutKept
  BY <1>1 DEF OutKept, SameCredit
<1>3. LinksOK'
  BY <1>1, <1>2, LinksStay DEF Linked, LinksOK, NotRevived
<1>4. segments \in Nat
  BY DEF Inv, TicketsOK
<1>5. HandlesTurn
  <2>1. \A i \in 1..Len(handles') : KeptHandle(i)
    BY <1>1 DEF KeptHandle, SameCredit
  <2>2. \A i \in 1..Len(handles') : ~FreshHandle(i)
    <3>1. \A i \in 1..Len(handles) : handles[i].segment \in Nat /\ handles[i].segment <= segments
      BY ElementOfSeq DEF Inv, HandlesOK, HandleOK, HandleType
    <3> QED
      BY <1>1, <1>4, <3>1 DEF FreshHandle, SameCredit
  <2> QED
    BY <1>1, <1>4, <2>1, <2>2 DEF HandlesTurn
<1>6. RefsTurn
  BY <1>1 DEF RefsTurn
<1>7. Owns'
  BY <1>4, <1>5, <1>6, OwnsTurn DEF Inv, Linked
<1> QED
  BY <1>3, <1>7 DEF Linked

LEMMA PhasesStill ==
    ASSUME Inv, Poll \/ StalePoll \/ DrainEnd \/ RestartsDone \/ PumpEnd \/ ShutdownPump
                  \/ ShutdownBegin \/ DispatchDone \/ (\E w \in Workers : RebuildFails(w))
    PROVE  Still /\ NotRevived
<1>1. /\ UNCHANGED <<schedVars, ticketVars, segments>>
      /\ (shutting' = shutting \/ (shutting' = "draining" /\ shutting = "no"))
  <2>1. CASE DispatchDone
    <3>1. UNCHANGED <<schedVars, segments, ticketVars, shutting>>
      BY <2>1 DEF DispatchDone
    <3> QED
      BY <3>1
  <2>2. CASE ShutdownBegin
    BY <2>2 DEF ShutdownBegin
  <2>3. CASE StalePoll
    <3>1. UNCHANGED <<schedVars, poolVars, ticketVars, pump, shutting, resizeVars, faults>>
      BY <2>3 DEF StalePoll, vars
    <3> QED
      BY <3>1 DEF poolVars
  <2>4. CASE Poll \/ DrainEnd \/ RestartsDone \/ PumpEnd \/ ShutdownPump \/ \E w \in Workers : RebuildFails(w)
    <3>1. UNCHANGED <<schedVars, poolVars, ticketVars, shutting>>
      BY <2>4 DEF Poll, DrainEnd, RestartsDone, PumpEnd, ShutdownPump, RebuildFails
    <3> QED
      BY <3>1 DEF poolVars
  <2> QED
    BY <2>1, <2>2, <2>3, <2>4
<1>2. CreditKept
  <2>1. CASE DispatchDone
    <3> DEFINE told == {w \in Workers : Signal(Handle(w))}
    <3>1. Signalled(told)
      BY <2>1 DEF DispatchDone, Signalled
    <3> HIDE DEF told
    <3> QED
      BY <3>1, SignalIs DEF Inv
  <2>2. CASE ~DispatchDone
    <3>1. UNCHANGED handles
      BY <2>2 DEF Poll, StalePoll, DrainEnd, RestartsDone, PumpEnd, ShutdownPump, ShutdownBegin,
                  RebuildFails, vars, poolVars
    <3> QED
      BY <3>1, CreditUnchanged DEF Inv
  <2> QED
    BY <2>1, <2>2
<1> QED
  BY <1>1, <1>2 DEF Still, NotRevived

LEMMA EventsStill ==
    ASSUME Inv, NEW p \in DOMAIN procs,
           DropEvent(p) \/ OnHandshake(p) \/ OnHelloCaps(p) \/ OnError(p) \/ OnEof(p)
    PROVE  Still /\ NotRevived
<1> DEFINE w == procs[p].worker
<1>1. UNCHANGED <<schedVars, ticketVars, segments, shutting>>
  BY DEF DropEvent, OnHandshake, OnHelloCaps, OnError, OnEof
<1>2. CreditKept
  <2>1. CASE UNCHANGED handles
    BY <2>1, CreditUnchanged DEF Inv
  <2>2. CASE ~UNCHANGED handles
    <3>1. w \in Workers
      BY <2>2 DEF DropEvent, OnHandshake, OnHelloCaps, OnError, OnEof, ForHandle
    <3>2. \/ handles' = [handles EXCEPT ![w + 1].state = "Dead"]
          \/ handles' = [handles EXCEPT ![w + 1].state = "Alive", ![w + 1].reconfiguring = FALSE]
      BY <2>2 DEF DropEvent, OnHandshake, OnHelloCaps, OnError, OnEof
    <3> QED
      BY <3>1, <3>2, MarkDead, MarkAlive DEF Inv
  <2> QED
    BY <2>1, <2>2
<1> QED
  BY <1>1, <1>2 DEF Still, NotRevived

LEMMA ChildrenStill ==
    ASSUME Inv, NEW p \in DOMAIN procs, ProcStep(p) \/ ProcCrash(p)
    PROVE  Still /\ NotRevived
<1>1. UNCHANGED <<schedVars, handles, ticketVars, segments, shutting>>
  BY DEF ProcStep, ProcHandshake, ProcRender, ProcExit, ProcCrash
<1> QED
  BY <1>1, CreditUnchanged DEF Inv, Still, NotRevived

--------------------------------------------------------------------------------
(* Calls                                                                   *)

\* No handle moves; a ticket may close, and a new one may open.
LEMMA OwnsIdle ==
    ASSUME Inv, Owns, UNCHANGED <<handles, segments, refs>>,
           \A t \in tickets' : t \in tickets \/ t \notin 1..Len(posted)
    PROVE  Owns'
<1>1. segments \in Nat /\ \A i \in 1..Len(handles) : handles[i].segment \in Nat /\ handles[i].segment <= segments
  BY ElementOfSeq DEF Inv, TicketsOK, HandlesOK, HandleOK, HandleType
<1>2. \A i \in 1..Len(handles') : KeptHandle(i) /\ ~FreshHandle(i)
  BY <1>1 DEF KeptHandle, FreshHandle, SameCredit
<1>3. HandlesTurn /\ RefsTurn
  BY <1>1, <1>2 DEF HandlesTurn, RefsTurn
<1> QED
  BY <1>1, <1>3, OwnsTurn DEF Inv

LEMMA PostLinked == ASSUME Inv, Linked, NEW job \in Jobs, Post(job) PROVE Linked'
<1>1. /\ shutting = "no" /\ UNCHANGED <<handles, segments, refs, shutting>>
      /\ \A t \in tickets' : t \in tickets \/ t = Len(posted) + 1
  BY DEF Post, poolVars
<1>2. Len(posted) \in Nat
  BY LenProperties DEF Inv, TicketsOK
<1>3. Owns'
  BY <1>1, <1>2, OwnsIdle DEF Linked
<1>4. LinksOK'
  BY <1>1, LinksPost DEF Linked, LinksOK
<1> QED
  BY <1>3, <1>4 DEF Linked

LEMMA DropLinked ==
    ASSUME Inv, Linked, NEW ids, Links => Dropped(ids), tickets' \subseteq tickets,
           UNCHANGED <<handles, segments, refs, shutting>>
    PROVE  Linked'
<1>1. Owns'
  BY OwnsIdle DEF Linked
<1>2. LinksOK'
  <2>1. OpenKept /\ \A i \in 1..Len(handles) : handles'[i].out \subseteq handles[i].out
    BY DEF OpenKept
  <2> QED
    BY <2>1, LinksDrop DEF Linked, LinksOK
<1> QED
  BY <1>1, <1>2 DEF Linked

\* The request under a key is the one of the open ticket posted with that key.
LEMMA UnderKey ==
    ASSUME Links, NEW t \in tickets
    PROVE  /\ \A e \in pending : e.request.payload = t <=> e.request.key = posted[t].key
           /\ \A c \in claimed : c.request.payload = t <=> c.request.key = posted[t].key
  BY DEF Links, RequestsOK, OneHomePerKey

LEMMA CancelFrameLinked == ASSUME Inv, Linked, NEW key, CancelFrame(key) PROVE Linked'
<1> DEFINE found == {t \in tickets : posted[t].key = key}
<1>1. /\ Known(key) /\ CancelKey(key) /\ UNCHANGED <<posted, handles, segments, refs, shutting>>
      /\ UNCHANGED tickets \/ (\E t \in found : tickets' = tickets \ {t})
      /\ found # {} => \E t \in found : tickets' = tickets \ {t}
  BY DEF CancelFrame, Complete, poolVars
<1>2. tickets' \subseteq tickets
  BY <1>1
<1>3. ASSUME Links PROVE found # {}
  BY <1>1, <1>3 DEF Known, PendingUnder, ClaimsUnder, Links, RequestsOK
<1>4. PICK t : found # {} => t \in found /\ tickets' = tickets \ {t}
  BY <1>1
<1>5. ASSUME Links PROVE Dropped({t})
  <2>1. t \in tickets /\ posted[t].key = key /\ tickets' = tickets \ {t}
    BY <1>3, <1>4, <1>5
  <2>2. /\ pending' = {e \in pending : e.request.key # key}
        /\ claimed' = IF PendingUnder(key) # {} THEN claimed ELSE {c \in claimed : c.request.key # key}
    BY <1>1 DEF CancelKey, PendingUnder, ClaimsUnder
  <2>3. claimed' = {c \in claimed : c.request.key # key}
    <3>1. PendingUnder(key) # {} => \A c \in claimed : c.request.key # key
      BY <1>5 DEF PendingUnder, Links, OneHomePerKey
    <3> QED
      BY <2>2, <3>1
  <2> QED
    BY <1>1, <1>5, <2>1, <2>2, <2>3, UnderKey DEF Dropped
<1> QED
  BY <1>1, <1>2, <1>5, DropLinked

LEMMA CancelSequenceLinked ==
    ASSUME Inv, Linked, NEW sequence, CancelPreviewSequence(sequence) PROVE Linked'
<1> DEFINE ids == Payloads(OfSequence(sequence))
<1>1. /\ CancelSequence(sequence) /\ tickets' = tickets \ ids
      /\ UNCHANGED <<posted, handles, segments, refs, shutting>>
  BY DEF CancelPreviewSequence, Complete, poolVars
<1>2. \A t : t \in ids <=> \/ \E e \in pending : e.request.key.sequence = sequence /\ e.request.payload = t
                           \/ \E c \in claimed : c.request.key.sequence = sequence /\ c.request.payload = t
  BY DEF Payloads, OfSequence
<1> HIDE DEF ids
<1>3. ASSUME Links PROVE Dropped(ids)
  <2>1. \A e \in pending : e.request.payload \in ids <=> e.request.key.sequence = sequence
    BY <1>2, <1>3, OneRequest
  <2>2. \A c \in claimed : c.request.payload \in ids <=> c.request.key.sequence = sequence
    BY <1>2, <1>3, OneRequest
  <2> QED
    BY <1>1, <2>1, <2>2 DEF Dropped, CancelSequence
<1> QED
  BY <1>1, <1>3, DropLinked

LEMMA ReleaseLinked == ASSUME Inv, Linked, NEW ref \in refs, ReleaseFrame(ref) PROVE Linked'
<1> DEFINE w == ref.worker
           t == ref.ticket
<1>1. /\ UNCHANGED <<schedVars, segments, posted, tickets, shutting>> /\ refs' = refs \ {ref}
      /\ handles' = handles \/ (w \in Workers /\ Handle(w).segment = ref.segment
                                /\ t \in Handle(w).held /\ Returned(w, t))
      /\ handles' = handles => \/ w \notin Workers
                               \/ Handle(w).segment # ref.segment
                               \/ t \notin Handle(w).held
                               \/ Returned(w, t)
  BY DEF ReleaseFrame, Returned
<1>2. segments \in Nat /\ HandlesOK /\ Owns /\ SegmentsDiffer /\ RefsKnown /\ Exact /\ HeldDone
  BY DEF Inv, TicketsOK, Linked, Owns
<1>3. CASE w \in Workers /\ Handle(w).segment = ref.segment /\ t \in Handle(w).held /\ Returned(w, t)
  <2> HIDE DEF w, t
  <2>1. PICK new \in HandleType :
              /\ HandleStep(w, new) /\ HandleNow(new) /\ SameChild(new, Handle(w))
              /\ new.out = Handle(w).out /\ new.held = Handle(w).held \ {t}
              /\ Credit(new) = Credit(Handle(w))
    BY <1>2, <1>3, ReturnedIs
  <2>2. /\ w \in Nat /\ w + 1 \in 1..Len(handles) /\ Handle(w) = handles[w + 1]
        /\ Len(handles') = Len(handles) /\ handles'[w + 1] = new
        /\ \A i \in 1..Len(handles) : i # w + 1 => handles'[i] = handles[i]
    BY <1>2, <1>3, <2>1, WorkerHandle DEF HandleStep
  <2>3. LinksOK'
    <3>1. OutKept
      BY <2>1, <2>2 DEF OutKept
    <3> QED
      BY <1>1, <3>1, LinksStay DEF Linked, LinksOK, schedVars
  <2>4. ExactHandle(new, refs')
    <3>1. ExactHandle(Handle(w), refs)
      BY <1>2, <2>2 DEF Exact
    <3>2. /\ new.segment = Handle(w).segment /\ new.pid = Handle(w).pid /\ new.slots = Handle(w).slots
      BY <2>1 DEF SameChild
    <3>3. \A r \in refs : r.segment = Handle(w).segment /\ r.ticket = t => r = ref
      <4> SUFFICES ASSUME NEW r \in refs, r.segment = Handle(w).segment, r.ticket = t PROVE r = ref
        OBVIOUS
      <4>1. r.worker + 1 = w + 1 /\ ref.worker = w /\ ref.ticket = t /\ ref.segment = r.segment
        BY <1>2, <1>3, <2>2 DEF RefsKnown, w, t
      <4>2. r \in RefType /\ ref \in RefType
        BY <1>2 DEF RefsKnown
      <4>3. r.worker = ref.worker
        BY <2>2, <4>1, <4>2 DEF RefType
      <4> QED
        BY <4>1, <4>2, <4>3 DEF RefType
    <3>4. ref.segment = Handle(w).segment /\ ref.ticket = t
      BY <1>3 DEF t
    <3> QED
      BY <1>1, <2>1, <3>1, <3>2, <3>3, <3>4 DEF ExactHandle
  <2>5. \A x \in new.held : x \notin tickets'
    BY <1>1, <1>2, <2>1, <2>2 DEF HeldDone
  <2>6. Owns'
    <3>1. new.segment = Handle(w).segment /\ new.pid = Handle(w).pid
      BY <2>1 DEF SameChild
    <3>2. \A r \in refs : r.segment # Handle(w).segment => r \in refs'
      BY <1>1, <1>3
    <3>3. refs' \subseteq refs /\ tickets' \subseteq tickets
      BY <1>1
    <3> QED
      BY <1>1, <1>2, <1>3, <2>1, <2>4, <2>5, <3>1, <3>2, <3>3, OwnsMove
  <2> QED
    BY <2>3, <2>6 DEF Linked
<1>4. CASE handles' = handles /\ (w \notin Workers \/ Handle(w).segment # ref.segment \/ t \notin Handle(w).held)
  <2>1. LinksOK'
    <3>1. OutKept
      BY <1>4 DEF OutKept
    <3> QED
      BY <1>1, <3>1, LinksStay DEF Linked, LinksOK, schedVars
  <2>2. Unserved(ref)
    <3> SUFFICES ASSUME NEW i \in 1..Len(handles), handles[i].segment = ref.segment, handles[i].pid # 0
                 PROVE  FALSE
      BY DEF Unserved
    <3>1. w + 1 = i /\ ref \in RefType
      BY <1>2 DEF RefsKnown
    <3>2. w \in Nat /\ Len(handles) \in Nat
      BY <1>2, <3>1, LenProperties DEF RefType, HandlesOK
    <3> HIDE DEF w
    <3>3. w \in Workers /\ Handle(w) = handles[i]
      BY <3>1, <3>2 DEF Workers, Handle
    <3>4. t \in handles[i].held
      BY <1>2 DEF Exact, ExactHandle
    <3> QED
      BY <1>4, <3>3, <3>4
  <2>3. \A i \in 1..Len(handles) : handles[i].segment \in Nat /\ handles[i].segment <= segments
    BY <1>2, ElementOfSeq DEF HandlesOK, HandleOK, HandleType
  <2>4. HandlesTurn
    <3>1. \A i \in 1..Len(handles') : KeptHandle(i) /\ ~FreshHandle(i)
      BY <1>1, <1>2, <1>4, <2>3 DEF KeptHandle, FreshHandle, SameCredit
    <3> QED
      BY <1>1, <1>2, <3>1 DEF HandlesTurn
  <2>5. RefsTurn
    BY <1>1, <2>2 DEF RefsTurn
  <2>6. Owns'
    BY <1>2, <2>4, <2>5, OwnsTurn
  <2> QED
    BY <2>1, <2>6 DEF Linked
<1> QED
  BY <1>1, <1>3, <1>4

--------------------------------------------------------------------------------
(* Answers                                                                 *)

\* An outstanding ticket is answered, or its answer comes too late.
LEMMA AnswerLinks ==
    ASSUME Links, HandlesOK, NEW w \in Workers, NEW t \in Handle(w).out,
           NEW new, HandleStep(w, new), new.out = Handle(w).out \ {t}, UNCHANGED <<pending, posted>>,
           \/ t \notin tickets /\ UNCHANGED <<claimed, tickets>>
           \/ t \in tickets /\ claimed' = claimed \ ClaimsUnder(posted[t].key) /\ tickets' = tickets \ {t}
    PROVE  Links'
<1>1. /\ w \in Nat /\ w + 1 \in 1..Len(handles) /\ Handle(w) = handles[w + 1]
      /\ Len(handles') = Len(handles) /\ handles'[w + 1] = new
      /\ \A i \in 1..Len(handles) : i # w + 1 => handles'[i] = handles[i]
  BY WorkerHandle DEF HandleStep
<1>2. \A i \in 1..Len(handles) : handles'[i].out \subseteq handles[i].out
  BY <1>1
<1>3. OpenKept
  BY <1>1 DEF OpenKept
<1>4. CASE t \notin tickets
  <2>1. Dropped({})
    BY <1>4 DEF Dropped
  <2> QED
    BY <1>2, <1>3, <2>1, LinksDrop
<1>5. CASE t \in tickets
  <2>1. claimed' = {c \in claimed : c.request.payload \notin {t}}
    <3>1. claimed' = {c \in claimed : c.request.key # posted[t].key}
      BY <1>5 DEF ClaimsUnder
    <3> QED
      BY <1>5, <3>1, UnderKey
  <2>2. pending' = {e \in pending : e.request.payload \notin {t}}
    <3>1. PICK c \in claimed : c.request.payload = t
      BY <1>1, <1>5 DEF Links, OutClaimed
    <3> QED
      BY <3>1, OneRequest
  <2>3. Dropped({t})
    BY <1>5, <2>1, <2>2 DEF Dropped
  <2> QED
    BY <1>2, <1>3, <2>3, LinksDrop
<1> QED
  BY <1>4, <1>5

\* The slot of the answered frame goes back to the free ones.
LEMMA RecycledLinked ==
    ASSUME Inv, Linked, NEW w \in Workers, NEW t \in Handle(w).out, Recycled(w, t),
           UNCHANGED <<pending, posted, refs, segments, shutting>>,
           \/ t \notin tickets /\ UNCHANGED <<claimed, tickets>>
           \/ t \in tickets /\ claimed' = claimed \ ClaimsUnder(posted[t].key) /\ tickets' = tickets \ {t}
    PROVE  Linked'
<1>1. PICK new \in HandleType :
        /\ HandleStep(w, new) /\ HandleNow(new) /\ SameChild(new, Handle(w))
        /\ new.out = Handle(w).out \ {t} /\ new.held = Handle(w).held
        /\ Credit(new) = Credit(Handle(w))
  BY RecycledIs DEF Inv
<1>2. LinksOK'
  BY <1>1, AnswerLinks DEF Inv, Linked, LinksOK
<1>3. Handle(w) = handles[w + 1] /\ w + 1 \in 1..Len(handles)
  BY WorkerHandle DEF Inv
<1>4. Owns /\ tickets' \subseteq tickets /\ new.segment = Handle(w).segment /\ new.pid = Handle(w).pid
  BY <1>1 DEF Linked, SameChild
<1>5. ExactHandle(new, refs')
  <2>1. ExactHandle(Handle(w), refs)
    BY <1>3, <1>4 DEF Owns, Exact
  <2> QED
    BY <1>1, <1>4, <2>1 DEF ExactHandle, SameChild
<1>6. \A x \in new.held : x \notin tickets'
  BY <1>1, <1>3, <1>4 DEF Owns, HeldDone
<1>7. Owns'
  BY <1>1, <1>4, <1>5, <1>6, OwnsMove DEF Inv
<1> QED
  BY <1>2, <1>7 DEF Linked

\* The slot of the answered frame goes to the consumer.
LEMMA DeliveredLinked ==
    ASSUME Inv, Linked, NEW w \in Workers, NEW t \in Handle(w).out, Delivered(w, t), t \in tickets,
           UNCHANGED <<pending, posted, segments, shutting>>,
           refs' = refs \cup {[ticket |-> t, worker |-> w, segment |-> Handle(w).segment]},
           claimed' = claimed \ ClaimsUnder(posted[t].key), tickets' = tickets \ {t}
    PROVE  Linked'
<1> DEFINE ref == [ticket |-> t, worker |-> w, segment |-> Handle(w).segment]
<1>1. PICK new \in HandleType :
        /\ HandleStep(w, new) /\ HandleNow(new) /\ SameChild(new, Handle(w))
        /\ new.out = Handle(w).out \ {t} /\ new.held = Handle(w).held \cup {t}
        /\ t \notin Handle(w).held => Credit(new) = Credit(Handle(w))
  BY DeliveredIs DEF Inv
<1>2. LinksOK'
  BY <1>1, AnswerLinks DEF Inv, Linked, LinksOK
<1>3. /\ Handle(w) = handles[w + 1] /\ w + 1 \in 1..Len(handles) /\ w \in Nat
      /\ Handle(w).segment \in Nat /\ t \in Nat
  BY WorkerHandle DEF Inv, HandleOK, HandleType
<1>4. Owns /\ tickets' \subseteq tickets /\ new.segment = Handle(w).segment /\ new.pid = Handle(w).pid
      /\ UNCHANGED segments
  BY <1>1 DEF Linked, SameChild
<1>5. t \notin Handle(w).held
  BY <1>3, <1>4 DEF Owns, HeldDone
<1>6. ref \in RefType /\ ref.worker = w /\ ref.segment = Handle(w).segment /\ ref.ticket = t
  BY <1>3 DEF RefType
<1> HIDE DEF ref
<1>7. refs' = refs \cup {ref}
  BY DEF ref
<1>8. ExactHandle(new, refs')
  <2>1. ExactHandle(Handle(w), refs)
    BY <1>3, <1>4 DEF Owns, Exact
  <2>2. Credit(new) = Credit(Handle(w)) /\ new.slots = Handle(w).slots
    BY <1>1, <1>5 DEF SameChild
  <2>3. \A x \in new.held : (x = t \/ x \in Handle(w).held)
    BY <1>1
  <2> QED
    BY <1>1, <1>4, <1>6, <1>7, <2>1, <2>2, <2>3 DEF ExactHandle
<1>9. \A x \in new.held : x \notin tickets'
  BY <1>1, <1>3, <1>4 DEF Owns, HeldDone
<1>10. /\ \A r \in refs : r.segment # Handle(w).segment => r \in refs'
       /\ \A r \in refs' : r \in refs \/ (r \in RefType /\ r.worker = w /\ r.segment = Handle(w).segment)
  BY <1>6, <1>7
<1>11. Owns'
  BY <1>1, <1>4, <1>8, <1>9, <1>10, OwnsMove DEF Inv
<1> QED
  BY <1>2, <1>11 DEF Linked

\* An answer for a ticket that is not outstanding is ignored.
LEMMA IgnoredStill ==
    ASSUME Inv, UNCHANGED <<schedVars, handles, ticketVars, segments, shutting>>
    PROVE  Still /\ NotRevived
  BY CreditUnchanged DEF Inv, Still, NotRevived

LEMMA OnFrameReadyLinked ==
    ASSUME Inv, Linked, NEW p \in DOMAIN procs, OnFrameReady(p) PROVE Linked'
<1> DEFINE w == procs[p].worker
           t == Head(procs[p].pipe).ticket
<1>1. /\ w \in Workers /\ UNCHANGED <<segments, shutting>>
      /\ \/ UNCHANGED <<schedVars, handles, ticketVars>>
         \/ t \in Handle(w).out /\ t \notin tickets /\ Recycled(w, t) /\ UNCHANGED <<schedVars, ticketVars>>
         \/ /\ t \in Handle(w).out /\ t \in tickets /\ Delivered(w, t)
            /\ claimed' = claimed \ ClaimsUnder(posted[t].key) /\ UNCHANGED <<pending, posted>>
            /\ refs' = refs \cup {[ticket |-> t, worker |-> w, segment |-> Handle(w).segment]}
            /\ tickets' = tickets \ {t}
  BY DEF OnFrameReady, ForHandle, Recycled, Delivered, FrameDone, Complete
<1> HIDE DEF w, t
<1>2. CASE UNCHANGED <<schedVars, handles, ticketVars>>
  BY <1>1, <1>2, IgnoredStill, StillLinked
<1>3. CASE t \in Handle(w).out /\ t \notin tickets /\ Recycled(w, t) /\ UNCHANGED <<schedVars, ticketVars>>
  <2>1. UNCHANGED <<pending, claimed, posted, tickets, refs>>
    BY <1>3 DEF schedVars, ticketVars
  <2> QED
    BY <1>1, <1>3, <2>1, RecycledLinked
<1>4. CASE /\ t \in Handle(w).out /\ t \in tickets /\ Delivered(w, t)
           /\ claimed' = claimed \ ClaimsUnder(posted[t].key) /\ UNCHANGED <<pending, posted>>
           /\ refs' = refs \cup {[ticket |-> t, worker |-> w, segment |-> Handle(w).segment]}
           /\ tickets' = tickets \ {t}
  BY <1>1, <1>4, DeliveredLinked
<1> QED
  BY <1>1, <1>2, <1>3, <1>4

LEMMA OnFrameFailedLinked ==
    ASSUME Inv, Linked, NEW p \in DOMAIN procs, OnFrameFailed(p) PROVE Linked'
<1> DEFINE w == procs[p].worker
           t == Head(procs[p].pipe).ticket
<1>1. /\ w \in Workers /\ UNCHANGED <<segments, posted, refs, shutting>>
      /\ \/ UNCHANGED <<schedVars, handles, tickets, answer>>
         \/ t \in Handle(w).out /\ t \notin tickets /\ Recycled(w, t) /\ UNCHANGED <<schedVars, tickets>>
         \/ /\ t \in Handle(w).out /\ t \in tickets /\ Recycled(w, t)
            /\ claimed' = claimed \ ClaimsUnder(posted[t].key) /\ UNCHANGED pending
            /\ tickets' = tickets \ {t}
  BY DEF OnFrameFailed, ForHandle, Recycled, FrameDone, Complete
<1> HIDE DEF w, t
<1>2. CASE UNCHANGED <<schedVars, handles, tickets, answer>>
  <2>1. UNCHANGED ticketVars
    BY <1>1, <1>2 DEF ticketVars
  <2> QED
    BY <1>1, <1>2, <2>1, IgnoredStill, StillLinked
<1>3. CASE t \in Handle(w).out /\ t \notin tickets /\ Recycled(w, t) /\ UNCHANGED <<schedVars, tickets>>
  <2>1. UNCHANGED <<pending, claimed, tickets>>
    BY <1>3 DEF schedVars
  <2> QED
    BY <1>1, <1>3, <2>1, RecycledLinked
<1>4. CASE /\ t \in Handle(w).out /\ t \in tickets /\ Recycled(w, t)
           /\ claimed' = claimed \ ClaimsUnder(posted[t].key) /\ UNCHANGED pending
           /\ tickets' = tickets \ {t}
  BY <1>1, <1>4, RecycledLinked
<1> QED
  BY <1>1, <1>2, <1>3, <1>4

--------------------------------------------------------------------------------
(* The pump                                                                *)

\* One handle is replaced by one that keeps its segment or has a new one.
LEMMA OneTurn ==
    ASSUME Inv, NEW w \in Workers, NEW new, HandleStep(w, new),
           segments' \in Nat, segments <= segments',
           \/ new.segment = Handle(w).segment /\ new.held = {} /\ new.pid = 0
           \/ new.segment > segments /\ new.segment <= segments' /\ new.held = {} /\ Credit(new) = new.slots
    PROVE  HandlesTurn
<1>1. /\ w + 1 \in 1..Len(handles) /\ Handle(w) = handles[w + 1]
      /\ Len(handles') = Len(handles) /\ handles'[w + 1] = new
      /\ \A i \in 1..Len(handles) : i # w + 1 => handles'[i] = handles[i]
  BY WorkerHandle DEF Inv, HandleStep
<1>2. segments \in Nat /\ \A i \in 1..Len(handles) : handles[i].segment \in Nat /\ handles[i].segment <= segments
  BY ElementOfSeq DEF Inv, TicketsOK, HandlesOK, HandleOK, HandleType
<1>3. \A i \in 1..Len(handles) : i # w + 1 => KeptHandle(i) /\ ~FreshHandle(i)
  BY <1>1, <1>2 DEF KeptHandle, FreshHandle, SameCredit
<1>4. KeptHandle(w + 1) \/ FreshHandle(w + 1)
  BY <1>1 DEF KeptHandle, FreshHandle
<1> QED
  BY <1>1, <1>3, <1>4 DEF HandlesTurn

\* No slot of an empty handle is lost.
LEMMA EmptyCredit ==
    ASSUME NEW h, h.out = {}, h.held = {}, h.free = h.slots, h.slots \in Nat
    PROVE  Credit(h) = h.slots
  BY FS_EmptySet DEF Credit

LEMMA RebuildLinked == ASSUME Inv, Linked, NEW w \in Workers, RebuildSegment(w) PROVE Linked'
<1>1. segments' = segments + 1 /\ segments \in Nat /\ UNCHANGED <<schedVars, ticketVars, shutting>>
  BY DEF RebuildSegment, Inv, TicketsOK
<1>2. PICK new \in HandleType :
        /\ HandleStep(w, new) /\ new.pid = Handle(w).pid
        /\ new.segment = segments + 1 /\ Handle(w).out = {} /\ new.out = {} /\ new.held = {}
        /\ new.free = new.slots
  BY <1>1, RebuildIs DEF Inv
<1>3. /\ w + 1 \in 1..Len(handles) /\ Handle(w) = handles[w + 1]
      /\ Len(handles') = Len(handles) /\ handles'[w + 1] = new
      /\ \A i \in 1..Len(handles) : i # w + 1 => handles'[i] = handles[i]
  BY <1>2, WorkerHandle DEF Inv, HandleStep
<1>4. LinksOK'
  <2>1. OutKept
    BY <1>2, <1>3 DEF OutKept
  <2> QED
    BY <1>1, <2>1, LinksStay DEF Linked, LinksOK, schedVars, ticketVars
<1>5. Credit(new) = new.slots
  BY <1>2, EmptyCredit DEF HandleType
<1>6. HandlesTurn
  <2>1. new.segment > segments /\ new.segment <= segments' /\ segments' \in Nat /\ segments <= segments'
    BY <1>1, <1>2
  <2> QED
    BY <1>2, <1>5, <2>1, OneTurn
<1>7. RefsTurn
  BY <1>1 DEF RefsTurn, ticketVars
<1>8. Owns'
  BY <1>1, <1>6, <1>7, OwnsTurn DEF Inv, Linked
<1> QED
  BY <1>4, <1>8 DEF Linked

LEMMA DispatchLinked == ASSUME Inv, Linked, NEW w \in Workers, DispatchBatch(w) PROVE Linked'
<1>1. /\ UNCHANGED <<segments, ticketVars, shutting>> /\ UNCHANGED <<posted, tickets, refs>> /\ Links
  BY DEF DispatchBatch, Reached, Inv, DownOK, Linked, LinksOK, ticketVars
<1>2. PICK batch \in SUBSET pending, new \in HandleType :
        /\ ClaimBatch(w, batch)
        /\ HandleStep(w, new) /\ HandleNow(new) /\ SameChild(new, Handle(w))
        /\ new.out = Handle(w).out \cup {e.request.payload : e \in batch}
        /\ new.held = Handle(w).held
        /\ (\A e, f \in batch : e.request.payload = f.request.payload => e = f)
             /\ (\A e \in batch : e.request.payload \notin Handle(w).out)
             => Credit(new) = Credit(Handle(w))
  BY DispatchIs DEF Inv
<1>3. w + 1 \in 1..Len(handles) /\ Handle(w) = handles[w + 1]
  BY WorkerHandle DEF Inv
<1>4. LinksOK'
  BY <1>1, <1>2, LinksClaim DEF Inv, LinksOK
<1>5. Credit(new) = Credit(Handle(w))
  <2>1. \A e, f \in batch : e.request.payload = f.request.payload => e = f
    BY <1>1, OneRequest
  <2>2. ASSUME NEW e \in batch PROVE e.request.payload \notin Handle(w).out
    <3>1. e \in pending /\ e.request.payload \in tickets
      BY <1>1 DEF Links, RequestsOK
    <3> QED
      BY <1>1, <1>3, <3>1, OneRequest DEF Links, OutClaimed
  <2> QED
    BY <1>2, <2>1, <2>2
<1>6. Owns /\ tickets' \subseteq tickets /\ new.segment = Handle(w).segment /\ new.pid = Handle(w).pid
      /\ new.slots = Handle(w).slots
  BY <1>1, <1>2 DEF Linked, SameChild
<1>7. ExactHandle(new, refs')
  <2>1. ExactHandle(Handle(w), refs)
    BY <1>3, <1>6 DEF Owns, Exact
  <2> QED
    BY <1>1, <1>2, <1>5, <1>6, <2>1 DEF ExactHandle
<1>8. \A x \in new.held : x \notin tickets'
  BY <1>1, <1>2, <1>3, <1>6 DEF Owns, HeldDone
<1>9. Owns'
  BY <1>1, <1>2, <1>6, <1>7, <1>8, OwnsMove DEF Inv
<1> QED
  BY <1>4, <1>9 DEF Linked

\* The handle of a lost child.
LEMMA EmptiedOwns ==
    ASSUME Inv, Owns, NEW w \in Workers, Emptied(w), UNCHANGED <<segments, refs>>, tickets' \subseteq tickets
    PROVE  Owns'
<1>1. PICK new \in HandleType : HandleStep(w, new) /\ new.pid = 0 /\ new.held = {}
                                /\ new.segment = Handle(w).segment
  BY DEF Emptied
<1>2. segments \in Nat /\ segments <= segments
  BY DEF Inv, TicketsOK
<1>3. HandlesTurn /\ RefsTurn
  BY <1>1, <1>2, OneTurn DEF RefsTurn
<1> QED
  BY <1>2, <1>3, OwnsTurn DEF Inv

LEMMA GiveUpLinked == ASSUME Inv, Linked, NEW w \in Workers, GiveUp(w), UNCHANGED shutting PROVE Linked'
<1> DEFINE ids == Payloads({c.request : c \in ClaimsOf(w)})
<1>1. /\ claimed' = claimed \ ClaimsOf(w) /\ tickets' = tickets \ ids
      /\ UNCHANGED <<pending, segments, posted, refs>>
  BY DEF GiveUp, Complete
<1>2. Emptied(w)
  BY GiveUpIs DEF Inv
<1>3. \A t : t \in ids <=> \E c \in claimed : c.worker = w /\ c.request.payload = t
  BY DEF Payloads, ClaimsOf
<1> HIDE DEF ids
<1>4. PICK new : HandleStep(w, new) /\ new.out = {}
  BY <1>2 DEF Emptied
<1>5. /\ w \in Nat /\ w + 1 \in 1..Len(handles) /\ Handle(w) = handles[w + 1]
      /\ Len(handles') = Len(handles) /\ handles'[w + 1] = new
      /\ \A i \in 1..Len(handles) : i # w + 1 => handles'[i] = handles[i]
  BY <1>4, WorkerHandle DEF Inv, HandleStep
<1>6. ASSUME Links PROVE Links'
  <2>1. \A c \in claimed : c.request.payload \in ids <=> c.worker = w
    BY <1>3, <1>6, OneRequest
  <2>2. \A e \in pending : e.request.payload \notin ids
    BY <1>3, <1>6, OneRequest
  <2>3. Dropped(ids)
    BY <1>1, <2>1, <2>2 DEF Dropped, ClaimsOf
  <2>4. \A i \in 1..Len(handles) : handles'[i].out \subseteq handles[i].out
    BY <1>4, <1>5
  <2>5. OpenKept
    <3> SUFFICES ASSUME NEW i \in 1..Len(handles), NEW t \in tickets', t \in handles[i].out
                 PROVE  t \in handles'[i].out
      BY <1>5, <2>4 DEF OpenKept
    <3>1. t \in tickets /\ t \notin ids
      BY <1>1
    <3>2. PICK c \in claimed : c.worker + 1 = i /\ c.request.payload = t
      BY <1>6, <3>1 DEF Links, OutClaimed
    <3>3. c.worker # w
      BY <1>3, <3>1, <3>2
    <3>4. c.worker \in Int
      BY DEF Inv, SchedOK, SchedTypeOK, Claim
    <3>5. i # w + 1
      BY <1>5, <3>2, <3>3, <3>4
    <3> QED
      BY <1>5, <3>5
  <2> QED
    BY <1>6, <2>3, <2>4, <2>5, LinksDrop
<1>7. Owns'
  BY <1>1, <1>2, EmptiedOwns DEF Linked
<1> QED
  BY <1>6, <1>7 DEF Linked, LinksOK

\* The handle of w has nothing outstanding, the others are as they were.
LEMMA StepReturns ==
    ASSUME Inv, NEW w \in Workers, NEW new, HandleStep(w, new), new.out = {}
    PROVE  Returns(w)
<1>1. /\ w + 1 \in 1..Len(handles) /\ Len(handles') = Len(handles) /\ handles'[w + 1] = new
      /\ \A i \in 1..Len(handles) : i # w + 1 => handles'[i] = handles[i]
  BY WorkerHandle DEF Inv, HandleStep
<1> QED
  BY <1>1 DEF Returns

LEMMA RespawnFailsLinked ==
    ASSUME Inv, Linked, NEW w \in Workers, RespawnFails(w), UNCHANGED shutting PROVE Linked'
<1>1. WorkerCrashed(w) /\ UNCHANGED <<segments, posted, tickets, refs>>
  BY DEF RespawnFails, ticketVars
<1>2. Emptied(w)
  BY RespawnFailsIs DEF Inv
<1>3. Returns(w)
  BY <1>2, StepReturns DEF Emptied
<1>4. LinksOK'
  BY <1>1, <1>3, LinksReturn DEF Inv, Linked, LinksOK
<1>5. Owns'
  BY <1>1, <1>2, EmptiedOwns DEF Linked
<1> QED
  BY <1>4, <1>5 DEF Linked

LEMMA RespawnLinked ==
    ASSUME Inv, Linked, NEW w \in Workers, Respawn(w), UNCHANGED shutting PROVE Linked'
<1> DEFINE r == Handle(w).restarts + 1
           a == Len(procs) + 1
           k == segments + 1
           new == NewHandle(r, a, k)
<1>1. /\ WorkerCrashed(w) /\ handles' = [handles EXCEPT ![w + 1] = new] /\ segments' = k
      /\ UNCHANGED <<posted, tickets, refs>>
  BY DEF Respawn, ticketVars
<1>2. segments \in Nat /\ r \in Nat /\ a \in Nat /\ k \in Nat /\ k > segments
  BY WorkerHandle, LenProperties DEF Inv, TicketsOK, ProcsOK, HandleType
<1> HIDE DEF r, a, k
<1>3. new \in HandleType /\ new.segment = k /\ new.out = {} /\ new.held = {} /\ new.free = new.slots
  BY <1>2, NewHandleIs
<1> HIDE DEF new
<1>4. HandleStep(w, new)
  BY <1>1, <1>3, PutHandle DEF Inv
<1>5. Returns(w)
  BY <1>3, <1>4, StepReturns
<1>6. LinksOK'
  BY <1>1, <1>5, LinksReturn DEF Inv, Linked, LinksOK
<1>7. Credit(new) = new.slots
  BY <1>3, EmptyCredit DEF HandleType
<1>8. HandlesTurn
  <2>1. new.segment > segments /\ new.segment <= segments' /\ segments' \in Nat /\ segments <= segments'
    BY <1>1, <1>2, <1>3
  <2> QED
    BY <1>3, <1>4, <1>7, <2>1, OneTurn
<1>9. RefsTurn
  BY <1>1 DEF RefsTurn
<1>10. Owns'
  BY <1>2, <1>8, <1>9, OwnsTurn DEF Inv, Linked
<1> QED
  BY <1>6, <1>10 DEF Linked

LEMMA RestartLinked == ASSUME Inv, Linked, NEW w \in Workers, RestartWorker(w) PROVE Linked'
<1>1. UNCHANGED shutting /\ (GiveUp(w) \/ Respawn(w) \/ RespawnFails(w))
  BY DEF RestartWorker
<1> QED
  BY <1>1, GiveUpLinked, RespawnLinked, RespawnFailsLinked

\* The last worker leaves: no other moves to another index.
LEMMA ReapLinked ==
    ASSUME Inv, Linked, NEW w \in Workers, Reap(w), w + 1 = Len(handles) PROVE Linked'
<1>1. /\ WorkerCrashed(w) /\ Removed(w) /\ UNCHANGED <<segments, shutting>>
      /\ UNCHANGED <<posted, tickets, refs>>
  BY DEF Reap, Removed, ticketVars
<1>2. w \in Nat /\ w + 1 \in 1..Len(handles) /\ segments \in Nat
  BY WorkerHandle DEF Inv, TicketsOK
<1>3. /\ Len(handles') = Len(handles) - 1
      /\ \A j \in 1..Len(handles') : handles'[j] = handles[IF j <= w THEN j ELSE j + 1]
  BY <1>1, RemoveIs DEF Inv
<1>4. Len(handles') = w /\ \A j \in 1..w : j \in 1..Len(handles) /\ j # w + 1 /\ handles'[j] = handles[j]
  BY <1>2, <1>3
<1>5. Returns(w)
  BY <1>2, <1>4 DEF Returns
<1>6. LinksOK'
  BY <1>1, <1>5, LinksReturn DEF Inv, Linked, LinksOK
<1>7. \A i \in 1..Len(handles) : handles[i].segment \in Nat /\ handles[i].segment <= segments
  BY ElementOfSeq DEF Inv, HandlesOK, HandleOK, HandleType
<1>8. HandlesTurn
  <2>1. \A i \in 1..Len(handles') : KeptHandle(i) /\ ~FreshHandle(i)
    BY <1>2, <1>4, <1>7 DEF KeptHandle, FreshHandle, SameCredit
  <2> QED
    BY <1>1, <1>2, <2>1 DEF HandlesTurn
<1>9. RefsTurn
  BY <1>1 DEF RefsTurn
<1>10. Owns'
  BY <1>2, <1>8, <1>9, OwnsTurn DEF Inv, Linked
<1> QED
  BY <1>6, <1>10 DEF Linked

LEMMA ApplyLinked ==
    ASSUME Inv, Linked, NEW n \in Nat, ApplyTarget(n), UNCHANGED <<ticketVars, shutting>>
    PROVE  Linked'
<1>1. UNCHANGED <<pending, claimed, posted, tickets, refs>>
  BY DEF ApplyTarget, SetWorkerCount, schedVars, ticketVars
<1>2. Len(handles) \in Nat /\ Len(procs) \in Nat /\ segments \in Nat
      /\ \A i \in 1..Len(handles) : handles[i].segment \in Nat /\ handles[i].segment <= segments
  BY LenProperties, ElementOfSeq DEF Inv, HandlesOK, HandleOK, HandleType, ProcsOK, TicketsOK
<1>3. CASE target # n /\ n > Len(handles)
  <2>1. Grow(n)
    BY <1>3 DEF ApplyTarget
  <2>2. PICK made \in Nat :
              /\ Len(handles') = Len(handles) + made /\ segments' = segments + made
              /\ \A i \in 1..Len(handles) : handles'[i] = handles[i]
              /\ \A i \in 1..made : handles'[Len(handles) + i] = NewHandle(0, Len(procs) + i, segments + i)
    BY <1>2, <1>3, <2>1, GrowIs DEF Inv
  <2>3. ASSUME NEW i \in 1..made
        PROVE  LET h == handles'[Len(handles) + i]
               IN  h.out = {} /\ h.held = {} /\ h.segment = segments + i /\ Credit(h) = h.slots
    <3>1. PICK a \in Nat, k \in Nat, z \in Nat : a = Len(procs) + i /\ k = segments + i /\ z = 0
      BY <1>2
    <3>2. PICK h : h = handles'[Len(handles) + i]
      OBVIOUS
    <3>3. h = NewHandle(z, a, k)
      BY <2>2, <3>1, <3>2
    <3>4. h \in HandleType /\ h.segment = k /\ h.out = {} /\ h.held = {} /\ h.free = Slots /\ h.slots = Slots
      <4>1. a \in Nat /\ k \in Nat /\ z \in Nat
        OBVIOUS
      <4> QED
        BY ONLY <3>3, <4>1, NewHandleIs
    <3>5. Credit(h) = h.slots
      BY <3>4, EmptyCredit DEF HandleType
    <3> QED
      BY <3>1, <3>2, <3>4, <3>5
  <2>4. ASSUME NEW j \in 1..Len(handles'), j \notin 1..Len(handles)
        PROVE  /\ j - Len(handles) \in 1..made
               /\ handles'[j].out = {} /\ handles'[j].held = {}
               /\ handles'[j].segment = segments + (j - Len(handles))
               /\ Credit(handles'[j]) = handles'[j].slots
    <3>1. j - Len(handles) \in 1..made /\ Len(handles) + (j - Len(handles)) = j
      BY <1>2, <2>2, <2>4
    <3> QED
      BY <2>3, <3>1
  <2>5. \A i \in 1..Len(handles) : i \in 1..Len(handles')
    BY <1>2, <2>2
  <2>6. OutKept
    BY <2>2, <2>4, <2>5 DEF OutKept
  <2>7. LinksOK'
    BY <1>1, <2>6, LinksStay DEF Linked, LinksOK
  <2>8. HandlesTurn
    <3>1. \A i \in 1..Len(handles) : KeptHandle(i) /\ ~FreshHandle(i)
      BY <1>2, <2>2 DEF KeptHandle, FreshHandle, SameCredit
    <3>2. ASSUME NEW j \in 1..Len(handles'), j \notin 1..Len(handles) PROVE FreshHandle(j)
      <4>1. segments + (j - Len(handles)) > segments /\ segments + (j - Len(handles)) <= segments'
        BY <1>2, <2>2, <2>4, <3>2
      <4> QED
        BY <2>4, <3>2, <4>1 DEF FreshHandle
    <3>3. ASSUME NEW i \in 1..Len(handles'), NEW j \in 1..Len(handles'), FreshHandle(i), FreshHandle(j),
                 handles'[i].segment = handles'[j].segment
          PROVE  i = j
      <4>1. i \notin 1..Len(handles) /\ j \notin 1..Len(handles)
        BY <3>1, <3>3
      <4>2. segments + (i - Len(handles)) = segments + (j - Len(handles))
        BY <2>4, <3>3, <4>1
      <4> QED
        BY <1>2, <4>2
    <3> QED
      BY <1>2, <2>2, <3>1, <3>2, <3>3 DEF HandlesTurn
  <2>9. RefsTurn
    BY <1>1 DEF RefsTurn
  <2>10. Owns'
    BY <1>2, <2>8, <2>9, OwnsTurn DEF Inv, Linked
  <2> QED
    BY <2>7, <2>10 DEF Linked
<1>4. CASE ~(target # n /\ n > Len(handles))
  <2>1. CreditKept /\ UNCHANGED segments
    <3>1. CASE target = n
      BY <3>1, CreditUnchanged DEF ApplyTarget, poolVars, Inv
    <3>2. CASE target # n
      <4>1. Shrink(n)
        BY <1>4, <3>2 DEF ApplyTarget
      <4> QED
        BY <4>1, ShrinkIs DEF Shrink, Inv
    <3> QED
      BY <3>1, <3>2
  <2>2. /\ Len(handles') = Len(handles)
        /\ \A i \in 1..Len(handles) : SameCredit(handles'[i], handles[i]) /\ handles'[i].pid = handles[i].pid
    BY <2>1 DEF CreditKept
  <2>3. OutKept
    BY <2>2 DEF OutKept, SameCredit
  <2>4. LinksOK'
    BY <1>1, <2>3, LinksStay DEF Linked, LinksOK
  <2>5. HandlesTurn
    <3>1. \A i \in 1..Len(handles') : KeptHandle(i) /\ ~FreshHandle(i)
      BY <1>2, <2>2 DEF KeptHandle, FreshHandle, SameCredit
    <3> QED
      BY <1>2, <2>1, <3>1 DEF HandlesTurn
  <2>6. RefsTurn
    BY <1>1 DEF RefsTurn
  <2>7. Owns'
    BY <1>2, <2>5, <2>6, OwnsTurn DEF Inv, Linked
  <2> QED
    BY <2>4, <2>7 DEF Linked
<1> QED
  BY <1>3, <1>4

LEMMA SetTargetLinked == ASSUME Inv, Linked, NEW n \in Targets, SetTargetWorkers(n) PROVE Linked'
<1>1. n \in Nat /\ UNCHANGED <<ticketVars, shutting>>
  BY PoolAssumption DEF SetTargetWorkers
<1>2. CASE ApplyTarget(n)
  BY <1>1, <1>2, ApplyLinked
<1>3. CASE ~ApplyTarget(n)
  <2>1. UNCHANGED <<schedVars, handles, ticketVars, segments, shutting>>
    BY <1>1, <1>3 DEF SetTargetWorkers, poolVars
  <2> QED
    BY <2>1, IgnoredStill, StillLinked
<1> QED
  BY <1>2, <1>3

LEMMA PumpResizeLinked == ASSUME Inv, Linked, PumpResize PROVE Linked'
<1>1. next_target \in Nat /\ UNCHANGED <<ticketVars, shutting>>
  BY DEF PumpResize, Inv, TicketsOK
<1>2. CASE ApplyTarget(next_target)
  BY <1>1, <1>2, ApplyLinked
<1>3. CASE ~ApplyTarget(next_target)
  <2>1. UNCHANGED <<schedVars, handles, ticketVars, segments, shutting>>
    BY <1>1, <1>3 DEF PumpResize, poolVars
  <2> QED
    BY <2>1, IgnoredStill, StillLinked
<1> QED
  BY <1>2, <1>3

\* The pool is down: no child, no ticket.
LEMMA ShutdownFinishLinked == ASSUME Inv, Linked, ShutdownFinish PROVE Linked'
<1>1. /\ handles' = [i \in DOMAIN handles |-> [handles[i] EXCEPT !.pid = 0]] /\ shutting' = "down"
      /\ tickets' \subseteq tickets /\ UNCHANGED <<segments, posted, refs>>
  BY DEF ShutdownFinish, Complete
<1>2. /\ Len(handles') = Len(handles)
      /\ \A i \in 1..Len(handles) : SameCredit(handles'[i], handles[i]) /\ handles'[i].pid = 0
  BY <1>1, ForgetIs DEF Inv
<1>3. segments \in Nat
      /\ \A i \in 1..Len(handles) : handles[i].segment \in Nat /\ handles[i].segment <= segments
  BY ElementOfSeq DEF Inv, HandlesOK, HandleOK, HandleType, TicketsOK
<1>4. HandlesTurn
  <2>1. \A i \in 1..Len(handles') : KeptHandle(i) /\ ~FreshHandle(i)
    BY <1>1, <1>2, <1>3 DEF KeptHandle, FreshHandle, SameCredit
  <2> QED
    BY <1>1, <1>3, <2>1 DEF HandlesTurn
<1>5. RefsTurn
  BY <1>1 DEF RefsTurn
<1>6. Owns'
  BY <1>3, <1>4, <1>5, OwnsTurn DEF Inv, Linked
<1> QED
  BY <1>1, <1>6 DEF Linked, LinksOK

--------------------------------------------------------------------------------
(* The theorems about pools whose last worker leaves first                 *)

\* A worker that is reaped is the last of the vector, so that no other one moves
\* down an index while its claims and its child still name the old one.
LastLeaves == \A w \in Workers : Reap(w) => w + 1 = Len(handles)
OnlyTheLastLeaves == [][LastLeaves]_vars

LEMMA InitLinked == ASSUME Init PROVE Linked
<1>0. InitialWorkers \in Nat \ {0}
  BY PoolAssumption
<1>1. pending = {} /\ claimed = {} /\ tickets = {} /\ refs = {} /\ posted = <<>> /\ segments = InitialWorkers
  BY DEF Init, New
<1>2. Len(handles) = InitialWorkers /\ \A i \in 1..InitialWorkers :
           /\ handles[i].segment = i /\ handles[i].out = {} /\ handles[i].held = {}
           /\ handles[i].free = handles[i].slots /\ handles[i].slots \in Nat
  <2> DEFINE h(i) == [NewHandle(0, i, i) EXCEPT !.state = "Alive"]
  <2>1. handles = [i \in 1..InitialWorkers |-> h(i)]
    BY DEF Init
  <2>2. ASSUME NEW i \in 1..InitialWorkers
        PROVE  /\ h(i).segment = i /\ h(i).out = {} /\ h(i).held = {}
               /\ h(i).free = h(i).slots /\ h(i).slots \in Nat
    BY PoolAssumption DEF NewHandle
  <2> HIDE DEF h
  <2>3. Len(handles) = InitialWorkers
    <3>1. handles \in Seq(HandleType)
      BY InitInv DEF Inv, HandlesOK
    <3> QED
      BY <1>0, <2>1, <3>1, LenProperties
  <2> QED
    BY <2>1, <2>2, <2>3
<1>3. LinksOK
  BY <1>1, <1>2 DEF LinksOK, Links, OneHomePerKey, RequestsOK, ClaimsOut, OutClaimed
<1>4. \A i \in 1..InitialWorkers : Credit(handles[i]) = handles[i].slots
  BY <1>2, EmptyCredit
<1>5. Owns
  BY <1>1, <1>2, <1>4 DEF Owns, SegmentsDiffer, RefsKnown, HeldDone, Exact, ExactHandle
<1> QED
  BY <1>3, <1>5 DEF Linked

LEMMA UnmovedLinked == ASSUME Inv, Linked, UNCHANGED vars PROVE Linked'
<1>1. UNCHANGED <<schedVars, handles, ticketVars, segments, shutting>>
  BY DEF vars, poolVars
<1> QED
  BY <1>1, IgnoredStill, StillLinked

LEMMA StepLinked == ASSUME Inv, Linked, [Next]_vars, [LastLeaves]_vars PROVE Linked'
<1>1. CASE UNCHANGED vars
  BY <1>1, UnmovedLinked
<1>2. ASSUME NEW job \in Jobs, Post(job) PROVE Linked'
  BY <1>2, PostLinked
<1>3. ASSUME NEW key \in Key, CancelFrame(key) PROVE Linked'
  BY <1>3, CancelFrameLinked
<1>4. ASSUME NEW sequence, CancelPreviewSequence(sequence) PROVE Linked'
  BY <1>4, CancelSequenceLinked
<1>5. ASSUME NEW ref \in refs, ReleaseFrame(ref) PROVE Linked'
  BY <1>5, ReleaseLinked
<1>6. ASSUME NEW n \in Targets, SetTargetWorkers(n) PROVE Linked'
  BY <1>6, SetTargetLinked
<1>7. CASE Poll \/ StalePoll \/ ShutdownPump \/ ShutdownBegin
  BY <1>7, PhasesStill, StillLinked
<1>8. CASE ShutdownFinish
  BY <1>8, ShutdownFinishLinked
<1>9. CASE PumpStep /\ LastLeaves
  <2>1. ASSUME NEW w \in Workers, RestartWorker(w) PROVE Linked'
    BY <2>1, RestartLinked
  <2>2. ASSUME NEW w \in Workers, RebuildSegment(w) PROVE Linked'
    BY <2>2, RebuildLinked
  <2>3. ASSUME NEW w \in Workers, DispatchBatch(w) PROVE Linked'
    BY <2>3, DispatchLinked
  <2>4. ASSUME NEW w \in Workers, Reap(w) PROVE Linked'
    BY <1>9, <2>4, ReapLinked DEF LastLeaves
  <2>5. CASE DrainEnd \/ RestartsDone \/ DispatchDone \/ PumpEnd \/ (\E w \in Workers : RebuildFails(w))
    BY <2>5, PhasesStill, StillLinked
  <2>6. CASE PumpResize
    BY <2>6, PumpResizeLinked
  <2> QED
    BY <1>9, <2>1, <2>2, <2>3, <2>4, <2>5, <2>6 DEF PumpStep
<1>10. ASSUME NEW p \in DOMAIN procs, Drain(p) PROVE Linked'
  BY <1>10, EventsStill, StillLinked, OnFrameReadyLinked, OnFrameFailedLinked DEF Drain
<1>11. ASSUME NEW p \in DOMAIN procs, ProcStep(p) \/ ProcCrash(p) PROVE Linked'
  BY <1>11, ChildrenStill, StillLinked
<1> QED
  BY <1>1, <1>2, <1>3, <1>4, <1>5, <1>6, <1>7, <1>8, <1>9, <1>10, <1>11 DEF Next

\* While workers leave from the end, scheduler, tickets and handles stay linked and
\* the credit stays exact.
THEOREM LinksInductive == Safety /\ OnlyTheLastLeaves => []Linked
<1>1. Init => Linked
  BY InitLinked
<1>2. Inv /\ Linked /\ [Next]_vars /\ [LastLeaves]_vars => Linked'
  BY StepLinked
<1> QED
  BY <1>1, <1>2, Inductive, PTL DEF Safety, OnlyTheLastLeaves

\* The scheduler's requests are the open tickets, each once and under its own key.
THEOREM TicketsRequested == Safety /\ OnlyTheLastLeaves => []TicketPerRequest
<1>1. ASSUME Linked PROVE TicketPerRequest
  <2> SUFFICES ASSUME shutting # "down" PROVE TicketPerRequest
    BY DEF TicketPerRequest
  <2> DEFINE requests == {e.request : e \in pending} \cup {c.request : c \in claimed}
  <2>1. Links /\ RequestsOK
    BY <1>1 DEF Linked, LinksOK, Links
  <2>2. \A r \in requests : r.payload \in tickets /\ r.key = posted[r.payload].key
    BY <2>1 DEF RequestsOK
  <2>3. \A r, q \in requests : r.payload = q.payload => r = q
    BY <2>1, OneRequest
  <2>4. \A t \in tickets : \E r \in requests : r.payload = t
    BY <2>1 DEF RequestsOK
  <2>5. Payloads(requests) = tickets
    BY <2>2, <2>4 DEF Payloads
  <2> QED
    BY <2>2, <2>3, <2>5 DEF TicketPerRequest
<1> QED
  BY <1>1, LinksInductive, PTL

\* Every claim is outstanding with the worker the scheduler names.
THEOREM ClaimsBacked == Safety /\ OnlyTheLastLeaves => []ClaimsOutstanding
<1>1. ASSUME Inv, Linked PROVE ClaimsOutstanding
  <2> SUFFICES ASSUME shutting # "down", NEW c \in claimed
               PROVE  c.worker \in Workers /\ c.request.payload \in Handle(c.worker).out
    BY DEF ClaimsOutstanding
  <2>1. c.worker + 1 \in 1..Len(handles) /\ c.request.payload \in handles[c.worker + 1].out
    BY <1>1 DEF Linked, LinksOK, Links, ClaimsOut
  <2>2. c.worker \in Nat /\ Len(handles) \in Nat
    BY <1>1, LenProperties DEF Inv, SchedOK, SchedTypeOK, Claim, HandlesOK
  <2> QED
    BY <2>1, <2>2 DEF Workers, Handle
<1> QED
  BY <1>1, Inductive, LinksInductive, PTL

\* No slot of a worker is lost, and the held ones are those of unreleased frames.
THEOREM CreditExact == Safety /\ OnlyTheLastLeaves => []SlotsAccounted
<1>1. ASSUME Inv, Linked PROVE SlotsAccounted
  <2> SUFFICES ASSUME NEW w \in Workers, Handle(w).pid # 0
               PROVE  /\ Credit(Handle(w)) = Handle(w).slots
                      /\ Handle(w).held = {ref.ticket : ref \in {r \in refs : r.segment = Handle(w).segment}}
    BY DEF SlotsAccounted, Credit
  <2>1. ExactHandle(Handle(w), refs)
    BY <1>1, WorkerHandle DEF Inv, Linked, Owns, Exact
  <2> QED
    BY <2>1 DEF ExactHandle
<1> QED
  BY <1>1, Inductive, LinksInductive, PTL

================================================================================
