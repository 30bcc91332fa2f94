------------------------------ MODULE SlotProofs -------------------------------
(* Proofs about SlotExchange, for every number of tickets, slots, crashes and growths:
   no delivered frame is written over (FramesIntact), the dispatcher and the worker stay
   in lockstep on both rings (InLockstep), and the dispatcher's list mirrors the free ring
   while no slot is lost (RingMirrored). *)
EXTENDS SlotExchange, TLAPS, SequenceTheorems, FiniteSetTheorems, NaturalsInduction

--------------------------------------------------------------------------------
(* Sequences, point by point *)

\* What is left of a sequence without its head
LEMMA TailIs ==
    ASSUME NEW S, NEW q \in Seq(S), q # <<>>
    PROVE  /\ Tail(q) \in Seq(S) /\ Len(q) \in Nat /\ Len(q) > 0 /\ Len(Tail(q)) = Len(q) - 1
           /\ Head(q) = q[1] /\ q[1] \in S
           /\ \A i \in 1..(Len(q) - 1) : Tail(q)[i] = q[i + 1]
  OBVIOUS

\* A sequence with one more element
LEMMA AppendIs ==
    ASSUME NEW S, NEW q \in Seq(S), NEW x \in S
    PROVE  /\ Append(q, x) \in Seq(S) /\ Len(q) \in Nat /\ Len(Append(q, x)) = Len(q) + 1
           /\ Append(q, x)[Len(q) + 1] = x
           /\ \A i \in 1..Len(q) : Append(q, x)[i] = q[i]
  OBVIOUS

--------------------------------------------------------------------------------
(* Types *)

RingType(n) == [head : 0..n, tail : 0..n, capacity : {n + 1}, cell : [0..n -> Nat]]
SegType(s) == [free : RingType(Slots[s]), ready : RingType(Slots[s]), data : [Slot(s) -> Ticket \cup {None}]]
SpecType == [ticket : Ticket, slot : Nat]
MsgType == [type : {"handshake", "batch"}, seg : Nat, specs : Seq(SpecType)]
ReplyType == [type : {"hello_caps", "frame_ready", "frame_failed"}, ticket : Ticket \cup {None}, slot : Nat]
MainAt == {"idle", "consume", "consumed", "deliver", "release", "released"}
WorkerAt == {"loop", "acquire", "acquired", "render", "publish", "published", "ready", "failed", "dead"}

ShmType ==
    /\ DOMAIN shm = Segment
    /\ shm = [s \in Segment |-> shm[s]]
    /\ \A s \in Segment : shm[s] \in SegType(s)
HandleType ==
    /\ seg \in Segment
    /\ free_slots \in Seq(Slot(seg)) /\ held \subseteq Slot(seg)
    /\ DOMAIN outstanding \subseteq Ticket
    /\ \A t \in DOMAIN outstanding : outstanding[t] \in Slot(seg)
    /\ reconfiguring \in BOOLEAN
    /\ main \in [at : MainAt, ticket : Ticket \cup {None}, slot : Nat]
TicketType ==
    /\ ticket \in [Ticket -> {"queued", "sent", "answered"}]
    /\ \A t \in DOMAIN outstanding : ticket[t] # "queued"
    /\ \A f \in refs : f \in [seg : Segment, slot : Nat, ticket : Ticket] /\ f.slot \in Slot(f.seg)
PipeType == inbox \in Seq(MsgType) /\ replies \in Seq(ReplyType)
WorkerType == worker \in [at : WorkerAt, seg : 0..(1 + MaxFresh), todo : Seq(SpecType), got : Nat]
FreshType ==
    /\ fresh \in 0..MaxFresh
    /\ seg + (IF worker.at = "dead" THEN 1 ELSE 0) = 1 + fresh

\* Every variable of the exchange keeps its type.
Types == ShmType /\ HandleType /\ TicketType /\ PipeType /\ WorkerType /\ FreshType

--------------------------------------------------------------------------------
(* The inductive invariant of FramesIntact *)

\* The states in which the worker has a ticket in hand, and those in which it has taken
\* the ticket's slot
Busy == {"acquire", "acquired", "render", "publish", "published", "ready", "failed"}
Rendered == {"publish", "published", "ready"}
InHand == {"consume", "consumed", "deliver"}
Recycling == {"release", "released"}
IsFrame(r) == r.type # "hello_caps"

\* Until hello_caps is read the pipe holds the handshake or its answer and nothing else;
\* after that the worker is on the handle's segment.
Link ==
    /\ reconfiguring =>
          /\ DOMAIN outstanding = {} /\ worker.todo = <<>>
          /\ \/ Len(inbox) = 1 /\ inbox[1].type = "handshake" /\ inbox[1].seg = seg
                /\ inbox[1].specs = <<>> /\ Len(replies) = 0
             \/ Len(inbox) = 0 /\ Len(replies) = 1 /\ replies[1].type = "hello_caps" /\ worker.seg = seg
    /\ ~reconfiguring =>
          /\ worker.seg = seg
          /\ \A k \in 1..Len(inbox) : inbox[k].type = "batch" /\ inbox[k].specs # <<>>
          /\ \A j \in 1..Len(replies) : IsFrame(replies[j])

\* What the worker has in hand
Shape ==
    /\ worker.at = "loop" => worker.todo = <<>>
    /\ worker.at \in Busy => worker.todo # <<>>
    /\ worker.at \in {"render"} \cup Rendered => worker.got = worker.todo[1].slot
    /\ worker.at \in Rendered => shm[seg].data[worker.got] = worker.todo[1].ticket

\* Every ticket on its way is outstanding, with the slot it was sent with
Agrees(spec) == spec.ticket \in DOMAIN outstanding /\ spec.slot = outstanding[spec.ticket]
Agree ==
    /\ \A i \in 1..Len(worker.todo) : Agrees(worker.todo[i])
    /\ \A k \in 1..Len(inbox) : \A i \in 1..Len(inbox[k].specs) : Agrees(inbox[k].specs[i])
    /\ \A j \in 1..Len(replies) :
          /\ IsFrame(replies[j]) => replies[j].ticket \in DOMAIN outstanding
          /\ replies[j].type = "frame_ready" =>
                Agrees(replies[j]) /\ shm[seg].data[replies[j].slot] = replies[j].ticket

\* A ticket is in one place only: with the worker, on its way there, or on its way back
OneInTodo == \A i, j \in 1..Len(worker.todo) : worker.todo[i].ticket = worker.todo[j].ticket => i = j
OneInbox ==
    \A k, l \in 1..Len(inbox) : \A i \in 1..Len(inbox[k].specs), j \in 1..Len(inbox[l].specs) :
        inbox[k].specs[i].ticket = inbox[l].specs[j].ticket => k = l /\ i = j
OneReply ==
    \A i, j \in 1..Len(replies) :
        IsFrame(replies[i]) /\ IsFrame(replies[j]) /\ replies[i].ticket = replies[j].ticket => i = j
TodoOrInbox ==
    \A n \in 1..Len(worker.todo), k \in 1..Len(inbox) : \A i \in 1..Len(inbox[k].specs) :
        worker.todo[n].ticket # inbox[k].specs[i].ticket
TodoOrReply ==
    \A n \in 1..Len(worker.todo), j \in 1..Len(replies) :
        IsFrame(replies[j]) => worker.todo[n].ticket # replies[j].ticket
InboxOrReply ==
    \A j \in 1..Len(replies), k \in 1..Len(inbox) : \A i \in 1..Len(inbox[k].specs) :
        IsFrame(replies[j]) => inbox[k].specs[i].ticket # replies[j].ticket
OnePlace == OneInTodo /\ OneInbox /\ OneReply /\ TodoOrInbox /\ TodoOrReply /\ InboxOrReply

\* A slot is in one place only: free, held, outstanding or in the dispatcher's hands
Apart ==
    /\ \A t, u \in DOMAIN outstanding : outstanding[t] = outstanding[u] => t = u
    /\ \A i, j \in 1..Len(free_slots) : free_slots[i] = free_slots[j] => i = j
    /\ \A i \in 1..Len(free_slots) : free_slots[i] \notin held
    /\ \A i \in 1..Len(free_slots), t \in DOMAIN outstanding : free_slots[i] # outstanding[t]
    /\ \A t \in DOMAIN outstanding : outstanding[t] \notin held
InHandApart ==
    main.at \in InHand =>
        /\ main.slot \in Slot(seg) /\ main.ticket \in Ticket
        /\ main.slot \notin held
        /\ \A i \in 1..Len(free_slots) : free_slots[i] # main.slot
        /\ \A t \in DOMAIN outstanding : outstanding[t] # main.slot
        /\ shm[seg].data[main.slot] = main.ticket
Intact == FramesIntact /\ \A f \in refs : f.seg <= seg

SInv == Types /\ Link /\ Shape /\ Agree /\ OnePlace /\ Apart /\ InHandApart /\ Intact

--------------------------------------------------------------------------------
(* The inductive invariant of InLockstep *)

FreeRing == Contents(Free(seg))
ReadyRing == Contents(Ready(seg))
Taken == {"render", "publish", "published", "ready", "failed"}
Draining == {"consume", "consumed"}
Has(q, slot) == \E p \in 1..Len(q) : q[p] = slot

\* Segments not yet in use are as they were created
Unused == \A s \in Segment : s > seg => shm[s] = NewSegment(s)

\* What the free ring holds is free or assigned, and nobody has it
FreeApart ==
    /\ \A p \in 1..Len(FreeRing) : FreeRing[p] \in Slot(seg) /\ FreeRing[p] \notin held
    /\ \A p, o \in 1..Len(FreeRing) : FreeRing[p] = FreeRing[o] => p = o
    /\ main.at # "idle" => ~Has(FreeRing, main.slot)
    /\ \A j \in 1..Len(replies) : IsFrame(replies[j]) => ~Has(FreeRing, outstanding[replies[j].ticket])
    /\ worker.at \in Taken => ~Has(FreeRing, worker.todo[1].slot)

\* What the ready ring holds is a frame the dispatcher has not read yet
ReadyApart ==
    /\ \A p \in 1..Len(ReadyRing) :
          ReadyRing[p] \in Slot(seg) /\ ReadyRing[p] \notin held /\ ~Has(FreeRing, ReadyRing[p])
    /\ \A p, o \in 1..Len(ReadyRing) : ReadyRing[p] = ReadyRing[o] => p = o
    /\ main.at \in {"deliver"} \cup Recycling => ~Has(ReadyRing, main.slot)
    /\ \A j \in 1..Len(replies) :
          replies[j].type = "frame_failed" => ~Has(ReadyRing, outstanding[replies[j].ticket])
    /\ worker.at \in Taken \ {"ready"} => ~Has(ReadyRing, worker.todo[1].slot)

\* The steps between the two halves of a ring operation
HalfWay ==
    /\ main.at = "released" => Free(seg).cell[Free(seg).head] = main.slot
    /\ worker.at = "published" => Ready(seg).cell[Ready(seg).head] = worker.got
    /\ worker.at = "acquired" => worker.got = worker.todo[1].slot
    /\ main.at \in Recycling => Len(free_slots) > 0 /\ free_slots[Len(free_slots)] = main.slot

\* c[k] is where the slots of message k start in the free ring, c[0] where those of the
\* message in hand start, c[Len(inbox) + 1] where the free ones start
Rising(c, n) == \A k, l \in 0..n : k <= l => c[k] <= c[l]
Mirrored == Len(free_slots) - (IF main.at \in Recycling THEN 1 ELSE 0)
FreeCuts(c) ==
    /\ c \in [0..(Len(inbox) + 1) -> -1..Len(FreeRing)] /\ Rising(c, Len(inbox) + 1)
    /\ c[0] = (IF worker.at \in Taken THEN -1 ELSE 0)
    /\ c[1] = c[0] + Len(worker.todo)
    /\ \A k \in 1..Len(inbox) : c[k + 1] = c[k] + Len(inbox[k].specs)
    /\ \A i \in 1..Len(worker.todo) : c[0] + i > 0 => FreeRing[c[0] + i] = worker.todo[i].slot
    /\ \A k \in 1..Len(inbox) : \A i \in 1..Len(inbox[k].specs) :
          FreeRing[c[k] + i] = inbox[k].specs[i].slot
    /\ Len(FreeRing) = c[Len(inbox) + 1] + Mirrored
    /\ \A i \in 1..Mirrored : FreeRing[c[Len(inbox) + 1] + i] = free_slots[i]
FreeOrder == worker.at # "dead" => \E c : FreeCuts(c)

\* g[j] counts the frames of the ready ring announced by the first j replies
ReadyCounts(g) ==
    /\ g \in [0..Len(replies) -> 0..Len(ReadyRing)] /\ Rising(g, Len(replies))
    /\ g[0] = (IF main.at \in Draining THEN 1 ELSE 0)
    /\ \A j \in 1..Len(replies) : g[j] = g[j - 1] + (IF replies[j].type = "frame_ready" THEN 1 ELSE 0)
    /\ \A j \in 1..Len(replies) : replies[j].type = "frame_ready" => ReadyRing[g[j]] = replies[j].slot
    /\ main.at \in Draining => ReadyRing[1] = main.slot
    /\ worker.at # "dead" => Len(ReadyRing) = g[Len(replies)] + (IF worker.at = "ready" THEN 1 ELSE 0)
    /\ worker.at = "ready" => ReadyRing[Len(ReadyRing)] = worker.got
ReadyOrder == \E g : ReadyCounts(g)

LInv == Unused /\ FreeApart /\ ReadyApart /\ HalfWay /\ FreeOrder /\ ReadyOrder

--------------------------------------------------------------------------------
(* The rings *)

\* Cursors wrap around within the ring.
LEMMA WrapAround ==
    ASSUME NEW c \in Nat, c > 0, NEW a \in Nat, a < 2 * c
    PROVE  a % c = IF a < c THEN a ELSE a - c
  OBVIOUS

\* The cursor after i
LEMMA IncrementIs ==
    ASSUME NEW n \in Nat, NEW r \in RingType(n), NEW i \in 0..n
    PROVE  Increment(r, i) = (IF i = n THEN 0 ELSE i + 1) /\ Increment(r, i) \in 0..n
  <1>1. r.capacity = n + 1 BY DEF RingType
  <1>2. (i + 1) % (n + 1) = IF i + 1 < n + 1 THEN i + 1 ELSE i + 1 - (n + 1)
    <2>1. n + 1 \in Nat /\ n + 1 > 0 /\ i + 1 \in Nat /\ i + 1 < 2 * (n + 1) OBVIOUS
    <2> QED BY ONLY <2>1, WrapAround
  <1> QED BY <1>1, <1>2 DEF Increment

\* Every step of a ring operation leaves a ring.
LEMMA RingSteps ==
    ASSUME NEW n \in Nat, NEW r \in RingType(n), NEW slot \in Nat
    PROVE  /\ PushCell(r, slot) \in RingType(n) /\ PushHead(r) \in RingType(n) /\ PopTail(r) \in RingType(n)
           /\ PopCell(r) \in Nat
  <1>1. r.head \in 0..n /\ r.tail \in 0..n /\ r.cell \in [0..n -> Nat] BY DEF RingType
  <1>2. Increment(r, r.head) \in 0..n /\ Increment(r, r.tail) \in 0..n BY <1>1, IncrementIs
  <1>3. PushCell(r, slot) \in RingType(n) BY <1>1 DEF RingType, PushCell
  <1>4. PushHead(r) \in RingType(n) /\ PopTail(r) \in RingType(n) BY <1>2 DEF RingType, PushHead, PopTail
  <1>5. PopCell(r) \in Nat BY <1>1 DEF PopCell
  <1> QED BY <1>3, <1>4, <1>5

\* A seeded ring, field by field
LEMMA SeededIs ==
    ASSUME NEW n \in Nat
    PROVE  /\ Seeded(n) \in RingType(n)
           /\ Seeded(n).head = n /\ Seeded(n).tail = 0 /\ \A i \in 0..n : i < n => Seeded(n).cell[i] = i
  <1> DEFINE cells == [i \in 0..n |-> IF i < n THEN i ELSE 0]
  <1>1. NewRing(n) \in RingType(n) /\ NewRing(n).tail = 0 BY DEF NewRing, RingType
  <1>2. Seeded(n) = [NewRing(n) EXCEPT !.head = n, !.cell = cells] BY DEF Seeded
  <1>3. cells \in [0..n -> Nat] /\ \A i \in 0..n : i < n => cells[i] = i OBVIOUS
  <1> HIDE DEF cells
  <1>4. [NewRing(n) EXCEPT !.head = n] \in RingType(n) /\ [NewRing(n) EXCEPT !.head = n].tail = 0
        /\ [NewRing(n) EXCEPT !.head = n].head = n
    BY <1>1 DEF RingType
  <1> QED BY <1>2, <1>3, <1>4 DEF RingType

\* A new segment is one.
LEMMA NewSegmentType ==
    ASSUME NEW s \in Segment
    PROVE  NewSegment(s) \in SegType(s)
  <1>1. Slots[s] \in Nat BY ExchangeAssumption
  <1> DEFINE n == Slots[s]
  <1>2. NewRing(n) \in RingType(n) BY <1>1 DEF NewRing, RingType
  <1>3. Seeded(n) \in RingType(n) BY <1>1, SeededIs DEF RingType
  <1>4. [slot \in Slot(s) |-> None] \in [Slot(s) -> Ticket \cup {None}] OBVIOUS
  <1> QED BY <1>2, <1>3, <1>4 DEF NewSegment, SegType

--------------------------------------------------------------------------------
(* What a step does to the segments *)

\* A step on the free ring of a segment leaves the rest of shared memory alone.
LEMMA FreeStep ==
    ASSUME ShmType, NEW s \in Segment, NEW r \in RingType(Slots[s]), shm' = [shm EXCEPT ![s].free = r]
    PROVE  /\ ShmType' /\ Free(s)' = r
           /\ \A u \in Segment : shm'[u].data = shm[u].data /\ Ready(u)' = Ready(u) /\ (u # s => shm'[u] = shm[u])
  <1>1. shm[s] \in SegType(s) BY DEF ShmType
  <1>2. shm'[s] = [shm[s] EXCEPT !.free = r] BY DEF ShmType
  <1>3. DOMAIN shm' = Segment /\ shm' = [u \in Segment |-> shm'[u]] BY DEF ShmType
  <1>4. \A u \in Segment : u # s => shm'[u] = shm[u] BY DEF ShmType
  <1>5. shm'[s] \in SegType(s) /\ shm'[s].free = r /\ shm'[s].data = shm[s].data /\ shm'[s].ready = shm[s].ready
    BY <1>1, <1>2 DEF SegType
  <1> QED BY <1>3, <1>4, <1>5 DEF ShmType, Free, Ready

\* The same for the ready ring
LEMMA ReadyStep ==
    ASSUME ShmType, NEW s \in Segment, NEW r \in RingType(Slots[s]), shm' = [shm EXCEPT ![s].ready = r]
    PROVE  /\ ShmType' /\ Ready(s)' = r
           /\ \A u \in Segment : shm'[u].data = shm[u].data /\ Free(u)' = Free(u) /\ (u # s => shm'[u] = shm[u])
  <1>1. shm[s] \in SegType(s) BY DEF ShmType
  <1>2. shm'[s] = [shm[s] EXCEPT !.ready = r] BY DEF ShmType
  <1>3. DOMAIN shm' = Segment /\ shm' = [u \in Segment |-> shm'[u]] BY DEF ShmType
  <1>4. \A u \in Segment : u # s => shm'[u] = shm[u] BY DEF ShmType
  <1>5. shm'[s] \in SegType(s) /\ shm'[s].ready = r /\ shm'[s].data = shm[s].data /\ shm'[s].free = shm[s].free
    BY <1>1, <1>2 DEF SegType
  <1> QED BY <1>3, <1>4, <1>5 DEF ShmType, Free, Ready

\* The parts of a segment have their types.
LEMMA SegParts ==
    ASSUME ShmType, NEW s \in Segment
    PROVE  /\ Slots[s] \in Nat /\ Slots[s] > 0 /\ s \in Nat
           /\ Free(s) \in RingType(Slots[s]) /\ Ready(s) \in RingType(Slots[s])
           /\ shm[s].data \in [Slot(s) -> Ticket \cup {None}]
  BY ExchangeAssumption DEF ShmType, SegType, Free, Ready, Segment

\* The invariant holds at the start.
LEMMA SlotsStart == Init => SInv
  <1> SUFFICES ASSUME Init PROVE SInv OBVIOUS
  <1> USE ExchangeAssumption
  <1>0. 1 \in Segment /\ Slots[1] \in Nat /\ Slots[1] > 0 BY DEF Segment
  <1>1. ShmType BY NewSegmentType DEF Init, ShmType
  <1>2. HandleType
    <2>1. AllSlots(1) \in Seq(Slot(1))
      <3>1. \A i \in 1..Slots[1] : i - 1 \in Slot(1) BY <1>0 DEF Slot
      <3> QED BY <3>1, <1>0 DEF AllSlots
    <2> QED BY <2>1, <1>0 DEF Init, HandleType, Idle, MainAt
  <1>3. TicketType BY DEF Init, TicketType
  <1>4. Handshake(1) \in MsgType BY DEF Handshake, MsgType
  <1>5. PipeType BY <1>4 DEF Init, PipeType
  <1>6. worker.todo = <<>> /\ worker.at = "loop" /\ worker.seg = 0 /\ worker \in [at : WorkerAt, seg : 0..(1 + MaxFresh), todo : Seq(SpecType), got : Nat]
    BY DEF Init, Loop, WorkerAt
  <1>7. FreshType BY <1>6 DEF Init, FreshType
  <1>8. Link BY <1>6 DEF Init, Link, Handshake
  <1>9. Shape BY <1>6 DEF Shape, Busy, Rendered
  <1>10. Len(inbox) = 1 /\ inbox[1].specs = <<>> /\ Len(replies) = 0 /\ Len(worker.todo) = 0
    BY <1>6 DEF Init, Handshake
  <1>11. Agree BY <1>10 DEF Agree
  <1>12. OnePlace BY <1>10 DEF OnePlace, OneInTodo, OneInbox, OneReply, TodoOrInbox, TodoOrReply, InboxOrReply
  <1>13. Apart
    <2>1. Len(free_slots) = Slots[1] /\ \A i \in 1..Slots[1] : free_slots[i] = i - 1 BY <1>0 DEF Init, AllSlots
    <2> QED BY <1>0, <2>1 DEF Init, Apart
  <1>14. InHandApart BY DEF Init, InHandApart, Idle, InHand
  <1>15. Intact BY DEF Init, Intact, FramesIntact
  <1> QED BY <1>1, <1>2, <1>3, <1>5, <1>6, <1>7, <1>8, <1>9, <1>11, <1>12, <1>13, <1>14, <1>15 DEF SInv, Types, WorkerType

--------------------------------------------------------------------------------
(* Every step keeps the invariant of FramesIntact *)

\* Tickets that stay where they are stay in one place.
LEMMA SamePlaces ==
    ASSUME OnePlace, worker'.todo = worker.todo, inbox' = inbox, replies' = replies
    PROVE  OnePlace'
  <1>1. OneInTodo' /\ OneInbox' /\ OneReply' BY DEF OnePlace, OneInTodo, OneInbox, OneReply
  <1>2. TodoOrInbox' BY DEF OnePlace, TodoOrInbox
  <1>3. TodoOrReply' BY DEF OnePlace, TodoOrReply
  <1>4. InboxOrReply' BY DEF OnePlace, InboxOrReply
  <1> QED BY <1>1, <1>2, <1>3, <1>4 DEF OnePlace

\* A step of the dispatcher that leaves its lists, the pipe and the worker alone
LEMMA QuietStep ==
    ASSUME SInv, ShmType', \A u \in Segment : shm'[u].data = shm[u].data,
           UNCHANGED <<handleVars, refs, pipeVars, worker, fresh>>,
           main' \in [at : MainAt, ticket : Ticket \cup {None}, slot : Nat],
           main'.at \in InHand => main.at \in InHand /\ main'.slot = main.slot /\ main'.ticket = main.ticket,
           ticket' \in [Ticket -> {"queued", "sent", "answered"}],
           \A t \in Ticket : ticket[t] # "queued" => ticket'[t] # "queued"
    PROVE  SInv'
  <1>1. HandleType' BY DEF SInv, Types, HandleType, handleVars
  <1>2. TicketType'
    <2>1. DOMAIN outstanding \subseteq Ticket BY DEF SInv, Types, HandleType
    <2> QED BY <2>1 DEF SInv, Types, TicketType, handleVars
  <1>3. PipeType' /\ WorkerType' /\ FreshType'
    BY DEF SInv, Types, PipeType, WorkerType, FreshType, pipeVars, handleVars
  <1>4. Link' BY DEF SInv, Link, handleVars, pipeVars
  <1>5. seg \in Segment BY DEF SInv, Types, HandleType
  <1>6. Shape' BY <1>5 DEF SInv, Shape, handleVars
  <1>7. Agree' BY <1>5 DEF SInv, Agree, Agrees, handleVars, pipeVars
  <1>8. OnePlace' BY SamePlaces DEF SInv, pipeVars
  <1>9. Apart' BY DEF SInv, Apart, handleVars
  <1>10. InHandApart' BY <1>5 DEF SInv, InHandApart, handleVars
  <1>11. Intact'
    <2>1. \A f \in refs : f.seg \in Segment BY DEF SInv, Types, TicketType
    <2> QED BY <2>1 DEF SInv, Intact, FramesIntact, handleVars
  <1> QED BY <1>1, <1>2, <1>3, <1>4, <1>6, <1>7, <1>8, <1>9, <1>10, <1>11 DEF SInv, Types

\* A step of the worker on the ticket it has in hand, which writes no slot
LEMMA WorkerQuiet ==
    ASSUME SInv, ShmType', \A u \in Segment : shm'[u].data = shm[u].data,
           UNCHANGED <<handleVars, main, ticket, refs, pipeVars>>,
           worker'.todo = worker.todo, worker'.seg = worker.seg, WorkerType', FreshType',
           worker'.at # "loop",
           worker'.at \in Busy => worker.at \in Busy,
           worker'.at \in {"render"} \cup Rendered => worker'.got = worker'.todo[1].slot,
           worker'.at \in Rendered => worker.at \in Rendered /\ worker'.got = worker.got
    PROVE  SInv'
  <1>1. HandleType' BY DEF SInv, Types, HandleType, handleVars
  <1>2. TicketType' BY DEF SInv, Types, TicketType, handleVars
  <1>3. PipeType' BY DEF SInv, Types, PipeType, pipeVars
  <1>4. Link' BY DEF SInv, Link, handleVars, pipeVars
  <1>5. seg \in Segment BY DEF SInv, Types, HandleType
  <1>6. Shape' BY <1>5 DEF SInv, Shape, handleVars
  <1>7. Agree' BY <1>5 DEF SInv, Agree, Agrees, handleVars, pipeVars
  <1>8. OnePlace' BY SamePlaces DEF SInv, pipeVars
  <1>9. Apart' BY DEF SInv, Apart, handleVars
  <1>10. InHandApart' BY <1>5 DEF SInv, InHandApart, handleVars
  <1>11. Intact'
    <2>1. \A f \in refs : f.seg \in Segment BY DEF SInv, Types, TicketType
    <2> QED BY <2>1 DEF SInv, Intact, FramesIntact, handleVars
  <1> QED BY <1>1, <1>2, <1>3, <1>4, <1>6, <1>7, <1>8, <1>9, <1>10, <1>11 DEF SInv, Types

\* A worker with a ticket in hand is on the handle's segment, and the ticket is outstanding.
LEMMA InHandIsOut ==
    ASSUME SInv, worker.todo # <<>>
    PROVE  /\ ~reconfiguring /\ worker.seg = seg /\ seg \in Segment
           /\ Len(worker.todo) > 0 /\ worker.todo \in Seq(SpecType) /\ Current = worker.todo[1]
           /\ worker.todo[1] \in SpecType /\ Agrees(worker.todo[1]) /\ worker.todo[1].slot \in Slot(seg)
  <1>1. worker.todo \in Seq(SpecType) BY DEF SInv, Types, WorkerType
  <1>2. Len(worker.todo) \in Nat /\ Len(worker.todo) > 0 BY <1>1, EmptySeq
  <1>3. Agrees(worker.todo[1]) BY <1>2 DEF SInv, Agree
  <1>4. worker.todo[1].slot \in Slot(seg) /\ seg \in Segment BY <1>3 DEF Agrees, SInv, Types, HandleType
  <1>5. ~reconfiguring /\ worker.seg = seg BY DEF SInv, Link
  <1>6. Current = worker.todo[1] BY <1>1, <1>2 DEF Current
  <1>7. worker.todo[1] \in SpecType BY <1>1, <1>2, ElementOfSeq
  <1> QED BY <1>1, <1>2, <1>3, <1>4, <1>5, <1>6, <1>7

LEMMA CancelKeeps ==
    ASSUME SInv, NEW t \in Ticket, Cancel(t)
    PROVE  SInv'
  <1>1. ticket' \in [Ticket -> {"queued", "sent", "answered"}] /\ \A u \in Ticket : ticket[u] # "queued" => ticket'[u] # "queued"
    BY DEF Cancel, SInv, Types, TicketType
  <1>2. ShmType' BY DEF Cancel, SInv, Types, ShmType
  <1> QED BY <1>1, <1>2, QuietStep DEF Cancel, SInv, Types, HandleType

LEMMA MainQuiet ==
    ASSUME SInv, Consume \/ Consumed \/ Release \/ Released
    PROVE  SInv'
  <1>1. main \in [at : MainAt, ticket : Ticket \cup {None}, slot : Nat] /\ seg \in Segment /\ ShmType
    BY DEF SInv, Types, HandleType
  <1>2. Slots[seg] \in Nat /\ Free(seg) \in RingType(Slots[seg]) /\ Ready(seg) \in RingType(Slots[seg]) /\ main.slot \in Nat
    BY <1>1, SegParts
  <1>3. ShmType' /\ \A u \in Segment : shm'[u].data = shm[u].data
    <2>1. CASE shm' = shm BY <1>1, <2>1 DEF ShmType
    <2>2. CASE Consumed
      <3>1. PopTail(Ready(seg)) \in RingType(Slots[seg]) BY <1>2, RingSteps
      <3>2. shm' = [shm EXCEPT ![seg].ready = PopTail(Ready(seg))] BY <2>2 DEF Consumed, Ready
      <3> QED BY <1>1, <3>1, <3>2, ReadyStep
    <2>3. CASE Release /\ CanPush(Free(seg))
      <3>1. PushCell(Free(seg), main.slot) \in RingType(Slots[seg]) BY <1>2, RingSteps
      <3>2. shm' = [shm EXCEPT ![seg].free = PushCell(Free(seg), main.slot)] BY <2>3 DEF Release, Free
      <3> QED BY <1>1, <3>1, <3>2, FreeStep
    <2>4. CASE Released
      <3>1. PushHead(Free(seg)) \in RingType(Slots[seg]) BY <1>2, RingSteps
      <3>2. shm' = [shm EXCEPT ![seg].free = PushHead(Free(seg))] BY <2>4 DEF Released, Free
      <3> QED BY <1>1, <3>1, <3>2, FreeStep
    <2> QED BY <2>1, <2>2, <2>3, <2>4 DEF Consume, Release
  <1>4. main' \in [at : MainAt, ticket : Ticket \cup {None}, slot : Nat]
        /\ (main'.at \in InHand => main.at \in InHand /\ main'.slot = main.slot /\ main'.ticket = main.ticket)
    <2>1. CASE Consume BY <1>1, <2>1 DEF Consume, MainAt, InHand
    <2>2. CASE Consumed BY <1>1, <2>2 DEF Consumed, MainAt, InHand
    <2>3. CASE Release BY <1>1, <2>3 DEF Release, MainAt, InHand, Idle
    <2>4. CASE Released BY <1>1, <2>4 DEF Released, MainAt, InHand, Idle
    <2> QED BY <2>1, <2>2, <2>3, <2>4
  <1>5. UNCHANGED <<handleVars, ticket, refs, pipeVars, worker, fresh>>
    BY DEF Consume, Consumed, Release, Released
  <1>6. ticket' \in [Ticket -> {"queued", "sent", "answered"}] /\ \A t \in Ticket : ticket[t] # "queued" => ticket'[t] # "queued"
    BY <1>5 DEF SInv, Types, TicketType
  <1> QED BY <1>3, <1>4, <1>5, <1>6, QuietStep

LEMMA WorkerRingSteps ==
    ASSUME SInv, Acquire \/ Acquired \/ Publish \/ Published
    PROVE  SInv'
  <1>0. worker \in [at : WorkerAt, seg : 0..(1 + MaxFresh), todo : Seq(SpecType), got : Nat] /\ ShmType
    BY DEF SInv, Types, WorkerType
  <1>1. worker.at \in Busy /\ worker.at # "dead" BY DEF Acquire, Acquired, Publish, Published, Busy
  <1>2. worker.todo # <<>> BY <1>1 DEF SInv, Shape
  <1>3. worker.seg = seg /\ seg \in Segment /\ Current = worker.todo[1] BY <1>2, InHandIsOut
  <1>4. Slots[seg] \in Nat /\ Free(seg) \in RingType(Slots[seg]) /\ Ready(seg) \in RingType(Slots[seg]) /\ worker.got \in Nat
    BY <1>0, <1>3, SegParts
  <1>5. ShmType' /\ \A u \in Segment : shm'[u].data = shm[u].data
    <2>1. CASE shm' = shm BY <1>0, <2>1 DEF ShmType
    <2>2. CASE Acquired
      <3>1. PopTail(Free(seg)) \in RingType(Slots[seg]) BY <1>4, RingSteps
      <3>2. shm' = [shm EXCEPT ![seg].free = PopTail(Free(seg))] BY <1>3, <2>2 DEF Acquired, Free
      <3> QED BY <1>0, <1>3, <3>1, <3>2, FreeStep
    <2>3. CASE Publish /\ CanPush(Ready(seg))
      <3>1. PushCell(Ready(seg), worker.got) \in RingType(Slots[seg]) BY <1>4, RingSteps
      <3>2. shm' = [shm EXCEPT ![seg].ready = PushCell(Ready(seg), worker.got)] BY <1>3, <2>3 DEF Publish, Ready
      <3> QED BY <1>0, <1>3, <3>1, <3>2, ReadyStep
    <2>4. CASE Published
      <3>1. PushHead(Ready(seg)) \in RingType(Slots[seg]) BY <1>4, RingSteps
      <3>2. shm' = [shm EXCEPT ![seg].ready = PushHead(Ready(seg))] BY <1>3, <2>4 DEF Published, Ready
      <3> QED BY <1>0, <1>3, <3>1, <3>2, ReadyStep
    <2> QED BY <1>3, <2>1, <2>2, <2>3, <2>4 DEF Acquire, Publish
  <1>6. /\ worker' \in [at : WorkerAt, seg : 0..(1 + MaxFresh), todo : Seq(SpecType), got : Nat]
        /\ worker'.todo = worker.todo /\ worker'.seg = worker.seg
        /\ worker'.at \notin {"loop", "dead"}
        /\ worker'.at \in {"render"} \cup Rendered => worker'.got = worker'.todo[1].slot
        /\ worker'.at \in Rendered => worker.at \in Rendered /\ worker'.got = worker.got
    <2>1. CASE Acquire
      <3>1. PopCell(Free(seg)) \in Nat BY <1>4, RingSteps
      <3> QED BY <1>0, <1>3, <2>1, <3>1 DEF Acquire, WorkerAt, Rendered
    <2>2. CASE Acquired BY <1>0, <1>3, <2>2 DEF Acquired, WorkerAt, Rendered
    <2>3. CASE Publish
      <3>1. worker.got = worker.todo[1].slot BY <2>3 DEF Publish, Rendered, SInv, Shape
      <3> QED BY <1>0, <2>3, <3>1 DEF Publish, WorkerAt, Rendered
    <2>4. CASE Published
      <3>1. worker.got = worker.todo[1].slot BY <2>4 DEF Published, Rendered, SInv, Shape
      <3> QED BY <1>0, <2>4, <3>1 DEF Published, WorkerAt, Rendered
    <2> QED BY <2>1, <2>2, <2>3, <2>4
  <1>7. UNCHANGED <<handleVars, main, ticket, refs, pipeVars, fresh>>
    BY DEF Acquire, Acquired, Publish, Published
  <1>8. WorkerType' /\ FreshType' BY <1>1, <1>6, <1>7 DEF SInv, Types, WorkerType, FreshType, handleVars
  <1> QED BY <1>1, <1>5, <1>6, <1>7, <1>8, WorkerQuiet

LEMMA CrashKeeps ==
    ASSUME SInv, Crash
    PROVE  SInv'
  <1>0. worker \in [at : WorkerAt, seg : 0..(1 + MaxFresh), todo : Seq(SpecType), got : Nat]
    BY DEF SInv, Types, WorkerType
  <1>1. worker' \in [at : WorkerAt, seg : 0..(1 + MaxFresh), todo : Seq(SpecType), got : Nat]
        /\ worker'.todo = worker.todo /\ worker'.seg = worker.seg /\ worker'.at = "dead"
    BY <1>0 DEF Crash, WorkerAt
  <1>2. FreshType'
    <2>1. MaxFresh \in Nat BY ExchangeAssumption
    <2>2. seg' = seg /\ seg \in Nat BY <2>1 DEF Crash, handleVars, SInv, Types, HandleType, Segment
    <2>3. worker.at # "dead" /\ fresh' = fresh + 1 /\ fresh < MaxFresh BY DEF Crash
    <2>4. fresh \in 0..MaxFresh /\ seg = 1 + fresh BY <2>2, <2>3 DEF SInv, Types, FreshType
    <2> QED BY <1>1, <2>1, <2>2, <2>3, <2>4 DEF FreshType
  <1>3. ShmType' /\ \A u \in Segment : shm'[u].data = shm[u].data BY DEF Crash, SInv, Types, ShmType
  <1> QED BY <1>1, <1>2, <1>3, WorkerQuiet DEF Crash, WorkerType, Busy, Rendered

\* A frame is written to the slot assigned to its ticket, and nowhere else.
LEMMA RenderWrites ==
    ASSUME SInv, NEW ok \in BOOLEAN, Render(ok), NEW t, t = worker.todo[1].ticket, NEW slot, slot = worker.todo[1].slot
    PROVE  /\ worker.todo # <<>> /\ Len(worker.todo) > 0 /\ worker.got = slot /\ worker.seg = seg /\ seg \in Segment
           /\ t \in Ticket /\ slot \in Slot(seg) /\ t \in DOMAIN outstanding /\ outstanding[t] = slot
           /\ ShmType' /\ shm'[seg].data[slot] = t
           /\ \A o \in Slot(seg) : o # slot => shm'[seg].data[o] = shm[seg].data[o]
           /\ \A u \in Segment : Free(u)' = Free(u) /\ Ready(u)' = Ready(u) /\ (u # seg => shm'[u] = shm[u])
  <1>0. ShmType BY DEF SInv, Types
  <1>1. worker.at = "render" /\ worker.at \in Busy BY DEF Render, Busy
  <1>2. worker.todo # <<>> /\ worker.got = slot BY <1>1 DEF SInv, Shape
  <1>3. /\ worker.seg = seg /\ seg \in Segment /\ Current = worker.todo[1] /\ Len(worker.todo) > 0
        /\ worker.todo[1] \in SpecType /\ Agrees(worker.todo[1]) /\ worker.todo[1].slot \in Slot(seg)
    BY <1>2, InHandIsOut
  <1>4. t \in Ticket /\ slot \in Slot(seg) /\ t \in DOMAIN outstanding /\ outstanding[t] = slot
    BY <1>3 DEF SpecType, Agrees
  <1>5. shm' = [shm EXCEPT ![seg].data[slot] = t] BY <1>2, <1>3 DEF Render
  <1>6. shm[seg] \in SegType(seg) BY <1>0, <1>3 DEF ShmType
  <1>7. shm'[seg] = [shm[seg] EXCEPT !.data = [shm[seg].data EXCEPT ![slot] = t]] BY <1>0, <1>3, <1>5 DEF ShmType
  <1>8. DOMAIN shm' = Segment /\ shm' = [u \in Segment |-> shm'[u]] BY <1>0, <1>5 DEF ShmType
  <1>9. \A u \in Segment : u # seg => shm'[u] = shm[u] BY <1>0, <1>5 DEF ShmType
  <1>10. shm[seg].data \in [Slot(seg) -> Ticket \cup {None}] BY <1>6 DEF SegType
  <1>11. /\ shm'[seg] \in SegType(seg) /\ shm'[seg].data = [shm[seg].data EXCEPT ![slot] = t]
         /\ shm'[seg].ready = shm[seg].ready /\ shm'[seg].free = shm[seg].free
    BY <1>4, <1>6, <1>7, <1>10 DEF SegType
  <1>12. ShmType' BY <1>0, <1>8, <1>9, <1>11 DEF ShmType
  <1>13. shm'[seg].data[slot] = t /\ \A o \in Slot(seg) : o # slot => shm'[seg].data[o] = shm[seg].data[o]
    BY <1>4, <1>10, <1>11
  <1>14. \A u \in Segment : Free(u)' = Free(u) /\ Ready(u)' = Ready(u) BY <1>9, <1>11 DEF Free, Ready
  <1> QED BY <1>2, <1>3, <1>4, <1>9, <1>12, <1>13, <1>14

LEMMA RenderKeeps ==
    ASSUME SInv, NEW ok \in BOOLEAN, Render(ok)
    PROVE  SInv'
  <1>0. worker \in [at : WorkerAt, seg : 0..(1 + MaxFresh), todo : Seq(SpecType), got : Nat] /\ ShmType
    BY DEF SInv, Types, WorkerType
  <1>1. worker.at = "render" BY DEF Render
  <1>4. PICK t : t = worker.todo[1].ticket OBVIOUS
  <1>5. PICK slot : slot = worker.todo[1].slot OBVIOUS
  <1>6. /\ t \in DOMAIN outstanding /\ outstanding[t] = slot /\ slot \in Slot(seg) /\ seg \in Segment
        /\ worker.todo # <<>> /\ worker.got = slot /\ Len(worker.todo) > 0
    BY <1>4, <1>5, RenderWrites
  <1>8. /\ ShmType' /\ shm'[seg].data[slot] = t
        /\ \A o \in Slot(seg) : o # slot => shm'[seg].data[o] = shm[seg].data[o]
        /\ \A u \in Segment : u # seg => shm'[u] = shm[u]
    BY <1>4, <1>5, RenderWrites
  <1>9. UNCHANGED <<handleVars, main, ticket, refs, pipeVars, fresh>> BY DEF Render
  <1>10. /\ worker' \in [at : WorkerAt, seg : 0..(1 + MaxFresh), todo : Seq(SpecType), got : Nat]
         /\ worker'.todo = worker.todo /\ worker'.seg = worker.seg /\ worker'.got = worker.got
         /\ worker'.at \in {"publish", "failed"}
    BY <1>0 DEF Render, WorkerAt
  <1>11. HandleType' BY <1>9 DEF SInv, Types, HandleType, handleVars
  <1>12. TicketType' BY <1>9 DEF SInv, Types, TicketType, handleVars
  <1>13. PipeType' BY <1>9 DEF SInv, Types, PipeType, pipeVars
  <1>14. WorkerType' /\ FreshType' BY <1>1, <1>9, <1>10 DEF SInv, Types, WorkerType, FreshType, handleVars
  <1>15. Link' BY <1>9, <1>10 DEF SInv, Link, handleVars, pipeVars
  <1>16. Shape'
    <2>1. shm'[seg].data[worker.got] = worker.todo[1].ticket BY <1>4, <1>6, <1>8
    <2> QED BY <1>5, <1>6, <1>9, <1>10, <2>1 DEF Shape, handleVars
  <1>17. Agree'
    <2>1. \A i \in 1..Len(worker.todo) : Agrees(worker.todo[i])' BY <1>9, <1>10 DEF SInv, Agree, Agrees, handleVars
    <2>2. \A k \in 1..Len(inbox) : \A i \in 1..Len(inbox[k].specs) : Agrees(inbox[k].specs[i])'
      BY <1>9 DEF SInv, Agree, Agrees, handleVars, pipeVars
    <2>3. \A j \in 1..Len(replies) :
             /\ IsFrame(replies[j]) => replies[j].ticket \in DOMAIN outstanding
             /\ replies[j].type = "frame_ready" =>
                  Agrees(replies[j]) /\ shm'[seg].data[replies[j].slot] = replies[j].ticket
      <3> SUFFICES ASSUME NEW j \in 1..Len(replies), replies[j].type = "frame_ready"
                   PROVE  shm'[seg].data[replies[j].slot] = replies[j].ticket
        BY DEF SInv, Agree
      <3>1. Agrees(replies[j]) /\ shm[seg].data[replies[j].slot] = replies[j].ticket BY DEF SInv, Agree
      <3>2. replies[j].ticket # t BY <1>4, <1>6 DEF SInv, OnePlace, TodoOrReply, IsFrame
      <3>3. replies[j].slot \in Slot(seg) /\ replies[j].slot # slot
        BY <1>6, <3>1, <3>2 DEF SInv, Apart, Agrees, Types, HandleType
      <3> QED BY <1>8, <3>1, <3>3
    <2> QED BY <1>9, <1>10, <2>1, <2>2, <2>3 DEF Agree, Agrees, handleVars, pipeVars
  <1>18. OnePlace'
    <2>1. worker'.todo = worker.todo /\ inbox' = inbox /\ replies' = replies BY <1>9, <1>10 DEF pipeVars
    <2>2. OnePlace BY DEF SInv
    <2> QED BY ONLY <2>1, <2>2, SamePlaces
  <1>19. Apart' BY <1>9 DEF SInv, Apart, handleVars
  <1>20. InHandApart' BY <1>6, <1>8, <1>9 DEF SInv, InHandApart, handleVars
  <1>21. Intact'
    <2> SUFFICES ASSUME NEW f \in refs PROVE shm'[f.seg].data[f.slot] = f.ticket
      BY <1>9 DEF SInv, Intact, FramesIntact, handleVars
    <2>1. f.seg \in Segment /\ f.slot \in Slot(f.seg) /\ shm[f.seg].data[f.slot] = f.ticket /\ (f.seg = seg => f.slot \in held)
      BY DEF SInv, Intact, FramesIntact, Types, TicketType
    <2>2. slot \notin held BY <1>6 DEF SInv, Apart
    <2> QED BY <1>8, <2>1, <2>2
  <1> QED BY <1>8, <1>11, <1>12, <1>13, <1>14, <1>15, <1>16, <1>17, <1>18, <1>19, <1>20, <1>21 DEF SInv, Types

\* The answer to a ticket, and the worker on the next one
LEMMA SayEffect ==
    ASSUME SInv, SayReady \/ SayFailed, NEW h, h = worker.todo[1]
    PROVE  /\ worker.todo # <<>> /\ h \in SpecType /\ Agrees(h) /\ ~reconfiguring /\ worker.seg = seg /\ seg \in Segment
           /\ Len(worker.todo) \in Nat /\ Len(worker.todo) > 0
           /\ UNCHANGED <<shm, handleVars, main, ticket, refs, inbox, fresh>>
           /\ worker' \in [at : WorkerAt, seg : 0..(1 + MaxFresh), todo : Seq(SpecType), got : Nat]
           /\ worker'.seg = worker.seg /\ worker'.got = worker.got
           /\ worker'.at = (IF Len(worker.todo) > 1 THEN "acquire" ELSE "loop")
           /\ Len(worker'.todo) = Len(worker.todo) - 1
           /\ \A i \in 1..(Len(worker.todo) - 1) : worker'.todo[i] = worker.todo[i + 1]
           /\ replies' \in Seq(ReplyType) /\ Len(replies) \in Nat /\ Len(replies') = Len(replies) + 1
           /\ \A j \in 1..Len(replies) : replies'[j] = replies[j]
           /\ replies'[Len(replies) + 1].ticket = h.ticket
           /\ SayReady => replies'[Len(replies) + 1].type = "frame_ready" /\ replies'[Len(replies) + 1].slot = worker.got
           /\ SayFailed => replies'[Len(replies) + 1].type = "frame_failed"
  <1>0. worker \in [at : WorkerAt, seg : 0..(1 + MaxFresh), todo : Seq(SpecType), got : Nat] /\ replies \in Seq(ReplyType)
    BY DEF SInv, Types, WorkerType, PipeType
  <1>1. worker.at \in Busy BY DEF SayReady, SayFailed, Busy
  <1>2. worker.todo # <<>> BY <1>1 DEF SInv, Shape
  <1>3. /\ ~reconfiguring /\ worker.seg = seg /\ seg \in Segment
        /\ Current = h /\ h \in SpecType /\ Agrees(h)
    BY <1>2, InHandIsOut
  <1> DEFINE rest == Tail(worker.todo)
  <1>4. /\ rest \in Seq(SpecType) /\ Len(worker.todo) \in Nat /\ Len(worker.todo) > 0 /\ Len(rest) = Len(worker.todo) - 1
        /\ \A i \in 1..(Len(worker.todo) - 1) : rest[i] = worker.todo[i + 1]
    <2>1. worker.todo \in Seq(SpecType) BY <1>0
    <2> QED BY ONLY <2>1, <1>2, TailIs
  <1>5. worker' = [worker EXCEPT !.at = IF Len(worker.todo) > 1 THEN "acquire" ELSE "loop", !.todo = rest]
    BY DEF SayReady, SayFailed, Next1
  <1> HIDE DEF rest
  <1>6. /\ worker' \in [at : WorkerAt, seg : 0..(1 + MaxFresh), todo : Seq(SpecType), got : Nat]
        /\ worker'.seg = worker.seg /\ worker'.got = worker.got /\ worker'.todo = rest
        /\ worker'.at = (IF Len(worker.todo) > 1 THEN "acquire" ELSE "loop")
    BY <1>0, <1>4, <1>5 DEF WorkerAt
  <1>7. PICK r \in ReplyType : /\ replies' = Append(replies, r) /\ r.ticket = h.ticket
                               /\ SayReady => r.type = "frame_ready" /\ r.slot = worker.got
                               /\ SayFailed => r.type = "frame_failed"
    <2>1. CASE SayReady
      <3>1. ~SayFailed BY <2>1 DEF SayReady, SayFailed
      <3>2. [type |-> "frame_ready", ticket |-> h.ticket, slot |-> worker.got] \in ReplyType
        BY <1>0, <1>3 DEF ReplyType, SpecType
      <3>3. replies' = Append(replies, [type |-> "frame_ready", ticket |-> h.ticket, slot |-> worker.got])
        BY <1>3, <2>1 DEF SayReady, Answer
      <3> QED BY <3>1, <3>2, <3>3
    <2>2. CASE SayFailed
      <3>1. ~SayReady BY <2>2 DEF SayReady, SayFailed
      <3>2. [type |-> "frame_failed", ticket |-> h.ticket, slot |-> 0] \in ReplyType
        BY <1>3 DEF ReplyType, SpecType
      <3>3. replies' = Append(replies, [type |-> "frame_failed", ticket |-> h.ticket, slot |-> 0])
        BY <1>3, <2>2 DEF SayFailed, Answer
      <3> QED BY <3>1, <3>2, <3>3
    <2> QED BY <2>1, <2>2
  <1>8. /\ replies' \in Seq(ReplyType) /\ Len(replies) \in Nat /\ Len(replies') = Len(replies) + 1
        /\ \A j \in 1..Len(replies) : replies'[j] = replies[j]
        /\ replies'[Len(replies) + 1] = r
    BY ONLY <1>0, <1>7, AppendIs
  <1>9. UNCHANGED <<shm, handleVars, main, ticket, refs, inbox, fresh>> BY DEF SayReady, SayFailed
  <1> QED BY <1>2, <1>3, <1>4, <1>6, <1>7, <1>8, <1>9

LEMMA SayKeeps ==
    ASSUME SInv, SayReady \/ SayFailed
    PROVE  SInv'
  <1> PICK h : h = worker.todo[1] OBVIOUS
  <1> PICK n : n = Len(replies) + 1 OBVIOUS
  <1>1. /\ worker.todo # <<>> /\ h \in SpecType /\ Agrees(h) /\ ~reconfiguring /\ worker.seg = seg /\ seg \in Segment
        /\ Len(worker.todo) \in Nat /\ Len(worker.todo) > 0
    BY SayEffect
  <1>2. UNCHANGED <<shm, handleVars, main, ticket, refs, inbox, fresh>> BY SayEffect
  <1>3. /\ worker' \in [at : WorkerAt, seg : 0..(1 + MaxFresh), todo : Seq(SpecType), got : Nat]
        /\ worker'.seg = worker.seg /\ worker'.at = (IF Len(worker.todo) > 1 THEN "acquire" ELSE "loop")
        /\ Len(worker'.todo) = Len(worker.todo) - 1
    BY SayEffect
  <1>4. \A i \in 1..Len(worker'.todo) : i + 1 \in 1..Len(worker.todo) /\ worker'.todo[i] = worker.todo[i + 1]
    <2>1. \A i \in 1..(Len(worker.todo) - 1) : worker'.todo[i] = worker.todo[i + 1] BY SayEffect
    <2> QED BY <1>1, <1>3, <2>1
  <1>5. replies' \in Seq(ReplyType) /\ Len(replies) \in Nat /\ Len(replies') = n /\ n \in Nat BY SayEffect
  <1>6. \A j \in 1..Len(replies') : j # n => j \in 1..Len(replies) /\ replies'[j] = replies[j]
    <2>1. \A j \in 1..Len(replies) : replies'[j] = replies[j] BY SayEffect
    <2> QED BY <1>5, <2>1
  <1>7. /\ replies'[n].ticket = h.ticket /\ IsFrame(replies'[n])
        /\ replies'[n].type = "frame_ready" => SayReady /\ replies'[n].slot = worker.got
    <2>1. replies'[Len(replies) + 1].ticket = h.ticket
          /\ (SayReady => replies'[Len(replies) + 1].type = "frame_ready" /\ replies'[Len(replies) + 1].slot = worker.got)
          /\ (SayFailed => replies'[Len(replies) + 1].type = "frame_failed")
      BY SayEffect
    <2> QED BY <2>1 DEF IsFrame
  <1>8. shm' = shm /\ seg' = seg /\ outstanding' = outstanding /\ inbox' = inbox /\ reconfiguring' = reconfiguring
    BY <1>2 DEF handleVars
  <1>9. worker.at # "dead" /\ worker'.at # "dead" BY <1>3 DEF SayReady, SayFailed
  <1>11. ShmType' /\ HandleType' BY <1>2 DEF SInv, Types, ShmType, HandleType, handleVars
  <1>12. TicketType' BY <1>2 DEF SInv, Types, TicketType, handleVars
  <1>13. PipeType' BY <1>5, <1>8 DEF SInv, Types, PipeType
  <1>14. WorkerType' /\ FreshType' BY <1>2, <1>3, <1>9 DEF SInv, Types, WorkerType, FreshType, handleVars
  <1>15. Link'
    <2>1. \A k \in 1..Len(inbox) : inbox[k].type = "batch" /\ inbox[k].specs # <<>> BY <1>1 DEF SInv, Link
    <2>2. \A j \in 1..Len(replies) : IsFrame(replies[j]) BY <1>1 DEF SInv, Link
    <2>3. \A j \in 1..Len(replies') : IsFrame(replies'[j]) BY <1>6, <1>7, <2>2
    <2> QED BY <1>1, <1>3, <1>8, <2>1, <2>3 DEF Link
  <1>16. Shape'
    <2>1. worker'.todo \in Seq(SpecType) BY <1>3
    <2>2. Len(worker.todo) > 1 => worker'.todo # <<>> BY <1>1, <1>3, <2>1, EmptySeq
    <2>3. ~(Len(worker.todo) > 1) => worker'.todo = <<>> BY <1>1, <1>3, <2>1, EmptySeq
    <2> QED BY <1>3, <2>2, <2>3 DEF Shape, Busy, Rendered
  <1>17. Agree'
    <2>1. \A i \in 1..Len(worker'.todo) : Agrees(worker'.todo[i]) BY <1>4 DEF SInv, Agree
    <2>2. \A k \in 1..Len(inbox) : \A i \in 1..Len(inbox[k].specs) : Agrees(inbox[k].specs[i]) BY DEF SInv, Agree
    <2>3. \A j \in 1..Len(replies') : IsFrame(replies'[j]) => replies'[j].ticket \in DOMAIN outstanding
      BY <1>1, <1>6, <1>7 DEF SInv, Agree, Agrees
    <2>4. \A j \in 1..Len(replies') : replies'[j].type = "frame_ready" =>
               Agrees(replies'[j]) /\ shm[seg].data[replies'[j].slot] = replies'[j].ticket
      <3> SUFFICES ASSUME NEW j \in 1..Len(replies'), replies'[j].type = "frame_ready"
                   PROVE  Agrees(replies'[j]) /\ shm[seg].data[replies'[j].slot] = replies'[j].ticket
        OBVIOUS
      <3>1. CASE j # n BY <1>6, <3>1 DEF SInv, Agree
      <3>2. CASE j = n
        <4>1. SayReady /\ replies'[j].slot = worker.got /\ replies'[j].ticket = h.ticket BY <1>7, <3>2
        <4>2. worker.got = h.slot /\ shm[seg].data[worker.got] = h.ticket BY <4>1 DEF SayReady, SInv, Shape, Rendered
        <4> QED BY <1>1, <4>1, <4>2 DEF Agrees
      <3> QED BY <3>1, <3>2
    <2> QED BY <1>8, <2>1, <2>2, <2>3, <2>4 DEF Agree, Agrees
  <1>18. OnePlace'
    <2>0. OneInTodo /\ OneInbox /\ OneReply /\ TodoOrInbox /\ TodoOrReply /\ InboxOrReply BY DEF SInv, OnePlace
    <2>1. OneInTodo'
      <3> SUFFICES ASSUME NEW i \in 1..Len(worker'.todo), NEW j \in 1..Len(worker'.todo),
                          worker'.todo[i].ticket = worker'.todo[j].ticket
                   PROVE  i = j
        BY DEF OneInTodo
      <3>1. PICK a \in 1..Len(worker.todo) : a = i + 1 /\ worker'.todo[i] = worker.todo[a] BY <1>4
      <3>2. PICK b \in 1..Len(worker.todo) : b = j + 1 /\ worker'.todo[j] = worker.todo[b] BY <1>4
      <3>3. a = b BY <2>0, <3>1, <3>2 DEF OneInTodo
      <3> QED BY <3>1, <3>2, <3>3
    <2>2. OneInbox' BY <1>8, <2>0 DEF OneInbox
    <2>3. \A j \in 1..Len(replies) : IsFrame(replies[j]) => replies[j].ticket # h.ticket
      BY <1>1, <2>0 DEF TodoOrReply
    <2>4. OneReply'
      <3> SUFFICES ASSUME NEW i \in 1..Len(replies'), NEW j \in 1..Len(replies'), IsFrame(replies'[i]), IsFrame(replies'[j]),
                          replies'[i].ticket = replies'[j].ticket
                   PROVE  i = j
        BY DEF OneReply
      <3>1. CASE i # n /\ j # n BY <1>6, <2>0, <3>1 DEF OneReply
      <3>2. CASE i = n /\ j # n BY <1>6, <1>7, <2>3, <3>2
      <3>3. CASE i # n /\ j = n BY <1>6, <1>7, <2>3, <3>3
      <3> QED BY <3>1, <3>2, <3>3
    <2>5. TodoOrInbox'
      <3> SUFFICES ASSUME NEW i \in 1..Len(worker'.todo), NEW k \in 1..Len(inbox), NEW j \in 1..Len(inbox[k].specs)
                   PROVE  worker'.todo[i].ticket # inbox[k].specs[j].ticket
        BY <1>8 DEF TodoOrInbox
      <3>1. PICK a \in 1..Len(worker.todo) : worker'.todo[i] = worker.todo[a] BY <1>4
      <3> QED BY <2>0, <3>1 DEF TodoOrInbox
    <2>6. \A i \in 1..Len(worker'.todo) : worker'.todo[i].ticket # h.ticket
      <3> TAKE i \in 1..Len(worker'.todo)
      <3>1. PICK a \in 1..Len(worker.todo) : a = i + 1 /\ worker'.todo[i] = worker.todo[a] BY <1>4
      <3>2. 1 \in 1..Len(worker.todo) /\ a # 1 BY <1>1, <3>1
      <3> QED BY <2>0, <3>1, <3>2 DEF OneInTodo
    <2>7. TodoOrReply'
      <3> SUFFICES ASSUME NEW i \in 1..Len(worker'.todo), NEW j \in 1..Len(replies'), IsFrame(replies'[j])
                   PROVE  worker'.todo[i].ticket # replies'[j].ticket
        BY DEF TodoOrReply
      <3>1. CASE j = n BY <1>7, <2>6, <3>1
      <3>2. CASE j # n BY <1>4, <1>6, <2>0, <3>2 DEF TodoOrReply
      <3> QED BY <3>1, <3>2
    <2>8. \A k \in 1..Len(inbox) : \A i \in 1..Len(inbox[k].specs) : inbox[k].specs[i].ticket # h.ticket
      BY <1>1, <2>0 DEF TodoOrInbox
    <2>9. InboxOrReply'
      <3> SUFFICES ASSUME NEW j \in 1..Len(replies'), NEW k \in 1..Len(inbox), NEW i \in 1..Len(inbox[k].specs), IsFrame(replies'[j])
                   PROVE  inbox[k].specs[i].ticket # replies'[j].ticket
        BY <1>8 DEF InboxOrReply
      <3>1. CASE j = n BY <1>7, <2>8, <3>1
      <3>2. CASE j # n BY <1>6, <2>0, <3>2 DEF InboxOrReply
      <3> QED BY <3>1, <3>2
    <2> QED BY <2>1, <2>2, <2>4, <2>5, <2>7, <2>9 DEF OnePlace
  <1>19. Apart' BY <1>2 DEF SInv, Apart, handleVars
  <1>20. InHandApart' BY <1>2 DEF SInv, InHandApart, handleVars
  <1>21. Intact' BY <1>2 DEF SInv, Intact, FramesIntact, handleVars
  <1> QED BY <1>11, <1>12, <1>13, <1>14, <1>15, <1>16, <1>17, <1>18, <1>19, <1>20, <1>21 DEF SInv, Types

\* The worker takes the next message: a handshake moves it to the segment, a batch is
\* what it has in hand from then on.
LEMMA TakeEffect ==
    ASSUME SInv, Attach \/ TakeBatch, NEW h, h = inbox[1]
    PROVE  /\ worker.at = "loop" /\ worker.todo = <<>> /\ h \in MsgType
           /\ inbox' \in Seq(MsgType) /\ Len(inbox) \in Nat /\ Len(inbox) > 0 /\ Len(inbox') = Len(inbox) - 1
           /\ \A k \in 1..(Len(inbox) - 1) : inbox'[k] = inbox[k + 1]
           /\ UNCHANGED <<shm, handleVars, main, ticket, refs, fresh>>
           /\ Attach => h.type = "handshake" /\ reconfiguring
           /\ TakeBatch => h.type = "batch" /\ ~reconfiguring
  <1>1. worker.at = "loop" BY DEF Attach, TakeBatch
  <1>2. worker.todo = <<>> BY <1>1 DEF SInv, Shape
  <1>3. inbox \in Seq(MsgType) /\ inbox # <<>> /\ inbox' = Tail(inbox) BY DEF Attach, TakeBatch, SInv, Types, PipeType
  <1>4. /\ inbox' \in Seq(MsgType) /\ Len(inbox) \in Nat /\ Len(inbox) > 0 /\ Len(inbox') = Len(inbox) - 1
        /\ Head(inbox) = h /\ h \in MsgType
        /\ \A k \in 1..(Len(inbox) - 1) : inbox'[k] = inbox[k + 1]
    BY ONLY <1>3, TailIs, h = inbox[1]
  <1>5. Attach => h.type = "handshake" BY <1>4 DEF Attach
  <1>6. TakeBatch => h.type = "batch" BY <1>4 DEF TakeBatch
  <1>7. reconfiguring => h.type = "handshake" BY <1>4 DEF SInv, Link
  <1>8. ~reconfiguring => h.type = "batch" BY <1>4 DEF SInv, Link
  <1>9. reconfiguring \in BOOLEAN BY DEF SInv, Types, HandleType
  <1>10. UNCHANGED <<shm, handleVars, main, ticket, refs, fresh>> BY DEF Attach, TakeBatch
  <1> QED BY <1>1, <1>2, <1>4, <1>5, <1>6, <1>7, <1>8, <1>9, <1>10

\* The worker attaches to the handle's segment and says so.
LEMMA AttachEffect ==
    ASSUME SInv, Attach
    PROVE  /\ Len(inbox) = 1 /\ Len(inbox') = 0 /\ worker' = Loop(seg) /\ reconfiguring
           /\ replies' \in Seq(ReplyType) /\ Len(replies) = 0 /\ Len(replies') = 1 /\ replies'[1].type = "hello_caps"
  <1> PICK h : h = inbox[1] OBVIOUS
  <1>1. /\ h \in MsgType /\ Len(inbox) \in Nat /\ Len(inbox) > 0 /\ Len(inbox') = Len(inbox) - 1 /\ reconfiguring
    BY TakeEffect
  <1>2. Len(inbox) = 1 /\ h.seg = seg /\ Len(replies) = 0 BY <1>1 DEF SInv, Link
  <1>3. inbox \in Seq(MsgType) /\ inbox # <<>> /\ replies \in Seq(ReplyType) BY <1>1 DEF Attach, SInv, Types, PipeType
  <1>4. Head(inbox) = h BY <1>3
  <1>5. worker' = Loop(seg) BY <1>2, <1>4 DEF Attach
  <1> DEFINE r == [type |-> "hello_caps", ticket |-> None, slot |-> 0]
  <1>6. r \in ReplyType /\ r.type = "hello_caps" BY DEF ReplyType
  <1>7. replies' = Append(replies, r) BY DEF Attach, Answer
  <1> HIDE DEF r
  <1>8. replies' \in Seq(ReplyType) /\ Len(replies') = Len(replies) + 1 /\ replies'[Len(replies) + 1] = r
    BY ONLY <1>3, <1>6, <1>7, AppendIs
  <1>9. Len(replies') = 1 /\ replies'[1] = r BY <1>2, <1>8
  <1> QED BY <1>1, <1>2, <1>5, <1>6, <1>8, <1>9

LEMMA AttachKeeps ==
    ASSUME SInv, Attach
    PROVE  SInv'
  <1>1. /\ Len(inbox') = 0 /\ worker' = Loop(seg) /\ reconfiguring /\ replies' \in Seq(ReplyType)
        /\ Len(replies') = 1 /\ replies'[1].type = "hello_caps"
    BY AttachEffect
  <1>2. UNCHANGED <<shm, handleVars, main, ticket, refs, fresh>> /\ inbox' \in Seq(MsgType) /\ worker.at = "loop"
    <2> PICK h : h = inbox[1] OBVIOUS
    <2> QED BY TakeEffect
  <1>3. seg \in 0..(1 + MaxFresh) BY ExchangeAssumption DEF SInv, Types, HandleType, Segment
  <1>4. /\ worker' \in [at : WorkerAt, seg : 0..(1 + MaxFresh), todo : Seq(SpecType), got : Nat]
        /\ worker'.todo = <<>> /\ worker'.at = "loop" /\ worker'.seg = seg /\ Len(worker'.todo) = 0
    BY <1>1, <1>3 DEF Loop, WorkerAt
  <1>11. ShmType' /\ HandleType' BY <1>2 DEF SInv, Types, ShmType, HandleType, handleVars
  <1>12. TicketType' BY <1>2 DEF SInv, Types, TicketType, handleVars
  <1>13. PipeType' BY <1>1, <1>2 DEF PipeType
  <1>14. WorkerType' /\ FreshType' BY <1>2, <1>4 DEF SInv, Types, WorkerType, FreshType, handleVars
  <1>15. Link' BY <1>1, <1>2, <1>4 DEF SInv, Link, handleVars
  <1>16. Shape' BY <1>4 DEF Shape, Busy, Rendered
  <1>17. Agree' BY <1>1, <1>4 DEF Agree, IsFrame
  <1>18. OnePlace'
    BY <1>1, <1>4 DEF OnePlace, OneInTodo, OneInbox, OneReply, TodoOrInbox, TodoOrReply, InboxOrReply, IsFrame
  <1>19. Apart' BY <1>2 DEF SInv, Apart, handleVars
  <1>20. InHandApart' BY <1>2 DEF SInv, InHandApart, handleVars
  <1>21. Intact' BY <1>2 DEF SInv, Intact, FramesIntact, handleVars
  <1> QED BY <1>11, <1>12, <1>13, <1>14, <1>15, <1>16, <1>17, <1>18, <1>19, <1>20, <1>21 DEF SInv, Types

LEMMA TakeBatchKeeps ==
    ASSUME SInv, TakeBatch
    PROVE  SInv'
  <1> PICK h : h = inbox[1] OBVIOUS
  <1>0. worker \in [at : WorkerAt, seg : 0..(1 + MaxFresh), todo : Seq(SpecType), got : Nat] /\ seg \in Segment
    BY DEF SInv, Types, WorkerType, HandleType
  <1>1. /\ worker.at = "loop" /\ worker.todo = <<>> /\ h \in MsgType /\ ~reconfiguring
        /\ inbox' \in Seq(MsgType) /\ Len(inbox) \in Nat /\ Len(inbox) > 0 /\ Len(inbox') = Len(inbox) - 1
        /\ UNCHANGED <<shm, handleVars, main, ticket, refs, fresh>>
    BY TakeEffect
  <1>2. \A k \in 1..Len(inbox') : k + 1 \in 1..Len(inbox) /\ k + 1 # 1 /\ inbox'[k] = inbox[k + 1]
    <2>1. \A k \in 1..(Len(inbox) - 1) : inbox'[k] = inbox[k + 1] BY TakeEffect
    <2> QED BY <1>1, <2>1
  <1>3. Head(inbox) = h BY <1>1 DEF TakeBatch, SInv, Types, PipeType
  <1>4. h.specs # <<>> /\ h.specs \in Seq(SpecType) /\ worker.seg = seg BY <1>1 DEF SInv, Link, MsgType
  <1>5. /\ worker' \in [at : WorkerAt, seg : 0..(1 + MaxFresh), todo : Seq(SpecType), got : Nat]
        /\ worker'.todo = h.specs /\ worker'.at = "acquire" /\ worker'.seg = seg
    BY <1>0, <1>3, <1>4 DEF TakeBatch, WorkerAt
  <1>6. shm' = shm /\ seg' = seg /\ outstanding' = outstanding /\ reconfiguring' = reconfiguring /\ replies' = replies
    BY DEF TakeBatch, handleVars
  <1>11. ShmType' /\ HandleType' BY <1>1 DEF SInv, Types, ShmType, HandleType, handleVars
  <1>12. TicketType' BY <1>1 DEF SInv, Types, TicketType, handleVars
  <1>13. PipeType' BY <1>1, <1>6 DEF SInv, Types, PipeType
  <1>14. WorkerType' /\ FreshType' BY <1>1, <1>5 DEF SInv, Types, WorkerType, FreshType, handleVars
  <1>15. Link'
    <2>1. \A k \in 1..Len(inbox) : inbox[k].type = "batch" /\ inbox[k].specs # <<>> BY <1>1 DEF SInv, Link
    <2>2. \A j \in 1..Len(replies) : IsFrame(replies[j]) BY <1>1 DEF SInv, Link
    <2> QED BY <1>1, <1>2, <1>5, <1>6, <2>1, <2>2 DEF Link
  <1>16. Shape' BY <1>4, <1>5 DEF Shape, Busy, Rendered
  <1>17. Agree'
    <2>1. \A i \in 1..Len(h.specs) : Agrees(h.specs[i]) BY <1>1 DEF SInv, Agree
    <2>2. \A k \in 1..Len(inbox') : \A i \in 1..Len(inbox'[k].specs) : Agrees(inbox'[k].specs[i])
      BY <1>2 DEF SInv, Agree
    <2>3. \A j \in 1..Len(replies) :
             /\ IsFrame(replies[j]) => replies[j].ticket \in DOMAIN outstanding
             /\ replies[j].type = "frame_ready" =>
                   Agrees(replies[j]) /\ shm[seg].data[replies[j].slot] = replies[j].ticket
      BY DEF SInv, Agree
    <2> QED BY <1>5, <1>6, <2>1, <2>2, <2>3 DEF Agree, Agrees
  <1>18. OnePlace'
    <2>0. OnePlace BY DEF SInv
    <2>1. OneInTodo' BY <1>1, <1>5, <2>0 DEF OnePlace, OneInbox, OneInTodo
    <2>2. OneInbox'
      <3> SUFFICES ASSUME NEW k \in 1..Len(inbox'), NEW l \in 1..Len(inbox'),
                          NEW i \in 1..Len(inbox'[k].specs), NEW j \in 1..Len(inbox'[l].specs),
                          inbox'[k].specs[i].ticket = inbox'[l].specs[j].ticket
                   PROVE  k = l /\ i = j
        BY DEF OneInbox
      <3>1. PICK a \in 1..Len(inbox) : a = k + 1 /\ inbox'[k] = inbox[a] BY <1>2
      <3>2. PICK b \in 1..Len(inbox) : b = l + 1 /\ inbox'[l] = inbox[b] BY <1>2
      <3>a. OneInbox BY <2>0 DEF OnePlace
      <3>b. i \in 1..Len(inbox[a].specs) /\ j \in 1..Len(inbox[b].specs) BY <3>1, <3>2
      <3>c. inbox[a].specs[i].ticket = inbox[b].specs[j].ticket BY <3>1, <3>2
      <3>3. a = b /\ i = j BY <3>a, <3>b, <3>c DEF OneInbox
      <3> QED BY <3>1, <3>2, <3>3
    <2>3. OneReply' BY <1>6, <2>0 DEF OnePlace, OneReply
    <2>4. TodoOrInbox'
      <3> SUFFICES ASSUME NEW n \in 1..Len(h.specs), NEW k \in 1..Len(inbox'), NEW i \in 1..Len(inbox'[k].specs),
                          h.specs[n].ticket = inbox'[k].specs[i].ticket
                   PROVE  FALSE
        BY <1>5 DEF TodoOrInbox
      <3>1. k + 1 \in 1..Len(inbox) /\ k + 1 # 1 /\ inbox'[k] = inbox[k + 1] /\ 1 \in 1..Len(inbox) BY <1>1, <1>2
      <3>2. PICK a \in 1..Len(inbox) : a # 1 /\ inbox'[k] = inbox[a] BY <3>1
      <3>3. OneInbox BY <2>0 DEF OnePlace
      <3>4. n \in 1..Len(inbox[1].specs) /\ i \in 1..Len(inbox[a].specs)
            /\ inbox[1].specs[n].ticket = inbox[a].specs[i].ticket BY <1>1, <3>2
      <3> QED BY <3>1, <3>2, <3>3, <3>4 DEF OneInbox
    <2>5. TodoOrReply'
      <3> SUFFICES ASSUME NEW n \in 1..Len(h.specs), NEW j \in 1..Len(replies), IsFrame(replies[j])
                   PROVE  h.specs[n].ticket # replies[j].ticket
        BY <1>5, <1>6 DEF TodoOrReply
      <3>1. 1 \in 1..Len(inbox) BY <1>1
      <3> QED BY <3>1, <2>0 DEF OnePlace, InboxOrReply
    <2>6. InboxOrReply'
      <3> SUFFICES ASSUME NEW j \in 1..Len(replies), NEW k \in 1..Len(inbox'), NEW i \in 1..Len(inbox'[k].specs),
                          IsFrame(replies[j])
                   PROVE  inbox'[k].specs[i].ticket # replies[j].ticket
        BY <1>6 DEF InboxOrReply
      <3>1. PICK a \in 1..Len(inbox) : inbox'[k] = inbox[a] BY <1>2
      <3> QED BY <3>1, <2>0 DEF OnePlace, InboxOrReply
    <2> QED BY <2>1, <2>2, <2>3, <2>4, <2>5, <2>6 DEF OnePlace
  <1>19. Apart' BY <1>1 DEF SInv, Apart, handleVars
  <1>20. InHandApart' BY <1>1 DEF SInv, InHandApart, handleVars
  <1>21. Intact' BY <1>1 DEF SInv, Intact, FramesIntact, handleVars
  <1> QED BY <1>11, <1>12, <1>13, <1>14, <1>15, <1>16, <1>17, <1>18, <1>19, <1>20, <1>21 DEF SInv, Types

\* The dispatcher reads the next answer.
LEMMA ReadEffect ==
    ASSUME SInv, Drain, NEW h, h = replies[1]
    PROVE  /\ main.at = "idle" /\ h \in ReplyType /\ Reply = h
           /\ replies' \in Seq(ReplyType) /\ Len(replies) \in Nat /\ Len(replies) > 0 /\ Len(replies') = Len(replies) - 1
           /\ \A j \in 1..Len(replies') : j + 1 \in 1..Len(replies) /\ j + 1 # 1 /\ replies'[j] = replies[j + 1]
           /\ UNCHANGED <<shm, seg, held, refs, inbox, worker, fresh>>
           /\ OnHelloCaps => h.type = "hello_caps" /\ reconfiguring
           /\ OnFrameReady => h.type = "frame_ready" /\ ~reconfiguring /\ h.ticket \in DOMAIN outstanding
           /\ OnFrameFailed => h.type = "frame_failed" /\ ~reconfiguring /\ h.ticket \in DOMAIN outstanding
  <1>1. main.at = "idle" /\ replies # <<>> /\ replies' = Tail(replies) /\ replies \in Seq(ReplyType)
    BY DEF Drain, OnHelloCaps, OnFrameReady, OnFrameFailed, Takes, SInv, Types, PipeType
  <1>2. /\ replies' \in Seq(ReplyType) /\ Len(replies) \in Nat /\ Len(replies) > 0 /\ Len(replies') = Len(replies) - 1
        /\ Head(replies) = h /\ h \in ReplyType
        /\ \A j \in 1..(Len(replies) - 1) : replies'[j] = replies[j + 1]
    BY ONLY <1>1, TailIs, h = replies[1]
  <1>3. Reply = h BY <1>2 DEF Reply
  <1>4. \A j \in 1..Len(replies') : j + 1 \in 1..Len(replies) /\ j + 1 # 1 /\ replies'[j] = replies[j + 1] BY <1>2
  <1>5. OnHelloCaps => h.type = "hello_caps" BY <1>3 DEF OnHelloCaps, Takes
  <1>6. OnFrameReady => h.type = "frame_ready" BY <1>3 DEF OnFrameReady, Takes
  <1>7. OnFrameFailed => h.type = "frame_failed" BY <1>3 DEF OnFrameFailed, Takes
  <1>8. reconfiguring => h.type = "hello_caps" BY <1>2 DEF SInv, Link
  <1>9. ~reconfiguring => IsFrame(h) BY <1>2 DEF SInv, Link
  <1>10. IsFrame(h) => h.ticket \in DOMAIN outstanding BY <1>2 DEF SInv, Agree
  <1>11. reconfiguring \in BOOLEAN BY DEF SInv, Types, HandleType
  <1>12. UNCHANGED <<shm, seg, held, refs, inbox, worker, fresh>> BY DEF Drain, OnHelloCaps, OnFrameReady, OnFrameFailed
  <1> QED BY <1>1, <1>2, <1>3, <1>4, <1>5, <1>6, <1>7, <1>8, <1>9, <1>10, <1>11, <1>12 DEF IsFrame

LEMMA OnHelloCapsKeeps ==
    ASSUME SInv, OnHelloCaps
    PROVE  SInv'
  <1> PICK h : h = replies[1] OBVIOUS
  <1>1. /\ main.at = "idle" /\ h.type = "hello_caps" /\ reconfiguring
        /\ replies' \in Seq(ReplyType) /\ Len(replies) \in Nat /\ Len(replies) > 0 /\ Len(replies') = Len(replies) - 1
        /\ UNCHANGED <<shm, seg, held, refs, inbox, worker, fresh>>
    BY ReadEffect DEF Drain
  <1>2. UNCHANGED <<free_slots, outstanding, main, ticket>> /\ reconfiguring' = FALSE BY DEF OnHelloCaps
  <1>3. /\ DOMAIN outstanding = {} /\ worker.todo = <<>> /\ Len(worker.todo) = 0
        /\ Len(inbox) = 0 /\ Len(replies) = 1 /\ worker.seg = seg
    BY <1>1 DEF SInv, Link
  <1>4. Len(replies') = 0 BY <1>1, <1>3
  <1>11. ShmType' /\ HandleType' BY <1>1, <1>2 DEF SInv, Types, ShmType, HandleType
  <1>12. TicketType' BY <1>1, <1>2 DEF SInv, Types, TicketType
  <1>13. PipeType' BY <1>1 DEF SInv, Types, PipeType
  <1>14. WorkerType' /\ FreshType' BY <1>1 DEF SInv, Types, WorkerType, FreshType
  <1>15. Link' BY <1>1, <1>2, <1>3, <1>4 DEF Link
  <1>16. Shape' BY <1>1 DEF SInv, Shape
  <1>17. Agree' BY <1>1, <1>3, <1>4 DEF Agree
  <1>18. OnePlace'
    BY <1>1, <1>3, <1>4 DEF OnePlace, OneInTodo, OneInbox, OneReply, TodoOrInbox, TodoOrReply, InboxOrReply
  <1>19. Apart' BY <1>1, <1>2 DEF SInv, Apart
  <1>20. InHandApart' BY <1>1, <1>2 DEF SInv, InHandApart
  <1>21. Intact' BY <1>1, <1>2 DEF SInv, Intact, FramesIntact
  <1> QED BY <1>11, <1>12, <1>13, <1>14, <1>15, <1>16, <1>17, <1>18, <1>19, <1>20, <1>21 DEF SInv, Types

\* An answered ticket is no longer outstanding, and nowhere on its way.
LEMMA AnsweredIsOff ==
    ASSUME SInv, OnFrameReady \/ OnFrameFailed, NEW t, t = replies[1].ticket, NEW slot, slot = outstanding[t]
    PROVE  /\ t \in DOMAIN outstanding /\ t \in Ticket /\ slot \in Slot(seg) /\ ~reconfiguring /\ main.at = "idle"
           /\ DOMAIN outstanding' = DOMAIN outstanding \ {t}
           /\ \A u \in DOMAIN outstanding' : outstanding'[u] = outstanding[u] /\ outstanding'[u] # slot
           /\ \A i \in 1..Len(free_slots) : free_slots[i] # slot
           /\ slot \notin held
           /\ UNCHANGED <<shm, seg, held, reconfiguring, refs, inbox, worker, fresh>>
           /\ OnFrameReady => replies[1].slot = slot /\ shm[seg].data[slot] = t
  <1> PICK h : h = replies[1] OBVIOUS
  <1>1. Drain /\ ~reconfiguring /\ h.ticket \in DOMAIN outstanding /\ main.at = "idle" /\ Reply = h
    BY ReadEffect DEF Drain
  <1>2. UNCHANGED <<shm, seg, held, refs, inbox, worker, fresh>> /\ Len(replies) \in Nat /\ Len(replies) > 0
    BY <1>1, ReadEffect
  <1>3. outstanding' = Without(outstanding, t) /\ reconfiguring' = reconfiguring BY <1>1 DEF OnFrameReady, OnFrameFailed
  <1>4. DOMAIN outstanding' = DOMAIN outstanding \ {t} /\ \A u \in DOMAIN outstanding' : outstanding'[u] = outstanding[u]
    BY <1>3 DEF Without
  <1>5. t \in Ticket /\ slot \in Slot(seg) BY <1>1 DEF SInv, Types, HandleType
  <1>6. slot \notin held /\ (\A i \in 1..Len(free_slots) : free_slots[i] # slot) /\ \A u \in DOMAIN outstanding : outstanding[u] = slot => u = t
    BY <1>1 DEF SInv, Apart
  <1>7. OnFrameReady => h.type = "frame_ready" BY <1>1, ReadEffect
  <1>8. OnFrameReady => replies[1].slot = slot /\ shm[seg].data[slot] = t
    BY <1>2, <1>7 DEF SInv, Agree, Agrees
  <1> QED BY <1>1, <1>2, <1>3, <1>4, <1>5, <1>6, <1>8

\* What an answer leaves on its way keeps its place and its slot.
LEMMA AnswerKeepsPlaces ==
    ASSUME SInv, OnFrameReady \/ OnFrameFailed
    PROVE  ShmType' /\ PipeType' /\ WorkerType' /\ FreshType' /\ Link' /\ Shape' /\ Agree' /\ OnePlace'
  <1> PICK h : h = replies[1] OBVIOUS
  <1> PICK t : t = h.ticket OBVIOUS
  <1> PICK slot : slot = outstanding[t] OBVIOUS
  <1>1. /\ t \in DOMAIN outstanding /\ ~reconfiguring
        /\ DOMAIN outstanding' = DOMAIN outstanding \ {t}
        /\ \A u \in DOMAIN outstanding' : outstanding'[u] = outstanding[u]
        /\ UNCHANGED <<shm, seg, held, reconfiguring, refs, inbox, worker, fresh>>
    BY AnsweredIsOff
  <1>2. Drain BY DEF Drain
  <1>3. /\ replies' \in Seq(ReplyType) /\ Len(replies) \in Nat /\ Len(replies) > 0 /\ Len(replies') = Len(replies) - 1
        /\ \A j \in 1..Len(replies') : j + 1 \in 1..Len(replies) /\ j + 1 # 1 /\ replies'[j] = replies[j + 1]
    BY <1>2, ReadEffect
  <1>4. \A j \in 1..Len(replies) : IsFrame(replies[j]) BY <1>1 DEF SInv, Link
  <1>5. \A j \in 1..Len(replies') : \E b \in 1..Len(replies) : b = j + 1 /\ b # 1 /\ replies'[j] = replies[b] /\ IsFrame(replies'[j])
    BY <1>3, <1>4
  <1>6. 1 \in 1..Len(replies) /\ IsFrame(h) BY <1>3, <1>4
  <1>11. ShmType' BY <1>1 DEF SInv, Types, ShmType
  <1>13. PipeType' BY <1>1, <1>3 DEF SInv, Types, PipeType
  <1>14. WorkerType' /\ FreshType' BY <1>1 DEF SInv, Types, WorkerType, FreshType
  <1>15. Link'
    <2>1. \A k \in 1..Len(inbox) : inbox[k].type = "batch" /\ inbox[k].specs # <<>> BY <1>1 DEF SInv, Link
    <2>2. worker.seg = seg BY <1>1 DEF SInv, Link
    <2> QED BY <1>1, <1>5, <2>1, <2>2 DEF Link
  <1>16. Shape' BY <1>1 DEF SInv, Shape
  <1>17. Agree'
    <2>0. \A u \in DOMAIN outstanding : u # t => u \in DOMAIN outstanding' /\ outstanding'[u] = outstanding[u] BY <1>1
    <2>1. \A i \in 1..Len(worker.todo) : worker.todo[i].ticket # t
      BY <1>6 DEF SInv, OnePlace, TodoOrReply
    <2>2. \A k \in 1..Len(inbox) : \A i \in 1..Len(inbox[k].specs) : inbox[k].specs[i].ticket # t
      BY <1>6 DEF SInv, OnePlace, InboxOrReply
    <2>3. \A j \in 1..Len(replies) : j # 1 => replies[j].ticket # t
      BY <1>4, <1>6 DEF SInv, OnePlace, OneReply
    <2>4. \A i \in 1..Len(worker.todo) : worker.todo[i].ticket \in DOMAIN outstanding' /\ worker.todo[i].slot = outstanding'[worker.todo[i].ticket]
      BY <2>0, <2>1 DEF SInv, Agree, Agrees
    <2>5. \A k \in 1..Len(inbox) : \A i \in 1..Len(inbox[k].specs) :
             inbox[k].specs[i].ticket \in DOMAIN outstanding' /\ inbox[k].specs[i].slot = outstanding'[inbox[k].specs[i].ticket]
      BY <2>0, <2>2 DEF SInv, Agree, Agrees
    <2>6. \A j \in 1..Len(replies') : replies'[j].ticket \in DOMAIN outstanding'
      <3> TAKE j \in 1..Len(replies')
      <3>1. PICK b \in 1..Len(replies) : b # 1 /\ replies'[j] = replies[b] BY <1>5
      <3> QED BY <1>4, <2>0, <2>3, <3>1 DEF SInv, Agree
    <2>7. \A j \in 1..Len(replies') : replies'[j].type = "frame_ready" =>
             replies'[j].slot = outstanding'[replies'[j].ticket] /\ shm[seg].data[replies'[j].slot] = replies'[j].ticket
      <3> TAKE j \in 1..Len(replies')
      <3> HAVE replies'[j].type = "frame_ready"
      <3>1. PICK b \in 1..Len(replies) : b # 1 /\ replies'[j] = replies[b] BY <1>5
      <3>2. Agrees(replies[b]) /\ shm[seg].data[replies[b].slot] = replies[b].ticket BY <3>1 DEF SInv, Agree
      <3> QED BY <2>0, <2>3, <3>1, <3>2 DEF Agrees
    <2>8. \A i \in 1..Len(worker'.todo) : Agrees(worker.todo[i])' BY <1>1, <2>4 DEF Agrees
    <2>9. \A k \in 1..Len(inbox') : \A i \in 1..Len(inbox'[k].specs) : Agrees(inbox[k].specs[i])' BY <1>1, <2>5 DEF Agrees
    <2>10. \A j \in 1..Len(replies') : replies'[j].type = "frame_ready" => Agrees(replies[j])'
      BY <2>6, <2>7 DEF Agrees
    <2>11. shm' = shm /\ seg' = seg BY <1>1
    <2> QED BY <2>6, <2>7, <2>8, <2>9, <2>10, <2>11 DEF Agree
  <1>18. OnePlace'
    <2>0. OnePlace BY DEF SInv
    <2>1. OneInTodo' /\ OneInbox' /\ TodoOrInbox' BY <1>1, <2>0 DEF OnePlace, OneInTodo, OneInbox, TodoOrInbox
    <2>2. OneReply'
      <3> SUFFICES ASSUME NEW i \in 1..Len(replies'), NEW j \in 1..Len(replies'), replies'[i].ticket = replies'[j].ticket
                   PROVE  i = j
        BY DEF OneReply
      <3>1. PICK a \in 1..Len(replies) : a = i + 1 /\ replies'[i] = replies[a] BY <1>5
      <3>2. PICK b \in 1..Len(replies) : b = j + 1 /\ replies'[j] = replies[b] BY <1>5
      <3>3. a = b BY <1>4, <2>0, <3>1, <3>2 DEF OnePlace, OneReply
      <3> QED BY <3>1, <3>2, <3>3
    <2>3. TodoOrReply'
      <3> SUFFICES ASSUME NEW n \in 1..Len(worker.todo), NEW j \in 1..Len(replies')
                   PROVE  worker.todo[n].ticket # replies'[j].ticket
        BY <1>1 DEF TodoOrReply
      <3>1. PICK b \in 1..Len(replies) : replies'[j] = replies[b] BY <1>5
      <3> QED BY <1>4, <2>0, <3>1 DEF OnePlace, TodoOrReply
    <2>4. InboxOrReply'
      <3> SUFFICES ASSUME NEW j \in 1..Len(replies'), NEW k \in 1..Len(inbox), NEW i \in 1..Len(inbox[k].specs)
                   PROVE  inbox[k].specs[i].ticket # replies'[j].ticket
        BY <1>1 DEF InboxOrReply
      <3>1. PICK b \in 1..Len(replies) : replies'[j] = replies[b] BY <1>5
      <3> QED BY <1>4, <2>0, <3>1 DEF OnePlace, InboxOrReply
    <2> QED BY <2>1, <2>2, <2>3, <2>4 DEF OnePlace
  <1> QED BY <1>11, <1>13, <1>14, <1>15, <1>16, <1>17, <1>18

\* The frame is taken in hand; its slot belongs to nobody else.
LEMMA OnFrameReadyKeeps ==
    ASSUME SInv, OnFrameReady
    PROVE  SInv'
  <1> PICK t : t = replies[1].ticket OBVIOUS
  <1> PICK slot : slot = outstanding[t] OBVIOUS
  <1>1. /\ t \in DOMAIN outstanding /\ t \in Ticket /\ slot \in Slot(seg)
        /\ DOMAIN outstanding' = DOMAIN outstanding \ {t}
        /\ \A u \in DOMAIN outstanding' : outstanding'[u] = outstanding[u] /\ outstanding'[u] # slot
        /\ \A i \in 1..Len(free_slots) : free_slots[i] # slot
        /\ slot \notin held
        /\ UNCHANGED <<shm, seg, held, reconfiguring, refs, inbox, worker, fresh>>
        /\ replies[1].slot = slot /\ shm[seg].data[slot] = t
    BY AnsweredIsOff
  <1>2. Reply = replies[1]
    <2> PICK h : h = replies[1] OBVIOUS
    <2> QED BY ReadEffect DEF Drain
  <1>3. main' = [at |-> "consume", ticket |-> t, slot |-> slot] /\ UNCHANGED <<free_slots, ticket>>
    BY <1>1, <1>2 DEF OnFrameReady
  <1>4. slot \in Nat BY <1>1 DEF SInv, Types, HandleType, Slot
  <1>5. HandleType' BY <1>1, <1>3, <1>4 DEF SInv, Types, HandleType, MainAt
  <1>6. TicketType' BY <1>1, <1>3 DEF SInv, Types, TicketType
  <1>7. Apart' BY <1>1, <1>3 DEF SInv, Apart
  <1>8. InHandApart' BY <1>1, <1>3 DEF InHandApart
  <1>9. Intact' BY <1>1 DEF SInv, Intact, FramesIntact
  <1> QED BY <1>5, <1>6, <1>7, <1>8, <1>9, AnswerKeepsPlaces DEF SInv, Types

\* A slot given back goes to the end of the list, from where nobody else had it.
LEMMA RecycleEffect ==
    ASSUME NEW slot \in Slot(seg), free_slots \in Seq(Slot(seg)), seg' = seg, seg \in Segment, Recycle(slot)
    PROVE  /\ free_slots' \in Seq(Slot(seg)) /\ Len(free_slots) \in Nat /\ Len(free_slots') = Len(free_slots) + 1
           /\ free_slots'[Len(free_slots')] = slot
           /\ \A i \in 1..Len(free_slots') : i # Len(free_slots') => i \in 1..Len(free_slots) /\ free_slots'[i] = free_slots[i]
           /\ main' \in [at : MainAt, ticket : Ticket \cup {None}, slot : Nat]
           /\ main'.at = "release" /\ main'.slot = slot
  <1>1. free_slots' = Append(free_slots, slot) BY DEF Recycle
  <1>2. /\ free_slots' \in Seq(Slot(seg)) /\ Len(free_slots) \in Nat /\ Len(free_slots') = Len(free_slots) + 1
        /\ free_slots'[Len(free_slots) + 1] = slot
        /\ \A i \in 1..Len(free_slots) : free_slots'[i] = free_slots[i]
    BY <1>1, AppendIs
  <1>3. slot \in Nat BY DEF Slot
  <1>4. main' \in [at : MainAt, ticket : Ticket \cup {None}, slot : Nat] /\ main'.at = "release" /\ main'.slot = slot
    BY <1>3 DEF Recycle, MainAt
  <1> QED BY <1>2, <1>4

LEMMA OnFrameFailedKeeps ==
    ASSUME SInv, OnFrameFailed
    PROVE  SInv'
  <1>a. PICK t : t = replies[1].ticket OBVIOUS
  <1>b. PICK slot : slot = outstanding[t] OBVIOUS
  <1>c. OnFrameReady \/ OnFrameFailed OBVIOUS
  <1>1. /\ t \in DOMAIN outstanding /\ t \in Ticket /\ slot \in Slot(seg)
        /\ DOMAIN outstanding' = DOMAIN outstanding \ {t}
        /\ \A u \in DOMAIN outstanding' : outstanding'[u] = outstanding[u] /\ outstanding'[u] # slot
        /\ \A i \in 1..Len(free_slots) : free_slots[i] # slot
        /\ slot \notin held
        /\ UNCHANGED <<shm, seg, held, reconfiguring, refs, inbox, worker, fresh>>
    <2>1. t \in DOMAIN outstanding /\ t \in Ticket /\ slot \in Slot(seg) /\ slot \notin held
      BY <1>a, <1>b, <1>c, AnsweredIsOff
    <2>2. DOMAIN outstanding' = DOMAIN outstanding \ {t}
      BY <1>a, <1>b, <1>c, AnsweredIsOff
    <2>3. \A u \in DOMAIN outstanding' : outstanding'[u] = outstanding[u] /\ outstanding'[u] # slot
      BY <1>a, <1>b, <1>c, AnsweredIsOff
    <2>4. \A i \in 1..Len(free_slots) : free_slots[i] # slot
      BY <1>b, <2>1 DEF SInv, Apart
    <2>5. UNCHANGED <<shm, seg, held, reconfiguring, refs, inbox, worker, fresh>>
      BY <1>a, <1>b, <1>c, AnsweredIsOff
    <2> QED BY <2>1, <2>2, <2>3, <2>4, <2>5
  <1>2. Reply = replies[1]
    <2> PICK h : h = replies[1] OBVIOUS
    <2> QED BY ReadEffect DEF Drain
  <1>3. Recycle(slot) /\ ticket' = [ticket EXCEPT ![t] = "answered"] BY <1>a, <1>b, <1>1, <1>2 DEF OnFrameFailed
  <1>4. free_slots \in Seq(Slot(seg)) /\ seg \in Segment /\ seg' = seg BY <1>1 DEF SInv, Types, HandleType
  <1>5. /\ free_slots' \in Seq(Slot(seg)) /\ Len(free_slots) \in Nat /\ Len(free_slots') = Len(free_slots) + 1
        /\ free_slots'[Len(free_slots')] = slot
        /\ \A i \in 1..Len(free_slots') : i # Len(free_slots') => i \in 1..Len(free_slots) /\ free_slots'[i] = free_slots[i]
        /\ main' \in [at : MainAt, ticket : Ticket \cup {None}, slot : Nat]
        /\ main'.at = "release"
    BY <1>1, <1>3, <1>4, RecycleEffect
  <1>6. HandleType' BY <1>1, <1>5 DEF SInv, Types, HandleType
  <1>7. TicketType' BY <1>1, <1>3 DEF SInv, Types, TicketType, HandleType
  <1>8. Apart' BY <1>1, <1>5 DEF SInv, Apart
  <1>9. InHandApart' BY <1>5 DEF InHandApart, InHand
  <1>10. Intact' BY <1>1 DEF SInv, Intact, FramesIntact
  <1> QED BY <1>6, <1>7, <1>8, <1>9, <1>10, AnswerKeepsPlaces DEF SInv, Types

\* A delivered frame's slot is held; a frame nobody waits for gives its slot back.
LEMMA DeliverKeeps ==
    ASSUME SInv, Deliver
    PROVE  SInv'
  <1>1. main.at = "deliver" /\ main \in [at : MainAt, ticket : Ticket \cup {None}, slot : Nat] /\ seg \in Segment
    BY DEF Deliver, SInv, Types, HandleType
  <1> PICK slot : slot = main.slot OBVIOUS
  <1> PICK t : t = main.ticket OBVIOUS
  <1>2. /\ slot \in Slot(seg) /\ t \in Ticket /\ slot \notin held /\ slot \in Nat
        /\ \A i \in 1..Len(free_slots) : free_slots[i] # slot
        /\ \A u \in DOMAIN outstanding : outstanding[u] # slot
        /\ shm[seg].data[slot] = t
    BY <1>1 DEF SInv, InHandApart, InHand, Slot
  <1>3. UNCHANGED <<shm, seg, outstanding, reconfiguring, pipeVars, worker, fresh>> BY DEF Deliver
  <1>4. ShmType' /\ PipeType' /\ WorkerType' /\ FreshType'
    BY <1>3 DEF SInv, Types, ShmType, PipeType, WorkerType, FreshType, pipeVars
  <1>5. Link' BY <1>3 DEF SInv, Link, pipeVars
  <1>6. Shape' BY <1>3 DEF SInv, Shape
  <1>7. Agree' BY <1>3 DEF SInv, Agree, Agrees, pipeVars
  <1>8. OnePlace' BY <1>3, SamePlaces DEF SInv, pipeVars
  <1>9. CASE ticket[t] = "sent"
    <2>1. /\ held' = held \cup {slot} /\ refs' = refs \cup {[seg |-> seg, slot |-> slot, ticket |-> t]}
          /\ ticket' = [ticket EXCEPT ![t] = "answered"] /\ main' = Idle /\ free_slots' = free_slots
      BY <1>9 DEF Deliver
    <2>2. HandleType' BY <1>2, <1>3, <2>1 DEF SInv, Types, HandleType, Idle, MainAt
    <2>3. TicketType' BY <1>1, <1>2, <1>3, <2>1 DEF SInv, Types, TicketType, HandleType
    <2>4. Apart' BY <1>2, <1>3, <2>1 DEF SInv, Apart
    <2>5. InHandApart' BY <2>1 DEF InHandApart, Idle, InHand
    <2>6. Intact'
      <3>0. seg \in Nat BY <1>1, ExchangeAssumption DEF Segment
      <3>1. \A f \in refs : shm[f.seg].data[f.slot] = f.ticket /\ (f.seg = seg => f.slot \in held) /\ f.seg <= seg
        BY DEF SInv, Intact, FramesIntact
      <3>2. \A f \in refs' : f \in refs \/ (f.seg = seg /\ f.slot = slot /\ f.ticket = t) BY <2>1
      <3> QED BY <1>2, <1>3, <2>1, <3>0, <3>1, <3>2 DEF Intact, FramesIntact
    <2> QED BY <1>4, <1>5, <1>6, <1>7, <1>8, <2>2, <2>3, <2>4, <2>5, <2>6 DEF SInv, Types
  <1>10. CASE ticket[t] # "sent"
    <2>1. Recycle(slot) /\ UNCHANGED <<held, refs, ticket>> BY <1>10 DEF Deliver
    <2>2. free_slots \in Seq(Slot(seg)) /\ seg' = seg BY <1>3 DEF SInv, Types, HandleType
    <2>3. /\ free_slots' \in Seq(Slot(seg)) /\ Len(free_slots) \in Nat /\ Len(free_slots') = Len(free_slots) + 1
          /\ free_slots'[Len(free_slots')] = slot
          /\ \A i \in 1..Len(free_slots') : i # Len(free_slots') => i \in 1..Len(free_slots) /\ free_slots'[i] = free_slots[i]
          /\ main' \in [at : MainAt, ticket : Ticket \cup {None}, slot : Nat]
          /\ main'.at = "release"
      BY <1>1, <1>2, <2>1, <2>2, RecycleEffect
    <2>4. HandleType' BY <1>3, <2>1, <2>3 DEF SInv, Types, HandleType
    <2>5. TicketType' BY <1>3, <2>1 DEF SInv, Types, TicketType
    <2>6. Apart'
      <3>1. Apart BY DEF SInv
      <3>2. \A i \in 1..Len(free_slots') : free_slots'[i] \notin held /\ \A u \in DOMAIN outstanding : free_slots'[i] # outstanding[u]
        BY <1>2, <2>3, <3>1 DEF Apart
      <3>3. \A i, j \in 1..Len(free_slots') : free_slots'[i] = free_slots'[j] => i = j BY <1>2, <2>3, <3>1 DEF Apart
      <3> QED BY <1>3, <2>1, <3>1, <3>2, <3>3 DEF Apart
    <2>7. InHandApart' BY <2>3 DEF InHandApart, InHand
    <2>8. Intact' BY <1>3, <2>1 DEF SInv, Intact, FramesIntact
    <2> QED BY <1>4, <1>5, <1>6, <1>7, <1>8, <2>4, <2>5, <2>6, <2>7, <2>8 DEF SInv, Types
  <1> QED BY <1>9, <1>10

\* A released frame was the only one in its slot.
LEMMA ReleaseFrameKeeps ==
    ASSUME SInv, NEW f \in refs, ReleaseFrame(f)
    PROVE  SInv'
  <1>1. seg \in Segment /\ main.at = "idle" /\ refs' = refs \ {f} BY DEF SInv, Types, HandleType, ReleaseFrame
  <1>3. UNCHANGED <<shm, seg, outstanding, reconfiguring, ticket, pipeVars, worker, fresh>> BY DEF ReleaseFrame
  <1>4. ShmType' /\ PipeType' /\ WorkerType' /\ FreshType'
    BY <1>3 DEF SInv, Types, ShmType, PipeType, WorkerType, FreshType, pipeVars
  <1>5. Link' BY <1>3 DEF SInv, Link, pipeVars
  <1>6. Shape' BY <1>3 DEF SInv, Shape
  <1>7. Agree' BY <1>3 DEF SInv, Agree, Agrees, pipeVars
  <1>8. OnePlace' BY <1>3, SamePlaces DEF SInv, pipeVars
  <1>2. TicketType' BY <1>1, <1>3 DEF SInv, Types, TicketType
  <1>9. CASE f.seg = seg /\ f.slot \in held
    <2> PICK slot : slot = f.slot OBVIOUS
    <2>1. held' = held \ {slot} /\ Recycle(slot) BY <1>9 DEF ReleaseFrame
    <2>2. free_slots \in Seq(Slot(seg)) /\ seg' = seg /\ slot \in Slot(seg) BY <1>3, <1>9 DEF SInv, Types, HandleType
    <2>3. /\ free_slots' \in Seq(Slot(seg)) /\ Len(free_slots) \in Nat /\ Len(free_slots') = Len(free_slots) + 1
          /\ free_slots'[Len(free_slots')] = slot
          /\ \A i \in 1..Len(free_slots') : i # Len(free_slots') => i \in 1..Len(free_slots) /\ free_slots'[i] = free_slots[i]
          /\ main' \in [at : MainAt, ticket : Ticket \cup {None}, slot : Nat]
          /\ main'.at = "release"
      BY <1>1, <2>1, <2>2, RecycleEffect
    <2>4. HandleType' BY <1>3, <2>1, <2>3 DEF SInv, Types, HandleType
    <2>6. Apart' BY <1>3, <1>9, <2>1, <2>3 DEF SInv, Apart
    <2>7. InHandApart' BY <2>3 DEF InHandApart, InHand
    <2>8. Intact'
      <3>1. \A g \in refs : shm[g.seg].data[g.slot] = g.ticket /\ (g.seg = seg => g.slot \in held) /\ g.seg <= seg
        BY DEF SInv, Intact, FramesIntact
      <3>2. \A g \in refs : g \in [seg : Segment, slot : Nat, ticket : Ticket] BY DEF SInv, Types, TicketType
      <3>3. \A g \in refs : g.seg = seg /\ g.slot = slot => g = f
        <4> SUFFICES ASSUME NEW g \in refs, g.seg = seg, g.slot = slot PROVE g = f OBVIOUS
        <4>1. g.ticket = f.ticket BY <1>9, <3>1
        <4> QED BY <1>9, <3>2, <4>1
      <3> QED BY <1>1, <1>3, <2>1, <3>1, <3>3 DEF Intact, FramesIntact
    <2> QED BY <1>2, <1>4, <1>5, <1>6, <1>7, <1>8, <2>4, <2>6, <2>7, <2>8 DEF SInv, Types
  <1>10. CASE ~(f.seg = seg /\ f.slot \in held)
    <2>1. UNCHANGED <<held, free_slots, main>> BY <1>10 DEF ReleaseFrame
    <2>4. HandleType' BY <1>3, <2>1 DEF SInv, Types, HandleType
    <2>6. Apart' BY <1>3, <2>1 DEF SInv, Apart
    <2>7. InHandApart' BY <1>3, <2>1 DEF SInv, InHandApart
    <2>8. Intact' BY <1>1, <1>3, <2>1 DEF SInv, Intact, FramesIntact
    <2> QED BY <1>2, <1>4, <1>5, <1>6, <1>7, <1>8, <2>4, <2>6, <2>7, <2>8 DEF SInv, Types
  <1> QED BY <1>9, <1>10

\* A fresh segment: every slot is free, and no frame is in it.
LEMMA ReseedEffect ==
    ASSUME SInv, NEW sent, Reseed(sent), seg + 1 \in Segment
    PROVE  /\ seg' = seg + 1 /\ seg \in Nat /\ held' = {} /\ reconfiguring' = TRUE /\ inbox' = sent
           /\ free_slots' \in Seq(Slot(seg')) /\ Slots[seg'] \in Nat
           /\ Len(free_slots') = Slots[seg'] /\ \A i \in 1..Slots[seg'] : free_slots'[i] = i - 1
  <1>1. seg' = seg + 1 /\ held' = {} /\ reconfiguring' = TRUE /\ inbox' = sent /\ free_slots' = AllSlots(seg + 1)
    BY DEF Reseed
  <1>2. Slots[seg + 1] \in Nat /\ seg \in Nat BY ExchangeAssumption DEF SInv, Types, HandleType, Segment
  <1>3. \A i \in 1..Slots[seg + 1] : i - 1 \in Slot(seg + 1) BY <1>2 DEF Slot
  <1>4. AllSlots(seg + 1) \in Seq(Slot(seg + 1)) BY <1>2, <1>3 DEF AllSlots
  <1>5. Len(AllSlots(seg + 1)) = Slots[seg + 1] /\ \A i \in 1..Slots[seg + 1] : AllSlots(seg + 1)[i] = i - 1
    BY <1>2 DEF AllSlots
  <1> QED BY <1>1, <1>2, <1>4, <1>5

LEMMA ReseedKeeps ==
    ASSUME SInv, NEW sent, Reseed(sent), seg + 1 \in Segment, main.at = "idle",
           UNCHANGED <<shm, main, refs>>, DOMAIN outstanding' = {},
           ticket' \in [Ticket -> {"queued", "sent", "answered"}],
           inbox' \in Seq(MsgType), Len(inbox') = 1, inbox'[1] = Handshake(seg + 1),
           replies' \in Seq(ReplyType), Len(replies') = 0,
           WorkerType', worker'.todo = <<>>, worker'.at \in {"loop", "dead"}, FreshType'
    PROVE  SInv'
  <1>1. /\ seg' = seg + 1 /\ seg \in Nat /\ held' = {} /\ reconfiguring' = TRUE
        /\ free_slots' \in Seq(Slot(seg')) /\ Slots[seg'] \in Nat
        /\ Len(free_slots') = Slots[seg'] /\ \A i \in 1..Slots[seg'] : free_slots'[i] = i - 1
    BY ReseedEffect
  <1>2. Len(worker'.todo) = 0 BY EmptySeq
  <1>3. inbox'[1].type = "handshake" /\ inbox'[1].seg = seg' /\ inbox'[1].specs = <<>> /\ Len(inbox'[1].specs) = 0
    BY <1>1 DEF Handshake
  <1>11. ShmType' BY DEF SInv, Types, ShmType
  <1>12. HandleType' BY <1>1 DEF SInv, Types, HandleType
  <1>13. TicketType' BY DEF SInv, Types, TicketType
  <1>14. PipeType' BY DEF PipeType
  <1>15. Link' BY <1>1, <1>3 DEF Link
  <1>16. Shape' BY DEF Shape, Busy, Rendered
  <1>17. Agree' BY <1>2, <1>3 DEF Agree
  <1>18. OnePlace'
    BY <1>2, <1>3 DEF OnePlace, OneInTodo, OneInbox, OneReply, TodoOrInbox, TodoOrReply, InboxOrReply
  <1>19. Apart'
    <2>1. \A i, j \in 1..Len(free_slots') : free_slots'[i] = free_slots'[j] => i = j BY <1>1
    <2> QED BY <1>1, <2>1 DEF Apart
  <1>20. InHandApart' BY DEF InHandApart, InHand
  <1>21. Intact'
    <2>1. \A f \in refs : f.seg \in Nat /\ f.seg <= seg /\ shm[f.seg].data[f.slot] = f.ticket
      BY ExchangeAssumption DEF SInv, Intact, FramesIntact, Types, TicketType, Segment
    <2> QED BY <1>1, <2>1 DEF Intact, FramesIntact
  <1> QED BY <1>11, <1>12, <1>13, <1>14, <1>15, <1>16, <1>17, <1>18, <1>19, <1>20, <1>21 DEF SInv, Types

\* With nothing outstanding nothing is on its way.
LEMMA NothingOut ==
    ASSUME SInv, ~reconfiguring, DOMAIN outstanding = {}
    PROVE  Len(inbox) = 0 /\ Len(replies) = 0 /\ worker.todo = <<>> /\ worker.at \in {"loop", "dead"}
  <1>1. inbox \in Seq(MsgType) /\ replies \in Seq(ReplyType) /\ worker.todo \in Seq(SpecType) /\ worker.at \in WorkerAt
    BY DEF SInv, Types, PipeType, WorkerType
  <1>2. Len(inbox) = 0
    <2> SUFFICES ASSUME Len(inbox) # 0 PROVE FALSE OBVIOUS
    <2>1. 1 \in 1..Len(inbox) BY <1>1
    <2>2. inbox[1].specs # <<>> /\ inbox[1] \in MsgType BY <1>1, <2>1, ElementOfSeq DEF SInv, Link
    <2>3. inbox[1].specs \in Seq(SpecType) BY <2>2 DEF MsgType
    <2>4. 1 \in 1..Len(inbox[1].specs) BY <2>2, <2>3, EmptySeq
    <2> QED BY <2>1, <2>4 DEF SInv, Agree, Agrees
  <1>3. Len(replies) = 0
    <2> SUFFICES ASSUME Len(replies) # 0 PROVE FALSE OBVIOUS
    <2>1. 1 \in 1..Len(replies) BY <1>1
    <2> QED BY <2>1 DEF SInv, Link, Agree
  <1>4. worker.todo = <<>>
    <2> SUFFICES ASSUME worker.todo # <<>> PROVE FALSE OBVIOUS
    <2> QED BY InHandIsOut DEF Agrees
  <1>5. worker.at \in {"loop", "dead"} BY <1>1, <1>4 DEF SInv, Shape, Busy, WorkerAt
  <1> QED BY <1>2, <1>3, <1>4, <1>5

LEMMA HandshakeType ==
    ASSUME NEW s \in Segment
    PROVE  Handshake(s) \in MsgType
  BY ExchangeAssumption DEF Handshake, MsgType, Segment

LEMMA RebuildKeeps ==
    ASSUME SInv, RebuildSegment
    PROVE  SInv' /\ seg + 1 \in Segment
  <1>1. /\ main.at = "idle" /\ ~reconfiguring /\ fresh < MaxFresh /\ DOMAIN outstanding = {} /\ fresh' = fresh + 1
        /\ Reseed(Append(inbox, Handshake(seg + 1)))
        /\ UNCHANGED <<shm, outstanding, main, ticket, refs, replies, worker>>
    BY DEF RebuildSegment
  <1>2. Len(inbox) = 0 /\ Len(replies) = 0 /\ worker.todo = <<>> /\ worker.at \in {"loop", "dead"} BY <1>1, NothingOut
  <1>3. MaxFresh \in Nat /\ fresh \in 0..MaxFresh /\ seg \in Nat /\ seg \in Segment
        /\ seg + (IF worker.at = "dead" THEN 1 ELSE 0) = 1 + fresh
    BY ExchangeAssumption DEF SInv, Types, FreshType, HandleType, Segment
  <1>4. seg + 1 \in Segment BY <1>1, <1>3 DEF Segment
  <1>5. inbox' = Append(inbox, Handshake(seg + 1)) /\ seg' = seg + 1 BY <1>1 DEF Reseed
  <1>6. inbox \in Seq(MsgType) /\ replies \in Seq(ReplyType) /\ Handshake(seg + 1) \in MsgType
    BY <1>4, HandshakeType DEF SInv, Types, PipeType
  <1>7. inbox' \in Seq(MsgType) /\ Len(inbox') = Len(inbox) + 1 /\ inbox'[Len(inbox) + 1] = Handshake(seg + 1)
    BY ONLY <1>5, <1>6, AppendIs
  <1>8. Len(inbox') = 1 /\ inbox'[1] = Handshake(seg + 1) BY <1>2, <1>7
  <1>9. FreshType' BY <1>1, <1>3, <1>5 DEF FreshType
  <1>10. WorkerType' /\ ticket' \in [Ticket -> {"queued", "sent", "answered"}]
    BY <1>1 DEF SInv, Types, WorkerType, TicketType
  <1> QED BY <1>1, <1>2, <1>4, <1>6, <1>7, <1>8, <1>9, <1>10, ReseedKeeps

LEMMA RestartKeeps ==
    ASSUME SInv, RestartWorker
    PROVE  SInv' /\ seg + 1 \in Segment
  <1>1. /\ main.at = "idle" /\ worker.at = "dead" /\ Reseed(<<Handshake(seg + 1)>>) /\ replies' = <<>> /\ worker' = Loop(0)
        /\ UNCHANGED <<shm, main, refs, fresh>> /\ outstanding' = [t \in {} |-> 0]
    BY DEF RestartWorker
  <1>3. MaxFresh \in Nat /\ fresh \in 0..MaxFresh /\ seg \in Nat /\ seg \in Segment /\ seg + 1 = 1 + fresh
    BY <1>1, ExchangeAssumption DEF SInv, Types, FreshType, HandleType, Segment
  <1>4. seg + 1 \in Segment BY <1>1, <1>3 DEF Segment
  <1>5. inbox' = <<Handshake(seg + 1)>> /\ seg' = seg + 1 BY <1>1 DEF Reseed
  <1>6. Handshake(seg + 1) \in MsgType BY <1>4, HandshakeType
  <1>7. inbox' \in Seq(MsgType) /\ Len(inbox') = 1 /\ inbox'[1] = Handshake(seg + 1) BY <1>5, <1>6
  <1>8. replies' \in Seq(ReplyType) /\ Len(replies') = 0 /\ DOMAIN outstanding' = {} BY <1>1
  <1>9. worker'.todo = <<>> /\ worker'.at = "loop" /\ WorkerType' BY <1>1, <1>3 DEF Loop, WorkerType, WorkerAt
  <1>10. FreshType' BY <1>1, <1>3, <1>5, <1>9 DEF FreshType
  <1>11. ticket' \in [Ticket -> {"queued", "sent", "answered"}] BY DEF RestartWorker, SInv, Types, TicketType
  <1> QED BY <1>1, <1>4, <1>7, <1>8, <1>9, <1>10, <1>11, ReseedKeeps

--------------------------------------------------------------------------------
(* A dispatch *)

\* A claim of one kind has no ticket twice.
LEMMA ClaimIs ==
    ASSUME free_slots \in Seq(Slot(seg)), NEW kind, NEW part \in Claims(kind)
    PROVE  part \in Seq(kind) /\ \A i, j \in 1..Len(part) : part[i] = part[j] => i = j
  <1>1. Len(free_slots) \in Nat OBVIOUS
  <1>2. part \in SeqOf(kind, Len(free_slots)) /\ IsInjective(part) BY DEF Claims
  <1>3. PICK n \in 0..Len(free_slots) : part \in [1..n -> kind] BY <1>2 DEF SeqOf
  <1>4. n \in Nat BY <1>1, <1>3
  <1>5. part \in Seq(kind) /\ Len(part) = n /\ DOMAIN part = 1..n BY <1>3, <1>4
  <1> QED BY <1>2, <1>5 DEF IsInjective

\* The order of a batch: video, then sound, no ticket twice
IsOrder(order, video, audio) ==
    /\ video \in Seq(Ticket) /\ audio \in Seq(Ticket) /\ order \in Seq(Ticket)
    /\ Len(video) \in Nat /\ Len(audio) \in Nat /\ Len(order) = Len(video) + Len(audio)
    /\ \A i \in 1..Len(video) : order[i] = video[i]
    /\ \A i \in 1..Len(audio) : order[Len(video) + i] = audio[i]
    /\ \A i, j \in 1..Len(order) : order[i] = order[j] => i = j

\* The dispatcher goes through a batch in that order.
LEMMA OrderIs ==
    ASSUME free_slots \in Seq(Slot(seg)), NEW video \in Claims(Ticket \ Audio), NEW audio \in Claims(Audio),
           NEW order, order = Ordered(video, audio)
    PROVE  IsOrder(order, video, audio)
  <1>1. video \in Seq(Ticket \ Audio) /\ \A i, j \in 1..Len(video) : video[i] = video[j] => i = j BY ClaimIs
  <1>2. audio \in Seq(Audio) /\ \A i, j \in 1..Len(audio) : audio[i] = audio[j] => i = j BY ClaimIs
  <1>3. video \in Seq(Ticket) /\ audio \in Seq(Ticket)
    <2>1. \A i \in 1..Len(video) : video[i] \in Ticket BY <1>1, ElementOfSeq
    <2>2. \A i \in 1..Len(audio) : audio[i] \in Ticket BY <1>2, ElementOfSeq, ExchangeAssumption
    <2> QED BY <1>1, <1>2, <2>1, <2>2
  <1>4. Len(video) \in Nat /\ Len(audio) \in Nat BY <1>3
  <1>5. order = video \o audio BY DEF Ordered
  <1>6. /\ order \in Seq(Ticket) /\ Len(order) = Len(video) + Len(audio)
        /\ \A i \in 1..Len(order) : order[i] = IF i <= Len(video) THEN video[i] ELSE audio[i - Len(video)]
    BY ONLY <1>3, <1>5, ConcatProperties
  <1>7. \A i \in 1..Len(video) : order[i] = video[i] BY <1>4, <1>6
  <1>8. \A i \in 1..Len(audio) : order[Len(video) + i] = audio[i]
    <2> TAKE i \in 1..Len(audio)
    <2> PICK m : m = Len(video) + i OBVIOUS
    <2>1. m \in 1..Len(order) /\ ~(m <= Len(video)) /\ m - Len(video) = i BY <1>4, <1>6
    <2> QED BY <1>6, <2>1
  <1>9. \A i, j \in 1..Len(order) : order[i] = order[j] => i = j
    <2> SUFFICES ASSUME NEW i \in 1..Len(order), NEW j \in 1..Len(order), order[i] = order[j] PROVE i = j OBVIOUS
    <2>1. \A k \in 1..Len(order) : (k <= Len(video) => order[k] = video[k] /\ order[k] \notin Audio)
                                   /\ (~(k <= Len(video)) => k - Len(video) \in 1..Len(audio)
                                         /\ order[k] = audio[k - Len(video)] /\ order[k] \in Audio)
      <3> TAKE k \in 1..Len(order)
      <3>1. CASE k <= Len(video)
        <4>1. video[k] \in Ticket \ Audio BY <1>1, <1>4, <3>1, ElementOfSeq
        <4> QED BY <1>6, <3>1, <4>1
      <3>2. CASE ~(k <= Len(video))
        <4> PICK m : m = k - Len(video) OBVIOUS
        <4>1. m \in 1..Len(audio) BY <1>4, <1>6, <3>2
        <4>2. audio[m] \in Audio BY <1>2, <4>1, ElementOfSeq
        <4> QED BY <1>6, <3>2, <4>1, <4>2
      <3> QED BY <3>1, <3>2
    <2>2. CASE i <= Len(video) BY <1>1, <1>4, <2>1, <2>2
    <2>3. CASE ~(i <= Len(video))
      <3>1. ~(j <= Len(video)) BY <2>1, <2>3
      <3>2. PICK a \in 1..Len(audio) : a = i - Len(video) /\ order[i] = audio[a] BY <2>1, <2>3
      <3>3. PICK b \in 1..Len(audio) : b = j - Len(video) /\ order[j] = audio[b] BY <2>1, <3>1
      <3>4. a = b BY <1>2, <3>2, <3>3
      <3> QED BY <1>4, <3>2, <3>3, <3>4
    <2> QED BY <2>2, <2>3
  <1> QED BY <1>3, <1>4, <1>6, <1>7, <1>8, <1>9 DEF IsOrder

\* The n-th ticket gets the n-th free slot.
InTurn(order) == \A i \in 1..Len(order) : SlotOf(order, order[i]) = free_slots[i]

LEMMA SlotOfIs ==
    ASSUME NEW order \in Seq(Ticket), \A i, j \in 1..Len(order) : order[i] = order[j] => i = j
    PROVE  InTurn(order)
  <1> SUFFICES ASSUME NEW i \in 1..Len(order) PROVE SlotOf(order, order[i]) = free_slots[i] BY DEF InTurn
  <1>1. DOMAIN order = 1..Len(order) OBVIOUS
  <1> DEFINE c == CHOOSE k \in DOMAIN order : order[k] = order[i]
  <1>2. c \in DOMAIN order /\ order[c] = order[i]
    <2>1. \E k \in DOMAIN order : order[k] = order[i] BY <1>1
    <2> QED BY <2>1
  <1>3. c = i BY <1>1, <1>2
  <1> QED BY <1>3 DEF SlotOf

\* A message lists its tickets with the slots at their places in the order.
PartOf(order, part, off) ==
    /\ order \in Seq(Ticket) /\ part \in Seq(Ticket) /\ off \in Nat
    /\ \A i \in 1..Len(part) : off + i \in 1..Len(order) /\ order[off + i] = part[i]
Lists(m, order, part, off) ==
    /\ m \in MsgType /\ m.type = "batch" /\ Len(m.specs) = Len(part)
    /\ \A i \in 1..Len(part) : m.specs[i].ticket = order[off + i] /\ m.specs[i].slot = free_slots[off + i]

LEMMA MessageIs ==
    ASSUME free_slots \in Seq(Slot(seg)), NEW order, NEW part, NEW off, PartOf(order, part, off),
           Len(order) <= Len(free_slots), InTurn(order)
    PROVE  Lists(Batch(Specs(part, order)), order, part, off)
  <1> USE DEF PartOf
  <1> PICK m : m = Batch(Specs(part, order)) OBVIOUS
  <1>1. DOMAIN part = 1..Len(part) /\ Len(part) \in Nat OBVIOUS
  <1> DEFINE specs == Specs(part, order)
  <1>2. specs = [i \in 1..Len(part) |-> Spec1(part[i], SlotOf(order, part[i]))] BY <1>1 DEF Specs
  <1>3. \A i \in 1..Len(part) : Spec1(part[i], SlotOf(order, part[i])) \in SpecType
    <2> TAKE i \in 1..Len(part)
    <2> PICK n : n = off + i OBVIOUS
    <2>1. n \in 1..Len(order) /\ order[n] = part[i] /\ n \in 1..Len(free_slots) OBVIOUS
    <2>2. SlotOf(order, part[i]) = free_slots[n] BY <2>1 DEF InTurn
    <2>3. free_slots[n] \in Slot(seg) BY <2>1, ElementOfSeq
    <2>4. free_slots[n] \in Nat BY <2>3 DEF Slot
    <2>5. part[i] \in Ticket BY ElementOfSeq
    <2> QED BY <2>2, <2>4, <2>5 DEF Spec1, SpecType
  <1>4. specs \in Seq(SpecType) /\ Len(specs) = Len(part) /\ \A i \in 1..Len(part) : specs[i] = Spec1(part[i], SlotOf(order, part[i]))
    BY <1>1, <1>2, <1>3
  <1>5. m = [type |-> "batch", seg |-> 0, specs |-> specs] BY DEF Batch
  <1>6. \A i \in 1..Len(part) : specs[i].ticket = order[off + i] /\ specs[i].slot = free_slots[off + i]
    <2> TAKE i \in 1..Len(part)
    <2> PICK n : n = off + i OBVIOUS
    <2>1. n \in 1..Len(order) /\ order[n] = part[i] OBVIOUS
    <2>2. SlotOf(order, part[i]) = free_slots[n] BY <2>1 DEF InTurn
    <2>3. specs[i] = Spec1(part[i], free_slots[n]) BY <1>4, <2>2
    <2> HIDE DEF specs
    <2> QED BY <2>1, <2>3 DEF Spec1
  <1> HIDE DEF specs
  <1> QED BY <1>4, <1>5, <1>6 DEF MsgType, Lists

\* The messages of a dispatch, after those already on their way: off[k] is where the
\* tickets of the k-th start in the order.
Sends(order, m, off) ==
    /\ m \in {1, 2} /\ off \in [1..m -> 0..Len(order)] /\ off[1] = 0
    /\ inbox' \in Seq(MsgType) /\ Len(inbox') = Len(inbox) + m
    /\ \A k \in 1..Len(inbox) : inbox'[k] = inbox[k]
    /\ \A k \in 1..m :
          /\ inbox'[Len(inbox) + k].type = "batch" /\ Len(inbox'[Len(inbox) + k].specs) > 0
          /\ off[k] + Len(inbox'[Len(inbox) + k].specs) = (IF k = m THEN Len(order) ELSE off[k + 1])
          /\ \A i \in 1..Len(inbox'[Len(inbox) + k].specs) :
                /\ inbox'[Len(inbox) + k].specs[i].ticket = order[off[k] + i]
                /\ inbox'[Len(inbox) + k].specs[i].slot = free_slots[off[k] + i]

LEMMA DispatchSends ==
    ASSUME SInv, NEW video \in Claims(Ticket \ Audio), NEW audio \in Claims(Audio), Dispatch(video, audio),
           NEW order, order = Ordered(video, audio)
    PROVE  \E m, off : Sends(order, m, off)
  <1>0. free_slots \in Seq(Slot(seg)) /\ inbox \in Seq(MsgType) /\ Len(inbox) \in Nat BY DEF SInv, Types, HandleType, PipeType
  <1>a. video \in Claims(Ticket \ Audio) /\ audio \in Claims(Audio) /\ order = Ordered(video, audio) OBVIOUS
  <1>1. /\ order # <<>> /\ Len(order) <= Len(free_slots)
        /\ inbox' = inbox \o (Message(video, order) \o Message(audio, order))
    BY DEF Dispatch
  <1>2. IsOrder(order, video, audio) BY <1>0, <1>a, OrderIs
  <1>3. InTurn(order)
    <2>1. order \in Seq(Ticket) /\ \A i, j \in 1..Len(order) : order[i] = order[j] => i = j BY <1>2 DEF IsOrder
    <2> QED BY ONLY <2>1, SlotOfIs
  <1>4. Len(order) > 0 /\ Len(video) \in Nat /\ Len(audio) \in Nat /\ Len(order) = Len(video) + Len(audio)
        /\ video \in Seq(Ticket) /\ audio \in Seq(Ticket)
    BY <1>1, <1>2, EmptySeq DEF IsOrder
  <1>v. PICK v : v = Batch(Specs(video, order)) OBVIOUS
  <1>s. PICK a : a = Batch(Specs(audio, order)) OBVIOUS
  <1>5. Lists(v, order, video, 0)
    <2>1. PartOf(order, video, 0) BY <1>2 DEF IsOrder, PartOf
    <2> QED BY <1>0, <1>1, <1>3, <1>v, <2>1, MessageIs
  <1>6. Lists(a, order, audio, Len(video))
    <2>1. PartOf(order, audio, Len(video)) BY <1>2 DEF IsOrder, PartOf
    <2> QED BY <1>0, <1>1, <1>3, <1>s, <2>1, MessageIs
  <1>7. Message(video, order) = (IF video = <<>> THEN <<>> ELSE <<v>>) BY <1>v DEF Message
  <1>8. Message(audio, order) = (IF audio = <<>> THEN <<>> ELSE <<a>>) BY <1>s DEF Message
  <1>9. CASE audio = <<>>
    <2>1. video # <<>> /\ Len(audio) = 0 /\ Len(video) > 0 BY <1>4, <1>9, EmptySeq
    <2>2. inbox' = Append(inbox, v)
      <3>1. inbox' = inbox \o (<<v>> \o <<>>) BY <1>1, <1>7, <1>8, <1>9, <2>1
      <3> QED BY <1>0, <1>5, <3>1 DEF Lists
    <2>3. /\ inbox' \in Seq(MsgType) /\ Len(inbox') = Len(inbox) + 1 /\ inbox'[Len(inbox) + 1] = v
          /\ \A k \in 1..Len(inbox) : inbox'[k] = inbox[k]
      <3>1. v \in MsgType BY <1>5 DEF Lists
      <3> QED BY ONLY <1>0, <2>2, <3>1, AppendIs
    <2> DEFINE off == [k \in 1..1 |-> 0]
    <2>4. off \in [1..1 -> 0..Len(order)] /\ off[1] = 0 BY <1>4
    <2> HIDE DEF off
    <2>5. Sends(order, 1, off) BY <1>4, <1>5, <2>1, <2>3, <2>4 DEF Sends, Lists
    <2> QED BY <2>5
  <1>10. CASE audio # <<>> /\ video = <<>>
    <2>1. Len(video) = 0 /\ Len(audio) > 0 BY <1>4, <1>10, EmptySeq
    <2>2. inbox' = Append(inbox, a)
      <3>1. inbox' = inbox \o (<<>> \o <<a>>) BY <1>1, <1>7, <1>8, <1>10
      <3> QED BY <1>0, <1>6, <3>1 DEF Lists
    <2>3. /\ inbox' \in Seq(MsgType) /\ Len(inbox') = Len(inbox) + 1 /\ inbox'[Len(inbox) + 1] = a
          /\ \A k \in 1..Len(inbox) : inbox'[k] = inbox[k]
      <3>1. a \in MsgType BY <1>6 DEF Lists
      <3> QED BY ONLY <1>0, <2>2, <3>1, AppendIs
    <2> DEFINE off == [k \in 1..1 |-> 0]
    <2>4. off \in [1..1 -> 0..Len(order)] /\ off[1] = 0 BY <1>4
    <2> HIDE DEF off
    <2>5. Sends(order, 1, off) BY <1>4, <1>6, <2>1, <2>3, <2>4 DEF Sends, Lists
    <2> QED BY <2>5
  <1>11. CASE audio # <<>> /\ video # <<>>
    <2>1. Len(video) > 0 /\ Len(audio) > 0 BY <1>4, <1>11, EmptySeq
    <2>2. inbox' = Append(Append(inbox, v), a)
      <3>1. inbox' = inbox \o (<<v>> \o <<a>>) BY <1>1, <1>7, <1>8, <1>11
      <3> QED BY <1>0, <1>5, <1>6, <3>1 DEF Lists
    <2> DEFINE one == Append(inbox, v)
    <2>3. /\ one \in Seq(MsgType) /\ Len(one) = Len(inbox) + 1 /\ one[Len(inbox) + 1] = v
          /\ \A k \in 1..Len(inbox) : one[k] = inbox[k]
      <3>1. v \in MsgType BY <1>5 DEF Lists
      <3> QED BY ONLY <1>0, <3>1, AppendIs
    <2> HIDE DEF one
    <2>4. /\ inbox' \in Seq(MsgType) /\ Len(inbox') = Len(one) + 1 /\ inbox'[Len(one) + 1] = a
          /\ \A k \in 1..Len(one) : inbox'[k] = one[k]
      <3>1. inbox' = Append(one, a) BY <2>2 DEF one
      <3>2. a \in MsgType BY <1>6 DEF Lists
      <3> QED BY ONLY <2>3, <3>1, <3>2, AppendIs
    <2>5. /\ Len(inbox') = Len(inbox) + 2 /\ inbox'[Len(inbox) + 1] = v /\ inbox'[Len(inbox) + 2] = a
          /\ \A k \in 1..Len(inbox) : inbox'[k] = inbox[k]
      <3>1. PICK x \in Nat : x = Len(inbox) BY <1>0
      <3>2. Len(one) = x + 1 /\ (x + 1) + 1 = x + 2 BY <2>3, <3>1
      <3>3. Len(inbox') = x + 2 /\ inbox'[x + 2] = a BY <2>4, <3>2
      <3>4. \A k \in 1..x : k \in 1..Len(one) /\ one[k] = inbox[k] BY <2>3, <3>1, <3>2
      <3>5. x + 1 \in 1..Len(one) BY <3>1, <3>2
      <3>6. inbox'[x + 1] = v BY <2>3, <2>4, <3>1, <3>5
      <3> QED BY <2>4, <3>1, <3>3, <3>4, <3>6
    <2> DEFINE off == [k \in 1..2 |-> IF k = 1 THEN 0 ELSE Len(video)]
    <2>6. off \in [1..2 -> 0..Len(order)] /\ off[1] = 0 /\ off[2] = Len(video) BY <1>4
    <2> HIDE DEF off
    <2>7. \A k \in 1..2 : k = 1 \/ k = 2 OBVIOUS
    <2>8. Sends(order, 2, off)
      <3>1. \A k \in 1..2 :
              /\ inbox'[Len(inbox) + k].type = "batch" /\ Len(inbox'[Len(inbox) + k].specs) > 0
              /\ off[k] + Len(inbox'[Len(inbox) + k].specs) = (IF k = 2 THEN Len(order) ELSE off[k + 1])
              /\ \A i \in 1..Len(inbox'[Len(inbox) + k].specs) :
                    /\ inbox'[Len(inbox) + k].specs[i].ticket = order[off[k] + i]
                    /\ inbox'[Len(inbox) + k].specs[i].slot = free_slots[off[k] + i]
        <4> TAKE k \in 1..2
        <4>1. CASE k = 1 BY <1>4, <1>5, <2>1, <2>5, <2>6, <4>1 DEF Lists
        <4>2. CASE k = 2 BY <1>4, <1>6, <2>1, <2>5, <2>6, <4>2 DEF Lists
        <4> QED BY <2>7, <4>1, <4>2
      <3> QED BY <2>4, <2>5, <2>6, <3>1 DEF Sends
    <2> QED BY <2>8
  <1> QED BY <1>9, <1>10, <1>11

\* The tickets of the batch are outstanding with the slots given out in order; the rest of
\* the list stays.
DispatchGives(order) ==
    /\ order \in Seq(Ticket) /\ Len(order) \in Nat /\ Len(order) > 0 /\ Len(order) <= Len(free_slots) /\ Len(free_slots) \in Nat
    /\ \A i, j \in 1..Len(order) : order[i] = order[j] => i = j
    /\ \A i \in 1..Len(order) :
          /\ order[i] \in Ticket /\ order[i] \notin DOMAIN outstanding /\ order[i] \in DOMAIN outstanding'
          /\ outstanding'[order[i]] = free_slots[i] /\ free_slots[i] \in Slot(seg)
    /\ \A t \in DOMAIN outstanding : t \in DOMAIN outstanding' /\ outstanding'[t] = outstanding[t]
    /\ \A t \in DOMAIN outstanding' : t \in DOMAIN outstanding \/ \E i \in 1..Len(order) : t = order[i]
    /\ free_slots' \in Seq(Slot(seg)) /\ Len(free_slots') = Len(free_slots) - Len(order)
    /\ \A i \in 1..Len(free_slots') : free_slots'[i] = free_slots[Len(order) + i]
    /\ ticket' \in [Ticket -> {"queued", "sent", "answered"}]
    /\ \A t \in DOMAIN outstanding' : ticket'[t] # "queued"
    /\ ~reconfiguring /\ main.at = "idle"
    /\ UNCHANGED <<shm, seg, held, reconfiguring, main, refs, replies, worker, fresh>>

LEMMA DispatchEffect ==
    ASSUME SInv, NEW video \in Claims(Ticket \ Audio), NEW audio \in Claims(Audio), Dispatch(video, audio),
           NEW order, order = Ordered(video, audio)
    PROVE  DispatchGives(order)
  <1>0. free_slots \in Seq(Slot(seg)) /\ Len(free_slots) \in Nat BY DEF SInv, Types, HandleType
  <1>1. /\ main.at = "idle" /\ ~reconfiguring /\ order # <<>> /\ Len(order) <= Len(free_slots)
        /\ \A t \in ToSet(order) : ticket[t] = "queued"
        /\ outstanding' = [t \in DOMAIN outstanding \cup ToSet(order) |->
                             IF t \in ToSet(order) THEN SlotOf(order, t) ELSE outstanding[t]]
        /\ free_slots' = SubSeq(free_slots, Len(order) + 1, Len(free_slots))
        /\ ticket' = [t \in Ticket |-> IF t \in ToSet(order) THEN "sent" ELSE ticket[t]]
        /\ UNCHANGED <<shm, seg, held, reconfiguring, main, refs, replies, worker, fresh>>
    BY DEF Dispatch
  <1>2. IsOrder(order, video, audio) BY <1>0, OrderIs
  <1>3. order \in Seq(Ticket) /\ Len(order) \in Nat /\ \A i, j \in 1..Len(order) : order[i] = order[j] => i = j
    BY <1>2 DEF IsOrder
  <1>4. InTurn(order) BY ONLY <1>3, SlotOfIs
  <1>5. Len(order) > 0 BY <1>1, <1>3, EmptySeq
  <1>6. ToSet(order) = {order[i] : i \in 1..Len(order)} BY <1>3 DEF ToSet
  <1>7. \A i \in 1..Len(order) : order[i] \in Ticket /\ order[i] \in ToSet(order) BY <1>3, <1>6, ElementOfSeq
  <1>8. \A t \in DOMAIN outstanding : t \notin ToSet(order) BY <1>1 DEF SInv, Types, TicketType
  <1>9. DOMAIN outstanding' = DOMAIN outstanding \cup ToSet(order) BY <1>1
  <1>10. \A i \in 1..Len(order) : outstanding'[order[i]] = free_slots[i]
    <2> TAKE i \in 1..Len(order)
    <2>1. outstanding'[order[i]] = SlotOf(order, order[i]) BY <1>1, <1>7
    <2> QED BY <1>4, <2>1 DEF InTurn
  <1>11. \A t \in DOMAIN outstanding : outstanding'[t] = outstanding[t] BY <1>1, <1>8
  <1>12. \A i \in 1..Len(order) : free_slots[i] \in Slot(seg)
    <2> TAKE i \in 1..Len(order)
    <2>1. i \in 1..Len(free_slots) BY <1>0, <1>1, <1>3
    <2> QED BY <1>0, <2>1, ElementOfSeq
  <1>13. /\ free_slots' \in Seq(Slot(seg)) /\ Len(free_slots') = Len(free_slots) - Len(order)
         /\ \A i \in 1..Len(free_slots') : free_slots'[i] = free_slots[Len(order) + i]
    BY <1>0, <1>1, <1>3
  <1>14. ticket' \in [Ticket -> {"queued", "sent", "answered"}] BY <1>1 DEF SInv, Types, TicketType
  <1>15. \A t \in DOMAIN outstanding' : ticket'[t] # "queued"
    <2>1. DOMAIN outstanding \subseteq Ticket /\ \A t \in DOMAIN outstanding : ticket[t] # "queued"
      BY DEF SInv, Types, HandleType, TicketType
    <2>2. ToSet(order) \subseteq Ticket BY <1>6, <1>7
    <2> QED BY <1>1, <1>9, <2>1, <2>2
  <1> QED BY <1>0, <1>1, <1>3, <1>5, <1>6, <1>7, <1>8, <1>9, <1>10, <1>11, <1>12, <1>13, <1>14, <1>15 DEF DispatchGives

LEMMA DispatchKeeps ==
    ASSUME SInv, NEW video \in Claims(Ticket \ Audio), NEW audio \in Claims(Audio), Dispatch(video, audio)
    PROVE  SInv'
  <1>a. PICK order : order = Ordered(video, audio) OBVIOUS
  <1>0. DispatchGives(order) BY <1>a, DispatchEffect
  <1>b. PICK m, off : Sends(order, m, off) BY <1>a, DispatchSends
  <1>1. UNCHANGED <<shm, seg, held, reconfiguring, main, refs, replies, worker, fresh>> /\ ~reconfiguring /\ main.at = "idle"
    BY <1>0 DEF DispatchGives
  <1>2. \A t \in DOMAIN outstanding : t \in DOMAIN outstanding' /\ outstanding'[t] = outstanding[t] BY <1>0 DEF DispatchGives
  <1>3. \A i \in 1..Len(order) : /\ order[i] \in Ticket /\ order[i] \notin DOMAIN outstanding /\ order[i] \in DOMAIN outstanding'
                                 /\ outstanding'[order[i]] = free_slots[i] /\ free_slots[i] \in Slot(seg)
    BY <1>0 DEF DispatchGives
  <1>4. \A t \in DOMAIN outstanding' : t \in DOMAIN outstanding \/ \E i \in 1..Len(order) : t = order[i] BY <1>0 DEF DispatchGives
  <1>5. Len(order) \in Nat /\ Len(inbox) \in Nat /\ Len(order) <= Len(free_slots) /\ Len(free_slots) \in Nat /\ m \in {1, 2}
    BY <1>0, <1>b DEF DispatchGives, Sends, SInv, Types, PipeType
  <1>6. /\ Len(free_slots') = Len(free_slots) - Len(order)
        /\ \A i \in 1..Len(free_slots') : Len(order) + i \in 1..Len(free_slots) /\ free_slots'[i] = free_slots[Len(order) + i]
    BY <1>0 DEF DispatchGives
  <1>n. \A k \in 1..Len(inbox') : k \in 1..Len(inbox) \/ \E a \in 1..m : k = Len(inbox) + a
    <2>1. Len(inbox') = Len(inbox) + m BY <1>b DEF Sends
    <2> TAKE k \in 1..Len(inbox')
    <2>2. k \in 1..Len(inbox) \/ (k - Len(inbox) \in 1..m /\ k = Len(inbox) + (k - Len(inbox))) BY <1>5, <2>1
    <2> QED BY <2>2
  <1>o. \A k \in 1..Len(inbox) : inbox'[k] = inbox[k] BY <1>b DEF Sends
  <1>7. \A k \in 1..m : \A i \in 1..Len(inbox'[Len(inbox) + k].specs) :
          /\ off[k] + i \in 1..Len(order)
          /\ inbox'[Len(inbox) + k].specs[i].ticket = order[off[k] + i]
          /\ inbox'[Len(inbox) + k].specs[i].slot = free_slots[off[k] + i]
    <2> TAKE k \in 1..m
    <2>0. k = 1 \/ k = 2 BY <1>5
    <2>1. off[k] \in 0..Len(order) BY <1>b DEF Sends
    <2>2. off[k] + Len(inbox'[Len(inbox) + k].specs) = (IF k = m THEN Len(order) ELSE off[k + 1]) BY <1>b DEF Sends
    <2>3. k # m => k + 1 \in 1..m /\ off[k + 1] \in 0..Len(order) BY <1>5, <1>b, <2>0 DEF Sends
    <2>4. Len(inbox) + k \in 1..Len(inbox') BY <1>5, <1>b, <2>0 DEF Sends
    <2>5. inbox'[Len(inbox) + k] \in MsgType BY <2>4, <1>b, ElementOfSeq DEF Sends
    <2>6. Len(inbox'[Len(inbox) + k].specs) \in Nat BY <2>5 DEF MsgType
    <2> TAKE i \in 1..Len(inbox'[Len(inbox) + k].specs)
    <2>a. PICK l \in Nat : l = Len(inbox'[Len(inbox) + k].specs) BY <2>6
    <2>7. off[k] + i \in 1..Len(order)
      <3>0. PICK x \in 0..Len(order) : x = off[k] BY <2>1
      <3>b. Len(order) \in Nat /\ i \in 1..l BY <1>5, <2>a
      <3>1. CASE k = m
        <4>1. x + l = Len(order) BY <2>2, <2>a, <3>0, <3>1
        <4>2. x + i \in 1..Len(order) BY <2>a, <3>0, <3>b, <4>1
        <4> QED BY <3>0, <4>2
      <3>2. CASE k # m
        <4>0. PICK y \in 0..Len(order) : y = off[k + 1] BY <2>3, <3>2
        <4>1. x + l = y BY <2>2, <2>a, <3>0, <3>2, <4>0
        <4>3. x \in Nat /\ y \in Nat /\ l \in Nat /\ y <= Len(order) BY <2>a, <3>0, <3>b, <4>0
        <4>2. x + i \in 1..Len(order) BY ONLY <3>b, <4>1, <4>3
        <4> QED BY <3>0, <4>2
      <3> QED BY <3>1, <3>2
    <2> QED BY <1>b, <2>7 DEF Sends
  <1>11. ShmType' BY <1>1 DEF SInv, Types, ShmType
  <1>12. HandleType'
    <2>1. free_slots' \in Seq(Slot(seg)) BY <1>0 DEF DispatchGives
    <2>2. DOMAIN outstanding \subseteq Ticket /\ \A t \in DOMAIN outstanding : outstanding[t] \in Slot(seg)
      BY DEF SInv, Types, HandleType
    <2>3. DOMAIN outstanding' \subseteq Ticket /\ \A t \in DOMAIN outstanding' : outstanding'[t] \in Slot(seg)
      BY <1>2, <1>3, <1>4, <2>2
    <2> QED BY <1>1, <2>1, <2>3 DEF SInv, Types, HandleType
  <1>13. TicketType'
    <2>1. ticket' \in [Ticket -> {"queued", "sent", "answered"}] /\ \A t \in DOMAIN outstanding' : ticket'[t] # "queued"
      BY <1>0 DEF DispatchGives
    <2> QED BY <1>1, <2>1 DEF SInv, Types, TicketType
  <1>14. PipeType' BY <1>1, <1>b DEF SInv, Types, PipeType, Sends
  <1>15. WorkerType' /\ FreshType' BY <1>1 DEF SInv, Types, WorkerType, FreshType
  <1>16. Link'
    <2>1. worker.seg = seg /\ \A j \in 1..Len(replies) : IsFrame(replies[j]) BY <1>1 DEF SInv, Link
    <2>2. \A k \in 1..Len(inbox) : inbox[k].type = "batch" /\ inbox[k].specs # <<>> BY <1>1 DEF SInv, Link
    <2>3. \A k \in 1..Len(inbox') : inbox'[k].type = "batch" /\ inbox'[k].specs # <<>>
      <3> TAKE k \in 1..Len(inbox')
      <3>1. CASE k \in 1..Len(inbox) BY <1>o, <2>2, <3>1
      <3>2. CASE \E a \in 1..m : k = Len(inbox) + a
        <4>1. inbox'[k].type = "batch" /\ Len(inbox'[k].specs) > 0 BY <1>b, <3>2 DEF Sends
        <4> QED BY <4>1, EmptySeq
      <3> QED BY <1>n, <3>1, <3>2
    <2> QED BY <1>1, <2>1, <2>3 DEF Link
  <1>17. Shape' BY <1>1 DEF SInv, Shape
  <1>18. Agree'
    <2>1. \A i \in 1..Len(worker.todo) : worker.todo[i].ticket \in DOMAIN outstanding' /\ worker.todo[i].slot = outstanding'[worker.todo[i].ticket]
      BY <1>2 DEF SInv, Agree, Agrees
    <2>2. \A k \in 1..Len(inbox') : \A i \in 1..Len(inbox'[k].specs) :
             inbox'[k].specs[i].ticket \in DOMAIN outstanding' /\ inbox'[k].specs[i].slot = outstanding'[inbox'[k].specs[i].ticket]
      <3> TAKE k \in 1..Len(inbox')
      <3> TAKE i \in 1..Len(inbox'[k].specs)
      <3>1. CASE k \in 1..Len(inbox) BY <1>2, <1>o, <3>1 DEF SInv, Agree, Agrees
      <3>2. CASE \E a \in 1..m : k = Len(inbox) + a
        <4>1. PICK a \in 1..m : k = Len(inbox) + a BY <3>2
        <4>2. PICK n \in 1..Len(order) : inbox'[k].specs[i].ticket = order[n] /\ inbox'[k].specs[i].slot = free_slots[n]
          BY <1>7, <4>1
        <4> QED BY <1>3, <4>2
      <3> QED BY <1>n, <3>1, <3>2
    <2>3. \A j \in 1..Len(replies) :
             /\ IsFrame(replies[j]) => replies[j].ticket \in DOMAIN outstanding'
             /\ replies[j].type = "frame_ready" =>
                   replies[j].ticket \in DOMAIN outstanding' /\ replies[j].slot = outstanding'[replies[j].ticket]
                   /\ shm[seg].data[replies[j].slot] = replies[j].ticket
      BY <1>2 DEF SInv, Agree, Agrees
    <2> QED BY <1>1, <2>1, <2>2, <2>3 DEF Agree, Agrees
  <1>19. OnePlace'
    <2>0. OnePlace BY DEF SInv
    <2>1. OneInTodo' /\ OneReply' /\ TodoOrReply' BY <1>1, <2>0 DEF OnePlace, OneInTodo, OneReply, TodoOrReply
    <2>2. \A k \in 1..Len(inbox') : \A i \in 1..Len(inbox'[k].specs) :
             k \in 1..Len(inbox) \/ inbox'[k].specs[i].ticket \notin DOMAIN outstanding
      <3> TAKE k \in 1..Len(inbox')
      <3> TAKE i \in 1..Len(inbox'[k].specs)
      <3> SUFFICES ASSUME k \notin 1..Len(inbox) PROVE inbox'[k].specs[i].ticket \notin DOMAIN outstanding OBVIOUS
      <3>1. PICK a \in 1..m : k = Len(inbox) + a BY <1>n
      <3>2. PICK n \in 1..Len(order) : inbox'[k].specs[i].ticket = order[n] BY <1>7, <3>1
      <3> QED BY <1>3, <3>2
    <2>3. TodoOrInbox'
      <3> SUFFICES ASSUME NEW n \in 1..Len(worker.todo), NEW k \in 1..Len(inbox'), NEW i \in 1..Len(inbox'[k].specs)
                   PROVE  worker.todo[n].ticket # inbox'[k].specs[i].ticket
        BY <1>1 DEF TodoOrInbox
      <3>1. worker.todo[n].ticket \in DOMAIN outstanding BY DEF SInv, Agree, Agrees
      <3>2. CASE k \in 1..Len(inbox) BY <1>o, <2>0, <3>2 DEF OnePlace, TodoOrInbox
      <3> QED BY <2>2, <3>1, <3>2
    <2>4. InboxOrReply'
      <3> SUFFICES ASSUME NEW j \in 1..Len(replies), NEW k \in 1..Len(inbox'), NEW i \in 1..Len(inbox'[k].specs),
                          IsFrame(replies[j])
                   PROVE  inbox'[k].specs[i].ticket # replies[j].ticket
        BY <1>1 DEF InboxOrReply
      <3>1. replies[j].ticket \in DOMAIN outstanding BY DEF SInv, Agree
      <3>2. CASE k \in 1..Len(inbox) BY <1>o, <2>0, <3>2 DEF OnePlace, InboxOrReply
      <3> QED BY <2>2, <3>1, <3>2
    <2>5. OneInbox'
      <3> SUFFICES ASSUME NEW k \in 1..Len(inbox'), NEW l \in 1..Len(inbox'),
                          NEW i \in 1..Len(inbox'[k].specs), NEW j \in 1..Len(inbox'[l].specs),
                          inbox'[k].specs[i].ticket = inbox'[l].specs[j].ticket
                   PROVE  k = l /\ i = j
        BY DEF OneInbox
      <3>1. CASE k \in 1..Len(inbox) /\ l \in 1..Len(inbox)
        <4>1. inbox'[k] = inbox[k] /\ inbox'[l] = inbox[l] BY <1>o, <3>1
        <4>2. i \in 1..Len(inbox[k].specs) /\ j \in 1..Len(inbox[l].specs) /\ inbox[k].specs[i].ticket = inbox[l].specs[j].ticket
          BY <4>1
        <4>3. OneInbox BY <2>0 DEF OnePlace
        <4> QED BY ONLY <3>1, <4>2, <4>3 DEF OneInbox
      <3>2. CASE k \in 1..Len(inbox) /\ l \notin 1..Len(inbox)
        <4>1. inbox'[k].specs[i].ticket \in DOMAIN outstanding BY <1>o, <3>2 DEF SInv, Agree, Agrees
        <4> QED BY <2>2, <3>2, <4>1
      <3>3. CASE k \notin 1..Len(inbox) /\ l \in 1..Len(inbox)
        <4>1. inbox'[l].specs[j].ticket \in DOMAIN outstanding BY <1>o, <3>3 DEF SInv, Agree, Agrees
        <4> QED BY <2>2, <3>3, <4>1
      <3>4. CASE k \notin 1..Len(inbox) /\ l \notin 1..Len(inbox)
        <4>1. PICK a \in 1..m : k = Len(inbox) + a BY <1>n, <3>4
        <4>2. PICK b \in 1..m : l = Len(inbox) + b BY <1>n, <3>4
        <4>3. off[a] + i \in 1..Len(order) /\ inbox'[k].specs[i].ticket = order[off[a] + i] BY <1>7, <4>1
        <4>4. off[b] + j \in 1..Len(order) /\ inbox'[l].specs[j].ticket = order[off[b] + j] BY <1>7, <4>2
        <4>5. off[a] + i = off[b] + j
          <5>1. \A x, y \in 1..Len(order) : order[x] = order[y] => x = y BY <1>0 DEF DispatchGives
          <5> QED BY <4>3, <4>4, <5>1
        <4>6. off \in [1..m -> 0..Len(order)] /\ off[1] = 0 BY <1>b DEF Sends
        <4>7. off[a] \in Nat /\ off[b] \in Nat /\ i \in Nat /\ j \in Nat /\ i > 0 /\ j > 0 BY <1>5, <4>6
        <4>8. CASE a = b BY <4>1, <4>2, <4>5, <4>7, <4>8
        <4>9. CASE a = 1 /\ b = 2
          <5>1. off[1] + Len(inbox'[Len(inbox) + 1].specs) = off[2]
            <6>1. m = 2 /\ 1 \in 1..m /\ 1 # m BY <1>5, <4>9
            <6> QED BY <1>b, <6>1 DEF Sends
          <5>2. i <= Len(inbox'[Len(inbox) + 1].specs) BY <4>1, <4>9
          <5> QED BY <4>5, <4>6, <4>7, <4>9, <5>1, <5>2
        <4>10. CASE a = 2 /\ b = 1
          <5>1. off[1] + Len(inbox'[Len(inbox) + 1].specs) = off[2]
            <6>1. m = 2 /\ 1 \in 1..m /\ 1 # m BY <1>5, <4>10
            <6> QED BY <1>b, <6>1 DEF Sends
          <5>2. j <= Len(inbox'[Len(inbox) + 1].specs) BY <4>2, <4>10
          <5> QED BY <4>5, <4>6, <4>7, <4>10, <5>1, <5>2
        <4> QED BY <1>5, <4>8, <4>9, <4>10
      <3> QED BY <3>1, <3>2, <3>3, <3>4
    <2> QED BY <2>1, <2>3, <2>4, <2>5 DEF OnePlace
  <1>20. Apart'
    <2>1. \A i, j \in 1..Len(free_slots) : free_slots[i] = free_slots[j] => i = j BY DEF SInv, Apart
    <2>2. \A i \in 1..Len(free_slots) : free_slots[i] \notin held /\ \A t \in DOMAIN outstanding : free_slots[i] # outstanding[t]
      BY DEF SInv, Apart
    <2>3. \A t, u \in DOMAIN outstanding : outstanding[t] = outstanding[u] => t = u BY DEF SInv, Apart
    <2>4. \A t \in DOMAIN outstanding : outstanding[t] \notin held BY DEF SInv, Apart
    <2>5. \A i \in 1..Len(order) : i \in 1..Len(free_slots) BY <1>5
    <2>6. \A t, u \in DOMAIN outstanding' : outstanding'[t] = outstanding'[u] => t = u
      <3> SUFFICES ASSUME NEW t \in DOMAIN outstanding', NEW u \in DOMAIN outstanding', outstanding'[t] = outstanding'[u]
                   PROVE  t = u
        OBVIOUS
      <3>1. CASE t \in DOMAIN outstanding /\ u \in DOMAIN outstanding BY <1>2, <2>3, <3>1
      <3>2. CASE t \in DOMAIN outstanding /\ u \notin DOMAIN outstanding BY <1>2, <1>3, <1>4, <2>2, <2>5, <3>2
      <3>3. CASE t \notin DOMAIN outstanding /\ u \in DOMAIN outstanding BY <1>2, <1>3, <1>4, <2>2, <2>5, <3>3
      <3>4. CASE t \notin DOMAIN outstanding /\ u \notin DOMAIN outstanding BY <1>3, <1>4, <2>1, <2>5, <3>4
      <3> QED BY <3>1, <3>2, <3>3, <3>4
    <2>7. \A t \in DOMAIN outstanding' : outstanding'[t] \notin held BY <1>2, <1>3, <1>4, <2>2, <2>4, <2>5
    <2>8. \A i, j \in 1..Len(free_slots') : free_slots'[i] = free_slots'[j] => i = j
      <3> SUFFICES ASSUME NEW i \in 1..Len(free_slots'), NEW j \in 1..Len(free_slots'), free_slots'[i] = free_slots'[j]
                   PROVE  i = j
        OBVIOUS
      <3>1. Len(order) + i = Len(order) + j BY <1>6, <2>1
      <3> QED BY <1>5, <3>1
    <2>9. \A i \in 1..Len(free_slots') : free_slots'[i] \notin held BY <1>6, <2>2
    <2>10. \A i \in 1..Len(free_slots'), t \in DOMAIN outstanding' : free_slots'[i] # outstanding'[t]
      <3> SUFFICES ASSUME NEW i \in 1..Len(free_slots'), NEW t \in DOMAIN outstanding', free_slots'[i] = outstanding'[t]
                   PROVE  FALSE
        OBVIOUS
      <3>1. PICK n \in 1..Len(free_slots) : n = Len(order) + i /\ free_slots'[i] = free_slots[n] BY <1>6
      <3>2. CASE t \in DOMAIN outstanding BY <1>2, <2>2, <3>1, <3>2
      <3>3. CASE t \notin DOMAIN outstanding
        <4>1. PICK j \in 1..Len(order) : outstanding'[t] = free_slots[j] BY <1>3, <1>4, <3>3
        <4>2. n = j BY <2>1, <2>5, <3>1, <4>1
        <4> QED BY <1>5, <3>1, <4>1, <4>2
      <3> QED BY <3>2, <3>3
    <2> QED BY <1>1, <2>6, <2>7, <2>8, <2>9, <2>10 DEF Apart
  <1>21. InHandApart' BY <1>1 DEF InHandApart, InHand
  <1>22. Intact' BY <1>1 DEF SInv, Intact, FramesIntact
  <1> QED BY <1>11, <1>12, <1>13, <1>14, <1>15, <1>16, <1>17, <1>18, <1>19, <1>20, <1>21, <1>22 DEF SInv, Types

--------------------------------------------------------------------------------
(* FramesIntact *)

LEMMA StutterKeeps == SInv /\ UNCHANGED vars => SInv'
  <1> SUFFICES ASSUME SInv, UNCHANGED vars PROVE SInv' OBVIOUS
  <1>1. UNCHANGED <<handleVars, refs, pipeVars, worker, fresh>> /\ UNCHANGED <<shm, main, ticket>> BY DEF vars
  <1>2. ShmType' /\ \A u \in Segment : shm'[u].data = shm[u].data BY <1>1 DEF SInv, Types, ShmType
  <1>3. main' \in [at : MainAt, ticket : Ticket \cup {None}, slot : Nat] BY <1>1 DEF SInv, Types, HandleType
  <1>4. ticket' \in [Ticket -> {"queued", "sent", "answered"}] BY <1>1 DEF SInv, Types, TicketType
  <1> QED BY <1>1, <1>2, <1>3, <1>4, QuietStep

\* Every step of the exchange keeps its invariant.
LEMMA SlotsStep == SInv /\ [Next]_vars => SInv'
  <1> SUFFICES ASSUME SInv, [Next]_vars PROVE SInv' OBVIOUS
  <1>1. CASE SomeDispatch BY <1>1, DispatchKeeps DEF SomeDispatch
  <1>2. CASE \E t \in Ticket : Cancel(t) BY <1>2, CancelKeeps
  <1>3. CASE \E f \in refs : ReleaseFrame(f) BY <1>3, ReleaseFrameKeeps
  <1>4. CASE MainStep BY <1>4, MainQuiet, DeliverKeeps DEF MainStep
  <1>5. CASE Drain BY <1>5, OnHelloCapsKeeps, OnFrameReadyKeeps, OnFrameFailedKeeps DEF Drain
  <1>6. CASE RebuildSegment BY <1>6, RebuildKeeps
  <1>7. CASE RestartWorker BY <1>7, RestartKeeps
  <1>8. CASE WorkerStep
    BY <1>8, AttachKeeps, TakeBatchKeeps, WorkerRingSteps, RenderKeeps, SayKeeps DEF WorkerStep
  <1>9. CASE Crash BY <1>9, CrashKeeps
  <1>10. CASE UNCHANGED vars BY <1>10, StutterKeeps
  <1> QED BY <1>1, <1>2, <1>3, <1>4, <1>5, <1>6, <1>7, <1>8, <1>9, <1>10 DEF Next

\* The invariant holds in every state of every run.
LEMMA SlotsInvariant == Spec => []SInv
  BY SlotsStart, SlotsStep, PTL DEF Spec, Safety

\* The segments, the handle's lists, the pipe and the worker keep their types, for every
\* number of slots, tickets, crashes and growths.
THEOREM SlotTypes == Spec => []Types
  <1>1. SInv => Types BY DEF SInv
  <1> QED BY <1>1, SlotsInvariant, PTL

\* The frame a consumer has is not written over until it is given back, and its slot
\* counts as held while its segment is in use.
THEOREM FramesStayIntact == Spec => []FramesIntact
  <1>1. SInv => FramesIntact BY DEF SInv, Intact
  <1> QED BY <1>1, SlotsInvariant, PTL

--------------------------------------------------------------------------------
(* What the rings hold *)

\* The place of the k-th slot of a ring of n + 1 cells, and the number of slots, from the
\* cursors: tail t and head h
Place(t, n, k) == IF t + k - 1 <= n THEN t + k - 1 ELSE t + k - 1 - (n + 1)
Size(h, t, n) == IF t <= h THEN h - t ELSE h + n + 1 - t
After(i, n) == IF i = n THEN 0 ELSE i + 1

\* Both are within the ring, and no slot is where the head is.
LEMMA PlaceIs ==
    ASSUME NEW n \in Nat, NEW h \in 0..n, NEW t \in 0..n
    PROVE  /\ Size(h, t, n) \in 0..n
           /\ \A k \in 1..Size(h, t, n) : Place(t, n, k) \in 0..n /\ Place(t, n, k) # h
  <1>1. Size(h, t, n) \in 0..n BY DEF Size
  <1>2. \A k \in 1..Size(h, t, n) : Place(t, n, k) \in 0..n /\ Place(t, n, k) # h
    <2>1. CASE t <= h
      <3>1. Size(h, t, n) = h - t BY <2>1 DEF Size
      <3> QED BY <2>1, <3>1 DEF Place
    <2>2. CASE ~(t <= h)
      <3>1. Size(h, t, n) = h + n + 1 - t BY <2>2 DEF Size
      <3> QED BY <2>2, <3>1 DEF Place
    <2> QED BY <2>1, <2>2
  <1> QED BY <1>1, <1>2

\* Moving the tail drops the first place, moving the head adds the head's.
LEMMA CursorMoves ==
    ASSUME NEW n \in Nat, NEW h \in 0..n, NEW t \in 0..n
    PROVE  /\ Size(h, t, n) > 0 =>
                 /\ Size(h, After(t, n), n) = Size(h, t, n) - 1
                 /\ \A k \in 1..(Size(h, t, n) - 1) : Place(After(t, n), n, k) = Place(t, n, k + 1)
           /\ Size(h, t, n) < n =>
                 /\ Size(After(h, n), t, n) = Size(h, t, n) + 1
                 /\ Place(t, n, Size(h, t, n) + 1) = h
           /\ (After(h, n) # t) <=> (Size(h, t, n) < n)
           /\ (t # h) <=> (Size(h, t, n) > 0)
           /\ Place(t, n, 1) = t
  <1>1. Size(h, t, n) > 0 => Size(h, After(t, n), n) = Size(h, t, n) - 1 BY DEF Size, After
  <1>2. \A k \in 1..n : Place(After(t, n), n, k) = Place(t, n, k + 1) BY DEF Place, After
  <1>3. Size(h, t, n) \in 0..n BY DEF Size
  <1>4. Size(h, t, n) > 0 => \A k \in 1..(Size(h, t, n) - 1) : Place(After(t, n), n, k) = Place(t, n, k + 1) BY <1>2, <1>3
  <1>5. Size(h, t, n) < n => Size(After(h, n), t, n) = Size(h, t, n) + 1 BY DEF Size, After
  <1>6. Place(t, n, Size(h, t, n) + 1) = h BY DEF Size, Place
  <1>7. (After(h, n) # t) <=> (Size(h, t, n) < n) BY DEF Size, After
  <1>8. (t # h) <=> (Size(h, t, n) > 0) BY DEF Size
  <1>9. Place(t, n, 1) = t BY DEF Place
  <1> QED BY <1>1, <1>4, <1>5, <1>6, <1>7, <1>8, <1>9

\* A ring holds, in order, the cells from its tail on.
Holds(q, r, n, h, t) ==
    /\ h = r.head /\ t = r.tail /\ h \in 0..n /\ t \in 0..n /\ r.cell \in [0..n -> Nat]
    /\ q \in Seq(Nat) /\ Len(q) = Size(h, t, n)
    /\ \A k \in 1..Size(h, t, n) : q[k] = r.cell[Place(t, n, k)]

LEMMA ContentsIs ==
    ASSUME NEW n \in Nat, NEW r \in RingType(n), NEW q, q = Contents(r), NEW h, h = r.head, NEW t, t = r.tail
    PROVE  Holds(q, r, n, h, t)
  <1>1. h \in 0..n /\ t \in 0..n /\ r.cell \in [0..n -> Nat] /\ r.capacity = n + 1 BY DEF RingType
  <1>2. (h + (n + 1) - t) % (n + 1) = Size(h, t, n)
    <2>1. PICK a \in Nat : a = h + (n + 1) - t BY <1>1
    <2>2. PICK c \in Nat : c = n + 1 OBVIOUS
    <2>3. a < 2 * c /\ c > 0 BY <1>1, <2>1, <2>2
    <2>4. a % c = IF a < c THEN a ELSE a - c BY <2>3, WrapAround
    <2>5. Size(h, t, n) = IF a < c THEN a ELSE a - c
      <3>1. CASE t <= h BY <1>1, <2>1, <2>2, <3>1 DEF Size
      <3>2. CASE ~(t <= h)
        <4>1. Size(h, t, n) = h + n + 1 - t BY <3>2 DEF Size
        <4>2. h \in Int /\ t \in Int /\ h < t BY <1>1, <3>2
        <4>3. a < c /\ a = h + n + 1 - t BY <2>1, <2>2, <4>2
        <4> QED BY <4>1, <4>3
      <3> QED BY <3>1, <3>2
    <2> QED BY <2>1, <2>2, <2>4, <2>5
  <1>3. Size(h, t, n) \in 0..n /\ \A k \in 1..Size(h, t, n) : Place(t, n, k) \in 0..n BY <1>1, PlaceIs
  <1>4. \A k \in 1..Size(h, t, n) : (t + k - 1) % (n + 1) = Place(t, n, k)
    <2> TAKE k \in 1..Size(h, t, n)
    <2>1. PICK a \in Nat : a = t + k - 1 BY <1>1, <1>3
    <2>2. PICK c \in Nat : c = n + 1 OBVIOUS
    <2>3. a < 2 * c /\ c > 0
      <3>1. PICK z \in 0..n : z = Size(h, t, n) BY <1>3
      <3>2. n \in Nat /\ t \in 0..n /\ z \in 0..n /\ k \in 1..z BY <1>1, <3>1
      <3> QED BY ONLY <2>1, <2>2, <3>2
    <2>4. a % c = IF a < c THEN a ELSE a - c BY <2>3, WrapAround
    <2>5. Place(t, n, k) = IF a < c THEN a ELSE a - c
      <3>1. CASE a < c BY <1>1, <2>1, <2>2, <3>1 DEF Place
      <3>2. CASE ~(a < c) BY <1>1, <2>1, <2>2, <3>2 DEF Place
      <3> QED BY <3>1, <3>2
    <2> QED BY <2>1, <2>2, <2>4, <2>5
  <1>5. q = [k \in 1..Size(h, t, n) |-> r.cell[(t + k - 1) % (n + 1)]]
    <2>1. q = [k \in 1..((h + (n + 1) - t) % (n + 1)) |-> r.cell[(t + k - 1) % (n + 1)]] BY <1>1 DEF Contents
    <2> QED BY <1>2, <2>1
  <1>6. \A k \in 1..Size(h, t, n) : r.cell[(t + k - 1) % (n + 1)] = r.cell[Place(t, n, k)] /\ r.cell[Place(t, n, k)] \in Nat
    BY <1>1, <1>3, <1>4
  <1>7. q \in Seq(Nat) /\ Len(q) = Size(h, t, n) BY <1>3, <1>5, <1>6
  <1> QED BY <1>1, <1>5, <1>6, <1>7 DEF Holds

\* A ring can be popped when it holds something, and pushed when it has room.
LEMMA RoomIs ==
    ASSUME NEW n \in Nat, NEW r \in RingType(n), NEW q, q = Contents(r)
    PROVE  /\ q \in Seq(Nat) /\ Len(q) \in 0..n
           /\ CanPop(r) <=> Len(q) > 0
           /\ CanPush(r) <=> Len(q) < n
           /\ Len(q) > 0 => PopCell(r) = q[1]
  <1>1. PICK h : h = r.head OBVIOUS
  <1>2. PICK t : t = r.tail OBVIOUS
  <1>3. Holds(q, r, n, h, t) BY <1>1, <1>2, ContentsIs
  <1>4. h \in 0..n /\ t \in 0..n /\ q \in Seq(Nat) /\ Len(q) = Size(h, t, n) BY <1>3 DEF Holds
  <1>5. Size(h, t, n) \in 0..n BY <1>4, PlaceIs
  <1>6. /\ (After(h, n) # t) <=> (Size(h, t, n) < n)
        /\ (t # h) <=> (Size(h, t, n) > 0)
        /\ Place(t, n, 1) = t
    BY <1>4, CursorMoves
  <1>7. CanPop(r) <=> Len(q) > 0 BY <1>1, <1>2, <1>4, <1>6 DEF CanPop
  <1>8. Increment(r, h) = After(h, n) BY <1>4, IncrementIs DEF After
  <1>9. CanPush(r) <=> Len(q) < n BY <1>1, <1>2, <1>4, <1>6, <1>8 DEF CanPush
  <1>10. Len(q) > 0 => PopCell(r) = q[1]
    <2> SUFFICES ASSUME Len(q) > 0 PROVE PopCell(r) = q[1] OBVIOUS
    <2>1. 1 \in 1..Size(h, t, n) BY <1>4, <1>5
    <2>2. q[1] = r.cell[Place(t, n, 1)] BY <1>3, <2>1 DEF Holds
    <2> QED BY <1>2, <1>6, <2>2 DEF PopCell
  <1> QED BY <1>4, <1>5, <1>7, <1>9, <1>10

\* A pop takes the first slot.
LEMMA PopIs ==
    ASSUME NEW n \in Nat, NEW r \in RingType(n), NEW q, q = Contents(r), Len(q) > 0,
           NEW p, p = Contents(PopTail(r))
    PROVE  /\ p \in Seq(Nat) /\ Len(q) \in Nat /\ Len(p) = Len(q) - 1
           /\ \A k \in 1..Len(p) : p[k] = q[k + 1]
           /\ PopTail(r).head = r.head /\ PopTail(r).cell = r.cell
  <1>1. PICK h : h = r.head OBVIOUS
  <1>2. PICK t : t = r.tail OBVIOUS
  <1>3. Holds(q, r, n, h, t) BY <1>1, <1>2, ContentsIs
  <1>4. h \in 0..n /\ t \in 0..n /\ q \in Seq(Nat) /\ Len(q) = Size(h, t, n) BY <1>3 DEF Holds
  <1>5. PICK s : s = PopTail(r) OBVIOUS
  <1>6. s \in RingType(n)
    <2>1. 0 \in Nat OBVIOUS
    <2> QED BY <1>5, <2>1, RingSteps
  <1>7. s.head = h /\ s.cell = r.cell /\ s.tail = After(t, n)
    <2>1. Increment(r, t) = After(t, n) BY <1>4, IncrementIs DEF After
    <2> QED BY <1>1, <1>2, <1>5, <2>1 DEF PopTail, RingType
  <1>8. PICK u : u = After(t, n) OBVIOUS
  <1>9. Holds(p, s, n, h, u) BY <1>5, <1>6, <1>7, <1>8, ContentsIs
  <1>10. Size(h, t, n) \in 0..n BY <1>4, PlaceIs
  <1>11. Size(h, u, n) = Size(h, t, n) - 1 /\ \A k \in 1..(Size(h, t, n) - 1) : Place(u, n, k) = Place(t, n, k + 1)
    BY <1>4, <1>8, CursorMoves
  <1>12. p \in Seq(Nat) /\ Len(p) = Len(q) - 1 /\ Len(q) \in Nat BY <1>4, <1>9, <1>10, <1>11 DEF Holds
  <1>13. \A k \in 1..Len(p) : p[k] = q[k + 1]
    <2> TAKE k \in 1..Len(p)
    <2>1. k \in 1..Size(h, u, n) /\ k + 1 \in 1..Size(h, t, n) /\ k \in 1..(Size(h, t, n) - 1) BY <1>4, <1>10, <1>11, <1>12
    <2>2. p[k] = r.cell[Place(u, n, k)] BY <1>7, <1>9, <2>1 DEF Holds
    <2>3. q[k + 1] = r.cell[Place(t, n, k + 1)] BY <1>3, <2>1 DEF Holds
    <2> QED BY <1>11, <2>1, <2>2, <2>3
  <1> QED BY <1>1, <1>5, <1>7, <1>12, <1>13

\* Writing the cell of a push changes nothing the consumer sees.
LEMMA PushCellIs ==
    ASSUME NEW n \in Nat, NEW r \in RingType(n), NEW slot \in Nat
    PROVE  /\ Contents(PushCell(r, slot)) = Contents(r)
           /\ PushCell(r, slot).head = r.head /\ PushCell(r, slot).cell[r.head] = slot
  <1>1. PICK h : h = r.head OBVIOUS
  <1>2. PICK t : t = r.tail OBVIOUS
  <1>3. PICK q : q = Contents(r) OBVIOUS
  <1>4. Holds(q, r, n, h, t) BY <1>1, <1>2, <1>3, ContentsIs
  <1>5. PICK s : s = PushCell(r, slot) OBVIOUS
  <1>6. s \in RingType(n) BY <1>5, RingSteps
  <1>7. s.head = h /\ s.tail = t /\ s.cell = [r.cell EXCEPT ![h] = slot] BY <1>1, <1>2, <1>5 DEF PushCell, RingType
  <1>8. PICK p : p = Contents(s) OBVIOUS
  <1>9. Holds(p, s, n, h, t) BY <1>6, <1>7, <1>8, ContentsIs
  <1>10. h \in 0..n /\ t \in 0..n /\ r.cell \in [0..n -> Nat] BY <1>4 DEF Holds
  <1>11. \A k \in 1..Size(h, t, n) : Place(t, n, k) \in 0..n /\ Place(t, n, k) # h BY <1>10, PlaceIs
  <1>12. \A k \in 1..Size(h, t, n) : p[k] = q[k]
    <2> TAKE k \in 1..Size(h, t, n)
    <2>1. p[k] = s.cell[Place(t, n, k)] /\ q[k] = r.cell[Place(t, n, k)] BY <1>4, <1>9 DEF Holds
    <2>2. s.cell[Place(t, n, k)] = r.cell[Place(t, n, k)] BY <1>7, <1>10, <1>11
    <2> QED BY <2>1, <2>2
  <1>13. p \in Seq(Nat) /\ q \in Seq(Nat) /\ Len(p) = Len(q) /\ Len(q) = Size(h, t, n) BY <1>4, <1>9 DEF Holds
  <1>14. p = q BY <1>12, <1>13, SeqEqual
  <1>15. s.cell[h] = slot BY <1>7, <1>10
  <1> QED BY <1>1, <1>3, <1>5, <1>7, <1>8, <1>14, <1>15

\* Storing the cursor makes the written cell the last slot.
LEMMA PushHeadIs ==
    ASSUME NEW n \in Nat, NEW r \in RingType(n), NEW q, q = Contents(r), Len(q) < n,
           NEW p, p = Contents(PushHead(r))
    PROVE  /\ p \in Seq(Nat) /\ Len(q) \in Nat /\ Len(p) = Len(q) + 1
           /\ \A k \in 1..Len(q) : p[k] = q[k]
           /\ p[Len(p)] = r.cell[r.head]
  <1>1. PICK h : h = r.head OBVIOUS
  <1>2. PICK t : t = r.tail OBVIOUS
  <1>3. Holds(q, r, n, h, t) BY <1>1, <1>2, ContentsIs
  <1>4. h \in 0..n /\ t \in 0..n /\ q \in Seq(Nat) /\ Len(q) = Size(h, t, n) BY <1>3 DEF Holds
  <1>5. PICK s : s = PushHead(r) OBVIOUS
  <1>6. s \in RingType(n)
    <2>1. 0 \in Nat OBVIOUS
    <2> QED BY <1>5, <2>1, RingSteps
  <1>7. s.tail = t /\ s.cell = r.cell /\ s.head = After(h, n)
    <2>1. Increment(r, h) = After(h, n) BY <1>4, IncrementIs DEF After
    <2> QED BY <1>1, <1>2, <1>5, <2>1 DEF PushHead, RingType
  <1>8. PICK u : u = After(h, n) OBVIOUS
  <1>9. Holds(p, s, n, u, t) BY <1>5, <1>6, <1>7, <1>8, ContentsIs
  <1>10. Size(h, t, n) \in 0..n BY <1>4, PlaceIs
  <1>11. Size(u, t, n) = Size(h, t, n) + 1 /\ Place(t, n, Size(h, t, n) + 1) = h BY <1>4, <1>8, CursorMoves
  <1>12. p \in Seq(Nat) /\ Len(p) = Len(q) + 1 /\ Len(q) \in Nat BY <1>4, <1>9, <1>10, <1>11 DEF Holds
  <1>13. \A k \in 1..Len(p) : p[k] = r.cell[Place(t, n, k)]
    <2>1. Len(p) = Size(u, t, n) BY <1>9 DEF Holds
    <2> QED BY <1>7, <1>9, <2>1 DEF Holds
  <1>14. \A k \in 1..Len(q) : p[k] = q[k]
    <2> TAKE k \in 1..Len(q)
    <2>1. k \in 1..Size(h, t, n) /\ k \in 1..Len(p) BY <1>4, <1>12
    <2>2. q[k] = r.cell[Place(t, n, k)] BY <1>3, <2>1 DEF Holds
    <2> QED BY <1>13, <2>1, <2>2
  <1>15. p[Len(p)] = r.cell[h]
    <2>1. Len(p) \in 1..Len(p) /\ Len(p) = Size(h, t, n) + 1 BY <1>4, <1>12
    <2> QED BY <1>11, <1>13, <2>1
  <1> QED BY <1>1, <1>12, <1>14, <1>15

\* A seeded ring holds all the slots in order, a new one nothing.
LEMMA SeededHolds ==
    ASSUME NEW n \in Nat
    PROVE  /\ Contents(Seeded(n)) \in Seq(Nat) /\ Len(Contents(Seeded(n))) = n
           /\ \A k \in 1..n : Contents(Seeded(n))[k] = k - 1
           /\ Len(Contents(NewRing(n))) = 0
  <1>1. PICK q : q = Contents(Seeded(n)) OBVIOUS
  <1>2. PICK r : r = Seeded(n) OBVIOUS
  <1>3. r \in RingType(n) /\ r.head = n /\ r.tail = 0 /\ \A i \in 0..n : i < n => r.cell[i] = i BY <1>2, SeededIs
  <1>4. Holds(q, r, n, n, 0) BY <1>1, <1>2, <1>3, ContentsIs
  <1>5. Size(n, 0, n) = n BY DEF Size
  <1>6. \A k \in 1..n : Place(0, n, k) = k - 1 /\ k - 1 \in 0..n /\ k - 1 < n BY DEF Place
  <1>7. q \in Seq(Nat) /\ Len(q) = n /\ \A k \in 1..n : q[k] = r.cell[Place(0, n, k)] BY <1>4, <1>5 DEF Holds
  <1>8. \A k \in 1..n : q[k] = k - 1 BY <1>3, <1>6, <1>7
  <1>9. PICK e : e = NewRing(n) OBVIOUS
  <1>10. e \in RingType(n) /\ e.head = 0 /\ e.tail = 0 BY <1>9 DEF NewRing, RingType
  <1>11. Len(Contents(e)) = 0
    <2>1. PICK d : d = Contents(e) OBVIOUS
    <2>2. Holds(d, e, n, 0, 0) BY <1>10, <2>1, ContentsIs
    <2>3. Size(0, 0, n) = 0 BY DEF Size
    <2> QED BY <2>1, <2>2, <2>3 DEF Holds
  <1> QED BY <1>1, <1>7, <1>8, <1>9, <1>11

--------------------------------------------------------------------------------
(* Every step keeps the invariant of InLockstep *)

\* A list of distinct slots that leaves one out is shorter than the segment.
LEMMA LeavesRoom ==
    ASSUME NEW n \in Nat, NEW q \in Seq(Nat), NEW x \in 0..(n - 1),
           \A p \in 1..Len(q) : q[p] \in 0..(n - 1),
           \A p, o \in 1..Len(q) : q[p] = q[o] => p = o,
           ~Has(q, x)
    PROVE  Len(q) < n
  <1>1. Len(q) \in Nat /\ DOMAIN q = 1..Len(q) /\ q = [p \in 1..Len(q) |-> q[p]] OBVIOUS
  <1> DEFINE S == 1..Len(q)
             T == (0..(n - 1)) \ {x}
  <1>2. q \in Injection(S, T)
    <2>1. \A p \in S : q[p] \in T BY DEF Has
    <2>2. q \in [S -> T] BY <1>1, <2>1
    <2> QED BY <1>1, <2>2 DEF Injection, IsInjective
  <1>3. IsFiniteSet(0..(n - 1)) /\ Cardinality(0..(n - 1)) = n
    <2>1. 0 \in Int /\ n - 1 \in Int OBVIOUS
    <2> QED BY <2>1, FS_Interval
  <1>4. IsFiniteSet(T) /\ Cardinality(T) = n - 1
    <2>1. PICK Z : Z = 0..(n - 1) OBVIOUS
    <2>2. IsFiniteSet(Z) /\ Cardinality(Z) = n /\ x \in Z BY <1>3, <2>1
    <2>3. IsFiniteSet(Z \ {x}) /\ Cardinality(Z \ {x}) = Cardinality(Z) - 1 BY ONLY <2>2, FS_RemoveElement
    <2> QED BY <2>1, <2>2, <2>3
  <1>5. Cardinality(S) = Len(q)
    <2>1. PICK m \in Nat : m = Len(q) BY <1>1
    <2>2. Cardinality(1..m) = m
      <3>1. 1 \in Int /\ m \in Int BY <2>1
      <3>2. Cardinality(1..m) = IF 1 > m THEN 0 ELSE m - 1 + 1 BY ONLY <3>1, FS_Interval
      <3> QED BY <2>1, <3>2
    <2> QED BY <2>1, <2>2
  <1>6. Cardinality(S) <= Cardinality(T) BY <1>2, <1>4, FS_Injection
  <1> QED BY <1>1, <1>4, <1>5, <1>6

\* The rings in use, and what they hold
LEMMA RingsInUse ==
    ASSUME SInv
    PROVE  /\ seg \in Segment /\ seg \in Nat /\ Slots[seg] \in Nat /\ Slots[seg] > 0 /\ Slot(seg) = 0..(Slots[seg] - 1)
           /\ Free(seg) \in RingType(Slots[seg]) /\ Ready(seg) \in RingType(Slots[seg])
           /\ FreeRing \in Seq(Nat) /\ Len(FreeRing) \in Nat /\ ReadyRing \in Seq(Nat) /\ Len(ReadyRing) \in Nat
  <1>1. seg \in Segment /\ ShmType BY DEF SInv, Types, HandleType
  <1>2. /\ Slots[seg] \in Nat /\ Slots[seg] > 0 /\ seg \in Nat
        /\ Free(seg) \in RingType(Slots[seg]) /\ Ready(seg) \in RingType(Slots[seg])
    BY <1>1, SegParts
  <1>3. FreeRing \in Seq(Nat) /\ Len(FreeRing) \in 0..Slots[seg] BY <1>2, RoomIs DEF FreeRing
  <1>4. ReadyRing \in Seq(Nat) /\ Len(ReadyRing) \in 0..Slots[seg] BY <1>2, RoomIs DEF ReadyRing
  <1> QED BY <1>1, <1>2, <1>3, <1>4 DEF Slot

LEMMA LockstepStart == Init => LInv
  <1> SUFFICES ASSUME Init PROVE LInv OBVIOUS
  <1>0. 1 \in Segment /\ Slots[1] \in Nat /\ seg = 1 BY ExchangeAssumption DEF Segment, Init
  <1>1. PICK n \in Nat : n = Slots[1] BY <1>0
  <1>2. shm[1] = NewSegment(1) BY <1>0 DEF Init
  <1>3. Free(seg) = Seeded(n) /\ Ready(seg) = NewRing(n) BY <1>0, <1>1, <1>2 DEF NewSegment, Free, Ready
  <1>4. Len(FreeRing) = n /\ (\A k \in 1..n : FreeRing[k] = k - 1) /\ Len(ReadyRing) = 0
    BY <1>3, SeededHolds DEF FreeRing, ReadyRing
  <1>5. Len(inbox) = 1 /\ inbox[1].specs = <<>> /\ Len(inbox[1].specs) = 0 /\ Len(replies) = 0 /\ held = {}
    BY DEF Init, Handshake
  <1>6. worker.at = "loop" /\ worker.todo = <<>> /\ Len(worker.todo) = 0 /\ main.at = "idle" BY DEF Init, Loop, Idle
  <1>7. Len(free_slots) = n /\ \A i \in 1..n : free_slots[i] = i - 1 BY <1>1 DEF Init, AllSlots
  <1>11. Unused BY DEF Init, Unused
  <1>12. FreeApart
    <2>1. Slot(seg) = 0..(n - 1) BY <1>0, <1>1 DEF Slot
    <2> QED BY <1>4, <1>5, <1>6, <2>1 DEF FreeApart, Taken
  <1>13. ReadyApart BY <1>4, <1>5, <1>6 DEF ReadyApart, Taken, Recycling
  <1>14. HalfWay BY <1>6 DEF HalfWay, Recycling
  <1>15. FreeOrder
    <2> DEFINE c == [k \in 0..(Len(inbox) + 1) |-> 0]
    <2>1. c \in [0..(Len(inbox) + 1) -> -1..Len(FreeRing)] /\ c[0] = 0 /\ c[1] = 0 /\ c[2] = 0 /\ Rising(c, Len(inbox) + 1) BY <1>4, <1>5 DEF Rising
    <2> HIDE DEF c
    <2>2. Mirrored = n BY <1>6, <1>7 DEF Mirrored, Recycling
    <2>3. FreeCuts(c) BY <1>4, <1>5, <1>6, <1>7, <2>1, <2>2 DEF FreeCuts, Taken
    <2> QED BY <2>3 DEF FreeOrder
  <1>16. ReadyOrder
    <2> DEFINE g == [k \in 0..Len(replies) |-> 0]
    <2>1. g \in [0..Len(replies) -> 0..Len(ReadyRing)] /\ g[0] = 0 /\ Rising(g, Len(replies)) BY <1>4, <1>5 DEF Rising
    <2> HIDE DEF g
    <2>2. ReadyCounts(g) BY <1>4, <1>5, <1>6, <2>1 DEF ReadyCounts, Draining
    <2> QED BY <2>2 DEF ReadyOrder
  <1> QED BY <1>11, <1>12, <1>13, <1>14, <1>15, <1>16 DEF LInv

\* The order of the free ring is kept by a step that leaves what it relates alone.
LEMMA FreeOrderSame ==
    ASSUME FreeOrder, FreeRing' = FreeRing, inbox' = inbox, worker'.todo = worker.todo,
           worker'.at # "dead" => worker.at # "dead" /\ (worker'.at \in Taken <=> worker.at \in Taken),
           Mirrored' = Mirrored, \A i \in 1..Mirrored : free_slots'[i] = free_slots[i]
    PROVE  FreeOrder'
  <1> SUFFICES ASSUME worker'.at # "dead" PROVE \E c : FreeCuts(c)' BY DEF FreeOrder
  <1>1. PICK c : FreeCuts(c) BY DEF FreeOrder
  <1>2. FreeCuts(c)' BY <1>1 DEF FreeCuts
  <1> QED BY <1>2

\* The same for the ready ring
LEMMA ReadyOrderSame ==
    ASSUME ReadyOrder, ReadyRing' = ReadyRing, replies' = replies,
           main'.at \in Draining <=> main.at \in Draining, main'.at \in Draining => main'.slot = main.slot,
           worker'.at # "dead" => worker.at # "dead" /\ (worker'.at = "ready" <=> worker.at = "ready"),
           worker'.at = "ready" => worker'.got = worker.got
    PROVE  ReadyOrder'
  <1>1. PICK g : ReadyCounts(g) BY DEF ReadyOrder
  <1>2. ReadyCounts(g)' BY <1>1 DEF ReadyCounts
  <1> QED BY <1>2 DEF ReadyOrder

--------------------------------------------------------------------------------
(* What the invariant says of the next ring operation *)

\* The ticket in hand finds its slot at the head of the free ring.
LEMMA AcquireFinds ==
    ASSUME SInv, LInv, worker.at = "acquire"
    PROVE  CanPop(Free(worker.seg)) /\ PopCell(Free(worker.seg)) = Current.slot /\ Len(FreeRing) > 0
  <1>1. worker.todo # <<>> BY DEF SInv, Shape, Busy
  <1>2. worker.seg = seg /\ Current = worker.todo[1] /\ Len(worker.todo) > 0 /\ Len(worker.todo) \in Nat
    BY <1>1, InHandIsOut, LenProperties
  <1>3. PICK c : FreeCuts(c) BY DEF LInv, FreeOrder
  <1>4. c[0] = 0 BY <1>3 DEF FreeCuts, Taken
  <1>5. FreeRing[1] = worker.todo[1].slot
    <2>1. 1 \in 1..Len(worker.todo) /\ c[0] + 1 > 0 /\ c[0] + 1 = 1 BY <1>2, <1>4
    <2> QED BY <1>3, <2>1 DEF FreeCuts
  <1>6. Len(FreeRing) > 0
    <2>1. Len(inbox) \in Nat BY DEF SInv, Types, PipeType
    <2>2. Len(FreeRing) \in Nat BY RingsInUse
    <2>3. c[1] \in -1..Len(FreeRing) /\ c[1] = c[0] + Len(worker.todo)
      <3>1. c \in [0..(Len(inbox) + 1) -> -1..Len(FreeRing)] /\ c[1] = c[0] + Len(worker.todo) BY <1>3 DEF FreeCuts
      <3>2. 1 \in 0..(Len(inbox) + 1) BY <2>1
      <3> QED BY <3>1, <3>2
    <2> QED BY <1>2, <1>4, <2>2, <2>3
  <1>7. Slots[seg] \in Nat /\ Free(seg) \in RingType(Slots[seg]) BY RingsInUse
  <1>8. CanPop(Free(seg)) /\ PopCell(Free(seg)) = FreeRing[1] BY <1>6, <1>7, RoomIs DEF FreeRing
  <1> QED BY <1>2, <1>5, <1>6, <1>8

\* The frame being read is at the head of the ready ring.
LEMMA ConsumeFinds ==
    ASSUME SInv, LInv, main.at \in Draining
    PROVE  CanPop(Ready(seg)) /\ PopCell(Ready(seg)) = main.slot /\ Len(ReadyRing) > 0
  <1>1. PICK g : ReadyCounts(g) BY DEF LInv, ReadyOrder
  <1>2. Slots[seg] \in Nat /\ Ready(seg) \in RingType(Slots[seg]) /\ Len(ReadyRing) \in Nat BY RingsInUse
  <1>3. Len(replies) \in Nat BY DEF SInv, Types, PipeType
  <1>4. g[0] = 1 /\ g[0] \in 0..Len(ReadyRing) /\ ReadyRing[1] = main.slot BY <1>1, <1>3 DEF ReadyCounts
  <1>5. Len(ReadyRing) > 0 BY <1>2, <1>4
  <1>6. CanPop(Ready(seg)) /\ PopCell(Ready(seg)) = ReadyRing[1] BY <1>2, <1>5, RoomIs DEF ReadyRing
  <1> QED BY <1>4, <1>5, <1>6

\* A slot that is not in a ring has its place there.
LEMMA PublishFits ==
    ASSUME SInv, LInv, worker.at \in {"publish", "published"}
    PROVE  CanPush(Ready(seg)) /\ Len(ReadyRing) < Slots[seg]
  <1>1. worker.todo # <<>> /\ worker.got = worker.todo[1].slot BY DEF SInv, Shape, Busy, Rendered
  <1>2. worker.todo[1].slot \in Slot(seg) BY <1>1, InHandIsOut
  <1>3. ~Has(ReadyRing, worker.todo[1].slot) BY DEF LInv, ReadyApart, Taken
  <1>4. PICK n \in Nat : n = Slots[seg] BY RingsInUse
  <1>5. Slot(seg) = 0..(n - 1) /\ Ready(seg) \in RingType(n) /\ ReadyRing \in Seq(Nat) BY <1>4, RingsInUse
  <1>6. PICK x : x = worker.todo[1].slot OBVIOUS
  <1>7. PICK q : q = ReadyRing OBVIOUS
  <1>8. /\ \A p \in 1..Len(q) : q[p] \in 0..(n - 1)
        /\ \A p, o \in 1..Len(q) : q[p] = q[o] => p = o
    BY <1>5, <1>7 DEF LInv, ReadyApart
  <1>9. x \in 0..(n - 1) /\ ~Has(q, x) /\ q \in Seq(Nat) BY <1>2, <1>3, <1>5, <1>6, <1>7
  <1>10. Len(q) < n BY ONLY <1>4, <1>8, <1>9, LeavesRoom
  <1>11. CanPush(Ready(seg)) BY <1>5, <1>7, <1>10, RoomIs DEF ReadyRing
  <1> QED BY <1>4, <1>7, <1>10, <1>11

LEMMA ReleaseFits ==
    ASSUME SInv, LInv, main.at \in Recycling
    PROVE  CanPush(Free(seg)) /\ Len(FreeRing) < Slots[seg] /\ main.slot \in Slot(seg)
  <1>1. free_slots \in Seq(Slot(seg)) /\ Len(free_slots) \in Nat BY DEF SInv, Types, HandleType
  <1>2. main.slot \in Slot(seg)
    <2>1. Len(free_slots) > 0 /\ free_slots[Len(free_slots)] = main.slot BY DEF LInv, HalfWay
    <2>2. Len(free_slots) \in 1..Len(free_slots) BY <1>1, <2>1
    <2> QED BY <1>1, <2>1, <2>2, ElementOfSeq
  <1>3. ~Has(FreeRing, main.slot) BY DEF LInv, FreeApart, Recycling
  <1>4. PICK n \in Nat : n = Slots[seg] BY RingsInUse
  <1>5. Slot(seg) = 0..(n - 1) /\ Free(seg) \in RingType(n) /\ FreeRing \in Seq(Nat) BY <1>4, RingsInUse
  <1>6. PICK x : x = main.slot OBVIOUS
  <1>7. PICK q : q = FreeRing OBVIOUS
  <1>8. /\ \A p \in 1..Len(q) : q[p] \in 0..(n - 1)
        /\ \A p, o \in 1..Len(q) : q[p] = q[o] => p = o
    BY <1>5, <1>7 DEF LInv, FreeApart
  <1>9. x \in 0..(n - 1) /\ ~Has(q, x) /\ q \in Seq(Nat) BY <1>2, <1>3, <1>5, <1>6, <1>7
  <1>10. Len(q) < n BY ONLY <1>4, <1>8, <1>9, LeavesRoom
  <1>11. CanPush(Free(seg)) BY <1>5, <1>7, <1>10, RoomIs DEF FreeRing
  <1> QED BY <1>2, <1>4, <1>7, <1>10, <1>11

\* The lists are in lockstep wherever the invariant holds.
LEMMA LockstepHolds == SInv /\ LInv => InLockstep
  <1> SUFFICES ASSUME SInv, LInv PROVE InLockstep OBVIOUS
  <1>1. worker.at = "acquire" => CanPop(Free(worker.seg)) /\ PopCell(Free(worker.seg)) = Current.slot BY AcquireFinds
  <1>2. worker.at = "publish" => CanPush(Ready(worker.seg))
    <2> SUFFICES ASSUME worker.at = "publish" PROVE CanPush(Ready(worker.seg)) OBVIOUS
    <2>1. worker.todo # <<>> BY DEF SInv, Shape, Busy
    <2>2. worker.seg = seg BY <2>1, InHandIsOut
    <2>3. CanPush(Ready(seg)) BY PublishFits
    <2> QED BY <2>2, <2>3
  <1>3. main.at = "consume" => CanPop(Ready(seg)) /\ PopCell(Ready(seg)) = main.slot BY ConsumeFinds DEF Draining
  <1>4. main.at = "release" => CanPush(Free(seg)) BY ReleaseFits DEF Recycling
  <1> QED BY <1>1, <1>2, <1>3, <1>4 DEF InLockstep

--------------------------------------------------------------------------------
(* Steps that move no slot between the rings *)

LEMMA RingsSame ==
    ASSUME UNCHANGED <<shm, seg>>, LInv
    PROVE  FreeRing' = FreeRing /\ ReadyRing' = ReadyRing /\ Free(seg)' = Free(seg) /\ Ready(seg)' = Ready(seg) /\ Unused'
  BY DEF FreeRing, ReadyRing, Free, Ready, LInv, Unused

\* Cancel, Consume and Crash leave everything but the places of the two sides alone.
LEMMA PlaceStep ==
    ASSUME SInv, LInv, UNCHANGED <<shm, handleVars, pipeVars>>, main'.slot = main.slot,
           main'.at = main.at \/ (main.at = "consume" /\ main'.at = "consumed"),
           worker'.todo = worker.todo, worker'.got = worker.got, worker'.at = worker.at \/ worker'.at = "dead"
    PROVE  LInv'
  <1>1. FreeRing' = FreeRing /\ ReadyRing' = ReadyRing /\ Free(seg)' = Free(seg) /\ Ready(seg)' = Ready(seg) /\ Unused'
    BY RingsSame DEF handleVars
  <1>2. FreeApart' BY <1>1 DEF LInv, FreeApart, Taken, Has, handleVars, pipeVars
  <1>3. ReadyApart' BY <1>1 DEF LInv, ReadyApart, Taken, Has, Recycling, handleVars, pipeVars
  <1>4. HalfWay' BY <1>1 DEF LInv, HalfWay, Recycling, handleVars
  <1>5. FreeOrder'
    <2>1. Mirrored' = Mirrored BY DEF Mirrored, Recycling, handleVars
    <2> QED BY <1>1, <2>1, FreeOrderSame DEF LInv, handleVars, pipeVars
  <1>6. ReadyOrder' BY <1>1, ReadyOrderSame DEF LInv, Draining, pipeVars
  <1> QED BY <1>1, <1>2, <1>3, <1>4, <1>5, <1>6 DEF LInv

LEMMA CancelLockstep ==
    ASSUME SInv, LInv, NEW t \in Ticket, Cancel(t)
    PROVE  LInv'
  BY PlaceStep DEF Cancel

LEMMA ConsumeLockstep ==
    ASSUME SInv, LInv, Consume
    PROVE  LInv'
  <1>1. CanPop(Ready(seg)) BY ConsumeFinds DEF Consume, Draining
  <1>2. main \in [at : MainAt, ticket : Ticket \cup {None}, slot : Nat] BY DEF SInv, Types, HandleType
  <1>3. main.at = "consume" /\ main'.at = "consumed" /\ main'.slot = main.slot BY <1>1, <1>2 DEF Consume
  <1> QED BY <1>3, PlaceStep DEF Consume

LEMMA CrashLockstep ==
    ASSUME SInv, LInv, Crash
    PROVE  LInv'
  <1>1. worker \in [at : WorkerAt, seg : 0..(1 + MaxFresh), todo : Seq(SpecType), got : Nat] BY DEF SInv, Types, WorkerType
  <1>2. worker'.at = "dead" /\ worker'.todo = worker.todo /\ worker'.got = worker.got BY <1>1 DEF Crash
  <1> QED BY <1>2, PlaceStep DEF Crash

--------------------------------------------------------------------------------
(* The ring operations *)

\* A step on a ring of the segment in use changes no other.
LEMMA FreeRingStep ==
    ASSUME SInv, LInv, NEW r \in RingType(Slots[seg]), shm' = [shm EXCEPT ![seg].free = r], seg' = seg
    PROVE  Unused' /\ Free(seg)' = r /\ Ready(seg)' = Ready(seg) /\ ReadyRing' = ReadyRing /\ FreeRing' = Contents(r)
  <1>1. ShmType /\ seg \in Segment BY DEF SInv, Types, HandleType
  <1>2. /\ Free(seg)' = r
        /\ \A u \in Segment : Ready(u)' = Ready(u) /\ (u # seg => shm'[u] = shm[u])
    BY <1>1, FreeStep
  <1>3. Unused' BY <1>1, <1>2 DEF LInv, Unused, Segment
  <1>4. Ready(seg)' = Ready(seg) BY <1>1, <1>2 DEF Ready
  <1>5. Free(seg)' = r BY <1>2
  <1> QED BY <1>3, <1>4, <1>5 DEF FreeRing, ReadyRing

LEMMA ReadyRingStep ==
    ASSUME SInv, LInv, NEW r \in RingType(Slots[seg]), shm' = [shm EXCEPT ![seg].ready = r], seg' = seg
    PROVE  Unused' /\ Ready(seg)' = r /\ Free(seg)' = Free(seg) /\ FreeRing' = FreeRing /\ ReadyRing' = Contents(r)
  <1>1. ShmType /\ seg \in Segment BY DEF SInv, Types, HandleType
  <1>2. /\ Ready(seg)' = r
        /\ \A u \in Segment : Free(u)' = Free(u) /\ (u # seg => shm'[u] = shm[u])
    BY <1>1, ReadyStep
  <1>3. Unused' BY <1>1, <1>2 DEF LInv, Unused, Segment
  <1>4. Free(seg)' = Free(seg) BY <1>1, <1>2 DEF Free
  <1>5. Ready(seg)' = r BY <1>2
  <1> QED BY <1>3, <1>4, <1>5 DEF FreeRing, ReadyRing

\* The dispatcher pops the ready ring.
LEMMA ConsumedLockstep ==
    ASSUME SInv, LInv, Consumed
    PROVE  LInv'
  <1> PICK q : q = ReadyRing OBVIOUS
  <1> PICK p : p = ReadyRing' OBVIOUS
  <1>0. main.at = "consumed" /\ UNCHANGED <<handleVars, ticket, refs, pipeVars, worker, fresh>> BY DEF Consumed
  <1>1. main'.at = "deliver" /\ main'.slot = main.slot
    <2>1. main \in [at : MainAt, ticket : Ticket \cup {None}, slot : Nat] BY DEF SInv, Types, HandleType
    <2> QED BY <2>1 DEF Consumed
  <1>2. seg' = seg /\ Slots[seg] \in Nat /\ Ready(seg) \in RingType(Slots[seg]) BY <1>0, RingsInUse DEF handleVars
  <1>3. Len(q) > 0 BY <1>0, ConsumeFinds DEF Draining
  <1>4. PICK r : r = PopTail(Ready(seg)) OBVIOUS
  <1>5. r \in RingType(Slots[seg])
    <2>1. 0 \in Nat OBVIOUS
    <2> QED BY <1>2, <1>4, <2>1, RingSteps
  <1>6. Unused' /\ Ready(seg)' = r /\ Free(seg)' = Free(seg) /\ FreeRing' = FreeRing /\ p = Contents(r)
    <2>1. shm' = [shm EXCEPT ![seg].ready = r] BY <1>4 DEF Consumed, Ready
    <2> QED BY <1>2, <1>5, <2>1, ReadyRingStep
  <1>7. /\ p \in Seq(Nat) /\ Len(q) \in Nat /\ Len(p) = Len(q) - 1
        /\ \A k \in 1..Len(p) : p[k] = q[k + 1]
        /\ r.head = Ready(seg).head /\ r.cell = Ready(seg).cell
    BY <1>2, <1>3, <1>4, <1>6, PopIs DEF ReadyRing
  <1>8. PICK g : ReadyCounts(g) BY DEF LInv, ReadyOrder
  <1>9. q[1] = main.slot BY <1>0, <1>8 DEF ReadyCounts, Draining
  <1>10. \A k \in 1..Len(p) : \E o \in 1..Len(q) : o = k + 1 /\ p[k] = q[o]
    <2> TAKE k \in 1..Len(p)
    <2>1. k + 1 \in 1..Len(q) BY <1>7
    <2> QED BY <1>7, <2>1
  <1>11. \A s : Has(p, s) => Has(q, s) BY <1>10 DEF Has
  <1>12. FreeApart' BY <1>0, <1>1, <1>6 DEF LInv, FreeApart, Has, handleVars, pipeVars
  <1>13. ReadyApart'
    <2>1. \A k \in 1..Len(q) : q[k] \in Slot(seg) /\ q[k] \notin held /\ ~Has(FreeRing, q[k]) BY DEF LInv, ReadyApart
    <2>2. \A k, o \in 1..Len(q) : q[k] = q[o] => k = o BY DEF LInv, ReadyApart
    <2>3. \A k \in 1..Len(p) : p[k] \in Slot(seg) /\ p[k] \notin held /\ ~Has(FreeRing, p[k]) BY <1>10, <2>1
    <2>4. \A k, o \in 1..Len(p) : p[k] = p[o] => k = o BY <1>7, <1>10, <2>2
    <2>5. ~Has(p, main.slot)
      <3> SUFFICES ASSUME NEW k \in 1..Len(p), p[k] = main.slot PROVE FALSE BY DEF Has
      <3>1. PICK o \in 1..Len(q) : o = k + 1 /\ p[k] = q[o] BY <1>10
      <3>2. 1 \in 1..Len(q) BY <1>7
      <3>3. o = 1 BY <1>9, <2>2, <3>1, <3>2
      <3> QED BY <1>7, <3>1, <3>3
    <2>6. \A j \in 1..Len(replies) : replies[j].type = "frame_failed" => ~Has(p, outstanding[replies[j].ticket])
      BY <1>11 DEF LInv, ReadyApart
    <2>7. worker.at \in Taken \ {"ready"} => ~Has(p, worker.todo[1].slot) BY <1>11 DEF LInv, ReadyApart
    <2> QED BY <1>0, <1>1, <1>6, <2>3, <2>4, <2>5, <2>6, <2>7 DEF ReadyApart, Has, handleVars, pipeVars
  <1>14. HalfWay' BY <1>0, <1>1, <1>6, <1>7 DEF LInv, HalfWay, Recycling, handleVars
  <1>15. FreeOrder'
    <2>1. Mirrored' = Mirrored BY <1>0, <1>1 DEF Mirrored, Recycling, handleVars
    <2> QED BY <1>0, <1>6, <2>1, FreeOrderSame DEF LInv, handleVars, pipeVars
  <1>16. ReadyOrder'
    <2> PICK n \in Nat : n = Len(replies) BY DEF SInv, Types, PipeType
    <2> DEFINE d == [j \in 0..n |-> g[j] - 1]
    <2>1. g \in [0..n -> 0..Len(q)] /\ g[0] = 1 BY <1>0, <1>8 DEF ReadyCounts, Draining
    <2>2. \A j \in 1..n : g[j] = g[j - 1] + (IF replies[j].type = "frame_ready" THEN 1 ELSE 0) BY <1>8 DEF ReadyCounts
    <2>3. \A j \in 0..n : g[j] >= 1 /\ g[j] \in Nat /\ g[j] <= Len(q)
      <3> TAKE j \in 0..n
      <3>1. g[0] <= g[j] BY <1>8 DEF ReadyCounts, Rising
      <3> QED BY <2>1, <3>1, <1>7
    <2>4. /\ d \in [0..n -> 0..Len(p)] /\ d[0] = 0 /\ Rising(d, n)
          /\ \A j \in 0..n : d[j] = g[j] - 1
      <3>1. \A j \in 0..n : g[j] - 1 \in 0..Len(p) BY <1>7, <2>3
      <3>2. \A k, l \in 0..n : k <= l => g[k] <= g[l] BY <1>8 DEF ReadyCounts, Rising
      <3>3. \A k, l \in 0..n : k <= l => g[k] - 1 <= g[l] - 1 BY <2>3, <3>2
      <3> QED BY <2>1, <3>1, <3>3 DEF Rising
    <2> HIDE DEF d
    <2>5. \A j \in 1..n : j - 1 \in 0..n /\ j \in 0..n OBVIOUS
    <2>6. \A j \in 1..n : d[j] = d[j - 1] + (IF replies[j].type = "frame_ready" THEN 1 ELSE 0)
      <3> TAKE j \in 1..n
      <3>1. d[j] = g[j] - 1 /\ d[j - 1] = g[j - 1] - 1 /\ g[j - 1] \in Nat BY <2>3, <2>4, <2>5
      <3>2. CASE replies[j].type = "frame_ready" BY <2>2, <3>1, <3>2
      <3>3. CASE replies[j].type # "frame_ready" BY <2>2, <3>1, <3>3
      <3> QED BY <3>2, <3>3
    <2>7. \A j \in 1..n : replies[j].type = "frame_ready" => p[d[j]] = replies[j].slot
      <3> SUFFICES ASSUME NEW j \in 1..n, replies[j].type = "frame_ready" PROVE p[d[j]] = replies[j].slot OBVIOUS
      <3>1. q[g[j]] = replies[j].slot BY <1>8 DEF ReadyCounts
      <3>2. PICK k : k = d[j] OBVIOUS
      <3>3. k \in 1..Len(p) /\ g[j] = k + 1
        <4>1. g[j] = g[j - 1] + 1 /\ g[j - 1] >= 1 /\ g[j - 1] \in Nat BY <2>2, <2>3, <2>5
        <4>2. d[j] = g[j] - 1 /\ g[j] \in Nat /\ g[j] <= Len(q) BY <2>3, <2>4, <2>5
        <4> QED BY <1>7, <3>2, <4>1, <4>2
      <3> QED BY <1>7, <3>1, <3>2, <3>3
    <2>8. worker.at # "dead" => Len(p) = d[n] + (IF worker.at = "ready" THEN 1 ELSE 0)
      <3> SUFFICES ASSUME worker.at # "dead" PROVE Len(p) = d[n] + (IF worker.at = "ready" THEN 1 ELSE 0) OBVIOUS
      <3>1. Len(q) = g[n] + (IF worker.at = "ready" THEN 1 ELSE 0) BY <1>8 DEF ReadyCounts
      <3>2. n \in 0..n OBVIOUS
      <3> QED BY <1>7, <2>3, <2>4, <3>1, <3>2
    <2>9. worker.at = "ready" => p[Len(p)] = worker.got
      <3> SUFFICES ASSUME worker.at = "ready" PROVE p[Len(p)] = worker.got OBVIOUS
      <3>1. q[Len(q)] = worker.got BY <1>8 DEF ReadyCounts
      <3>2. n \in 0..n OBVIOUS
      <3>3. Len(p) \in 1..Len(p) /\ Len(p) + 1 = Len(q) BY <1>7, <2>3, <2>4, <2>8, <3>2
      <3> QED BY <1>7, <3>1, <3>3
    <2>10. UNCHANGED <<replies, worker>> /\ main'.at \notin Draining BY <1>0, <1>1 DEF pipeVars, Draining
    <2>11. ReadyCounts(d)' BY <2>4, <2>6, <2>7, <2>8, <2>9, <2>10 DEF ReadyCounts, Rising
    <2> QED BY <2>11 DEF ReadyOrder
  <1> QED BY <1>6, <1>12, <1>13, <1>14, <1>15, <1>16 DEF LInv

\* The places the cuts point at are places of the ring.
Within(c) ==
    /\ \A k \in 0..(Len(inbox) + 1) : c[k] \in Int /\ c[k] <= Len(FreeRing)
    /\ \A k \in 1..(Len(inbox) + 1) : c[k] >= c[1] /\ c[k] >= 0
    /\ \A i \in 1..Len(worker.todo) : c[0] + i > 0 => c[0] + i \in 1..Len(FreeRing)
    /\ \A k \in 1..Len(inbox) : Len(inbox[k].specs) \in Nat
    /\ \A k \in 1..Len(inbox) : \A i \in 1..Len(inbox[k].specs) : c[k] + i \in 1..Len(FreeRing)
    /\ \A i \in 1..Mirrored : c[Len(inbox) + 1] + i \in 1..Len(FreeRing)

LEMMA MirroredIs ==
    ASSUME SInv
    PROVE  Mirrored \in Int
  <1>1. PICK m \in Nat : m = Len(free_slots) BY DEF SInv, Types, HandleType
  <1>2. CASE main.at \in Recycling
    <2>1. Mirrored = m - 1 BY <1>1, <1>2 DEF Mirrored
    <2> QED BY <1>1, <2>1
  <1>3. CASE main.at \notin Recycling
    <2>1. Mirrored = m - 0 BY <1>1, <1>3 DEF Mirrored
    <2> QED BY <1>1, <2>1
  <1> QED BY <1>2, <1>3

LEMMA CutsWithin ==
    ASSUME SInv, NEW c, FreeCuts(c)
    PROVE  Within(c) /\ Len(inbox) \in Nat /\ Len(worker.todo) \in Nat
  <1>1. PICK n \in Nat : n = Len(inbox) BY DEF SInv, Types, PipeType
  <1>2. PICK l \in Nat : l = Len(FreeRing) BY RingsInUse
  <1>3. PICK w \in Nat : w = Len(worker.todo) BY DEF SInv, Types, WorkerType
  <1>4. c \in [0..(n + 1) -> -1..l] BY <1>1, <1>2 DEF FreeCuts
  <1>5. \A k \in 0..(n + 1) : c[k] \in Int /\ c[k] <= l BY <1>4
  <1>6. 0 \in 0..(n + 1) /\ 1 \in 0..(n + 1) /\ n + 1 \in 0..(n + 1) BY <1>1
  <1>7. c[1] = c[0] + w BY <1>3 DEF FreeCuts
  <1>8. c[1] >= 0
    <2>1. worker.at \in Taken => worker.todo # <<>> BY DEF SInv, Shape, Busy, Taken
    <2>2. worker.at \in Taken => w > 0 BY <1>3, <2>1, InHandIsOut
    <2>3. c[0] = (IF worker.at \in Taken THEN -1 ELSE 0) BY DEF FreeCuts
    <2> QED BY <1>7, <2>2, <2>3
  <1>9. \A k \in 1..(n + 1) : c[k] >= c[1] /\ c[k] >= 0
    <2> TAKE k \in 1..(n + 1)
    <2>1. k \in 0..(n + 1) /\ 1 <= k OBVIOUS
    <2>2. c[1] <= c[k] BY <1>1, <1>6, <2>1 DEF FreeCuts, Rising
    <2>3. c[1] \in Int /\ c[k] \in Int BY <1>5, <1>6, <2>1
    <2> QED BY <1>8, <2>2, <2>3
  <1>10. \A i \in 1..w : c[0] + i > 0 => c[0] + i \in 1..l BY <1>5, <1>6, <1>7
  <1>11. \A k \in 1..n : Len(inbox[k].specs) \in Nat
    <2> TAKE k \in 1..n
    <2>1. inbox[k] \in MsgType BY <1>1, ElementOfSeq DEF SInv, Types, PipeType
    <2> QED BY <2>1 DEF MsgType
  <1>12. \A k \in 1..n : \A i \in 1..Len(inbox[k].specs) : c[k] + i \in 1..l
    <2> SUFFICES ASSUME NEW k \in 1..n, NEW i \in 1..Len(inbox[k].specs) PROVE c[k] + i \in 1..l OBVIOUS
    <2>1. c[k + 1] = c[k] + Len(inbox[k].specs) BY <1>1 DEF FreeCuts
    <2>2. k + 1 \in 0..(n + 1) /\ k \in 0..(n + 1) /\ k \in 1..(n + 1) OBVIOUS
    <2>3. PICK a \in Int : a = c[k] BY <1>5, <2>2
    <2>4. PICK z \in Nat : z = Len(inbox[k].specs) BY <1>11
    <2>5. a + z <= l /\ a >= 0 BY <1>5, <1>9, <2>1, <2>2, <2>3, <2>4
    <2>6. i \in 1..z BY <2>4
    <2>7. a + i \in 1..l BY <1>2, <2>3, <2>4, <2>5, <2>6
    <2> QED BY <2>3, <2>7
  <1>13. \A i \in 1..Mirrored : c[n + 1] + i \in 1..l
    <2>1. l = c[n + 1] + Mirrored BY <1>1, <1>2 DEF FreeCuts
    <2>2. PICK a \in Int : a = c[n + 1] BY <1>5, <1>6
    <2>3. a >= 0 BY <1>1, <1>9, <2>2
    <2>4. PICK z \in Int : z = Mirrored BY MirroredIs
    <2> QED BY <1>2, <2>1, <2>2, <2>3, <2>4
  <1> QED BY <1>1, <1>2, <1>3, <1>5, <1>9, <1>10, <1>11, <1>12, <1>13 DEF Within

\* The dispatcher writes the cell of a slot it gives back.
LEMMA ReleaseLockstep ==
    ASSUME SInv, LInv, Release
    PROVE  LInv'
  <1>0. main.at = "release" /\ UNCHANGED <<handleVars, ticket, refs, pipeVars, worker, fresh>> BY DEF Release
  <1>1. CanPush(Free(seg)) BY <1>0, ReleaseFits DEF Recycling
  <1>2. main \in [at : MainAt, ticket : Ticket \cup {None}, slot : Nat] BY DEF SInv, Types, HandleType
  <1>3. main'.at = "released" /\ main'.slot = main.slot /\ main.slot \in Nat BY <1>1, <1>2 DEF Release
  <1>4. seg' = seg /\ Slots[seg] \in Nat /\ Free(seg) \in RingType(Slots[seg]) BY <1>0, RingsInUse DEF handleVars
  <1>5. PICK r : r = PushCell(Free(seg), main.slot) OBVIOUS
  <1>6. r \in RingType(Slots[seg]) BY <1>3, <1>4, <1>5, RingSteps
  <1>7. Unused' /\ Free(seg)' = r /\ Ready(seg)' = Ready(seg) /\ ReadyRing' = ReadyRing /\ FreeRing' = Contents(r)
    <2>1. shm' = [shm EXCEPT ![seg].free = r] BY <1>1, <1>5 DEF Release, Free
    <2> QED BY <1>4, <1>6, <2>1, FreeRingStep
  <1>8. Contents(r) = FreeRing /\ r.head = Free(seg).head /\ r.cell[r.head] = main.slot
    BY <1>3, <1>4, <1>5, PushCellIs DEF FreeRing
  <1>9. FreeRing' = FreeRing BY <1>7, <1>8
  <1>10. FreeApart' BY <1>0, <1>3, <1>9 DEF LInv, FreeApart, Has, handleVars, pipeVars
  <1>11. ReadyApart' BY <1>0, <1>3, <1>7, <1>9 DEF LInv, ReadyApart, Has, Recycling, handleVars, pipeVars
  <1>12. HalfWay' BY <1>0, <1>3, <1>7, <1>8 DEF LInv, HalfWay, Recycling, handleVars
  <1>13. FreeOrder'
    <2>1. Mirrored' = Mirrored BY <1>0, <1>3 DEF Mirrored, Recycling, handleVars
    <2> QED BY <1>0, <1>9, <2>1, FreeOrderSame DEF LInv, handleVars, pipeVars
  <1>14. ReadyOrder' BY <1>0, <1>3, <1>7, ReadyOrderSame DEF LInv, Draining, pipeVars
  <1> QED BY <1>7, <1>10, <1>11, <1>12, <1>13, <1>14 DEF LInv

\* The dispatcher stores its cursor: the slot is the last of the free ring.
LEMMA ReleasedLockstep ==
    ASSUME SInv, LInv, Released
    PROVE  LInv'
  <1> PICK q : q = FreeRing OBVIOUS
  <1> PICK p : p = FreeRing' OBVIOUS
  <1> PICK x : x = main.slot OBVIOUS
  <1>0. main.at = "released" /\ UNCHANGED <<handleVars, ticket, refs, pipeVars, worker, fresh>> /\ main' = Idle BY DEF Released
  <1>1. main'.at = "idle" BY <1>0 DEF Idle
  <1>2. seg' = seg /\ Slots[seg] \in Nat /\ Free(seg) \in RingType(Slots[seg]) BY <1>0, RingsInUse DEF handleVars
  <1>3. Len(q) < Slots[seg] /\ x \in Slot(seg) BY <1>0, ReleaseFits DEF Recycling
  <1>4. PICK r : r = PushHead(Free(seg)) OBVIOUS
  <1>5. r \in RingType(Slots[seg])
    <2>1. 0 \in Nat OBVIOUS
    <2> QED BY <1>2, <1>4, <2>1, RingSteps
  <1>6. Unused' /\ Free(seg)' = r /\ Ready(seg)' = Ready(seg) /\ ReadyRing' = ReadyRing /\ p = Contents(r)
    <2>1. shm' = [shm EXCEPT ![seg].free = r] BY <1>4 DEF Released, Free
    <2> QED BY <1>2, <1>5, <2>1, FreeRingStep
  <1>7. /\ p \in Seq(Nat) /\ Len(q) \in Nat /\ Len(p) = Len(q) + 1
        /\ \A k \in 1..Len(q) : p[k] = q[k]
        /\ p[Len(p)] = Free(seg).cell[Free(seg).head]
    BY <1>2, <1>3, <1>4, <1>6, PushHeadIs DEF FreeRing
  <1>8. p[Len(q) + 1] = x BY <1>0, <1>7 DEF LInv, HalfWay
  <1>9. \A k \in 1..Len(p) : (k \in 1..Len(q) /\ p[k] = q[k]) \/ (k = Len(q) + 1 /\ p[k] = x) BY <1>7, <1>8
  <1>10. \A s : Has(p, s) => Has(q, s) \/ s = x BY <1>9 DEF Has
  <1>11. /\ Len(free_slots) \in Nat /\ Len(free_slots) > 0 /\ free_slots[Len(free_slots)] = x
         /\ Len(free_slots) \in 1..Len(free_slots)
    <2>1. Len(free_slots) \in Nat BY DEF SInv, Types, HandleType
    <2>2. Len(free_slots) > 0 /\ free_slots[Len(free_slots)] = x BY <1>0 DEF LInv, HalfWay, Recycling
    <2> QED BY <2>1, <2>2
  <1>12. /\ x \notin held /\ \A t \in DOMAIN outstanding : outstanding[t] # x
         /\ ~Has(q, x)
    BY <1>0, <1>11 DEF SInv, Apart, LInv, FreeApart
  <1>13. \A j \in 1..Len(replies) : IsFrame(replies[j]) => outstanding[replies[j].ticket] # x
    BY <1>12 DEF SInv, Agree
  <1>14. worker.at \in Taken => worker.todo[1].slot # x
    <2> SUFFICES ASSUME worker.at \in Taken PROVE worker.todo[1].slot # x OBVIOUS
    <2>1. worker.todo # <<>> BY DEF SInv, Shape, Busy, Taken
    <2>2. Agrees(worker.todo[1]) BY <2>1, InHandIsOut
    <2> QED BY <1>12, <2>2 DEF Agrees
  <1>15. FreeApart'
    <2>1. \A k \in 1..Len(p) : p[k] \in Slot(seg) /\ p[k] \notin held BY <1>3, <1>9, <1>12 DEF LInv, FreeApart
    <2>2. \A k, o \in 1..Len(p) : p[k] = p[o] => k = o
      <3>1. \A k, o \in 1..Len(q) : q[k] = q[o] => k = o BY DEF LInv, FreeApart
      <3>2. \A k \in 1..Len(q) : q[k] # x BY <1>12 DEF Has
      <3> QED BY <1>9, <3>1, <3>2
    <2>3. \A j \in 1..Len(replies) : IsFrame(replies[j]) => ~Has(p, outstanding[replies[j].ticket])
      BY <1>10, <1>13 DEF LInv, FreeApart
    <2>4. worker.at \in Taken => ~Has(p, worker.todo[1].slot) BY <1>10, <1>14 DEF LInv, FreeApart
    <2> QED BY <1>0, <1>1, <2>1, <2>2, <2>3, <2>4 DEF FreeApart, Has, handleVars, pipeVars
  <1>16. ReadyApart'
    <2>1. ~Has(ReadyRing, x) BY <1>0 DEF LInv, ReadyApart, Recycling
    <2>2. \A k \in 1..Len(ReadyRing) : ReadyRing[k] # x BY <2>1 DEF Has
    <2>3. \A k \in 1..Len(ReadyRing) : ~Has(p, ReadyRing[k])
      BY <1>10, <2>2 DEF LInv, ReadyApart
    <2>4. /\ \A k \in 1..Len(ReadyRing) : ReadyRing[k] \in Slot(seg) /\ ReadyRing[k] \notin held
          /\ \A k, o \in 1..Len(ReadyRing) : ReadyRing[k] = ReadyRing[o] => k = o
          /\ \A j \in 1..Len(replies) : replies[j].type = "frame_failed" => ~Has(ReadyRing, outstanding[replies[j].ticket])
          /\ worker.at \in Taken \ {"ready"} => ~Has(ReadyRing, worker.todo[1].slot)
      BY DEF LInv, ReadyApart
    <2> QED BY <1>0, <1>1, <1>6, <2>3, <2>4 DEF ReadyApart, Has, Recycling, handleVars, pipeVars
  <1>17. HalfWay' BY <1>0, <1>1, <1>6 DEF LInv, HalfWay, Recycling, handleVars
  <1>18. FreeOrder'
    <2> SUFFICES ASSUME worker'.at # "dead" PROVE \E c : FreeCuts(c)' BY DEF FreeOrder
    <2>0. UNCHANGED <<worker, inbox, free_slots>> BY <1>0 DEF handleVars, pipeVars
    <2>1. PICK c : FreeCuts(c) BY <2>0 DEF LInv, FreeOrder
    <2>2. PICK n \in Nat : n = Len(inbox) BY DEF SInv, Types, PipeType
    <2>3. PICK m \in Nat : m + 1 = Len(free_slots) BY <1>11
    <2>4. Mirrored = m /\ Mirrored' = m + 1 BY <1>0, <1>1, <2>0, <2>3 DEF Mirrored, Recycling
    <2>5. c \in [0..(n + 1) -> -1..Len(q)] /\ Rising(c, n + 1) BY <2>1, <2>2 DEF FreeCuts
    <2>6. c \in [0..(n + 1) -> -1..Len(p)] BY <1>7, <2>5
    <2>7. Len(q) = c[n + 1] + m /\ \A i \in 1..m : q[c[n + 1] + i] = free_slots[i] BY <2>1, <2>2, <2>4 DEF FreeCuts
    <2>8. Within(c) BY <2>1, CutsWithin
    <2>9. \A i \in 1..Len(worker.todo) : c[0] + i > 0 => p[c[0] + i] = worker.todo[i].slot
      BY <1>7, <2>1, <2>8 DEF FreeCuts, Within
    <2>10. \A k \in 1..n : \A i \in 1..Len(inbox[k].specs) : p[c[k] + i] = inbox[k].specs[i].slot
      BY <1>7, <2>1, <2>2, <2>8 DEF FreeCuts, Within
    <2>11. PICK a \in Int : a = c[n + 1]
      <3>1. n + 1 \in 0..(n + 1) OBVIOUS
      <3> QED BY <2>2, <2>8, <3>1 DEF Within
    <2>12. Len(p) = a + (m + 1)
      <3>1. Len(q) = a + m /\ Len(p) = Len(q) + 1 /\ a \in Int /\ m \in Nat BY <1>7, <2>3, <2>7, <2>11
      <3> QED BY ONLY <3>1
    <2>13. \A i \in 1..(m + 1) : p[a + i] = free_slots[i]
      <3> TAKE i \in 1..(m + 1)
      <3>1. CASE i = m + 1
        <4>1. a + i = Len(q) + 1 BY <2>7, <2>11, <3>1
        <4> QED BY <1>8, <1>11, <2>3, <3>1, <4>1
      <3>2. CASE i # m + 1
        <4>1. i \in 1..m BY <3>2
        <4>2. a + i \in 1..Len(q) BY <2>2, <2>4, <2>8, <2>11, <4>1 DEF Within
        <4> QED BY <1>7, <2>7, <2>11, <4>1, <4>2
      <3> QED BY <3>1, <3>2
    <2>14. /\ c[0] = (IF worker.at \in Taken THEN -1 ELSE 0) /\ c[1] = c[0] + Len(worker.todo)
           /\ \A k \in 1..n : c[k + 1] = c[k] + Len(inbox[k].specs)
      BY <2>1, <2>2 DEF FreeCuts
    <2>15. FreeCuts(c)' BY <2>0, <2>2, <2>4, <2>5, <2>6, <2>9, <2>10, <2>11, <2>12, <2>13, <2>14 DEF FreeCuts, Rising
    <2> QED BY <2>15
  <1>19. ReadyOrder' BY <1>0, <1>1, <1>6, ReadyOrderSame DEF LInv, Draining, pipeVars
  <1> QED BY <1>6, <1>15, <1>16, <1>17, <1>18, <1>19 DEF LInv

\* The worker reads the head of the free ring: the slot of the ticket in hand.
LEMMA AcquireLockstep ==
    ASSUME SInv, LInv, Acquire
    PROVE  LInv'
  <1>0. worker.at = "acquire" /\ UNCHANGED <<shm, handleVars, main, ticket, refs, pipeVars, fresh>> BY DEF Acquire
  <1>1. worker \in [at : WorkerAt, seg : 0..(1 + MaxFresh), todo : Seq(SpecType), got : Nat] BY DEF SInv, Types, WorkerType
  <1>2. worker'.at = "acquired" /\ worker'.todo = worker.todo /\ worker'.got = PopCell(Free(worker.seg))
    BY <1>1 DEF Acquire
  <1>3. worker'.got = worker'.todo[1].slot
    <2>1. worker.todo # <<>> BY <1>0 DEF SInv, Shape, Busy
    <2>2. Current = worker.todo[1] BY <2>1, InHandIsOut
    <2> QED BY <1>0, <1>2, <2>2, AcquireFinds
  <1>4. FreeRing' = FreeRing /\ ReadyRing' = ReadyRing /\ Free(seg)' = Free(seg) /\ Ready(seg)' = Ready(seg) /\ Unused'
    BY <1>0, RingsSame DEF handleVars
  <1>5. FreeApart' BY <1>0, <1>2, <1>4 DEF LInv, FreeApart, Taken, Has, handleVars, pipeVars
  <1>6. ReadyApart' BY <1>0, <1>2, <1>4 DEF LInv, ReadyApart, Taken, Has, handleVars, pipeVars
  <1>7. HalfWay' BY <1>0, <1>2, <1>3, <1>4 DEF LInv, HalfWay, Recycling, handleVars
  <1>8. FreeOrder'
    <2>1. Mirrored' = Mirrored BY <1>0 DEF Mirrored, handleVars
    <2> QED BY <1>0, <1>2, <1>4, <2>1, FreeOrderSame DEF LInv, Taken, handleVars, pipeVars
  <1>9. ReadyOrder' BY <1>0, <1>2, <1>4, ReadyOrderSame DEF LInv, pipeVars
  <1> QED BY <1>4, <1>5, <1>6, <1>7, <1>8, <1>9 DEF LInv

\* The worker takes the slot.
LEMMA AcquiredLockstep ==
    ASSUME SInv, LInv, Acquired
    PROVE  LInv'
  <1> PICK q : q = FreeRing OBVIOUS
  <1> PICK p : p = FreeRing' OBVIOUS
  <1> PICK x : x = worker.todo[1].slot OBVIOUS
  <1>0. worker.at = "acquired" /\ UNCHANGED <<handleVars, main, ticket, refs, pipeVars, fresh>> BY DEF Acquired
  <1>1. worker \in [at : WorkerAt, seg : 0..(1 + MaxFresh), todo : Seq(SpecType), got : Nat] BY DEF SInv, Types, WorkerType
  <1>2. worker.todo # <<>> BY <1>0 DEF SInv, Shape, Busy
  <1>3. worker.seg = seg /\ Current = worker.todo[1] /\ Len(worker.todo) > 0 /\ Len(worker.todo) \in Nat /\ Agrees(worker.todo[1])
    BY <1>2, InHandIsOut, LenProperties
  <1>4. worker.got = x BY <1>0 DEF LInv, HalfWay
  <1>5. worker'.at = "render" /\ worker'.todo = worker.todo /\ worker'.got = worker.got BY <1>1, <1>3, <1>4 DEF Acquired
  <1>6. seg' = seg /\ Slots[seg] \in Nat /\ Free(seg) \in RingType(Slots[seg]) BY <1>0, RingsInUse DEF handleVars
  <1>7. PICK c : FreeCuts(c) BY <1>0 DEF LInv, FreeOrder
  <1>8. Within(c) BY <1>7, CutsWithin
  <1>9. PICK n \in Nat : n = Len(inbox) BY DEF SInv, Types, PipeType
  <1>10. PICK w \in Nat : w = Len(worker.todo) BY <1>3
  <1>11. c[0] = 0 /\ c[1] = w BY <1>0, <1>7, <1>10 DEF FreeCuts, Taken
  <1>12. q[1] = x /\ 1 \in 1..Len(q)
    <2>1. 1 \in 1..Len(worker.todo) /\ c[0] + 1 > 0 /\ c[0] + 1 = 1 BY <1>3, <1>11
    <2> QED BY <1>7, <1>8, <2>1 DEF FreeCuts, Within
  <1>13. Len(q) > 0 /\ Len(q) \in Nat BY <1>12, RingsInUse
  <1>14. PICK r : r = PopTail(Free(seg)) OBVIOUS
  <1>15. r \in RingType(Slots[seg])
    <2>1. 0 \in Nat OBVIOUS
    <2> QED BY <1>6, <1>14, <2>1, RingSteps
  <1>16. Unused' /\ Free(seg)' = r /\ Ready(seg)' = Ready(seg) /\ ReadyRing' = ReadyRing /\ p = Contents(r)
    <2>1. shm' = [shm EXCEPT ![seg].free = r] BY <1>3, <1>14 DEF Acquired, Free
    <2> QED BY <1>6, <1>15, <2>1, FreeRingStep
  <1>17. /\ p \in Seq(Nat) /\ Len(q) \in Nat /\ Len(p) = Len(q) - 1
         /\ \A k \in 1..Len(p) : p[k] = q[k + 1]
         /\ r.head = Free(seg).head /\ r.cell = Free(seg).cell
    BY <1>6, <1>13, <1>14, <1>16, PopIs DEF FreeRing
  <1>18. \A k \in 1..Len(p) : \E o \in 1..Len(q) : o = k + 1 /\ p[k] = q[o]
    <2> TAKE k \in 1..Len(p)
    <2>1. k + 1 \in 1..Len(q) BY <1>17
    <2> QED BY <1>17, <2>1
  <1>19. \A s : Has(p, s) => Has(q, s) BY <1>18 DEF Has
  <1>20. \A k, o \in 1..Len(q) : q[k] = q[o] => k = o BY DEF LInv, FreeApart
  <1>21. ~Has(p, x)
    <2> SUFFICES ASSUME NEW k \in 1..Len(p), p[k] = x PROVE FALSE BY DEF Has
    <2>1. PICK o \in 1..Len(q) : o = k + 1 /\ p[k] = q[o] BY <1>18
    <2>2. o = 1 BY <1>12, <1>20, <2>1
    <2> QED BY <1>17, <2>1, <2>2
  <1>22. FreeApart'
    <2>1. \A k \in 1..Len(q) : q[k] \in Slot(seg) /\ q[k] \notin held BY DEF LInv, FreeApart
    <2>2. \A k \in 1..Len(p) : p[k] \in Slot(seg) /\ p[k] \notin held BY <1>18, <2>1
    <2>3. \A k, o \in 1..Len(p) : p[k] = p[o] => k = o
      <3> SUFFICES ASSUME NEW k \in 1..Len(p), NEW o \in 1..Len(p), p[k] = p[o] PROVE k = o OBVIOUS
      <3>1. PICK a \in 1..Len(q) : a = k + 1 /\ p[k] = q[a] BY <1>18
      <3>2. PICK b \in 1..Len(q) : b = o + 1 /\ p[o] = q[b] BY <1>18
      <3>3. a = b BY <1>20, <3>1, <3>2
      <3> QED BY <1>17, <3>1, <3>2, <3>3
    <2>4. /\ main.at # "idle" => ~Has(p, main.slot)
          /\ \A j \in 1..Len(replies) : IsFrame(replies[j]) => ~Has(p, outstanding[replies[j].ticket])
      BY <1>19 DEF LInv, FreeApart
    <2> QED BY <1>0, <1>5, <1>21, <2>2, <2>3, <2>4 DEF FreeApart, Has, handleVars, pipeVars
  <1>23. ReadyApart'
    <2>1. ~Has(ReadyRing, x)
      <3> SUFFICES ASSUME NEW k \in 1..Len(ReadyRing), ReadyRing[k] = x PROVE FALSE BY DEF Has
      <3>1. ~Has(q, ReadyRing[k]) BY DEF LInv, ReadyApart
      <3> QED BY <1>12, <3>1 DEF Has
    <2>2. /\ \A k \in 1..Len(ReadyRing) : ReadyRing[k] \in Slot(seg) /\ ReadyRing[k] \notin held /\ ~Has(p, ReadyRing[k])
          /\ \A k, o \in 1..Len(ReadyRing) : ReadyRing[k] = ReadyRing[o] => k = o
          /\ main.at \in {"deliver"} \cup Recycling => ~Has(ReadyRing, main.slot)
          /\ \A j \in 1..Len(replies) : replies[j].type = "frame_failed" => ~Has(ReadyRing, outstanding[replies[j].ticket])
      BY <1>19 DEF LInv, ReadyApart
    <2> QED BY <1>0, <1>5, <1>16, <2>1, <2>2 DEF ReadyApart, Has, handleVars, pipeVars
  <1>24. HalfWay' BY <1>0, <1>5, <1>16, <1>17 DEF LInv, HalfWay, Recycling, handleVars
  <1>25. FreeOrder'
    <2> DEFINE d == [k \in 0..(n + 1) |-> c[k] - 1]
    <2>1. \A k \in 0..(n + 1) : c[k] \in Int /\ c[k] >= 0 /\ c[k] <= Len(q)
      <3> TAKE k \in 0..(n + 1)
      <3>1. CASE k = 0 BY <1>11, <1>17, <3>1
      <3>2. CASE k # 0
        <4>1. k \in 1..(n + 1) BY <3>2
        <4> QED BY <1>8, <1>9, <4>1 DEF Within
      <3> QED BY <3>1, <3>2
    <2>2. \A k \in 1..(n + 1) : c[k] >= 1
      <3> TAKE k \in 1..(n + 1)
      <3>1. c[k] >= c[1] /\ c[k] \in Int BY <1>8, <1>9, <2>1 DEF Within
      <3> QED BY <1>3, <1>10, <1>11, <3>1
    <2>3. /\ d \in [0..(n + 1) -> -1..Len(p)] /\ d[0] = -1 /\ Rising(d, n + 1)
          /\ \A k \in 0..(n + 1) : d[k] = c[k] - 1
      <3>1. \A k \in 0..(n + 1) : c[k] - 1 \in -1..Len(p) BY <1>17, <2>1
      <3>2. \A k, l \in 0..(n + 1) : k <= l => c[k] <= c[l] BY <1>7, <1>9 DEF FreeCuts, Rising
      <3>3. \A k, l \in 0..(n + 1) : k <= l => c[k] - 1 <= c[l] - 1 BY <2>1, <3>2
      <3>4. 0 \in 0..(n + 1) OBVIOUS
      <3> QED BY <1>11, <3>1, <3>3, <3>4 DEF Rising
    <2> HIDE DEF d
    <2>4. d[1] = d[0] + w
      <3>1. 1 \in 0..(n + 1) OBVIOUS
      <3> QED BY <1>11, <2>3, <3>1
    <2>5. \A k \in 1..n : d[k + 1] = d[k] + Len(inbox[k].specs)
      <3> TAKE k \in 1..n
      <3>1. k \in 0..(n + 1) /\ k + 1 \in 0..(n + 1) OBVIOUS
      <3>2. c[k + 1] = c[k] + Len(inbox[k].specs) BY <1>7, <1>9 DEF FreeCuts
      <3>3. Len(inbox[k].specs) \in Nat BY <1>8, <1>9 DEF Within
      <3>4. PICK a \in Int : a = c[k] BY <2>1, <3>1
      <3>5. PICK z \in Nat : z = Len(inbox[k].specs) BY <3>3
      <3>6. d[k] = a - 1 /\ d[k + 1] = (a + z) - 1 BY <2>3, <3>1, <3>2, <3>4, <3>5
      <3>7. (a + z) - 1 = (a - 1) + z OBVIOUS
      <3> QED BY <3>5, <3>6, <3>7
    <2>6. \A i \in 1..w : d[0] + i > 0 => p[d[0] + i] = worker.todo[i].slot
      <3> SUFFICES ASSUME NEW i \in 1..w, d[0] + i > 0 PROVE p[d[0] + i] = worker.todo[i].slot OBVIOUS
      <3>1. PICK a : a = d[0] + i OBVIOUS
      <3>2. c[0] + i > 0 /\ c[0] + i = i /\ i \in Nat BY <1>11
      <3>3. q[i] = worker.todo[i].slot /\ i \in 1..Len(q) BY <1>7, <1>8, <1>10, <3>2 DEF FreeCuts, Within
      <3>4. a \in 1..Len(p) /\ a + 1 = i
        <4>1. PICK z \in Nat : z = Len(q) BY <1>17
        <4>2. a = i - 1 /\ a > 0 /\ i \in 1..z /\ Len(p) = z - 1 BY <1>17, <2>3, <3>1, <3>2, <3>3, <4>1
        <4> QED BY ONLY <4>1, <4>2
      <3> QED BY <1>17, <3>1, <3>3, <3>4
    <2>7. \A k \in 1..n : \A i \in 1..Len(inbox[k].specs) : p[d[k] + i] = inbox[k].specs[i].slot
      <3> SUFFICES ASSUME NEW k \in 1..n, NEW i \in 1..Len(inbox[k].specs) PROVE p[d[k] + i] = inbox[k].specs[i].slot
        OBVIOUS
      <3>1. PICK a : a = d[k] + i OBVIOUS
      <3>2. PICK b : b = c[k] + i OBVIOUS
      <3>3. q[b] = inbox[k].specs[i].slot /\ b \in 1..Len(q) BY <1>7, <1>8, <1>9, <3>2 DEF FreeCuts, Within
      <3>4. k \in 0..(n + 1) /\ k \in 1..(n + 1) OBVIOUS
      <3>5. d[k] = c[k] - 1 /\ c[k] \in Int /\ c[k] >= 1 BY <2>1, <2>2, <2>3, <3>4
      <3>6. Len(inbox[k].specs) \in Nat BY <1>8, <1>9 DEF Within
      <3>7. a \in 1..Len(p) /\ a + 1 = b
        <4>1. PICK z \in Nat : z = Len(q) BY <1>17
        <4>2. PICK e \in Int : e = c[k] BY <3>5
        <4>3. i \in Int /\ i >= 1 /\ e \in Int /\ e >= 1 /\ a = (e - 1) + i /\ b = e + i /\ b \in 1..z /\ Len(p) = z - 1
          BY <1>17, <3>1, <3>2, <3>3, <3>5, <3>6, <4>1, <4>2
        <4>4. z \in Nat BY <4>1
        <4> QED BY ONLY <4>3, <4>4
      <3> QED BY <1>17, <3>1, <3>3, <3>7
    <2>8. Len(p) = d[n + 1] + Mirrored /\ \A i \in 1..Mirrored : p[d[n + 1] + i] = free_slots[i]
      <3>1. n + 1 \in 0..(n + 1) /\ n + 1 \in 1..(n + 1) OBVIOUS
      <3>2. PICK e \in Int : e = c[n + 1] /\ e >= 1 /\ d[n + 1] = e - 1 BY <2>1, <2>2, <2>3, <3>1
      <3>3. Len(q) = e + Mirrored BY <1>7, <1>9, <3>2 DEF FreeCuts
      <3>4. PICK m \in Int : m = Mirrored BY MirroredIs
      <3>5. Len(p) = (e - 1) + m BY <1>17, <3>2, <3>3, <3>4
      <3>6. \A i \in 1..m : p[(e - 1) + i] = free_slots[i]
        <4> TAKE i \in 1..m
        <4>1. PICK a : a = (e - 1) + i OBVIOUS
        <4>2. PICK b : b = e + i OBVIOUS
        <4>3. q[b] = free_slots[i] /\ b \in 1..Len(q) BY <1>7, <1>8, <1>9, <3>2, <3>4, <4>2 DEF FreeCuts, Within
        <4>4. a \in 1..Len(p) /\ a + 1 = b
          <5>1. PICK z \in Nat : z = Len(q) BY <1>17
          <5>2. i \in Int /\ i >= 1 /\ e \in Int /\ e >= 1 /\ a = (e - 1) + i /\ b = e + i /\ b \in 1..z /\ Len(p) = z - 1
            BY <1>17, <3>2, <3>4, <4>1, <4>2, <4>3, <5>1
          <5> QED BY ONLY <5>1, <5>2
        <4> QED BY <1>17, <4>1, <4>3, <4>4
      <3> QED BY <3>2, <3>4, <3>5, <3>6
    <2>9. UNCHANGED <<inbox, free_slots>> /\ Mirrored' = Mirrored BY <1>0 DEF handleVars, pipeVars, Mirrored
    <2>10. worker'.at \in Taken BY <1>5 DEF Taken
    <2>11. FreeCuts(d)' BY <1>5, <1>9, <1>10, <2>3, <2>4, <2>5, <2>6, <2>7, <2>8, <2>9, <2>10 DEF FreeCuts, Rising
    <2> QED BY <2>11 DEF FreeOrder
  <1>26. ReadyOrder' BY <1>0, <1>5, <1>16, ReadyOrderSame DEF LInv, pipeVars
  <1> QED BY <1>16, <1>22, <1>23, <1>24, <1>25, <1>26 DEF LInv

\* The worker writes the frame.
LEMMA RenderLockstep ==
    ASSUME SInv, LInv, NEW ok \in BOOLEAN, Render(ok)
    PROVE  LInv'
  <1>0. worker.at = "render" /\ UNCHANGED <<handleVars, main, ticket, refs, pipeVars, fresh>> BY DEF Render
  <1>1. worker \in [at : WorkerAt, seg : 0..(1 + MaxFresh), todo : Seq(SpecType), got : Nat] BY DEF SInv, Types, WorkerType
  <1>2. worker'.at \in {"publish", "failed"} /\ worker'.todo = worker.todo /\ worker'.got = worker.got BY <1>1 DEF Render
  <1>3. seg \in Segment /\ \A u \in Segment : Free(u)' = Free(u) /\ Ready(u)' = Ready(u) /\ (u # seg => shm'[u] = shm[u])
    BY RenderWrites
  <1>4. seg' = seg BY <1>0 DEF handleVars
  <1>5. Free(seg)' = Free(seg) /\ Ready(seg)' = Ready(seg) BY <1>3, <1>4 DEF Free, Ready
  <1>6. FreeRing' = FreeRing /\ ReadyRing' = ReadyRing BY <1>5 DEF FreeRing, ReadyRing
  <1>7. Unused' BY <1>3, <1>4 DEF LInv, Unused, Segment
  <1>8. FreeApart' BY <1>0, <1>2, <1>6 DEF LInv, FreeApart, Taken, Has, handleVars, pipeVars
  <1>9. ReadyApart' BY <1>0, <1>2, <1>6 DEF LInv, ReadyApart, Taken, Has, handleVars, pipeVars
  <1>10. HalfWay' BY <1>0, <1>2, <1>5 DEF LInv, HalfWay, Recycling, handleVars
  <1>11. FreeOrder'
    <2>1. Mirrored' = Mirrored BY <1>0 DEF Mirrored, handleVars
    <2> QED BY <1>0, <1>2, <1>6, <2>1, FreeOrderSame DEF LInv, Taken, handleVars, pipeVars
  <1>12. ReadyOrder' BY <1>0, <1>2, <1>6, ReadyOrderSame DEF LInv, pipeVars
  <1> QED BY <1>7, <1>8, <1>9, <1>10, <1>11, <1>12 DEF LInv

\* The worker writes the cell of a finished slot.
LEMMA PublishLockstep ==
    ASSUME SInv, LInv, Publish
    PROVE  LInv'
  <1>0. worker.at = "publish" /\ UNCHANGED <<handleVars, main, ticket, refs, pipeVars, fresh>> BY DEF Publish
  <1>1. worker \in [at : WorkerAt, seg : 0..(1 + MaxFresh), todo : Seq(SpecType), got : Nat] BY DEF SInv, Types, WorkerType
  <1>2. worker.todo # <<>> BY <1>0 DEF SInv, Shape, Busy
  <1>3. worker.seg = seg BY <1>2, InHandIsOut
  <1>4. CanPush(Ready(seg)) BY <1>0, PublishFits
  <1>5. worker'.at = "published" /\ worker'.todo = worker.todo /\ worker'.got = worker.got /\ worker.got \in Nat
    BY <1>1, <1>3, <1>4 DEF Publish
  <1>6. seg' = seg /\ Slots[seg] \in Nat /\ Ready(seg) \in RingType(Slots[seg]) BY <1>0, RingsInUse DEF handleVars
  <1>7. PICK r : r = PushCell(Ready(seg), worker.got) OBVIOUS
  <1>8. r \in RingType(Slots[seg]) BY <1>5, <1>6, <1>7, RingSteps
  <1>9. Unused' /\ Ready(seg)' = r /\ Free(seg)' = Free(seg) /\ FreeRing' = FreeRing /\ ReadyRing' = Contents(r)
    <2>1. shm' = [shm EXCEPT ![seg].ready = r] BY <1>3, <1>4, <1>7 DEF Publish, Ready
    <2> QED BY <1>6, <1>8, <2>1, ReadyRingStep
  <1>10. Contents(r) = ReadyRing /\ r.head = Ready(seg).head /\ r.cell[r.head] = worker.got
    BY <1>5, <1>6, <1>7, PushCellIs DEF ReadyRing
  <1>11. ReadyRing' = ReadyRing BY <1>9, <1>10
  <1>12. FreeApart' BY <1>0, <1>5, <1>9 DEF LInv, FreeApart, Taken, Has, handleVars, pipeVars
  <1>13. ReadyApart' BY <1>0, <1>5, <1>9, <1>11 DEF LInv, ReadyApart, Taken, Has, handleVars, pipeVars
  <1>14. HalfWay' BY <1>0, <1>5, <1>9, <1>10 DEF LInv, HalfWay, Recycling, handleVars
  <1>15. FreeOrder'
    <2>1. Mirrored' = Mirrored BY <1>0 DEF Mirrored, handleVars
    <2> QED BY <1>0, <1>5, <1>9, <2>1, FreeOrderSame DEF LInv, Taken, handleVars, pipeVars
  <1>16. ReadyOrder' BY <1>0, <1>5, <1>11, ReadyOrderSame DEF LInv, pipeVars
  <1> QED BY <1>9, <1>12, <1>13, <1>14, <1>15, <1>16 DEF LInv

\* The worker stores its cursor: the slot is the last of the ready ring.
LEMMA PublishedLockstep ==
    ASSUME SInv, LInv, Published
    PROVE  LInv'
  <1> PICK q : q = ReadyRing OBVIOUS
  <1> PICK p : p = ReadyRing' OBVIOUS
  <1> PICK x : x = worker.got OBVIOUS
  <1>0. worker.at = "published" /\ UNCHANGED <<handleVars, main, ticket, refs, pipeVars, fresh>> BY DEF Published
  <1>1. worker \in [at : WorkerAt, seg : 0..(1 + MaxFresh), todo : Seq(SpecType), got : Nat] BY DEF SInv, Types, WorkerType
  <1>2. worker.todo # <<>> /\ x = worker.todo[1].slot BY <1>0 DEF SInv, Shape, Busy, Rendered
  <1>3. worker.seg = seg /\ x \in Slot(seg) /\ Agrees(worker.todo[1]) BY <1>2, InHandIsOut
  <1>4. worker'.at = "ready" /\ worker'.todo = worker.todo /\ worker'.got = x BY <1>1 DEF Published
  <1>5. seg' = seg /\ Slots[seg] \in Nat /\ Ready(seg) \in RingType(Slots[seg]) BY <1>0, RingsInUse DEF handleVars
  <1>6. Len(q) < Slots[seg] BY <1>0, PublishFits
  <1>7. PICK r : r = PushHead(Ready(seg)) OBVIOUS
  <1>8. r \in RingType(Slots[seg])
    <2>1. 0 \in Nat OBVIOUS
    <2> QED BY <1>5, <1>7, <2>1, RingSteps
  <1>9. Unused' /\ Ready(seg)' = r /\ Free(seg)' = Free(seg) /\ FreeRing' = FreeRing /\ p = Contents(r)
    <2>1. shm' = [shm EXCEPT ![seg].ready = r] BY <1>3, <1>7 DEF Published, Ready
    <2> QED BY <1>5, <1>8, <2>1, ReadyRingStep
  <1>10. /\ p \in Seq(Nat) /\ Len(q) \in Nat /\ Len(p) = Len(q) + 1
         /\ \A k \in 1..Len(q) : p[k] = q[k]
         /\ p[Len(p)] = Ready(seg).cell[Ready(seg).head]
    BY <1>5, <1>6, <1>7, <1>9, PushHeadIs DEF ReadyRing
  <1>11. p[Len(p)] = x /\ p[Len(q) + 1] = x BY <1>0, <1>10 DEF LInv, HalfWay
  <1>12. \A k \in 1..Len(p) : (k \in 1..Len(q) /\ p[k] = q[k]) \/ (k = Len(q) + 1 /\ p[k] = x) BY <1>10, <1>11
  <1>13. \A s : Has(p, s) => Has(q, s) \/ s = x BY <1>12 DEF Has
  <1>14. ~Has(q, x) /\ ~Has(FreeRing, x) BY <1>0, <1>2 DEF LInv, ReadyApart, FreeApart, Taken
  <1>15. x = outstanding[worker.todo[1].ticket] /\ worker.todo[1].ticket \in DOMAIN outstanding BY <1>2, <1>3 DEF Agrees
  <1>16. x \notin held /\ \A i \in 1..Len(free_slots) : free_slots[i] # x BY <1>15 DEF SInv, Apart
  <1>17. main.at \in {"deliver"} \cup Recycling => main.slot # x
    <2>1. CASE main.at = "deliver" BY <1>15, <2>1 DEF SInv, InHandApart, InHand
    <2>2. CASE main.at \in Recycling
      <3>1. Len(free_slots) > 0 /\ free_slots[Len(free_slots)] = main.slot BY <2>2 DEF LInv, HalfWay
      <3>2. Len(free_slots) \in 1..Len(free_slots)
        <4>1. Len(free_slots) \in Nat BY DEF SInv, Types, HandleType
        <4> QED BY <3>1, <4>1
      <3> QED BY <1>16, <3>1, <3>2
    <2> QED BY <2>1, <2>2
  <1>18. \A j \in 1..Len(replies) : replies[j].type = "frame_failed" => outstanding[replies[j].ticket] # x
    <2> SUFFICES ASSUME NEW j \in 1..Len(replies), replies[j].type = "frame_failed"
                 PROVE  outstanding[replies[j].ticket] # x
      OBVIOUS
    <2>1. IsFrame(replies[j]) BY DEF IsFrame
    <2>2. replies[j].ticket \in DOMAIN outstanding BY <2>1 DEF SInv, Agree
    <2>3. worker.todo[1].ticket # replies[j].ticket
      <3>1. 1 \in 1..Len(worker.todo) BY <1>1, <1>2, EmptySeq
      <3> QED BY <2>1, <3>1 DEF SInv, OnePlace, TodoOrReply
    <2> QED BY <1>15, <2>2, <2>3 DEF SInv, Apart
  <1>19. FreeApart' BY <1>0, <1>4, <1>9 DEF LInv, FreeApart, Taken, Has, handleVars, pipeVars
  <1>20. ReadyApart'
    <2>1. \A k \in 1..Len(p) : p[k] \in Slot(seg) /\ p[k] \notin held /\ ~Has(FreeRing, p[k])
      BY <1>3, <1>12, <1>14, <1>16 DEF LInv, ReadyApart
    <2>2. \A k, o \in 1..Len(p) : p[k] = p[o] => k = o
      <3>1. \A k, o \in 1..Len(q) : q[k] = q[o] => k = o BY DEF LInv, ReadyApart
      <3>2. \A k \in 1..Len(q) : q[k] # x BY <1>14 DEF Has
      <3> QED BY <1>12, <3>1, <3>2
    <2>3. main.at \in {"deliver"} \cup Recycling => ~Has(p, main.slot) BY <1>13, <1>17 DEF LInv, ReadyApart
    <2>4. \A j \in 1..Len(replies) : replies[j].type = "frame_failed" => ~Has(p, outstanding[replies[j].ticket])
      BY <1>13, <1>18 DEF LInv, ReadyApart
    <2> QED BY <1>0, <1>4, <1>9, <2>1, <2>2, <2>3, <2>4 DEF ReadyApart, Has, handleVars, pipeVars
  <1>21. HalfWay' BY <1>0, <1>4, <1>9 DEF LInv, HalfWay, Recycling, handleVars
  <1>22. FreeOrder'
    <2>1. Mirrored' = Mirrored BY <1>0 DEF Mirrored, handleVars
    <2> QED BY <1>0, <1>4, <1>9, <2>1, FreeOrderSame DEF LInv, Taken, handleVars, pipeVars
  <1>23. ReadyOrder'
    <2>0. UNCHANGED <<replies, main>> BY <1>0 DEF pipeVars
    <2>1. PICK g : ReadyCounts(g) BY DEF LInv, ReadyOrder
    <2>2. PICK n \in Nat : n = Len(replies) BY DEF SInv, Types, PipeType
    <2>3. g \in [0..n -> 0..Len(q)] /\ Rising(g, n) BY <2>1, <2>2 DEF ReadyCounts
    <2>4. g \in [0..n -> 0..Len(p)] BY <1>10, <2>3
    <2>5. /\ g[0] = (IF main.at \in Draining THEN 1 ELSE 0)
          /\ \A j \in 1..n : g[j] = g[j - 1] + (IF replies[j].type = "frame_ready" THEN 1 ELSE 0)
      BY <2>1, <2>2 DEF ReadyCounts
    <2>6. \A j \in 1..n : replies[j].type = "frame_ready" => p[g[j]] = replies[j].slot
      <3> SUFFICES ASSUME NEW j \in 1..n, replies[j].type = "frame_ready" PROVE p[g[j]] = replies[j].slot OBVIOUS
      <3>1. q[g[j]] = replies[j].slot BY <2>1, <2>2 DEF ReadyCounts
      <3>2. g[j] \in 1..Len(q)
        <4>1. j - 1 \in 0..n /\ j \in 0..n OBVIOUS
        <4>2. g[j - 1] \in 0..Len(q) /\ g[j] \in 0..Len(q) /\ g[j] = g[j - 1] + 1 BY <2>3, <2>5, <4>1
        <4> QED BY <1>10, <4>2
      <3> QED BY <1>10, <3>1, <3>2
    <2>7. main.at \in Draining => p[1] = main.slot
      <3> SUFFICES ASSUME main.at \in Draining PROVE p[1] = main.slot OBVIOUS
      <3>1. q[1] = main.slot /\ g[0] = 1 BY <2>1, <2>5 DEF ReadyCounts
      <3>2. 1 \in 1..Len(q)
        <4>1. g[0] \in 0..Len(q) BY <2>3
        <4> QED BY <1>10, <3>1, <4>1
      <3> QED BY <1>10, <3>1, <3>2
    <2>8. Len(p) = g[n] + 1
      <3>1. Len(q) = g[n] + 0 BY <1>0, <2>1, <2>2 DEF ReadyCounts
      <3>2. g[n] \in Nat BY <2>3
      <3> QED BY <1>10, <3>1, <3>2
    <2>9. ReadyCounts(g)' BY <1>4, <1>11, <2>0, <2>2, <2>3, <2>4, <2>5, <2>6, <2>7, <2>8 DEF ReadyCounts, Rising
    <2> QED BY <2>9 DEF ReadyOrder
  <1> QED BY <1>9, <1>19, <1>20, <1>21, <1>22, <1>23 DEF LInv

--------------------------------------------------------------------------------
(* The worker's answers and messages *)

\* An answer added to the pipe announces the frame the worker has just published, if any.
LEMMA ReplyAdded ==
    ASSUME SInv, LInv, ReadyRing' = ReadyRing, main' = main, Len(replies') = Len(replies) + 1,
           \A j \in 1..Len(replies) : replies'[j] = replies[j],
           worker.at # "dead", worker'.at # "ready",
           replies'[Len(replies) + 1].type = "frame_ready" <=> worker.at = "ready",
           worker.at = "ready" => replies'[Len(replies) + 1].slot = worker.got
    PROVE  ReadyOrder'
  <1>1. PICK g : ReadyCounts(g) BY DEF LInv, ReadyOrder
  <1>2. PICK n \in Nat : n = Len(replies) BY DEF SInv, Types, PipeType
  <1>3. PICK l \in Nat : l = Len(ReadyRing) BY RingsInUse
  <1>4. g \in [0..n -> 0..l] /\ Rising(g, n) BY <1>1, <1>2, <1>3 DEF ReadyCounts
  <1>5. l = g[n] + (IF worker.at = "ready" THEN 1 ELSE 0) BY <1>1, <1>2, <1>3 DEF ReadyCounts
  <1>6. \A j \in 0..n : g[j] \in 0..l /\ g[j] <= g[n] BY <1>2, <1>4 DEF Rising
  <1> DEFINE d == [j \in 0..(n + 1) |-> IF j = n + 1 THEN l ELSE g[j]]
  <1>7. d[n + 1] = l /\ \A j \in 0..n : d[j] = g[j]
    <2>1. n + 1 \in 0..(n + 1) /\ \A j \in 0..n : j \in 0..(n + 1) /\ j # n + 1 OBVIOUS
    <2> QED BY <2>1
  <1>8. \A j \in 0..(n + 1) : j = n + 1 \/ j \in 0..n OBVIOUS
  <1>9. d \in [0..(n + 1) -> 0..l] BY <1>6, <1>8
  <1> HIDE DEF d
  <1>10. Rising(d, n + 1)
    <2> SUFFICES ASSUME NEW j \in 0..(n + 1), NEW k \in 0..(n + 1), j <= k PROVE d[j] <= d[k] BY DEF Rising
    <2>1. CASE k = n + 1
      <3>1. d[j] \in 0..l BY <1>9
      <3> QED BY <1>7, <2>1, <3>1
    <2>2. CASE k # n + 1
      <3>1. j \in 0..n /\ k \in 0..n BY <2>2
      <3> QED BY <1>4, <1>7, <3>1 DEF Rising
    <2> QED BY <2>1, <2>2
  <1>11. \A j \in 1..n : d[j] = d[j - 1] + (IF replies[j].type = "frame_ready" THEN 1 ELSE 0)
    <2> TAKE j \in 1..n
    <2>1. j \in 0..n /\ j - 1 \in 0..n OBVIOUS
    <2> QED BY <1>1, <1>2, <1>7, <2>1 DEF ReadyCounts
  <1>12. d[n + 1] = d[n] + (IF worker.at = "ready" THEN 1 ELSE 0)
    <2>1. n \in 0..n OBVIOUS
    <2> QED BY <1>5, <1>7, <2>1
  <1>13. \A j \in 1..(n + 1) : d[j] = d[j - 1] + (IF replies'[j].type = "frame_ready" THEN 1 ELSE 0)
    <2> TAKE j \in 1..(n + 1)
    <2>1. CASE j = n + 1
      <3>1. j - 1 = n BY <2>1
      <3> QED BY <1>2, <1>12, <2>1, <3>1
    <2>2. CASE j # n + 1
      <3>1. j \in 1..n BY <2>2
      <3> QED BY <1>2, <1>11, <3>1
    <2> QED BY <2>1, <2>2
  <1>14. \A j \in 1..(n + 1) : replies'[j].type = "frame_ready" => ReadyRing[d[j]] = replies'[j].slot
    <2> SUFFICES ASSUME NEW j \in 1..(n + 1), replies'[j].type = "frame_ready" PROVE ReadyRing[d[j]] = replies'[j].slot
      OBVIOUS
    <2>1. CASE j = n + 1
      <3>1. worker.at = "ready" /\ replies'[j].slot = worker.got BY <1>2, <2>1
      <3>2. ReadyRing[l] = worker.got BY <1>1, <1>3, <3>1 DEF ReadyCounts
      <3> QED BY <1>7, <2>1, <3>1, <3>2
    <2>2. CASE j # n + 1
      <3>1. j \in 1..n /\ j \in 0..n BY <2>2
      <3>2. replies'[j] = replies[j] /\ d[j] = g[j] BY <1>2, <1>7, <3>1
      <3> QED BY <1>1, <1>2, <3>1, <3>2 DEF ReadyCounts
    <2> QED BY <2>1, <2>2
  <1>15. d[0] = (IF main.at \in Draining THEN 1 ELSE 0) /\ (main.at \in Draining => ReadyRing[1] = main.slot)
    <2>1. 0 \in 0..n OBVIOUS
    <2> QED BY <1>1, <1>7, <2>1 DEF ReadyCounts
  <1>16. l = d[n + 1] + 0 BY <1>3, <1>7
  <1>17. ReadyCounts(d)' BY <1>2, <1>3, <1>9, <1>10, <1>13, <1>14, <1>15, <1>16 DEF ReadyCounts, Rising
  <1> QED BY <1>17 DEF ReadyOrder

LEMMA SayLockstep ==
    ASSUME SInv, LInv, SayReady \/ SayFailed
    PROVE  LInv'
  <1> PICK h : h = worker.todo[1] OBVIOUS
  <1> PICK n \in Nat : n = Len(replies) BY DEF SInv, Types, PipeType
  <1> PICK w \in Nat : w = Len(worker.todo) BY DEF SInv, Types, WorkerType
  <1>1. /\ Agrees(h) /\ w > 0
        /\ UNCHANGED <<shm, handleVars, main, ticket, refs, inbox, fresh>>
        /\ worker'.got = worker.got
        /\ worker'.at = (IF Len(worker.todo) > 1 THEN "acquire" ELSE "loop")
        /\ Len(worker'.todo) = w - 1 /\ \A i \in 1..(w - 1) : worker'.todo[i] = worker.todo[i + 1]
    BY SayEffect
  <1>2. /\ Len(replies') = n + 1 /\ \A j \in 1..n : replies'[j] = replies[j]
        /\ replies'[n + 1].ticket = h.ticket
        /\ SayReady => replies'[n + 1].type = "frame_ready" /\ replies'[n + 1].slot = worker.got
        /\ SayFailed => replies'[n + 1].type = "frame_failed"
    BY SayEffect
  <1>3. (SayReady => worker.at = "ready") /\ (SayFailed => worker.at = "failed") BY DEF SayReady, SayFailed
  <1>4. worker'.at \in {"acquire", "loop"} /\ worker.at \in Taken /\ worker'.at \notin Taken BY <1>1, <1>3 DEF Taken
  <1>5. FreeRing' = FreeRing /\ ReadyRing' = ReadyRing /\ Free(seg)' = Free(seg) /\ Ready(seg)' = Ready(seg) /\ Unused'
    BY <1>1, RingsSame DEF handleVars
  <1>6. \A j \in 1..(n + 1) : j = n + 1 \/ (j \in 1..n /\ replies'[j] = replies[j]) BY <1>2
  <1>7. outstanding' = outstanding /\ outstanding[h.ticket] = h.slot BY <1>1 DEF Agrees, handleVars
  <1>8. FreeApart'
    <2>1. ~Has(FreeRing, h.slot) BY <1>4 DEF LInv, FreeApart
    <2>2. \A j \in 1..(n + 1) : IsFrame(replies'[j]) => ~Has(FreeRing, outstanding[replies'[j].ticket])
      BY <1>2, <1>6, <1>7, <2>1 DEF LInv, FreeApart
    <2>3. /\ \A p \in 1..Len(FreeRing) : FreeRing[p] \in Slot(seg) /\ FreeRing[p] \notin held
          /\ \A p, o \in 1..Len(FreeRing) : FreeRing[p] = FreeRing[o] => p = o
          /\ main.at # "idle" => ~Has(FreeRing, main.slot)
      BY DEF LInv, FreeApart
    <2> QED BY <1>1, <1>2, <1>4, <1>5, <2>2, <2>3 DEF FreeApart, Has, handleVars
  <1>9. ReadyApart'
    <2>1. SayFailed => ~Has(ReadyRing, h.slot) BY <1>3 DEF LInv, ReadyApart, Taken
    <2>2. \A j \in 1..(n + 1) : replies'[j].type = "frame_failed" => ~Has(ReadyRing, outstanding[replies'[j].ticket])
      BY <1>2, <1>6, <1>7, <2>1 DEF LInv, ReadyApart
    <2>3. /\ \A p \in 1..Len(ReadyRing) : ReadyRing[p] \in Slot(seg) /\ ReadyRing[p] \notin held /\ ~Has(FreeRing, ReadyRing[p])
          /\ \A p, o \in 1..Len(ReadyRing) : ReadyRing[p] = ReadyRing[o] => p = o
          /\ main.at \in {"deliver"} \cup Recycling => ~Has(ReadyRing, main.slot)
      BY DEF LInv, ReadyApart
    <2> QED BY <1>1, <1>2, <1>4, <1>5, <2>2, <2>3 DEF ReadyApart, Has, handleVars
  <1>10. HalfWay' BY <1>1, <1>4, <1>5 DEF LInv, HalfWay, Recycling, handleVars
  <1>11. FreeOrder'
    <2>1. PICK c : FreeCuts(c) BY <1>4 DEF LInv, FreeOrder, Taken
    <2>2. Within(c) BY <2>1, CutsWithin
    <2>3. PICK m \in Nat : m = Len(inbox) BY DEF SInv, Types, PipeType
    <2>4. c \in [0..(m + 1) -> -1..Len(FreeRing)] /\ Rising(c, m + 1) /\ c[0] = -1 /\ c[1] = -1 + w
      BY <1>4, <2>1, <2>3 DEF FreeCuts
    <2> DEFINE d == [k \in 0..(m + 1) |-> IF k = 0 THEN 0 ELSE c[k]]
    <2>5. Len(FreeRing) \in Nat BY RingsInUse
    <2>6. d[0] = 0 /\ \A k \in 1..(m + 1) : d[k] = c[k]
      <3>1. 0 \in 0..(m + 1) /\ \A k \in 1..(m + 1) : k \in 0..(m + 1) /\ k # 0 OBVIOUS
      <3> QED BY <3>1
    <2>7. \A k \in 0..(m + 1) : k = 0 \/ k \in 1..(m + 1) OBVIOUS
    <2>8. d \in [0..(m + 1) -> -1..Len(FreeRing)] BY <2>4, <2>5
    <2> HIDE DEF d
    <2>9. Rising(d, m + 1)
      <3> SUFFICES ASSUME NEW j \in 0..(m + 1), NEW k \in 0..(m + 1), j <= k PROVE d[j] <= d[k] BY DEF Rising
      <3>1. CASE j = 0
        <4>1. CASE k = 0 BY <2>6, <3>1, <4>1
        <4>2. CASE k # 0
          <5>1. k \in 1..(m + 1) BY <4>2
          <5>2. c[k] >= 0 BY <2>2, <2>3, <5>1 DEF Within
          <5> QED BY <2>6, <3>1, <5>1, <5>2
        <4> QED BY <4>1, <4>2
      <3>2. CASE j # 0
        <4>1. j \in 1..(m + 1) /\ k \in 1..(m + 1) BY <3>2
        <4> QED BY <2>4, <2>6, <4>1 DEF Rising
      <3> QED BY <3>1, <3>2
    <2>10. d[1] = d[0] + (w - 1)
      <3>1. 1 \in 1..(m + 1) OBVIOUS
      <3>2. d[1] = -1 + w BY <2>4, <2>6, <3>1
      <3> QED BY <2>6, <3>2
    <2>11. \A k \in 1..m : d[k + 1] = d[k] + Len(inbox[k].specs)
      <3> TAKE k \in 1..m
      <3>1. k \in 1..(m + 1) /\ k + 1 \in 1..(m + 1) OBVIOUS
      <3> QED BY <2>1, <2>3, <2>6, <3>1 DEF FreeCuts
    <2>12. \A i \in 1..(w - 1) : d[0] + i > 0 => FreeRing[d[0] + i] = worker'.todo[i].slot
      <3> TAKE i \in 1..(w - 1)
      <3>1. i + 1 \in 1..w /\ -1 + (i + 1) = i /\ i > 0 /\ 0 + i = i OBVIOUS
      <3>2. FreeRing[i] = worker.todo[i + 1].slot BY <2>1, <2>4, <3>1 DEF FreeCuts
      <3> QED BY <1>1, <2>6, <3>1, <3>2
    <2>13. \A k \in 1..m : \A i \in 1..Len(inbox[k].specs) : FreeRing[d[k] + i] = inbox[k].specs[i].slot
      <3> TAKE k \in 1..m
      <3>1. d[k] = c[k] BY <2>6
      <3> QED BY <2>1, <2>3, <3>1 DEF FreeCuts
    <2>14. Len(FreeRing) = d[m + 1] + Mirrored /\ \A i \in 1..Mirrored : FreeRing[d[m + 1] + i] = free_slots[i]
      <3>1. m + 1 \in 1..(m + 1) OBVIOUS
      <3>2. d[m + 1] = c[m + 1] BY <2>6, <3>1
      <3> QED BY <2>1, <2>3, <3>2 DEF FreeCuts
    <2>15. UNCHANGED <<inbox, free_slots>> /\ Mirrored' = Mirrored BY <1>1 DEF handleVars, Mirrored
    <2>16. FreeCuts(d)'
      BY <1>1, <1>4, <1>5, <2>3, <2>6, <2>8, <2>9, <2>10, <2>11, <2>12, <2>13, <2>14, <2>15 DEF FreeCuts, Rising
    <2> QED BY <2>16 DEF FreeOrder
  <1>12. ReadyOrder'
    <2>1. worker.at # "dead" /\ worker'.at # "ready" BY <1>3, <1>4
    <2>2. replies'[n + 1].type = "frame_ready" <=> worker.at = "ready" BY <1>2, <1>3
    <2>3. worker.at = "ready" => replies'[n + 1].slot = worker.got BY <1>2, <1>3
    <2> QED BY <1>1, <1>2, <1>5, <2>1, <2>2, <2>3, ReplyAdded
  <1> QED BY <1>5, <1>8, <1>9, <1>10, <1>11, <1>12 DEF LInv

\* The next message is in hand: its slots are the next ones of the free ring.
LEMMA TakeOrder ==
    ASSUME SInv, LInv, Attach \/ TakeBatch, worker'.todo = inbox[1].specs, worker'.at \in {"loop", "acquire"}
    PROVE  FreeOrder'
  <1> PICK h : h = inbox[1] OBVIOUS
  <1> PICK n \in Nat : n + 1 = Len(inbox)
    <2>1. Len(inbox) \in Nat /\ Len(inbox) > 0 BY TakeEffect
    <2>2. Len(inbox) - 1 \in Nat /\ (Len(inbox) - 1) + 1 = Len(inbox) BY <2>1
    <2> QED BY <2>2
  <1>1. /\ worker.at = "loop" /\ worker.todo = <<>>
        /\ Len(inbox') = n /\ \A k \in 1..n : inbox'[k] = inbox[k + 1]
        /\ UNCHANGED <<shm, handleVars, main, ticket, refs, fresh>>
    BY TakeEffect
  <1>2. FreeRing' = FreeRing BY <1>1, RingsSame DEF handleVars
  <1>3. PICK c : FreeCuts(c) BY <1>1 DEF LInv, FreeOrder
  <1>4. /\ c \in [0..(n + 2) -> -1..Len(FreeRing)] /\ \A k, l \in 0..(n + 2) : k <= l => c[k] <= c[l]
        /\ \A k \in 1..(n + 1) : c[k + 1] = c[k] + Len(inbox[k].specs)
        /\ \A k \in 1..(n + 1) : \A i \in 1..Len(inbox[k].specs) : FreeRing[c[k] + i] = inbox[k].specs[i].slot
        /\ Len(FreeRing) = c[n + 2] + Mirrored /\ \A i \in 1..Mirrored : FreeRing[c[n + 2] + i] = free_slots[i]
    <2>1. Len(inbox) + 1 = n + 2 OBVIOUS
    <2>2. /\ c \in [0..(n + 2) -> -1..Len(FreeRing)] /\ Rising(c, n + 2)
          /\ \A k \in 1..(n + 1) : c[k + 1] = c[k] + Len(inbox[k].specs)
          /\ \A k \in 1..(n + 1) : \A i \in 1..Len(inbox[k].specs) : FreeRing[c[k] + i] = inbox[k].specs[i].slot
          /\ Len(FreeRing) = c[n + 2] + Mirrored /\ \A i \in 1..Mirrored : FreeRing[c[n + 2] + i] = free_slots[i]
      BY <1>3, <2>1 DEF FreeCuts
    <2> QED BY <2>2 DEF Rising
  <1>5. c[1] = 0
    <2>1. c[0] = 0 /\ c[1] = c[0] + Len(worker.todo) BY <1>1, <1>3 DEF FreeCuts, Taken
    <2>2. Len(worker.todo) = 0 BY <1>1
    <2> QED BY <2>1, <2>2
  <1> DEFINE d == [k \in 0..(n + 1) |-> c[k + 1]]
  <1>6. \A k \in 0..(n + 1) : k + 1 \in 0..(n + 2) OBVIOUS
  <1>7. d \in [0..(n + 1) -> -1..Len(FreeRing)] /\ \A k \in 0..(n + 1) : d[k] = c[k + 1] BY <1>4, <1>6
  <1> HIDE DEF d
  <1>8. Rising(d, n + 1)
    <2> SUFFICES ASSUME NEW k \in 0..(n + 1), NEW l \in 0..(n + 1), k <= l PROVE d[k] <= d[l] BY DEF Rising
    <2>1. k + 1 \in 0..(n + 2) /\ l + 1 \in 0..(n + 2) /\ k + 1 <= l + 1 OBVIOUS
    <2>2. c[k + 1] <= c[l + 1] BY <1>4, <2>1
    <2> QED BY <1>7, <2>2
  <1>9. d[0] = 0
    <2>1. 0 \in 0..(n + 1) /\ 0 + 1 = 1 OBVIOUS
    <2> QED BY <1>5, <1>7, <2>1
  <1>10. d[1] = d[0] + Len(h.specs)
    <2>1. 1 \in 0..(n + 1) /\ 1 \in 1..(n + 1) OBVIOUS
    <2>2. d[1] = c[1 + 1] BY <1>7, <2>1
    <2>3. c[1 + 1] = c[1] + Len(inbox[1].specs) BY <1>4, <2>1
    <2> QED BY <1>5, <1>9, <2>2, <2>3
  <1>11. \A k \in 1..n : d[k + 1] = d[k] + Len(inbox'[k].specs)
    <2> TAKE k \in 1..n
    <2>1. PICK l : l = k + 1 OBVIOUS
    <2>2. l \in 1..(n + 1) /\ l \in 0..(n + 1) /\ k \in 0..(n + 1) BY <2>1
    <2>3. c[l + 1] = c[l] + Len(inbox[l].specs) BY <1>4, <2>2
    <2>4. d[l] = c[l + 1] /\ d[k] = c[l] BY <1>7, <2>1, <2>2
    <2>5. inbox'[k] = inbox[l] BY <1>1, <2>1
    <2> QED BY <2>1, <2>3, <2>4, <2>5
  <1>12. \A i \in 1..Len(h.specs) : FreeRing[d[0] + i] = h.specs[i].slot
    <2>1. 1 \in 1..(n + 1) OBVIOUS
    <2>2. \A i \in 1..Len(inbox[1].specs) : FreeRing[c[1] + i] = inbox[1].specs[i].slot BY <1>4, <2>1
    <2> QED BY <1>5, <1>9, <2>2
  <1>13. \A k \in 1..n : \A i \in 1..Len(inbox'[k].specs) : FreeRing[d[k] + i] = inbox'[k].specs[i].slot
    <2> TAKE k \in 1..n
    <2>1. PICK l : l = k + 1 OBVIOUS
    <2>2. l \in 1..(n + 1) /\ k \in 0..(n + 1) BY <2>1
    <2>3. d[k] = c[l] /\ inbox'[k] = inbox[l] BY <1>1, <1>7, <2>1, <2>2
    <2> QED BY <1>4, <2>2, <2>3
  <1>14. Len(FreeRing) = d[n + 1] + Mirrored /\ \A i \in 1..Mirrored : FreeRing[d[n + 1] + i] = free_slots[i]
    <2>1. n + 1 \in 0..(n + 1) /\ (n + 1) + 1 = n + 2 OBVIOUS
    <2>2. d[n + 1] = c[n + 2] BY <1>7, <2>1
    <2> QED BY <1>4, <2>2
  <1>15. UNCHANGED free_slots /\ Mirrored' = Mirrored BY <1>1 DEF handleVars, Mirrored
  <1>16. worker'.at \notin Taken BY DEF Taken
  <1>17. FreeCuts(d)'
    BY <1>1, <1>2, <1>7, <1>8, <1>9, <1>10, <1>11, <1>12, <1>13, <1>14, <1>15, <1>16 DEF FreeCuts, Rising
  <1> QED BY <1>17 DEF FreeOrder

LEMMA AttachLockstep ==
    ASSUME SInv, LInv, Attach
    PROVE  LInv'
  <1>1. /\ Len(inbox) = 1 /\ worker' = Loop(seg) /\ reconfiguring
        /\ Len(replies) = 0 /\ Len(replies') = 1 /\ replies'[1].type = "hello_caps"
    BY AttachEffect
  <1>2. worker.at = "loop" /\ UNCHANGED <<shm, handleVars, main, ticket, refs, fresh>> BY DEF Attach
  <1>3. worker'.at = "loop" /\ worker'.todo = <<>> BY <1>1 DEF Loop
  <1>4. inbox[1].specs = <<>> BY <1>1 DEF SInv, Link
  <1>5. FreeRing' = FreeRing /\ ReadyRing' = ReadyRing /\ Free(seg)' = Free(seg) /\ Ready(seg)' = Ready(seg) /\ Unused'
    BY <1>2, RingsSame DEF handleVars
  <1>6. \A j \in 1..Len(replies') : ~IsFrame(replies'[j]) /\ replies'[j].type # "frame_failed" BY <1>1 DEF IsFrame
  <1>7. FreeApart' BY <1>2, <1>3, <1>5, <1>6 DEF LInv, FreeApart, Taken, Has, handleVars
  <1>8. ReadyApart' BY <1>2, <1>3, <1>5, <1>6 DEF LInv, ReadyApart, Taken, Has, handleVars
  <1>9. HalfWay' BY <1>2, <1>3, <1>5 DEF LInv, HalfWay, Recycling, handleVars
  <1>10. FreeOrder' BY <1>3, <1>4, TakeOrder
  <1>11. ReadyOrder'
    <2>1. \A j \in 1..Len(replies) : replies'[j] = replies[j] BY <1>1
    <2>2. replies'[Len(replies) + 1].type # "frame_ready" BY <1>1
    <2> QED BY <1>1, <1>2, <1>3, <1>5, <2>1, <2>2, ReplyAdded
  <1> QED BY <1>5, <1>7, <1>8, <1>9, <1>10, <1>11 DEF LInv

LEMMA TakeBatchLockstep ==
    ASSUME SInv, LInv, TakeBatch
    PROVE  LInv'
  <1>1. worker.at = "loop" /\ UNCHANGED <<shm, handleVars, main, ticket, refs, replies, fresh>> BY DEF TakeBatch
  <1>2. worker \in [at : WorkerAt, seg : 0..(1 + MaxFresh), todo : Seq(SpecType), got : Nat] BY DEF SInv, Types, WorkerType
  <1>3. worker'.at = "acquire" /\ worker'.todo = inbox[1].specs
    <2>1. inbox \in Seq(MsgType) /\ inbox # <<>> BY DEF TakeBatch, SInv, Types, PipeType
    <2>2. Head(inbox) = inbox[1] BY <2>1
    <2> QED BY <1>2, <2>2 DEF TakeBatch
  <1>5. FreeRing' = FreeRing /\ ReadyRing' = ReadyRing /\ Free(seg)' = Free(seg) /\ Ready(seg)' = Ready(seg) /\ Unused'
    BY <1>1, RingsSame DEF handleVars
  <1>7. FreeApart' BY <1>1, <1>3, <1>5 DEF LInv, FreeApart, Taken, Has, handleVars
  <1>8. ReadyApart' BY <1>1, <1>3, <1>5 DEF LInv, ReadyApart, Taken, Has, handleVars
  <1>9. HalfWay' BY <1>1, <1>3, <1>5 DEF LInv, HalfWay, Recycling, handleVars
  <1>10. FreeOrder' BY <1>3, TakeOrder
  <1>11. ReadyOrder' BY <1>1, <1>3, <1>5, ReadyOrderSame DEF LInv
  <1> QED BY <1>5, <1>7, <1>8, <1>9, <1>10, <1>11 DEF LInv

--------------------------------------------------------------------------------
(* The dispatcher's side of the pipe *)

\* An answer read from the pipe is the frame at the head of the ready ring, if it is one.
LEMMA ReplyRead ==
    ASSUME SInv, LInv, Drain, ReadyRing' = ReadyRing, main.at = "idle", worker' = worker,
           main'.at \in Draining <=> replies[1].type = "frame_ready",
           replies[1].type = "frame_ready" => main'.slot = replies[1].slot
    PROVE  ReadyOrder'
  <1> PICK h : h = replies[1] OBVIOUS
  <1>1. PICK n \in Nat : n + 1 = Len(replies)
    <2>1. Len(replies) \in Nat /\ Len(replies) > 0 BY ReadEffect
    <2>2. Len(replies) - 1 \in Nat /\ (Len(replies) - 1) + 1 = Len(replies) BY <2>1
    <2> QED BY <2>2
  <1>2. Len(replies') = n /\ \A j \in 1..n : replies'[j] = replies[j + 1]
    <2>1. Len(replies') = Len(replies) - 1 /\ \A j \in 1..Len(replies') : replies'[j] = replies[j + 1] BY ReadEffect
    <2>2. Len(replies') = n BY <1>1, <2>1
    <2> QED BY <2>1, <2>2
  <1>3. PICK g : ReadyCounts(g) BY DEF LInv, ReadyOrder
  <1>4. PICK l \in Nat : l = Len(ReadyRing) BY RingsInUse
  <1>5. /\ g \in [0..(n + 1) -> 0..l] /\ \A j, k \in 0..(n + 1) : j <= k => g[j] <= g[k]
        /\ g[0] = 0
        /\ \A j \in 1..(n + 1) : g[j] = g[j - 1] + (IF replies[j].type = "frame_ready" THEN 1 ELSE 0)
        /\ \A j \in 1..(n + 1) : replies[j].type = "frame_ready" => ReadyRing[g[j]] = replies[j].slot
        /\ worker.at # "dead" => l = g[n + 1] + (IF worker.at = "ready" THEN 1 ELSE 0)
        /\ worker.at = "ready" => ReadyRing[l] = worker.got
    BY <1>1, <1>3, <1>4 DEF ReadyCounts, Rising, Draining
  <1> DEFINE d == [j \in 0..n |-> g[j + 1]]
  <1>6. \A j \in 0..n : j + 1 \in 0..(n + 1) BY <1>1
  <1>7. d \in [0..n -> 0..l] /\ \A j \in 0..n : d[j] = g[j + 1] BY <1>5, <1>6
  <1> HIDE DEF d
  <1>8. Rising(d, n)
    <2> SUFFICES ASSUME NEW j \in 0..n, NEW k \in 0..n, j <= k PROVE d[j] <= d[k] BY DEF Rising
    <2>1. j + 1 \in 0..(n + 1) /\ k + 1 \in 0..(n + 1) /\ j + 1 <= k + 1 BY <1>1
    <2>2. g[j + 1] <= g[k + 1] BY <1>5, <2>1
    <2> QED BY <1>7, <2>2
  <1>9. g[1] = (IF h.type = "frame_ready" THEN 1 ELSE 0)
    <2>1. 1 \in 1..(n + 1) /\ 1 - 1 = 0 BY <1>1
    <2>2. g[1] = g[0] + (IF h.type = "frame_ready" THEN 1 ELSE 0) BY <1>5, <2>1
    <2> QED BY <1>5, <2>2
  <1>10. d[0] = (IF main'.at \in Draining THEN 1 ELSE 0)
    <2>1. 0 \in 0..n /\ 0 + 1 = 1 BY <1>1
    <2> QED BY <1>7, <1>9, <2>1
  <1>11. main'.at \in Draining => ReadyRing[1] = main'.slot
    <2>1. 1 \in 1..(n + 1) BY <1>1
    <2> QED BY <1>5, <1>9, <2>1
  <1>12. \A j \in 1..n : d[j] = d[j - 1] + (IF replies'[j].type = "frame_ready" THEN 1 ELSE 0)
    <2> TAKE j \in 1..n
    <2>1. PICK k : k = j + 1 OBVIOUS
    <2>2. k \in 1..(n + 1) /\ k - 1 = j /\ j \in 0..n /\ j - 1 \in 0..n /\ (j - 1) + 1 = j BY <1>1, <2>1
    <2>3. d[j] = g[k] /\ d[j - 1] = g[j] BY <1>7, <2>1, <2>2
    <2>4. g[k] = g[j] + (IF replies[k].type = "frame_ready" THEN 1 ELSE 0) BY <1>5, <2>2
    <2>5. replies'[j] = replies[k] BY <1>2, <2>1
    <2> QED BY <2>3, <2>4, <2>5
  <1>13. \A j \in 1..n : replies'[j].type = "frame_ready" => ReadyRing[d[j]] = replies'[j].slot
    <2> TAKE j \in 1..n
    <2>1. PICK k : k = j + 1 OBVIOUS
    <2>2. k \in 1..(n + 1) /\ j \in 0..n BY <1>1, <2>1
    <2>3. d[j] = g[k] /\ replies'[j] = replies[k] BY <1>2, <1>7, <2>1, <2>2
    <2> QED BY <1>5, <2>2, <2>3
  <1>14. worker.at # "dead" => l = d[n] + (IF worker.at = "ready" THEN 1 ELSE 0)
    <2>1. n \in 0..n BY <1>1
    <2> QED BY <1>5, <1>7, <2>1
  <1>15. worker.at = "ready" => ReadyRing[l] = worker.got BY <1>5
  <1>16. ReadyCounts(d)' BY <1>2, <1>4, <1>7, <1>8, <1>10, <1>11, <1>12, <1>13, <1>14, <1>15 DEF ReadyCounts, Rising
  <1> QED BY <1>16 DEF ReadyOrder

\* The other answers keep their slots.
LEMMA OthersAnswered ==
    ASSUME SInv, OnFrameReady \/ OnFrameFailed
    PROVE  \A j \in 1..Len(replies') : \E k \in 1..Len(replies) :
               replies'[j] = replies[k] /\ outstanding'[replies'[j].ticket] = outstanding[replies[k].ticket]
  <1> PICK t : t = replies[1].ticket OBVIOUS
  <1> TAKE j \in 1..Len(replies')
  <1>1. Drain BY DEF Drain
  <1>2. j + 1 \in 1..Len(replies) /\ j + 1 # 1 /\ replies'[j] = replies[j + 1] /\ Len(replies) \in Nat /\ Len(replies) > 0
    BY <1>1, ReadEffect
  <1>3. PICK k : k = j + 1 OBVIOUS
  <1>4. /\ ~reconfiguring /\ DOMAIN outstanding' = DOMAIN outstanding \ {t}
        /\ \A u \in DOMAIN outstanding' : outstanding'[u] = outstanding[u]
    BY AnsweredIsOff
  <1>5. 1 \in 1..Len(replies) BY <1>2
  <1>6. IsFrame(replies[k]) /\ IsFrame(replies[1]) BY <1>2, <1>3, <1>4, <1>5 DEF SInv, Link
  <1>7. replies[k].ticket # t BY <1>2, <1>3, <1>5, <1>6 DEF SInv, OnePlace, OneReply
  <1>8. replies[k].ticket \in DOMAIN outstanding BY <1>2, <1>3, <1>6 DEF SInv, Agree
  <1>9. outstanding'[replies[k].ticket] = outstanding[replies[k].ticket] BY <1>4, <1>7, <1>8
  <1> QED BY <1>2, <1>3, <1>9

LEMMA OnHelloCapsLockstep ==
    ASSUME SInv, LInv, OnHelloCaps
    PROVE  LInv'
  <1> PICK h : h = replies[1] OBVIOUS
  <1>1. Drain BY DEF Drain
  <1>2. /\ main.at = "idle" /\ h.type = "hello_caps" /\ reconfiguring /\ Len(replies') = Len(replies) - 1 /\ Len(replies) \in Nat
        /\ Len(replies) > 0
        /\ UNCHANGED <<shm, seg, held, refs, inbox, worker, fresh>>
    BY <1>1, ReadEffect
  <1>3. UNCHANGED <<free_slots, main>> BY DEF OnHelloCaps
  <1>4. \A j \in 1..Len(replies') : FALSE
    <2>1. Len(replies') = 0 BY <1>2 DEF SInv, Link
    <2> QED BY <2>1
  <1>5. FreeRing' = FreeRing /\ ReadyRing' = ReadyRing /\ Free(seg)' = Free(seg) /\ Ready(seg)' = Ready(seg) /\ Unused'
    BY <1>2, RingsSame
  <1>6. FreeApart' BY <1>2, <1>3, <1>4, <1>5 DEF LInv, FreeApart, Has
  <1>7. ReadyApart' BY <1>2, <1>3, <1>4, <1>5 DEF LInv, ReadyApart, Has
  <1>8. HalfWay' BY <1>2, <1>3, <1>5 DEF LInv, HalfWay
  <1>9. FreeOrder'
    <2>1. Mirrored' = Mirrored BY <1>3 DEF Mirrored
    <2> QED BY <1>2, <1>3, <1>5, <2>1, FreeOrderSame DEF LInv
  <1>10. ReadyOrder'
    <2>1. main'.at \notin Draining BY <1>2, <1>3 DEF Draining
    <2> QED BY <1>1, <1>2, <1>5, <2>1, ReplyRead
  <1> QED BY <1>5, <1>6, <1>7, <1>8, <1>9, <1>10 DEF LInv

LEMMA OnFrameReadyLockstep ==
    ASSUME SInv, LInv, OnFrameReady
    PROVE  LInv'
  <1> PICK h : h = replies[1] OBVIOUS
  <1> PICK t : t = h.ticket OBVIOUS
  <1> PICK slot : slot = outstanding[t] OBVIOUS
  <1>1. Drain BY DEF Drain
  <1>2. /\ main.at = "idle" /\ h.type = "frame_ready" /\ Reply = h /\ Len(replies) \in Nat /\ Len(replies) > 0
        /\ UNCHANGED <<shm, seg, held, refs, inbox, worker, fresh>>
    BY <1>1, ReadEffect
  <1>3. t \in DOMAIN outstanding /\ h.slot = slot BY AnsweredIsOff
  <1>4. UNCHANGED free_slots /\ main'.at = "consume" /\ main'.slot = h.slot BY <1>2, <1>3 DEF OnFrameReady
  <1>5. FreeRing' = FreeRing /\ ReadyRing' = ReadyRing /\ Free(seg)' = Free(seg) /\ Ready(seg)' = Ready(seg) /\ Unused'
    BY <1>2, RingsSame
  <1>6. \A j \in 1..Len(replies') : \E k \in 1..Len(replies) :
            replies'[j] = replies[k] /\ outstanding'[replies'[j].ticket] = outstanding[replies[k].ticket]
    BY OthersAnswered
  <1>7. ~Has(FreeRing, slot)
    <2>1. 1 \in 1..Len(replies) /\ IsFrame(h) BY <1>2 DEF IsFrame
    <2> QED BY <2>1 DEF LInv, FreeApart
  <1>8. FreeApart'
    <2>1. \A j \in 1..Len(replies') : IsFrame(replies'[j]) => ~Has(FreeRing, outstanding'[replies'[j].ticket])
      BY <1>6 DEF LInv, FreeApart
    <2>2. /\ \A p \in 1..Len(FreeRing) : FreeRing[p] \in Slot(seg) /\ FreeRing[p] \notin held
          /\ \A p, o \in 1..Len(FreeRing) : FreeRing[p] = FreeRing[o] => p = o
          /\ worker.at \in Taken => ~Has(FreeRing, worker.todo[1].slot)
      BY DEF LInv, FreeApart
    <2> QED BY <1>2, <1>3, <1>4, <1>5, <1>7, <2>1, <2>2 DEF FreeApart, Has
  <1>9. ReadyApart'
    <2>1. \A j \in 1..Len(replies') : replies'[j].type = "frame_failed" => ~Has(ReadyRing, outstanding'[replies'[j].ticket])
      BY <1>6 DEF LInv, ReadyApart
    <2>2. /\ \A p \in 1..Len(ReadyRing) : ReadyRing[p] \in Slot(seg) /\ ReadyRing[p] \notin held /\ ~Has(FreeRing, ReadyRing[p])
          /\ \A p, o \in 1..Len(ReadyRing) : ReadyRing[p] = ReadyRing[o] => p = o
          /\ worker.at \in Taken \ {"ready"} => ~Has(ReadyRing, worker.todo[1].slot)
      BY DEF LInv, ReadyApart
    <2> QED BY <1>2, <1>4, <1>5, <2>1, <2>2 DEF ReadyApart, Has, Recycling
  <1>10. HalfWay' BY <1>2, <1>4, <1>5 DEF LInv, HalfWay, Recycling
  <1>11. FreeOrder'
    <2>1. Mirrored' = Mirrored BY <1>2, <1>4 DEF Mirrored, Recycling
    <2> QED BY <1>2, <1>4, <1>5, <2>1, FreeOrderSame DEF LInv
  <1>12. ReadyOrder'
    <2>1. main'.at \in Draining BY <1>4 DEF Draining
    <2> QED BY <1>1, <1>2, <1>4, <1>5, <2>1, ReplyRead
  <1> QED BY <1>5, <1>8, <1>9, <1>10, <1>11, <1>12 DEF LInv

\* A slot given back is not in the mirrored part of the list until its cursor is stored.
LEMMA RecycleOrder ==
    ASSUME SInv, LInv, NEW slot \in Slot(seg), Recycle(slot), seg' = seg, main.at \notin Recycling,
           FreeRing' = FreeRing, UNCHANGED <<inbox, worker>>
    PROVE  FreeOrder' /\ main'.at = "release" /\ main'.slot = slot
           /\ Len(free_slots') > 0 /\ free_slots'[Len(free_slots')] = slot
  <1>1. free_slots \in Seq(Slot(seg)) /\ seg \in Segment BY DEF SInv, Types, HandleType
  <1>2. /\ Len(free_slots) \in Nat /\ Len(free_slots') = Len(free_slots) + 1 /\ free_slots'[Len(free_slots')] = slot
        /\ \A i \in 1..Len(free_slots') : i # Len(free_slots') => i \in 1..Len(free_slots) /\ free_slots'[i] = free_slots[i]
        /\ main'.at = "release" /\ main'.slot = slot
    BY <1>1, RecycleEffect
  <1>3. PICK m \in Nat : m = Len(free_slots) BY <1>2
  <1>4. Mirrored = m
    <2>1. Mirrored = m - 0 BY <1>3 DEF Mirrored
    <2> QED BY <1>3, <2>1
  <1>5. Mirrored' = m
    <2>1. Mirrored' = (m + 1) - 1 BY <1>2, <1>3 DEF Mirrored, Recycling
    <2> QED BY <1>3, <2>1
  <1>6. \A i \in 1..m : free_slots'[i] = free_slots[i]
    <2> TAKE i \in 1..m
    <2>1. i \in 1..Len(free_slots') /\ i # Len(free_slots') BY <1>2, <1>3
    <2> QED BY <1>2, <2>1
  <1>7. FreeOrder' BY <1>4, <1>5, <1>6, FreeOrderSame DEF LInv
  <1>8. Len(free_slots') > 0 BY <1>2
  <1> QED BY <1>2, <1>7, <1>8

LEMMA OnFrameFailedLockstep ==
    ASSUME SInv, LInv, OnFrameFailed
    PROVE  LInv'
  <1> PICK h : h = replies[1] OBVIOUS
  <1> PICK t : t = h.ticket OBVIOUS
  <1> PICK slot : slot = outstanding[t] OBVIOUS
  <1>1. Drain BY DEF Drain
  <1>2. /\ main.at = "idle" /\ h.type = "frame_failed" /\ Reply = h /\ Len(replies) \in Nat /\ Len(replies) > 0
        /\ UNCHANGED <<shm, seg, held, refs, inbox, worker, fresh>>
    BY <1>1, ReadEffect
  <1>3. t \in DOMAIN outstanding /\ slot \in Slot(seg) BY AnsweredIsOff
  <1>4. Recycle(slot) BY <1>2, <1>3 DEF OnFrameFailed
  <1>5. FreeRing' = FreeRing /\ ReadyRing' = ReadyRing /\ Free(seg)' = Free(seg) /\ Ready(seg)' = Ready(seg) /\ Unused'
    BY <1>2, RingsSame
  <1>6. \A j \in 1..Len(replies') : \E k \in 1..Len(replies) :
            replies'[j] = replies[k] /\ outstanding'[replies'[j].ticket] = outstanding[replies[k].ticket]
    BY OthersAnswered
  <1>7. ~Has(FreeRing, slot) /\ ~Has(ReadyRing, slot)
    <2>1. 1 \in 1..Len(replies) /\ IsFrame(h) BY <1>2 DEF IsFrame
    <2> QED BY <1>2, <2>1 DEF LInv, FreeApart, ReadyApart
  <1>8. /\ FreeOrder' /\ main'.at = "release" /\ main'.slot = slot
        /\ Len(free_slots') > 0 /\ free_slots'[Len(free_slots')] = slot
    <2>1. main.at \notin Recycling BY <1>2 DEF Recycling
    <2> QED BY <1>2, <1>3, <1>4, <1>5, <2>1, RecycleOrder
  <1>9. FreeApart'
    <2>1. \A j \in 1..Len(replies') : IsFrame(replies'[j]) => ~Has(FreeRing, outstanding'[replies'[j].ticket])
      BY <1>6 DEF LInv, FreeApart
    <2>2. /\ \A p \in 1..Len(FreeRing) : FreeRing[p] \in Slot(seg) /\ FreeRing[p] \notin held
          /\ \A p, o \in 1..Len(FreeRing) : FreeRing[p] = FreeRing[o] => p = o
          /\ worker.at \in Taken => ~Has(FreeRing, worker.todo[1].slot)
      BY DEF LInv, FreeApart
    <2> QED BY <1>2, <1>5, <1>7, <1>8, <2>1, <2>2 DEF FreeApart, Has
  <1>10. ReadyApart'
    <2>1. \A j \in 1..Len(replies') : replies'[j].type = "frame_failed" => ~Has(ReadyRing, outstanding'[replies'[j].ticket])
      BY <1>6 DEF LInv, ReadyApart
    <2>2. /\ \A p \in 1..Len(ReadyRing) : ReadyRing[p] \in Slot(seg) /\ ReadyRing[p] \notin held /\ ~Has(FreeRing, ReadyRing[p])
          /\ \A p, o \in 1..Len(ReadyRing) : ReadyRing[p] = ReadyRing[o] => p = o
          /\ worker.at \in Taken \ {"ready"} => ~Has(ReadyRing, worker.todo[1].slot)
      BY DEF LInv, ReadyApart
    <2> QED BY <1>2, <1>5, <1>7, <1>8, <2>1, <2>2 DEF ReadyApart, Has
  <1>11. HalfWay' BY <1>2, <1>5, <1>8 DEF LInv, HalfWay
  <1>12. ReadyOrder'
    <2>1. main'.at \notin Draining BY <1>8 DEF Draining
    <2> QED BY <1>1, <1>2, <1>5, <2>1, ReplyRead
  <1> QED BY <1>5, <1>8, <1>9, <1>10, <1>11, <1>12 DEF LInv

\* The frame is handed to its consumer, or its slot given back.
LEMMA DeliverLockstep ==
    ASSUME SInv, LInv, Deliver
    PROVE  LInv'
  <1> PICK slot : slot = main.slot OBVIOUS
  <1>1. main.at = "deliver" /\ UNCHANGED <<shm, seg, outstanding, reconfiguring, pipeVars, worker, fresh>> BY DEF Deliver
  <1>2. FreeRing' = FreeRing /\ ReadyRing' = ReadyRing /\ Free(seg)' = Free(seg) /\ Ready(seg)' = Ready(seg) /\ Unused'
    BY <1>1, RingsSame
  <1>3. ~Has(FreeRing, slot) /\ ~Has(ReadyRing, slot) /\ slot \in Slot(seg)
    BY <1>1 DEF LInv, FreeApart, ReadyApart, SInv, InHandApart, InHand
  <1>4. /\ \A p \in 1..Len(FreeRing) : FreeRing[p] \in Slot(seg) /\ FreeRing[p] \notin held /\ FreeRing[p] # slot
        /\ \A p, o \in 1..Len(FreeRing) : FreeRing[p] = FreeRing[o] => p = o
        /\ \A j \in 1..Len(replies) : IsFrame(replies[j]) => ~Has(FreeRing, outstanding[replies[j].ticket])
        /\ worker.at \in Taken => ~Has(FreeRing, worker.todo[1].slot)
    BY <1>3 DEF LInv, FreeApart, Has
  <1>5. /\ \A p \in 1..Len(ReadyRing) :
              ReadyRing[p] \in Slot(seg) /\ ReadyRing[p] \notin held /\ ReadyRing[p] # slot /\ ~Has(FreeRing, ReadyRing[p])
        /\ \A p, o \in 1..Len(ReadyRing) : ReadyRing[p] = ReadyRing[o] => p = o
        /\ \A j \in 1..Len(replies) : replies[j].type = "frame_failed" => ~Has(ReadyRing, outstanding[replies[j].ticket])
        /\ worker.at \in Taken \ {"ready"} => ~Has(ReadyRing, worker.todo[1].slot)
    <2>1. \A p \in 1..Len(ReadyRing) : ReadyRing[p] # slot BY <1>3 DEF Has
    <2> QED BY <2>1 DEF LInv, ReadyApart
  <1>6. ReadyOrder'
    <2>1. main'.at \notin Draining BY DEF Deliver, Recycle, Idle, Draining
    <2>2. main.at \notin Draining /\ UNCHANGED <<replies, worker>> BY <1>1 DEF Draining, pipeVars
    <2> QED BY <1>2, <2>1, <2>2, ReadyOrderSame DEF LInv
  <1>7. CASE ticket[main.ticket] = "sent"
    <2>1. held' = held \cup {slot} /\ main'.at = "idle" /\ UNCHANGED free_slots BY <1>7 DEF Deliver, Idle
    <2>2. FreeApart' BY <1>1, <1>2, <1>4, <2>1 DEF FreeApart, Has, pipeVars
    <2>3. ReadyApart' BY <1>1, <1>2, <1>5, <2>1 DEF ReadyApart, Has, Recycling, pipeVars
    <2>4. HalfWay' BY <1>1, <1>2, <2>1 DEF LInv, HalfWay, Recycling
    <2>5. FreeOrder'
      <3>1. Mirrored' = Mirrored BY <1>1, <2>1 DEF Mirrored, Recycling
      <3> QED BY <1>1, <1>2, <2>1, <3>1, FreeOrderSame DEF LInv, pipeVars
    <2> QED BY <1>2, <1>6, <2>2, <2>3, <2>4, <2>5 DEF LInv
  <1>8. CASE ticket[main.ticket] # "sent"
    <2>1. Recycle(slot) /\ UNCHANGED held BY <1>8 DEF Deliver
    <2>2. /\ FreeOrder' /\ main'.at = "release" /\ main'.slot = slot
          /\ Len(free_slots') > 0 /\ free_slots'[Len(free_slots')] = slot
      <3>1. main.at \notin Recycling BY <1>1 DEF Recycling
      <3> QED BY <1>1, <1>2, <1>3, <2>1, <3>1, RecycleOrder DEF pipeVars
    <2>3. FreeApart' BY <1>1, <1>2, <1>3, <1>4, <2>1, <2>2 DEF FreeApart, Has, pipeVars
    <2>4. ReadyApart' BY <1>1, <1>2, <1>3, <1>5, <2>1, <2>2 DEF ReadyApart, Has, pipeVars
    <2>5. HalfWay' BY <1>1, <1>2, <2>2 DEF LInv, HalfWay
    <2> QED BY <1>2, <1>6, <2>2, <2>3, <2>4, <2>5 DEF LInv
  <1> QED BY <1>7, <1>8

\* A consumer gives its frame back.
LEMMA ReleaseFrameLockstep ==
    ASSUME SInv, LInv, NEW f \in refs, ReleaseFrame(f)
    PROVE  LInv'
  <1> PICK slot : slot = f.slot OBVIOUS
  <1>1. main.at = "idle" /\ UNCHANGED <<shm, seg, outstanding, reconfiguring, ticket, pipeVars, worker, fresh>>
    BY DEF ReleaseFrame
  <1>2. CASE f.seg = seg /\ slot \in held
    <2>1. held' = held \ {slot} /\ Recycle(slot) BY <1>2 DEF ReleaseFrame
    <2>2. FreeRing' = FreeRing /\ ReadyRing' = ReadyRing /\ Free(seg)' = Free(seg) /\ Ready(seg)' = Ready(seg) /\ Unused'
      BY <1>1, RingsSame
    <2>3. slot \in Slot(seg) BY <1>2 DEF SInv, Types, HandleType
    <2>4. /\ FreeOrder' /\ main'.at = "release" /\ main'.slot = slot
          /\ Len(free_slots') > 0 /\ free_slots'[Len(free_slots')] = slot
      <3>1. main.at \notin Recycling BY <1>1 DEF Recycling
      <3> QED BY <1>1, <2>1, <2>2, <2>3, <3>1, RecycleOrder DEF pipeVars
    <2>5. ~Has(FreeRing, slot) /\ ~Has(ReadyRing, slot) BY <1>2 DEF LInv, FreeApart, ReadyApart, Has
    <2>6. FreeApart'
      <3>1. /\ \A p \in 1..Len(FreeRing) : FreeRing[p] \in Slot(seg) /\ FreeRing[p] \notin held
            /\ \A p, o \in 1..Len(FreeRing) : FreeRing[p] = FreeRing[o] => p = o
            /\ \A j \in 1..Len(replies) : IsFrame(replies[j]) => ~Has(FreeRing, outstanding[replies[j].ticket])
            /\ worker.at \in Taken => ~Has(FreeRing, worker.todo[1].slot)
        BY DEF LInv, FreeApart
      <3> QED BY <1>1, <2>1, <2>2, <2>4, <2>5, <3>1 DEF FreeApart, Has, pipeVars
    <2>7. ReadyApart'
      <3>1. /\ \A p \in 1..Len(ReadyRing) : ReadyRing[p] \in Slot(seg) /\ ReadyRing[p] \notin held /\ ~Has(FreeRing, ReadyRing[p])
            /\ \A p, o \in 1..Len(ReadyRing) : ReadyRing[p] = ReadyRing[o] => p = o
            /\ \A j \in 1..Len(replies) : replies[j].type = "frame_failed" => ~Has(ReadyRing, outstanding[replies[j].ticket])
            /\ worker.at \in Taken \ {"ready"} => ~Has(ReadyRing, worker.todo[1].slot)
        BY DEF LInv, ReadyApart
      <3> QED BY <1>1, <2>1, <2>2, <2>4, <2>5, <3>1 DEF ReadyApart, Has, pipeVars
    <2>8. HalfWay' BY <1>1, <2>2, <2>4 DEF LInv, HalfWay
    <2>9. ReadyOrder'
      <3>1. main'.at \notin Draining /\ main.at \notin Draining BY <1>1, <2>4 DEF Draining
      <3> QED BY <1>1, <2>2, <3>1, ReadyOrderSame DEF LInv, pipeVars
    <2> QED BY <2>2, <2>4, <2>6, <2>7, <2>8, <2>9 DEF LInv
  <1>3. CASE ~(f.seg = seg /\ slot \in held)
    <2>1. UNCHANGED <<held, free_slots, main>> BY <1>3 DEF ReleaseFrame
    <2> QED BY <1>1, <2>1, PlaceStep DEF handleVars
  <1> QED BY <1>2, <1>3

\* A fresh segment has every slot in its free ring, and a pipe with nothing assigned.
LEMMA FreshLockstep ==
    ASSUME SInv, LInv, seg' = seg + 1, seg + 1 \in Segment, UNCHANGED shm, held' = {}, main'.at = "idle",
           Len(free_slots') = Slots[seg + 1], \A i \in 1..Slots[seg + 1] : free_slots'[i] = i - 1,
           Len(inbox') = 1, inbox'[1].specs = <<>>, Len(replies') = 0,
           worker'.todo = <<>>, worker'.at \in {"loop", "dead"}
    PROVE  LInv'
  <1>0. seg \in Nat /\ Slots[seg + 1] \in Nat BY ExchangeAssumption, RingsInUse
  <1>1. PICK n \in Nat : n = Slots[seg + 1] BY <1>0
  <1>2. shm'[seg'] = NewSegment(seg + 1) BY <1>0 DEF LInv, Unused
  <1>3. Free(seg)' = Seeded(n) /\ Ready(seg)' = NewRing(n) BY <1>1, <1>2 DEF NewSegment, Free, Ready
  <1>4. Len(FreeRing') = n /\ (\A k \in 1..n : FreeRing'[k] = k - 1) /\ Len(ReadyRing') = 0
    BY <1>3, SeededHolds DEF FreeRing, ReadyRing
  <1>5. Len(inbox'[1].specs) = 0 /\ Len(worker'.todo) = 0 OBVIOUS
  <1>6. worker'.at \notin Taken /\ worker'.at # "ready" /\ worker'.at # "published" /\ worker'.at # "acquired" BY DEF Taken
  <1>7. (\A k \in 1..Len(replies') : FALSE) /\ (\A k \in 1..Len(ReadyRing') : FALSE) BY <1>4
  <1>11. Unused'
    <2>1. \A s \in Segment : s > seg + 1 => s > seg BY <1>0 DEF Segment
    <2> QED BY <2>1 DEF LInv, Unused
  <1>12. FreeApart'
    <2>1. Slot(seg)' = 0..(n - 1) BY <1>1 DEF Slot
    <2> QED BY <1>4, <1>6, <1>7, <2>1 DEF FreeApart
  <1>13. ReadyApart' BY <1>6, <1>7 DEF ReadyApart, Recycling, Has
  <1>14. HalfWay' BY <1>6 DEF HalfWay, Recycling
  <1>15. FreeOrder'
    <2> DEFINE c == [k \in 0..2 |-> 0]
    <2>1. c \in [0..2 -> -1..n] /\ c[0] = 0 /\ c[1] = 0 /\ c[2] = 0 /\ Rising(c, 2) BY DEF Rising
    <2> HIDE DEF c
    <2>2. Mirrored' = n BY <1>1 DEF Mirrored, Recycling
    <2>3. \A k \in 1..1 : k = 1 OBVIOUS
    <2>4. \A k \in 1..Len(inbox') : c[k + 1] = c[k] + Len(inbox'[k].specs) BY <1>5, <2>1, <2>3
    <2>5. \A k \in 1..Len(inbox') : \A i \in 1..Len(inbox'[k].specs) : FALSE BY <1>5, <2>3
    <2>6. \A i \in 1..Len(worker'.todo) : FALSE BY <1>5
    <2>7. \A i \in 1..n : FreeRing'[0 + i] = free_slots'[i] BY <1>1, <1>4
    <2>8. n = 0 + n /\ 1 + 1 = 2 OBVIOUS
    <2>9. FreeCuts(c)' BY <1>4, <1>5, <1>6, <2>1, <2>2, <2>4, <2>5, <2>6, <2>7, <2>8 DEF FreeCuts, Rising
    <2> QED BY <2>9 DEF FreeOrder
  <1>16. ReadyOrder'
    <2> DEFINE g == [k \in 0..0 |-> 0]
    <2>1. g \in [0..0 -> 0..0] /\ g[0] = 0 /\ Rising(g, 0) BY DEF Rising
    <2> HIDE DEF g
    <2>2. ReadyCounts(g)' BY <1>4, <1>6, <1>7, <2>1 DEF ReadyCounts, Rising, Draining
    <2> QED BY <2>2 DEF ReadyOrder
  <1> QED BY <1>11, <1>12, <1>13, <1>14, <1>15, <1>16 DEF LInv

LEMMA RebuildLockstep ==
    ASSUME SInv, LInv, RebuildSegment
    PROVE  LInv'
  <1>1. /\ main.at = "idle" /\ ~reconfiguring /\ DOMAIN outstanding = {} /\ Reseed(Append(inbox, Handshake(seg + 1)))
        /\ UNCHANGED <<shm, outstanding, main, ticket, refs, replies, worker>>
    BY DEF RebuildSegment
  <1>2. seg + 1 \in Segment BY RebuildKeeps
  <1>3. Len(inbox) = 0 /\ Len(replies) = 0 /\ worker.todo = <<>> /\ worker.at \in {"loop", "dead"} BY <1>1, NothingOut
  <1>4. /\ seg' = seg + 1 /\ held' = {} /\ inbox' = Append(inbox, Handshake(seg + 1))
        /\ Len(free_slots') = Slots[seg'] /\ \A i \in 1..Slots[seg'] : free_slots'[i] = i - 1
    BY <1>1, <1>2, ReseedEffect
  <1>5. Len(inbox') = 1 /\ inbox'[1] = Handshake(seg + 1)
    <2>1. inbox \in Seq(MsgType) /\ Handshake(seg + 1) \in MsgType BY <1>2, HandshakeType DEF SInv, Types, PipeType
    <2>2. Len(inbox') = Len(inbox) + 1 /\ inbox'[Len(inbox) + 1] = Handshake(seg + 1) BY ONLY <1>4, <2>1, AppendIs
    <2> QED BY <1>3, <2>2
  <1>6. inbox'[1].specs = <<>> BY <1>5 DEF Handshake
  <1> QED BY <1>1, <1>2, <1>3, <1>4, <1>5, <1>6, FreshLockstep

LEMMA RestartLockstep ==
    ASSUME SInv, LInv, RestartWorker
    PROVE  LInv'
  <1>1. /\ main.at = "idle" /\ Reseed(<<Handshake(seg + 1)>>) /\ replies' = <<>> /\ worker' = Loop(0)
        /\ UNCHANGED <<shm, main, refs, fresh>>
    BY DEF RestartWorker
  <1>2. seg + 1 \in Segment BY RestartKeeps
  <1>4. /\ seg' = seg + 1 /\ held' = {} /\ inbox' = <<Handshake(seg + 1)>>
        /\ Len(free_slots') = Slots[seg'] /\ \A i \in 1..Slots[seg'] : free_slots'[i] = i - 1
    BY <1>1, <1>2, ReseedEffect
  <1>5. Len(inbox') = 1 /\ inbox'[1] = Handshake(seg + 1) BY <1>4
  <1>6. inbox'[1].specs = <<>> BY <1>5 DEF Handshake
  <1>7. worker'.todo = <<>> /\ worker'.at = "loop" /\ Len(replies') = 0 BY <1>1 DEF Loop
  <1> QED BY <1>1, <1>2, <1>4, <1>5, <1>6, <1>7, FreshLockstep

\* The slots of a dispatch are the next free ones of the ring, message after message.
LEMMA DispatchOrder ==
    ASSUME SInv, LInv, NEW order, NEW m, NEW off, Sends(order, m, off), DispatchGives(order)
    PROVE  FreeOrder'
  <1>0. main.at = "idle" /\ UNCHANGED <<shm, seg, main, worker>> BY DEF DispatchGives
  <1> SUFFICES ASSUME worker'.at # "dead" PROVE \E c : FreeCuts(c)' BY DEF FreeOrder
  <1>1. PICK c : FreeCuts(c) BY <1>0 DEF LInv, FreeOrder
  <1>2. Within(c) BY <1>1, CutsWithin
  <1>3. PICK n \in Nat : n = Len(inbox) BY DEF SInv, Types, PipeType
  <1>4. PICK l \in Nat : l = Len(FreeRing) BY RingsInUse
  <1>5. PICK L \in Nat : L = Len(order) /\ L > 0 /\ L <= Len(free_slots) BY DEF DispatchGives
  <1>6. PICK F \in Nat : F = Len(free_slots) BY DEF DispatchGives
  <1>7. m \in {1, 2} /\ off \in [1..m -> 0..L] /\ off[1] = 0 /\ Len(inbox') = n + m BY <1>3, <1>5 DEF Sends
  <1>8. FreeRing' = FreeRing BY <1>0 DEF FreeRing, Free
  <1>9. Mirrored = F
    <2>1. Mirrored = F - 0 BY <1>0, <1>6 DEF Mirrored, Recycling
    <2> QED BY <1>6, <2>1
  <1>10. Mirrored' = F - L
    <2>1. Len(free_slots') = F - L BY <1>5, <1>6 DEF DispatchGives
    <2>2. Mirrored' = (F - L) - 0 BY <1>0, <2>1 DEF Mirrored, Recycling
    <2> QED BY <1>5, <1>6, <2>2
  <1>11. PICK base \in Nat : base = c[n + 1] /\ l = base + F
    <2>1. n + 1 \in 0..(n + 1) /\ n + 1 \in 1..(n + 1) BY <1>3
    <2>2. c[n + 1] \in Int /\ c[n + 1] >= 0 BY <1>2, <1>3, <2>1 DEF Within
    <2>3. l = c[n + 1] + F BY <1>1, <1>3, <1>4, <1>9 DEF FreeCuts
    <2> QED BY <2>2, <2>3
  <1>t. base \in Nat /\ F \in Nat /\ L \in Nat /\ l \in Nat /\ L > 0 /\ L <= F /\ l = base + F
    BY <1>4, <1>5, <1>6, <1>11
  <1>12. \A i \in 1..F : FreeRing[base + i] = free_slots[i] BY <1>1, <1>3, <1>9, <1>11 DEF FreeCuts
  <1> DEFINE e == [k \in 1..(m + 1) |-> IF k = m + 1 THEN L ELSE off[k]]
  <1>13. \A k \in 1..(m + 1) : k = m + 1 \/ k \in 1..m BY <1>7
  <1>14. e[m + 1] = L /\ \A k \in 1..m : e[k] = off[k]
    <2>1. m + 1 \in 1..(m + 1) /\ \A k \in 1..m : k \in 1..(m + 1) /\ k # m + 1 BY <1>7
    <2> QED BY <2>1
  <1>15. e \in [1..(m + 1) -> 0..L] BY <1>5, <1>7, <1>13
  <1> HIDE DEF e
  <1>16. e[1] = 0
    <2>1. 1 \in 1..m BY <1>7
    <2> QED BY <1>7, <1>14, <2>1
  <1>17. \A k \in 1..m : e[k] + Len(inbox'[n + k].specs) = e[k + 1]
    <2> TAKE k \in 1..m
    <2>1. off[k] + Len(inbox'[n + k].specs) = (IF k = m THEN L ELSE off[k + 1]) BY <1>3, <1>5 DEF Sends
    <2>2. CASE k = m BY <1>14, <2>1, <2>2
    <2>3. CASE k # m
      <3>1. k + 1 \in 1..m BY <1>7, <2>3
      <3> QED BY <1>14, <2>1, <2>3, <3>1
    <2> QED BY <2>2, <2>3
  <1>18. \A k \in 1..m : \A i \in 1..Len(inbox'[n + k].specs) : inbox'[n + k].specs[i].slot = free_slots[e[k] + i]
    <2> SUFFICES ASSUME NEW k \in 1..m, NEW i \in 1..Len(inbox'[n + k].specs)
                 PROVE  inbox'[n + k].specs[i].slot = free_slots[e[k] + i]
      OBVIOUS
    <2>1. inbox'[n + k].specs[i].slot = free_slots[off[k] + i] BY <1>3 DEF Sends
    <2> QED BY <1>14, <2>1
  <1>19. \A j, k \in 1..(m + 1) : j <= k => e[j] <= e[k]
    <2> SUFFICES ASSUME NEW j \in 1..(m + 1), NEW k \in 1..(m + 1), j <= k PROVE e[j] <= e[k] OBVIOUS
    <2>1. e[j] \in 0..L /\ e[k] \in 0..L BY <1>15
    <2>2. CASE k = m + 1 BY <1>14, <2>1, <2>2
    <2>3. CASE j = 1 BY <1>16, <2>1, <2>3
    <2>4. CASE k # m + 1 /\ j # 1
      <3>1. j = k BY <1>7, <2>4
      <3> QED BY <2>1, <3>1
    <2> QED BY <2>2, <2>3, <2>4
  <1> DEFINE d == [k \in 0..(n + m + 1) |-> IF k <= n THEN c[k] ELSE base + e[k - n]]
  <1>20. \A k \in 0..(n + m + 1) : (k <= n /\ k \in 0..(n + 1)) \/ (~(k <= n) /\ k - n \in 1..(m + 1)) BY <1>3, <1>7
  <1>21. \A k \in 0..n : d[k] = c[k] BY <1>3, <1>7
  <1>22. \A k \in 1..(m + 1) : d[n + k] = base + e[k]
    <2> TAKE k \in 1..(m + 1)
    <2>1. PICK a : a = n + k OBVIOUS
    <2>2. a \in 0..(n + m + 1) /\ ~(a <= n) /\ a - n = k BY <1>3, <1>7, <2>1
    <2> QED BY <2>1, <2>2
  <1>23. d \in [0..(n + m + 1) -> -1..l]
    <2> SUFFICES ASSUME NEW k \in 0..(n + m + 1) PROVE (IF k <= n THEN c[k] ELSE base + e[k - n]) \in -1..l OBVIOUS
    <2>1. CASE k <= n
      <3>1. c[k] \in -1..l BY <1>1, <1>3, <1>4, <1>20, <2>1 DEF FreeCuts
      <3> QED BY <2>1, <3>1
    <2>2. CASE ~(k <= n)
      <3>1. PICK b \in 0..L : b = e[k - n] BY <1>15, <1>20, <2>2
      <3>2. base + b \in -1..l
        <4>1. b \in 0..L BY <3>1
        <4> QED BY ONLY <1>t, <4>1
      <3> QED BY <2>2, <3>1, <3>2
    <2> QED BY <2>1, <2>2
  <1> HIDE DEF d
  <1>24. d[n + 1] = base
    <2>1. 1 \in 1..(m + 1) BY <1>7
    <2>2. d[n + 1] = base + e[1] BY <1>22, <2>1
    <2> QED BY <1>11, <1>16, <2>2
  <1>25. \A k \in 0..(n + 1) : d[k] = c[k]
    <2> TAKE k \in 0..(n + 1)
    <2>1. CASE k = n + 1 BY <1>11, <1>24, <2>1
    <2>2. CASE k # n + 1
      <3>1. k \in 0..n BY <1>3, <2>2
      <3> QED BY <1>21, <3>1
    <2> QED BY <2>1, <2>2
  <1>26. Rising(d, n + m + 1)
    <2> SUFFICES ASSUME NEW j \in 0..(n + m + 1), NEW k \in 0..(n + m + 1), j <= k PROVE d[j] <= d[k] BY DEF Rising
    <2>1. CASE k <= n
      <3>1. j \in 0..(n + 1) /\ k \in 0..(n + 1) BY <1>3, <1>7, <2>1
      <3>2. c[j] <= c[k] BY <1>1, <1>3, <3>1 DEF FreeCuts, Rising
      <3> QED BY <1>25, <3>1, <3>2
    <2>2. CASE ~(k <= n)
      <3>1. PICK b \in 1..(m + 1) : k = n + b
        <4>1. k - n \in 1..(m + 1) /\ k = n + (k - n) BY <1>3, <1>7, <2>2
        <4> QED BY <4>1
      <3>2. d[k] = base + e[b] /\ e[b] \in 0..L BY <1>15, <1>22, <3>1
      <3>3. CASE j <= n
        <4>1. j \in 0..(n + 1) /\ n + 1 \in 0..(n + 1) /\ j <= n + 1 BY <1>3, <3>3
        <4>2. c[j] <= base /\ c[j] \in Int BY <1>1, <1>2, <1>3, <1>11, <4>1 DEF FreeCuts, Rising, Within
        <4>3. d[j] = c[j] BY <1>25, <4>1
        <4>4. PICK x \in 0..L : x = e[b] BY <3>2
        <4>5. PICK y \in Int : y = c[j] BY <4>2
        <4>6. y <= base + x
          <5>1. y <= base /\ y \in Int /\ x \in 0..L BY <4>2, <4>4, <4>5
          <5> QED BY ONLY <1>t, <5>1
        <4> QED BY <3>2, <4>3, <4>4, <4>5, <4>6
      <3>4. CASE ~(j <= n)
        <4>1. PICK a \in 1..(m + 1) : j = n + a
          <5>1. j - n \in 1..(m + 1) /\ j = n + (j - n) BY <1>3, <1>7, <3>4
          <5> QED BY <5>1
        <4>2. a <= b BY <1>3, <1>7, <3>1, <4>1
        <4>3. d[j] = base + e[a] /\ e[a] \in 0..L /\ e[a] <= e[b] BY <1>15, <1>19, <1>22, <4>1, <4>2
        <4>4. PICK x \in 0..L : x = e[b] BY <3>2
        <4>5. PICK y \in 0..L : y = e[a] BY <4>3
        <4>6. base + y <= base + x
          <5>1. y <= x /\ y \in 0..L /\ x \in 0..L BY <4>3, <4>4, <4>5
          <5> QED BY ONLY <1>t, <5>1
        <4> QED BY <3>2, <4>3, <4>4, <4>5, <4>6
      <3> QED BY <3>3, <3>4
    <2> QED BY <2>1, <2>2
  <1>27. \A k \in 1..n : inbox'[k] = inbox[k] BY <1>3 DEF Sends
  <1>28. \A k \in 1..(n + m) : k \in 1..n \/ \E b \in 1..m : k = n + b
    <2> TAKE k \in 1..(n + m)
    <2>1. CASE k <= n BY <1>3, <1>7, <2>1
    <2>2. CASE ~(k <= n)
      <3>1. k - n \in 1..m /\ k = n + (k - n) BY <1>3, <1>7, <2>2
      <3> QED BY <3>1
    <2> QED BY <2>1, <2>2
  <1>29. \A k \in 1..(n + m) : d[k + 1] = d[k] + Len(inbox'[k].specs)
    <2> TAKE k \in 1..(n + m)
    <2>1. CASE k \in 1..n
      <3>1. k \in 0..(n + 1) /\ k + 1 \in 0..(n + 1) BY <1>3, <2>1
      <3>2. c[k + 1] = c[k] + Len(inbox[k].specs) BY <1>1, <1>3, <2>1 DEF FreeCuts
      <3> QED BY <1>25, <1>27, <2>1, <3>1, <3>2
    <2>2. CASE \E b \in 1..m : k = n + b
      <3>1. PICK b \in 1..m : k = n + b BY <2>2
      <3>2. b \in 1..(m + 1) /\ b + 1 \in 1..(m + 1) /\ k + 1 = n + (b + 1) BY <1>3, <1>7, <3>1
      <3>3. d[k] = base + e[b] /\ d[k + 1] = base + e[b + 1] BY <1>22, <3>1, <3>2
      <3>4. e[b + 1] = e[b] + Len(inbox'[k].specs) BY <1>17, <3>1
      <3>5. PICK x \in Int : x = e[b] BY <1>15, <3>2
      <3>6. PICK z \in Nat : z = Len(inbox'[k].specs)
        <4>1. inbox' \in Seq(MsgType) /\ Len(inbox') = n + m BY <1>7 DEF Sends
        <4>2. inbox'[k] \in MsgType BY <4>1, ElementOfSeq
        <4> QED BY <4>2 DEF MsgType
      <3>7. base + (x + z) = (base + x) + z
        <4>1. x \in Int /\ z \in Nat BY <3>5, <3>6
        <4> QED BY ONLY <1>t, <4>1
      <3> QED BY <3>3, <3>4, <3>5, <3>6, <3>7
    <2> QED BY <1>28, <2>1, <2>2
  <1>30. \A k \in 1..(n + m) : \A i \in 1..Len(inbox'[k].specs) : FreeRing[d[k] + i] = inbox'[k].specs[i].slot
    <2> TAKE k \in 1..(n + m)
    <2>1. CASE k \in 1..n
      <3>1. k \in 0..(n + 1) BY <1>3, <2>1
      <3>2. d[k] = c[k] /\ inbox'[k] = inbox[k] BY <1>25, <1>27, <2>1, <3>1
      <3> QED BY <1>1, <1>3, <2>1, <3>2 DEF FreeCuts
    <2>2. CASE \E b \in 1..m : k = n + b
      <3>1. PICK b \in 1..m : k = n + b BY <2>2
      <3>2. b \in 1..(m + 1) /\ b + 1 \in 1..(m + 1) BY <1>7, <3>1
      <3>3. d[k] = base + e[b] BY <1>22, <3>1, <3>2
      <3>4. PICK x \in Nat : x = e[b] BY <1>15, <3>2
      <3> TAKE i \in 1..Len(inbox'[k].specs)
      <3>5. PICK z \in Nat : z = Len(inbox'[k].specs)
        <4>1. inbox' \in Seq(MsgType) /\ Len(inbox') = n + m BY <1>7 DEF Sends
        <4>2. inbox'[k] \in MsgType BY <4>1, ElementOfSeq
        <4> QED BY <4>2 DEF MsgType
      <3>6. x + z <= L
        <4>1. x + z = e[b + 1] BY <1>17, <3>1, <3>4, <3>5
        <4> QED BY <1>15, <3>2, <4>1
      <3>7. x + i \in 1..F /\ (base + x) + i = base + (x + i)
        <4>1. x \in Nat /\ z \in Nat /\ i \in 1..z /\ x + z <= L BY <3>4, <3>5, <3>6
        <4> QED BY ONLY <1>t, <4>1
      <3>8. FreeRing[base + (x + i)] = free_slots[x + i] BY <1>12, <3>7
      <3>9. inbox'[k].specs[i].slot = free_slots[x + i] BY <1>18, <3>1, <3>4
      <3> QED BY <3>3, <3>4, <3>7, <3>8, <3>9
    <2> QED BY <1>28, <2>1, <2>2
  <1>31. d[n + m + 1] = base + L
    <2>1. m + 1 \in 1..(m + 1) /\ n + (m + 1) = n + m + 1 BY <1>3, <1>7
    <2> QED BY <1>14, <1>22, <2>1
  <1>32. l = (base + L) + (F - L) BY ONLY <1>t
  <1>33. \A i \in 1..(F - L) : FreeRing[(base + L) + i] = free_slots'[i]
    <2> TAKE i \in 1..(F - L)
    <2>1. L + i \in 1..F /\ (base + L) + i = base + (L + i)
      <3>1. i \in 1..(F - L) OBVIOUS
      <3> QED BY ONLY <1>t, <3>1
    <2>2. free_slots'[i] = free_slots[L + i] BY <1>5, <1>6 DEF DispatchGives
    <2> QED BY <1>12, <2>1, <2>2
  <1>34. /\ d[0] = (IF worker.at \in Taken THEN -1 ELSE 0) /\ d[1] = d[0] + Len(worker.todo)
         /\ \A i \in 1..Len(worker.todo) : d[0] + i > 0 => FreeRing[d[0] + i] = worker.todo[i].slot
    <2>1. 0 \in 0..(n + 1) /\ 1 \in 0..(n + 1) BY <1>3
    <2>2. d[0] = c[0] /\ d[1] = c[1] BY <1>25, <2>1
    <2> QED BY <1>1, <2>2 DEF FreeCuts
  <1>35. Len(inbox') + 1 = n + m + 1 BY <1>7
  <1>36. FreeCuts(d)'
    BY <1>0, <1>4, <1>7, <1>8, <1>10, <1>23, <1>26, <1>29, <1>30, <1>31, <1>32, <1>33, <1>34, <1>35 DEF FreeCuts, Rising
  <1> QED BY <1>36

LEMMA DispatchLockstep ==
    ASSUME SInv, LInv, NEW video \in Claims(Ticket \ Audio), NEW audio \in Claims(Audio), Dispatch(video, audio)
    PROVE  LInv'
  <1> PICK order : order = Ordered(video, audio) OBVIOUS
  <1>1. PICK m, off : Sends(order, m, off) BY DispatchSends
  <1>2. DispatchGives(order) BY DispatchEffect
  <1>3. /\ main.at = "idle" /\ UNCHANGED <<shm, seg, held, reconfiguring, main, refs, replies, worker, fresh>>
        /\ \A t \in DOMAIN outstanding : outstanding'[t] = outstanding[t]
    BY <1>2 DEF DispatchGives
  <1>4. FreeRing' = FreeRing /\ ReadyRing' = ReadyRing /\ Free(seg)' = Free(seg) /\ Ready(seg)' = Ready(seg) /\ Unused'
    BY <1>3, RingsSame
  <1>5. \A j \in 1..Len(replies) : IsFrame(replies[j]) => outstanding'[replies[j].ticket] = outstanding[replies[j].ticket]
    BY <1>3 DEF SInv, Agree
  <1>6. FreeApart' BY <1>3, <1>4, <1>5 DEF LInv, FreeApart, Has
  <1>7. ReadyApart'
    <2>1. \A j \in 1..Len(replies) : replies[j].type = "frame_failed" => outstanding'[replies[j].ticket] = outstanding[replies[j].ticket]
      BY <1>5 DEF IsFrame
    <2> QED BY <1>3, <1>4, <2>1 DEF LInv, ReadyApart, Has
  <1>8. HalfWay' BY <1>3, <1>4 DEF LInv, HalfWay, Recycling
  <1>9. FreeOrder' BY <1>1, <1>2, DispatchOrder
  <1>10. ReadyOrder' BY <1>3, <1>4, ReadyOrderSame DEF LInv
  <1> QED BY <1>4, <1>6, <1>7, <1>8, <1>9, <1>10 DEF LInv

--------------------------------------------------------------------------------

\* Every step of the exchange keeps the order of the rings.
LEMMA LockstepStep == SInv /\ LInv /\ [Next]_vars => LInv'
  <1> SUFFICES ASSUME SInv, LInv, [Next]_vars PROVE LInv' OBVIOUS
  <1>1. CASE SomeDispatch BY <1>1, DispatchLockstep DEF SomeDispatch
  <1>2. CASE \E t \in Ticket : Cancel(t) BY <1>2, CancelLockstep
  <1>3. CASE \E f \in refs : ReleaseFrame(f) BY <1>3, ReleaseFrameLockstep
  <1>4. CASE MainStep
    BY <1>4, ConsumeLockstep, ConsumedLockstep, DeliverLockstep, ReleaseLockstep, ReleasedLockstep DEF MainStep
  <1>5. CASE Drain BY <1>5, OnHelloCapsLockstep, OnFrameReadyLockstep, OnFrameFailedLockstep DEF Drain
  <1>6. CASE RebuildSegment BY <1>6, RebuildLockstep
  <1>7. CASE RestartWorker BY <1>7, RestartLockstep
  <1>8. CASE WorkerStep
    BY <1>8, AttachLockstep, TakeBatchLockstep, AcquireLockstep, AcquiredLockstep, RenderLockstep, PublishLockstep,
       PublishedLockstep, SayLockstep DEF WorkerStep
  <1>9. CASE Crash BY <1>9, CrashLockstep
  <1>10. CASE UNCHANGED vars BY <1>10, PlaceStep DEF vars
  <1> QED BY <1>1, <1>2, <1>3, <1>4, <1>5, <1>6, <1>7, <1>8, <1>9, <1>10 DEF Next

\* "The worker's `acquire` always pops exactly the assigned slot", frame_ready and the
\* ready ring name the same slot, and neither ring is ever full, whatever fails, is
\* cancelled, crashes or grows.
THEOREM StayInLockstep == Spec => []InLockstep
  BY LockstepStart, LockstepStep, LockstepHolds, SlotsInvariant, PTL DEF Spec, Safety

--------------------------------------------------------------------------------
(* What the messages on their way add up to *)

NatOrder == {ss \in Nat \X Nat : ss[1] < ss[2]}

\* A set of naturals has a least element.
LEMMA Least ==
    ASSUME NEW S, S \subseteq Nat, S # {}
    PROVE  \E m \in S : \A y \in S : m <= y
  <1>1. IsWellFoundedOn(NatOrder, Nat) BY NatLessThanWellFounded DEF OpToRel, NatOrder
  <1>2. PICK m \in S : \A y \in S : <<y, m>> \notin NatOrder BY <1>1, WFMin
  <1>3. ASSUME NEW y \in S PROVE m <= y
    <2>1. m \in Nat /\ y \in Nat OBVIOUS
    <2>2. y < m => <<y, m>> \in NatOrder BY <2>1 DEF NatOrder
    <2> QED BY <1>2, <2>1, <2>2
  <1> QED BY <1>3

\* f[i] is the concatenation of the first i sequences of s, as FlattenSeq computes it
Joins(f, n, s) == f = [i \in 1..n |-> IF i = 1 THEN s[i] ELSE f[i - 1] \o s[i]]

\* There is such a function: the least length without one would follow one with.
LEMMA JoinsExist ==
    ASSUME NEW n \in Nat, NEW s
    PROVE  \E f : Joins(f, n, s)
  <1> DEFINE Missing == {m \in Nat : ~\E f : Joins(f, m, s)}
  <1>1. Missing = {}
    <2> SUFFICES ASSUME Missing # {} PROVE FALSE OBVIOUS
    <2>1. PICK m \in Missing : \A y \in Missing : m <= y
      <3>1. Missing \subseteq Nat OBVIOUS
      <3> HIDE DEF Missing
      <3> QED BY <3>1, Least
    <2>2. m \in Nat /\ ~\E f : Joins(f, m, s) OBVIOUS
    <2>3. m # 0
      <3>1. Joins([i \in {} |-> 0], 0, s) BY DEF Joins
      <3> QED BY <2>2, <3>1
    <2>4. PICK k \in Nat : m = k + 1
      <3>1. m - 1 \in Nat /\ m = (m - 1) + 1 BY <2>2, <2>3
      <3> QED BY <3>1
    <2>5. k \notin Missing BY <2>1, <2>4
    <2>6. PICK f : Joins(f, k, s) BY <2>5
    <2> DEFINE g == [i \in 1..(k + 1) |-> IF i = 1 THEN s[i] ELSE f[i - 1] \o s[i]]
    <2>7. \A i \in 1..k : g[i] = f[i]
      <3> SUFFICES ASSUME NEW i \in 1..k PROVE g[i] = f[i] OBVIOUS
      <3>1. f[i] = IF i = 1 THEN s[i] ELSE f[i - 1] \o s[i] BY <2>6 DEF Joins
      <3>2. i \in 1..(k + 1) OBVIOUS
      <3> QED BY <3>1, <3>2
    <2>8. \A i \in 1..(k + 1) : i # 1 => g[i - 1] = f[i - 1]
      <3> SUFFICES ASSUME NEW i \in 1..(k + 1), i # 1 PROVE g[i - 1] = f[i - 1] OBVIOUS
      <3>1. i - 1 \in 1..k OBVIOUS
      <3> QED BY <2>7, <3>1
    <2>9. g = [i \in 1..(k + 1) |-> IF i = 1 THEN s[i] ELSE g[i - 1] \o s[i]]
      <3> DEFINE h == [i \in 1..(k + 1) |-> IF i = 1 THEN s[i] ELSE g[i - 1] \o s[i]]
      <3>1. \A i \in 1..(k + 1) : g[i] = (IF i = 1 THEN s[i] ELSE f[i - 1] \o s[i]) OBVIOUS
      <3>2. \A i \in 1..(k + 1) : h[i] = (IF i = 1 THEN s[i] ELSE g[i - 1] \o s[i]) OBVIOUS
      <3>3. DOMAIN g = 1..(k + 1) /\ DOMAIN h = 1..(k + 1) /\ g = [i \in DOMAIN g |-> g[i]] /\ h = [i \in DOMAIN h |-> h[i]]
        OBVIOUS
      <3>4. \A i \in 1..(k + 1) : (IF i = 1 THEN s[i] ELSE g[i - 1] \o s[i]) = (IF i = 1 THEN s[i] ELSE f[i - 1] \o s[i])
        <4> SUFFICES ASSUME NEW i \in 1..(k + 1), i # 1 PROVE g[i - 1] \o s[i] = f[i - 1] \o s[i] OBVIOUS
        <4>1. g[i - 1] = f[i - 1] BY <2>8
        <4> QED BY <4>1
      <3> HIDE DEF g, h
      <3>5. \A i \in 1..(k + 1) : g[i] = h[i] BY <3>1, <3>2, <3>4
      <3>6. g = h BY <3>3, <3>5
      <3> QED BY <3>6 DEF h
    <2> HIDE DEF g
    <2>10. Joins(g, k + 1, s) BY <2>9 DEF Joins
    <2> QED BY <2>2, <2>4, <2>10
  <1> QED BY <1>1

LEMMA FlattenIs ==
    ASSUME NEW n \in Nat \ {0}, NEW s, Len(s) = n
    PROVE  \E f : Joins(f, n, s) /\ FlattenSeq(s) = f[n]
  <1> DEFINE F == CHOOSE f : f = [i \in 1..n |-> IF i = 1 THEN s[i] ELSE f[i - 1] \o s[i]]
  <1>1. \E f : f = [i \in 1..n |-> IF i = 1 THEN s[i] ELSE f[i - 1] \o s[i]] BY JoinsExist DEF Joins
  <1>2. Joins(F, n, s) BY <1>1 DEF Joins
  <1>3. FlattenSeq(s) = F[n] BY DEF FlattenSeq
  <1> QED BY <1>2, <1>3

\* Cutting a list of slots at c gives those of each message; joined, the messages name
\* the slots from the first cut on.
Cut(q, s, c, n) ==
    /\ \A k \in 1..n : s[k] \in Seq(SpecType)
    /\ \A k \in 1..(n + 1) : c[k] \in Int
    /\ \A k \in 1..n : c[k + 1] = c[k] + Len(s[k])
    /\ \A k \in 1..n : \A i \in 1..Len(s[k]) : q[c[k] + i] = s[k][i].slot
Names(q, l, from, to) ==
    /\ l \in Seq(SpecType) /\ Len(l) = to - from
    /\ \A p \in 1..Len(l) : l[p].slot = q[from + p]

\* Two lists of slots, one after the other
LEMMA NamesJoin ==
    ASSUME NEW q, NEW l, NEW m, NEW a \in Int, NEW b \in Int, NEW d \in Int, Names(q, l, a, b), Names(q, m, b, d)
    PROVE  Names(q, l \o m, a, d)
  <1>1. PICK u \in Nat : u = Len(l) BY DEF Names
  <1>2. PICK v \in Nat : v = Len(m) BY DEF Names
  <1>3. l \in Seq(SpecType) /\ m \in Seq(SpecType) BY DEF Names
  <1>4. l \o m \in Seq(SpecType) /\ Len(l \o m) = u + v /\ \A p \in 1..(u + v) : (l \o m)[p] = IF p <= u THEN l[p] ELSE m[p - u]
    BY <1>1, <1>2, <1>3
  <1>5. u = b - a /\ v = d - b BY <1>1, <1>2 DEF Names
  <1>6. ASSUME NEW p \in 1..(u + v) PROVE (l \o m)[p].slot = q[a + p]
    <2>1. CASE p <= u
      <3>1. (l \o m)[p] = l[p] /\ p \in 1..u BY <1>4, <2>1
      <3>2. l[p].slot = q[a + p] BY <1>1, <3>1 DEF Names
      <3> QED BY <3>1, <3>2
    <2>2. CASE ~(p <= u)
      <3>1. PICK o \in 1..v : o = p - u BY <2>2
      <3>2. (l \o m)[p] = m[o] BY <1>4, <2>2, <3>1
      <3>3. m[o].slot = q[b + o] BY <1>2, <3>1 DEF Names
      <3>4. b + o = a + p BY <1>5, <3>1
      <3> QED BY <3>2, <3>3, <3>4
    <2> QED BY <2>1, <2>2
  <1>7. Len(l \o m) = d - a BY <1>4, <1>5
  <1> QED BY <1>4, <1>6, <1>7 DEF Names

LEMMA JoinsName ==
    ASSUME NEW n \in Nat \ {0}, NEW s, NEW f, Joins(f, n, s), NEW q, NEW c, Cut(q, s, c, n)
    PROVE  Names(q, f[n], c[1], c[n + 1])
  <1> DEFINE Missing == {k \in 1..n : ~Names(q, f[k], c[1], c[k + 1])}
  <1>1. \A k \in 1..n : Names(q, s[k], c[k], c[k + 1])
    <2> SUFFICES ASSUME NEW k \in 1..n PROVE Names(q, s[k], c[k], c[k + 1]) OBVIOUS
    <2>1. k \in 1..(n + 1) /\ k + 1 \in 1..(n + 1) OBVIOUS
    <2>2. c[k] \in Int /\ c[k + 1] \in Int /\ s[k] \in Seq(SpecType) /\ c[k + 1] = c[k] + Len(s[k]) BY <2>1 DEF Cut
    <2>3. PICK u \in Nat : u = Len(s[k]) BY <2>2
    <2>4. Len(s[k]) = c[k + 1] - c[k] BY <2>2, <2>3
    <2> QED BY <2>2, <2>4 DEF Cut, Names
  <1>2. \A k \in 1..n : f[k] = IF k = 1 THEN s[k] ELSE f[k - 1] \o s[k] BY DEF Joins
  <1>3. \A k \in 1..(n + 1) : c[k] \in Int BY DEF Cut
  <1>4. Missing = {}
    <2> SUFFICES ASSUME Missing # {} PROVE FALSE OBVIOUS
    <2>1. PICK m \in Missing : \A y \in Missing : m <= y
      <3>1. Missing \subseteq Nat OBVIOUS
      <3> HIDE DEF Missing
      <3> QED BY <3>1, Least
    <2>2. m \in 1..n /\ ~Names(q, f[m], c[1], c[m + 1]) OBVIOUS
    <2>3. m # 1
      <3>1. f[1] = s[1] /\ 1 \in 1..n BY <1>2
      <3> QED BY <1>1, <2>2, <3>1
    <2>4. PICK k \in 1..n : m = k + 1
      <3>1. m - 1 \in 1..n /\ m = (m - 1) + 1 BY <2>2, <2>3
      <3> QED BY <3>1
    <2>5. k \notin Missing BY <2>1, <2>4
    <2>6. Names(q, f[k], c[1], c[m]) BY <2>4, <2>5
    <2>7. Names(q, s[m], c[m], c[m + 1]) BY <1>1, <2>2
    <2>8. f[m] = f[k] \o s[m]
      <3>1. f[m] = f[m - 1] \o s[m] BY <1>2, <2>2, <2>3
      <3>2. m - 1 = k BY <2>4
      <3> QED BY <3>1, <3>2
    <2>9. c[1] \in Int /\ c[m] \in Int /\ c[m + 1] \in Int BY <1>3, <2>2
    <2> QED BY <2>2, <2>6, <2>7, <2>8, <2>9, NamesJoin
  <1>5. n \notin Missing BY <1>4
  <1> QED BY <1>5

\* All the messages on their way
LEMMA FlattenNames ==
    ASSUME NEW n \in Nat, NEW s, Len(s) = n, n = 0 => s = <<>>, NEW q, NEW c, Cut(q, s, c, n)
    PROVE  Names(q, FlattenSeq(s), c[1], c[n + 1])
  <1>1. CASE n = 0
    <2>1. FlattenSeq(s) = <<>> BY <1>1 DEF FlattenSeq
    <2>2. c[1] \in Int BY <1>1 DEF Cut
    <2>3. <<>> \in Seq(SpecType) /\ Len(<<>>) = 0 OBVIOUS
    <2> QED BY <1>1, <2>1, <2>2, <2>3 DEF Names
  <1>2. CASE n # 0
    <2>1. PICK f : Joins(f, n, s) /\ FlattenSeq(s) = f[n] BY <1>2, FlattenIs
    <2> QED BY <1>2, <2>1, JoinsName
  <1> QED BY <1>1, <1>2

--------------------------------------------------------------------------------
(* The free ring and the dispatcher's list *)

\* What the free ring holds: the slots of the tickets the worker has still to take, then
\* the free ones
Unserved ==
    LET left == IF worker.at \in {"acquire", "acquired"} \/ worker.todo = <<>> THEN worker.todo
                ELSE Tail(worker.todo)
    IN left \o FlattenSeq([i \in DOMAIN inbox |-> inbox[i].specs])
Mirror == IF main.at \in Recycling THEN Front(free_slots) ELSE free_slots

LEMMA LeftNames ==
    ASSUME SInv, NEW c, FreeCuts(c), worker.at # "dead"
    PROVE  LET left == IF worker.at \in {"acquire", "acquired"} \/ worker.todo = <<>> THEN worker.todo
                       ELSE Tail(worker.todo)
           IN Names(FreeRing, left, 0, c[1])
  <1>1. worker.todo \in Seq(SpecType) /\ worker.at \in WorkerAt BY DEF SInv, Types, WorkerType
  <1>2. PICK w \in Nat : w = Len(worker.todo) BY <1>1
  <1>3. /\ c[0] = (IF worker.at \in Taken THEN -1 ELSE 0) /\ c[1] = c[0] + w
        /\ \A i \in 1..w : c[0] + i > 0 => FreeRing[c[0] + i] = worker.todo[i].slot
    BY <1>2 DEF FreeCuts
  <1>4. CASE worker.at \in Taken
    <2>1. worker.todo # <<>> /\ worker.at \notin {"acquire", "acquired"} BY <1>4 DEF SInv, Shape, Busy, Taken
    <2>2. /\ Tail(worker.todo) \in Seq(SpecType) /\ w > 0 /\ Len(Tail(worker.todo)) = w - 1
          /\ \A i \in 1..(w - 1) : Tail(worker.todo)[i] = worker.todo[i + 1]
      BY <1>1, <1>2, <2>1, TailIs
    <2>3. c[0] = -1 /\ c[1] = w - 1 BY <1>2, <1>3, <1>4
    <2>4. ASSUME NEW i \in 1..(w - 1) PROVE Tail(worker.todo)[i].slot = FreeRing[0 + i]
      <3>1. i + 1 \in 1..w /\ c[0] + (i + 1) = i /\ i > 0 /\ 0 + i = i BY <1>2, <2>3
      <3>2. FreeRing[i] = worker.todo[i + 1].slot BY <1>3, <3>1
      <3> QED BY <2>2, <3>1, <3>2
    <2>5. Names(FreeRing, Tail(worker.todo), 0, c[1])
      <3>1. Len(Tail(worker.todo)) = c[1] - 0 BY <2>2, <2>3
      <3> QED BY <2>2, <2>4, <3>1 DEF Names
    <2> QED BY <2>1, <2>5
  <1>5. CASE worker.at \notin Taken
    <2>1. worker.at \in {"acquire", "acquired"} \/ worker.todo = <<>>
      BY <1>1, <1>5 DEF WorkerAt, Taken, SInv, Shape
    <2>2. c[0] = 0 /\ c[1] = w BY <1>2, <1>3, <1>5
    <2>3. ASSUME NEW i \in 1..w PROVE worker.todo[i].slot = FreeRing[0 + i]
      <3>1. c[0] + i = i /\ i > 0 /\ 0 + i = i BY <2>2
      <3> QED BY <1>3, <3>1
    <2>4. Names(FreeRing, worker.todo, 0, c[1])
      <3>1. Len(worker.todo) = c[1] - 0 BY <1>2, <2>2
      <3> QED BY <1>1, <1>2, <2>3, <3>1 DEF Names
    <2> QED BY <2>1, <2>4
  <1> QED BY <1>4, <1>5

LEMMA SpecsName ==
    ASSUME SInv, NEW c, FreeCuts(c), worker.at # "dead"
    PROVE  Names(FreeRing, Unserved, 0, c[Len(inbox) + 1]) /\ c[Len(inbox) + 1] \in Nat
  <1>1. PICK n \in Nat : n = Len(inbox) BY DEF SInv, Types, PipeType
  <1>2. inbox \in Seq(MsgType) /\ DOMAIN inbox = 1..n BY <1>1 DEF SInv, Types, PipeType
  <1> DEFINE s == [i \in DOMAIN inbox |-> inbox[i].specs]
             left == IF worker.at \in {"acquire", "acquired"} \/ worker.todo = <<>> THEN worker.todo
                     ELSE Tail(worker.todo)
  <1>3. \A k \in 1..n : s[k] = inbox[k].specs /\ s[k] \in Seq(SpecType)
    <2> SUFFICES ASSUME NEW k \in 1..n PROVE s[k] = inbox[k].specs /\ s[k] \in Seq(SpecType) OBVIOUS
    <2>1. inbox[k] \in MsgType BY <1>1, <1>2, ElementOfSeq
    <2> QED BY <1>2, <2>1 DEF MsgType
  <1>4. Len(s) = n /\ (n = 0 => s = <<>>)
    <2>1. s = [i \in 1..n |-> inbox[i].specs] BY <1>2
    <2>2. \A k \in 1..n : inbox[k].specs \in Seq(SpecType) BY <1>3
    <2> QED BY <2>1, <2>2
  <1>5. Within(c) BY CutsWithin
  <1>6. \A k \in 1..(n + 1) : c[k] \in Int /\ c[k] >= 0
    <2> SUFFICES ASSUME NEW k \in 1..(n + 1) PROVE c[k] \in Int /\ c[k] >= 0 OBVIOUS
    <2>1. k \in 0..(n + 1) OBVIOUS
    <2> QED BY <1>1, <1>5, <2>1 DEF Within
  <1> HIDE DEF s, left
  <1>7. Cut(FreeRing, s, c, n)
    <2>1. \A k \in 1..n : c[k + 1] = c[k] + Len(s[k]) BY <1>1, <1>3 DEF FreeCuts
    <2>2. \A k \in 1..n : \A i \in 1..Len(s[k]) : FreeRing[c[k] + i] = s[k][i].slot BY <1>1, <1>3 DEF FreeCuts
    <2> QED BY <1>3, <1>6, <2>1, <2>2 DEF Cut
  <1>8. Names(FreeRing, FlattenSeq(s), c[1], c[n + 1]) BY <1>4, <1>7, FlattenNames
  <1>9. Names(FreeRing, left, 0, c[1]) BY LeftNames DEF left
  <1>10. Unserved = left \o FlattenSeq(s) BY DEF Unserved, left, s
  <1>11. c[1] \in Int /\ c[n + 1] \in Int /\ c[n + 1] >= 0 /\ 0 \in Int BY <1>6
  <1>12. Names(FreeRing, Unserved, 0, c[n + 1]) BY <1>8, <1>9, <1>10, <1>11, NamesJoin
  <1> QED BY <1>1, <1>11, <1>12

LEMMA MirrorIs ==
    ASSUME SInv, LInv
    PROVE  Mirrored \in Nat /\ Mirror \in Seq(Nat) /\ Len(Mirror) = Mirrored /\ \A i \in 1..Mirrored : Mirror[i] = free_slots[i]
  <1>1. free_slots \in Seq(Slot(seg)) /\ Slot(seg) \subseteq Nat
    BY RingsInUse DEF SInv, Types, HandleType
  <1>2. free_slots \in Seq(Nat) BY <1>1, SeqMonotonic
  <1>3. PICK m \in Nat : m = Len(free_slots) BY <1>2
  <1>4. CASE main.at \in Recycling
    <2>1. m > 0 BY <1>3, <1>4 DEF LInv, HalfWay
    <2>2. Mirrored = m - 1 /\ Mirror = Front(free_slots) BY <1>3, <1>4 DEF Mirrored, Mirror
    <2>3. Front(free_slots) = SubSeq(free_slots, 1, m - 1) BY <1>3 DEF Front
    <2>4. /\ SubSeq(free_slots, 1, m - 1) \in Seq(Nat) /\ Len(SubSeq(free_slots, 1, m - 1)) = m - 1
          /\ \A i \in 1..(m - 1) : SubSeq(free_slots, 1, m - 1)[i] = free_slots[i]
      BY <1>2, <1>3, <2>1
    <2> QED BY <2>1, <2>2, <2>3, <2>4
  <1>5. CASE main.at \notin Recycling
    <2>1. Mirrored = m /\ Mirror = free_slots BY <1>3, <1>5 DEF Mirrored, Mirror
    <2> QED BY <1>2, <1>3, <2>1
  <1> QED BY <1>4, <1>5

\* The free ring holds, in order, the slots assigned and not taken, then the free ones.
LEMMA RingIsMirrored ==
    ASSUME SInv, LInv, worker.at # "dead"
    PROVE  FreeRing = Unacquired \o Mirror
  <1>1. PICK c : FreeCuts(c) BY DEF LInv, FreeOrder
  <1>2. PICK a \in Nat : a = c[Len(inbox) + 1] BY <1>1, SpecsName
  <1>3. Names(FreeRing, Unserved, 0, a) BY <1>1, <1>2, SpecsName
  <1>4. PICK m \in Nat : m = Mirrored BY MirrorIs
  <1>5. Len(FreeRing) = a + m /\ \A i \in 1..m : FreeRing[a + i] = free_slots[i] BY <1>1, <1>2, <1>4 DEF FreeCuts
  <1>6. FreeRing \in Seq(Nat) BY RingsInUse
  <1>7. Unserved \in Seq(SpecType) /\ Len(Unserved) = a /\ \A p \in 1..a : Unserved[p].slot = FreeRing[p]
    <2>1. Unserved \in Seq(SpecType) /\ Len(Unserved) = a - 0 /\ \A p \in 1..Len(Unserved) : Unserved[p].slot = FreeRing[0 + p]
      BY <1>3 DEF Names
    <2>2. Len(Unserved) = a BY <2>1
    <2>3. ASSUME NEW p \in 1..a PROVE Unserved[p].slot = FreeRing[p]
      <3>1. 0 + p = p OBVIOUS
      <3> QED BY <2>1, <2>2, <3>1
    <2> QED BY <2>1, <2>2, <2>3
  <1>8. Unacquired = [i \in DOMAIN Unserved |-> Unserved[i].slot] BY DEF Unacquired, Unserved
  <1> DEFINE u == Unacquired
  <1>9. u \in Seq(Nat) /\ Len(u) = a /\ \A p \in 1..a : u[p] = FreeRing[p]
    <2>1. u = [i \in 1..a |-> Unserved[i].slot] BY <1>7, <1>8
    <2>2. \A p \in 1..a : Unserved[p].slot \in Nat
      <3> SUFFICES ASSUME NEW p \in 1..a PROVE Unserved[p].slot \in Nat OBVIOUS
      <3>1. Unserved[p] \in SpecType BY <1>7, ElementOfSeq
      <3> QED BY <3>1 DEF SpecType
    <2> HIDE DEF u
    <2>3. u \in Seq(Nat) /\ Len(u) = a BY <2>1, <2>2
    <2> QED BY <1>7, <2>1, <2>3
  <1> HIDE DEF u
  <1>10. PICK f : f = Mirror OBVIOUS
  <1>11. f \in Seq(Nat) /\ Len(f) = m /\ \A i \in 1..m : f[i] = FreeRing[a + i] BY <1>4, <1>5, <1>10, MirrorIs
  <1>12. FreeRing = u \o f
    <2>1. u \o f \in Seq(Nat) /\ Len(u \o f) = a + m /\ \A p \in 1..(a + m) : (u \o f)[p] = IF p <= a THEN u[p] ELSE f[p - a]
      BY <1>9, <1>11, ConcatProperties
    <2>2. ASSUME NEW p \in 1..(a + m) PROVE (u \o f)[p] = FreeRing[p]
      <3>1. CASE p <= a BY <1>9, <2>1, <3>1
      <3>2. CASE ~(p <= a)
        <4>1. PICK i \in 1..m : i = p - a BY <3>2
        <4>2. a + i = p BY <4>1
        <4> QED BY <1>11, <2>1, <3>2, <4>1, <4>2
      <3> QED BY <3>1, <3>2
    <2> QED BY <1>5, <1>6, <2>1, <2>2, SeqEqual
  <1> QED BY <1>10, <1>12 DEF u

--------------------------------------------------------------------------------
(* No slot is lost *)

Sent(x) == \E t \in DOMAIN outstanding : outstanding[t] = x
Handled(x) == main.at \in InHand /\ main.slot = x
Somewhere(x) == Has(free_slots, x) \/ x \in held \/ Sent(x) \/ Handled(x)
Covered == \A x \in Slot(seg) : Somewhere(x)

\* A fresh list has every slot of its segment.
LEMMA FreshHas ==
    ASSUME NEW q, NEW n \in Nat, Len(q) = n, \A i \in 1..n : q[i] = i - 1
    PROVE  \A x \in 0..(n - 1) : Has(q, x)
  <1> SUFFICES ASSUME NEW x \in 0..(n - 1) PROVE Has(q, x) OBVIOUS
  <1>1. x + 1 \in 1..n /\ (x + 1) - 1 = x OBVIOUS
  <1>2. q[x + 1] = x BY <1>1
  <1> QED BY <1>1, <1>2 DEF Has

LEMMA CoveredStart == Init => Covered
  <1> SUFFICES ASSUME Init PROVE Covered OBVIOUS
  <1>1. seg = 1 /\ free_slots = AllSlots(1) /\ Slots[1] \in Nat BY ExchangeAssumption DEF Init, Segment
  <1>2. Len(free_slots) = Slots[seg] /\ \A i \in 1..Slots[seg] : free_slots[i] = i - 1 BY <1>1 DEF AllSlots
  <1>3. \A x \in 0..(Slots[seg] - 1) : Has(free_slots, x) BY <1>1, <1>2, FreshHas
  <1> QED BY <1>3 DEF Covered, Somewhere, Slot

LEMMA CoveredSame ==
    ASSUME Covered, UNCHANGED <<seg, free_slots, held, outstanding>>,
           main.at \in InHand => main'.at \in InHand /\ main'.slot = main.slot
    PROVE  Covered'
  <1> SUFFICES ASSUME NEW x \in Slot(seg) PROVE Somewhere(x)' BY DEF Covered, Slot
  <1>1. Somewhere(x) BY DEF Covered
  <1> QED BY <1>1 DEF Somewhere, Has, Sent, Handled

\* A slot given back is on the list, and so is every slot that was there.
LEMMA RecycleHas ==
    ASSUME NEW slot \in Slot(seg), free_slots \in Seq(Slot(seg)), seg' = seg, seg \in Segment, Recycle(slot)
    PROVE  Has(free_slots, slot)' /\ \A x : Has(free_slots, x) => Has(free_slots, x)'
  <1>1. free_slots' = Append(free_slots, slot) BY DEF Recycle
  <1>2. /\ Len(free_slots) \in Nat /\ Len(free_slots') = Len(free_slots) + 1
        /\ free_slots'[Len(free_slots) + 1] = slot
        /\ \A i \in 1..Len(free_slots) : free_slots'[i] = free_slots[i]
    BY <1>1, AppendIs
  <1> QED BY <1>2 DEF Has

LEMMA OnFrameReadyCovers ==
    ASSUME SInv, Covered, OnFrameReady
    PROVE  Covered'
  <1>a. PICK t : t = replies[1].ticket OBVIOUS
  <1>b. PICK slot : slot = outstanding[t] OBVIOUS
  <1>1. /\ t \in DOMAIN outstanding /\ DOMAIN outstanding' = DOMAIN outstanding \ {t}
        /\ \A u \in DOMAIN outstanding' : outstanding'[u] = outstanding[u]
        /\ UNCHANGED <<seg, held>> /\ replies[1].slot = slot /\ main.at = "idle"
    BY <1>a, <1>b, AnsweredIsOff
  <1>2. Reply = replies[1]
    <2> PICK h : h = replies[1] OBVIOUS
    <2> QED BY ReadEffect DEF Drain
  <1>3. main' = [at |-> "consume", ticket |-> t, slot |-> slot] /\ free_slots' = free_slots
    BY <1>a, <1>1, <1>2 DEF OnFrameReady
  <1> SUFFICES ASSUME NEW x \in Slot(seg) PROVE Somewhere(x)' BY <1>1 DEF Covered, Slot
  <1>4. Somewhere(x) BY DEF Covered
  <1>5. CASE x = slot BY <1>3, <1>5 DEF Somewhere, Handled, InHand
  <1>6. CASE x # slot
    <2>1. Sent(x) => Sent(x)' BY <1>b, <1>1, <1>6 DEF Sent
    <2>2. ~Handled(x) BY <1>1 DEF Handled, InHand
    <2> QED BY <1>1, <1>3, <1>4, <2>1, <2>2 DEF Somewhere, Has
  <1> QED BY <1>5, <1>6

LEMMA OnFrameFailedCovers ==
    ASSUME SInv, Covered, OnFrameFailed
    PROVE  Covered'
  <1>a. PICK t : t = replies[1].ticket OBVIOUS
  <1>b. PICK slot : slot = outstanding[t] OBVIOUS
  <1>1. /\ t \in DOMAIN outstanding /\ slot \in Slot(seg) /\ DOMAIN outstanding' = DOMAIN outstanding \ {t}
        /\ \A u \in DOMAIN outstanding' : outstanding'[u] = outstanding[u]
        /\ UNCHANGED <<seg, held>> /\ main.at = "idle"
    BY <1>a, <1>b, AnsweredIsOff
  <1>2. Reply = replies[1]
    <2> PICK h : h = replies[1] OBVIOUS
    <2> QED BY ReadEffect DEF Drain
  <1>3. Recycle(slot) BY <1>a, <1>b, <1>1, <1>2 DEF OnFrameFailed
  <1>4. free_slots \in Seq(Slot(seg)) /\ seg \in Segment BY DEF SInv, Types, HandleType
  <1>5. Has(free_slots, slot)' /\ \A x : Has(free_slots, x) => Has(free_slots, x)' BY <1>1, <1>3, <1>4, RecycleHas
  <1> SUFFICES ASSUME NEW x \in Slot(seg) PROVE Somewhere(x)' BY <1>1 DEF Covered, Slot
  <1>6. Somewhere(x) BY DEF Covered
  <1>7. CASE x = slot BY <1>5, <1>7 DEF Somewhere
  <1>8. CASE x # slot
    <2>1. Sent(x) => Sent(x)' BY <1>b, <1>1, <1>8 DEF Sent
    <2>2. ~Handled(x) BY <1>1 DEF Handled, InHand
    <2> QED BY <1>1, <1>5, <1>6, <2>1, <2>2 DEF Somewhere
  <1> QED BY <1>7, <1>8

LEMMA DeliverCovers ==
    ASSUME SInv, Covered, Deliver
    PROVE  Covered'
  <1>a. PICK slot : slot = main.slot OBVIOUS
  <1>1. main.at = "deliver" /\ UNCHANGED <<seg, outstanding>> BY DEF Deliver
  <1>2. slot \in Slot(seg) /\ free_slots \in Seq(Slot(seg)) /\ seg \in Segment
    BY <1>a, <1>1 DEF SInv, InHandApart, InHand, Types, HandleType
  <1> SUFFICES ASSUME NEW x \in Slot(seg) PROVE Somewhere(x)' BY <1>1 DEF Covered, Slot
  <1>3. Somewhere(x) /\ (Handled(x) => x = slot) BY <1>a DEF Covered, Handled
  <1>4. Sent(x) => Sent(x)' BY <1>1 DEF Sent
  <1>5. CASE ticket[main.ticket] = "sent"
    <2>1. held' = held \cup {slot} /\ free_slots' = free_slots BY <1>a, <1>5 DEF Deliver
    <2> QED BY <1>3, <1>4, <2>1 DEF Somewhere, Has
  <1>6. CASE ticket[main.ticket] # "sent"
    <2>1. Recycle(slot) /\ held' = held BY <1>a, <1>6 DEF Deliver
    <2>2. Has(free_slots, slot)' /\ \A y : Has(free_slots, y) => Has(free_slots, y)' BY <1>1, <1>2, <2>1, RecycleHas
    <2> QED BY <1>3, <1>4, <2>1, <2>2 DEF Somewhere
  <1> QED BY <1>5, <1>6

LEMMA ReleaseFrameCovers ==
    ASSUME SInv, Covered, NEW f \in refs, ReleaseFrame(f)
    PROVE  Covered'
  <1>1. main.at = "idle" /\ UNCHANGED <<seg, outstanding>> BY DEF ReleaseFrame
  <1>2. CASE f.seg = seg /\ f.slot \in held
    <2>a. PICK slot : slot = f.slot OBVIOUS
    <2>1. held' = held \ {slot} /\ Recycle(slot) /\ slot \in held BY <1>2, <2>a DEF ReleaseFrame
    <2>2. free_slots \in Seq(Slot(seg)) /\ slot \in Slot(seg) /\ seg \in Segment BY <2>1 DEF SInv, Types, HandleType
    <2>3. Has(free_slots, slot)' /\ \A y : Has(free_slots, y) => Has(free_slots, y)' BY <1>1, <2>1, <2>2, RecycleHas
    <2> SUFFICES ASSUME NEW x \in Slot(seg) PROVE Somewhere(x)' BY <1>1 DEF Covered, Slot
    <2>4. Somewhere(x) /\ ~Handled(x) BY <1>1 DEF Covered, Handled, InHand
    <2>5. Sent(x) => Sent(x)' BY <1>1 DEF Sent
    <2> QED BY <2>1, <2>3, <2>4, <2>5 DEF Somewhere
  <1>3. CASE ~(f.seg = seg /\ f.slot \in held)
    <2>1. UNCHANGED <<held, free_slots, main>> BY <1>3 DEF ReleaseFrame
    <2> QED BY <1>1, <2>1, CoveredSame
  <1> QED BY <1>2, <1>3

\* The slots a dispatch takes off the list are those of its tickets.
LEMMA DispatchCovers ==
    ASSUME SInv, Covered, NEW video \in Claims(Ticket \ Audio), NEW audio \in Claims(Audio), Dispatch(video, audio)
    PROVE  Covered'
  <1>a. PICK order : order = Ordered(video, audio) OBVIOUS
  <1>0. DispatchGives(order) BY <1>a, DispatchEffect
  <1>1. UNCHANGED <<seg, held, main>> /\ \A t \in DOMAIN outstanding : t \in DOMAIN outstanding' /\ outstanding'[t] = outstanding[t]
    BY <1>0 DEF DispatchGives
  <1>2. \A i \in 1..Len(order) : order[i] \in DOMAIN outstanding' /\ outstanding'[order[i]] = free_slots[i]
    BY <1>0 DEF DispatchGives
  <1>3. /\ Len(order) \in Nat /\ Len(free_slots) \in Nat /\ Len(free_slots') = Len(free_slots) - Len(order)
        /\ \A i \in 1..Len(free_slots') : free_slots'[i] = free_slots[Len(order) + i]
    BY <1>0 DEF DispatchGives
  <1> SUFFICES ASSUME NEW x \in Slot(seg) PROVE Somewhere(x)' BY <1>1 DEF Covered, Slot
  <1>4. Somewhere(x) BY DEF Covered
  <1>5. CASE Has(free_slots, x)
    <2>1. PICK p \in 1..Len(free_slots) : free_slots[p] = x BY <1>5 DEF Has
    <2>2. CASE p <= Len(order)
      <3>1. p \in 1..Len(order) BY <1>3, <2>2
      <3> QED BY <1>2, <2>1, <3>1 DEF Somewhere, Sent
    <2>3. CASE ~(p <= Len(order))
      <3> PICK o : o = p - Len(order) OBVIOUS
      <3>1. o \in 1..Len(free_slots') /\ Len(order) + o = p BY <1>3, <2>3
      <3>2. free_slots'[o] = x BY <1>3, <2>1, <3>1
      <3> QED BY <3>1, <3>2 DEF Somewhere, Has
    <2> QED BY <2>2, <2>3
  <1>6. Sent(x) => Sent(x)' BY <1>1 DEF Sent
  <1>7. Handled(x) => Handled(x)' BY <1>1 DEF Handled
  <1> QED BY <1>1, <1>4, <1>5, <1>6, <1>7 DEF Somewhere

LEMMA ReseedCovers ==
    ASSUME SInv, NEW sent, Reseed(sent), seg + 1 \in Segment
    PROVE  Covered'
  <1>1. Slots[seg'] \in Nat /\ Len(free_slots') = Slots[seg'] /\ \A i \in 1..Slots[seg'] : free_slots'[i] = i - 1
    BY ReseedEffect
  <1>2. \A x \in 0..(Slots[seg'] - 1) : Has(free_slots', x) BY <1>1, FreshHas
  <1> QED BY <1>2 DEF Covered, Somewhere, Slot, Has

\* Every step of the exchange keeps every slot somewhere.
LEMMA CoveredStep == SInv /\ Covered /\ [Next]_vars => Covered'
  <1> SUFFICES ASSUME SInv, Covered, [Next]_vars PROVE Covered' OBVIOUS
  <1>1. CASE SomeDispatch BY <1>1, DispatchCovers DEF SomeDispatch
  <1>2. CASE \E t \in Ticket : Cancel(t) BY <1>2, CoveredSame DEF Cancel, handleVars
  <1>3. CASE \E f \in refs : ReleaseFrame(f) BY <1>3, ReleaseFrameCovers
  <1>4. CASE MainStep
    <2>0. main \in [at : MainAt, ticket : Ticket \cup {None}, slot : Nat] BY DEF SInv, Types, HandleType
    <2>1. CASE Consume BY <2>0, <2>1, CoveredSame DEF Consume, handleVars, InHand
    <2>2. CASE Consumed BY <2>0, <2>2, CoveredSame DEF Consumed, handleVars, InHand
    <2>3. CASE Release BY <2>3, CoveredSame DEF Release, handleVars, InHand
    <2>4. CASE Released BY <2>4, CoveredSame DEF Released, handleVars, InHand
    <2>5. CASE Deliver BY <2>5, DeliverCovers
    <2> QED BY <1>4, <2>1, <2>2, <2>3, <2>4, <2>5 DEF MainStep
  <1>5. CASE OnHelloCaps BY <1>5, CoveredSame DEF OnHelloCaps
  <1>6. CASE OnFrameReady \/ OnFrameFailed BY <1>6, OnFrameReadyCovers, OnFrameFailedCovers
  <1>7. CASE RebuildSegment BY <1>7, RebuildKeeps, ReseedCovers DEF RebuildSegment
  <1>8. CASE RestartWorker BY <1>8, RestartKeeps, ReseedCovers DEF RestartWorker
  <1>9. CASE WorkerStep
    <2>1. UNCHANGED <<handleVars, main>>
      BY <1>9 DEF WorkerStep, Attach, TakeBatch, Acquire, Acquired, Render, Publish, Published, SayReady, SayFailed
    <2> QED BY <2>1, CoveredSame DEF handleVars
  <1>10. CASE Crash BY <1>10, CoveredSame DEF Crash, handleVars
  <1>11. CASE UNCHANGED vars BY <1>11, CoveredSame DEF vars, handleVars
  <1> QED BY <1>1, <1>2, <1>3, <1>4, <1>5, <1>6, <1>7, <1>8, <1>9, <1>10, <1>11 DEF Next, Drain

\* A function that takes different values has as many values as arguments.
LEMMA OneToOne ==
    ASSUME NEW S, IsFiniteSet(S), NEW g, g = [x \in S |-> g[x]], \A x, y \in S : g[x] = g[y] => x = y,
           NEW T, T = {g[x] : x \in S}
    PROVE  IsFiniteSet(T) /\ Cardinality(T) = Cardinality(S)
  <1>1. g \in [S -> T] OBVIOUS
  <1>2. g \in Surjection(S, T) /\ g \in Injection(S, T) BY <1>1 DEF Surjection, Injection, IsInjective
  <1> QED BY <1>2, FS_Surjection

\* Sets that have no member in common add up.
LEMMA AddsUp ==
    ASSUME NEW S, NEW T, IsFiniteSet(S), IsFiniteSet(T), S \cap T = {}
    PROVE  IsFiniteSet(S \cup T) /\ Cardinality(S \cup T) = Cardinality(S) + Cardinality(T)
  <1>1. Cardinality(S) \in Nat /\ Cardinality(T) \in Nat BY FS_CardinalityType
  <1>2. Cardinality(S \cap T) = 0 BY FS_EmptySet
  <1>3. IsFiniteSet(S \cup T) /\ Cardinality(S \cup T) = Cardinality(S) + Cardinality(T) - Cardinality(S \cap T)
    BY ONLY IsFiniteSet(S), IsFiniteSet(T), FS_Union
  <1> QED BY <1>1, <1>2, <1>3

SentSlots == {outstanding[t] : t \in DOMAIN outstanding}
HandSlots == IF main.at \in InHand THEN {main.slot} ELSE {}

\* The slots of the segment are those of the four places, and no slot counts twice.
LEMMA SlotsAddUp ==
    ASSUME SInv, Covered
    PROVE  /\ ToSet(free_slots) \cup held \cup SentSlots \cup HandSlots = Slot(seg)
           /\ Len(free_slots) + Cardinality(held) + Cardinality(DOMAIN outstanding) + Cardinality(HandSlots) = Slots[seg]
  <1>1. /\ seg \in Segment /\ free_slots \in Seq(Slot(seg)) /\ held \subseteq Slot(seg)
        /\ \A t \in DOMAIN outstanding : outstanding[t] \in Slot(seg)
    BY DEF SInv, Types, HandleType
  <1>2. Slots[seg] \in Nat /\ Slots[seg] > 0 BY <1>1, ExchangeAssumption
  <1>3. Len(free_slots) \in Nat /\ ToSet(free_slots) = {free_slots[i] : i \in 1..Len(free_slots)} BY <1>1 DEF ToSet
  <1>4. ToSet(free_slots) \subseteq Slot(seg)
    <2>1. \A i \in 1..Len(free_slots) : free_slots[i] \in Slot(seg) BY <1>1, ElementOfSeq
    <2> QED BY <1>3, <2>1
  <1>5. SentSlots \subseteq Slot(seg) BY <1>1 DEF SentSlots
  <1>6. HandSlots \subseteq Slot(seg) BY DEF HandSlots, SInv, InHandApart
  <1>7. ToSet(free_slots) \cup held \cup SentSlots \cup HandSlots = Slot(seg)
    <2>1. \A x \in Slot(seg) : Has(free_slots, x) => x \in ToSet(free_slots) BY <1>3 DEF Has
    <2>2. \A x \in Slot(seg) : Sent(x) => x \in SentSlots BY DEF Sent, SentSlots
    <2>3. \A x \in Slot(seg) : Handled(x) => x \in HandSlots BY DEF Handled, HandSlots
    <2> QED BY <1>1, <1>4, <1>5, <1>6, <2>1, <2>2, <2>3 DEF Covered, Somewhere
  <1>8. IsFiniteSet(Slot(seg)) /\ Cardinality(Slot(seg)) = Slots[seg]
    <2>1. 0 \in Int /\ Slots[seg] - 1 \in Int /\ ~(0 > Slots[seg] - 1) /\ (Slots[seg] - 1) - 0 + 1 = Slots[seg] BY <1>2
    <2> QED BY <2>1, FS_Interval DEF Slot
  <1>9. IsFiniteSet(ToSet(free_slots)) /\ Cardinality(ToSet(free_slots)) = Len(free_slots)
    <2>1. \A i, j \in 1..Len(free_slots) : free_slots[i] = free_slots[j] => i = j BY DEF SInv, Apart
    <2>2. free_slots = [i \in 1..Len(free_slots) |-> free_slots[i]] BY <1>1
    <2>3. IsFiniteSet(1..Len(free_slots)) /\ Cardinality(1..Len(free_slots)) = Len(free_slots)
      <3> PICK m \in Nat : m = Len(free_slots) BY <1>3
      <3>1. 1 \in Int /\ m \in Int OBVIOUS
      <3>2. IsFiniteSet(1..m) /\ Cardinality(1..m) = IF 1 > m THEN 0 ELSE m - 1 + 1 BY ONLY <3>1, FS_Interval
      <3> QED BY <3>2
    <2> QED BY <1>3, <2>1, <2>2, <2>3, OneToOne
  <1>10. IsFiniteSet(SentSlots) /\ Cardinality(SentSlots) = Cardinality(DOMAIN outstanding)
    <2> DEFINE g == [t \in DOMAIN outstanding |-> outstanding[t]]
    <2>1. \A t, u \in DOMAIN outstanding : g[t] = g[u] => t = u BY DEF SInv, Apart
    <2>2. SentSlots = {g[t] : t \in DOMAIN outstanding} BY DEF SentSlots
    <2>3. g \in Injection(DOMAIN outstanding, Slot(seg)) BY <1>1, <2>1 DEF Injection, IsInjective
    <2>4. IsFiniteSet(DOMAIN outstanding) BY <1>8, <2>3, FS_Injection
    <2>5. g = [t \in DOMAIN outstanding |-> g[t]] OBVIOUS
    <2> HIDE DEF g
    <2> QED BY <2>1, <2>2, <2>4, <2>5, OneToOne
  <1>11. IsFiniteSet(held) /\ IsFiniteSet(HandSlots) BY <1>1, <1>6, <1>8, FS_Subset
  <1>12. ToSet(free_slots) \cap held = {} BY <1>3 DEF SInv, Apart
  <1>13. (ToSet(free_slots) \cup held) \cap SentSlots = {} BY <1>3 DEF SInv, Apart, SentSlots
  <1>14. (ToSet(free_slots) \cup held \cup SentSlots) \cap HandSlots = {}
    <2>1. CASE main.at \notin InHand BY <2>1 DEF HandSlots
    <2>2. CASE main.at \in InHand
      <3>1. main.slot \notin held /\ main.slot \notin SentSlots /\ main.slot \notin ToSet(free_slots)
        BY <1>3, <2>2 DEF SInv, InHandApart, SentSlots
      <3> QED BY <3>1 DEF HandSlots
    <2> QED BY <2>1, <2>2
  <1>15. IsFiniteSet(ToSet(free_slots) \cup held)
         /\ Cardinality(ToSet(free_slots) \cup held) = Len(free_slots) + Cardinality(held)
    BY <1>9, <1>11, <1>12, AddsUp
  <1>16. IsFiniteSet(ToSet(free_slots) \cup held \cup SentSlots)
         /\ Cardinality(ToSet(free_slots) \cup held \cup SentSlots)
              = Len(free_slots) + Cardinality(held) + Cardinality(DOMAIN outstanding)
    <2> PICK S : S = ToSet(free_slots) \cup held OBVIOUS
    <2>1. IsFiniteSet(S) /\ S \cap SentSlots = {} BY <1>13, <1>15
    <2>2. IsFiniteSet(S \cup SentSlots) /\ Cardinality(S \cup SentSlots) = Cardinality(S) + Cardinality(SentSlots)
      BY <1>10, <2>1, AddsUp
    <2> QED BY <1>10, <1>15, <2>2
  <1>17. Cardinality(ToSet(free_slots) \cup held \cup SentSlots \cup HandSlots)
           = Len(free_slots) + Cardinality(held) + Cardinality(DOMAIN outstanding) + Cardinality(HandSlots)
    BY <1>11, <1>14, <1>16, AddsUp
  <1> QED BY <1>7, <1>8, <1>17

LEMMA MirroredHolds == SInv /\ LInv /\ Covered => RingMirrored
  <1> SUFFICES ASSUME SInv, LInv, Covered PROVE RingMirrored OBVIOUS
  <1>1. worker.at # "dead" => Contents(Free(seg)) = Unacquired \o (IF main.at \in {"release", "released"} THEN Front(free_slots) ELSE free_slots)
    BY RingIsMirrored DEF FreeRing, Mirror, Recycling
  <1>2. /\ ToSet(free_slots) \cup held \cup SentSlots \cup HandSlots = Slot(seg)
        /\ Len(free_slots) + Cardinality(held) + Cardinality(DOMAIN outstanding) + Cardinality(HandSlots) = Slots[seg]
    BY SlotsAddUp
  <1> QED BY <1>1, <1>2 DEF RingMirrored, SentSlots, HandSlots, InHand

\* The dispatcher's list and the free ring agree, slot by slot and in order, whatever is on
\* its way to the worker, and no slot of the segment is lost or counted twice.
THEOREM FreeRingMirrored == Spec => []RingMirrored
  BY LockstepStart, LockstepStep, CoveredStart, CoveredStep, MirroredHolds, SlotsInvariant, PTL DEF Spec, Safety

================================================================================
