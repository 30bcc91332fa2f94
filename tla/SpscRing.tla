------------------------------- MODULE SpscRing --------------------------------
(* The single-producer, single-consumer ring of slot numbers in a segment (oak-render
   ipc.rs).  A push and a pop are two steps each: the producer reads the consumer's
   cursor and writes the cell, then stores its own; the consumer reads the producer's
   cursor and the cell, then stores its own.  Each side alone writes its cursor, so
   the read of it is part of the step that uses it. *)
EXTENDS Naturals, Sequences

\* One cell more than there are slots: a full ring is not an empty one
NewRing(slots) == [head |-> 0, tail |-> 0, capacity |-> slots + 1, cell |-> [i \in 0..slots |-> 0]]

Increment(r, i) == (i + 1) % r.capacity

CanPush(r) == Increment(r, r.head) # r.tail
PushCell(r, slot) == [r EXCEPT !.cell[r.head] = slot]
PushHead(r) == [r EXCEPT !.head = Increment(r, @)]

CanPop(r) == r.tail # r.head
PopCell(r) == r.cell[r.tail]
PopTail(r) == [r EXCEPT !.tail = Increment(r, @)]

\* A ring that holds all the slots of a fresh segment
Seeded(slots) == [NewRing(slots) EXCEPT !.head = slots, !.cell = [i \in 0..slots |-> IF i < slots THEN i ELSE 0]]

\* What the consumer has still to take, in order
Contents(r) ==
    [k \in 1..((r.head + r.capacity - r.tail) % r.capacity) |-> r.cell[(r.tail + k - 1) % r.capacity]]

================================================================================
