----------------------------- MODULE SlotExchange ------------------------------
(* How frames cross from one worker process to the dispatcher: the slots of a shared
   segment, handed to the worker through the free ring and back through the ready
   ring, next to the control pipe (oak-render procpool.rs and ipc.rs, oak-worker
   worker.rs).  ProcPool has the pool around it and counts the slots; here each slot
   has its number and its contents.  The dispatcher works under one mutex: main.at is
   "idle" when nobody holds it in the middle of a ring operation. *)
EXTENDS SpscRing, FiniteSets, SequencesExt

CONSTANTS
    Ticket,
    Audio,        \* the tickets for sound: a batch is sent as two messages
    Slots,        \* Slots[s]: how many slots segment s has
    MaxFresh      \* bound on the crashes and growths: each takes a fresh segment

Segment == 1..(1 + MaxFresh)
Slot(s) == 0..(Slots[s] - 1)
None == "none"

ASSUME ExchangeAssumption ==
    /\ Audio \subseteq Ticket /\ MaxFresh \in Nat
    /\ Slots \in [Segment -> Nat \ {0}]

VARIABLES
    shm,            \* the segments: two rings, and whose frame each slot holds
    seg,            \* the handle's segment,
    free_slots,     \* its mirror of the free ring,
    held,           \* the slots of delivered frames
    outstanding,    \* and the tickets sent, with their slots
    reconfiguring,  \* the worker has not attached the segment yet
    main,           \* the ring operation of the dispatcher
    ticket,         \* what became of each request
    refs,           \* the frames the consumers have
    inbox, replies, \* the control pipe
    worker,         \* the worker's loop
    fresh           \* how many crashes and growths there were

handleVars == <<seg, free_slots, held, outstanding, reconfiguring>>
pipeVars == <<inbox, replies>>
vars == <<shm, handleVars, main, ticket, refs, pipeVars, worker, fresh>>

Free(s) == shm[s].free
Ready(s) == shm[s].ready

NewSegment(s) == [free |-> Seeded(Slots[s]), ready |-> NewRing(Slots[s]),
                  data |-> [slot \in Slot(s) |-> None]]
AllSlots(s) == [i \in 1..Slots[s] |-> i - 1]
Idle == [at |-> "idle", ticket |-> None, slot |-> 0]
Handshake(s) == [type |-> "handshake", seg |-> s, specs |-> <<>>]
Batch(specs) == [type |-> "batch", seg |-> 0, specs |-> specs]
Spec1(t, slot) == [ticket |-> t, slot |-> slot]
Loop(s) == [at |-> "loop", seg |-> s, todo |-> <<>>, got |-> 0]

Init ==
    /\ shm = [s \in Segment |-> NewSegment(s)]
    /\ seg = 1 /\ free_slots = AllSlots(1) /\ held = {} /\ outstanding = [t \in {} |-> 0]
    /\ reconfiguring = TRUE
    /\ main = Idle
    /\ ticket = [t \in Ticket |-> "queued"]
    /\ refs = {}
    /\ inbox = <<Handshake(1)>> /\ replies = <<>>
    /\ worker = Loop(0)
    /\ fresh = 0

Without(f, x) == [y \in DOMAIN f \ {x} |-> f[y]]

--------------------------------------------------------------------------------
(* The dispatcher *)

\* mutant: the sound gets its slots first
OrderedSoundFirst(video, audio) == audio \o video

\* Slots are given out in the order of the messages: video first, then sound
Ordered(video, audio) == video \o audio

SlotOf(order, t) == free_slots[CHOOSE i \in DOMAIN order : order[i] = t]
Specs(part, order) == [i \in DOMAIN part |-> Spec1(part[i], SlotOf(order, part[i]))]
Message(part, order) == IF part = <<>> THEN <<>> ELSE <<Batch(Specs(part, order))>>

\* The scheduler claims any batch the credit covers (see ProcPool); the claim is parted
\* into video and audio
Dispatch(video, audio) ==
    LET order == Ordered(video, audio)
    IN /\ main.at = "idle" /\ ~reconfiguring
       /\ order # <<>> /\ Len(order) <= Len(free_slots)
       /\ \A t \in ToSet(order) : ticket[t] = "queued"
       /\ outstanding' = [t \in DOMAIN outstanding \cup ToSet(order) |->
                            IF t \in ToSet(order) THEN SlotOf(order, t) ELSE outstanding[t]]
       /\ free_slots' = SubSeq(free_slots, Len(order) + 1, Len(free_slots))
       /\ ticket' = [t \in Ticket |-> IF t \in ToSet(order) THEN "sent" ELSE ticket[t]]
       /\ inbox' = inbox \o (Message(video, order) \o Message(audio, order))
       /\ UNCHANGED <<shm, seg, held, reconfiguring, main, refs, replies, worker, fresh>>

Cancel(t) ==
    /\ main.at = "idle" /\ ticket[t] \in {"queued", "sent"}
    /\ ticket' = [ticket EXCEPT ![t] = "answered"]
    /\ UNCHANGED <<shm, handleVars, main, refs, pipeVars, worker, fresh>>

\* recycle_slot, and the end of release_frame: the mirror first, then the ring
Recycle(slot) ==
    /\ free_slots' = Append(free_slots, slot)
    /\ main' = [at |-> "release", ticket |-> None, slot |-> slot]

Reply == Head(replies)
Takes(type) == main.at = "idle" /\ replies # <<>> /\ Reply.type = type /\ replies' = Tail(replies)

OnHelloCaps ==
    /\ Takes("hello_caps")
    /\ reconfiguring' = FALSE
    /\ UNCHANGED <<shm, seg, free_slots, held, outstanding, main, ticket, refs, inbox, worker, fresh>>

OnFrameReady ==
    /\ Takes("frame_ready")
    /\ outstanding' = Without(outstanding, Reply.ticket)
    /\ main' = IF Reply.ticket \in DOMAIN outstanding
               THEN [at |-> "consume", ticket |-> Reply.ticket, slot |-> Reply.slot] ELSE main
    /\ UNCHANGED <<shm, seg, free_slots, held, reconfiguring, ticket, refs, inbox, worker, fresh>>

OnFrameFailed ==
    /\ Takes("frame_failed")
    /\ outstanding' = Without(outstanding, Reply.ticket)
    /\ IF Reply.ticket \in DOMAIN outstanding
       THEN /\ Recycle(outstanding[Reply.ticket])
            /\ ticket' = [ticket EXCEPT ![Reply.ticket] = "answered"]
       ELSE UNCHANGED <<free_slots, main, ticket>>
    /\ UNCHANGED <<shm, seg, held, reconfiguring, refs, inbox, worker, fresh>>

\* mutant: the ready ring is not drained, since frame_ready names the slot
ConsumeNot ==
    /\ main.at = "consume"
    /\ main' = [main EXCEPT !.at = "deliver"]
    /\ UNCHANGED <<shm, handleVars, ticket, refs, pipeVars, worker, fresh>>

\* frame_ready is believed whatever the ready ring says
Consume ==
    /\ main.at = "consume"
    /\ main' = [main EXCEPT !.at = IF CanPop(Ready(seg)) THEN "consumed" ELSE "deliver"]
    /\ UNCHANGED <<shm, handleVars, ticket, refs, pipeVars, worker, fresh>>

Consumed ==
    /\ main.at = "consumed"
    /\ shm' = [shm EXCEPT ![seg].ready = PopTail(@)]
    /\ main' = [main EXCEPT !.at = "deliver"]
    /\ UNCHANGED <<handleVars, ticket, refs, pipeVars, worker, fresh>>

\* A frame nobody waits for gives its slot back
Deliver ==
    /\ main.at = "deliver"
    /\ IF ticket[main.ticket] = "sent"
       THEN /\ held' = held \cup {main.slot}
            /\ refs' = refs \cup {[seg |-> seg, slot |-> main.slot, ticket |-> main.ticket]}
            /\ ticket' = [ticket EXCEPT ![main.ticket] = "answered"]
            /\ main' = Idle /\ UNCHANGED free_slots
       ELSE Recycle(main.slot) /\ UNCHANGED <<held, refs, ticket>>
    /\ UNCHANGED <<shm, seg, outstanding, reconfiguring, pipeVars, worker, fresh>>

Release ==
    /\ main.at = "release"
    /\ shm' = IF CanPush(Free(seg)) THEN [shm EXCEPT ![seg].free = PushCell(@, main.slot)] ELSE shm
    /\ main' = IF CanPush(Free(seg)) THEN [main EXCEPT !.at = "released"] ELSE Idle
    /\ UNCHANGED <<handleVars, ticket, refs, pipeVars, worker, fresh>>

Released ==
    /\ main.at = "released"
    /\ shm' = [shm EXCEPT ![seg].free = PushHead(@)]
    /\ main' = Idle
    /\ UNCHANGED <<handleVars, ticket, refs, pipeVars, worker, fresh>>

\* mutant: a frame of an earlier segment counts for this one
ReleaseFrameAnySegment(f) ==
    /\ main.at = "idle" /\ f \in refs
    /\ refs' = refs \ {f}
    /\ IF f.slot \in held
       THEN held' = held \ {f.slot} /\ Recycle(f.slot)
       ELSE UNCHANGED <<held, free_slots, main>>
    /\ UNCHANGED <<shm, seg, outstanding, reconfiguring, ticket, pipeVars, worker, fresh>>

\* A consumer is done with a frame; one of an earlier segment is ignored
ReleaseFrame(f) ==
    /\ main.at = "idle" /\ f \in refs
    /\ refs' = refs \ {f}
    /\ IF f.seg = seg /\ f.slot \in held
       THEN held' = held \ {f.slot} /\ Recycle(f.slot)
       ELSE UNCHANGED <<held, free_slots, main>>
    /\ UNCHANGED <<shm, seg, outstanding, reconfiguring, ticket, pipeVars, worker, fresh>>

\* The handle is given the next segment, with every slot free
Reseed(sent) ==
    /\ seg' = seg + 1 /\ free_slots' = AllSlots(seg + 1) /\ held' = {} /\ reconfiguring' = TRUE
    /\ inbox' = sent

RebuildSegment ==
    /\ main.at = "idle" /\ ~reconfiguring /\ fresh < MaxFresh
    /\ free_slots # <<>> /\ DOMAIN outstanding = {}
    /\ fresh' = fresh + 1
    /\ Reseed(Append(inbox, Handshake(seg + 1)))
    /\ UNCHANGED <<shm, outstanding, main, ticket, refs, replies, worker>>

\* The dispatcher notices a dead worker, queues its frames again and starts another on
\* a fresh segment; what the old one still had to say is dropped (see ProcPool)
RestartWorker ==
    /\ main.at = "idle" /\ worker.at = "dead"
    /\ ticket' = [t \in Ticket |-> IF ticket[t] = "sent" THEN "queued" ELSE ticket[t]]
    /\ outstanding' = [t \in {} |-> 0]
    /\ Reseed(<<Handshake(seg + 1)>>)
    /\ replies' = <<>>
    /\ worker' = Loop(0)
    /\ UNCHANGED <<shm, main, refs, fresh>>

--------------------------------------------------------------------------------
(* The worker: one message after the other, one ticket after the other *)

Current == Head(worker.todo)
Answer(msg) == replies' = Append(replies, msg)
Next1 == [worker EXCEPT !.at = IF Len(worker.todo) > 1 THEN "acquire" ELSE "loop", !.todo = Tail(@)]

Attach ==
    /\ worker.at = "loop" /\ inbox # <<>> /\ Head(inbox).type = "handshake"
    /\ worker' = Loop(Head(inbox).seg)
    /\ inbox' = Tail(inbox)
    /\ Answer([type |-> "hello_caps", ticket |-> None, slot |-> 0])
    /\ UNCHANGED <<shm, handleVars, main, ticket, refs, fresh>>

TakeBatch ==
    /\ worker.at = "loop" /\ inbox # <<>> /\ Head(inbox).type = "batch"
    /\ worker' = [worker EXCEPT !.at = "acquire", !.todo = Head(inbox).specs]
    /\ inbox' = Tail(inbox)
    /\ UNCHANGED <<shm, handleVars, main, ticket, refs, replies, fresh>>

\* acquire_slot polls an empty ring
Acquire ==
    /\ worker.at = "acquire" /\ CanPop(Free(worker.seg))
    /\ worker' = [worker EXCEPT !.at = "acquired", !.got = PopCell(Free(worker.seg))]
    /\ UNCHANGED <<shm, handleVars, main, ticket, refs, pipeVars, fresh>>

\* Any other slot than the assigned one is a failure of the ticket
Acquired ==
    /\ worker.at = "acquired"
    /\ shm' = [shm EXCEPT ![worker.seg].free = PopTail(@)]
    /\ worker' = [worker EXCEPT !.at = IF worker.got = Current.slot THEN "render" ELSE "failed"]
    /\ UNCHANGED <<handleVars, main, ticket, refs, pipeVars, fresh>>

\* A render that fails may have written part of the slot
Render(ok) ==
    /\ worker.at = "render"
    /\ shm' = [shm EXCEPT ![worker.seg].data[worker.got] = Current.ticket]
    /\ worker' = [worker EXCEPT !.at = IF ok THEN "publish" ELSE "failed"]
    /\ UNCHANGED <<handleVars, main, ticket, refs, pipeVars, fresh>>

Publish ==
    /\ worker.at = "publish"
    /\ IF CanPush(Ready(worker.seg))
       THEN /\ shm' = [shm EXCEPT ![worker.seg].ready = PushCell(@, worker.got)]
            /\ worker' = [worker EXCEPT !.at = "published"]
       ELSE worker' = [worker EXCEPT !.at = "failed"] /\ UNCHANGED shm
    /\ UNCHANGED <<handleVars, main, ticket, refs, pipeVars, fresh>>

Published ==
    /\ worker.at = "published"
    /\ shm' = [shm EXCEPT ![worker.seg].ready = PushHead(@)]
    /\ worker' = [worker EXCEPT !.at = "ready"]
    /\ UNCHANGED <<handleVars, main, ticket, refs, pipeVars, fresh>>

SayReady ==
    /\ worker.at = "ready"
    /\ Answer([type |-> "frame_ready", ticket |-> Current.ticket, slot |-> worker.got])
    /\ worker' = Next1
    /\ UNCHANGED <<shm, handleVars, main, ticket, refs, inbox, fresh>>

\* mutant: a failed ticket is not answered
SayFailedNot ==
    /\ worker.at = "failed"
    /\ worker' = Next1
    /\ UNCHANGED <<shm, handleVars, main, ticket, refs, pipeVars, fresh>>

SayFailed ==
    /\ worker.at = "failed"
    /\ Answer([type |-> "frame_failed", ticket |-> Current.ticket, slot |-> 0])
    /\ worker' = Next1
    /\ UNCHANGED <<shm, handleVars, main, ticket, refs, inbox, fresh>>

Crash ==
    /\ worker.at # "dead" /\ fresh < MaxFresh
    /\ fresh' = fresh + 1
    /\ worker' = [worker EXCEPT !.at = "dead"]
    /\ UNCHANGED <<shm, handleVars, main, ticket, refs, pipeVars>>

--------------------------------------------------------------------------------

Claims(kind) == {part \in SeqOf(kind, Len(free_slots)) : IsInjective(part)}
SomeDispatch == \E video \in Claims(Ticket \ Audio), audio \in Claims(Audio) : Dispatch(video, audio)
MainStep == Consume \/ Consumed \/ Deliver \/ Release \/ Released
Drain == OnHelloCaps \/ OnFrameReady \/ OnFrameFailed
WorkerStep ==
    \/ Attach \/ TakeBatch \/ Acquire \/ Acquired \/ (\E ok \in BOOLEAN : Render(ok))
    \/ Publish \/ Published \/ SayReady \/ SayFailed

Next ==
    \/ SomeDispatch
    \/ \E t \in Ticket : Cancel(t)
    \/ \E f \in refs : ReleaseFrame(f)
    \/ MainStep \/ Drain \/ RebuildSegment \/ RestartWorker
    \/ WorkerStep
    \/ Crash

Safety == Init /\ [][Next]_vars

(* Started ring operations go on; the dispatcher polls: it reads the replies, restarts
   a dead worker and sends work while there is credit; the worker serves its pipe; the
   consumers release what they have.  Cancellation, growth and crashes are never forced. *)
Poll == Drain \/ RestartWorker \/ SomeDispatch
Spec ==
    /\ Safety
    /\ WF_vars(MainStep) /\ WF_vars(WorkerStep) /\ WF_vars(Poll)
    /\ WF_vars(\E f \in refs : ReleaseFrame(f))

--------------------------------------------------------------------------------

\* The frame a consumer has is its own until it gives it back, across reuse of slots,
\* growth of the segment and a crash of the worker: no other ticket is written over it,
\* and the dispatcher counts its slot as held while its segment is in use.
FramesIntact ==
    \A f \in refs : shm[f.seg].data[f.slot] = f.ticket /\ (f.seg = seg => f.slot \in held)

\* The slots of the tickets the worker has still to take from the free ring, in order
Unacquired ==
    LET left == IF worker.at \in {"acquire", "acquired"} \/ worker.todo = <<>> THEN worker.todo
                ELSE Tail(worker.todo)
        specs == left \o FlattenSeq([i \in DOMAIN inbox |-> inbox[i].specs])
    IN [i \in DOMAIN specs |-> specs[i].slot]

\* The dispatcher's free_slots mirrors the free ring: the ring holds the slots that
\* were assigned and not yet taken, then the free ones, in order.  Every slot of the
\* segment is free, outstanding, held or in the dispatcher's hands.
RingMirrored ==
    LET mirrored == IF main.at \in {"release", "released"} THEN Front(free_slots) ELSE free_slots
        inHand == IF main.at \in {"consume", "consumed", "deliver"} THEN {main.slot} ELSE {}
        sent == {outstanding[t] : t \in DOMAIN outstanding}
    IN /\ worker.at # "dead" => Contents(Free(seg)) = Unacquired \o mirrored
       /\ ToSet(free_slots) \cup held \cup sent \cup inHand = Slot(seg)
       /\ Len(free_slots) + Cardinality(held) + Cardinality(DOMAIN outstanding) + Cardinality(inHand) = Slots[seg]

\* "The worker's `acquire` always pops exactly the assigned slot", without waiting;
\* frame_ready and the ready ring name the same slot; and neither ring is ever full.
InLockstep ==
    /\ worker.at = "acquire" => CanPop(Free(worker.seg)) /\ PopCell(Free(worker.seg)) = Current.slot
    /\ worker.at = "publish" => CanPush(Ready(worker.seg))
    /\ main.at = "consume" => CanPop(Ready(seg)) /\ PopCell(Ready(seg)) = main.slot
    /\ main.at = "release" => CanPush(Free(seg))

\* Every request is answered, whichever fail and whenever the worker crashes: no slot
\* is lost on the way, so the credit never runs out.
RequestsAnswered == <>(\A t \in Ticket : ticket[t] = "answered")

================================================================================
