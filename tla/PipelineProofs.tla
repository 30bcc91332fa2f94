---------------------------- MODULE PipelineProofs -----------------------------
(* The safety of the thread pipeline for any number of submitting threads and
   tickets and any capacity of the queue: types, one holder per ticket, the sync
   path, the shutdown, and the promise of RenderTickets. *)
EXTENDS Pipeline, FiniteSetTheorems, TLAPS

--------------------------------------------------------------------------------
(* The inductive invariant.  OneHolder counts; here it is said with quantifiers. *)

\* Which steps of which calls a thread can be in
Posting == {"post", "room", "woken", "publish"}
Waiting == {"wait", "blocked", "read"}
ClientAt == {"idle"} \cup Posting \cup Waiting
RenderAt == {"loop", "asleep", "produce", "reply", "publish", "callback", "repost", "gone"}
Stopped == {"answer", "publish", "join", "stopdecode", "joindecode", "down"}
MainAt == {"idle", "cancelled", "stopping"} \cup Stopped

Whereabouts ==
    /\ \A c \in Client : th[c].at \in ClientAt
    /\ th["render"].at \in RenderAt
    /\ th["main"].at \in MainAt
    /\ stopping <=> th["main"].at \in {"stopping"} \cup Stopped
    /\ \A p \in Thread : th[p].at = "publish" => th[p].res # "none"
    /\ drained # <<>> => th["main"].at \in {"answer", "publish"}

\* Of the slots: the next ones are unused, nobody can look one up before it is
\* allocated, and a ticket without an answer can be looked up and was not answered
SlotsSound ==
    /\ \A t \in Ticket : t >= next => slot[t] = Unused /\ t \notin arena
    /\ \A t \in Ticket : Running(t) => t \in arena /\ slot[t].calls = 0
    /\ \A t \in Ticket : Finished(t) => slot[t].result # "none"

Holds(p) == th[p].at \in Working

\* What threads and queues hold has no answer yet,
HeldRun ==
    /\ \A p \in Thread : Holds(p) => th[p].t \in Ticket /\ Running(th[p].t)
    /\ \A i \in DOMAIN queue : Running(queue[i])
    /\ \A i \in DOMAIN drained : Running(drained[i])

\* nothing is held twice,
HeldOnce ==
    /\ \A p, q \in Thread : Holds(p) /\ Holds(q) /\ th[p].t = th[q].t => p = q
    /\ \A i, j \in DOMAIN queue : queue[i] = queue[j] => i = j
    /\ \A i, j \in DOMAIN drained : drained[i] = drained[j] => i = j
    /\ \A p \in Thread : Holds(p) =>
          /\ \A i \in DOMAIN queue : queue[i] # th[p].t
          /\ \A i \in DOMAIN drained : drained[i] # th[p].t
    /\ \A i \in DOMAIN queue, j \in DOMAIN drained : queue[i] # drained[j]

\* and everything without an answer is held
RunHeld ==
    \A t \in Ticket : Running(t) =>
        \/ \E p \in Thread : Holds(p) /\ th[p].t = t
        \/ \E i \in DOMAIN queue : queue[i] = t
        \/ \E i \in DOMAIN drained : drained[i] = t

Held == HeldRun /\ HeldOnce /\ RunHeld

\* The decode channel has a request only while the render thread waits for the reply
OneRequest ==
    /\ \A i \in DOMAIN channel : channel[i] = "request" => th["render"].at = "reply"
    /\ \A i, j \in DOMAIN channel : channel[i] = "request" /\ channel[j] = "request" => i = j

\* The sync path: its tickets are not reaped, and no two threads share one
SyncSound ==
    /\ \A c \in Client : th[c].at # "idle" => th[c].t \in Ticket /\ th[c].t < next
    /\ \A c, d \in Client : th[c].at # "idle" /\ th[d].at # "idle" /\ th[c].t = th[d].t => c = d
    /\ \A c \in Client : th[c].at \in Waiting => th[c].kind = "sync"
    /\ \A c \in Client : th[c].at # "idle" /\ th[c].kind = "sync" =>
          th[c].t \in arena /\ slot[th[c].t].poll_after
    /\ \A c \in Client : th[c].at = "read" => Finished(th[c].t)

\* After the drain, what is queued or waits for room was waiting then
LateOnly ==
    th["main"].at \in Stopped =>
        /\ \A i \in DOMAIN queue : queue[i] \in late
        /\ \A c \in Client : th[c].at \in {"room", "woken"} => th[c].t \in late

IInv ==
    /\ TypeOK /\ Whereabouts /\ SlotsSound /\ Held /\ OneRequest /\ SyncSound /\ LateOnly

--------------------------------------------------------------------------------
(* What a step does to the threads, thread by thread *)

\* Only p moves: to step a, with ticket t and result r.
Moves(p, a, t, r) ==
    /\ th' \in [Thread -> ThreadState]
    /\ \A q \in Thread : q # p => th'[q] = th[q]
    /\ th'[p].at = a /\ th'[p].t = t /\ th'[p].kind = th[p].kind /\ th'[p].res = r

\* Go moves one thread and leaves its ticket alone.
LEMMA GoMoves ==
    ASSUME TypeOK, NEW p \in Thread, NEW a \in Step, Go(p, a)
    PROVE  Moves(p, a, th[p].t, th[p].res)
BY DEF Go, Moves, TypeOK, ThreadState

\* GoWith moves one thread.
LEMMA GoWithMoves ==
    ASSUME TypeOK, NEW p \in Thread, NEW a \in Step, NEW t \in Ticket \cup {None},
           NEW r \in {"none", "outcome", "state"}, GoWith(p, a, t, r)
    PROVE  Moves(p, a, t, r)
BY DEF GoWith, Moves, TypeOK, ThreadState

\* finish moves the thread that answers its ticket to the publication.
LEMMA FinishMoves ==
    ASSUME IInv, NEW p \in Thread, NEW r \in {"outcome", "state"}, Finish(p, r)
    PROVE  Moves(p, "publish", th[p].t, Outcome(th[p].t, r)) /\ Outcome(th[p].t, r) \in {"outcome", "state"}
<1>1. Outcome(th[p].t, r) \in {"outcome", "state"}
  BY DEF Outcome
<1>2. th[p].t \in Ticket \cup {None} /\ "publish" \in Step
  BY DEF IInv, TypeOK, ThreadState, Step
<1> QED
  BY <1>1, <1>2, GoWithMoves DEF Finish, IInv

--------------------------------------------------------------------------------
(* Who holds what *)

\* A step that changes neither who holds what nor what has an answer.
LEMMA KeepsHolding ==
    ASSUME Held, queue \in Seq(Ticket), drained \in Seq(Ticket),
           queue' = queue, drained' = drained,
           \A t \in Ticket : Running(t)' <=> Running(t),
           \A q \in Thread : Holds(q)' <=> Holds(q),
           \A q \in Thread : Holds(q) => th'[q].t = th[q].t
    PROVE  Held'
<1> USE DEF Held, Holds, Running
<1>1. HeldRun'
  BY DEF HeldRun
<1>2. HeldOnce'
  BY DEF HeldOnce, HeldRun
<1>3. RunHeld'
  BY DEF RunHeld
<1> QED
  BY <1>1, <1>2, <1>3

\* A step in which p alone gets a ticket nobody had.
LEMMA TakesNew ==
    ASSUME Held, queue \in Seq(Ticket), drained \in Seq(Ticket),
           queue' = queue, drained' = drained, NEW p \in Thread, NEW new \in Ticket,
           ~Running(new), ~Holds(p), Holds(p)', th'[p].t = new,
           \A t \in Ticket : Running(t)' <=> Running(t) \/ t = new,
           \A q \in Thread : q # p => th'[q] = th[q]
    PROVE  Held'
<1> USE DEF Held, Holds, Running
<1>1. HeldRun'
  BY DEF HeldRun
<1>2. HeldOnce'
  BY DEF HeldOnce, HeldRun
<1>3. RunHeld'
  BY DEF RunHeld
<1> QED
  BY <1>1, <1>2, <1>3

\* A step in which p alone gives the answer to what it holds.
LEMMA Answers ==
    ASSUME Held, queue \in Seq(Ticket), drained \in Seq(Ticket),
           queue' = queue, drained' = drained, NEW p \in Thread,
           Holds(p), ~Holds(p)',
           \A t \in Ticket : Running(t)' <=> Running(t) /\ t # th[p].t,
           \A q \in Thread : q # p => th'[q] = th[q]
    PROVE  Held'
<1> USE DEF Held, Holds, Running
<1>1. HeldRun'
  BY DEF HeldRun, HeldOnce
<1>2. HeldOnce'
  BY DEF HeldOnce
<1>3. RunHeld'
  BY SMTT(20) DEF RunHeld
<1> QED
  BY <1>1, <1>2, <1>3

\* A step in which p alone puts what it holds at the end of the queue.
LEMMA Enqueues ==
    ASSUME Held, queue \in Seq(Ticket), drained \in Seq(Ticket),
           NEW p \in Thread, queue' = Append(queue, th[p].t), drained' = drained,
           Holds(p), ~Holds(p)',
           \A t \in Ticket : Running(t)' <=> Running(t),
           \A q \in Thread : q # p => (Holds(q)' <=> Holds(q)),
           \A q \in Thread : q # p /\ Holds(q) => th'[q].t = th[q].t
    PROVE  Held'
<1> USE DEF Held, Holds, Running
<1>0. th[p].t \in Ticket /\ Running(th[p].t)
  BY DEF HeldRun
<1>1. /\ Len(queue) \in Nat /\ Len(queue') = Len(queue) + 1 /\ DOMAIN queue' = 1..(Len(queue) + 1)
      /\ DOMAIN queue = 1..Len(queue)
      /\ \A i \in 1..Len(queue) : queue'[i] = queue[i]
      /\ queue'[Len(queue) + 1] = th[p].t
  BY <1>0
<1>2. HeldRun'
  BY <1>0, <1>1, SMTT(20) DEF HeldRun
<1>3. HeldOnce'
  BY <1>0, <1>1, SMTT(20) DEF HeldOnce
<1>4. RunHeld'
  BY <1>0, <1>1 DEF RunHeld
<1> QED
  BY <1>2, <1>3, <1>4

\* A step in which p alone takes the first of the queue.
LEMMA Dequeues ==
    ASSUME Held, queue \in Seq(Ticket), drained \in Seq(Ticket),
           NEW p \in Thread, queue # <<>>, queue' = Tail(queue), drained' = drained,
           ~Holds(p), Holds(p)', th'[p].t = Head(queue),
           \A t \in Ticket : Running(t)' <=> Running(t),
           \A q \in Thread : q # p => (Holds(q)' <=> Holds(q)),
           \A q \in Thread : q # p /\ Holds(q) => th'[q].t = th[q].t
    PROVE  Held'
<1> USE DEF Held, Holds, Running
<1>1. /\ Len(queue) \in Nat /\ Len(queue) > 0 /\ DOMAIN queue = 1..Len(queue)
      /\ DOMAIN queue' = 1..(Len(queue) - 1)
      /\ \A i \in 1..(Len(queue) - 1) : queue'[i] = queue[i + 1]
      /\ th'[p].t = queue[1] /\ queue[1] \in Ticket
  OBVIOUS
<1>2. HeldRun'
  BY <1>1 DEF HeldRun
<1>3. HeldOnce'
  <2>1. \A i \in DOMAIN queue' : queue'[i] # queue[1] /\ \E j \in DOMAIN queue : j = i + 1 /\ queue'[i] = queue[j]
    BY <1>1 DEF HeldOnce
  <2>2. \A i, j \in DOMAIN queue' : queue'[i] = queue'[j] => i = j
    BY <1>1, <2>1 DEF HeldOnce
  <2>3. \A i \in DOMAIN drained' : drained'[i] # queue[1]
    BY <1>1 DEF HeldOnce
  <2>4. \A q \in Thread : q # p /\ Holds(q)' => Holds(q) /\ th'[q].t = th[q].t /\ th[q].t # queue[1]
    BY <1>1 DEF HeldOnce
  <2>5. \A q, r \in Thread : Holds(q)' /\ Holds(r)' /\ th'[q].t = th'[r].t => q = r
    BY <1>1, <2>4 DEF HeldOnce
  <2>6. \A q \in Thread : Holds(q)' =>
            /\ \A i \in DOMAIN queue' : queue'[i] # th'[q].t
            /\ \A i \in DOMAIN drained' : drained'[i] # th'[q].t
    BY <1>1, <2>1, <2>3, <2>4 DEF HeldOnce
  <2>7. \A i \in DOMAIN queue', j \in DOMAIN drained' : queue'[i] # drained'[j]
    BY <1>1, <2>1 DEF HeldOnce
  <2> QED
    BY <2>2, <2>5, <2>6, <2>7 DEF HeldOnce
<1>4. RunHeld'
  <2> SUFFICES ASSUME NEW t \in Ticket, Running(t)',
                      ~\E i \in DOMAIN drained' : drained'[i] = t,
                      ~\E q \in Thread : Holds(q)' /\ th'[q].t = t
               PROVE  \E i \in DOMAIN queue' : queue'[i] = t
    BY DEF RunHeld
  <2>1. Running(t) /\ ~\E q \in Thread : Holds(q) /\ th[q].t = t
    OBVIOUS
  <2>2. PICK i \in DOMAIN queue : queue[i] = t
    BY <2>1 DEF RunHeld
  <2>3. i # 1 /\ i \in 1..Len(queue)
    BY <1>1, <2>2
  <2>4. i - 1 \in DOMAIN queue' /\ queue'[i - 1] = t
    BY <1>1, <2>2, <2>3
  <2> QED
    BY <2>4
<1> QED
  BY <1>2, <1>3, <1>4

\* A step in which the shutdown takes all of the queue.
LEMMA Drains ==
    ASSUME Held, queue \in Seq(Ticket), drained \in Seq(Ticket),
           queue' = <<>>, drained' = queue, drained = <<>>,
           \A t \in Ticket : Running(t)' <=> Running(t),
           \A q \in Thread : Holds(q)' <=> Holds(q),
           \A q \in Thread : Holds(q) => th'[q].t = th[q].t
    PROVE  Held'
<1> USE DEF Held, Holds, Running
<1>1. HeldRun'
  BY DEF HeldRun
<1>2. HeldOnce'
  BY DEF HeldOnce, HeldRun
<1>3. RunHeld'
  BY DEF RunHeld
<1> QED
  BY <1>1, <1>2, <1>3

\* A step in which p alone takes the first of the drained jobs.
LEMMA TakesDrained ==
    ASSUME Held, queue \in Seq(Ticket), drained \in Seq(Ticket),
           NEW p \in Thread, drained # <<>>, drained' = Tail(drained), queue' = queue,
           ~Holds(p), Holds(p)', th'[p].t = Head(drained),
           \A t \in Ticket : Running(t)' <=> Running(t),
           \A q \in Thread : q # p => th'[q] = th[q]
    PROVE  Held'
<1> USE DEF Held, Holds, Running
<1>1. /\ Len(drained) \in Nat /\ Len(drained) > 0 /\ DOMAIN drained = 1..Len(drained)
      /\ DOMAIN drained' = 1..(Len(drained) - 1)
      /\ \A i \in 1..(Len(drained) - 1) : drained'[i] = drained[i + 1]
      /\ th'[p].t = drained[1] /\ drained[1] \in Ticket
  OBVIOUS
<1>2. HeldRun'
  BY <1>1 DEF HeldRun
<1>3. HeldOnce'
  <2>1. \A i \in DOMAIN drained' : drained'[i] # drained[1] /\ \E j \in DOMAIN drained : j = i + 1 /\ drained'[i] = drained[j]
    BY <1>1 DEF HeldOnce
  <2>2. \A i, j \in DOMAIN drained' : drained'[i] = drained'[j] => i = j
    BY <1>1, <2>1 DEF HeldOnce
  <2>3. \A i \in DOMAIN queue' : queue'[i] # drained[1]
    BY <1>1 DEF HeldOnce
  <2>4. \A q \in Thread : q # p /\ Holds(q)' => Holds(q) /\ th'[q].t = th[q].t /\ th[q].t # drained[1]
    BY <1>1 DEF HeldOnce
  <2>5. \A q, r \in Thread : Holds(q)' /\ Holds(r)' /\ th'[q].t = th'[r].t => q = r
    BY <1>1, <2>4 DEF HeldOnce
  <2>6. \A q \in Thread : Holds(q)' =>
            /\ \A i \in DOMAIN drained' : drained'[i] # th'[q].t
            /\ \A i \in DOMAIN queue' : queue'[i] # th'[q].t
    BY <1>1, <2>1, <2>3, <2>4 DEF HeldOnce
  <2>7. \A i \in DOMAIN queue', j \in DOMAIN drained' : queue'[i] # drained'[j]
    BY <1>1, <2>1 DEF HeldOnce
  <2> QED
    BY <2>2, <2>5, <2>6, <2>7 DEF HeldOnce
<1>4. RunHeld'
  <2> SUFFICES ASSUME NEW t \in Ticket, Running(t)',
                      ~\E i \in DOMAIN queue' : queue'[i] = t,
                      ~\E q \in Thread : Holds(q)' /\ th'[q].t = t
               PROVE  \E i \in DOMAIN drained' : drained'[i] = t
    BY DEF RunHeld
  <2>1. Running(t) /\ ~\E q \in Thread : Holds(q) /\ th[q].t = t
    OBVIOUS
  <2>2. PICK i \in DOMAIN drained : drained[i] = t
    BY <2>1 DEF RunHeld
  <2>3. i # 1 /\ i \in 1..Len(drained)
    BY <1>1, <2>2
  <2>4. i - 1 \in DOMAIN drained' /\ drained'[i - 1] = t
    BY <1>1, <2>2, <2>3
  <2> QED
    BY <2>4
<1> QED
  BY <1>2, <1>3, <1>4

--------------------------------------------------------------------------------
(* One lemma per action *)

\* A refused submission is answered by its submitter.
LEMMA PushRefusedKeeps ==
    ASSUME IInv, NEW c \in Client, PushRefused(c)
    PROVE  IInv'
<1>1. c \in Thread /\ th[c].at \in {"post", "woken"}
  BY DEF PushRefused, Thread
<1>2. UNCHANGED <<slot, arena, next, queue, stopping, drained, late, installed, channel, decoding>>
  BY DEF PushRefused, arenaVars, queueVars, decodeVars
<1>3. Moves(c, "publish", th[c].t, Outcome(th[c].t, "state")) /\ Outcome(th[c].t, "state") \in {"outcome", "state"}
  BY <1>1, FinishMoves DEF PushRefused, IInv
<1>4. TypeOK'
  BY <1>2, <1>3 DEF IInv, TypeOK, ArenaTypeOK, Moves
<1>5. Whereabouts'
  BY <1>1, <1>2, <1>3, ClientAssumption DEF IInv, Whereabouts, Moves, Thread, ClientAt, Posting, Waiting
<1>6. SlotsSound'
  BY <1>2 DEF IInv, SlotsSound, Running, Finished
<1>7. Held'
  BY <1>1, <1>2, <1>3, KeepsHolding DEF IInv, TypeOK, Moves, Holds, Working, Running
<1>8. OneRequest'
  BY <1>1, <1>2, <1>3, ClientAssumption DEF IInv, OneRequest, Moves, Thread
<1>9. SyncSound'
  BY <1>1, <1>2, <1>3, ClientAssumption DEF IInv, SyncSound, Moves, Thread, Finished, Waiting
<1>10. LateOnly'
  BY <1>1, <1>2, <1>3, ClientAssumption DEF IInv, LateOnly, Moves, Thread
<1> QED
  BY <1>4, <1>5, <1>6, <1>7, <1>8, <1>9, <1>10 DEF IInv

\* A submission waits for room only while nothing stops, or stays refused.
LEMMA PushWaitsKeeps ==
    ASSUME IInv, NEW c \in Client, PushWaits(c)
    PROVE  IInv'
<1>1. c \in Thread /\ th[c].at \in {"post", "woken"} /\ ~stopping
  BY DEF PushWaits, Thread, Refuses
<1>2. UNCHANGED <<slot, arena, next, queue, stopping, drained, late, installed, channel, decoding>>
  BY DEF PushWaits, arenaVars, queueVars, decodeVars
<1>3. Moves(c, "room", th[c].t, th[c].res)
  BY <1>1, GoMoves DEF PushWaits, IInv, Step
<1>4. TypeOK'
  BY <1>2, <1>3 DEF IInv, TypeOK, ArenaTypeOK, Moves
<1>5. Whereabouts'
  BY <1>1, <1>2, <1>3, ClientAssumption DEF IInv, Whereabouts, Moves, Thread, ClientAt, Posting, Waiting
<1>6. SlotsSound'
  BY <1>2 DEF IInv, SlotsSound, Running, Finished
<1>7. Held'
  BY <1>1, <1>2, <1>3, KeepsHolding DEF IInv, TypeOK, Moves, Holds, Working, Running
<1>8. OneRequest'
  BY <1>1, <1>2, <1>3, ClientAssumption DEF IInv, OneRequest, Moves, Thread
<1>9. SyncSound'
  BY <1>1, <1>2, <1>3, ClientAssumption DEF IInv, SyncSound, Moves, Thread, Finished, Waiting
<1>10. LateOnly'
  BY <1>1, <1>2, <1>3, ClientAssumption DEF IInv, LateOnly, Moves, Thread, Whereabouts, Stopped
<1> QED
  BY <1>4, <1>5, <1>6, <1>7, <1>8, <1>9, <1>10 DEF IInv

\* The wait ends with an answer.
LEMMA WaitEndsKeeps ==
    ASSUME IInv, NEW c \in Client, WaitEnds(c)
    PROVE  IInv'
<1>1. c \in Thread /\ th[c].at = "blocked" /\ Finished(th[c].t)
  BY DEF WaitEnds, Thread
<1>2. UNCHANGED <<slot, arena, next, queue, stopping, drained, late, installed, channel, decoding>>
  BY DEF WaitEnds, arenaVars, queueVars, decodeVars
<1>3. Moves(c, "read", th[c].t, th[c].res)
  BY <1>1, GoMoves DEF WaitEnds, IInv, Step
<1>4. TypeOK'
  BY <1>2, <1>3 DEF IInv, TypeOK, ArenaTypeOK, Moves
<1>5. Whereabouts'
  BY <1>1, <1>2, <1>3, ClientAssumption DEF IInv, Whereabouts, Moves, Thread, ClientAt, Posting, Waiting
<1>6. SlotsSound'
  BY <1>2 DEF IInv, SlotsSound, Running, Finished
<1>7. Held'
  BY <1>1, <1>2, <1>3, KeepsHolding DEF IInv, TypeOK, Moves, Holds, Working, Running
<1>8. OneRequest'
  BY <1>1, <1>2, <1>3, ClientAssumption DEF IInv, OneRequest, Moves, Thread
<1>9. SyncSound'
  BY <1>1, <1>2, <1>3, ClientAssumption DEF IInv, SyncSound, Moves, Thread, Finished, Waiting
<1>10. LateOnly'
  BY <1>1, <1>2, <1>3, ClientAssumption DEF IInv, LateOnly, Moves, Thread
<1> QED
  BY <1>4, <1>5, <1>6, <1>7, <1>8, <1>9, <1>10 DEF IInv

\* The render thread falls asleep.
LEMMA RenderSleepsKeeps ==
    ASSUME IInv, RenderSleeps
    PROVE  IInv'
<1>1. "render" \in Thread /\ th["render"].at = "loop"
  BY DEF RenderSleeps, Thread
<1>2. UNCHANGED <<slot, arena, next, queue, stopping, drained, late, installed, channel, decoding>>
  BY DEF RenderSleeps, arenaVars, queueVars, decodeVars
<1>3. Moves("render", "asleep", th["render"].t, th["render"].res)
  BY <1>1, GoMoves DEF RenderSleeps, IInv, Step
<1>4. TypeOK'
  BY <1>2, <1>3 DEF IInv, TypeOK, ArenaTypeOK, Moves
<1>5. Whereabouts'
  BY <1>1, <1>2, <1>3, ClientAssumption DEF IInv, Whereabouts, Moves, Thread, RenderAt
<1>6. SlotsSound'
  BY <1>2 DEF IInv, SlotsSound, Running, Finished
<1>7. Held'
  BY <1>1, <1>2, <1>3, KeepsHolding DEF IInv, TypeOK, Moves, Holds, Working, Running
<1>8. OneRequest'
  BY <1>1, <1>2, <1>3, ClientAssumption DEF IInv, OneRequest, Moves, Thread
<1>9. SyncSound'
  BY <1>1, <1>2, <1>3, ClientAssumption DEF IInv, SyncSound, Moves, Thread, Finished
<1>10. LateOnly'
  BY <1>1, <1>2, <1>3, ClientAssumption DEF IInv, LateOnly, Moves, Thread
<1> QED
  BY <1>4, <1>5, <1>6, <1>7, <1>8, <1>9, <1>10 DEF IInv

\* The render thread leaves.
LEMMA RenderExitsKeeps ==
    ASSUME IInv, RenderExits
    PROVE  IInv'
<1>1. "render" \in Thread /\ th["render"].at = "loop"
  BY DEF RenderExits, Thread
<1>2. UNCHANGED <<slot, arena, next, queue, stopping, drained, late, installed, channel, decoding>>
  BY DEF RenderExits, arenaVars, queueVars, decodeVars
<1>3. Moves("render", "gone", None, "none")
  BY <1>1, GoWithMoves DEF RenderExits, IInv, Step
<1>4. TypeOK'
  BY <1>2, <1>3 DEF IInv, TypeOK, ArenaTypeOK, Moves
<1>5. Whereabouts'
  BY <1>1, <1>2, <1>3, ClientAssumption DEF IInv, Whereabouts, Moves, Thread, RenderAt
<1>6. SlotsSound'
  BY <1>2 DEF IInv, SlotsSound, Running, Finished
<1>7. Held'
  BY <1>1, <1>2, <1>3, KeepsHolding DEF IInv, TypeOK, Moves, Holds, Working, Running
<1>8. OneRequest'
  BY <1>1, <1>2, <1>3, ClientAssumption DEF IInv, OneRequest, Moves, Thread
<1>9. SyncSound'
  BY <1>1, <1>2, <1>3, ClientAssumption DEF IInv, SyncSound, Moves, Thread, Finished
<1>10. LateOnly'
  BY <1>1, <1>2, <1>3, ClientAssumption DEF IInv, LateOnly, Moves, Thread
<1> QED
  BY <1>4, <1>5, <1>6, <1>7, <1>8, <1>9, <1>10 DEF IInv

\* The render thread has the outcome of a render.
LEMMA ProduceKeeps ==
    ASSUME IInv, Produce
    PROVE  IInv'
<1>1. "render" \in Thread /\ th["render"].at = "produce"
  BY DEF Produce, Thread
<1>2. UNCHANGED <<slot, arena, next, queue, stopping, drained, late, installed, channel, decoding>>
  BY DEF Produce, arenaVars, queueVars, decodeVars
<1>3. Moves("render", "publish", th["render"].t, Outcome(th["render"].t, "outcome")) /\ Outcome(th["render"].t, "outcome") \in {"outcome", "state"}
  BY <1>1, FinishMoves DEF Produce, IInv
<1>4. TypeOK'
  BY <1>2, <1>3 DEF IInv, TypeOK, ArenaTypeOK, Moves
<1>5. Whereabouts'
  BY <1>1, <1>2, <1>3, ClientAssumption DEF IInv, Whereabouts, Moves, Thread, RenderAt
<1>6. SlotsSound'
  BY <1>2 DEF IInv, SlotsSound, Running, Finished
<1>7. Held'
  BY <1>1, <1>2, <1>3, KeepsHolding DEF IInv, TypeOK, Moves, Holds, Working, Running
<1>8. OneRequest'
  BY <1>1, <1>2, <1>3, ClientAssumption DEF IInv, OneRequest, Moves, Thread
<1>9. SyncSound'
  BY <1>1, <1>2, <1>3, ClientAssumption DEF IInv, SyncSound, Moves, Thread, Finished
<1>10. LateOnly'
  BY <1>1, <1>2, <1>3, ClientAssumption DEF IInv, LateOnly, Moves, Thread
<1> QED
  BY <1>4, <1>5, <1>6, <1>7, <1>8, <1>9, <1>10 DEF IInv

\* Refused follow-up work is answered by the render thread.
LEMMA RepostRefusedKeeps ==
    ASSUME IInv, RepostRefused
    PROVE  IInv'
<1>1. "render" \in Thread /\ th["render"].at = "repost"
  BY DEF RepostRefused, Thread
<1>2. UNCHANGED <<slot, arena, next, queue, stopping, drained, late, installed, channel, decoding>>
  BY DEF RepostRefused, arenaVars, queueVars, decodeVars
<1>3. Moves("render", "publish", th["render"].t, Outcome(th["render"].t, "state")) /\ Outcome(th["render"].t, "state") \in {"outcome", "state"}
  BY <1>1, FinishMoves DEF RepostRefused, IInv
<1>4. TypeOK'
  BY <1>2, <1>3 DEF IInv, TypeOK, ArenaTypeOK, Moves
<1>5. Whereabouts'
  BY <1>1, <1>2, <1>3, ClientAssumption DEF IInv, Whereabouts, Moves, Thread, RenderAt
<1>6. SlotsSound'
  BY <1>2 DEF IInv, SlotsSound, Running, Finished
<1>7. Held'
  BY <1>1, <1>2, <1>3, KeepsHolding DEF IInv, TypeOK, Moves, Holds, Working, Running
<1>8. OneRequest'
  BY <1>1, <1>2, <1>3, ClientAssumption DEF IInv, OneRequest, Moves, Thread
<1>9. SyncSound'
  BY <1>1, <1>2, <1>3, ClientAssumption DEF IInv, SyncSound, Moves, Thread, Finished
<1>10. LateOnly'
  BY <1>1, <1>2, <1>3, ClientAssumption DEF IInv, LateOnly, Moves, Thread
<1> QED
  BY <1>4, <1>5, <1>6, <1>7, <1>8, <1>9, <1>10 DEF IInv

\* The completion returns.
LEMMA CallbackEndsKeeps ==
    ASSUME IInv, CallbackEnds
    PROVE  IInv'
<1>1. "render" \in Thread /\ th["render"].at = "callback"
  BY DEF CallbackEnds, Thread
<1>2. UNCHANGED <<slot, arena, next, queue, stopping, drained, late, installed, channel, decoding>>
  BY DEF CallbackEnds, arenaVars, queueVars, decodeVars
<1>3. Moves("render", "loop", None, "none")
  BY <1>1, GoWithMoves DEF CallbackEnds, IInv, Step
<1>4. TypeOK'
  BY <1>2, <1>3 DEF IInv, TypeOK, ArenaTypeOK, Moves
<1>5. Whereabouts'
  BY <1>1, <1>2, <1>3, ClientAssumption DEF IInv, Whereabouts, Moves, Thread, RenderAt
<1>6. SlotsSound'
  BY <1>2 DEF IInv, SlotsSound, Running, Finished
<1>7. Held'
  BY <1>1, <1>2, <1>3, KeepsHolding DEF IInv, TypeOK, Moves, Holds, Working, Running
<1>8. OneRequest'
  BY <1>1, <1>2, <1>3, ClientAssumption DEF IInv, OneRequest, Moves, Thread
<1>9. SyncSound'
  BY <1>1, <1>2, <1>3, ClientAssumption DEF IInv, SyncSound, Moves, Thread, Finished
<1>10. LateOnly'
  BY <1>1, <1>2, <1>3, ClientAssumption DEF IInv, LateOnly, Moves, Thread
<1> QED
  BY <1>4, <1>5, <1>6, <1>7, <1>8, <1>9, <1>10 DEF IInv

\* The shutdown has answered what it drained.
LEMMA AnsweredAllKeeps ==
    ASSUME IInv, AnsweredAll
    PROVE  IInv'
<1>1. "main" \in Thread /\ th["main"].at = "answer" /\ drained = <<>>
  BY DEF AnsweredAll, Thread
<1>2. UNCHANGED <<slot, arena, next, queue, stopping, drained, late, installed, channel, decoding>>
  BY DEF AnsweredAll, arenaVars, queueVars, decodeVars
<1>3. Moves("main", "join", None, "none")
  BY <1>1, GoWithMoves DEF AnsweredAll, IInv, Step
<1>4. TypeOK'
  BY <1>2, <1>3 DEF IInv, TypeOK, ArenaTypeOK, Moves
<1>5. Whereabouts'
  BY <1>1, <1>2, <1>3, ClientAssumption DEF IInv, Whereabouts, Moves, Thread, MainAt, Stopped
<1>6. SlotsSound'
  BY <1>2 DEF IInv, SlotsSound, Running, Finished
<1>7. Held'
  BY <1>1, <1>2, <1>3, KeepsHolding DEF IInv, TypeOK, Moves, Holds, Working, Running
<1>8. OneRequest'
  BY <1>1, <1>2, <1>3, ClientAssumption DEF IInv, OneRequest, Moves, Thread
<1>9. SyncSound'
  BY <1>1, <1>2, <1>3, ClientAssumption DEF IInv, SyncSound, Moves, Thread, Finished
<1>10. LateOnly'
  BY <1>1, <1>2, <1>3, ClientAssumption DEF IInv, LateOnly, Moves, Thread, Stopped
<1> QED
  BY <1>4, <1>5, <1>6, <1>7, <1>8, <1>9, <1>10 DEF IInv

\* The render thread is joined.
LEMMA JoinRenderKeeps ==
    ASSUME IInv, JoinRender
    PROVE  IInv'
<1>1. "main" \in Thread /\ th["main"].at = "join" /\ th["render"].at = "gone" /\ installed' = FALSE
  BY DEF JoinRender, Thread
<1>2. UNCHANGED <<slot, arena, next, queue, stopping, drained, late, channel, decoding>>
  BY DEF JoinRender, arenaVars, queueVars, decodeVars
<1>3. Moves("main", "stopdecode", th["main"].t, th["main"].res)
  BY <1>1, GoMoves DEF JoinRender, IInv, Step
<1>4. TypeOK'
  BY <1>1, <1>2, <1>3 DEF IInv, TypeOK, ArenaTypeOK, Moves
<1>5. Whereabouts'
  BY <1>1, <1>2, <1>3, ClientAssumption DEF IInv, Whereabouts, Moves, Thread, MainAt, Stopped
<1>6. SlotsSound'
  BY <1>2 DEF IInv, SlotsSound, Running, Finished
<1>7. Held'
  BY <1>1, <1>2, <1>3, KeepsHolding DEF IInv, TypeOK, Moves, Holds, Working, Running
<1>8. OneRequest'
  BY <1>1, <1>2, <1>3, ClientAssumption DEF IInv, OneRequest, Moves, Thread
<1>9. SyncSound'
  BY <1>1, <1>2, <1>3, ClientAssumption DEF IInv, SyncSound, Moves, Thread, Finished
<1>10. LateOnly'
  BY <1>1, <1>2, <1>3, ClientAssumption DEF IInv, LateOnly, Moves, Thread, Stopped
<1> QED
  BY <1>4, <1>5, <1>6, <1>7, <1>8, <1>9, <1>10 DEF IInv

\* The decode thread is joined.
LEMMA JoinDecodeKeeps ==
    ASSUME IInv, JoinDecode
    PROVE  IInv'
<1>1. "main" \in Thread /\ th["main"].at = "joindecode"
  BY DEF JoinDecode, Thread
<1>2. UNCHANGED <<slot, arena, next, queue, stopping, drained, late, installed, channel, decoding>>
  BY DEF JoinDecode, arenaVars, queueVars, decodeVars
<1>3. Moves("main", "down", th["main"].t, th["main"].res)
  BY <1>1, GoMoves DEF JoinDecode, IInv, Step
<1>4. TypeOK'
  BY <1>2, <1>3 DEF IInv, TypeOK, ArenaTypeOK, Moves
<1>5. Whereabouts'
  BY <1>1, <1>2, <1>3, ClientAssumption DEF IInv, Whereabouts, Moves, Thread, MainAt, Stopped
<1>6. SlotsSound'
  BY <1>2 DEF IInv, SlotsSound, Running, Finished
<1>7. Held'
  BY <1>1, <1>2, <1>3, KeepsHolding DEF IInv, TypeOK, Moves, Holds, Working, Running
<1>8. OneRequest'
  BY <1>1, <1>2, <1>3, ClientAssumption DEF IInv, OneRequest, Moves, Thread
<1>9. SyncSound'
  BY <1>1, <1>2, <1>3, ClientAssumption DEF IInv, SyncSound, Moves, Thread, Finished
<1>10. LateOnly'
  BY <1>1, <1>2, <1>3, ClientAssumption DEF IInv, LateOnly, Moves, Thread, Stopped
<1> QED
  BY <1>4, <1>5, <1>6, <1>7, <1>8, <1>9, <1>10 DEF IInv

\* The shutdown begins to refuse work.
LEMMA SetStoppingKeeps ==
    ASSUME IInv, SetStopping
    PROVE  IInv'
<1>1. "main" \in Thread /\ th["main"].at = "cancelled" /\ stopping' = TRUE
  BY DEF SetStopping, Thread
<1>2. UNCHANGED <<slot, arena, next, queue, drained, late, installed, channel, decoding>>
  BY DEF SetStopping, arenaVars, queueVars, decodeVars
<1>3. Moves("main", "stopping", th["main"].t, th["main"].res)
  BY <1>1, GoMoves DEF SetStopping, IInv, Step
<1>4. TypeOK'
  BY <1>1, <1>2, <1>3 DEF IInv, TypeOK, ArenaTypeOK, Moves
<1>5. Whereabouts'
  BY <1>1, <1>2, <1>3, ClientAssumption DEF IInv, Whereabouts, Moves, Thread, MainAt, Stopped
<1>6. SlotsSound'
  BY <1>2 DEF IInv, SlotsSound, Running, Finished
<1>7. Held'
  BY <1>1, <1>2, <1>3, KeepsHolding DEF IInv, TypeOK, Moves, Holds, Working, Running
<1>8. OneRequest'
  BY <1>1, <1>2, <1>3, ClientAssumption DEF IInv, OneRequest, Moves, Thread
<1>9. SyncSound'
  BY <1>1, <1>2, <1>3, ClientAssumption DEF IInv, SyncSound, Moves, Thread, Finished
<1>10. LateOnly'
  BY <1>1, <1>2, <1>3, ClientAssumption DEF IInv, LateOnly, Moves, Thread, Stopped
<1> QED
  BY <1>4, <1>5, <1>6, <1>7, <1>8, <1>9, <1>10 DEF IInv

\* A ticket that is looked up in vain ends the wait.
LEMMA WaitLooksUpKeeps ==
    ASSUME IInv, NEW c \in Client, WaitLooksUp(c)
    PROVE  IInv'
<1>1. c \in Thread /\ th[c].at = "wait" /\ th[c].t \in arena
  BY DEF WaitLooksUp, Thread, IInv, SyncSound, Waiting
<1>2. UNCHANGED <<slot, arena, next, queue, stopping, drained, late, installed, channel, decoding>>
  BY DEF WaitLooksUp, arenaVars, queueVars, decodeVars
<1>3. Moves(c, "blocked", th[c].t, th[c].res)
  BY <1>1, GoMoves DEF WaitLooksUp, IInv, Step
<1>4. TypeOK'
  BY <1>2, <1>3 DEF IInv, TypeOK, ArenaTypeOK, Moves
<1>5. Whereabouts'
  BY <1>1, <1>2, <1>3, ClientAssumption DEF IInv, Whereabouts, Moves, Thread, ClientAt, Posting, Waiting
<1>6. SlotsSound'
  BY <1>2 DEF IInv, SlotsSound, Running, Finished
<1>7. Held'
  BY <1>1, <1>2, <1>3, KeepsHolding DEF IInv, TypeOK, Moves, Holds, Working, Running
<1>8. OneRequest'
  BY <1>1, <1>2, <1>3, ClientAssumption DEF IInv, OneRequest, Moves, Thread
<1>9. SyncSound'
  BY <1>1, <1>2, <1>3, ClientAssumption DEF IInv, SyncSound, Moves, Thread, Finished, Waiting
<1>10. LateOnly'
  BY <1>1, <1>2, <1>3, ClientAssumption DEF IInv, LateOnly, Moves, Thread, Stopped
<1> QED
  BY <1>4, <1>5, <1>6, <1>7, <1>8, <1>9, <1>10 DEF IInv

\* The terminal read takes the ticket of its own thread out of the map.
LEMMA ReadResultKeeps ==
    ASSUME IInv, NEW c \in Client, ReadResult(c)
    PROVE  IInv'
<1>1. c \in Thread /\ th[c].at = "read" /\ Finished(th[c].t) /\ arena' = arena \ {th[c].t}
  BY DEF ReadResult, TakeResult, Thread, IInv, SyncSound
<1>2. UNCHANGED <<slot, next, queue, stopping, drained, late, installed, channel, decoding>>
  BY DEF ReadResult, TakeResult, arenaVars, queueVars, decodeVars
<1>3. /\ th' \in [Thread -> ThreadState] /\ \A q \in Thread : q # c => th'[q] = th[q]
      /\ th'[c].at = "idle"
  BY <1>1 DEF ReadResult, IInv, TypeOK, ThreadState, Step, Idle, None
<1>4. TypeOK'
  BY <1>1, <1>2, <1>3 DEF IInv, TypeOK, ArenaTypeOK
<1>5. Whereabouts'
  BY <1>1, <1>2, <1>3, ClientAssumption DEF IInv, Whereabouts, Thread, ClientAt
<1>6. SlotsSound'
  BY <1>1, <1>2 DEF IInv, SlotsSound, Running, Finished
<1>7. Held'
  BY <1>1, <1>2, <1>3, KeepsHolding DEF IInv, TypeOK, Holds, Working, Running
<1>8. OneRequest'
  BY <1>1, <1>2, <1>3, ClientAssumption DEF IInv, OneRequest, Thread
<1>9. SyncSound'
  BY <1>1, <1>2, <1>3, ClientAssumption DEF IInv, SyncSound, Thread, Finished, Waiting
<1>10. LateOnly'
  BY <1>1, <1>2, <1>3, ClientAssumption DEF IInv, LateOnly, Thread, Stopped
<1> QED
  BY <1>4, <1>5, <1>6, <1>7, <1>8, <1>9, <1>10 DEF IInv

\* Cancelling sets flags and nothing else.
LEMMA CancelFlags ==
    ASSUME IInv, NEW ids, Cancel(ids)
    PROVE  /\ slot' \in [Ticket -> [state: {"none", "running", "finished"}, cancel: BOOLEAN,
                                    result: {"none", "outcome", "state"}, calls: Nat, poll_after: BOOLEAN]]
           /\ \A t \in Ticket : /\ slot'[t].state = slot[t].state /\ slot'[t].result = slot[t].result
                                /\ slot'[t].calls = slot[t].calls /\ slot'[t].poll_after = slot[t].poll_after
                                /\ ~Running(t) => slot'[t] = slot[t]
                                /\ t \in ids \cap arena /\ Running(t) => slot'[t].cancel
                                /\ t \notin ids => slot'[t] = slot[t]
           /\ UNCHANGED <<arena, next>>
BY DEF Cancel, IInv, TypeOK, ArenaTypeOK, Running

\* One ticket is cancelled.
LEMMA CancelTicketKeeps ==
    ASSUME IInv, NEW c \in Client, NEW t \in Ticket, CancelTicket(c, t)
    PROVE  IInv'
<1>1. Cancel({t}) /\ UNCHANGED <<th, queue, stopping, drained, late, installed, channel, decoding>>
  BY DEF CancelTicket, queueVars, decodeVars
<1> HIDE DEF Cancel
<1>2. TypeOK'
  BY <1>1, CancelFlags DEF IInv, TypeOK, ArenaTypeOK
<1>3. Whereabouts'
  BY <1>1 DEF IInv, Whereabouts
<1>4. SlotsSound'
  BY <1>1, CancelFlags DEF IInv, SlotsSound, Running, Finished, Unused
<1>5. Held'
  BY <1>1, CancelFlags, KeepsHolding DEF IInv, TypeOK, Holds, Running
<1>6. OneRequest' /\ LateOnly'
  BY <1>1 DEF IInv, OneRequest, LateOnly
<1>7. SyncSound'
  BY <1>1, CancelFlags DEF IInv, SyncSound, Finished
<1> QED
  BY <1>2, <1>3, <1>4, <1>5, <1>6, <1>7 DEF IInv

\* The manager cancels every ticket before it stops the backend.
LEMMA CancelAllKeeps ==
    ASSUME IInv, CancelAll
    PROVE  IInv'
<1>1. /\ "main" \in Thread /\ th["main"].at = "idle" /\ Cancel(arena)
      /\ UNCHANGED <<queue, stopping, drained, late, installed, channel, decoding>>
  BY DEF CancelAll, queueVars, decodeVars, Thread
<1>2. Moves("main", "cancelled", th["main"].t, th["main"].res)
  BY <1>1, GoMoves DEF CancelAll, IInv, Step
<1> HIDE DEF Cancel
<1>3. TypeOK'
  BY <1>1, <1>2, CancelFlags DEF IInv, TypeOK, ArenaTypeOK, Moves
<1>4. Whereabouts'
  BY <1>1, <1>2, ClientAssumption DEF IInv, Whereabouts, Moves, Thread, MainAt, Stopped
<1>5. SlotsSound'
  BY <1>1, CancelFlags DEF IInv, SlotsSound, Running, Finished, Unused
<1>6. Held'
  BY <1>1, <1>2, CancelFlags, KeepsHolding DEF IInv, TypeOK, Moves, Holds, Working, Running
<1>7. OneRequest' /\ LateOnly'
  BY <1>1, <1>2, ClientAssumption DEF IInv, OneRequest, LateOnly, Moves, Thread, Stopped
<1>8. SyncSound'
  BY <1>1, <1>2, CancelFlags, ClientAssumption DEF IInv, SyncSound, Finished, Moves, Thread, Waiting
<1> QED
  BY <1>3, <1>4, <1>5, <1>6, <1>7, <1>8 DEF IInv

\* What allocate does, for the ticket n it makes
Makes(n, poll) ==
    /\ n \in Ticket /\ next = n /\ next' = n + 1
    /\ slot[n] = Unused /\ slot'[n] = [Unused EXCEPT !.state = "running", !.poll_after = poll]
    /\ \A t \in Ticket : t # n => slot'[t] = slot[t]
    /\ n \in arena' /\ arena' \subseteq arena \cup {n}
    /\ \A t \in arena : ~Finished(t) \/ slot[t].poll_after => t \in arena'

\* allocate makes the next ticket, and reaps none that has no answer or is polled.
LEMMA AllocateMakes ==
    ASSUME IInv, NEW poll \in BOOLEAN, Allocate(poll), NEW n, n = next
    PROVE  Makes(n, poll) /\ ArenaTypeOK' /\ SlotsSound'
<1>1. next \in Nat /\ n \in Ticket /\ next + 1 \in 1..(MaxTickets + 1)
  BY MaxTicketsAssumption DEF Allocate, IInv, TypeOK, ArenaTypeOK, Ticket
<1>2. slot[n] = Unused
  BY <1>1 DEF IInv, SlotsSound
<1>3. /\ slot'[n] = [Unused EXCEPT !.state = "running", !.poll_after = poll]
      /\ \A t \in Ticket : t # n => slot'[t] = slot[t]
  BY <1>1 DEF Allocate, IInv, TypeOK, ArenaTypeOK
<1>4. slot' \in [Ticket -> [state: {"none", "running", "finished"}, cancel: BOOLEAN,
                            result: {"none", "outcome", "state"}, calls: Nat, poll_after: BOOLEAN]]
  BY <1>1 DEF Allocate, IInv, TypeOK, ArenaTypeOK, Unused
<1>5. arena' = {t \in arena : ~Reaped(t)} \cup {n} /\ next' = n + 1 /\ arena \subseteq Ticket
  BY DEF Allocate, IInv, TypeOK, ArenaTypeOK
<1>6. ArenaTypeOK'
  BY <1>1, <1>4, <1>5 DEF ArenaTypeOK
<1>7. Makes(n, poll)
  BY <1>1, <1>2, <1>3, <1>5 DEF Makes, Reaped
<1>8. SlotsSound'
  <2>1. \A t \in Ticket : t >= n + 1 => t >= n /\ t # n
    BY <1>1 DEF Ticket
  <2>2. \A t \in Ticket : t >= next' => slot'[t] = Unused /\ t \notin arena'
    BY <1>1, <1>3, <1>5, <2>1 DEF IInv, SlotsSound
  <2>3. /\ slot'[n].state = "running" /\ slot'[n].calls = 0 /\ n \in arena'
    BY <1>3, <1>5 DEF Unused
  <2>4. \A t \in Ticket : slot'[t].state = "running" => t \in arena' /\ slot'[t].calls = 0
    BY <1>3, <1>5, <2>3 DEF IInv, SlotsSound, Running, Reaped, Finished
  <2>5. \A t \in Ticket : slot'[t].state = "finished" => slot'[t].result # "none"
    BY <1>3, <2>3 DEF IInv, SlotsSound, Finished
  <2> QED
    BY <2>2, <2>4, <2>5 DEF SlotsSound, Running, Finished
<1> QED
  BY <1>6, <1>7, <1>8

\* The new ticket is the only one that starts without an answer.
LEMMA MadeRuns ==
    ASSUME NEW n, NEW poll, Makes(n, poll)
    PROVE  ~Running(n) /\ \A t \in Ticket : Running(t)' <=> Running(t) \/ t = n
<1>1. slot[n].state = "none" /\ slot'[n].state = "running" /\ n \in Ticket
  BY DEF Makes, Unused
<1>2. \A t \in Ticket : t # n => slot'[t] = slot[t]
  BY DEF Makes
<1> QED
  BY <1>1, <1>2 DEF Running

\* A submitting thread gets a new ticket.
LEMMA SubmitKeeps ==
    ASSUME IInv, NEW c \in Client, NEW kind \in {"video", "sync"}, Submit(c, kind)
    PROVE  IInv'
<1>1. /\ c \in Thread /\ th[c].at = "idle" /\ Allocate(kind = "sync")
      /\ UNCHANGED <<queue, stopping, drained, late, installed, channel, decoding>>
  BY DEF Submit, queueVars, decodeVars, Thread
<1>n. PICK n : n = next
  OBVIOUS
<1>2. Makes(n, kind = "sync") /\ ArenaTypeOK' /\ SlotsSound'
  BY <1>1, <1>n, AllocateMakes
<1>3. /\ th' \in [Thread -> ThreadState] /\ \A q \in Thread : q # c => th'[q] = th[q]
      /\ th'[c].at = "post" /\ th'[c].t = n /\ th'[c].kind = kind
  BY <1>1, <1>2, <1>n DEF Submit, IInv, TypeOK, ThreadState, Step, Makes
<1>4. TypeOK'
  BY <1>1, <1>2, <1>3 DEF IInv, TypeOK
<1>5. Whereabouts'
  BY <1>1, <1>3, ClientAssumption DEF IInv, Whereabouts, Thread, ClientAt, Posting
<1>7. Held'
  <2>1. ~Running(n) /\ \A t \in Ticket : Running(t)' <=> Running(t) \/ t = n
    BY <1>2, MadeRuns
  <2>2. n \in Ticket /\ ~Holds(c) /\ Holds(c)'
    BY <1>1, <1>2, <1>3 DEF Makes, Holds, Working
  <2>3. Held /\ queue \in Seq(Ticket) /\ drained \in Seq(Ticket)
    BY DEF IInv, TypeOK
  <2> QED
    BY <1>1, <1>3, <2>1, <2>2, <2>3, TakesNew
<1>8. OneRequest' /\ LateOnly'
  BY <1>1, <1>3, ClientAssumption DEF IInv, OneRequest, LateOnly, Thread, Stopped
<1>9. SyncSound'
  <2>1. \A d \in Client : d # c => th'[d] = th[d]
    BY <1>3 DEF Thread
  <2>2. \A d \in Client : th[d].at # "idle" =>
            th[d].t \in Ticket /\ th[d].t # n /\ th[d].t < n + 1 /\ slot'[th[d].t] = slot[th[d].t]
    BY <1>2, MaxTicketsAssumption DEF IInv, SyncSound, Makes, Ticket
  <2>3. /\ slot'[n].poll_after = (kind = "sync") /\ n \in arena' /\ n \in Ticket /\ n < n + 1 /\ next' = n + 1
        /\ \A t \in arena : slot[t].poll_after => t \in arena'
    BY <1>2, MaxTicketsAssumption DEF Makes, Unused, Ticket
  <2>4. \A d \in Client : th'[d].at # "idle" => th'[d].t \in Ticket /\ th'[d].t < next'
    BY <1>3, <2>1, <2>2, <2>3
  <2>5. \A d, e \in Client : th'[d].at # "idle" /\ th'[e].at # "idle" /\ th'[d].t = th'[e].t => d = e
    BY <1>3, <2>1, <2>2 DEF IInv, SyncSound
  <2>6. \A d \in Client : th'[d].at \in Waiting => d # c /\ th'[d].kind = "sync"
    BY <1>3, <2>1 DEF IInv, SyncSound, Waiting
  <2>7. \A d \in Client : th'[d].at # "idle" /\ th'[d].kind = "sync" =>
            th'[d].t \in arena' /\ slot'[th'[d].t].poll_after
    <3>1. kind = "sync" => slot'[n].poll_after
      BY <2>3
    <3>2. ASSUME NEW d \in Client, d # c, th[d].at # "idle", th[d].kind = "sync"
          PROVE  th[d].t \in arena' /\ slot'[th[d].t].poll_after
      BY <2>2, <2>3, <3>2 DEF IInv, SyncSound
    <3> QED
      BY <1>3, <2>1, <2>3, <3>1, <3>2
  <2>8. \A d \in Client : th'[d].at = "read" => slot'[th'[d].t].state = "finished"
    BY <1>3, <2>1, <2>2 DEF IInv, SyncSound, Finished
  <2> QED
    BY <2>4, <2>5, <2>6, <2>7, <2>8 DEF SyncSound, Finished
<1> QED
  BY <1>2, <1>4, <1>5, <1>7, <1>8, <1>9 DEF IInv

\* A completion gets a new ticket for the render thread.
LEMMA ResubmitKeeps ==
    ASSUME IInv, Resubmit
    PROVE  IInv'
<1>1. /\ "render" \in Thread /\ th["render"].at = "callback" /\ Allocate(FALSE)
      /\ UNCHANGED <<queue, stopping, drained, late, installed, channel, decoding>>
  BY DEF Resubmit, queueVars, decodeVars, Thread
<1>n. PICK n : n = next
  OBVIOUS
<1>2. Makes(n, FALSE) /\ ArenaTypeOK' /\ SlotsSound' /\ n \in Ticket
  BY <1>1, <1>n, AllocateMakes DEF Makes
<1>3. Moves("render", "repost", n, "none")
  BY <1>1, <1>2, <1>n, GoWithMoves DEF Resubmit, IInv, Step
<1>4. TypeOK'
  BY <1>1, <1>2, <1>3 DEF IInv, TypeOK, Moves
<1>5. Whereabouts'
  BY <1>1, <1>3, ClientAssumption DEF IInv, Whereabouts, Moves, Thread, RenderAt
<1>7. Held'
  <2>1. ~Running(n) /\ \A t \in Ticket : Running(t)' <=> Running(t) \/ t = n
    BY <1>2, MadeRuns
  <2>2. ~Holds("render") /\ Holds("render")'
    BY <1>1, <1>3 DEF Moves, Holds, Working
  <2>3. Held /\ queue \in Seq(Ticket) /\ drained \in Seq(Ticket)
    BY DEF IInv, TypeOK
  <2> QED
    BY <1>1, <1>2, <1>3, <2>1, <2>2, <2>3, TakesNew DEF Moves
<1>8. OneRequest' /\ LateOnly'
  BY <1>1, <1>3, ClientAssumption DEF IInv, OneRequest, LateOnly, Moves, Thread, Stopped
<1>9. SyncSound'
  <2>1. \A d \in Client : th'[d] = th[d]
    BY <1>3, ClientAssumption DEF Thread, Moves
  <2>2. \A d \in Client : th[d].at # "idle" =>
            th[d].t \in Ticket /\ th[d].t < next' /\ slot'[th[d].t] = slot[th[d].t]
    BY <1>2, MaxTicketsAssumption DEF IInv, SyncSound, Makes, Ticket
  <2>3. \A t \in arena : slot[t].poll_after => t \in arena'
    BY <1>2 DEF Makes
  <2> QED
    BY <2>1, <2>2, <2>3 DEF IInv, SyncSound, Finished, Waiting
<1> QED
  BY <1>2, <1>4, <1>5, <1>7, <1>8, <1>9 DEF IInv

--------------------------------------------------------------------------------
(* The steps that notify, queue, take and answer *)

\* Waking the render thread changes only its step, from asleep to the loop.
LEMMA WakeRenderDoes ==
    ASSUME NEW f \in [Thread -> ThreadState]
    PROVE  /\ WakeRender(f) \in [Thread -> ThreadState]
           /\ \A q \in Thread : /\ q # "render" => WakeRender(f)[q] = f[q]
                                /\ WakeRender(f)[q].t = f[q].t /\ WakeRender(f)[q].kind = f[q].kind
                                /\ WakeRender(f)[q].res = f[q].res
           /\ f["render"].at # "asleep" => WakeRender(f)["render"].at = f["render"].at
           /\ f["render"].at = "asleep" => WakeRender(f)["render"].at = "loop"
<1> "render" \in Thread /\ "loop" \in Step
  BY DEF Thread, Step
<1> QED
  BY DEF WakeRender, ThreadState

\* Waking the submitters that wait for room changes only their step.
LEMMA WakeRoomDoes ==
    ASSUME NEW f \in [Thread -> ThreadState]
    PROVE  /\ WakeRoom(f) \in [Thread -> ThreadState]
           /\ \A q \in Thread : /\ f[q].at # "room" => WakeRoom(f)[q] = f[q]
                                /\ f[q].at = "room" => WakeRoom(f)[q].at = "woken"
                                /\ WakeRoom(f)[q].t = f[q].t /\ WakeRoom(f)[q].kind = f[q].kind
                                /\ WakeRoom(f)[q].res = f[q].res
<1> "woken" \in Step
  BY DEF Step
<1> QED
  BY DEF WakeRoom, ThreadState

\* A submission that is done leaves the thread idle, or waiting on the sync path.
LEMMA AfterSubmitDoes ==
    ASSUME TypeOK, NEW c \in Thread
    PROVE  /\ AfterSubmit(c) \in ThreadState /\ AfterSubmit(c).at \in {"idle", "wait"}
           /\ AfterSubmit(c).at = "wait" => /\ AfterSubmit(c).t = th[c].t /\ AfterSubmit(c).kind = "sync"
                                            /\ th[c].kind = "sync"
<1> th[c] \in ThreadState /\ "wait" \in Step /\ "idle" \in Step
  BY DEF TypeOK, Step
<1> QED
  BY DEF AfterSubmit, Idle, ThreadState

\* A submission that found room puts its ticket in the queue.
LEMMA PushKeeps ==
    ASSUME IInv, NEW c \in Client, Push(c)
    PROVE  IInv'
<1>1. /\ c \in Thread /\ c # "render" /\ c # "main" /\ th[c].at \in {"post", "woken"} /\ ~Refuses(c)
      /\ Len(queue) < RENDER_QUEUE_CAP /\ queue' = Append(queue, th[c].t)
      /\ UNCHANGED <<slot, arena, next, stopping, drained, late, installed, channel, decoding>>
  BY ClientAssumption DEF Push, Enqueue, arenaVars, decodeVars, Thread
<1> DEFINE f == [th EXCEPT ![c] = AfterSubmit(c)]
<1>2. /\ f \in [Thread -> ThreadState] /\ f[c] = AfterSubmit(c)
      /\ \A q \in Thread : q # c => f[q] = th[q]
  BY <1>1, AfterSubmitDoes DEF IInv, TypeOK
<1>3. th' = WakeRender(f)
  BY DEF Push
<1> HIDE DEF f
<1>4. /\ th' \in [Thread -> ThreadState]
      /\ \A q \in Thread : q # c /\ q # "render" => th'[q] = th[q]
      /\ th'[c].at \in {"idle", "wait"}
      /\ th'[c].at = "wait" => th'[c].t = th[c].t /\ th'[c].kind = "sync" /\ th[c].kind = "sync"
  BY <1>1, <1>2, <1>3, WakeRenderDoes, AfterSubmitDoes DEF IInv
<1>r. "render" \in Thread /\ "main" \in Thread
  BY DEF Thread
<1>5. /\ th'["render"].t = th["render"].t /\ th'["render"].res = th["render"].res
      /\ th["render"].at # "asleep" => th'["render"].at = th["render"].at
      /\ th["render"].at = "asleep" => th'["render"].at = "loop"
      /\ th'["main"] = th["main"]
  BY <1>1, <1>2, <1>3, <1>r, WakeRenderDoes
<1>6. th[c].t \in Ticket /\ Holds(c)
  BY <1>1 DEF IInv, Held, HeldRun, Holds, Working
<1>7. TypeOK'
  BY <1>1, <1>4, <1>6 DEF IInv, TypeOK, ArenaTypeOK
<1>8. Whereabouts'
  <2>1. \A d \in Client : d \in Thread /\ d # "render" /\ d # "main"
    BY ClientAssumption DEF Thread
  <2>2. \A d \in Client : th'[d].at \in ClientAt
    BY <1>4, <2>1 DEF IInv, Whereabouts, ClientAt, Waiting
  <2>3. th'["render"].at \in RenderAt
    BY <1>5, <1>r DEF IInv, Whereabouts, RenderAt
  <2>4. \A p \in Thread : th'[p].at = "publish" => th'[p].res # "none"
    BY <1>4, <1>5 DEF IInv, Whereabouts
  <2> QED
    BY <1>1, <1>5, <2>2, <2>3, <2>4 DEF IInv, Whereabouts
<1>9. SlotsSound'
  BY <1>1 DEF IInv, SlotsSound, Running, Finished
<1>10. Held'
  <2>1. \A q \in Thread : q # c => (Holds(q)' <=> Holds(q)) /\ th'[q].t = th[q].t
    BY <1>4, <1>5 DEF Holds, Working
  <2>2. ~Holds(c)'
    BY <1>4 DEF Holds, Working
  <2>3. \A t \in Ticket : Running(t)' <=> Running(t)
    BY <1>1 DEF Running
  <2>4. Held /\ queue \in Seq(Ticket) /\ drained \in Seq(Ticket)
    BY DEF IInv, TypeOK
  <2> QED
    BY <1>1, <1>6, <2>1, <2>2, <2>3, <2>4, Enqueues
<1>11. OneRequest'
  BY <1>1, <1>5 DEF IInv, OneRequest
<1>12. SyncSound'
  <2>1. \A d \in Client : d # c => th'[d] = th[d]
    BY <1>4, ClientAssumption DEF Thread
  <2> QED
    BY <1>1, <1>4, <1>6, <2>1 DEF IInv, SyncSound, Finished, Waiting
<1>13. LateOnly'
  <2>1. ASSUME th["main"].at \in Stopped PROVE th[c].t \in late
    BY <1>1, <2>1 DEF IInv, LateOnly, Whereabouts, Refuses, Stopped
  <2>2. \A i \in DOMAIN queue' : (i \in DOMAIN queue /\ queue'[i] = queue[i]) \/ queue'[i] = th[c].t
    BY <1>1, <1>6 DEF IInv, TypeOK
  <2>3. \A d \in Client : d # c => th'[d] = th[d]
    BY <1>4, ClientAssumption DEF Thread
  <2> QED
    BY <1>1, <1>4, <1>5, <2>1, <2>2, <2>3 DEF IInv, LateOnly
<1> QED
  BY <1>7, <1>8, <1>9, <1>10, <1>11, <1>12, <1>13 DEF IInv

\* The render thread queues the ticket of a completion without looking for room.
LEMMA PushFromRenderKeeps ==
    ASSUME IInv, PushFromRender
    PROVE  IInv'
<1>1. /\ "render" \in Thread /\ "main" \in Thread /\ th["render"].at = "repost" /\ ~stopping
      /\ queue' = Append(queue, th["render"].t)
      /\ UNCHANGED <<slot, arena, next, stopping, drained, late, installed, channel, decoding>>
  BY DEF PushFromRender, Enqueue, arenaVars, decodeVars, Thread
<1>2. Moves("render", "loop", None, "none")
  BY <1>1, GoWithMoves DEF PushFromRender, IInv, Step
<1>3. th["render"].t \in Ticket /\ Holds("render")
  BY <1>1 DEF IInv, Held, HeldRun, Holds, Working
<1>4. TypeOK'
  BY <1>1, <1>2, <1>3 DEF IInv, TypeOK, ArenaTypeOK, Moves
<1>5. Whereabouts'
  BY <1>1, <1>2, ClientAssumption DEF IInv, Whereabouts, Moves, Thread, RenderAt
<1>6. SlotsSound'
  BY <1>1 DEF IInv, SlotsSound, Running, Finished
<1>7. Held'
  <2>1. \A q \in Thread : q # "render" => (Holds(q)' <=> Holds(q)) /\ th'[q].t = th[q].t
    BY <1>2 DEF Holds, Moves
  <2>2. ~Holds("render")'
    BY <1>2 DEF Holds, Working, Moves
  <2>3. \A t \in Ticket : Running(t)' <=> Running(t)
    BY <1>1 DEF Running
  <2>4. Held /\ queue \in Seq(Ticket) /\ drained \in Seq(Ticket)
    BY DEF IInv, TypeOK
  <2> QED
    BY <1>1, <1>3, <2>1, <2>2, <2>3, <2>4, Enqueues
<1>8. OneRequest'
  BY <1>1, <1>2 DEF IInv, OneRequest, Moves
<1>9. SyncSound'
  BY <1>1, <1>2, ClientAssumption DEF IInv, SyncSound, Moves, Thread, Finished
<1>10. LateOnly'
  BY <1>1, <1>2 DEF IInv, LateOnly, Whereabouts, Moves
<1> QED
  BY <1>4, <1>5, <1>6, <1>7, <1>8, <1>9, <1>10 DEF IInv

\* Publishing the answer of a ticket without one finishes it and nothing else.
LEMMA PublishDoes ==
    ASSUME IInv, NEW t \in Ticket, NEW r \in {"outcome", "state"}, Publish(t, r), Running(t)
    PROVE  /\ ArenaTypeOK' /\ UNCHANGED <<arena, next>>
           /\ slot'[t].state = "finished" /\ slot'[t].result = r /\ slot'[t].calls = slot[t].calls + 1
           /\ slot'[t].poll_after = slot[t].poll_after
           /\ \A u \in Ticket : u # t => slot'[u] = slot[u]
<1>1. slot[t].calls + 1 \in Nat
  BY DEF IInv, TypeOK, ArenaTypeOK
<1> DEFINE fin == [slot[t] EXCEPT !.state = "finished", !.result = r, !.calls = @ + 1, !.cancel = FALSE]
<1>2. slot' = [slot EXCEPT ![t] = fin] /\ UNCHANGED <<arena, next>>
  BY DEF Publish, IInv, TypeOK, ArenaTypeOK
<1>3. /\ fin \in [state: {"none", "running", "finished"}, cancel: BOOLEAN,
                  result: {"none", "outcome", "state"}, calls: Nat, poll_after: BOOLEAN]
      /\ fin.state = "finished" /\ fin.result = r /\ fin.calls = slot[t].calls + 1
      /\ fin.poll_after = slot[t].poll_after
  BY <1>1 DEF IInv, TypeOK, ArenaTypeOK
<1> HIDE DEF fin
<1> QED
  BY <1>2, <1>3 DEF IInv, TypeOK, ArenaTypeOK

\* finish publishes the answer and the thread goes on.
LEMMA FinishPublishesKeeps ==
    ASSUME IInv, NEW p \in Thread, FinishPublishes(p)
    PROVE  IInv'
<1>1. /\ th[p].at = "publish" /\ Publish(th[p].t, th[p].res) /\ "render" \in Thread /\ "main" \in Thread
      /\ UNCHANGED <<queue, stopping, drained, late, installed, channel, decoding>>
  BY DEF FinishPublishes, queueVars, decodeVars, Thread
<1>2. /\ Holds(p) /\ th[p].t \in Ticket /\ Running(th[p].t) /\ th[p] \in ThreadState
      /\ th[p].res \in {"outcome", "state"}
  BY <1>1 DEF IInv, Held, HeldRun, Holds, Working, Whereabouts, TypeOK, ThreadState
<1>t. PICK t \in Ticket : t = th[p].t
  BY <1>2
<1>3. /\ ArenaTypeOK' /\ UNCHANGED <<arena, next>>
      /\ slot'[t].state = "finished" /\ slot'[t].result # "none" /\ slot'[t].poll_after = slot[t].poll_after
      /\ \A u \in Ticket : u # t => slot'[u] = slot[u]
  BY <1>1, <1>2, <1>t, PublishDoes
<1>4. /\ th' \in [Thread -> ThreadState] /\ \A q \in Thread : q # p => th'[q] = th[q]
      /\ p = "render" => th'[p].at = "callback"
      /\ p = "main" => th'[p].at = "answer"
      /\ p \notin {"render", "main"} =>
            /\ th'[p].at \in {"idle", "wait"}
            /\ th'[p].at = "wait" => th'[p].t = th[p].t /\ th'[p].kind = "sync" /\ th[p].kind = "sync"
  <2>1. CASE p = "render"
    BY <1>2, <2>1 DEF FinishPublishes, IInv, TypeOK, ThreadState, Step
  <2>2. CASE p = "main"
    BY <1>2, <2>2 DEF FinishPublishes, IInv, TypeOK, ThreadState, Step
  <2>3. CASE p \notin {"render", "main"}
    <3>1. th' = [th EXCEPT ![p] = AfterSubmit(p)]
      BY <2>3 DEF FinishPublishes
    <3> QED
      BY <2>3, <3>1, AfterSubmitDoes DEF IInv, TypeOK
  <2> QED
    BY <2>1, <2>2, <2>3
<1>5. ~Holds(p)'
  BY <1>4 DEF Holds, Working
<1>6. TypeOK'
  BY <1>1, <1>3, <1>4 DEF IInv, TypeOK
<1>7. Whereabouts'
  <2>1. \A c \in Client : c \in Thread /\ c \notin {"render", "main"}
    BY ClientAssumption DEF Thread
  <2>2. \A c \in Client : th'[c].at \in ClientAt
    BY <1>4, <2>1 DEF IInv, Whereabouts, ClientAt, Waiting
  <2>3. th'["render"].at \in RenderAt
    BY <1>1, <1>4 DEF IInv, Whereabouts, RenderAt
  <2>4. p # "main" => th'["main"] = th["main"]
    BY <1>1, <1>4
  <2>5. th'["main"].at \in MainAt /\ (stopping' <=> th'["main"].at \in {"stopping"} \cup Stopped)
        /\ (drained' # <<>> => th'["main"].at \in {"answer", "publish"})
    BY <1>1, <1>4, <2>4 DEF IInv, Whereabouts, MainAt, Stopped
  <2>6. \A q \in Thread : th'[q].at = "publish" => th'[q].res # "none"
    BY <1>4 DEF IInv, Whereabouts
  <2> QED
    BY <2>2, <2>3, <2>5, <2>6 DEF Whereabouts
<1>8. SlotsSound'
  <2>1. slot[t] # Unused
    BY <1>2, <1>t DEF Running, Unused
  <2>2. \A u \in Ticket : u >= next => slot'[u] = Unused /\ u \notin arena
    BY <1>3, <2>1 DEF IInv, SlotsSound
  <2>3. \A u \in Ticket : slot'[u].state = "running" => u \in arena /\ slot'[u].calls = 0
    BY <1>3 DEF IInv, SlotsSound, Running
  <2>4. \A u \in Ticket : slot'[u].state = "finished" => slot'[u].result # "none"
    BY <1>3 DEF IInv, SlotsSound, Finished
  <2> QED
    BY <1>3, <2>2, <2>3, <2>4 DEF SlotsSound, Running, Finished
<1>9. Held'
  <2>1. \A u \in Ticket : Running(u)' <=> Running(u) /\ u # th[p].t
    BY <1>2, <1>3, <1>t DEF Running
  <2>2. Held /\ queue \in Seq(Ticket) /\ drained \in Seq(Ticket)
    BY DEF IInv, TypeOK
  <2> QED
    BY <1>1, <1>2, <1>4, <1>5, <2>1, <2>2, Answers
<1>10. OneRequest'
  BY <1>1, <1>4 DEF IInv, OneRequest
<1>11. SyncSound'
  <2>1. \A c \in Client : c \in Thread /\ c \notin {"render", "main"}
    BY ClientAssumption DEF Thread
  <2>2. \A c \in Client : th'[c].at # "idle" =>
            th'[c].t = th[c].t /\ th[c].at # "idle" /\ (th'[c].kind = "sync" => th[c].kind = "sync")
    BY <1>1, <1>4, <2>1
  <2>3. \A u \in Ticket : slot'[u].poll_after = slot[u].poll_after /\ (Finished(u) => slot'[u].state = "finished")
    BY <1>3 DEF Finished
  <2>4. \A c \in Client : th'[c].at \in Waiting => th'[c].kind = "sync"
    BY <1>4, <2>1 DEF IInv, SyncSound, Waiting
  <2>5. \A c \in Client : th'[c].at = "read" => th[c].at = "read"
    BY <1>4, <2>1
  <2>6. \A c \in Client : th[c].at # "idle" => th[c].t \in Ticket
    BY DEF IInv, SyncSound
  <2> QED
    BY <1>3, <2>2, <2>3, <2>4, <2>5, <2>6 DEF IInv, SyncSound, Finished
<1>12. LateOnly'
  <2>1. \A c \in Client : c \in Thread /\ c \notin {"render", "main"}
    BY ClientAssumption DEF Thread
  <2>2. \A c \in Client : th'[c].at \in {"room", "woken"} => th'[c] = th[c]
    BY <1>4, <2>1
  <2>3. th'["main"].at \in Stopped => th["main"].at \in Stopped
    BY <1>1, <1>4 DEF Stopped
  <2> QED
    BY <1>1, <2>2, <2>3 DEF IInv, LateOnly
<1> QED
  BY <1>6, <1>7, <1>8, <1>9, <1>10, <1>11, <1>12 DEF IInv

\* The render thread takes the first job, and those that wait for room are woken.
LEMMA RenderTakesDoes ==
    ASSUME IInv, RenderTakes
    PROVE  /\ th' \in [Thread -> ThreadState] /\ th'["render"].at = "produce" /\ th'["render"].t = Head(queue)
           /\ \A q \in Thread : q # "render" => /\ th[q].at # "room" => th'[q] = th[q]
                                                /\ th[q].at = "room" => th'[q].at = "woken"
                                                /\ th'[q].t = th[q].t /\ th'[q].kind = th[q].kind
                                                /\ th'[q].res = th[q].res
<1>1. "render" \in Thread /\ queue # <<>>
  BY DEF RenderTakes, Thread
<1>2. Head(queue) \in Ticket /\ Tail(queue) \in Seq(Ticket)
  BY <1>1 DEF IInv, TypeOK
<1> DEFINE f == [th EXCEPT !["render"].at = "produce", !["render"].t = Head(queue)]
           r == [th["render"] EXCEPT !.at = "produce", !.t = Head(queue)]
<1>3. /\ f \in [Thread -> ThreadState] /\ f["render"].at = "produce" /\ f["render"].t = Head(queue)
      /\ \A q \in Thread : q # "render" => f[q] = th[q]
  <2>1. th \in [Thread -> ThreadState] /\ th["render"] \in ThreadState
    BY <1>1 DEF IInv, TypeOK
  <2>2. r \in ThreadState /\ r.at = "produce" /\ r.t = Head(queue)
    BY <1>2, <2>1 DEF ThreadState, Step
  <2>3. f = [th EXCEPT !["render"] = r]
    BY <1>1, <2>1
  <2> HIDE DEF r, f
  <2> QED
    BY <1>1, <2>1, <2>2, <2>3
<1>4. th' = WakeRoom(f)
  BY DEF RenderTakes
<1> HIDE DEF f
<1> QED
  BY <1>1, <1>3, <1>4, WakeRoomDoes

\* The render thread takes a job and tells those that wait for room.
LEMMA RenderTakesKeeps ==
    ASSUME IInv, RenderTakes
    PROVE  IInv'
<1>1. /\ "render" \in Thread /\ "main" \in Thread /\ th["render"].at = "loop"
      /\ queue # <<>> /\ queue' = Tail(queue)
      /\ UNCHANGED <<slot, arena, next, stopping, drained, late, installed, channel, decoding>>
  BY DEF RenderTakes, arenaVars, decodeVars, Thread
<1>2. Tail(queue) \in Seq(Ticket)
  BY <1>1 DEF IInv, TypeOK
<1>5. /\ th' \in [Thread -> ThreadState] /\ th'["render"].at = "produce" /\ th'["render"].t = Head(queue)
      /\ \A q \in Thread : q # "render" => /\ th[q].at # "room" => th'[q] = th[q]
                                           /\ th[q].at = "room" => th'[q].at = "woken"
                                           /\ th'[q].t = th[q].t /\ th'[q].kind = th[q].kind
                                           /\ th'[q].res = th[q].res
  BY RenderTakesDoes
<1>6. \A c \in Client : c \in Thread /\ c # "render" /\ c # "main"
  BY ClientAssumption DEF Thread
<1>7. th'["main"] = th["main"]
  BY <1>1, <1>5 DEF IInv, Whereabouts, MainAt, Stopped
<1>8. TypeOK'
  BY <1>1, <1>2, <1>5 DEF IInv, TypeOK, ArenaTypeOK
<1>9. Whereabouts'
  <2>1. \A c \in Client : th'[c].at \in ClientAt
    BY <1>5, <1>6 DEF IInv, Whereabouts, ClientAt, Posting
  <2>2. th'["render"].at \in RenderAt
    BY <1>5 DEF RenderAt
  <2>3. \A p \in Thread : th'[p].at = "publish" => th'[p].res # "none"
    BY <1>5 DEF IInv, Whereabouts
  <2> QED
    BY <1>1, <1>7, <2>1, <2>2, <2>3 DEF IInv, Whereabouts
<1>10. SlotsSound'
  BY <1>1 DEF IInv, SlotsSound, Running, Finished
<1>11. Held'
  <2>1. \A q \in Thread : q # "render" => (Holds(q)' <=> Holds(q)) /\ th'[q].t = th[q].t
    BY <1>5 DEF Holds, Working
  <2>2. ~Holds("render") /\ Holds("render")'
    BY <1>1, <1>5 DEF Holds, Working
  <2>3. \A t \in Ticket : Running(t)' <=> Running(t)
    BY <1>1 DEF Running
  <2>4. Held /\ queue \in Seq(Ticket) /\ drained \in Seq(Ticket)
    BY DEF IInv, TypeOK
  <2> QED
    BY <1>1, <1>5, <2>1, <2>2, <2>3, <2>4, Dequeues
<1>12. OneRequest'
  BY <1>1 DEF IInv, OneRequest
<1>13. SyncSound'
  <2>1. \A c \in Client : /\ th'[c].t = th[c].t /\ th'[c].kind = th[c].kind
                          /\ th'[c].at # "idle" => th[c].at # "idle"
                          /\ th'[c].at \in Waiting => th[c].at \in Waiting
                          /\ th'[c].at = "read" => th[c].at = "read"
    BY <1>5, <1>6 DEF Waiting
  <2> QED
    BY <1>1, <2>1 DEF IInv, SyncSound, Finished
<1>14. LateOnly'
  <2>1. \A i \in DOMAIN queue' : i + 1 \in DOMAIN queue /\ queue'[i] = queue[i + 1]
    BY <1>1 DEF IInv, TypeOK
  <2>2. \A c \in Client : th'[c].at \in {"room", "woken"} => th[c].at \in {"room", "woken"} /\ th'[c].t = th[c].t
    BY <1>5, <1>6
  <2> QED
    BY <1>1, <1>7, <2>1, <2>2 DEF IInv, LateOnly
<1> QED
  BY <1>8, <1>9, <1>10, <1>11, <1>12, <1>13, <1>14 DEF IInv

\* The producer asks for footage.
LEMMA AskDecodeKeeps ==
    ASSUME IInv, AskDecode
    PROVE  IInv'
<1>1. /\ "render" \in Thread /\ th["render"].at = "produce" /\ channel' = Append(channel, "request")
      /\ UNCHANGED <<slot, arena, next, queue, stopping, drained, late, installed, decoding>>
  BY DEF AskDecode, arenaVars, queueVars, Thread
<1>2. Moves("render", "reply", th["render"].t, th["render"].res)
  BY <1>1, GoMoves DEF AskDecode, IInv, Step
<1>3. /\ channel' \in Seq({"request", "shutdown"})
      /\ DOMAIN channel' = 1..(Len(channel) + 1) /\ DOMAIN channel = 1..Len(channel) /\ Len(channel) \in Nat
      /\ \A i \in 1..Len(channel) : channel'[i] = channel[i]
  BY <1>1 DEF IInv, TypeOK
<1>4. TypeOK'
  BY <1>1, <1>2, <1>3 DEF IInv, TypeOK, ArenaTypeOK, Moves
<1>5. Whereabouts'
  BY <1>1, <1>2, ClientAssumption DEF IInv, Whereabouts, Moves, Thread, RenderAt
<1>6. SlotsSound'
  BY <1>1 DEF IInv, SlotsSound, Running, Finished
<1>7. Held'
  BY <1>1, <1>2, KeepsHolding DEF IInv, TypeOK, Moves, Holds, Working, Running
<1>8. OneRequest'
  <2>1. \A i \in 1..Len(channel) : channel[i] # "request"
    BY <1>1, <1>3 DEF IInv, OneRequest
  <2> QED
    BY <1>2, <1>3, <2>1 DEF OneRequest, Moves
<1>9. SyncSound'
  BY <1>1, <1>2, ClientAssumption DEF IInv, SyncSound, Moves, Thread, Finished
<1>10. LateOnly'
  BY <1>1, <1>2, ClientAssumption DEF IInv, LateOnly, Moves, Thread
<1> QED
  BY <1>4, <1>5, <1>6, <1>7, <1>8, <1>9, <1>10 DEF IInv

\* The decode thread replies, and the producer ends.
LEMMA DecodeServesKeeps ==
    ASSUME IInv, DecodeServes
    PROVE  IInv'
<1>1. /\ "render" \in Thread /\ channel # <<>> /\ Head(channel) = "request" /\ channel' = Tail(channel)
      /\ Finish("render", "outcome")
      /\ UNCHANGED <<slot, arena, next, queue, stopping, drained, late, installed, decoding>>
  BY DEF DecodeServes, arenaVars, queueVars, Thread
<1>2. /\ channel' \in Seq({"request", "shutdown"}) /\ 1 \in DOMAIN channel /\ channel[1] = "request"
      /\ \A i \in DOMAIN channel' : i + 1 \in DOMAIN channel /\ i + 1 # 1 /\ channel'[i] = channel[i + 1]
  BY <1>1 DEF IInv, TypeOK
<1>3. th["render"].at = "reply"
  BY <1>2 DEF IInv, OneRequest
<1>r. PICK r \in {"outcome", "state"} : Moves("render", "publish", th["render"].t, r)
  BY <1>1, FinishMoves
<1>4. TypeOK'
  BY <1>1, <1>2, <1>r DEF IInv, TypeOK, ArenaTypeOK, Moves
<1>5. Whereabouts'
  BY <1>1, <1>r, ClientAssumption DEF IInv, Whereabouts, Moves, Thread, RenderAt
<1>6. SlotsSound'
  BY <1>1 DEF IInv, SlotsSound, Running, Finished
<1>7. Held'
  BY <1>1, <1>3, <1>r, KeepsHolding DEF IInv, TypeOK, Moves, Holds, Working, Running
<1>8. OneRequest'
  <2>1. \A i \in DOMAIN channel' : channel'[i] # "request"
    BY <1>2 DEF IInv, OneRequest
  <2> QED
    BY <2>1 DEF OneRequest
<1>9. SyncSound'
  BY <1>1, <1>r, ClientAssumption DEF IInv, SyncSound, Moves, Thread, Finished
<1>10. LateOnly'
  BY <1>1, <1>r, ClientAssumption DEF IInv, LateOnly, Moves, Thread
<1> QED
  BY <1>4, <1>5, <1>6, <1>7, <1>8, <1>9, <1>10 DEF IInv

\* The decode thread ends.
LEMMA DecodeStopsKeeps ==
    ASSUME IInv, DecodeStops
    PROVE  IInv'
<1>1. /\ decoding' = FALSE /\ channel' = <<>>
      /\ UNCHANGED <<slot, arena, next, th, queue, stopping, drained, late, installed>>
  BY DEF DecodeStops, arenaVars, queueVars
<1>2. TypeOK'
  <2>1. channel' \in Seq({"request", "shutdown"})
    BY <1>1
  <2> QED
    BY <1>1, <2>1 DEF IInv, TypeOK, ArenaTypeOK
<1>3. Whereabouts' /\ LateOnly'
  BY <1>1 DEF IInv, Whereabouts, LateOnly
<1>4. SlotsSound' /\ SyncSound'
  BY <1>1 DEF IInv, SlotsSound, SyncSound, Running, Finished
<1>5. Held'
  BY <1>1, KeepsHolding DEF IInv, TypeOK, Holds, Running
<1>6. OneRequest'
  BY <1>1 DEF OneRequest
<1> QED
  BY <1>2, <1>3, <1>4, <1>5, <1>6 DEF IInv

\* The shutdown tells the decode thread to end.
LEMMA SendShutdownKeeps ==
    ASSUME IInv, SendShutdown
    PROVE  IInv'
<1>1. /\ "main" \in Thread /\ th["main"].at = "stopdecode" /\ channel' = Append(channel, "shutdown")
      /\ UNCHANGED <<slot, arena, next, queue, stopping, drained, late, installed, decoding>>
  BY DEF SendShutdown, arenaVars, queueVars, Thread
<1>2. Moves("main", "joindecode", th["main"].t, th["main"].res)
  BY <1>1, GoMoves DEF SendShutdown, IInv, Step
<1>3. /\ channel' \in Seq({"request", "shutdown"})
      /\ DOMAIN channel' = 1..(Len(channel) + 1) /\ DOMAIN channel = 1..Len(channel) /\ Len(channel) \in Nat
      /\ \A i \in 1..Len(channel) : channel'[i] = channel[i]
      /\ channel'[Len(channel) + 1] = "shutdown"
  BY <1>1 DEF IInv, TypeOK
<1>4. TypeOK'
  BY <1>1, <1>2, <1>3 DEF IInv, TypeOK, ArenaTypeOK, Moves
<1>5. Whereabouts'
  BY <1>1, <1>2, ClientAssumption DEF IInv, Whereabouts, Moves, Thread, MainAt, Stopped
<1>6. SlotsSound'
  BY <1>1 DEF IInv, SlotsSound, Running, Finished
<1>7. Held'
  BY <1>1, <1>2, KeepsHolding DEF IInv, TypeOK, Moves, Holds, Working, Running
<1>8. OneRequest'
  <2>1. \A i \in DOMAIN channel' : channel'[i] = "request" => i \in DOMAIN channel /\ channel[i] = "request"
    BY <1>3
  <2>2. th'["render"].at = th["render"].at
    BY <1>2 DEF Moves, Thread
  <2> QED
    BY <2>1, <2>2 DEF IInv, OneRequest
<1>9. SyncSound'
  BY <1>1, <1>2, ClientAssumption DEF IInv, SyncSound, Moves, Thread, Finished
<1>10. LateOnly'
  BY <1>1, <1>2, ClientAssumption DEF IInv, LateOnly, Moves, Thread, Stopped
<1> QED
  BY <1>4, <1>5, <1>6, <1>7, <1>8, <1>9, <1>10 DEF IInv

\* The shutdown takes the queue and notifies everybody.
LEMMA DrainKeeps ==
    ASSUME IInv, Drain
    PROVE  IInv'
<1>1. /\ "render" \in Thread /\ "main" \in Thread /\ th["main"].at = "stopping"
      /\ drained' = queue /\ queue' = <<>>
      /\ late' = {th[c].t : c \in {c \in Client : th[c].at \in {"room", "woken"}}}
      /\ UNCHANGED <<slot, arena, next, stopping, installed, channel, decoding>>
  BY DEF Drain, arenaVars, decodeVars, Thread
<1> DEFINE f == [th EXCEPT !["main"].at = "answer"]
           r == [th["main"] EXCEPT !.at = "answer"]
<1>2. /\ f \in [Thread -> ThreadState] /\ f["main"].at = "answer"
      /\ \A q \in Thread : q # "main" => f[q] = th[q]
  <2>1. th \in [Thread -> ThreadState] /\ th["main"] \in ThreadState
    BY <1>1 DEF IInv, TypeOK
  <2>2. r \in ThreadState /\ r.at = "answer"
    BY <2>1 DEF ThreadState, Step
  <2>3. f = [th EXCEPT !["main"] = r]
    BY <1>1, <2>1
  <2> HIDE DEF r, f
  <2> QED
    BY <1>1, <2>1, <2>2, <2>3
<1>3. th' = WakeRender(WakeRoom(f))
  BY DEF Drain
<1> HIDE DEF f
<1> DEFINE g == WakeRoom(f)
<1>4. /\ g \in [Thread -> ThreadState] /\ g["main"].at = "answer"
      /\ \A q \in Thread : q # "main" => /\ th[q].at # "room" => g[q] = th[q]
                                         /\ th[q].at = "room" => g[q].at = "woken"
                                         /\ g[q].t = th[q].t /\ g[q].kind = th[q].kind /\ g[q].res = th[q].res
  BY <1>1, <1>2, WakeRoomDoes
<1>5. th' = WakeRender(g)
  BY <1>3
<1> HIDE DEF g
<1>6. \A c \in Client : c \in Thread /\ c # "render" /\ c # "main"
  BY ClientAssumption DEF Thread
<1>7. /\ th' \in [Thread -> ThreadState] /\ th'["main"].at = "answer"
      /\ \A q \in Thread : q # "main" => /\ th'[q].t = th[q].t /\ th'[q].kind = th[q].kind
                                         /\ th'[q].res = th[q].res
      /\ \A c \in Client : /\ th[c].at # "room" => th'[c] = th[c]
                           /\ th[c].at = "room" => th'[c].at = "woken"
  BY <1>1, <1>4, <1>5, <1>6, WakeRenderDoes
<1>8. th["render"].at # "room"
  BY DEF IInv, Whereabouts, RenderAt
<1>9. /\ th["render"].at # "asleep" => th'["render"].at = th["render"].at
      /\ th["render"].at = "asleep" => th'["render"].at = "loop"
  BY <1>1, <1>4, <1>5, <1>8, WakeRenderDoes
<1>10. \A q \in Thread : q = "main" \/ q = "render" \/ q \in Client
  BY DEF Thread
<1>11. TypeOK'
  <2>1. late' \subseteq Ticket
    BY <1>1 DEF IInv, SyncSound
  <2> QED
    BY <1>1, <1>7, <2>1 DEF IInv, TypeOK, ArenaTypeOK
<1>12. Whereabouts'
  <2>1. \A c \in Client : th'[c].at \in ClientAt
    BY <1>7 DEF IInv, Whereabouts, ClientAt, Posting
  <2>2. th'["render"].at \in RenderAt
    BY <1>9 DEF IInv, Whereabouts, RenderAt
  <2>3. \A p \in Thread : th'[p].at = "publish" => th'[p].res # "none"
    BY <1>7, <1>9, <1>10, <1>6, <1>1 DEF IInv, Whereabouts
  <2>4. stopping' /\ th'["main"].at \in MainAt /\ th'["main"].at \in Stopped
    BY <1>1, <1>7 DEF IInv, Whereabouts, MainAt, Stopped
  <2> QED
    BY <1>7, <2>1, <2>2, <2>3, <2>4 DEF Whereabouts
<1>13. SlotsSound'
  BY <1>1 DEF IInv, SlotsSound, Running, Finished
<1>14. Held'
  <2>1. drained = <<>>
    BY <1>1 DEF IInv, Whereabouts
  <2>2. \A q \in Thread : Holds(q)' <=> Holds(q)
    BY <1>1, <1>6, <1>7, <1>9, <1>10 DEF Holds, Working
  <2>3. \A q \in Thread : Holds(q) => th'[q].t = th[q].t
    BY <1>1, <1>7 DEF Holds, Working
  <2>4. \A t \in Ticket : Running(t)' <=> Running(t)
    BY <1>1 DEF Running
  <2>5. Held /\ queue \in Seq(Ticket) /\ drained \in Seq(Ticket)
    BY DEF IInv, TypeOK
  <2> QED
    BY <1>1, <2>1, <2>2, <2>3, <2>4, <2>5, Drains
<1>15. OneRequest'
  BY <1>1, <1>9 DEF IInv, OneRequest
<1>16. SyncSound'
  <2>1. \A c \in Client : /\ th'[c].t = th[c].t /\ th'[c].kind = th[c].kind
                          /\ th'[c].at # "idle" => th[c].at # "idle"
                          /\ th'[c].at \in Waiting => th[c].at \in Waiting
                          /\ th'[c].at = "read" => th[c].at = "read"
    BY <1>6, <1>7 DEF Waiting
  <2> QED
    BY <1>1, <2>1 DEF IInv, SyncSound, Finished
<1>17. LateOnly'
  <2>1. \A c \in Client : th'[c].at \in {"room", "woken"} => th[c].at \in {"room", "woken"} /\ th'[c].t = th[c].t
    BY <1>6, <1>7
  <2> QED
    BY <1>1, <2>1 DEF LateOnly
<1> QED
  BY <1>11, <1>12, <1>13, <1>14, <1>15, <1>16, <1>17 DEF IInv

\* The shutdown takes one of the drained jobs to answer it.
LEMMA AnswerDrainedKeeps ==
    ASSUME IInv, AnswerDrained
    PROVE  IInv'
<1>1. /\ "main" \in Thread /\ th["main"].at = "answer" /\ drained # <<>> /\ drained' = Tail(drained)
      /\ UNCHANGED <<slot, arena, next, queue, stopping, late, installed, channel, decoding>>
  BY DEF AnswerDrained, arenaVars, decodeVars, Thread
<1>2. Head(drained) \in Ticket /\ Tail(drained) \in Seq(Ticket)
  BY <1>1 DEF IInv, TypeOK
<1>3. Moves("main", "publish", Head(drained), "state")
  BY <1>1, <1>2, GoWithMoves DEF AnswerDrained, IInv, Step
<1>4. TypeOK'
  BY <1>1, <1>2, <1>3 DEF IInv, TypeOK, ArenaTypeOK, Moves
<1>5. Whereabouts'
  BY <1>1, <1>3, ClientAssumption DEF IInv, Whereabouts, Moves, Thread, MainAt, Stopped
<1>6. SlotsSound'
  BY <1>1 DEF IInv, SlotsSound, Running, Finished
<1>7. Held'
  <2>1. ~Holds("main") /\ Holds("main")'
    BY <1>1, <1>3 DEF Holds, Working, Moves
  <2>2. \A t \in Ticket : Running(t)' <=> Running(t)
    BY <1>1 DEF Running
  <2>3. Held /\ queue \in Seq(Ticket) /\ drained \in Seq(Ticket)
    BY DEF IInv, TypeOK
  <2> QED
    BY <1>1, <1>3, <2>1, <2>2, <2>3, TakesDrained DEF Moves
<1>8. OneRequest'
  BY <1>1, <1>3 DEF IInv, OneRequest, Moves, Thread
<1>9. SyncSound'
  BY <1>1, <1>3, ClientAssumption DEF IInv, SyncSound, Moves, Thread, Finished
<1>10. LateOnly'
  BY <1>1, <1>3, ClientAssumption DEF IInv, LateOnly, Moves, Thread, Stopped
<1> QED
  BY <1>4, <1>5, <1>6, <1>7, <1>8, <1>9, <1>10 DEF IInv

--------------------------------------------------------------------------------
(* The invariant, and what follows from it *)

\* The invariant holds at first.
LEMMA InitSound == Init => IInv
<1> SUFFICES ASSUME Init PROVE IInv
  OBVIOUS
<1>1. /\ \A p \in Thread : th[p].at \in {"idle", "loop"} /\ (p # "render" => th[p].at = "idle")
      /\ "render" \in Thread /\ "main" \in Thread /\ th["render"].at = "loop"
  BY DEF Init, Idle, Thread
<1>2. queue = <<>> /\ drained = <<>> /\ channel = <<>> /\ stopping = FALSE /\ arena = {} /\ next = 1
  BY DEF Init, ArenaInit
<1>3. \A t \in Ticket : slot[t] = Unused
  BY DEF Init, ArenaInit
<1>4. ArenaTypeOK
  BY MaxTicketsAssumption DEF Init, ArenaInit, ArenaTypeOK, Unused
<1>5. th \in [Thread -> ThreadState]
  BY DEF Init, Idle, ThreadState, Step, None
<1>6. TypeOK
  <2>1. <<>> \in Seq(Ticket) /\ <<>> \in Seq({"request", "shutdown"})
    OBVIOUS
  <2> QED
    BY <1>2, <1>4, <1>5, <2>1 DEF Init, TypeOK
<1>7. Whereabouts
  BY <1>1, <1>2, ClientAssumption DEF Whereabouts, Thread, ClientAt, RenderAt, MainAt, Stopped
<1>8. SlotsSound
  BY <1>2, <1>3 DEF SlotsSound, Running, Finished, Unused
<1>9. Held
  BY <1>1, <1>2, <1>3 DEF Held, HeldRun, HeldOnce, RunHeld, Holds, Working, Running, Unused
<1>10. OneRequest /\ LateOnly
  BY <1>1, <1>2 DEF OneRequest, LateOnly, Stopped
<1>11. SyncSound
  BY <1>1, ClientAssumption DEF SyncSound, Thread, Waiting
<1> QED
  BY <1>6, <1>7, <1>8, <1>9, <1>10, <1>11 DEF IInv

\* A step that changes nothing keeps the invariant.
LEMMA StutterKeeps ==
    ASSUME IInv, UNCHANGED vars
    PROVE  IInv'
<1>1. UNCHANGED <<slot, arena, next, th, queue, stopping, drained, late, installed, channel, decoding>>
  BY DEF vars, arenaVars, queueVars, decodeVars
<1>2. TypeOK'
  BY <1>1 DEF IInv, TypeOK, ArenaTypeOK
<1>3. Whereabouts' /\ LateOnly' /\ OneRequest'
  BY <1>1 DEF IInv, Whereabouts, LateOnly, OneRequest
<1>4. SlotsSound' /\ SyncSound'
  BY <1>1 DEF IInv, SlotsSound, SyncSound, Running, Finished
<1>5. Held'
  BY <1>1, KeepsHolding DEF IInv, TypeOK, Holds, Running
<1> QED
  BY <1>2, <1>3, <1>4, <1>5 DEF IInv

\* Every step keeps the invariant.
LEMMA StepKeeps ==
    ASSUME IInv, [Next]_vars
    PROVE  IInv'
<1>1. CASE UNCHANGED vars
  BY <1>1, StutterKeeps
<1>2. ASSUME NEW c \in Client, NEW kind \in {"video", "sync"}, Submit(c, kind) PROVE IInv'
  BY <1>2, SubmitKeeps
<1>3. ASSUME NEW c \in Client, NEW t \in Ticket, CancelTicket(c, t) PROVE IInv'
  BY <1>3, CancelTicketKeeps
<1>4. ASSUME NEW c \in Client, SubmitSteps(c) PROVE IInv'
  <2>1. c \in Thread
    BY DEF Thread
  <2> QED
    BY <1>4, <2>1, PushRefusedKeeps, PushWaitsKeeps, PushKeeps, FinishPublishesKeeps DEF SubmitSteps
<1>5. ASSUME NEW c \in Client, WaitSteps(c) PROVE IInv'
  BY <1>5, WaitLooksUpKeeps, WaitEndsKeeps, ReadResultKeeps DEF WaitSteps
<1>6. CASE RenderSteps
  <2>1. "render" \in Thread
    BY DEF Thread
  <2> QED
    BY <1>6, <2>1, RenderTakesKeeps, RenderSleepsKeeps, RenderExitsKeeps, ProduceKeeps, AskDecodeKeeps,
       FinishPublishesKeeps, ResubmitKeeps, PushFromRenderKeeps, RepostRefusedKeeps, CallbackEndsKeeps
       DEF RenderSteps
<1>7. CASE DecodeSteps
  BY <1>7, DecodeServesKeeps, DecodeStopsKeeps DEF DecodeSteps
<1>8. CASE CancelAll
  BY <1>8, CancelAllKeeps
<1>9. CASE ShutdownSteps
  <2>1. "main" \in Thread
    BY DEF Thread
  <2> QED
    BY <1>9, <2>1, SetStoppingKeeps, DrainKeeps, AnswerDrainedKeeps, FinishPublishesKeeps,
       AnsweredAllKeeps, JoinRenderKeeps, SendShutdownKeeps, JoinDecodeKeeps DEF ShutdownSteps
<1> QED
  BY <1>1, <1>2, <1>3, <1>4, <1>5, <1>6, <1>7, <1>8, <1>9 DEF Next, ClientStarts

\* The invariant holds of every reachable state.
LEMMA Invariance == Spec => []IInv
BY InitSound, StepKeeps, PTL DEF Spec

\* Every variable of the pipeline and of its arena keeps its type, with any number of
\* submitting threads: the steps of pipeline.rs and ticket.rs never leave a thread in a
\* step or with a ticket that does not exist.
THEOREM TypeCorrect == Spec => []TypeOK
BY Invariance, PTL DEF IInv

\* Counting who holds a ticket: one if it has no answer, none if it has.
LEMMA HeldCounts == IInv => OneHolder
<1> SUFFICES ASSUME IInv, NEW t \in Ticket
             PROVE  Cardinality(Holders(t)) + Cardinality(Places(queue, t)) + Cardinality(Places(drained, t))
                      = IF Running(t) THEN 1 ELSE 0
  BY DEF OneHolder
<1> DEFINE H == Holders(t)  Q == Places(queue, t)  D == Places(drained, t)
<1>1. /\ \A p \in H : p \in Thread /\ Holds(p) /\ th[p].t = t
      /\ \A p \in Thread : Holds(p) /\ th[p].t = t => p \in H
      /\ \A i \in Q : i \in DOMAIN queue /\ queue[i] = t
      /\ \A i \in DOMAIN queue : queue[i] = t => i \in Q
      /\ \A i \in D : i \in DOMAIN drained /\ drained[i] = t
      /\ \A i \in DOMAIN drained : drained[i] = t => i \in D
  BY DEF Holders, Places, Holds
<1> HIDE DEF H, Q, D
<1>2. ~Running(t) => H = {} /\ Q = {} /\ D = {}
  BY <1>1 DEF IInv, Held, HeldRun
<1>3. Running(t) => H # {} \/ Q # {} \/ D # {}
  BY <1>1 DEF IInv, Held, RunHeld
<1>4. /\ \A p, q \in H : p = q
      /\ \A i, j \in Q : i = j
      /\ \A i, j \in D : i = j
  <2>1. \A p, q \in H : p = q
    BY <1>1 DEF IInv, Held, HeldOnce
  <2>2. \A i, j \in Q : i = j
    BY <1>1 DEF IInv, Held, HeldOnce
  <2>3. \A i, j \in D : i = j
    BY <1>1 DEF IInv, Held, HeldOnce
  <2> QED
    BY <2>1, <2>2, <2>3
<1>5. /\ H = {} \/ (Q = {} /\ D = {})
      /\ Q = {} \/ D = {}
  <2>1. ASSUME NEW p \in H PROVE Q = {} /\ D = {}
    BY <1>1, <2>1 DEF IInv, Held, HeldOnce
  <2>2. ASSUME NEW i \in Q PROVE D = {}
    BY <1>1, <2>2 DEF IInv, Held, HeldOnce
  <2>3. H # {} => Q = {} /\ D = {}
    <3> SUFFICES ASSUME H # {} PROVE Q = {} /\ D = {}
      OBVIOUS
    <3>1. PICK p : p \in H
      OBVIOUS
    <3> QED
      BY <2>1, <3>1
  <2>4. Q # {} => D = {}
    <3> SUFFICES ASSUME Q # {} PROVE D = {}
      OBVIOUS
    <3>1. PICK i : i \in Q
      OBVIOUS
    <3> QED
      BY <2>2, <3>1
  <2> QED
    BY <2>3, <2>4
<1>6. Cardinality({}) = 0
  BY FS_EmptySet
<1>7. ASSUME NEW S, S # {}, \A x, y \in S : x = y PROVE Cardinality(S) = 1
  <2>1. PICK x \in S : S = {x}
    BY <1>7
  <2> QED
    BY <2>1, FS_Singleton
<1>8. CASE ~Running(t)
  BY <1>2, <1>6, <1>8 DEF H, Q, D
<1>9. CASE Running(t)
  <2>1. CASE H # {}
    <3>1. Cardinality(H) = 1 /\ Cardinality(Q) = 0 /\ Cardinality(D) = 0
      BY <1>4, <1>5, <1>6, <1>7, <2>1
    <3> QED
      BY <1>9, <3>1 DEF H, Q, D
  <2>2. CASE H = {} /\ Q # {}
    <3>1. Cardinality(H) = 0 /\ Cardinality(Q) = 1 /\ Cardinality(D) = 0
      BY <1>4, <1>5, <1>6, <1>7, <2>2
    <3> QED
      BY <1>9, <3>1 DEF H, Q, D
  <2>3. CASE H = {} /\ Q = {}
    <3>1. Cardinality(H) = 0 /\ Cardinality(Q) = 0 /\ Cardinality(D) = 1
      BY <1>3, <1>4, <1>6, <1>7, <1>9, <2>3
    <3> QED
      BY <1>9, <3>1 DEF H, Q, D
  <2> QED
    BY <2>1, <2>2, <2>3
<1> QED
  BY <1>8, <1>9

\* A ticket without an answer is held exactly once, in the hands of one thread or in one
\* of the two queues, and an answered one is held nowhere: push, the render loop and the
\* drain of shutdown_impl neither lose a job nor answer it twice.
THEOREM TicketsHeldOnce == Spec => []OneHolder
BY Invariance, HeldCounts, PTL

\* The sync path finds its ticket when it waits and its result when it reads, whoever
\* else submits meanwhile: the reaping of allocate spares it.
THEOREM SyncSafe == Spec => []SyncFindsResult
<1>1. IInv => SyncFindsResult
  BY DEF IInv, SyncSound, SlotsSound, SyncFindsResult, Waiting
<1> QED
  BY <1>1, Invariance, PTL

\* After the shutdown, the tickets left in the queue are those of threads that waited for
\* room when shutdown_impl drained it.
THEOREM StrandedKnown == Spec => []StrandedWereWaiting
<1>1. IInv => StrandedWereWaiting
  BY DEF IInv, TypeOK, LateOnly, StrandedWereWaiting, Stopped, ToSet
<1> QED
  BY <1>1, Invariance, PTL

--------------------------------------------------------------------------------
(* The refinement of RenderTickets *)

Publishes(p, t) == th[p].at = "publish" /\ th[p].t = t

\* What Status is, case by case
StatusCases ==
    \A t \in Ticket :
        /\ slot[t].state = "none" => Status(t) = "none"
        /\ Finished(t) => Status(t) = slot[t].result
        /\ \A p \in Thread : Running(t) /\ Publishes(p, t) => Status(t) = th[p].res
        /\ Running(t) /\ (\A p \in Thread : ~Publishes(p, t)) =>
              Status(t) = IF slot[t].cancel THEN "cancelled" ELSE "open"

\* At most one thread publishes a ticket, so Status is what these cases say.
LEMMA StatusSays == IInv => StatusCases
<1> SUFFICES ASSUME IInv, NEW t \in Ticket
             PROVE  /\ slot[t].state = "none" => Status(t) = "none"
                    /\ Finished(t) => Status(t) = slot[t].result
                    /\ \A p \in Thread : Running(t) /\ Publishes(p, t) => Status(t) = th[p].res
                    /\ Running(t) /\ (\A p \in Thread : ~Publishes(p, t)) =>
                          Status(t) = IF slot[t].cancel THEN "cancelled" ELSE "open"
  BY DEF StatusCases
<1> DEFINE deciding == {p \in Thread : th[p].at = "publish" /\ th[p].t = t}
<1>1. Status(t) = IF ~Running(t) THEN IF Finished(t) THEN slot[t].result ELSE "none"
                  ELSE IF deciding # {} THEN th[CHOOSE p \in deciding : TRUE].res
                  ELSE IF slot[t].cancel THEN "cancelled" ELSE "open"
  BY DEF Status
<1>2. ASSUME NEW p \in Thread, Publishes(p, t) PROVE (CHOOSE q \in deciding : TRUE) = p
  <2>1. p \in deciding
    BY <1>2 DEF Publishes
  <2>2. \A q \in deciding : q = p
    BY <1>2 DEF Publishes, IInv, Held, HeldOnce, Holds, Working
  <2> QED
    BY <2>1, <2>2
<1>3. ASSUME NEW p \in Thread, Running(t), Publishes(p, t) PROVE Status(t) = th[p].res
  <2>1. deciding # {}
    BY <1>3 DEF Publishes
  <2> HIDE DEF deciding
  <2> QED
    BY <1>1, <1>2, <1>3, <2>1
<1>4. ASSUME Running(t), \A p \in Thread : ~Publishes(p, t)
      PROVE  Status(t) = IF slot[t].cancel THEN "cancelled" ELSE "open"
  <2>1. deciding = {}
    BY <1>4 DEF Publishes
  <2> HIDE DEF deciding
  <2> QED
    BY <1>1, <1>4, <2>1
<1> HIDE DEF deciding
<1>5. /\ slot[t].state = "none" => Status(t) = "none"
      /\ Finished(t) => Status(t) = slot[t].result
  BY <1>1 DEF Running, Finished
<1> QED
  BY <1>3, <1>4, <1>5

\* A ticket keeps its status when its slot and those that publish it stay.
LEMMA StatusKept ==
    ASSUME IInv, IInv', NEW t \in Ticket, slot'[t] = slot[t],
           \A p \in Thread : Publishes(p, t)' <=> Publishes(p, t),
           \A p \in Thread : Publishes(p, t) => th'[p].res = th[p].res
    PROVE  Status(t)' = Status(t)
<1>1. StatusCases /\ StatusCases'
  BY StatusSays, PTL
<1>2. slot[t].state \in {"none", "running", "finished"}
  BY DEF IInv, TypeOK, ArenaTypeOK
<1>3. CASE slot[t].state # "running"
  BY <1>1, <1>2, <1>3 DEF StatusCases, Finished
<1>4. CASE slot[t].state = "running" /\ \E p \in Thread : Publishes(p, t)
  BY <1>1, <1>4 DEF StatusCases, Running, Publishes
<1>5. CASE slot[t].state = "running" /\ \A p \in Thread : ~Publishes(p, t)
  BY <1>1, <1>5 DEF StatusCases, Running, Publishes
<1> QED
  BY <1>3, <1>4, <1>5

Promised == [Tickets!Next]_(<<[t \in Ticket |-> Status(t)], [t \in Ticket |-> slot[t].calls], stopping>>)

\* Nothing happens to the tickets in a step that changes no status, no call and no flag.
LEMMA NothingHappens ==
    ASSUME \A t \in Ticket : Status(t)' = Status(t) /\ slot'[t].calls = slot[t].calls, stopping' = stopping
    PROVE  Promised
BY DEF Promised

\* The status of one ticket changes.
LEMMA OneBecomes ==
    ASSUME NEW u \in Ticket, NEW s, Status(u)' = s,
           \A t \in Ticket : t # u => Status(t)' = Status(t),
           \A t \in Ticket : slot'[t].calls = slot[t].calls, stopping' = stopping
    PROVE  Tickets!Become(u, s)
BY DEF Tickets!Become

\* A step that moves no thread to or from a publication, and touches neither the slots nor
\* the flag of the shutdown.
Silent ==
    /\ slot' = slot /\ stopping' = stopping
    /\ \A q \in Thread : th'[q] = th[q] \/ (th[q].at # "publish" /\ th'[q].at # "publish")

\* The tickets do not see it.
LEMMA SilentSteps ==
    ASSUME IInv, IInv', Silent
    PROVE  Promised
<1>1. ASSUME NEW t \in Ticket
      PROVE  /\ \A p \in Thread : Publishes(p, t)' <=> Publishes(p, t)
             /\ \A p \in Thread : Publishes(p, t) => th'[p].res = th[p].res
  BY DEF Silent, Publishes
<1>2. \A t \in Ticket : Status(t)' = Status(t)
  BY <1>1, StatusKept DEF Silent
<1> QED
  BY <1>2, NothingHappens DEF Silent

\* One thread moves, between steps that are not the publication.
LEMMA MovesSilently ==
    ASSUME NEW p \in Thread, NEW a, NEW t, NEW r, Moves(p, a, t, r), a # "publish", th[p].at # "publish",
           slot' = slot, stopping' = stopping
    PROVE  Silent
BY DEF Moves, Silent

\* Waiting and reading are silent.
LEMMA WaitIsSilent ==
    ASSUME IInv, NEW c \in Client, WaitSteps(c)
    PROVE  Silent
<1>1. c \in Thread
  BY DEF Thread
<1>2. CASE WaitLooksUp(c)
  BY <1>1, <1>2 DEF WaitLooksUp, Silent, arenaVars, queueVars, IInv, TypeOK, ThreadState, Go, Idle
<1>3. CASE WaitEnds(c)
  <2>1. Moves(c, "read", th[c].t, th[c].res)
    BY <1>1, <1>3, GoMoves DEF WaitEnds, IInv, Step
  <2> QED
    BY <1>1, <1>3, <2>1, MovesSilently DEF WaitEnds, arenaVars, queueVars
<1>4. CASE ReadResult(c)
  BY <1>1, <1>4 DEF ReadResult, TakeResult, Silent, queueVars, IInv, TypeOK, Idle
<1> QED
  BY <1>2, <1>3, <1>4 DEF WaitSteps

\* Waiting for room is silent, and so is finding it.
LEMMA PushIsSilent ==
    ASSUME IInv, NEW c \in Client, PushWaits(c) \/ Push(c)
    PROVE  Silent
<1>1. c \in Thread
  BY DEF Thread
<1>2. CASE PushWaits(c)
  <2>1. Moves(c, "room", th[c].t, th[c].res)
    BY <1>1, <1>2, GoMoves DEF PushWaits, IInv, Step
  <2> QED
    BY <1>1, <1>2, <2>1, MovesSilently DEF PushWaits, arenaVars, queueVars
<1>3. CASE Push(c)
  <2> DEFINE f == [th EXCEPT ![c] = AfterSubmit(c)]
  <2>1. /\ f \in [Thread -> ThreadState] /\ f[c].at # "publish"
        /\ \A q \in Thread : q # c => f[q] = th[q]
    BY <1>1, AfterSubmitDoes DEF IInv, TypeOK
  <2>2. th' = WakeRender(f) /\ th[c].at # "publish" /\ slot' = slot /\ stopping' = stopping
    BY <1>3 DEF Push, arenaVars
  <2> HIDE DEF f
  <2>3. \A q \in Thread : th'[q] = f[q] \/ (f[q].at # "publish" /\ th'[q].at # "publish")
    BY <2>1, <2>2, WakeRenderDoes DEF WakeRender, ThreadState
  <2> QED
    BY <2>1, <2>2, <2>3 DEF Silent
<1> QED
  BY <1>2, <1>3

\* The render thread is silent except when it answers, publishes or submits.
LEMMA RenderIsSilent ==
    ASSUME IInv,
           RenderTakes \/ RenderSleeps \/ RenderExits \/ AskDecode \/ PushFromRender \/ CallbackEnds
    PROVE  Silent
<1>1. "render" \in Thread
  BY DEF Thread
<1>2. CASE RenderTakes
  <2>1. th["render"].at # "publish" /\ slot' = slot /\ stopping' = stopping
    BY <1>2 DEF RenderTakes, arenaVars
  <2> QED
    BY <1>2, <2>1, RenderTakesDoes DEF Silent
<1>3. CASE RenderSleeps
  <2>1. Moves("render", "asleep", th["render"].t, th["render"].res)
    BY <1>1, <1>3, GoMoves DEF RenderSleeps, IInv, Step
  <2> QED
    BY <1>1, <1>3, <2>1, MovesSilently DEF RenderSleeps, arenaVars, queueVars
<1>4. CASE RenderExits
  <2>1. Moves("render", "gone", None, "none")
    BY <1>1, <1>4, GoWithMoves DEF RenderExits, IInv, Step
  <2> QED
    BY <1>1, <1>4, <2>1, MovesSilently DEF RenderExits, arenaVars, queueVars
<1>5. CASE AskDecode
  <2>1. Moves("render", "reply", th["render"].t, th["render"].res)
    BY <1>1, <1>5, GoMoves DEF AskDecode, IInv, Step
  <2> QED
    BY <1>1, <1>5, <2>1, MovesSilently DEF AskDecode, arenaVars, queueVars
<1>6. CASE PushFromRender
  <2>1. Moves("render", "loop", None, "none")
    BY <1>1, <1>6, GoWithMoves DEF PushFromRender, IInv, Step
  <2> QED
    BY <1>1, <1>6, <2>1, MovesSilently DEF PushFromRender, arenaVars
<1>7. CASE CallbackEnds
  <2>1. Moves("render", "loop", None, "none")
    BY <1>1, <1>7, GoWithMoves DEF CallbackEnds, IInv, Step
  <2> QED
    BY <1>1, <1>7, <2>1, MovesSilently DEF CallbackEnds, arenaVars, queueVars
<1> QED
  BY <1>2, <1>3, <1>4, <1>5, <1>6, <1>7

\* The shutdown is silent except when it sets the flag, answers or publishes.
LEMMA ShutdownIsSilent ==
    ASSUME IInv, Drain \/ AnsweredAll \/ JoinRender \/ SendShutdown \/ JoinDecode
    PROVE  Silent
<1>1. "main" \in Thread
  BY DEF Thread
<1>2. CASE Drain
  <2> DEFINE f == [th EXCEPT !["main"].at = "answer"]
             g == WakeRoom(f)
             r == [th["main"] EXCEPT !.at = "answer"]
  <2>1. /\ f \in [Thread -> ThreadState] /\ f["main"].at = "answer"
        /\ \A q \in Thread : q # "main" => f[q] = th[q]
    <3>1. th \in [Thread -> ThreadState] /\ th["main"] \in ThreadState
      BY <1>1 DEF IInv, TypeOK
    <3>2. r \in ThreadState /\ r.at = "answer"
      BY <3>1 DEF ThreadState, Step
    <3>3. f = [th EXCEPT !["main"] = r]
      BY <1>1, <3>1
    <3> HIDE DEF r, f
    <3> QED
      BY <1>1, <3>1, <3>2, <3>3
  <2>2. th' = WakeRender(g) /\ th["main"].at = "stopping" /\ slot' = slot /\ stopping' = stopping
    BY <1>2 DEF Drain, arenaVars
  <2> HIDE DEF f
  <2>3. g \in [Thread -> ThreadState] /\ \A q \in Thread : g[q] = f[q] \/ (f[q].at = "room" /\ g[q].at = "woken")
    BY <2>1, WakeRoomDoes
  <2> HIDE DEF g
  <2>4. \A q \in Thread : th'[q] = g[q] \/ (g[q].at # "publish" /\ th'[q].at # "publish")
    BY <2>2, <2>3, WakeRenderDoes DEF WakeRender, ThreadState
  <2> QED
    BY <2>1, <2>2, <2>3, <2>4 DEF Silent
<1>3. CASE AnsweredAll
  <2>1. Moves("main", "join", None, "none")
    BY <1>1, <1>3, GoWithMoves DEF AnsweredAll, IInv, Step
  <2> QED
    BY <1>1, <1>3, <2>1, MovesSilently DEF AnsweredAll, arenaVars, queueVars
<1>4. CASE JoinRender
  <2>1. Moves("main", "stopdecode", th["main"].t, th["main"].res)
    BY <1>1, <1>4, GoMoves DEF JoinRender, IInv, Step
  <2> QED
    BY <1>1, <1>4, <2>1, MovesSilently DEF JoinRender, arenaVars, queueVars
<1>5. CASE SendShutdown
  <2>1. Moves("main", "joindecode", th["main"].t, th["main"].res)
    BY <1>1, <1>5, GoMoves DEF SendShutdown, IInv, Step
  <2> QED
    BY <1>1, <1>5, <2>1, MovesSilently DEF SendShutdown, arenaVars, queueVars
<1>6. CASE JoinDecode
  <2>1. Moves("main", "down", th["main"].t, th["main"].res)
    BY <1>1, <1>6, GoMoves DEF JoinDecode, IInv, Step
  <2> QED
    BY <1>1, <1>6, <2>1, MovesSilently DEF JoinDecode, arenaVars, queueVars
<1> QED
  BY <1>2, <1>3, <1>4, <1>5, <1>6

\* A new ticket is submitted: it was nowhere, and it is open.
LEMMA MakingSubmits ==
    ASSUME IInv, IInv', NEW n \in Ticket, NEW poll, Makes(n, poll), stopping' = stopping,
           \A q \in Thread : th'[q] = th[q] \/ (th[q].at # "publish" /\ th'[q].at # "publish")
    PROVE  Promised
<1>1. StatusCases /\ StatusCases'
  BY StatusSays, PTL
<1>2. /\ slot[n].state = "none" /\ slot'[n].state = "running" /\ slot'[n].cancel = FALSE
      /\ slot'[n].calls = slot[n].calls
      /\ \A t \in Ticket : t # n => slot'[t] = slot[t]
  BY DEF Makes, Unused
<1>3. /\ \A t \in Ticket : \A p \in Thread : Publishes(p, t)' <=> Publishes(p, t)
      /\ \A t \in Ticket : \A p \in Thread : Publishes(p, t) => th'[p].res = th[p].res
  BY DEF Publishes
<1>4. \A p \in Thread : ~Publishes(p, n)
  BY <1>2 DEF Publishes, IInv, Held, HeldRun, Holds, Working, Running
<1>5. \A t \in Ticket : t # n => Status(t)' = Status(t)
  BY <1>2, <1>3, StatusKept
<1>6. Status(n) = "none"
  BY <1>1, <1>2 DEF StatusCases
<1>7. Status(n)' = "open"
  BY <1>1, <1>2, <1>3, <1>4 DEF StatusCases, Running, Publishes
<1>8. Tickets!Become(n, "open")
  BY <1>2, <1>5, <1>7, OneBecomes
<1> QED
  BY <1>6, <1>8 DEF Promised, Tickets!Next, Tickets!Submit

\* Submitting, from a submitting thread and from a completion.
LEMMA SubmitsPromised ==
    ASSUME IInv, IInv', (\E c \in Client, kind \in {"video", "sync"} : Submit(c, kind)) \/ Resubmit
    PROVE  Promised
<1>n. PICK n : n = next
  OBVIOUS
<1>1. CASE Resubmit
  <2>1. "render" \in Thread /\ Allocate(FALSE) /\ stopping' = stopping /\ th["render"].at # "publish"
    BY <1>1 DEF Resubmit, queueVars, Thread
  <2>2. Makes(n, FALSE) /\ n \in Ticket
    BY <1>n, <2>1, AllocateMakes DEF Makes
  <2>3. Moves("render", "repost", n, "none")
    BY <1>1, <1>n, <2>1, <2>2, GoWithMoves DEF Resubmit, IInv, Step
  <2> QED
    BY <2>1, <2>2, <2>3, MakingSubmits DEF Moves
<1>2. ASSUME NEW c \in Client, NEW kind \in {"video", "sync"}, Submit(c, kind) PROVE Promised
  <2>1. c \in Thread /\ Allocate(kind = "sync") /\ stopping' = stopping /\ th[c].at # "publish"
    BY <1>2 DEF Submit, queueVars, Thread
  <2>2. Makes(n, kind = "sync") /\ n \in Ticket
    BY <1>n, <2>1, AllocateMakes DEF Makes
  <2>3. th'[c].at = "post" /\ \A q \in Thread : q # c => th'[q] = th[q]
    BY <1>2, <2>1 DEF Submit, IInv, TypeOK
  <2> QED
    BY <2>1, <2>2, <2>3, MakingSubmits
<1> QED
  BY <1>1, <1>2

\* Reading the cancel flag decides the answer of a ticket that nobody has decided.
LEMMA DecidingAnswers ==
    ASSUME IInv, IInv', NEW p \in Thread, NEW u \in Ticket, NEW r \in {"outcome", "state"},
           Running(u), \A q \in Thread : ~Publishes(q, u), th[p].at # "publish",
           slot' = slot, stopping' = stopping, Moves(p, "publish", u, r),
           slot[u].cancel => r = "state", r = "state" => slot[u].cancel \/ stopping
    PROVE  Promised
<1>1. StatusCases /\ StatusCases'
  BY StatusSays, PTL
<1>2. \A t \in Ticket : t # u => /\ \A q \in Thread : Publishes(q, t)' <=> Publishes(q, t)
                                 /\ \A q \in Thread : Publishes(q, t) => th'[q].res = th[q].res
  BY DEF Publishes, Moves
<1>3. \A t \in Ticket : t # u => Status(t)' = Status(t)
  BY <1>2, StatusKept
<1>4. Status(u)' = r
  BY <1>1 DEF StatusCases, Running, Publishes, Moves
<1>5. Status(u) = IF slot[u].cancel THEN "cancelled" ELSE "open"
  BY <1>1 DEF StatusCases
<1>6. Tickets!Become(u, r)
  BY <1>3, <1>4, OneBecomes
<1>7. Tickets!Answer(u)
  BY <1>5, <1>6 DEF Tickets!Answer
<1> QED
  BY <1>7 DEF Promised, Tickets!Next

\* finish decides the answer of the ticket in the hands of its thread.
LEMMA FinishPromised ==
    ASSUME IInv, IInv', NEW p \in Thread, NEW r \in {"outcome", "state"}, Finish(p, r),
           Holds(p), th[p].at # "publish", r = "state" => stopping,
           slot' = slot, stopping' = stopping
    PROVE  Promised
<1>1. th[p].t \in Ticket /\ Running(th[p].t)
  BY DEF IInv, Held, HeldRun
<1>2. \A q \in Thread : ~Publishes(q, th[p].t)
  BY DEF Publishes, IInv, Held, HeldOnce, Holds, Working
<1>3. Moves(p, "publish", th[p].t, Outcome(th[p].t, r)) /\ Outcome(th[p].t, r) \in {"outcome", "state"}
  BY FinishMoves
<1>4. /\ slot[th[p].t].cancel => Outcome(th[p].t, r) = "state"
      /\ Outcome(th[p].t, r) = "state" => slot[th[p].t].cancel \/ stopping
  BY DEF Outcome
<1> HIDE DEF Outcome
<1> QED
  BY <1>1, <1>2, <1>3, <1>4, DecidingAnswers

\* The steps in which an answer is decided.
LEMMA AnswersPromised ==
    ASSUME IInv, IInv',
           (\E c \in Client : PushRefused(c)) \/ Produce \/ RepostRefused \/ DecodeServes \/ AnswerDrained
    PROVE  Promised
<1>1. "render" \in Thread /\ "main" \in Thread
  BY DEF Thread
<1>2. ASSUME NEW c \in Client, PushRefused(c) PROVE Promised
  <2>1. c \in Thread /\ Holds(c) /\ th[c].at # "publish" /\ stopping
    BY <1>2 DEF PushRefused, Refuses, Thread, Holds, Working
  <2> QED
    BY <1>2, <2>1, FinishPromised DEF PushRefused, arenaVars, queueVars
<1>3. CASE Produce
  <2>1. Holds("render") /\ th["render"].at # "publish"
    BY <1>3 DEF Produce, Holds, Working
  <2> QED
    BY <1>1, <1>3, <2>1, FinishPromised DEF Produce, arenaVars, queueVars
<1>4. CASE RepostRefused
  <2>1. Holds("render") /\ th["render"].at # "publish" /\ stopping
    BY <1>4 DEF RepostRefused, Holds, Working
  <2> QED
    BY <1>1, <1>4, <2>1, FinishPromised DEF RepostRefused, arenaVars, queueVars
<1>5. CASE DecodeServes
  <2>1. 1 \in DOMAIN channel /\ channel[1] = "request"
    BY <1>5 DEF DecodeServes, IInv, TypeOK
  <2>2. Holds("render") /\ th["render"].at # "publish"
    BY <2>1 DEF IInv, OneRequest, Holds, Working
  <2> QED
    BY <1>1, <1>5, <2>2, FinishPromised DEF DecodeServes, arenaVars, queueVars
<1>6. CASE AnswerDrained
  <2>1. /\ 1 \in DOMAIN drained /\ Head(drained) = drained[1] /\ drained[1] \in Ticket
        /\ th["main"].at = "answer" /\ slot' = slot /\ stopping' = stopping
        /\ GoWith("main", "publish", drained[1], "state")
    BY <1>6 DEF AnswerDrained, IInv, TypeOK, arenaVars
  <2>2. Running(drained[1]) /\ \A q \in Thread : ~Publishes(q, drained[1])
    BY <2>1 DEF IInv, Held, HeldRun, HeldOnce, Publishes, Holds, Working
  <2>3. stopping
    BY <2>1 DEF IInv, Whereabouts, Stopped
  <2>4. Moves("main", "publish", drained[1], "state")
    BY <1>1, <2>1, GoWithMoves DEF IInv, Step
  <2> QED
    BY <1>1, <2>1, <2>2, <2>3, <2>4, DecidingAnswers
<1> QED
  BY <1>2, <1>3, <1>4, <1>5, <1>6

\* The publication delivers the answer that was decided, for the first time.
LEMMA PublishPromised ==
    ASSUME IInv, IInv', NEW p \in Thread, FinishPublishes(p)
    PROVE  Promised
<1>1. /\ th[p].at = "publish" /\ Publish(th[p].t, th[p].res) /\ stopping' = stopping
  BY DEF FinishPublishes, queueVars
<1>2. /\ th[p].t \in Ticket /\ Running(th[p].t) /\ th[p].res \in {"outcome", "state"}
  BY <1>1 DEF IInv, Held, HeldRun, Holds, Working, Whereabouts, TypeOK, ThreadState
<1>u. PICK u \in Ticket : u = th[p].t
  BY <1>2
<1>r. PICK r \in {"outcome", "state"} : r = th[p].res
  BY <1>2
<1>3. /\ slot'[u].state = "finished" /\ slot'[u].result = r /\ slot'[u].calls = slot[u].calls + 1
      /\ \A t \in Ticket : t # u => slot'[t] = slot[t]
  BY <1>1, <1>2, <1>u, <1>r, PublishDoes
<1>4. slot[u].calls = 0 /\ slot[u].state = "running"
  BY <1>2, <1>u DEF IInv, SlotsSound, Running
<1>5. StatusCases /\ StatusCases'
  BY StatusSays, PTL
<1>6. Status(u) = r /\ Status(u)' = r
  BY <1>1, <1>3, <1>4, <1>5, <1>u, <1>r DEF StatusCases, Running, Finished, Publishes
<1>7. th'[p].at # "publish" /\ \A q \in Thread : q # p => th'[q] = th[q]
  <2>1. CASE p \in {"render", "main"}
    BY <2>1 DEF FinishPublishes, IInv, TypeOK, ThreadState
  <2>2. CASE p \notin {"render", "main"}
    <3>1. th' = [th EXCEPT ![p] = AfterSubmit(p)]
      BY <2>2 DEF FinishPublishes
    <3> QED
      BY <3>1, AfterSubmitDoes DEF IInv, TypeOK
  <2> QED
    BY <2>1, <2>2
<1>8. \A t \in Ticket : t # u => /\ \A q \in Thread : Publishes(q, t)' <=> Publishes(q, t)
                                 /\ \A q \in Thread : Publishes(q, t) => th'[q].res = th[q].res
  BY <1>7, <1>u DEF Publishes
<1>9. \A t \in Ticket : Status(t)' = Status(t)
  BY <1>3, <1>6, <1>8, StatusKept
<1>10. \A t \in Ticket : slot'[t].calls = IF t = u THEN 1 ELSE slot[t].calls
  BY <1>3, <1>4
<1>11. Tickets!Deliver(u)
  BY <1>1, <1>4, <1>6, <1>9, <1>10 DEF Tickets!Deliver, Tickets!Answers
<1> QED
  BY <1>11 DEF Promised, Tickets!Next

\* Cancelling one ticket cancels it, unless its answer is decided.
LEMMA CancelPromised ==
    ASSUME IInv, IInv', NEW c \in Client, NEW u \in Ticket, CancelTicket(c, u)
    PROVE  Promised
<1>1. Cancel({u}) /\ th' = th /\ stopping' = stopping /\ u \in arena /\ Running(u) /\ ~slot[u].cancel
  BY DEF CancelTicket, queueVars
<1>2. /\ \A t \in Ticket : slot'[t].calls = slot[t].calls /\ (t # u => slot'[t] = slot[t])
      /\ slot'[u].state = slot[u].state /\ slot'[u].cancel
  BY <1>1, CancelFlags
<1>3. \A t \in Ticket : /\ \A p \in Thread : Publishes(p, t)' <=> Publishes(p, t)
                        /\ \A p \in Thread : Publishes(p, t) => th'[p].res = th[p].res
  BY <1>1 DEF Publishes
<1>4. \A t \in Ticket : t # u => Status(t)' = Status(t)
  BY <1>2, <1>3, StatusKept
<1>5. StatusCases /\ StatusCases'
  BY StatusSays, PTL
<1>6. CASE \E p \in Thread : Publishes(p, u)
  <2>1. Status(u)' = Status(u)
    BY <1>1, <1>2, <1>5, <1>6 DEF StatusCases, Running, Publishes
  <2> QED
    BY <1>1, <1>2, <1>4, <2>1, NothingHappens
<1>7. CASE \A p \in Thread : ~Publishes(p, u)
  <2>1. Status(u) = "open"
    BY <1>1, <1>5, <1>7 DEF StatusCases
  <2>2. Status(u)' = "cancelled"
    BY <1>1, <1>2, <1>5, <1>7 DEF StatusCases, Running, Publishes
  <2>3. Tickets!Become(u, "cancelled")
    BY <1>1, <1>2, <1>4, <2>2, OneBecomes
  <2> QED
    BY <2>1, <2>3 DEF Promised, Tickets!Next, Tickets!Cancel
<1> QED
  BY <1>6, <1>7

\* The manager cancels every open ticket: none without an answer has left the map.
LEMMA CancelAllPromised ==
    ASSUME IInv, IInv', CancelAll
    PROVE  Promised
<1>1. /\ "main" \in Thread /\ th["main"].at = "idle" /\ Cancel(arena) /\ stopping' = stopping
  BY DEF CancelAll, queueVars, Thread
<1>2. Moves("main", "cancelled", th["main"].t, th["main"].res)
  BY <1>1, GoMoves DEF CancelAll, IInv, Step
<1>3. \A t \in Ticket : /\ \A p \in Thread : Publishes(p, t)' <=> Publishes(p, t)
                        /\ \A p \in Thread : Publishes(p, t) => th'[p].res = th[p].res
  BY <1>1, <1>2 DEF Publishes, Moves
<1>4. \A t \in Ticket : /\ slot'[t].calls = slot[t].calls /\ slot'[t].state = slot[t].state
                        /\ ~Running(t) => slot'[t] = slot[t]
                        /\ Running(t) => slot'[t].cancel
  BY <1>1, CancelFlags DEF IInv, SlotsSound
<1>5. StatusCases /\ StatusCases'
  BY StatusSays, PTL
<1>6. ASSUME NEW t \in Ticket
      PROVE  Status(t)' = IF Status(t) = "open" THEN "cancelled" ELSE Status(t)
  <2>1. CASE ~Running(t)
    <3>1. Status(t)' = Status(t)
      BY <1>3, <1>4, <2>1, StatusKept
    <3>2. Status(t) # "open"
      BY <1>5, <2>1 DEF StatusCases, Running, Finished, IInv, TypeOK, ArenaTypeOK
    <3> QED
      BY <3>1, <3>2
  <2>2. ASSUME NEW p \in Thread, Running(t), Publishes(p, t)
        PROVE  Status(t)' = IF Status(t) = "open" THEN "cancelled" ELSE Status(t)
    <3>1. Status(t) = th[p].res /\ Status(t)' = th[p].res
      BY <1>3, <1>4, <1>5, <2>2 DEF StatusCases, Running, Publishes
    <3>2. th[p].res # "open"
      BY DEF IInv, TypeOK, ThreadState
    <3> QED
      BY <3>1, <3>2
  <2>3. CASE Running(t) /\ \A p \in Thread : ~Publishes(p, t)
    <3>1. Status(t)' = "cancelled"
      BY <1>3, <1>4, <1>5, <2>3 DEF StatusCases, Running, Publishes
    <3>2. Status(t) \in {"open", "cancelled"}
      BY <1>5, <2>3 DEF StatusCases
    <3> QED
      BY <3>1, <3>2
  <2> QED
    BY <2>1, <2>2, <2>3
<1>7. Tickets!CancelAll
  BY <1>1, <1>4, <1>6 DEF Tickets!CancelAll
<1> QED
  BY <1>7 DEF Promised, Tickets!Next

\* The flag of the shutdown is the backend going down.
LEMMA SetStoppingPromised ==
    ASSUME IInv, IInv', SetStopping
    PROVE  Promised
<1>1. /\ "main" \in Thread /\ th["main"].at = "cancelled" /\ stopping' = TRUE /\ slot' = slot
  BY DEF SetStopping, arenaVars, Thread
<1>2. Moves("main", "stopping", th["main"].t, th["main"].res)
  BY <1>1, GoMoves DEF SetStopping, IInv, Step
<1>3. ~stopping
  BY <1>1 DEF IInv, Whereabouts, Stopped
<1>4. \A t \in Ticket : /\ \A p \in Thread : Publishes(p, t)' <=> Publishes(p, t)
                        /\ \A p \in Thread : Publishes(p, t) => th'[p].res = th[p].res
  BY <1>1, <1>2 DEF Publishes, Moves
<1>5. \A t \in Ticket : Status(t)' = Status(t)
  BY <1>1, <1>4, StatusKept
<1>6. Tickets!GoDown
  BY <1>1, <1>3, <1>5 DEF Tickets!GoDown
<1> QED
  BY <1>6 DEF Promised, Tickets!Next

\* Every step of the pipeline is a step of the tickets, or none.
LEMMA StepPromised ==
    ASSUME IInv, IInv', [Next]_vars
    PROVE  Promised
<1>1. CASE UNCHANGED vars
  <2>1. Silent
    BY <1>1 DEF vars, arenaVars, queueVars, Silent
  <2> QED
    BY <2>1, SilentSteps
<1>2. ASSUME NEW c \in Client, ClientStarts(c) PROVE Promised
  BY <1>2, SubmitsPromised, CancelPromised DEF ClientStarts
<1>3. ASSUME NEW c \in Client, SubmitSteps(c) PROVE Promised
  <2>1. c \in Thread
    BY DEF Thread
  <2> QED
    BY <1>3, <2>1, AnswersPromised, PushIsSilent, SilentSteps, PublishPromised DEF SubmitSteps
<1>4. ASSUME NEW c \in Client, WaitSteps(c) PROVE Promised
  BY <1>4, WaitIsSilent, SilentSteps
<1>5. CASE RenderSteps
  <2>1. "render" \in Thread
    BY DEF Thread
  <2> QED
    BY <1>5, <2>1, RenderIsSilent, SilentSteps, AnswersPromised, SubmitsPromised, PublishPromised
       DEF RenderSteps
<1>6. CASE DecodeSteps
  <2>1. DecodeStops => Silent
    BY DEF DecodeStops, Silent, arenaVars, queueVars
  <2> QED
    BY <1>6, <2>1, SilentSteps, AnswersPromised DEF DecodeSteps
<1>7. CASE CancelAll
  BY <1>7, CancelAllPromised
<1>8. CASE ShutdownSteps
  <2>1. "main" \in Thread
    BY DEF Thread
  <2> QED
    BY <1>8, <2>1, SetStoppingPromised, ShutdownIsSilent, SilentSteps, AnswersPromised, PublishPromised
       DEF ShutdownSteps
<1> QED
  BY <1>1, <1>2, <1>3, <1>4, <1>5, <1>6, <1>7, <1>8 DEF Next

\* The pipeline keeps the promise of RenderTickets: every ticket gets at most one answer,
\* delivered once, Error::State if it was cancelled before finish read the flag, the
\* outcome of its render otherwise, and Error::State for a live one only in a shutdown.
THEOREM PromiseKept == Spec => KeepsTicketPromise
<1>1. Init => Tickets!Init
  <2> SUFFICES ASSUME Init PROVE Tickets!Init
    OBVIOUS
  <2>1. StatusCases
    BY InitSound, StatusSays
  <2>2. \A t \in Ticket : slot[t].state = "none" /\ slot[t].calls = 0
    BY DEF Init, ArenaInit, Unused
  <2>3. \A t \in Ticket : Status(t) = "none"
    BY <2>1, <2>2 DEF StatusCases
  <2>4. stopping = FALSE
    BY DEF Init
  <2> QED
    BY <2>2, <2>3, <2>4 DEF Tickets!Init
<1>2. IInv /\ IInv' /\ [Next]_vars => Promised
  BY StepPromised
<1> QED
  BY <1>1, <1>2, Invariance, PTL DEF Spec, KeepsTicketPromise, Tickets!Spec, Promised

================================================================================
