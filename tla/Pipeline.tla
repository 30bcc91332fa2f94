------------------------------- MODULE Pipeline --------------------------------
(* The thread pipeline (oak-render, pipeline.rs) under the ticket arena, as the
   manager composes them: submitting threads, one render thread behind a bounded
   queue, one decode thread behind a bounded channel, and the shutdown of the
   manager.  Audio tickets are rendered and answered inside submit_audio.

   A step is one critical section.  What a thread reads in one and uses in the next
   is in its record; a thread asleep on a condition variable moves only when it is
   notified. *)
EXTENDS TicketArena, Sequences, SequencesExt

CONSTANTS
    Client,            \* the submitting threads
    Submits,           \* the kinds of tickets each of them submits
    RENDER_QUEUE_CAP
ASSUME CapAssumption == RENDER_QUEUE_CAP \in Nat \ {0}
ASSUME ClientAssumption ==
    /\ "render" \notin Client /\ "main" \notin Client
    /\ Submits \in [Client -> SUBSET {"video", "sync"}]

VARIABLES
    th,         \* every thread: where it is, the ticket and the result in its hands
    queue,      \* PipelineInner.queue
    stopping,   \* PipelineInner.stopping
    drained,    \* the jobs shutdown took from the queue and has not answered
    installed,  \* DECODE_SERVICE holds the service
    channel,    \* the commands to the decode thread
    decoding,   \* the decode thread runs
    late        \* history: submissions that were waiting for room at the drain

queueVars == <<queue, stopping, drained, late>>
decodeVars == <<installed, channel, decoding>>
vars == <<arenaVars, th, queueVars, decodeVars>>

Thread == Client \cup {"render", "main"}

Step == {"idle", "post", "room", "woken", "publish", "wait", "blocked", "read",
         "loop", "asleep", "produce", "reply", "callback", "repost", "gone",
         "cancelled", "stopping", "answer", "join", "stopdecode", "joindecode", "down"}
ThreadState == [at: Step, t: Ticket \cup {None}, kind: {"video", "sync"},
                res: {"none", "outcome", "state"}]

TypeOK ==
    /\ ArenaTypeOK
    /\ th \in [Thread -> ThreadState]
    /\ queue \in Seq(Ticket) /\ drained \in Seq(Ticket)
    /\ channel \in Seq({"request", "shutdown"})
    /\ stopping \in BOOLEAN /\ installed \in BOOLEAN /\ decoding \in BOOLEAN
    /\ late \subseteq Ticket

Idle == [at |-> "idle", t |-> None, kind |-> "video", res |-> "none"]

Init ==
    /\ ArenaInit
    /\ th = [p \in Thread |-> IF p = "render" THEN [Idle EXCEPT !.at = "loop"] ELSE Idle]
    /\ queue = <<>> /\ stopping = FALSE /\ drained = <<>>
    /\ installed = TRUE /\ channel = <<>> /\ decoding = TRUE
    /\ late = {}

Go(p, at) == th' = [th EXCEPT ![p].at = at]
GoWith(p, at, t, r) == th' = [th EXCEPT ![p].at = at, ![p].t = t, ![p].res = r]

\* finish reads the cancel flag of the ticket p holds, then publishes
Finish(p, r) == GoWith(p, "publish", th[p].t, Outcome(th[p].t, r))

--------------------------------------------------------------------------------
(* Submission: submit_video, submit_playback, submit_video_background ("video")
   and the sync path ("sync") *)

Submit(c, kind) ==
    /\ th[c].at = "idle" /\ kind \in Submits[c]
    /\ Allocate(kind = "sync")
    /\ th' = [th EXCEPT ![c] = [at |-> "post", t |-> next, kind |-> kind, res |-> "none"]]
    /\ UNCHANGED <<queueVars, decodeVars>>

\* The sync path goes on to wait for the ticket
AfterSubmit(c) == IF th[c].kind = "sync" THEN [th[c] EXCEPT !.at = "wait", !.res = "none"] ELSE Idle

Enqueue(t) == queue' = Append(queue, t)

\* notify_one on work: the render thread is the only waiter
WakeRender(f) == IF f["render"].at = "asleep" THEN [f EXCEPT !["render"].at = "loop"] ELSE f

\* notify_all on room
WakeRoom(f) == [p \in Thread |-> IF f[p].at = "room" THEN [f[p] EXCEPT !.at = "woken"] ELSE f[p]]

\* push refuses before it waits, and while it waits only when there is no room
Refuses(c) == stopping /\ (th[c].at = "post" \/ Len(queue) >= RENDER_QUEUE_CAP)

PushRefused(c) ==
    /\ th[c].at \in {"post", "woken"} /\ Refuses(c)
    /\ Finish(c, "state")
    /\ UNCHANGED <<arenaVars, queueVars, decodeVars>>

PushWaits(c) ==
    /\ th[c].at \in {"post", "woken"} /\ ~Refuses(c) /\ Len(queue) >= RENDER_QUEUE_CAP
    /\ Go(c, "room")
    /\ UNCHANGED <<arenaVars, queueVars, decodeVars>>

Push(c) ==
    /\ th[c].at \in {"post", "woken"} /\ ~Refuses(c) /\ Len(queue) < RENDER_QUEUE_CAP
    /\ Enqueue(th[c].t)
    /\ th' = WakeRender([th EXCEPT ![c] = AfterSubmit(c)])
    /\ UNCHANGED <<arenaVars, stopping, drained, late, decodeVars>>

\* The rest of finish, on whichever thread answers the ticket
FinishPublishes(p) ==
    /\ th[p].at = "publish"
    /\ Publish(th[p].t, th[p].res)
    /\ th' = [th EXCEPT ![p] = IF p = "render" THEN [@ EXCEPT !.at = "callback", !.res = "none"]
                               ELSE IF p = "main" THEN [@ EXCEPT !.at = "answer", !.res = "none"]
                               ELSE AfterSubmit(p)]
    /\ UNCHANGED <<queueVars, decodeVars>>

--------------------------------------------------------------------------------
(* Waiting, reading and cancelling *)

\* wait: the slot is looked up once; the wait itself polls every 5 ms
WaitLooksUp(c) ==
    /\ th[c].at = "wait"
    /\ IF th[c].t \in arena THEN Go(c, "blocked") ELSE th' = [th EXCEPT ![c] = Idle]
    /\ UNCHANGED <<arenaVars, queueVars, decodeVars>>

WaitEnds(c) ==
    /\ th[c].at = "blocked" /\ Finished(th[c].t)
    /\ Go(c, "read")
    /\ UNCHANGED <<arenaVars, queueVars, decodeVars>>

ReadResult(c) ==
    /\ th[c].at = "read"
    /\ TakeResult(th[c].t)
    /\ th' = [th EXCEPT ![c] = Idle]
    /\ UNCHANGED <<queueVars, decodeVars>>

CancelTicket(c, t) ==
    /\ th[c].at = "idle" /\ t \in arena /\ Running(t) /\ ~slot[t].cancel
    /\ Cancel({t})
    /\ UNCHANGED <<th, queueVars, decodeVars>>

--------------------------------------------------------------------------------
(* The render thread *)

RenderTakes ==
    /\ th["render"].at = "loop" /\ queue # <<>>
    /\ queue' = Tail(queue)
    /\ th' = WakeRoom([th EXCEPT !["render"].at = "produce", !["render"].t = Head(queue)])
    /\ UNCHANGED <<arenaVars, stopping, drained, late, decodeVars>>

RenderSleeps ==
    /\ th["render"].at = "loop" /\ queue = <<>> /\ ~stopping
    /\ Go("render", "asleep")
    /\ UNCHANGED <<arenaVars, queueVars, decodeVars>>

RenderExits ==
    /\ th["render"].at = "loop" /\ queue = <<>> /\ stopping
    /\ GoWith("render", "gone", None, "none")
    /\ UNCHANGED <<arenaVars, queueVars, decodeVars>>

\* execute_job: the producer's frame, its error or its panic is an outcome.  Here the
\* producer asks for no decode, or decodes inline.
Produce ==
    /\ th["render"].at = "produce"
    /\ Finish("render", "outcome")
    /\ UNCHANGED <<arenaVars, queueVars, decodeVars>>

\* A completion may submit follow-up work; the render thread never waits for room
Resubmit ==
    /\ th["render"].at = "callback"
    /\ Allocate(FALSE)
    /\ GoWith("render", "repost", next, "none")
    /\ UNCHANGED <<queueVars, decodeVars>>

\* mutant: the render thread waits for room like any other thread
PushFromRenderWaits ==
    /\ th["render"].at = "repost" /\ ~stopping /\ Len(queue) < RENDER_QUEUE_CAP
    /\ Enqueue(th["render"].t)
    /\ GoWith("render", "loop", None, "none")
    /\ UNCHANGED <<arenaVars, stopping, drained, late, decodeVars>>

PushFromRender ==
    /\ th["render"].at = "repost" /\ ~stopping
    /\ Enqueue(th["render"].t)
    /\ GoWith("render", "loop", None, "none")
    /\ UNCHANGED <<arenaVars, stopping, drained, late, decodeVars>>

RepostRefused ==
    /\ th["render"].at = "repost" /\ stopping
    /\ Finish("render", "state")
    /\ UNCHANGED <<arenaVars, queueVars, decodeVars>>

CallbackEnds ==
    /\ th["render"].at = "callback"
    /\ GoWith("render", "loop", None, "none")
    /\ UNCHANGED <<arenaVars, queueVars, decodeVars>>

--------------------------------------------------------------------------------
(* The decode service.  The render thread is its only requester: the producer asks
   for footage and waits for the reply.  Nothing in the program calls prefetch. *)

\* The channel is never full: it holds one command of each thread
AskDecode ==
    /\ th["render"].at = "produce" /\ installed
    /\ channel' = Append(channel, "request")
    /\ Go("render", "reply")
    /\ UNCHANGED <<arenaVars, queueVars, installed, decoding>>

\* decode_loop: a hit, a miss and an eviction of its cache give the same frame; the
\* reply ends the producer
DecodeServes ==
    /\ decoding /\ channel # <<>> /\ Head(channel) = "request"
    /\ channel' = Tail(channel)
    /\ Finish("render", "outcome")
    /\ UNCHANGED <<arenaVars, queueVars, installed, decoding>>

\* Commands still queued are dropped
DecodeStops ==
    /\ decoding /\ channel # <<>> /\ Head(channel) = "shutdown"
    /\ decoding' = FALSE
    /\ channel' = <<>>
    /\ UNCHANGED <<arenaVars, th, queueVars, installed>>

--------------------------------------------------------------------------------
(* RenderManager::shutdown and PipelineBackend::shutdown_impl *)

CancelAll ==
    /\ th["main"].at = "idle"
    /\ Cancel(arena)
    /\ Go("main", "cancelled")
    /\ UNCHANGED <<queueVars, decodeVars>>

SetStopping ==
    /\ th["main"].at = "cancelled"
    /\ stopping' = TRUE
    /\ Go("main", "stopping")
    /\ UNCHANGED <<arenaVars, queue, drained, late, decodeVars>>

\* mutant: the drained jobs are dropped unanswered
DrainForgets ==
    /\ th["main"].at = "stopping"
    /\ queue' = <<>>
    /\ late' = {th[c].t : c \in {c \in Client : th[c].at \in {"room", "woken"}}}
    /\ th' = WakeRender(WakeRoom([th EXCEPT !["main"].at = "answer"]))
    /\ UNCHANGED <<arenaVars, stopping, drained, decodeVars>>

\* mutant: only the submitters waiting for room are notified
DrainWakesRoomOnly ==
    /\ th["main"].at = "stopping"
    /\ drained' = queue /\ queue' = <<>>
    /\ late' = {th[c].t : c \in {c \in Client : th[c].at \in {"room", "woken"}}}
    /\ th' = WakeRoom([th EXCEPT !["main"].at = "answer"])
    /\ UNCHANGED <<arenaVars, stopping, decodeVars>>

\* The notifications follow the unlock; nobody falls asleep between the two
Drain ==
    /\ th["main"].at = "stopping"
    /\ drained' = queue /\ queue' = <<>>
    /\ late' = {th[c].t : c \in {c \in Client : th[c].at \in {"room", "woken"}}}
    /\ th' = WakeRender(WakeRoom([th EXCEPT !["main"].at = "answer"]))
    /\ UNCHANGED <<arenaVars, stopping, decodeVars>>

AnswerDrained ==
    /\ th["main"].at = "answer" /\ drained # <<>>
    /\ drained' = Tail(drained)
    /\ GoWith("main", "publish", Head(drained), "state")
    /\ UNCHANGED <<arenaVars, queue, stopping, late, decodeVars>>

AnsweredAll ==
    /\ th["main"].at = "answer" /\ drained = <<>>
    /\ GoWith("main", "join", None, "none")
    /\ UNCHANGED <<arenaVars, queueVars, decodeVars>>

JoinRender ==
    /\ th["main"].at = "join" /\ th["render"].at = "gone"
    /\ installed' = FALSE
    /\ Go("main", "stopdecode")
    /\ UNCHANGED <<arenaVars, queueVars, channel, decoding>>

SendShutdown ==
    /\ th["main"].at = "stopdecode"
    /\ channel' = Append(channel, "shutdown")
    /\ Go("main", "joindecode")
    /\ UNCHANGED <<arenaVars, queueVars, installed, decoding>>

JoinDecode ==
    /\ th["main"].at = "joindecode" /\ ~decoding
    /\ Go("main", "down")
    /\ UNCHANGED <<arenaVars, queueVars, decodeVars>>

--------------------------------------------------------------------------------
\* What a thread does on its own once it has started
SubmitSteps(c) == PushRefused(c) \/ PushWaits(c) \/ Push(c) \/ FinishPublishes(c)
WaitSteps(c) == WaitLooksUp(c) \/ WaitEnds(c) \/ ReadResult(c)
RenderSteps ==
    \/ RenderTakes \/ RenderSleeps \/ RenderExits
    \/ Produce \/ AskDecode \/ FinishPublishes("render")
    \/ Resubmit \/ PushFromRender \/ RepostRefused \/ CallbackEnds
DecodeSteps == DecodeServes \/ DecodeStops
ShutdownSteps ==
    \/ SetStopping \/ Drain \/ AnswerDrained \/ FinishPublishes("main")
    \/ AnsweredAll \/ JoinRender \/ SendShutdown \/ JoinDecode

ClientStarts(c) ==
    \/ \E kind \in {"video", "sync"} : Submit(c, kind)
    \/ \E t \in Ticket : CancelTicket(c, t)

Next ==
    \/ \E c \in Client : ClientStarts(c) \/ SubmitSteps(c) \/ WaitSteps(c)
    \/ RenderSteps \/ DecodeSteps
    \/ CancelAll \/ ShutdownSteps

\* Running threads are scheduled; what starts a call, a submission or the shutdown
\* is not assumed to happen
Fairness ==
    /\ \A c \in Client : WF_vars(SubmitSteps(c) \/ WaitSteps(c))
    /\ WF_vars(RenderSteps) /\ WF_vars(DecodeSteps) /\ WF_vars(ShutdownSteps)

Spec == Init /\ [][Next]_vars /\ Fairness

--------------------------------------------------------------------------------
\* Where a thread is while the answer to its ticket is its business
Working == {"post", "room", "woken", "publish", "produce", "reply", "repost"}
Holders(t) == {p \in Thread : th[p].at \in Working /\ th[p].t = t}
Places(q, t) == {i \in DOMAIN q : q[i] = t}

\* A ticket without an answer is the business of exactly one thread, or it is in
\* exactly one of the two queues; an answered one is in neither.  No job is lost and
\* none is answered twice, whatever push, the render loop and the drain of
\* shutdown_impl do to it.
OneHolder ==
    \A t \in Ticket :
        Cardinality(Holders(t)) + Cardinality(Places(queue, t)) + Cardinality(Places(drained, t))
          = IF Running(t) THEN 1 ELSE 0

\* The sync path finds its ticket when it waits for it and its result when it reads
\* it: allocate, which reaps on every other thread's submission, leaves it alone.
SyncFindsResult ==
    \A c \in Client :
        /\ th[c].at \in {"wait", "blocked", "read"} => th[c].t \in arena
        /\ th[c].at = "read" => slot[th[c].t].result # "none"

\* What ticket.rs:713 says of cancel_all: once the backend is shut down the completion
\* of every ticket it cancelled fires.  push breaks it: a thread that waited for room
\* during the drain enqueues after the render thread has gone.
CompletionsFire ==
    \A t \in Ticket : (th["main"].at = "down" /\ slot[t].cancel) ~> Finished(t)

\* How far that reaches: the jobs left in the queue after shutdown are those of
\* threads that waited for room while shutdown_impl drained it.
StrandedWereWaiting ==
    th["main"].at = "down" => ToSet(queue) \subseteq late

\* A ticket is answered, for RenderTickets, when finish has read its cancel flag
Status(t) ==
    LET deciding == {p \in Thread : th[p].at = "publish" /\ th[p].t = t}
    IN  IF ~Running(t) THEN IF Finished(t) THEN slot[t].result ELSE "none"
        ELSE IF deciding # {} THEN th[CHOOSE p \in deciding : TRUE].res
        ELSE IF slot[t].cancel THEN "cancelled" ELSE "open"
Tickets == INSTANCE RenderTickets WITH
    status <- [t \in Ticket |-> Status(t)],
    calls <- [t \in Ticket |-> slot[t].calls],
    down <- stopping

\* The tickets of the arena on this backend are render tickets as RenderTickets
\* describes them: cancel, cancel_all, the render thread, refused posts and the drain
\* of shutdown_impl together give every ticket one answer of the right kind.
KeepsTicketPromise == Tickets!Spec

\* Every submitted ticket is answered, except the ones CompletionsFire fails for: those
\* of threads that waited for room while shutdown_impl drained the queue.
TicketsAnswered == \A t \in Ticket : Running(t) ~> (Finished(t) \/ t \in late)

\* The shutdown of the manager ends: its joins do not wait on each other.
ShutdownEnds == th["main"].at = "cancelled" ~> th["main"].at = "down"
================================================================================
