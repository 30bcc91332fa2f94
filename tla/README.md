# A verification of Oak's editing core

This directory holds TLA+ models of the parts of the Oak video editor where
several actors, failures or long call sequences meet: the undo history, timeline
editing on the node arena, the preview scheduler, the process render pool with its
shared-memory slots, the thread pipeline with its tickets, and the project library
with the write-through session. TLC checks the models on small instances; TLAPS
proves the safety properties of the history, the scheduler, the pipeline, the library
and the write-through session, and part of those of the pool and of the slots, for every
value of the constants. `PROJECT.json` lists the components, the runs, the mutants that
show what each property catches, the source lines behind every definition, the
findings and the hazards.

## The system and its parts

Oak is a workspace of fifteen crates. A user action becomes an undo command
(`oak-undo`, `oak-timeline`, `oak-node`), which changes the project graph; each
successful command is written through to a library (`oak-storage`). Preview and
export ask `oak-render` for frames; it renders on a thread of its own, or with
process isolation in `oak-worker` children that it talks to over JSON lines and
shared-memory slots. Long work runs as tasks (`oak-task`) over the codecs
(`oak-codec`).

| Part | State | Operations | Hard behaviour |
|---|---|---|---|
| undo history (`oak-undo`) | done and undone rows, an open group, observers | push, group begin/end/abort, undo, redo, jump, clear | long call sequences, flags that turn a call into a no-op, the cap of the history, aborted groups |
| timeline editing (`oak-app/oakui/graphops.rs`, `oak-timeline`, `oak-node`) | the arena of nodes, block ranges, track lists, what each command remembers | add, split, trim, ripple, roll, slide, slip, move, delete; undo and redo of each | slots reused behind a detached node, commands of one row that undo each other's work, redo on what an earlier run prepared |
| preview scheduler (`oak-render/scheduler.rs`) | worker count, batch size, pending requests, claims | submit, claim_batch, frame_done/failed, worker_crashed, cancel, set_worker_count | resubmission in flight, crash re-dispatch, resharding, the interactive reserve |
| process pool (`oak-render/procpool.rs`) | worker handles, tickets, resize target, event channel | post, poll/pump, release, cancel, resize, shutdown | crashes, late and stale events, throttled resize, index shifts, slot credit, teardown |
| worker (`oak-worker`) | attached segment, control pipe | handshake, render_batch, shutdown | crash at any point, failed attach |
| frame slots (`ipc.rs`) | two single-producer single-consumer rings per segment | acquire, publish, consume, release | two processes in lockstep without a lock |
| tickets and arena (`ticket.rs`, `manager.rs`) | ticket table, cancel flags, results | submit, wait, read, cancel, reap | cancellation racing the answer, reaping racing a wait |
| thread pipeline (`pipeline.rs`) | bounded queue, render and decode threads | push, render loop, decode request, shutdown | back-pressure, follow-up work from completions, drain and joins |
| project library (`oak-storage/backends/database`) | rows, journal, snapshots | save, snapshot, retention, replay, copy, delete | pruning of two logs, diffs against a replayed head |
| write-through (`writethrough.rs`) | bindings, dirty flags, generations, snapshot thread | bind, note_command, snapshot pass, unbind, exit flush | lost wake-ups, failed transactions, crash between steps |
| tasks (`oak-task`) | queue, states | add, start, cancel | cancellation racing the end |
| codecs, evaluation, plugins, UI | media, pixels, views | | numeric code and I/O |

How they meet. `post` gives a request to the scheduler and a ticket to the table;
`pump`, called from every poll under one mutex, applies a delayed resize, drains the
children's events, restarts dead workers, claims batches and sends them, and removes
retired workers. Children run on their own and share only the rings and the slot
memory of their segment. In the pipeline a submitter hands its job to the render
thread over a bounded queue and may block for room; the render thread asks the decode
thread and waits; completions run on the render thread and may submit again. The undo
history meets the rest through its observers, which write the project: the
write-through session saves on the caller's thread and a background thread snapshots.

What makes each part correct: a row of the history is only ever undone or redone on
the document it was recorded on, and undo and redo of an edit restore and repeat the
track layout; the scheduler never loses, doubles or strands a request; the pool and
the pipeline answer every ticket once, with the right kind of answer; slot credit is
exact, and a frame that was delivered is not overwritten; no stale event touches a
newer child and no process stays behind; the library returns what was saved last,
whatever was pruned, and no loss goes unreported.

## Modules

| Module | Models |
|---|---|
| `UndoStack` | `oak-undo`: the stack, command flags, group, observers |
| `UndoStackProofs` | its theorems |
| `Tracks` | the arena of `graph.rs`, blocks, track lists and the helpers of `util.rs` |
| `EditCommands` | the undo commands of `oak-timeline`: what they remember, redo, undo |
| `Timeline` | the clip operations of `graphops.rs` as rows of commands, with undo and redo |
| `TimelineProofs` | theorems of `Timeline` |
| `PreviewScheduler` | the fields and methods of `scheduler.rs`, one action each |
| `SchedulerUse` | the scheduler under a dispatcher that calls in any order |
| `ClaimLoop` | the loop of `claim_batch`, against the declarative batch rule |
| `SchedulerProofs` | theorems of `SchedulerUse` |
| `ProcPool` | `procpool.rs` on top of `PreviewScheduler`, with the children |
| `PoolProofs` | theorems of `ProcPool` |
| `SpscRing` | the ring buffer of `ipc.rs`, load and store by load and store |
| `SlotExchange` | one worker and the dispatcher on the two rings of a segment |
| `SlotProofs` | theorems of `SlotExchange` |
| `RenderTickets` | abstract: what a ticket promises its submitter |
| `TicketArena` | the ticket table of `ticket.rs` |
| `Pipeline` | `pipeline.rs` on top of `TicketArena`, with submitters and shutdown |
| `PipelineProofs` | theorems of `Pipeline`, the refinement of `RenderTickets` among them |
| `ProjectStore` | abstract: what the library promises |
| `Library` | rows, journal, snapshots, retention and replay |
| `LibraryProofs` | theorems of `Library`, the refinement of `ProjectStore` among them |
| `LibraryUse` | the library with a bound on saves, the instance TLC explores |
| `WriteThrough` | the write-through session on top of `Library`, with crashes |
| `WriteThroughProofs` | theorems of `WriteThrough` |
| `MC*` | the instances TLC checks |

**UndoStack.** `commands` and `undone` are the two stacks; a command carries the
edits it makes and the `done` flags of `UndoCommand`, and a composite its
children. The document is the sequence of edits in force. `saved` is what the
observers last saw. A jump is several steps, as in the code, so that its loop
can be checked to land and to end. `jump` does not look at the open group, and a jump
over the edits of an open group would undo a row on a document it was not recorded on.
`UserJumps` says why that does not happen: `grouped` (`effectchain.rs:490`), the one
function of the program that opens a group, runs its edits and closes the group in one
call on the thread that also jumps.

**Tracks, EditCommands, Timeline.** A document is a value: arena entries with
generation and vacancy, the free list, and per track the list of block names. Names
are slot and generation, so a stale name reads as zero and is not written, as in
`util.rs`. A command is a record of what its struct keeps; `Redo...` and `Undo...`
take the command and the document and return both. `Timeline` keeps rows of commands
with the layout found and left by the first run. `doc.lapse` is a history variable:
it is set where the code loses a name, turns a range round, measures a node that is
not in the graph, or prepares a clearing or a splice a second time (see Findings).
The layout properties hold up to such a lapse, and the state after it is explored as
well.

**PreviewScheduler.** `pending` and `claimed` are sets, because the pending
vector's order only breaks ties that the model leaves open. `Batches` states
which batches `claim_batch` may form; `ClaimLoop` translates the loop itself, over
every order its sort may leave ties in (`Walks`, `LoopTakes`), and the run checks in
every reachable state that it forms one of them. The
scheduler has no `Next` of its own: `SchedulerUse` calls its methods in any
order, `ProcPool` in the order of the dispatcher.

**ProcPool.** `handles` is the vector of worker handles, so a removal shifts the
indices as in the code. Each child (`procs`) has an inbox (its stdin) and one
outgoing queue that stands for its stdout, the reader thread and the event
channel; the drain phase takes any prefix of it, since the reader may lag. The
mutex is `pump.at`: while a pump is under way only children move, and every
phase of the pump is an action of its own. Sending to a child that is gone
fails, which marks the handle dead. Time (the resize throttle, the handshake
timeout, the retirement and shutdown deadlines) is a choice; crashes, failed
renders, failed spawns and timeouts draw on the budget `MaxFaults`. Slots are
counted, not named. The graph snapshot is taken to be absent.

**SlotExchange.** The same dispatcher with one worker, where slots have numbers and
contents. Every load and store of a cursor that the other process reads is a step of
its own; `main.at` says how far the dispatcher is in a ring operation (it holds the
mutex meanwhile) and `worker.at` how far the worker is with its ticket. The claim is
any batch the credit covers, parted into pictures and sound as `dispatch_to` parts it;
slots are assigned in that order and each part is a message. A crash or a growth takes a fresh segment; frames of the
old one stay with their consumers.

**TicketArena, Pipeline.** One record per thread in `th` says where it is in its
call; what is read under one lock and used under the next is kept there. `finish`
is two steps, because it reads the cancel flag before it publishes. A woken waiter
checks its condition again only after it has the lock, so the shutdown can drain the
queue between the two. `late` records which submitters waited for room at that
moment.

**Library, WriteThrough.** A project is a function from nodes to their serialised
form. Every library operation is one transaction and one step. `hist` records what
was saved under each row, for the properties. In `WriteThrough` the user interface
and the snapshot thread take steps of their own; the generation of a binding
(`write_gen`) and its dirty flag are read and written exactly where the code does, by the
flush too, which takes the generation with its snapshot and compares it before it clears
the flag. In `Library`, `asked` is the second history variable: what the callers last
asked each row to hold.
A crash forgets everything but the database.

## Runs

| Run | Instance | Shows |
|---|---|---|
| `undo` | cap of three rows, small edits | history chain, observers, jumps land and end |
| `timeline` | two tracks, two edits, undo, two redos | the arena is sound; up to a lapse, lists and blocks agree, undo restores and redo repeats the layout |
| `timeline_identity` | two edits, undo | finding: the track lists a name nobody has |
| `scheduler` | 2 workers, 3 posts, crash, resize | conservation, one home per key, loop = rule, the queue drains |
| `pool` | 2 workers, 2 tickets, 2 faults, 1 restart, cancellation, a shrink | tickets, claims and credit agree in every state |
| `pool_live` | 1 worker, 3 tickets, a seek, a window frame and a job larger than the segment, 1 fault, window frames never released | every ticket of a whole pool is answered, a seek out of the interactive reserve |
| `pool_shutdown` | 1 worker, a ticket, a fault, 2 resizes up and down, shutdown at any moment | no orphan and no open ticket after shutdown |
| `slots` | 2 slots, 3 requests (one for sound), a crash or a growth | free list and ring agree, frames stay intact, no acquisition waits, every request is answered |
| `pipeline` | 2 submitters, 3 tickets, queue of 1, shutdown at any moment | one holder per ticket, the ticket promise (refinement), answers, the shutdown ends |
| `pipeline_shutdown` | 2 submitters, 2 tickets, queue of 1 | finding: after the shutdown a cancelled ticket's completion never fires |
| `library` | 2 rows, 4 saves, 2 ticks of time | journal and replay agree, the library implements `ProjectStore` |
| `write_through` | 1 project, 2 commands, a failure, a crash | no unreported loss, no clean project without its snapshot, flush and snapshots end |

**Refinements.** `Library` implements `ProjectStore` (`StoresWhatWasSaved`). The
abstract store has two variables. `asked` is a history variable of `Library`: the
project each row was last saved with, set by a save also when it finds nothing to
write, dropped by a deletion and copied by a duplication, and changed by nothing else.
`stored` is what a load gives, every node of the replayed
head and the settings mirror. An abstract save stores exactly the project that was
asked for, so a save that stores anything else has no abstract step, and journal
retention, snapshot pruning and snapshots, for which nobody asks, must map to
stuttering. `Pipeline` implements `RenderTickets`
(`KeepsTicketPromise`): a ticket is answered, for the abstract specification, at the
moment `finish` has read the cancel flag, since a cancellation between that and the
publication no longer changes the answer; the calls of the completion follow later.

**Bounds.** Two slots are the smallest segment with an interactive reserve, and the
fewest `default_slots_for_bytes` gives; two keys give each shard of two workers one
frame, and two tickets are enough to replace, reject or repeat a key. Three tickets
are needed to fill a segment with window frames before a seek and have a seek that does
not fit it (`pool_live`). The budget of a grown segment there holds one slot of the
larger size, so the two slots it gets are those of the clamp. Two
faults with one restart cover a crash during every phase, a crash of the replacement,
and a worker that is given up (`pool`). Faults multiply with resizes, so no run has two
of each: `pool` shrinks once, `pool_live` never resizes, and `pool_shutdown` grows,
shrinks and is throttled with one ticket and one fault. With two slots and three requests both rings of
`slots` wrap. In `pipeline` a queue of one and three tickets give one job running, one
queued and one waiting for room, and a follow-up from a completion into a full queue;
the user interface submits and waits, the task submits and polls. In `library` two
kept snapshots (three in the code) and four saves reach pruning of a snapshot whose
journal is partly gone, and a node that is removed, added and removed again behind a
snapshot. The snapshot interval is longer there than the retention window, so that rows
no snapshot covers grow old; snapshots come at any moment, and those a save takes because
the interval is over are in `write_through`. In `write_through` two commands put a write on either side of a snapshot pass;
one project is enough because bindings do not share state beyond the thread. The
timeline starts from two adjoining clips or from clips around a gap, with frames 0 to
4, which gives every relation of two ranges; undo and redo can lengthen the lists and
raise generations for ever, hence `MaxRedos`. `MaxFaults`, `MaxTickets` and
`MaxResizes` bound behaviours, not the state at one moment; a steady stream of
requests that starves a large one is therefore out of reach.

**Fairness.** The UI tick polls again and again (weak fairness of `Poll`); a pump
holds the lock and runs to its end (`PumpStep`); children serve their pipes; a
reader forwards what it reads, so a waiting event is drained by one of the
coming pumps (strong fairness, as draining is only possible during a pump).
The shutdown deadline passes. Consumers release the frames of seeks; nothing forces them to release those of the
playback window, which may be full while the user waits for a seek (`SeekRelease`). A
crash, a resize or a post is never forced. In `SchedulerUse` every worker keeps asking for batches, as the
pump's walk does. In `UndoStack` a jump that started runs to its end. In
`SlotExchange` started ring operations go on, the dispatcher polls, the worker serves
its pipe and consumers release. In `Pipeline` every thread that is inside a call goes
on; submissions, cancellations and the shutdown are never forced. In `WriteThrough`
started calls go on, the snapshot thread is scheduled and its waits time out.

## Findings

`timeline_identity` is checked as a violation: a node that comes back after its slot
was taken gets another id (`graph.rs:124`), the callers drop that id, and the track
goes on listing the old one, although `undocommon.rs:35` calls the re-insertion
identity-preserving. It takes three user actions: move a clip over another, add a clip,
undo both.

`pipeline_shutdown` is the second: `ticket.rs:713` says that shutting the backend down
after `cancel_all` guarantees that all completions have fired. `push` looks at `stopping`
again only while the queue is full (`pipeline.rs:604`), so a submitter that waited for
room, and is woken by the drain, enqueues behind a render thread that has exited; `push`
returns true and the completion never fires. `TicketsAnswered` therefore exempts the
tickets in `late`; the theorem `StrandedKnown` says that no others are left behind.

The models also have the following divergences between code and comment, none of which
is the subject of a run. They are the `note` of a hazard or the reason for a
restriction of a run.

- History: at the cap the row at the bottom, documented as invariant, is evicted.
- Scheduler: `set_worker_count` keeps the smaller of the old and the new batch size;
  the comment promises the figure for the new count.
- Pool: removing a retired worker shifts the worker behind it, and the release of a
  frame that names the old index is dropped, so a retiring worker may never leave. A
  busy retiring worker that shifts is lost altogether: with three workers that shrink to
  one, the idle one leaves first (`procpool.rs:1551`), the lines of the other name an
  index that has no handle and are dropped (`procpool.rs:1437`), and its claims stay
  under that index, so its frames are neither answered nor queued again, against
  `procpool.rs:1249` ("drains its outstanding batch first, then exits naturally"). A
  worker spawned by a growth has generation 0 again, so the end of file of its
  predecessor at that index can kill it. Unclaimed frames in the shard of a
  permanently dead worker are never answered. A late handshake line revives a worker
  whose restart budget is used up. The pump that `shutdown` runs restarts workers that
  obeyed it. A failed re-attach after a growth is ignored, so that worker gets no work
  again. A pool that shrinks and grows back while its tail still retires spawns nothing
  for the missing shard, since `apply_target_workers` counts the retiring worker. What
  the runs say of this: `EveryTicketAnswered` speaks of a pool that is `Whole` (enough
  workers, none given up, none hung after a failed re-attach) and promises nothing of
  another; `pool` neither grows after its shrink nor retires two workers at once, so the
  shifts and the reused generation are outside it, and no property claims that an event
  always finds the handle of the child that sent it (`procpool.rs:1432`), which is false.
- Write-through: a failed write leaves the binding clean and the exit flush skips clean
  bindings (`writethrough.rs:537`, against line 76). The stop notification is lost when
  the thread does not wait yet, so the flush may take a whole interval
  (`writethrough.rs:437`). A pass names its bindings by address; the model assumes that
  an address is not reused during a pass (`AddressFree`).
- Library: `load_at` inside the retention window, after the snapshot it needs was
  pruned, replays an incomplete journal without saying so; `UnbrokenReplay` exempts it.
- Timeline: undoing a removal between two gaps measures the merged gap before it is back
  (`undogeneral.rs:925`), so the first gap does not get the "original length" that lines
  919 and 938 promise; trims, rolls and slides are undone with the setter that
  overwrites the media in point (`block.rs:99`); `roll_edit` moves the in point of the
  left and the out point of the right clip instead of their boundary
  (`graphops.rs:2695`); the redo of a placement clears, and possibly splits, again
  (`undopointer.rs:649`); the redo of a ripple removal that spliced a clip trims its
  second half twice (`undoripple.rs:340`); a slide past a hole gives the neighbour a
  negative length (`graphops.rs:2799`, against the comment at 2797); a ripple trim past
  the clip's other end turns its range round (`graphops.rs:2667`).

  Where the properties look away: a name lost on re-insertion, a range turned round, a
  node measured outside the graph and a repeated split or splice set `doc.lapse`, and
  `Homes`, `UndoRestores` and `RedoRepeats` say nothing of a document with a lapse. They
  would hold with any behaviour in these four cases, and so do not cover the hazards
  that consist of them; what they do cover is rows of several commands that undo and
  redo each other's work. Only the first case has a property of its own,
  `ListedAreLive`. `ArenaSound` has no exemption. No property looks at the media in point.

## Proofs

`UndoStackProofs` proves, for every cap and every set of edits:

| theorem | states |
|---|---|
| `TypeCorrect` | `[]TypeOK` |
| `HistoryIsChained` | `[]HistoryChain`: undoing every row in order leads back through the documents the rows were recorded on |
| `ObserversSeeEveryEdit` | `[]ObserversCurrent` |
| `HistoryIsBounded` | `[]RowsBounded`: the history never exceeds its cap |
| `JumpsLand` | `JumpLands`: a jump ends on its row, or where the rows run out |

The chain is not inductive as it stands: the flags of every row and the relation
of the document to the position of a jump under way belong to the invariant
(`IInv`). There is one lemma per action (`PushIInv`, `GroupIInv`, ...), over
lemmas on what appending, dropping the first or the last row does to a linked
sequence.

`SchedulerProofs` proves of `SchedulerUse`, for any number of workers, keys,
sizes, posts, crashes and resizes:

| theorem | states |
|---|---|
| `TypeCorrect` | `[]TypeOK` |
| `KeysHaveOneHome` | `[]OneHomePerKey` |
| `RequestsAreConserved` | `[]EachRequestOnce` |
| `LoopIsTheRule` | `[]LoopFormsBatch`: the claim loop forms a batch of the rule, or there is none |

Conservation needs the type invariant and the fact that the payload of a request
is the number of its post; one home per key is inductive given types. For the loop,
the two make the queue finite; in a walk the seeks come first (`SeeksLead`), the loop
takes an initial stretch of the walk (`LoopTakesAhead`, at the least index at which it
would not), and the length of that stretch (`Took`) splits into the seeks and the
others the rule counts (`TookParts`). That the recursive function of the loop exists is
a lemma of its own (`TakesExist`). The proofs rest on `SchedulerAssumption` and
`UseAssumption` only.

`PipelineProofs` proves of `Pipeline`, for any set of submitters, tickets, queue
bound and shutdown moment:

| theorem | states |
|---|---|
| `TypeCorrect` | `[]TypeOK` |
| `TicketsHeldOnce` | `[]OneHolder`: an unanswered ticket is in exactly one place |
| `SyncSafe` | `[]SyncFindsResult` |
| `StrandedKnown` | `[]StrandedWereWaiting`: the jobs left behind by a shutdown, the finding of `pipeline_shutdown`, are those of threads that waited for room at the drain |
| `PromiseKept` | `KeepsTicketPromise`: every step is a step of `RenderTickets` or a stutter |

The invariant `IInv` says which step each kind of thread can be at and how that goes
with `stopping` and the drain (`Whereabouts`), that the table and the slots agree
(`SlotsSound`), that a ticket runs exactly as long as one place holds it, and only one
(`Held`), that the decode channel has a request only while the render thread waits for
its reply (`OneRequest`), that the tickets of the sync path are not reaped and not
shared (`SyncSound`), and that after the drain whatever is queued or waits for room was
waiting then (`LateOnly`). The refinement then goes action by
action: only `finish` after the cancel flag is read, submission and cancellation are
visible, all else stutters. It rests on `ClientAssumption`.

`LibraryProofs`, for any callers, nodes, states, snapshot and retention policy
(`LibrarySpec`, of which the run explores the behaviours with at most `MaxSaves` saves):

| theorem | states |
|---|---|
| `LibraryTypeCorrect` | types, and the head of a row counts its commands |
| `ImagesCorrect` | `[]JournalImages` |
| `ReplayCorrect` | `[]UnbrokenReplay` |
| `StoreImplemented` | `StoresWhatWasSaved`: the library implements `ProjectStore` |

The invariant is `LibSound`, one `RowSound` per row: every journal row has the images of
its node in the history, the rows of a command are complete and pruned together, every
snapshot is the state of its command, and nothing after the newest one is pruned.
That replay of such a journal gives the history is an induction over the commands
since the snapshot; it is done with a least counterexample (`WFMin` on the naturals),
for the library's induction theorems cannot be instantiated. There is a
lemma for each operation, which `WriteThroughProofs` uses again. Both rest on
`LibraryAssumption`.

`WriteThroughProofs`, for any projects, rows, failures and crashes:

| theorem | states |
|---|---|
| `SessionTypeCorrect` | types of the session |
| `LossesShown` | `[]LossIsReported` |
| `CleanMeansSnapshotted` | `[]CleanIsSnapshotted` |
| `FlushIsComplete` | `[]FlushDrains` |

The invariant joins `LibSound` with `UiSound` (the user interface visits bound projects
only), `LossSound` (where the library lags behind memory an error is shown or a write is
due; a flush clears with the generation it snapshotted), `JobsSound` (the jobs of a pass are not newer than their bindings, and one that was
snapshotted is covered as long as its generation is current), `CleanSound` (a clean
binding, and one about to be cleared, has its head snapshotted) and `DrainSound` (what
the flush has visited is clean or shows an error).
`SessionAssumption` says that "no project" is not a project state.

`PoolProofs`, for any number of workers, slots, keys, tickets, faults and resizes:

| theorem | states |
|---|---|
| `PoolTypeCorrect` | `[]TypeOK`, with free slots within the slots of the segment |
| `ChildrenOwned` | `[]NoOrphans` |
| `ShutdownComplete` | `[]ShutdownAnswersAll` |
| `TicketsRequested` | `[]TicketPerRequest`, if only the last worker leaves |
| `ClaimsBacked` | `[]ClaimsOutstanding`, if only the last worker leaves |
| `CreditExact` | `[]SlotsAccounted`, if only the last worker leaves |

The invariant `Inv` has a part for the scheduler (its requests are posted tickets and
finitely many), the handles (free, outstanding and held slots together never exceed
the segment, which is what keeps `free` in range), the children and their messages,
the tickets (an open answer belongs to an open ticket), the state after shutdown and
the ownership of children. A lemma per helper (`KillIs`, `GrowIs`, `RemoveIs`,
`DispatchIs`, ...) says what it does to a handle or a child; a lemma per action
composes them. A batch is no larger than the credit because it is chosen by
cardinalities (`BatchIs`); the size a segment grows to exists because a finite set of
naturals has a greatest element. They rest on `SchedulerAssumption` and
`PoolAssumption`. The index shift of the Findings is inside the model: the first three
theorems hold in spite of it, the three after them do not survive it. Their condition is
a formula about a behaviour, `OnlyTheLastLeaves`: a worker that is reaped is the last of
the vector. The code does not guarantee it, two workers that retire together can leave
in either order; run `pool` meets it because it retires one. A worker of generation 0 at
an index used before is covered.

An invariant carries them. `Linked` joins tickets, scheduler and handles:
the requests are the open tickets (`RequestsOK`), a claim is outstanding with its worker
(`ClaimsOut`) and what a worker has outstanding is claimed by it or no longer open
(`OutClaimed`), without which a claim could not be taken from a worker that answers;
and, for the credit, no two handles share a segment, every reference is into a
segment ever made, a held frame was answered, and free, outstanding and held slots add
up (`Owns`).

`SlotProofs`, for any number of slots, tickets, crashes and growths:

| theorem | states |
|---|---|
| `SlotTypes` | types of the segments, the handle's lists, the pipe and the worker |
| `FramesStayIntact` | `[]FramesIntact` |
| `StayInLockstep` | `[]InLockstep` |
| `FreeRingMirrored` | `[]RingMirrored` |

`FramesIntact` needs `SInv`: a ticket under way is in one place (`OnePlace`: a message to
the worker, the worker's list, a reply) and agrees with `outstanding` (`Agree`), and a
slot is in one place (`Apart`, `InHandApart`: free, held, outstanding or in the
dispatcher's hands), so whatever the worker writes is not what a consumer has.

`InLockstep` needs `LInv`, which relates the lists to the rings position by position.
`FreeOrder` says that the free ring can be cut, first the slots of the worker's list,
then those of each message on its way, then `free_slots` as they are;
`ReadyOrder` that the ready ring holds, reply by reply, the slots that frame_ready
messages announce. The cuts and the counts are functions under an existential
quantifier, so that no sum over the messages has to be computed: an operation shifts
them or adds one. `FreeApart` and `ReadyApart` say that a slot is nowhere twice; a list
of distinct slots is no longer than the segment (`LeavesRoom`), hence a push finds room.
The half steps of a ring operation are in `HalfWay`, the rings of segments not yet taken
into use in `Unused`. There is one lemma per operation of a ring on its contents
(`PopIs`, `PushCellIs`, `PushHeadIs`), and then one per action for each of the two invariants. They rest
on `ExchangeAssumption`.

`RingMirrored` follows from both and from `Covered`, inductive with them: every slot is
on the list, held, outstanding or in the dispatcher's hands; what `Apart` keeps apart
then adds up to the segment. Its first part concatenates the messages on their way.
`FlattenSeq` is a fold; `JoinsExist` shows that the recursive function it stands for
exists, as the function on the least length at which it would not (`Least`, from the
well-founded order of the naturals), and `JoinsName` that a sequence cut as `FreeCuts`
says, message by message, is that concatenation.

`TimelineProofs`, for any tracks, loaded documents and number of edits:

| theorem | states |
|---|---|
| `TimelineIsSound` | `[]TimelineSound`: documents and the commands of the history keep their types, and the free list is the vacant slots |
| `ArenaIsSound` | `[]ArenaSound`: the free list names every vacant slot once and no occupied one |

`ArenaSound` says something of the document only, but an undo puts back what a command
remembers, so the invariant covers every row of the history: `TimelineSound` gives each
command a type (`SplitC`, `RippleC`, `GapC`, ...), which says what its run left for its
undo (`PlacedC`: a placement that ran knows the old in point), and keeps the document in
`SoundDoc`. One lemma per arena operation (`AddNodeSound`, `TakeNodeSound`,
`AddEntrySound`), then per list helper, per command and direction (`RedoSplitSound`,
`UndoSplitSound`, ...), per row and per clip operation. The only step that needs care
is the one the source comments on (graph.rs:114): a slot that is taken back leaves the
free list (`WithoutIs`). The loops of the commands are folds. `FoldExists` shows, by a
least counterexample, that the recursive function behind a fold exists; `FoldStays` is
the one induction all of them use: a set that a loop's body keeps is kept by the loop.
`Retain` is a recursive function where one would use `SelectSeq`, whose definition the
provers cannot expand. The proofs rest on `TrackAssumption`, `LoadedAssumption` (a project
is read into an arena of its own, so nothing is free before the first edit) and
`BoundAssumption`.

Only model-checked: liveness, which is out of the prover's reach; of the timeline,
`Homes`, `UndoRestores` and `RedoRepeats` (they relate a row to the document it was
recorded on, through every row in between) and `ListedAreLive`, which fails.

## Not modelled

The components with status `not_modelled` are evaluation, codecs, colour, plugins,
interchange, project files and the user interface: numeric code, foreign interfaces,
parsing, formatting and I/O, which make up most of the source lines. A model of them
would either repeat the code or say nothing of it, so the share of lines behind the
models stays small. Tasks, caches and the audio ring have state worth modelling and are
planned.

Inside the modelled parts these are left out: `try_post`, prefetch and the inline
dispatcher of the pipeline (only tests call them, or they answer inside the call); the
auto-cacher (nothing calls its operations; the ids of tickets it keeps can be reaped);
in the pool the graph snapshot; in the slots a failed attach, which `ProcPool` has, the
input pool and frame metadata; in the library names, statistics and the backend
registry; in the timeline transitions, links, the effects copied with a split, markers,
the work area, adding and removing tracks, trims other than the roll, and the commands
the application does not use (track slide, gap insertion, the ripple tool). Failed
spawns are in `ProcPool`; `pool_shutdown` alone combines a fault with a growth of the
pool, and checks its shutdown only.

## Plan

1. `ProcPool` as a second implementation of `RenderTickets`, and `SlotExchange` as a
   refinement of its counted slots.
2. `TaskManager` (tasks, the conform and proxy tables), the caches, the audio ring.
3. Edges of the node graph: cycle rejection, disconnects, dependency copies.
4. Proofs: `Homes` of `Timeline`, up to the first lapse.
