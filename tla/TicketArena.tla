------------------------------ MODULE TicketArena ------------------------------
(* The ticket arena (oak-render, ticket.rs): the slots of the submitted tickets and
   the map the callers look them up in.  A slot is shared by the map, the job and
   the thread that answers it, so it outlives its entry in the map.

   Every operator is one critical section of the code and says what it does to the
   slots; the threads that run them are in Pipeline. *)
EXTENDS Naturals, FiniteSets

CONSTANT MaxTickets  \* bound on submissions
ASSUME MaxTicketsAssumption == MaxTickets \in Nat

VARIABLES
    slot,   \* the slot of every ticket
    arena,  \* TicketArena.slots: the tickets that can be looked up
    next    \* TicketArena.next
arenaVars == <<slot, arena, next>>

Ticket == 1..MaxTickets
None == 0

Unused == [state |-> "none", cancel |-> FALSE, result |-> "none", calls |-> 0, poll_after |-> FALSE]

ArenaTypeOK ==
    /\ slot \in [Ticket -> [state: {"none", "running", "finished"}, cancel: BOOLEAN,
                            result: {"none", "outcome", "state"},
                            calls: Nat, poll_after: BOOLEAN]]
    /\ arena \subseteq Ticket
    /\ next \in 1..(MaxTickets + 1)

ArenaInit ==
    /\ slot = [t \in Ticket |-> Unused]
    /\ arena = {}
    /\ next = 1

Running(t) == slot[t].state = "running"
Finished(t) == slot[t].state = "finished"

\* mutant: the answered tickets of the sync path are reaped too
ReapedPolledToo(t) == Finished(t)

\* Fire-and-forget tickets leave the map at the first submission after their answer
Reaped(t) == Finished(t) /\ ~slot[t].poll_after

\* next_id, then allocate
Allocate(poll) ==
    /\ next <= MaxTickets
    /\ slot' = [slot EXCEPT ![next] = [Unused EXCEPT !.state = "running", !.poll_after = poll]]
    /\ arena' = {t \in arena : ~Reaped(t)} \cup {next}
    /\ next' = next + 1

\* mutant: the flag of a cancelled ticket is not looked at
OutcomeOfRender(t, r) == r

\* finish reads the cancel flag first
Outcome(t, r) == IF slot[t].cancel THEN "state" ELSE r

\* The rest of finish: publish under the state lock, then call the completion once
Publish(t, r) ==
    /\ slot' = IF Running(t)
               THEN [slot EXCEPT ![t].state = "finished", ![t].result = r,
                                 ![t].calls = @ + 1, ![t].cancel = FALSE]
               ELSE slot
    /\ UNCHANGED <<arena, next>>

\* Unknown ids are ignored; nothing reads the flag of a finished ticket
Cancel(ids) ==
    /\ slot' = [t \in Ticket |-> IF t \in ids \cap arena /\ Running(t) THEN
                                   [slot[t] EXCEPT !.cancel = TRUE] ELSE slot[t]]
    /\ UNCHANGED <<arena, next>>

\* result: the terminal read removes the entry
TakeResult(t) ==
    /\ arena' = arena \ {t}
    /\ UNCHANGED <<slot, next>>
================================================================================
