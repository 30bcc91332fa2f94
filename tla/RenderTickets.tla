----------------------------- MODULE RenderTickets -----------------------------
(* What a render ticket promises its submitter: one answer, delivered once.  A
   cancelled ticket is answered with Error::State, a live one with the outcome of
   its render, and with Error::State only once the backend is going down. *)
CONSTANTS Ticket
VARIABLES
    status,  \* none, open, cancelled, or the answer
    calls,   \* how often the completion was called
    down     \* the backend is going down

\* The outcome of the render, a frame or an error, or Error::State
Answers == {"outcome", "state"}

Init ==
    /\ status = [t \in Ticket |-> "none"]
    /\ calls = [t \in Ticket |-> 0]
    /\ down = FALSE

Become(t, s) == status' = [status EXCEPT ![t] = s] /\ UNCHANGED <<calls, down>>

Submit(t) == status[t] = "none" /\ Become(t, "open")

Cancel(t) == status[t] = "open" /\ Become(t, "cancelled")

CancelAll ==
    /\ status' = [t \in Ticket |-> IF status[t] = "open" THEN "cancelled" ELSE status[t]]
    /\ UNCHANGED <<calls, down>>

Answer(t) ==
    \/ status[t] = "open" /\ Become(t, "outcome")
    \/ status[t] = "cancelled" /\ Become(t, "state")
    \/ status[t] = "open" /\ down /\ Become(t, "state")

Deliver(t) ==
    /\ status[t] \in Answers /\ calls[t] = 0
    /\ calls' = [calls EXCEPT ![t] = 1]
    /\ UNCHANGED <<status, down>>

GoDown == ~down /\ down' = TRUE /\ UNCHANGED <<status, calls>>

Next ==
    \/ \E t \in Ticket : Submit(t) \/ Cancel(t) \/ Answer(t) \/ Deliver(t)
    \/ CancelAll
    \/ GoDown

Spec == Init /\ [][Next]_<<status, calls, down>>
================================================================================
