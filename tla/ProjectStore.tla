------------------------------ MODULE ProjectStore ------------------------------
(* What the project library promises.  `asked` is what the callers want each row to
   hold, and only they change it; `stored` is what a load of the row returns.  A save
   stores exactly the project it is called with and the settings of that project, a
   copy holds what its source holds, and a step that nobody asked for changes
   nothing that a load returns. *)
CONSTANTS Uuid, State, Settings, NoProject
VARIABLES asked, stored

vars == <<asked, stored>>

Entry(s) == [project |-> s, settings |-> s[Settings]]

Init ==
    /\ asked = [u \in Uuid |-> NoProject]
    /\ stored = [u \in Uuid |-> NoProject]

Save(u, s) ==
    /\ asked' = [asked EXCEPT ![u] = s]
    /\ stored' = [stored EXCEPT ![u] = Entry(s)]

Delete(u) ==
    /\ stored[u] # NoProject
    /\ asked' = [asked EXCEPT ![u] = NoProject]
    /\ stored' = [stored EXCEPT ![u] = NoProject]

Duplicate(u, v) ==
    /\ stored[u] # NoProject
    /\ stored[v] = NoProject
    /\ asked' = [asked EXCEPT ![v] = asked[u]]
    /\ stored' = [stored EXCEPT ![v] = stored[u]]

Next ==
    \E u \in Uuid :
        \/ \E s \in State : Save(u, s)
        \/ Delete(u)
        \/ \E v \in Uuid : Duplicate(u, v)

Spec == Init /\ [][Next]_vars
================================================================================
