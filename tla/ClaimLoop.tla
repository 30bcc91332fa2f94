------------------------------- MODULE ClaimLoop -------------------------------
(***************************************************************************)
(* The loop of PreviewScheduler::claim_batch as the code writes it (sort,  *)
(* walk, break, skip), compared with the rule Batches in every state the   *)
(* scheduler reaches.                                                      *)
(***************************************************************************)
EXTENDS SchedulerUse

\* The orders sort_by may leave the entries in: ties keep the order of the pending
\* vector, which is a set here, so they may come out either way.
Walks(entries) ==
    {walk \in [1..Cardinality(entries) -> entries] :
        \A i, j \in 1..Cardinality(entries) :
            i < j => walk[i] # walk[j] /\ ~MoreUrgent(walk[j].request, walk[i].request)}

\* Mutant: the reserve is compared one slot too late.
LoopStepNoReserve(taken, e, cap, credit) ==
    IF Cardinality(taken) >= cap THEN taken
    ELSE IF e.request.priority # Seek /\ Cardinality(taken) >= credit THEN taken
    ELSE taken \cup {e}

\* One iteration: stop at the cap, skip what would use the reserve.
LoopStep(taken, e, cap, credit) ==
    IF Cardinality(taken) >= cap THEN taken
    ELSE IF e.request.priority # Seek /\ Cardinality(taken) + 1 >= credit THEN taken
    ELSE taken \cup {e}

\* What the loop took of the first n entries of a walk, for every n
LoopTakes(walk, n, credit) ==
    LET taken[i \in 0..n] ==
            IF i = 0 THEN {} ELSE LoopStep(taken[i - 1], walk[i], Smaller(batch_size, credit), credit)
    IN taken

--------------------------------------------------------------------------------
\* The loop of claim_batch (sort, break at the cap, skip what would take the
\* reserve) forms exactly a batch that the claim rule allows: the most urgent
\* requests, at most min(batch size, credit) of them and, beyond the seeks, at
\* most credit - 1.
LoopFormsBatch ==
    \A worker \in 0..(MaxWorkers - 1), credit \in 1..MaxCredit, bytes \in Sizes :
        LET entries == Eligible(worker, bytes)
            n == Cardinality(entries)
        IN  worker < workers =>
              \A walk \in Walks(entries) :
                LET batch == LoopTakes(walk, n, credit)[n]
                IN  IF batch = {} THEN Batches(worker, credit, bytes) = {}
                    ELSE batch \in Batches(worker, credit, bytes)

================================================================================
