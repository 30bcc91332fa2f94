------------------------------ MODULE MCScheduler ------------------------------
\* Frames of two sequences: an urgent and a window request for the same key, a
\* window request of the other shard that needs a larger slot, a nearer one of
\* the second sequence, and background work.
EXTENDS ClaimLoop

KeyOf(s, f) == [sequence |-> s, frame |-> f, version |-> 0]
MCKey == {KeyOf(1, 0), KeyOf(1, 1), KeyOf(2, 3)}
Job(k, p, d, b) == [key |-> k, priority |-> p, distance |-> d, slot_bytes |-> b]
MCJobs == {Job(KeyOf(1, 0), Seek, 0, 1), Job(KeyOf(1, 0), Playback, 1, 1),
           Job(KeyOf(1, 1), Playback, 1, 2), Job(KeyOf(2, 3), Playback, 0, 1),
           Job(KeyOf(2, 3), Background, 0, 1)}
================================================================================
