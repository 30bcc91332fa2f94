--------------------------------- MODULE MCPool ---------------------------------
\* A seek and the playback frames of both shards; the first playback frame shares
\* its key with the seek.  A large job needs a grown segment.
EXTENDS ProcPool

KeyOf(s, f) == [sequence |-> s, frame |-> f, version |-> 0]
Job(k, p, b) == [key |-> k, priority |-> p, slot_bytes |-> b]
MCKey == {KeyOf(1, 0), KeyOf(1, 1)}
SeekJob == Job(KeyOf(1, 0), Seek, 1)
EvenJob == Job(KeyOf(1, 0), Playback, 1)
OddJob == Job(KeyOf(1, 1), Playback, 1)
LargeJob == Job(KeyOf(1, 1), Playback, 2)
TwoJobs == {SeekJob, OddJob}
MixedJobs == {SeekJob, EvenJob, LargeJob}
SeekOnly == {SeekJob}
================================================================================
