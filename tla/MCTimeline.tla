------------------------------ MODULE MCTimeline -------------------------------
(* Two tracks; the first has a clip, and another one right behind it or behind a
   gap. *)
EXTENDS Timeline

MCTrack == {"V1", "V2"}

Live1(b) == [gen |-> 0, vacant |-> FALSE, core |-> [b EXCEPT !.track = "V1"]]
OnV1(blocks) ==
    [entries |-> [i \in DOMAIN blocks |-> Live1(blocks[i])], free |-> <<>>, lapse |-> FALSE,
     order |-> [t \in MCTrack |-> IF t = "V1" THEN [i \in DOMAIN blocks |-> <<i, 0>>] ELSE <<>>]]

MCLoaded ==
    {OnV1(<<Core("clip", 0, 3), Core("clip", 3, 4)>>),
     OnV1(<<Core("clip", 0, 1), Core("gap", 1, 2), Core("clip", 2, 3)>>)}

================================================================================
