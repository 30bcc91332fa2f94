-------------------------------- MODULE Tracks ---------------------------------
(* Blocks on tracks: the part of the node graph the timeline commands work on
   (oak-node block.rs, track.rs and the arena of graph.rs, through the helpers of
   oak-timeline util.rs).

   A document d holds the arena of block nodes and, per track, the list of its
   blocks.  A block's place on the timeline is stored on the block, so list order
   and positions can disagree.  A node is named by its slot and the generation the
   slot had; a name whose slot is vacant or has another generation is stale, reads
   as zero and is not written.  lapse is there for the properties: it records that
   a name was lost, a range turned round, a node read that was not in the graph or a
   splice trimmed twice, after which the history does not bring back what was there.
   Times are frame numbers.  Blocks are clips and gaps;
   effects, links and transitions are left out. *)
EXTENDS Integers, SequencesExt, FiniteSetsExt

CONSTANT Track  \* the tracks of the list
ASSUME TrackAssumption == IsFiniteSet(Track) /\ "none" \notin Track

None == <<0, 0>>
NoTrack == "none"
Name == Nat \X Nat

\* One block core: range, media_in and the owning track
BlockCore ==
    [kind : {"clip", "gap"}, in : Int, out : Int, media_in : Int, track : Track \cup {NoTrack}]
Core(kind, i, o) == [kind |-> kind, in |-> i, out |-> o, media_in |-> 0, track |-> NoTrack]

Document ==
    [entries : Seq([gen : Nat, vacant : BOOLEAN, core : BlockCore]), free : Seq(Nat),
     order : [Track -> Seq(Name)], lapse : BOOLEAN]

\* The elements of s at the indices in keep, in their order, as Vec::retain leaves them.
\* A recursive function stands for SelectSeq, which the provers cannot expand.
Retain(s, keep) ==
    LET kept[i \in 0..Len(s)] ==
            IF i = 0 THEN <<>> ELSE IF i \in keep THEN Append(kept[i - 1], s[i]) ELSE kept[i - 1]
    IN kept[Len(s)]
Without(s, x) == Retain(s, {i \in DOMAIN s : s[i] # x})

--------------------------------------------------------------------------------
(* The arena: add_node, take_node and add_entry of Graph *)

Slot(b) == b[1]
Gen(b) == b[2]

Live(d, b) ==
    /\ Slot(b) \in DOMAIN d.entries
    /\ ~d.entries[Slot(b)].vacant /\ d.entries[Slot(b)].gen = Gen(b)

Node(d, b) == d.entries[Slot(b)].core

\* A new node takes the slot freed last, with the next generation
AddNode(d, core) ==
    IF d.free = <<>>
    THEN [d |-> [d EXCEPT !.entries = Append(@, [gen |-> 0, vacant |-> FALSE, core |-> core])],
          id |-> <<Len(d.entries) + 1, 0>>]
    ELSE LET s == Last(d.free)
             g == d.entries[s].gen + 1
         IN [d |-> [d EXCEPT !.free = Front(@),
                             !.entries[s] = [gen |-> g, vacant |-> FALSE, core |-> core]],
             id |-> <<s, g>>]

\* What a command keeps of a node it detached: <<>> is none
Entry(d, b) == IF Live(d, b) THEN <<Node(d, b)>> ELSE <<>>

TakeNode(d, b) ==
    IF ~Live(d, b) THEN d
    ELSE [d EXCEPT !.entries[Slot(b)] = [gen |-> Gen(b), vacant |-> TRUE, core |-> Core("gap", 0, 0)],
                   !.free = Append(@, Slot(b))]

\* mutant: the slot of a node that came back stays on the free list
AddEntryKeepsFree(d, b, entry) ==
    IF entry = <<>> THEN d
    ELSE IF d.entries[Slot(b)].vacant
    THEN [d EXCEPT !.entries[Slot(b)] = [gen |-> Gen(b), vacant |-> FALSE, core |-> entry[1]]]
    ELSE [AddNode(d, entry[1]).d EXCEPT !.lapse = TRUE]

\* A detached node comes back under its name if its slot is vacant.  Otherwise it
\* gets another name, which no caller looks at.
AddEntry(d, b, entry) ==
    IF entry = <<>> THEN d
    ELSE IF d.entries[Slot(b)].vacant
    THEN [d EXCEPT !.entries[Slot(b)] = [gen |-> Gen(b), vacant |-> FALSE, core |-> entry[1]],
                   !.free = Without(@, Slot(b))]
    ELSE [AddNode(d, entry[1]).d EXCEPT !.lapse = TRUE]

--------------------------------------------------------------------------------
(* Reading and writing a block *)

In(d, b) == IF Live(d, b) THEN Node(d, b).in ELSE 0
Out(d, b) == IF Live(d, b) THEN Node(d, b).out ELSE 0
Length(d, b) == Out(d, b) - In(d, b)
Kind(d, b) == IF Live(d, b) THEN Node(d, b).kind ELSE "other"
TrackOf(d, b) == IF Live(d, b) THEN Node(d, b).track ELSE NoTrack

SetCore(d, b, core) == IF Live(d, b) THEN [d EXCEPT !.entries[Slot(b)].core = core] ELSE d

\* TimeRange::new swaps ends that are the wrong way round
SetRange(d, b, i, o) ==
    [SetCore(d, b, [Node(d, b) EXCEPT !.in = IF o < i THEN o ELSE i, !.out = IF o < i THEN i ELSE o])
     EXCEPT !.lapse = @ \/ o < i]

SetIn(d, b, t) == SetRange(d, b, t, t + Length(d, b))

SetMediaIn(d, b, t) == SetCore(d, b, [Node(d, b) EXCEPT !.media_in = t])

\* The in point stays
SetLengthMediaIn(d, b, len) == SetRange(d, b, In(d, b), In(d, b) + len)

\* The out point stays, the media in point becomes the new in point
SetLengthMediaOut(d, b, len) ==
    LET e == SetRange(d, b, Out(d, b) - len, Out(d, b)) IN SetMediaIn(e, b, In(e, b))

SetTrack(d, b, t) == SetCore(d, b, [Node(d, b) EXCEPT !.track = t])

--------------------------------------------------------------------------------
(* The list of a track *)

Index(d, t, b) == SelectInSeq(d.order[t], LAMBDA x : x = b)

PreviousBlock(d, b) ==
    LET t == TrackOf(d, b) IN
    IF t = NoTrack \/ Index(d, t, b) < 2 THEN None ELSE d.order[t][Index(d, t, b) - 1]

\* The blocks behind b on its track
Successors(d, b) ==
    LET t == TrackOf(d, b) IN
    IF t = NoTrack \/ Index(d, t, b) = 0 THEN <<>>
    ELSE SubSeq(d.order[t], Index(d, t, b) + 1, Len(d.order[t]))

NextBlock(d, b) == IF Successors(d, b) = <<>> THEN None ELSE Head(Successors(d, b))

TrackLength(d, t) == Max({0} \cup {Out(d, b) : b \in ToSet(d.order[t])})

\* The block at the time, else the last one that ends before it
NearestBeforeOrAt(d, t, time) ==
    LET at == SelectInSeq(d.order[t], LAMBDA b : In(d, b) <= time /\ Out(d, b) > time)
        before == SelectLastInSeq(d.order[t], LAMBDA b : Out(d, b) <= time)
        stale == SelectInSeq(d.order[t], LAMBDA b : ~Live(d, b))
    IN IF stale # 0 /\ (at = 0 \/ stale < at) THEN None
       ELSE IF at # 0 THEN d.order[t][at]
       ELSE IF before # 0 THEN d.order[t][before] ELSE None

InsertBlock(d, t, i, b) == SetTrack([d EXCEPT !.order[t] = InsertAt(@, i, b)], b, t)

AppendBlock(d, t, b) == InsertBlock(d, t, Len(d.order[t]) + 1, b)

\* In front without a predecessor; nothing when the predecessor is not on the track
InsertBlockAfter(d, t, b, before) ==
    IF before = None THEN InsertBlock(d, t, 1, b)
    ELSE IF Index(d, t, before) = 0 THEN d
    ELSE InsertBlock(d, t, Index(d, t, before) + 1, b)

InsertBlockBefore(d, t, b, after) ==
    IF Index(d, t, after) = 0 THEN d ELSE InsertBlock(d, t, Index(d, t, after), b)

\* mutant: the block removed still names its track
RippleRemoveKeepsTrack(d, t, b) ==
    IF Index(d, t, b) = 0 THEN d ELSE [d EXCEPT !.order[t] = Without(@, b)]

\* Only the membership goes: later blocks keep their stored positions
RippleRemoveBlock(d, t, b) ==
    IF Index(d, t, b) = 0 THEN d
    ELSE SetTrack([d EXCEPT !.order[t] = Without(@, b)], b, NoTrack)

ReplaceBlock(d, t, old, new) ==
    IF Index(d, t, old) = 0 THEN d
    ELSE SetTrack(SetTrack([d EXCEPT !.order[t] = ReplaceAt(@, Index(d, t, old), new)], old, NoTrack),
                  new, t)

================================================================================
