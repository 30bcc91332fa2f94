------------------------------- MODULE Timeline --------------------------------
(* Editing a timeline: the clip operations of the application (oak-app graphops.rs)
   push rows of timeline commands on the undo history and the user walks it.  The
   history's own limits and groups are in UndoStack. *)
EXTENDS EditCommands

CONSTANTS
    Loaded,       \* the documents a project may be loaded with
    MaxTime,      \* the last frame an edit names
    MaxClip,      \* the length of the longest clip added
    MaxEdits,     \* bound on the edits made
    MaxRedos      \* bound on the redos

\* A project is read into a new arena, which has no slot to reuse.
ASSUME LoadedAssumption ==
    /\ Loaded \subseteq Document
    /\ \A d \in Loaded : d.free = <<>> /\ \A s \in DOMAIN d.entries : ~d.entries[s].vacant
ASSUME BoundAssumption == MaxTime \in Nat /\ MaxClip \in Nat

VARIABLES
    doc,     \* the tracks and their blocks
    done,    \* the rows that can be undone, the last one on top
    undone,  \* the rows that can be redone, the next one on top
    edits,   \* how many rows were pushed,
    redos    \* and redone: only the bounds read them
vars == <<doc, done, undone, edits, redos>>

Time == 0..MaxTime

Listed(d) == UNION {ToSet(d.order[t]) : t \in Track}

\* What the user sees: the blocks of every track with their kinds and positions
Layout(d) ==
    [t \in Track |-> [i \in DOMAIN d.order[t] |->
        LET b == d.order[t][i]
        IN [block |-> b, kind |-> Kind(d, b), in |-> In(d, b), out |-> Out(d, b), track |-> TrackOf(d, b)]]]

\* The clips on the tracks, each with the track it names as its own
Clips == {b \in Listed(doc) : Kind(doc, b) = "clip" /\ TrackOf(doc, b) # NoTrack}

Init == doc \in Loaded /\ done = <<>> /\ undone = <<>> /\ edits = 0 /\ redos = 0

--------------------------------------------------------------------------------
(* The history.  found and left, the layouts before and after a row last ran, are
   there for the properties. *)

\* r is what running a row on document d gives
Ran(r, d) ==
    doc' = r.d /\ done' = Append(done, [row |-> r.c, found |-> Layout(d), left |-> Layout(r.d)])

\* push runs the row on document d and drops what could be redone
Push(row, d) ==
    /\ edits < MaxEdits /\ edits' = edits + 1 /\ UNCHANGED redos
    /\ Ran(RedoAll(row, d), d)
    /\ undone' = <<>>

Undone(r) == doc' = r.d /\ undone' = Append(undone, [Last(done) EXCEPT !.row = r.c])

Undo ==
    /\ done # <<>>
    /\ Undone(UndoAll(Last(done).row, doc))
    /\ done' = Front(done) /\ UNCHANGED <<edits, redos>>

Redo ==
    /\ undone # <<>> /\ redos < MaxRedos /\ redos' = redos + 1
    /\ Ran(RedoAll(Last(undone).row, doc), doc)
    /\ undone' = Front(undone) /\ UNCHANGED edits

--------------------------------------------------------------------------------
(* The operations *)

\* place_generator_clip and its like: the clip's node is made before the row, which
\* only places it
AddClip(t, i, len) ==
    LET made == AddNode(doc, Core("clip", 0, len))
    IN Push(<<Place(t, made.id, i)>>, made.d)

SplitClip(b, point) ==
    /\ In(doc, b) < point /\ point < Out(doc, b)
    /\ Push(<<Split(b, point)>>, doc)

TrimClip(b, i, o) ==
    LET in == In(doc, b)
        out == Out(doc, b)
        trimIn == Setter("length, out stays", b, out - in, out - i)
        trimOut == Setter("length, in stays", b, out - i, o - i)
    IN /\ i < o /\ (i # in \/ o # out)
       /\ Push(<<Setters((IF i = in THEN <<>> ELSE <<trimIn>>) \o (IF o = out THEN <<>> ELSE <<trimOut>>))>>,
               doc)

\* The tail follows the trimmed edge, also past the clip's other end
RippleTrimClip(b, start, new) ==
    LET in == In(doc, b)
        out == Out(doc, b)
        delta == IF start THEN new - in ELSE new - out
        trim == IF start THEN Setter("length, out stays", b, out - in, out - new)
                ELSE Setter("length, in stays", b, out - in, new - in)
        tail == Successors(doc, b)
    IN /\ delta # 0
       /\ Push(<<Setters(<<trim>> \o [i \in DOMAIN tail |->
                   Setter("in", tail[i], In(doc, tail[i]), In(doc, tail[i]) + delta)])>>, doc)

RollEdit(a, b, new) ==
    /\ Out(doc, a) = In(doc, b) /\ In(doc, a) < new /\ new < Out(doc, b) /\ new # Out(doc, a)
    /\ Push(<<Roll(doc, TrackOf(doc, a), a, new - In(doc, a))>>, doc)

\* A neighbour that would be left without length is left alone
SlideClip(b, new) ==
    LET delta == new - In(doc, b)
        left == PreviousBlock(doc, b)
        right == NextBlock(doc, b)
        slide == Setter("in", b, In(doc, b), new)
        grow == Setter("length, in stays", left, Length(doc, left), Length(doc, left) + delta)
        shrink == Setter("length, out stays", right, Length(doc, right), Length(doc, right) - delta)
    IN /\ delta # 0
       /\ Push(<<Setters(<<slide>>
                 \o (IF left # None /\ new > In(doc, left) THEN <<grow>> ELSE <<>>)
                 \o (IF right # None /\ new + Length(doc, b) < Out(doc, right) THEN <<shrink>> ELSE <<>>))>>,
               doc)

SlipClip(b, new) ==
    /\ new # Node(doc, b).media_in
    /\ Push(<<Setters(<<Setter("media in", b, Node(doc, b).media_in, new)>>)>>, doc)

\* On its own track the clip is re-homed before its place becomes a gap, on another
\* one after that
MoveClip(b, t, new) ==
    LET from == TrackOf(doc, b)
        gap == ReplaceWithGap(doc, from, b)
        home == Setters(<<Setter("in", b, In(doc, b), new)>>)
        place == Place(t, b, new)
    IN Push(IF t = from THEN <<home, gap, place>> ELSE <<gap, home, place>>, doc)

DeleteClip(b) == Push(<<ReplaceWithGap(doc, TrackOf(doc, b), b), RemoveNode(b)>>, doc)

RippleDeleteClip(b) ==
    Push(<<RippleRemove(TrackOf(doc, b), In(doc, b), Out(doc, b), FALSE)>>, doc)

Next ==
    \/ \E t \in Track, i \in Time, len \in 1..MaxClip : AddClip(t, i, len)
    \/ \E b \in Clips, p \in Time : SplitClip(b, p)
    \/ \E b \in Clips, i \in Time : TrimClip(b, i, Out(doc, b))
    \/ \E b \in Clips, o \in Time : TrimClip(b, In(doc, b), o)
    \/ \E b \in Clips, start \in BOOLEAN, new \in Time : RippleTrimClip(b, start, new)
    \/ \E a, b \in Clips, new \in Time : RollEdit(a, b, new)
    \/ \E b \in Clips, new \in Time : SlideClip(b, new)
    \/ \E b \in Clips, new \in Time : SlipClip(b, new)
    \/ \E b \in Clips, t \in Track, new \in Time : MoveClip(b, t, new)
    \/ \E b \in Clips : DeleteClip(b)
    \/ \E b \in Clips : RippleDeleteClip(b)
    \/ Undo
    \/ Redo

Spec == Init /\ [][Next]_vars

--------------------------------------------------------------------------------

\* The free list names every vacant slot of the arena once and no occupied one, so no
\* new node overwrites one that an undo brought back.
ArenaSound ==
    /\ ToSet(doc.free) = {s \in DOMAIN doc.entries : doc.entries[s].vacant}
    /\ Len(doc.free) = Cardinality(ToSet(doc.free))

\* The two records of where a block is agree through every edit, undo and redo: a
\* track lists exactly the blocks in the graph that name it as their track, each
\* once.  Only after a lapse may they differ.
Homes == doc.lapse \/ \A t \in Track :
    /\ Cardinality(ToSet(doc.order[t])) = Len(doc.order[t])
    /\ ToSet(doc.order[t]) =
         {b \in {<<s, doc.entries[s].gen>> : s \in DOMAIN doc.entries} : TrackOf(doc, b) = t}

\* Every block on a track is in the graph: a removed node is re-inserted,
\* "identity-preserving", when its row is undone.
ListedAreLive == \A b \in Listed(doc) : Live(doc, b)

\* Undoing a row, of several commands that clear, split and replace one another's
\* blocks, brings back the blocks, positions and tracks that were there before it
\* ran, unless there was a lapse.
UndoRestores ==
    [][Len(done') < Len(done) /\ ~doc'.lapse => Layout(doc)' = Last(done).found]_vars

Shape(layout) == [t \in Track |-> [i \in DOMAIN layout[t] |->
                    <<layout[t][i].kind, layout[t][i].in, layout[t][i].out>>]]

\* Redoing a row gives the timeline the shape it had when the row ran before, unless
\* there was a lapse: what a command remembers from its first run still fits.
RedoRepeats ==
    [][redos' > redos /\ ~doc'.lapse => Shape(Layout(doc)') = Shape(Last(undone).left)]_vars

================================================================================
