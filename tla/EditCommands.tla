----------------------------- MODULE EditCommands ------------------------------
(* The undoable timeline commands (oak-timeline undosplit.rs, undoripple.rs,
   undogeneral.rs, undopointer.rs) as the application uses them.  A command is a
   record of what it remembers between its redos and undos; redo and undo take the
   command c and the document d, and give both back. *)
EXTENDS Tracks

Both(c, d) == [c |-> c, d |-> d]

--------------------------------------------------------------------------------
(* Closures of setters: trims, slides, slips and re-homes.  Each writes one block,
   with its old value captured when the command was made. *)

Setter(op, b, old, new) == [op |-> op, block |-> b, old |-> old, new |-> new]

Write(d, s, value) ==
    CASE s.op = "length, in stays"  -> SetLengthMediaIn(d, s.block, value)
      [] s.op = "length, out stays" -> SetLengthMediaOut(d, s.block, value)
      [] s.op = "in"                -> SetIn(d, s.block, value)
      [] s.op = "media in"          -> SetMediaIn(d, s.block, value)

Setters(s) == [op |-> "setters", set |-> s]

RedoSetters(c, d) == Both(c, FoldLeft(LAMBDA e, s : Write(e, s, s.new), d, c.set))
UndoSetters(c, d) == Both(c, FoldRight(LAMBDA s, e : Write(e, s, s.old), c.set, d))

--------------------------------------------------------------------------------
(* RemoveNodeCommand of nodeops.rs *)

RemoveNode(b) == [op |-> "remove", block |-> b, entry |-> <<>>]

RedoRemove(c, d) == Both([c EXCEPT !.entry = Entry(d, c.block)], TakeNode(d, c.block))
UndoRemove(c, d) == Both([c EXCEPT !.entry = <<>>], AddEntry(d, c.block, c.entry))

--------------------------------------------------------------------------------
(* BlockSplitCommand *)

Split(b, point) ==
    [op |-> "split", block |-> b, point |-> point, new |-> None, entry |-> <<>>, old |-> 0]

SplitIn(c, d, n) ==
    LET b == c.block
        cut == SetLengthMediaOut(SetLengthMediaIn(d, b, c.point - In(d, b)), n, Out(d, b) - c.point)
    IN Both([c EXCEPT !.new = n, !.entry = <<>>, !.old = Length(d, b)],
            IF n = None THEN d
            ELSE IF TrackOf(d, b) = NoTrack THEN cut
            ELSE InsertBlockAfter(cut, TrackOf(d, b), n, b))

\* prepare copies the block, its track field included, on the first redo
RedoSplit(c, d) ==
    LET Prepared(made) == SplitIn(c, AddEntry(made.d, made.id, c.entry), made.id)
    IN Prepared(IF c.new = None /\ Live(d, c.block) THEN AddNode(d, Node(d, c.block))
                ELSE [d |-> d, id |-> c.new])

UndoSplit(c, d) ==
    LET t == TrackOf(d, c.block)
        e == IF t = NoTrack THEN d
             ELSE RippleRemoveBlock(SetLengthMediaIn(d, c.block, c.old), t, c.new)
    IN Both([c EXCEPT !.entry = Entry(e, c.new)], TakeNode(e, c.new))

--------------------------------------------------------------------------------
(* TrackRippleRemoveAreaCommand *)

RippleRemove(t, i, o, splitGaps) ==
    [op |-> "ripple", track |-> t, in |-> i, out |-> o, splitGaps |-> splitGaps,
     prepared |-> FALSE, trimOut |-> <<>>, removals |-> <<>>, trimIn |-> <<>>,
     prev |-> None, splice |-> <<>>, taken |-> <<>>]

TrimOp(d, b, len) == <<[block |-> b, old |-> Length(d, b), new |-> len]>>
Removal(d, b) == [block |-> b, before |-> PreviousBlock(d, b)]

\* The blocks behind the first one up to the one the scan stops at
Scanned(c, d, first) ==
    LET s == Successors(d, first)
        last == SelectInSeq(s, LAMBDA b :
                    In(d, b) >= c.out \/ Out(d, b) >= c.out \/ TrackOf(d, b) = NoTrack)
    IN IF last = 0 THEN s ELSE SubSeq(s, 1, last)

\* c is cleared; fb is the block at its in point
PrepareFrom(c, d, fb) ==
    LET outTrimmed == In(d, fb) < c.in
        inTrimmed == Out(d, fb) > c.out
        found == [c EXCEPT !.prepared = TRUE, !.prev = IF outTrimmed THEN fb ELSE PreviousBlock(d, fb)]
        Starting(s) == Retain(s, {i \in DOMAIN s : In(d, s[i]) < c.out})
        Ending(s) == Retain(s, {i \in DOMAIN s : Out(d, s[i]) <= c.out})
        Reaching(s) == Retain(s, {i \in DOMAIN s : Out(d, s[i]) > c.out})
        within == Starting(Scanned(c, d, fb))
        removed == (IF outTrimmed THEN <<>> ELSE <<fb>>) \o Ending(within)
        CutByEnd(s) == IF s = <<>> THEN <<>> ELSE TrimOp(d, s[1], Length(d, s[1]) - (c.out - In(d, s[1])))
        Removals(s) == [i \in DOMAIN s |-> Removal(d, s[i])]
        Ops(f) ==
            IF outTrimmed /\ inTrimmed
            THEN IF ~c.splitGaps /\ Kind(d, fb) = "gap"
                 THEN [f EXCEPT !.trimOut = TrimOp(d, fb, Length(d, fb) - (c.out - c.in))]
                 ELSE [f EXCEPT !.splice = <<Split(fb, c.in)>>]
            ELSE IF inTrimmed
            THEN [f EXCEPT !.trimIn = TrimOp(d, fb, Length(d, fb) - (c.out - In(d, fb)))]
            ELSE [f EXCEPT
                    !.trimOut = IF outTrimmed THEN TrimOp(d, fb, Length(d, fb) - (Out(d, fb) - c.in)) ELSE <<>>,
                    !.removals = Removals(removed),
                    !.trimIn = CutByEnd(Reaching(within))]
    IN IF fb = None THEN c ELSE Ops(found)

PrepareRipple(c, d) ==
    PrepareFrom([c EXCEPT !.trimOut = <<>>, !.removals = <<>>, !.trimIn = <<>>, !.prev = None, !.splice = <<>>],
                d, NearestBeforeOrAt(d, c.track, c.in))

\* Both trims, to the new lengths or back to the old ones
Trim(c, d, back) ==
    LET To(o) == IF back THEN o.old ELSE o.new
        cut == FoldLeft(LAMBDA e, o : SetLengthMediaIn(e, o.block, To(o)), d, c.trimOut)
    IN FoldLeft(LAMBDA e, o : SetLengthMediaOut(e, o.block, To(o)), cut, c.trimIn)

\* The splice also trims the second half, from its out point: a second redo starts
\* from the half the first one trimmed
RedoSplice(c, d) ==
    LET Trimmed(e, n) == IF n = None THEN e
                         ELSE SetLengthMediaIn(e, n, Length(e, n) - (c.out - In(e, n)))
        Spliced(r) == Both([c EXCEPT !.splice = <<r.c>>], Trimmed(r.d, r.c.new))
    IN Spliced(RedoSplit(c.splice[1], [d EXCEPT !.lapse = @ \/ c.splice[1].new # None]))

RedoRemovals(c, d) ==
    LET e == FoldLeft(LAMBDA f, o : RippleRemoveBlock(f, c.track, o.block), d, c.removals)
        taken == IF c.taken = <<>> THEN [i \in DOMAIN c.removals |-> RemoveNode(c.removals[i].block)]
                 ELSE c.taken
    IN IF c.removals = <<>> THEN Both(c, d)
       ELSE Both([c EXCEPT !.taken = [i \in DOMAIN taken |-> RedoRemove(taken[i], e).c]],
                 FoldLeft(LAMBDA f, x : TakeNode(f, x.block), e, taken))

RedoPrepared(c, d) ==
    IF c.splice # <<>> THEN RedoSplice(c, d)
    ELSE RedoRemovals(c, Trim(c, d, FALSE))

RedoRipple(c, d) == RedoPrepared(IF c.prepared THEN c ELSE PrepareRipple(c, d), d)

UndoRipple(c, d) ==
    IF c.splice # <<>>
    THEN LET r == UndoSplit(c.splice[1], d) IN Both([c EXCEPT !.splice = <<r.c>>], r.d)
    ELSE LET f == FoldRight(LAMBDA x, g : AddEntry(g, x.block, x.entry), c.taken, Trim(c, d, TRUE))
         IN Both([c EXCEPT !.taken = [i \in DOMAIN @ |-> [@[i] EXCEPT !.entry = <<>>]]],
                 FoldLeft(LAMBDA g, o : InsertBlockAfter(g, c.track, o.block, o.before), f, c.removals))

--------------------------------------------------------------------------------
(* TrackReplaceBlockWithGapCommand *)

\* The in point is captured when the command is made
ReplaceWithGap(d, t, b) ==
    [op |-> "gap", track |-> t, block |-> b, inPoint |-> In(d, b), existing |-> None, merged |-> None,
     precedes |-> FALSE, ours |-> None, oursEntry |-> <<>>, mergedEntry |-> <<>>]

\* A neighbouring gap grows over the block; with gaps on both sides the first takes
\* the second's length too
GrowGap(c, d, prevGap, nextGap) ==
    LET prev == PreviousBlock(d, c.block)
        nxt == NextBlock(d, c.block)
        gap == IF prevGap THEN prev ELSE IF nextGap THEN nxt ELSE c.existing
        both == prevGap /\ nextGap
        e == IF both THEN TakeNode(RippleRemoveBlock(d, c.track, nxt), nxt) ELSE d
        len == Length(d, c.block) + (IF both THEN Length(d, nxt) ELSE 0) + Length(d, gap)
    IN Both([c EXCEPT !.existing = gap, !.precedes = (gap = prev),
                      !.merged = IF both THEN nxt ELSE @,
                      !.mergedEntry = IF both THEN Entry(RippleRemoveBlock(d, c.track, nxt), nxt) ELSE @],
            RippleRemoveBlock(SetLengthMediaIn(e, gap, len), c.track, c.block))

\* The gap is made on the first redo, at the captured in point
SwapInGap(c, d) ==
    LET made == IF c.ours = None
                THEN AddNode(d, Core("gap", c.inPoint, c.inPoint + Length(d, c.block)))
                ELSE [d |-> d, id |-> c.ours]
    IN Both([c EXCEPT !.ours = made.id, !.oursEntry = <<>>],
            ReplaceBlock(AddEntry(made.d, made.id, c.oursEntry), c.track, c.block, made.id))

\* At the end of the track the block goes, and the gap before it with it
DropLast(c, d) ==
    LET prev == PreviousBlock(d, c.block)
        e == RippleRemoveBlock(d, c.track, c.block)
        f == RippleRemoveBlock(e, c.track, prev)
    IN IF Kind(d, prev) # "gap" THEN Both(c, e)
       ELSE Both([c EXCEPT !.merged = prev, !.mergedEntry = Entry(f, prev)], TakeNode(f, prev))

RedoGap(c, d) ==
    LET prevGap == Kind(d, PreviousBlock(d, c.block)) = "gap"
        nextGap == Kind(d, NextBlock(d, c.block)) = "gap"
    IN IF NextBlock(d, c.block) = None THEN DropLast(c, d)
       ELSE IF prevGap \/ nextGap \/ c.existing # None THEN GrowGap(c, d, prevGap, nextGap)
       ELSE SwapInGap(c, d)

\* mutant: the block comes back behind the gap that followed it
ShrinkGapBehind(c, d) ==
    LET merged == c.merged # None
        len == Length(d, c.existing) - Length(d, c.block) - (IF merged THEN Length(d, c.merged) ELSE 0)
        e == IF merged
             THEN [AddEntry(InsertBlockAfter(d, c.track, c.merged, c.existing), c.merged, c.mergedEntry)
                   EXCEPT !.lapse = TRUE]
             ELSE d
        f == InsertBlockAfter(e, c.track, c.block, c.existing)
    IN Both([c EXCEPT !.existing = None, !.merged = None, !.mergedEntry = <<>>],
            SetLengthMediaIn(f, c.existing, len))

\* The merged gap is measured and listed before it is back in the graph: it reads as
\* zero then, and its track is not written
ShrinkGap(c, d) ==
    LET merged == c.merged # None
        len == Length(d, c.existing) - Length(d, c.block) - (IF merged THEN Length(d, c.merged) ELSE 0)
        e == IF merged
             THEN [AddEntry(InsertBlockAfter(d, c.track, c.merged, c.existing), c.merged, c.mergedEntry)
                   EXCEPT !.lapse = TRUE]
             ELSE d
        f == IF c.precedes THEN InsertBlockAfter(e, c.track, c.block, c.existing)
             ELSE InsertBlockBefore(e, c.track, c.block, c.existing)
    IN Both([c EXCEPT !.existing = None, !.merged = None, !.mergedEntry = <<>>],
            SetLengthMediaIn(f, c.existing, len))

SwapOutGap(c, d) ==
    LET e == ReplaceBlock(d, c.track, c.ours, c.block)
    IN Both([c EXCEPT !.oursEntry = IF @ = <<>> THEN Entry(e, c.ours) ELSE @],
            IF c.oursEntry = <<>> THEN TakeNode(e, c.ours) ELSE e)

AppendLast(c, d) ==
    LET e == IF c.merged = None THEN d
             ELSE [AddEntry(AppendBlock(d, c.track, c.merged), c.merged, c.mergedEntry) EXCEPT !.lapse = TRUE]
    IN Both([c EXCEPT !.merged = None, !.mergedEntry = <<>>], AppendBlock(e, c.track, c.block))

UndoGap(c, d) ==
    IF c.ours # None THEN SwapOutGap(c, d)
    ELSE IF c.existing # None THEN ShrinkGap(c, d)
    ELSE AppendLast(c, d)

--------------------------------------------------------------------------------
(* TrackPlaceBlockCommand, on a track of the list *)

Place(t, b, i) ==
    [op |-> "place", track |-> t, block |-> b, in |-> i, gap |-> None, gapEntry |-> <<>>,
     ripple |-> <<>>, oldIn |-> <<>>]

\* Past the end of the track a gap is appended first
PlaceAtEnd(c, d) ==
    LET end == TrackLength(d, c.track)
        made == IF c.gap = None THEN AddNode(d, Core("gap", end, c.in)) ELSE [d |-> d, id |-> c.gap]
        e == AppendBlock(AddEntry(made.d, made.id, c.gapEntry), c.track, made.id)
    IN IF c.in = end THEN Both(c, AppendBlock(d, c.track, c.block))
       ELSE Both([c EXCEPT !.gap = made.id, !.gapEntry = <<>>], AppendBlock(e, c.track, c.block))

\* Over other blocks the area is cleared first.  The clearing is prepared again on
\* every redo: a block it splits gets a second half with another name.
PlaceOver(c, d) ==
    LET ripple == IF c.ripple = <<>>
                  THEN RippleRemove(c.track, c.in, c.in + Length(d, c.block), TRUE)
                  ELSE c.ripple[1]
        e == [d EXCEPT !.lapse = @ \/ ripple.splice # <<>>]
        Placed(r) == Both([c EXCEPT !.ripple = <<r.c>>], InsertBlockAfter(r.d, c.track, c.block, r.c.prev))
    IN Placed(RedoPrepared(PrepareRipple(ripple, d), e))

\* mutant: the block is moved to its place by the first redo only
RedoPlaceMovesOnce(c, d) ==
    LET p == [c EXCEPT !.oldIn = IF @ = <<>> THEN <<In(d, c.block)>> ELSE @]
        e == IF c.oldIn = <<>> THEN SetIn(d, c.block, c.in) ELSE d
    IN IF c.in >= TrackLength(e, c.track) THEN PlaceAtEnd(p, e) ELSE PlaceOver(p, e)

RedoPlace(c, d) ==
    LET p == [c EXCEPT !.oldIn = IF @ = <<>> THEN <<In(d, c.block)>> ELSE @]
        e == SetIn(d, c.block, c.in)
    IN IF c.in >= TrackLength(e, c.track) THEN PlaceAtEnd(p, e) ELSE PlaceOver(p, e)

UndoPlace(c, d) ==
    LET e == SetIn(RippleRemoveBlock(d, c.track, c.block), c.block, c.oldIn[1])
        f == RippleRemoveBlock(e, c.track, c.gap)
    IN IF c.ripple # <<>>
       THEN LET r == UndoRipple(c.ripple[1], e) IN Both([c EXCEPT !.ripple = <<r.c>>], r.d)
       ELSE IF c.gap = None THEN Both(c, e)
       ELSE Both([c EXCEPT !.gapEntry = IF @ = <<>> THEN Entry(f, c.gap) ELSE @],
                 IF c.gapEntry = <<>> THEN TakeNode(f, c.gap) ELSE f)

--------------------------------------------------------------------------------
(* BlockTrimCommand as a roll edit of an out point, the one use of it: the block is
   given its new length with its out point in place, its neighbour the difference
   with its in point in place *)

Roll(d, t, b, len) ==
    LET diff == Length(d, b) - len
        adjacent == NextBlock(d, b)
    IN [op |-> "roll", track |-> t, block |-> b, new |-> len, old |-> Length(d, b), diff |-> diff,
        adjacent |-> adjacent, removes |-> adjacent # None /\ Length(d, adjacent) + diff = 0,
        entry |-> <<>>]

RedoRoll(c, d) ==
    LET e == SetLengthMediaOut(d, c.block, c.new)
        f == RippleRemoveBlock(e, c.track, c.adjacent)
    IN IF c.adjacent = None THEN Both(c, e)
       ELSE IF c.removes THEN Both([c EXCEPT !.entry = Entry(f, c.adjacent)], TakeNode(f, c.adjacent))
       ELSE Both(c, SetLengthMediaIn(e, c.adjacent, Length(e, c.adjacent) + c.diff))

UndoRoll(c, d) ==
    LET e == IF c.adjacent = None THEN d
             ELSE IF c.removes
             THEN InsertBlockAfter(AddEntry(d, c.adjacent, c.entry), c.track, c.adjacent, c.block)
             ELSE SetLengthMediaIn(d, c.adjacent, Length(d, c.adjacent) - c.diff)
    IN Both([c EXCEPT !.entry = <<>>], SetLengthMediaOut(e, c.block, c.old))

--------------------------------------------------------------------------------
(* A history row: its children run in order, and are undone in reverse *)

Redo1(c, d) ==
    CASE c.op = "setters" -> RedoSetters(c, d) [] c.op = "remove" -> RedoRemove(c, d)
      [] c.op = "split" -> RedoSplit(c, d)     [] c.op = "ripple" -> RedoRipple(c, d)
      [] c.op = "gap" -> RedoGap(c, d)         [] c.op = "place" -> RedoPlace(c, d)
      [] c.op = "roll" -> RedoRoll(c, d)

Undo1(c, d) ==
    CASE c.op = "setters" -> UndoSetters(c, d) [] c.op = "remove" -> UndoRemove(c, d)
      [] c.op = "split" -> UndoSplit(c, d)     [] c.op = "ripple" -> UndoRipple(c, d)
      [] c.op = "gap" -> UndoGap(c, d)         [] c.op = "place" -> UndoPlace(c, d)
      [] c.op = "roll" -> UndoRoll(c, d)

RedoAll(row, d) ==
    LET Child(acc, r) == [c |-> Append(acc.c, r.c), d |-> r.d]
    IN FoldLeft(LAMBDA acc, c : Child(acc, Redo1(c, acc.d)), Both(<<>>, d), row)

UndoAll(row, d) ==
    LET Child(acc, r) == [c |-> <<r.c>> \o acc.c, d |-> r.d]
    IN FoldRight(LAMBDA c, acc : Child(acc, Undo1(c, acc.d)), row, Both(<<>>, d))

================================================================================
