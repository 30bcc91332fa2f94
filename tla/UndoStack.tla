------------------------------- MODULE UndoStack -------------------------------
(***************************************************************************)
(* The process-wide undo history of crates/oak-undo: the stack of done and *)
(* undone commands (undostack.rs), the composite and pre-executed commands *)
(* with their `done' flags (undocommand.rs) and the undo group and command *)
(* observers around it (global.rs).                                        *)
(*                                                                         *)
(* The document a command edits is abstracted to a version token.  The     *)
(* first redo of an edit moves the document from the version `before' to   *)
(* a fresh version `after'; a later undo is only meaningful on `after' and *)
(* a later redo only on `before'.  An undo or redo that runs on any other  *)
(* version leaves the document in the version Corrupt.  An edit that is    *)
(* not part of a composite command is a composite of one child here.       *)
(*                                                                         *)
(* All callers run on the UI thread (oak-app's graphops and effectchain),  *)
(* so the interleaving is that of whole calls; a jump is split into the    *)
(* iterations of its loops, during which the stack's mutex is held.        *)
(***************************************************************************)
EXTENDS Integers, Sequences

CONSTANTS
    K_MAX_UNDO_COMMANDS,  \* cap on the rows of the done stack (200 in the code)
    MaxVersions,          \* bound: number of edits ever executed
    MaxKids               \* bound: children of one composite command

ASSUME UndoAssumption ==
    /\ K_MAX_UNDO_COMMANDS \in Nat \ {0}
    /\ MaxVersions \in Nat
    /\ MaxKids \in Nat

VARIABLES
    commands,  \* done rows, oldest first
    undone,    \* undone rows, most recently undone first
    group,     \* the open undo group, if any
    doc,       \* version of the document the commands edit
    version,   \* last version handed out
    saved,     \* version the command observers last saw (write-through)
    target     \* index a running jump is heading for, or NoJump

vars == <<commands, undone, group, doc, version, saved, target>>

Corrupt == -1
NoJump == -1

Version == Nat \cup {Corrupt}
Edit == [before : Nat, after : Nat]   \* only made on a sound document
Command == [empty : BOOLEAN, done : BOOLEAN, kidsDone : BOOLEAN, kids : Seq(Edit)]

--------------------------------------------------------------------------------
(* Commands                                                                *)

\* n fresh edits, each made on the document the previous one leaves behind.
FreshEdits(n) ==
    [j \in 1..n |-> [before |-> IF j = 1 THEN doc ELSE version + j - 1,
                     after |-> version + j]]

EmptyCommand == [empty |-> TRUE, done |-> FALSE, kidsDone |-> FALSE, kids |-> <<>>]

Chained(kids) == \A j \in 1..(Len(kids) - 1) : kids[j].after = kids[j + 1].before

\* The document after the children run in order from version d.
RedoKids(d, kids) ==
    IF kids = <<>> THEN d
    ELSE IF Chained(kids) /\ d = kids[1].before THEN kids[Len(kids)].after ELSE Corrupt

\* The document after the children are reverted in reverse order from version d.
UndoKids(d, kids) ==
    IF kids = <<>> THEN d
    ELSE IF Chained(kids) /\ d = kids[Len(kids)].after THEN kids[1].before ELSE Corrupt

\* redo_now and undo_now do nothing when the flag already says so, at the level
\* of the command and of its children.
RedoEffect(d, c) == IF c.done \/ c.kidsDone THEN d ELSE RedoKids(d, c.kids)
UndoEffect(d, c) == IF c.done /\ c.kidsDone THEN UndoKids(d, c.kids) ELSE d

MarkDone(c) == [c EXCEPT !.done = TRUE, !.kidsDone = TRUE]
MarkUndone(c) == [c EXCEPT !.done = FALSE, !.kidsDone = IF c.done THEN FALSE ELSE @]

\* Mutant: the flag of a pre-executed command is forgotten.
SetDoneForgotten(c) == c

\* An already-executed command joins the stack: only its own flag is set.
SetDone(c) == [c EXCEPT !.done = TRUE]

--------------------------------------------------------------------------------
(* The stack                                                               *)

\* Mutant: the bottom row is recognised by its position.
CanUndoByPosition == Len(commands) > 1

CanUndo == commands # <<>> /\ ~commands[Len(commands)].empty
CanRedo == undone # <<>>

\* Row appended at the top, oldest row evicted beyond the cap.
Record(c) ==
    LET grown == Append(commands, c)
    IN  IF Len(grown) > K_MAX_UNDO_COMMANDS THEN Tail(grown) ELSE grown

Init ==
    /\ commands = <<EmptyCommand>>
    /\ undone = <<>>
    /\ group = [open |-> FALSE, kids |-> <<>>]
    /\ doc = 0
    /\ version = 0
    /\ saved = 0
    /\ target = NoJump

Idle == target = NoJump

\* global::push with no group open: a composite of n edits runs and is recorded;
\* an empty composite is dropped by the stack.  The observers fire either way.
Push(n) ==
    /\ Idle
    /\ ~group.open
    /\ version + n <= MaxVersions
    /\ IF n = 0
       THEN UNCHANGED <<commands, undone, doc, version>>
       ELSE LET c == [empty |-> FALSE, done |-> FALSE, kidsDone |-> FALSE, kids |-> FreshEdits(n)]
            IN  /\ undone' = <<>>
                /\ doc' = RedoEffect(doc, c)
                /\ commands' = Record(MarkDone(c))
                /\ version' = version + n
    /\ saved' = doc'
    /\ UNCHANGED <<group, target>>

\* global::push into the open group: the edit is redone at once and becomes a
\* child; nothing is recorded and no observer fires.
PushIntoGroup ==
    /\ Idle
    /\ group.open
    /\ version + 1 <= MaxVersions
    /\ version' = version + 1
    /\ doc' = version'
    /\ group' = [open |-> TRUE, kids |-> Append(group.kids, [before |-> doc, after |-> doc'])]
    /\ UNCHANGED <<commands, undone, saved, target>>

\* global::group_begin; a second begin returns Error::State and changes nothing.
GroupBegin ==
    /\ Idle
    /\ ~group.open
    /\ group' = [open |-> TRUE, kids |-> <<>>]
    /\ UNCHANGED <<commands, undone, doc, version, saved, target>>

\* global::group_end: the group is pushed as one pre-executed row (an empty
\* group is discarded by the stack), then the observers fire.
GroupEnd ==
    /\ Idle
    /\ group.open
    /\ IF group.kids = <<>>
       THEN UNCHANGED <<commands, undone>>
       ELSE LET c == [empty |-> FALSE, done |-> FALSE, kidsDone |-> TRUE, kids |-> group.kids]
            IN  /\ undone' = <<>>
                /\ commands' = Record(SetDone(c))
    /\ group' = [open |-> FALSE, kids |-> <<>>]
    /\ saved' = doc
    /\ UNCHANGED <<doc, version, target>>

\* Mutant: undo_now on the composite, whose own flag was never set, does nothing.
GroupAbortWithoutUndo ==
    /\ Idle
    /\ group.open
    /\ group' = [open |-> FALSE, kids |-> <<>>]
    /\ UNCHANGED <<commands, undone, doc, version, saved, target>>

\* global::group_abort: the executed children are reverted, newest first, and
\* the group is dropped without telling the observers.
GroupAbort ==
    /\ Idle
    /\ group.open
    /\ doc' = UndoKids(doc, group.kids)
    /\ group' = [open |-> FALSE, kids |-> <<>>]
    /\ UNCHANGED <<commands, undone, version, saved, target>>

\* Mutant: the index is not clamped.
JumpBeginUnclamped(index) ==
    /\ Idle
    /\ target' = index
    /\ UNCHANGED <<commands, undone, group, doc, version, saved>>

\* global::jump (undo is a jump one row down, redo one row up, the history panel
\* jumps anywhere); negative indexes are clamped to 0.
JumpBegin(index) ==
    /\ Idle
    /\ target' = IF index < 0 THEN 0 ELSE index
    /\ UNCHANGED <<commands, undone, group, doc, version, saved>>

\* jump looks at no group.  The one function that opens groups, `grouped' of
\* oak-app's effectchain.rs, closes its group before it returns to the event loop,
\* and nothing it runs jumps: the user's undo, redo and jump find no open group.
UserJumps(index) == ~group.open /\ JumpBegin(index)

\* Mutant: the first loop runs one row too far, which the second loop repairs.
JumpUndoPastTarget ==
    /\ ~Idle
    /\ Len(commands) >= target
    /\ CanUndo
    /\ LET c == commands[Len(commands)]
       IN  /\ doc' = UndoEffect(doc, c)
           /\ undone' = <<MarkUndone(c)>> \o undone
    /\ commands' = SubSeq(commands, 1, Len(commands) - 1)
    /\ UNCHANGED <<group, version, saved, target>>

JumpUndo ==
    /\ ~Idle
    /\ Len(commands) > target
    /\ CanUndo
    /\ LET c == commands[Len(commands)]
       IN  /\ doc' = UndoEffect(doc, c)
           /\ undone' = <<MarkUndone(c)>> \o undone
    /\ commands' = SubSeq(commands, 1, Len(commands) - 1)
    /\ UNCHANGED <<group, version, saved, target>>

\* The second loop starts when the first one is over, and its steps never
\* re-enable the first.
JumpRedo ==
    /\ ~Idle
    /\ Len(commands) < target
    /\ CanRedo
    /\ LET c == Head(undone)
       IN  /\ doc' = RedoEffect(doc, c)
           /\ commands' = Append(commands, MarkDone(c))
    /\ undone' = Tail(undone)
    /\ UNCHANGED <<group, version, saved, target>>

JumpEnd ==
    /\ ~Idle
    /\ ~(Len(commands) > target /\ CanUndo)
    /\ ~(Len(commands) < target /\ CanRedo)
    /\ target' = NoJump
    /\ saved' = doc
    /\ UNCHANGED <<commands, undone, group, doc, version>>

\* global::clear: a project was opened or closed; the history restarts and an open
\* group stays open.
Clear ==
    /\ Idle
    /\ commands' = <<EmptyCommand>>
    /\ undone' = <<>>
    /\ UNCHANGED <<group, doc, version, saved, target>>

Next ==
    \/ \E n \in 0..MaxKids : Push(n)
    \/ PushIntoGroup
    \/ GroupBegin
    \/ GroupEnd
    \/ GroupAbort
    \/ \E index \in -2..(K_MAX_UNDO_COMMANDS + 1) : UserJumps(index)
    \/ JumpUndo
    \/ JumpRedo
    \/ JumpEnd
    \/ Clear

\* A jump that started runs to its end: the loops are in one call.
Fairness == WF_vars(JumpUndo \/ JumpRedo \/ JumpEnd)

Spec == Init /\ [][Next]_vars /\ Fairness

--------------------------------------------------------------------------------
(* Properties                                                              *)

\* Type invariant of the stack, the group and the document.
TypeOK ==
    /\ commands \in Seq(Command)
    /\ undone \in Seq(Command)
    /\ group \in [open : BOOLEAN, kids : Seq(Edit)]
    /\ doc \in Version
    /\ version \in Nat
    /\ saved \in Version
    /\ target \in Nat \cup {NoJump}

\* The versions a row starts from and ends at.
Entry(c) == c.kids[1].before
Exit(c) == c.kids[Len(c.kids)].after
Real(c) == ~c.empty

\* A row whose edits follow each other, with the flags of the side it is on.
RowDone(c) == c.kids # <<>> /\ Chained(c.kids) /\ c.done /\ c.kidsDone
RowUndone(c) == c.kids # <<>> /\ Chained(c.kids) /\ ~c.done /\ ~c.kidsDone

\* Consecutive rows agree on the version between them; only the oldest row can
\* be the empty command.
LinkedDone(cs) ==
    /\ \A i \in 1..Len(cs) : Real(cs[i]) => RowDone(cs[i])
    /\ \A i \in 2..Len(cs) : Real(cs[i])
    /\ \A i \in 1..(Len(cs) - 1) : Real(cs[i]) => Exit(cs[i]) = Entry(cs[i + 1])
LinkedUndone(us) ==
    /\ \A i \in 1..Len(us) : Real(us[i]) /\ RowUndone(us[i])
    /\ \A i \in 1..(Len(us) - 1) : Exit(us[i]) = Entry(us[i + 1])

\* The document below the open group: where the done and the undone rows meet.
Meeting == IF group.kids = <<>> THEN doc ELSE group.kids[1].before

\* The document every row of the history was made on is the document that will
\* be there when the row is undone or redone: consecutive rows agree on the
\* version between them, the topmost done row (with the open group above it)
\* ends at the current document, the first undone row starts there, and the
\* flags of undo_now/redo_now say which side a row is on.
HistoryChain ==
    /\ doc # Corrupt
    /\ LinkedDone(commands)
    /\ LinkedUndone(undone)
    /\ Chained(group.kids)
    /\ group.kids # <<>> => group.kids[Len(group.kids)].after = doc
    /\ CanUndo => Exit(commands[Len(commands)]) = Meeting
    /\ undone # <<>> => Entry(undone[1]) = Meeting

\* The write-through observers have seen the current document whenever no group
\* and no jump is open: no call changes the document behind their back, and an
\* aborted group leaves exactly the version they saw last.
ObserversCurrent == (Idle /\ ~group.open) => saved = doc

\* Inductive strengthening of ObserversCurrent: the observers lag behind the
\* document only by the edits of the open group or of the running jump.
ObserverInv ==
    /\ ~group.open => group.kids = <<>>
    /\ ~Idle => ~group.open
    /\ Idle => saved = Meeting

\* K_MAX_UNDO_COMMANDS bounds all the rows the history shows, done and undone.
RowsBounded == Len(commands) + Len(undone) <= K_MAX_UNDO_COMMANDS

\* undo, redo and the history panel land on the row they asked for: a jump ends
\* with exactly `target' done rows, unless the rows run out on that side.
JumpLands ==
    [][JumpEnd => \/ Len(commands) = target
                  \/ Len(commands) < target /\ undone = <<>>
                  \/ Len(commands) = 1 /\ commands[1].empty]_vars

\* Every jump ends.
JumpTerminates == (target # NoJump) ~> (target = NoJump)

================================================================================
