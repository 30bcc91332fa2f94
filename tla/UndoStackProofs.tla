---------------------------- MODULE UndoStackProofs ----------------------------
(***************************************************************************)
(* Proofs about UndoStack for every cap, every number of edits and every   *)
(* size of composite command.                                              *)
(***************************************************************************)
EXTENDS UndoStack, SequenceTheorems, TLAPS

(* What the operations on rows do to the links between rows *)

\* Recording a row at the end of a linked sequence of rows keeps it linked.
LEMMA AppendLinked ==
    ASSUME NEW cs \in Seq(Command), NEW c \in Command,
           LinkedDone(cs), Real(c), RowDone(c),
           cs # <<>> /\ Real(cs[Len(cs)]) => Exit(cs[Len(cs)]) = Entry(c)
    PROVE  LinkedDone(Append(cs, c))
  <1>1. /\ Len(Append(cs, c)) = Len(cs) + 1
        /\ \A i \in 1..Len(cs) : Append(cs, c)[i] = cs[i]
        /\ Append(cs, c)[Len(cs) + 1] = c
    OBVIOUS
  <1>2. Len(cs) \in Nat /\ (Len(cs) > 0 => cs # <<>>)
    OBVIOUS
  <1> QED  BY <1>1, <1>2 DEF LinkedDone

\* Evicting the oldest row of a linked sequence keeps it linked.
LEMMA TailLinked ==
    ASSUME NEW cs \in Seq(Command), cs # <<>>, LinkedDone(cs)
    PROVE  LinkedDone(Tail(cs))
  <1>1. /\ Len(Tail(cs)) = Len(cs) - 1
        /\ \A i \in 1..(Len(cs) - 1) : Tail(cs)[i] = cs[i + 1]
        /\ Len(cs) \in Nat
    OBVIOUS
  <1> QED  BY <1>1 DEF LinkedDone

\* A sequence of positive length is not empty.
LEMMA LenPositive == ASSUME NEW S, NEW s \in Seq(S), Len(s) > 0 PROVE s # <<>>
  OBVIOUS

\* The length SubSeqProperties gives for a sequence without its last element.
LEMMA FrontLength ==
    ASSUME NEW k \in Nat, k >= 1, NEW m, m = IF 1 <= k - 1 THEN (k - 1) - 1 + 1 ELSE 0
    PROVE  m = k - 1
  OBVIOUS

\* Taking the newest row off a linked sequence keeps it linked.
LEMMA FrontLinked ==
    ASSUME NEW cs \in Seq(Command), cs # <<>>, LinkedDone(cs)
    PROVE  /\ SubSeq(cs, 1, Len(cs) - 1) \in Seq(Command)
           /\ Len(SubSeq(cs, 1, Len(cs) - 1)) = Len(cs) - 1
           /\ \A i \in 1..(Len(cs) - 1) : SubSeq(cs, 1, Len(cs) - 1)[i] = cs[i]
           /\ LinkedDone(SubSeq(cs, 1, Len(cs) - 1))
  <1> DEFINE front == SubSeq(cs, 1, Len(cs) - 1)
  <1>0. Len(cs) \in Nat /\ Len(cs) >= 1
    OBVIOUS
  <1>1. Len(cs) \in Nat /\ Len(cs) >= 1 /\ \A i \in 1..(Len(cs) - 1) : cs[i] \in Command
    BY <1>0
  <1>2. /\ front \in Seq(Command)
        /\ Len(front) = IF 1 <= Len(cs) - 1 THEN (Len(cs) - 1) - 1 + 1 ELSE 0
        /\ \A i \in 1..((Len(cs) - 1) - 1 + 1) : front[i] = cs[1 + i - 1]
    BY <1>1, SubSeqProperties
  <1> HIDE DEF front
  <1>3. Len(front) = Len(cs) - 1 /\ \A i \in 1..(Len(cs) - 1) : front[i] = cs[i]
    <2>1. Len(front) = Len(cs) - 1
      BY <1>0, <1>2, FrontLength
    <2>2. ASSUME NEW i \in 1..(Len(cs) - 1)
          PROVE  front[i] = cs[i]
      <3>1. i \in 1..((Len(cs) - 1) - 1 + 1) /\ 1 + i - 1 = i
        BY <1>1
      <3> QED  BY <1>2, <3>1
    <2> QED  BY <2>1, <2>2
  <1>4. LinkedDone(front)
    BY <1>1, <1>3 DEF LinkedDone
  <1> QED  BY <1>2, <1>3, <1>4 DEF front

\* A row moved to the front of the undone rows stays linked to the next one.
LEMMA ConsLinked ==
    ASSUME NEW us \in Seq(Command), NEW c \in Command,
           LinkedUndone(us), Real(c), RowUndone(c),
           us # <<>> => Exit(c) = Entry(us[1])
    PROVE  LinkedUndone(<<c>> \o us)
  <1>1. /\ Len(<<c>> \o us) = Len(us) + 1
        /\ (<<c>> \o us)[1] = c
        /\ \A i \in 2..(Len(us) + 1) : (<<c>> \o us)[i] = us[i - 1]
        /\ Len(us) \in Nat
        /\ Len(us) > 0 => us # <<>>
    OBVIOUS
  <1> QED  BY <1>1 DEF LinkedUndone

\* Taking the first undone row off keeps the others linked.
LEMMA TailUndoneLinked ==
    ASSUME NEW us \in Seq(Command), us # <<>>, LinkedUndone(us)
    PROVE  LinkedUndone(Tail(us))
  <1>1. /\ Len(Tail(us)) = Len(us) - 1
        /\ \A i \in 1..(Len(us) - 1) : Tail(us)[i] = us[i + 1]
        /\ Len(us) \in Nat
    OBVIOUS
  <1> QED  BY <1>1 DEF LinkedUndone

\* n >= 1 fresh edits form a chain from the current document to a fresh version.
LEMMA FreshEditsChain ==
    ASSUME TypeOK, doc # Corrupt, NEW n \in Nat \ {0}
    PROVE  /\ FreshEdits(n) \in Seq(Edit)
           /\ Len(FreshEdits(n)) = n
           /\ FreshEdits(n) # <<>>
           /\ Chained(FreshEdits(n))
           /\ FreshEdits(n)[1].before = doc
           /\ FreshEdits(n)[n].after = version + n
  <1> DEFINE e == FreshEdits(n)
             start == [j \in 1..n |-> IF j = 1 THEN doc ELSE version + j - 1]
  <1>0. doc \in Nat /\ version \in Nat
    BY DEF TypeOK, Version
  <1>1. start \in [1..n -> Nat]
    BY <1>0
  <1>2. e = [j \in 1..n |-> [before |-> start[j], after |-> version + j]]
    BY DEF FreshEdits
  <1>3. ASSUME NEW j \in 1..n
        PROVE  j # 1 => start[j] = version + j - 1
    OBVIOUS
  <1>4. 1 \in 1..n /\ n \in 1..n /\ start[1] = doc
    OBVIOUS
  <1> HIDE DEF e, start
  <1>5. ASSUME NEW j \in 1..n
        PROVE  e[j].before = start[j] /\ e[j].after = version + j /\ e[j] \in Edit
    <2>1. version + j \in Nat
      BY <1>0
    <2>2. e[j] = [before |-> start[j], after |-> version + j]
      BY <1>2
    <2> QED  BY <1>1, <2>1, <2>2 DEF Edit
  <1>6. e \in Seq(Edit) /\ Len(e) = n
    BY <1>2, <1>5
  <1>7. Chained(e)
    <2> SUFFICES ASSUME NEW j \in 1..(n - 1)
                 PROVE  e[j].after = e[j + 1].before
      BY <1>6 DEF Chained
    <2>1. j \in 1..n /\ j + 1 \in 1..n /\ j + 1 # 1
      OBVIOUS
    <2>2. e[j].after = version + j /\ e[j + 1].before = start[j + 1]
      BY <1>5, <2>1
    <2>3. start[j + 1] = version + (j + 1) - 1
      BY <1>3, <2>1
    <2> QED  BY <1>0, <2>2, <2>3
  <1>8. e # <<>>
    BY <1>6
  <1>9. e[1].before = doc /\ e[n].after = version + n
    BY <1>4, <1>5
  <1> QED  BY <1>6, <1>7, <1>8, <1>9 DEF e

--------------------------------------------------------------------------------
(* The inductive invariant *)

\* The inductive invariant: types, the chain of rows, what the observers saw, and the cap.
IInv == TypeOK /\ HistoryChain /\ ObserverInv /\ RowsBounded

\* What recording a done row on top of the history does, evicting at the cap.
LEMMA RecordRow ==
    ASSUME TypeOK, LinkedDone(commands), Len(commands) <= K_MAX_UNDO_COMMANDS,
           NEW c \in Command, Real(c), RowDone(c),
           CanUndo => Exit(commands[Len(commands)]) = Entry(c)
    PROVE  /\ Record(c) \in Seq(Command)
           /\ LinkedDone(Record(c))
           /\ Record(c) # <<>>
           /\ Len(Record(c)) <= K_MAX_UNDO_COMMANDS
           /\ Record(c)[Len(Record(c))] = c
  <1> DEFINE g == Append(commands, c)
  <1>1. commands \in Seq(Command) /\ Len(commands) \in Nat
    BY DEF TypeOK
  <1>2. /\ g \in Seq(Command) /\ g # <<>>
        /\ Len(g) = Len(commands) + 1
        /\ g[Len(g)] = c
    BY <1>1
  <1>3. LinkedDone(g)
    BY <1>1, AppendLinked DEF CanUndo, Real
  <1> HIDE DEF g
  <1>4. CASE Len(g) > K_MAX_UNDO_COMMANDS
    <2>1. Record(c) = Tail(g)
      BY <1>4 DEF Record, g
    <2>2. Tail(g) \in Seq(Command) /\ Len(Tail(g)) = Len(g) - 1
      BY <1>2
    <2>3. LinkedDone(Tail(g))
      BY <1>2, <1>3, TailLinked
    <2>4. Len(g) >= 2 /\ Len(Tail(g)) >= 1 /\ Len(Tail(g)) <= K_MAX_UNDO_COMMANDS
      BY <1>1, <1>2, <1>4, <2>2, UndoAssumption
    <2>5. Tail(g) # <<>>
      <3>1. Len(Tail(g)) > 0
        BY <2>4
      <3> QED  BY <2>2, <3>1, LenPositive, Zenon
    <2>6. \A i \in 1..Len(Tail(g)) : Tail(g)[i] = g[i + 1]
      BY <1>2, HeadTailProperties
    <2>7. Tail(g)[Len(Tail(g))] = g[Len(g)]
      BY <1>2, <2>2, <2>4, <2>6
    <2> QED  BY <1>2, <2>1, <2>2, <2>3, <2>4, <2>5, <2>7
  <1>5. CASE ~(Len(g) > K_MAX_UNDO_COMMANDS)
    <2>1. Record(c) = g
      BY <1>5 DEF Record, g
    <2> QED  BY <1>1, <1>2, <1>3, <1>5, <2>1, UndoAssumption
  <1> QED  BY <1>4, <1>5

\* A fresh stack satisfies the invariant.
LEMMA InitIInv == Init => IInv
  <1> SUFFICES ASSUME Init PROVE IInv
    OBVIOUS
  <1>1. EmptyCommand \in Command
    BY DEF EmptyCommand, Command
  <1>2. TypeOK
    BY <1>1 DEF Init, TypeOK, Version
  <1>3. HistoryChain
    BY DEF Init, HistoryChain, LinkedDone, LinkedUndone, Chained, CanUndo, Real, EmptyCommand, Corrupt
  <1>4. ObserverInv /\ RowsBounded
    BY UndoAssumption DEF Init, ObserverInv, RowsBounded, Idle, Meeting
  <1> QED  BY <1>2, <1>3, <1>4 DEF IInv

\* push and push_pre_executed keep the invariant, eviction at the cap included.
LEMMA PushIInv ==
    ASSUME IInv, NEW n \in 0..MaxKids, Push(n)
    PROVE  IInv'
  <1> USE DEF IInv
  <1>1. CASE n = 0
    <2>1. UNCHANGED <<commands, undone, doc, version, group, target>> /\ saved' = doc
      BY <1>1 DEF Push
    <2> QED  BY <2>1 DEF Push, TypeOK, HistoryChain, ObserverInv, RowsBounded, Meeting, CanUndo, Idle
  <1>2. CASE n # 0
    <2> DEFINE c == [empty |-> FALSE, done |-> FALSE, kidsDone |-> FALSE, kids |-> FreshEdits(n)]
    <2>1. n \in Nat \ {0}
      BY <1>2, UndoAssumption
    <2>2. /\ FreshEdits(n) \in Seq(Edit) /\ FreshEdits(n) # <<>> /\ Len(FreshEdits(n)) = n
          /\ Chained(FreshEdits(n)) /\ FreshEdits(n)[1].before = doc
          /\ FreshEdits(n)[n].after = version + n
      BY <2>1, FreshEditsChain DEF HistoryChain
    <2>3. /\ Idle /\ ~group.open /\ group.kids = <<>> /\ Meeting = doc
          /\ undone' = <<>> /\ doc' = RedoEffect(doc, c)
          /\ commands' = Record(MarkDone(c)) /\ version' = version + n
          /\ saved' = doc' /\ UNCHANGED <<group, target>>
      BY <1>2 DEF Push, ObserverInv, Meeting
    <2>4. doc' = version + n
      BY <2>2, <2>3 DEF RedoEffect, RedoKids
    <2>5. /\ MarkDone(c) \in Command /\ Real(MarkDone(c)) /\ RowDone(MarkDone(c))
          /\ MarkDone(c).kids = FreshEdits(n)
      BY <2>2 DEF MarkDone, Command, Real, RowDone
    <2>6. Entry(MarkDone(c)) = doc /\ Exit(MarkDone(c)) = version + n
      BY <2>2, <2>5 DEF Entry, Exit
    <2> HIDE DEF c
    <2>7. /\ commands' \in Seq(Command) /\ LinkedDone(commands') /\ commands' # <<>>
          /\ Len(commands') <= K_MAX_UNDO_COMMANDS
          /\ commands'[Len(commands')] = MarkDone(c)
      <3>1. Len(commands) <= K_MAX_UNDO_COMMANDS
        BY UndoAssumption DEF RowsBounded, TypeOK
      <3> QED  BY <2>3, <2>5, <2>6, <3>1, RecordRow DEF HistoryChain
    <2>8. TypeOK'
      BY <2>1, <2>3, <2>4, <2>7 DEF TypeOK, Version
    <2>9. HistoryChain'
      <3>1. doc' # Corrupt
        BY <2>1, <2>4 DEF TypeOK, Corrupt
      <3>2. LinkedUndone(undone')
        BY <2>3 DEF LinkedUndone
      <3>3. group'.kids = <<>> /\ Chained(group'.kids) /\ Meeting' = doc'
        BY <2>3 DEF Meeting, HistoryChain
      <3>4. Exit(commands'[Len(commands')]) = doc'
        BY <2>4, <2>6, <2>7
      <3> QED  BY <2>3, <2>7, <3>1, <3>2, <3>3, <3>4 DEF HistoryChain, CanUndo
    <2>10. ObserverInv' /\ RowsBounded'
      BY <2>3, <2>7 DEF ObserverInv, RowsBounded, Meeting, Idle
    <2> QED  BY <2>8, <2>9, <2>10
  <1> QED  BY <1>1, <1>2

\* Opening a group, pushing into it and aborting it keep the invariant.
LEMMA GroupIInv ==
    ASSUME IInv, PushIntoGroup \/ GroupBegin \/ GroupAbort
    PROVE  IInv'
  <1> USE DEF IInv
  <1>1. CASE GroupBegin
    <2>1. /\ UNCHANGED <<commands, undone, doc, version, saved, target>>
          /\ group' = [open |-> TRUE, kids |-> <<>>] /\ group.kids = <<>> /\ Idle
      BY <1>1 DEF GroupBegin, ObserverInv
    <2>2. group' \in [open : BOOLEAN, kids : Seq(Edit)] /\ group'.kids = group.kids
      BY <2>1
    <2>3. Meeting' = Meeting
      BY <2>1, <2>2 DEF Meeting
    <2> QED  BY <2>1, <2>2, <2>3 DEF TypeOK, HistoryChain, ObserverInv, RowsBounded, CanUndo, Idle
  <1>2. CASE PushIntoGroup
    <2> DEFINE e == [before |-> doc, after |-> version + 1]
               k == group.kids
               g == Append(k, e)
    <2>1. /\ group.open /\ Idle /\ doc' = version + 1 /\ version' = version + 1
          /\ group' = [open |-> TRUE, kids |-> g]
          /\ UNCHANGED <<commands, undone, saved, target>>
      BY <1>2 DEF PushIntoGroup
    <2>2. e \in Edit /\ e.before = doc /\ e.after = version + 1
      BY DEF TypeOK, Edit, Version, HistoryChain
    <2>3. k \in Seq(Edit) /\ Len(k) \in Nat
      BY DEF TypeOK
    <2> HIDE DEF e, k
    <2>4. g \in Seq(Edit) /\ group'.kids = g /\ group'.open = TRUE
      BY <2>1, <2>2, <2>3
    <2>5. /\ g # <<>> /\ Len(g) = Len(k) + 1
          /\ \A i \in 1..Len(k) : g[i] = k[i]
          /\ g[Len(k) + 1] = e
      BY <2>2, <2>3
    <2> HIDE DEF g
    <2>7. Chained(g)
      <3> SUFFICES ASSUME NEW j \in 1..Len(k)
                   PROVE  g[j].after = g[j + 1].before
        BY <2>3, <2>5 DEF Chained
      <3>1. CASE j < Len(k)
        <4>1. j \in 1..(Len(k) - 1) /\ j + 1 \in 1..Len(k)
          BY <2>3, <3>1
        <4> QED  BY <2>5, <4>1 DEF HistoryChain, Chained, k
      <3>2. CASE ~(j < Len(k))
        <4>1. j + 1 = Len(k) + 1 /\ Len(k) > 0 /\ j = Len(k)
          BY <2>3, <3>2
        <4>2. k[Len(k)].after = doc
          <5>1. k # <<>>
            BY <2>3, <4>1, LenPositive
          <5> QED  BY <5>1 DEF HistoryChain, k
        <4> QED  BY <2>2, <2>5, <4>1, <4>2
      <3> QED  BY <3>1, <3>2
    <2>8. Meeting' = Meeting
      <3>1. Meeting' = g[1].before
        BY <2>4, <2>5 DEF Meeting
      <3>2. CASE k = <<>>
        <4>1. g[1] = e
          BY <2>2, <3>2 DEF g
        <4> QED  BY <2>2, <3>1, <3>2, <4>1 DEF Meeting, k
      <3>3. CASE k # <<>>
        <4>1. g[1] = k[1]
          <5>1. 1 \in 1..Len(k)
            BY <2>3, <3>3
          <5> QED  BY <2>5, <5>1
        <4> QED  BY <3>1, <3>3, <4>1 DEF Meeting, k
      <3> QED  BY <3>2, <3>3
    <2>9. TypeOK'
      <3>1. group' \in [open : BOOLEAN, kids : Seq(Edit)]
        BY <2>1, <2>4
      <3> QED  BY <2>1, <3>1 DEF TypeOK, Version
    <2>10. HistoryChain'
      <3>1. doc' # Corrupt
        BY <2>1 DEF TypeOK, Corrupt
      <3>2. group'.kids[Len(group'.kids)].after = doc'
        BY <2>1, <2>2, <2>4, <2>5
      <3> QED  BY <2>1, <2>4, <2>7, <2>8, <3>1, <3>2 DEF HistoryChain, CanUndo
    <2>11. ObserverInv' /\ RowsBounded'
      BY <2>1, <2>4, <2>8 DEF ObserverInv, RowsBounded, Idle
    <2> QED  BY <2>9, <2>10, <2>11
  <1>3. CASE GroupAbort
    <2>1. /\ UNCHANGED <<commands, undone, version, saved, target>> /\ Idle
          /\ group' = [open |-> FALSE, kids |-> <<>>] /\ doc' = UndoKids(doc, group.kids)
      BY <1>3 DEF GroupAbort
    <2>2. doc' = Meeting
      BY <2>1 DEF UndoKids, Meeting, HistoryChain
    <2>3. Meeting \in Nat
      <3>1. CASE group.kids = <<>>
        BY <3>1 DEF Meeting, TypeOK, HistoryChain, Version
      <3>2. CASE group.kids # <<>>
        <4>1. group.kids \in Seq(Edit)
          BY DEF TypeOK
        <4>2. group.kids[1] \in Edit
          BY <3>2, <4>1
        <4> QED  BY <3>2, <4>2 DEF Meeting, Edit
      <3> QED  BY <3>1, <3>2
    <2>4. group'.kids = <<>> /\ group'.open = FALSE /\ group' \in [open : BOOLEAN, kids : Seq(Edit)]
      BY <2>1
    <2>5. Meeting' = Meeting /\ Meeting # Corrupt
      BY <2>2, <2>3, <2>4 DEF Meeting, Corrupt
    <2> QED  BY <2>1, <2>2, <2>3, <2>4, <2>5
          DEF TypeOK, Version, HistoryChain, ObserverInv, RowsBounded, CanUndo, Chained, Idle
  <1> QED  BY <1>1, <1>2, <1>3

\* Closing a group records its rows as one and keeps the invariant.
LEMMA GroupEndIInv ==
    ASSUME IInv, GroupEnd
    PROVE  IInv'
  <1> USE DEF IInv
  <1>1. /\ Idle /\ group.open /\ group' = [open |-> FALSE, kids |-> <<>>]
        /\ saved' = doc /\ UNCHANGED <<doc, version, target>>
    BY DEF GroupEnd
  <1>2. group'.kids = <<>> /\ group'.open = FALSE /\ group' \in [open : BOOLEAN, kids : Seq(Edit)]
        /\ Meeting' = doc' /\ Chained(group'.kids)
    BY <1>1 DEF Meeting, Chained
  <1>3. CASE group.kids = <<>>
    <2>1. UNCHANGED <<commands, undone>> /\ Meeting = doc
      BY <1>3 DEF GroupEnd, Meeting
    <2> QED  BY <1>1, <1>2, <2>1 DEF TypeOK, HistoryChain, ObserverInv, RowsBounded, CanUndo, Idle
  <1>4. CASE group.kids # <<>>
    <2> DEFINE r == [empty |-> FALSE, done |-> FALSE, kidsDone |-> TRUE, kids |-> group.kids]
               c == SetDone(r)
    <2>1. undone' = <<>> /\ commands' = Record(c)
      BY <1>4 DEF GroupEnd
    <2>2. group.kids \in Seq(Edit) /\ Chained(group.kids)
      BY DEF TypeOK, HistoryChain
    <2>3. c \in Command /\ Real(c) /\ RowDone(c) /\ c.kids = group.kids
      <3>1. r \in Command /\ ~r.empty /\ r.kidsDone = TRUE /\ r.kids = group.kids
        BY <2>2 DEF Command
      <3> HIDE DEF r
      <3> QED  BY <1>4, <2>2, <3>1 DEF SetDone, Command, Real, RowDone
    <2>4. Entry(c) = Meeting /\ Exit(c) = doc
      BY <1>4, <2>3 DEF Entry, Exit, Meeting, HistoryChain
    <2> HIDE DEF c
    <2>5. /\ commands' \in Seq(Command) /\ LinkedDone(commands') /\ commands' # <<>>
          /\ Len(commands') <= K_MAX_UNDO_COMMANDS
          /\ commands'[Len(commands')] = c
      <3>1. Len(commands) <= K_MAX_UNDO_COMMANDS
        BY UndoAssumption DEF RowsBounded, TypeOK
      <3> QED  BY <2>1, <2>3, <2>4, <3>1, RecordRow DEF HistoryChain
    <2>6. LinkedUndone(undone')
      BY <2>1 DEF LinkedUndone
    <2>7. TypeOK'
      BY <1>1, <1>2, <2>1, <2>5 DEF TypeOK
    <2>8. HistoryChain'
      BY <1>1, <1>2, <2>1, <2>4, <2>5, <2>6 DEF HistoryChain, CanUndo
    <2>9. ObserverInv' /\ RowsBounded'
      BY <1>1, <1>2, <2>1, <2>5 DEF ObserverInv, RowsBounded, Idle
    <2> QED  BY <2>7, <2>8, <2>9
  <1> QED  BY <1>3, <1>4

\* An undo step of a jump keeps the invariant.
LEMMA JumpUndoIInv ==
    ASSUME IInv, JumpUndo
    PROVE  IInv'
  <1> USE DEF IInv
  <1> DEFINE c == commands[Len(commands)]
             front == SubSeq(commands, 1, Len(commands) - 1)
  <1>1. /\ ~Idle /\ CanUndo /\ doc' = UndoEffect(doc, c) /\ undone' = <<MarkUndone(c)>> \o undone
        /\ commands' = front /\ UNCHANGED <<group, version, saved, target>>
    BY DEF JumpUndo
  <1>2. group.kids = <<>> /\ Meeting = doc
    BY <1>1 DEF ObserverInv, Meeting
  <1>3. commands \in Seq(Command) /\ undone \in Seq(Command) /\ commands # <<>>
    BY <1>1 DEF TypeOK, CanUndo
  <1>4. c \in Command /\ Real(c) /\ RowDone(c) /\ Exit(c) = doc
    <2>1. Len(commands) \in 1..Len(commands)
      BY <1>3
    <2>2. c \in Command
      BY <1>3, <2>1
    <2>3. Real(c) /\ Exit(c) = doc
      BY <1>1, <1>2 DEF CanUndo, Real, HistoryChain
    <2>4. RowDone(c)
      BY <2>1, <2>3 DEF HistoryChain, LinkedDone
    <2> QED  BY <2>2, <2>3, <2>4
  <1>5. /\ front \in Seq(Command) /\ LinkedDone(front) /\ Len(front) = Len(commands) - 1
        /\ \A i \in 1..(Len(commands) - 1) : front[i] = commands[i]
    BY <1>3, FrontLinked DEF HistoryChain
  <1> HIDE DEF c
  <1>6. doc' = Entry(c)
    BY <1>1, <1>4 DEF UndoEffect, UndoKids, RowDone, Entry, Exit
  <1>7. /\ MarkUndone(c) \in Command /\ Real(MarkUndone(c)) /\ RowUndone(MarkUndone(c))
        /\ MarkUndone(c).kids = c.kids
    BY <1>4 DEF MarkUndone, Command, Real, RowDone, RowUndone
  <1>8. Entry(MarkUndone(c)) = Entry(c) /\ Exit(MarkUndone(c)) = doc
    BY <1>4, <1>7 DEF Entry, Exit
  <1>9. Entry(c) \in Nat
    <2>1. c.kids \in Seq(Edit) /\ c.kids # <<>>
      BY <1>4 DEF Command, RowDone
    <2>2. c.kids[1] \in Edit
      BY <2>1
    <2> QED  BY <2>2 DEF Entry, Edit
  <1>10. LinkedUndone(undone')
    BY <1>1, <1>2, <1>3, <1>7, <1>8, ConsLinked DEF HistoryChain
  <1>11. undone' \in Seq(Command) /\ Len(undone') = Len(undone) + 1 /\ undone'[1] = MarkUndone(c)
    BY <1>1, <1>3, <1>7
  <1>12. front # <<>> /\ ~front[Len(front)].empty => Exit(front[Len(front)]) = Entry(c)
    <2> SUFFICES ASSUME front # <<>>, ~front[Len(front)].empty
                 PROVE  Exit(front[Len(front)]) = Entry(c)
      OBVIOUS
    <2>1. Len(commands) \in Nat /\ Len(front) \in 1..(Len(commands) - 1)
          /\ Len(front) + 1 = Len(commands)
      BY <1>3, <1>5
    <2>2. front[Len(front)] = commands[Len(front)]
      BY <1>5, <2>1
    <2> QED  BY <2>1, <2>2 DEF HistoryChain, LinkedDone, Real, c
  <1> HIDE DEF front
  <1>13. Meeting' = doc'
    BY <1>1, <1>2 DEF Meeting
  <1>14. TypeOK'
    BY <1>1, <1>5, <1>6, <1>9, <1>11 DEF TypeOK, Version
  <1>15. HistoryChain'
    <2>1. doc' # Corrupt
      BY <1>6, <1>9 DEF Corrupt
    <2>2. CanUndo' => Exit(commands'[Len(commands')]) = Meeting'
      BY <1>1, <1>6, <1>12, <1>13 DEF CanUndo
    <2>3. undone' # <<>> => Entry(undone'[1]) = Meeting'
      BY <1>6, <1>8, <1>11, <1>13
    <2> QED  BY <1>1, <1>2, <1>5, <1>10, <2>1, <2>2, <2>3 DEF HistoryChain
  <1>16. ObserverInv'
    BY <1>1, <1>2 DEF ObserverInv, Idle
  <1>17. RowsBounded'
    <2>1. Len(commands) \in Nat /\ Len(undone) \in Nat
      BY <1>3
    <2> QED  BY <1>1, <1>5, <1>11, <2>1, UndoAssumption DEF RowsBounded
  <1> QED  BY <1>14, <1>15, <1>16, <1>17

\* A redo step of a jump keeps the invariant.
LEMMA JumpRedoIInv ==
    ASSUME IInv, JumpRedo
    PROVE  IInv'
  <1> USE DEF IInv
  <1> DEFINE c == Head(undone)
             d == MarkDone(c)
  <1>1. /\ ~Idle /\ undone # <<>> /\ doc' = RedoEffect(doc, c) /\ undone' = Tail(undone)
        /\ commands' = Append(commands, d) /\ UNCHANGED <<group, version, saved, target>>
    BY DEF JumpRedo, CanRedo
  <1>2. group.kids = <<>> /\ Meeting = doc
    BY <1>1 DEF ObserverInv, Meeting
  <1>3. commands \in Seq(Command) /\ undone \in Seq(Command)
        /\ Len(commands) \in Nat /\ Len(undone) \in Nat
    BY DEF TypeOK
  <1>4. c \in Command /\ c = undone[1] /\ Real(c) /\ RowUndone(c) /\ Entry(c) = doc
    <2>1. 1 \in 1..Len(undone) /\ c = undone[1]
      BY <1>1, <1>3
    <2>2. c \in Command
      BY <1>3, <2>1
    <2> QED  BY <1>1, <1>2, <2>1, <2>2 DEF HistoryChain, LinkedUndone
  <1>5. /\ Tail(undone) \in Seq(Command) /\ LinkedUndone(Tail(undone))
        /\ Len(Tail(undone)) = Len(undone) - 1
        /\ \A i \in 1..(Len(undone) - 1) : Tail(undone)[i] = undone[i + 1]
    BY <1>1, <1>3, TailUndoneLinked DEF HistoryChain
  <1> HIDE DEF c
  <1>6. doc' = Exit(c)
    BY <1>1, <1>4 DEF RedoEffect, RedoKids, RowUndone, Entry, Exit
  <1>7. d \in Command /\ Real(d) /\ RowDone(d) /\ d.kids = c.kids
    BY <1>4 DEF MarkDone, Command, Real, RowDone, RowUndone
  <1>8. Entry(d) = doc /\ Exit(d) = Exit(c)
    BY <1>4, <1>7 DEF Entry, Exit
  <1> HIDE DEF d
  <1>9. Exit(c) \in Nat
    <2>1. c.kids \in Seq(Edit) /\ c.kids # <<>>
      BY <1>4 DEF Command, RowUndone
    <2>2. c.kids[Len(c.kids)] \in Edit
      BY <2>1
    <2> QED  BY <2>2 DEF Exit, Edit
  <1>10. LinkedDone(commands')
    <2>1. commands # <<>> /\ Real(commands[Len(commands)]) => Exit(commands[Len(commands)]) = Entry(d)
      BY <1>2, <1>8 DEF HistoryChain, CanUndo, Real
    <2> QED  BY <1>1, <1>3, <1>7, <2>1, AppendLinked DEF HistoryChain
  <1>11. /\ commands' \in Seq(Command) /\ Len(commands') = Len(commands) + 1
         /\ commands'[Len(commands')] = d
    BY <1>1, <1>3, <1>7
  <1>12. undone' # <<>> => Entry(undone'[1]) = Exit(c)
    <2> SUFFICES ASSUME undone' # <<>> PROVE Entry(undone'[1]) = Exit(c)
      OBVIOUS
    <2>1. 1 \in 1..(Len(undone) - 1) /\ 1 + 1 = 2
      BY <1>1, <1>3, <1>5
    <2>2. undone'[1] = undone[2]
      BY <1>1, <1>5, <2>1
    <2> QED  BY <1>4, <2>1, <2>2 DEF HistoryChain, LinkedUndone
  <1>13. Meeting' = doc'
    BY <1>1, <1>2 DEF Meeting
  <1>14. TypeOK'
    BY <1>1, <1>5, <1>6, <1>9, <1>11 DEF TypeOK, Version
  <1>15. HistoryChain'
    <2>1. doc' # Corrupt
      BY <1>6, <1>9 DEF Corrupt
    <2>2. CanUndo' => Exit(commands'[Len(commands')]) = Meeting'
      BY <1>6, <1>8, <1>11, <1>13 DEF CanUndo
    <2> QED  BY <1>1, <1>2, <1>5, <1>6, <1>10, <1>12, <1>13, <2>1, <2>2 DEF HistoryChain
  <1>16. ObserverInv'
    BY <1>1, <1>2 DEF ObserverInv, Idle
  <1>17. RowsBounded'
    BY <1>1, <1>3, <1>5, <1>11, UndoAssumption DEF RowsBounded
  <1> QED  BY <1>14, <1>15, <1>16, <1>17

\* clear keeps the invariant.
LEMMA ClearIInv ==
    ASSUME IInv, Clear
    PROVE  IInv'
  <1> USE DEF IInv
  <1>1. /\ Idle /\ commands' = <<EmptyCommand>> /\ undone' = <<>>
        /\ UNCHANGED <<group, doc, version, saved, target>>
    BY DEF Clear
  <1>2. EmptyCommand \in Command /\ EmptyCommand.empty = TRUE
    BY DEF EmptyCommand, Command
  <1>3. commands' \in Seq(Command) /\ Len(commands') = 1 /\ commands'[1] = EmptyCommand
        /\ undone' \in Seq(Command) /\ Len(undone') = 0
    BY <1>1, <1>2
  <1>4. LinkedDone(commands') /\ LinkedUndone(undone') /\ ~CanUndo'
    BY <1>2, <1>3 DEF LinkedDone, LinkedUndone, Real, CanUndo
  <1>5. Meeting' = Meeting
    BY <1>1 DEF Meeting
  <1> QED  BY <1>1, <1>3, <1>4, <1>5, UndoAssumption
        DEF TypeOK, HistoryChain, ObserverInv, RowsBounded, Idle

\* The ends of a jump, and stuttering, move only the target and the observers.
LEMMA JumpEndsIInv ==
    ASSUME IInv, (\E index \in -2..(K_MAX_UNDO_COMMANDS + 1) : UserJumps(index)) \/ JumpEnd \/ UNCHANGED vars
    PROVE  IInv'
  <1> USE DEF IInv
  <1>1. UNCHANGED <<commands, undone, group, doc, version>> /\ Meeting' = Meeting
    BY DEF UserJumps, JumpBegin, JumpEnd, vars, Meeting
  <1>2. HistoryChain' /\ RowsBounded'
    BY <1>1 DEF HistoryChain, RowsBounded, CanUndo
  <1>3. TypeOK' /\ ObserverInv'
    <2>1. CASE \E index \in -2..(K_MAX_UNDO_COMMANDS + 1) : UserJumps(index)
      <3>1. PICK index \in -2..(K_MAX_UNDO_COMMANDS + 1) : UserJumps(index)
        BY <2>1
      <3>2. ~group.open /\ saved' = saved /\ target' \in Nat
        BY <3>1, UndoAssumption DEF UserJumps, JumpBegin
      <3>3. target' # NoJump
        BY <3>2 DEF NoJump
      <3> QED  BY <1>1, <3>2, <3>3 DEF TypeOK, ObserverInv, Idle
    <2>2. CASE JumpEnd
      <3>1. ~group.open /\ saved' = doc /\ target' = NoJump /\ Meeting = doc
        BY <2>2 DEF JumpEnd, ObserverInv, Meeting
      <3> QED  BY <1>1, <3>1 DEF TypeOK, ObserverInv, Idle
    <2>3. CASE UNCHANGED vars
      BY <1>1, <2>3 DEF vars, TypeOK, ObserverInv, Idle
    <2> QED  BY <2>1, <2>2, <2>3
  <1> QED  BY <1>2, <1>3

\* Every step of the undo history keeps the invariant.
LEMMA NextIInv ==
    ASSUME IInv, [Next]_vars
    PROVE  IInv'
  <1>1. ASSUME NEW n \in 0..MaxKids, Push(n) PROVE IInv'
    BY <1>1, PushIInv
  <1> QED  BY <1>1, GroupIInv, GroupEndIInv, JumpUndoIInv, JumpRedoIInv, ClearIInv, JumpEndsIInv
        DEF Next

(* The results *)

\* The invariant holds in every reachable state of the undo history.
THEOREM Invariance == Spec => []IInv
  BY InitIInv, NextIInv, PTL DEF Spec

\* The stack, the group and the document keep their types.
THEOREM TypeCorrect == Spec => []TypeOK
  <1>1. IInv => TypeOK
    BY DEF IInv
  <1> QED  BY <1>1, Invariance, PTL

\* Undo and redo only ever run on the document their command was made on,
\* whatever the cap, the groups and the jumps.
THEOREM HistoryIsChained == Spec => []HistoryChain
  <1>1. IInv => HistoryChain
    BY DEF IInv
  <1> QED  BY <1>1, Invariance, PTL

\* Outside a group and a jump the write-through observers have seen the
\* current document.
THEOREM ObserversSeeEveryEdit == Spec => []ObserversCurrent
  <1>1. IInv => ObserversCurrent
    BY DEF IInv, ObserverInv, ObserversCurrent, Meeting
  <1> QED  BY <1>1, Invariance, PTL

\* The rows of the history never exceed the cap of the undo stack.
THEOREM HistoryIsBounded == Spec => []RowsBounded
  <1>1. IInv => RowsBounded
    BY DEF IInv
  <1> QED  BY <1>1, Invariance, PTL

\* A jump ends on the row it asked for, or where the rows run out on that side:
\* the only row the first loop cannot undo is the empty command at the bottom.
THEOREM JumpsLand == Spec => JumpLands
  <1> DEFINE Landed == \/ Len(commands) = target
                       \/ Len(commands) < target /\ undone = <<>>
                       \/ Len(commands) = 1 /\ commands[1].empty
  <1>1. ASSUME IInv, JumpEnd PROVE Landed
    <2>1. target \in Nat /\ Len(commands) \in Nat
      BY <1>1 DEF IInv, TypeOK, JumpEnd, Idle
    <2>2. CASE Len(commands) > target
      <3>1. Len(commands) # 0 /\ ~CanUndo
        BY <1>1, <2>1, <2>2 DEF JumpEnd
      <3>2. commands # <<>>
        BY <3>1
      <3>3. commands[Len(commands)].empty
        BY <3>1, <3>2 DEF CanUndo
      <3>4. \A i \in 2..Len(commands) : ~commands[i].empty
        BY <1>1 DEF IInv, HistoryChain, LinkedDone, Real
      <3>5. Len(commands) = 1
        <4>1. PICK n \in Nat : n = Len(commands)
          BY <2>1
        <4>2. n # 1 => n \in 2..n
          BY <3>1, <4>1
        <4>3. commands[n].empty
          BY <3>3, <4>1
        <4>4. n \notin 2..n
          BY <3>4, <4>1, <4>3
        <4> QED  BY <4>1, <4>2, <4>4
      <3> QED  BY <3>3, <3>5
    <2>3. CASE Len(commands) < target
      BY <1>1, <2>3 DEF JumpEnd, CanRedo
    <2> QED  BY <2>1, <2>2, <2>3
  <1>2. IInv => [JumpEnd => Landed]_vars
    BY <1>1
  <1> QED  BY <1>2, Invariance, PTL DEF JumpLands

================================================================================
