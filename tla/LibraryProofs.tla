----------------------------- MODULE LibraryProofs -----------------------------
(* What the steps of a library transaction do to a row, for any rows, nodes and
   contents and any setting of the snapshot and retention policies.  The facts are
   about one row p and the history h of the states saved under it; the theorems about the
   library under callers in any order, and about a write-through session, rest on them. *)
EXTENDS Library, FiniteSetTheorems, WellFoundedInduction, TLAPS

\* The state command k left; the project before the first one is empty
At(h, k) == IF k = 0 THEN EmptyState ELSE h[k]

Row == [head: Nat, journal: SUBSET JournalRow, snaps: SUBSET Snapshot, settings: Content \cup {None}]

\* A journal row carries the images of its node before and after its command
Images(p, h) ==
    \A r \in p.journal :
        /\ r.seq \in 1 .. p.head
        /\ r.old = At(h, r.seq - 1)[r.node]
        /\ r.new = At(h, r.seq)[r.node]

\* A command has a row for every node it changed, or it has none left
Journalled(p, k) == \E r \in p.journal : r.seq = k
Complete(p, h) ==
    \A k \in 1 .. p.head : Journalled(p, k) =>
        \A n \in Node : At(h, k)[n] # At(h, k - 1)[n] => \E r \in p.journal : r.seq = k /\ r.node = n

\* so the rows of a command, which were written together, are pruned together
Together(p) == \A q, r \in p.journal : q.seq = r.seq => q.at = r.at

\* A snapshot is the state of its command
SnapsTrue(p, h) == \A s \in p.snaps : s.seq \in 1 .. p.head /\ s.payload = At(h, s.seq)

\* Nothing after the newest snapshot is pruned
TailKept(p) == \A k \in 1 .. p.head : (\A s \in p.snaps : s.seq < k) => Journalled(p, k)

RowSound(p, h) ==
    /\ p \in Row
    /\ h \in Seq(State) /\ Len(h) = p.head
    /\ Images(p, h) /\ Complete(p, h) /\ Together(p) /\ SnapsTrue(p, h) /\ TailKept(p)
    /\ p.head > 0 => p.settings = h[p.head][Settings]

--------------------------------------------------------------------------------
(* The least-number principle, and what Newest chooses *)

NatOrder == {ss \in Nat \X Nat : ss[1] < ss[2]}

\* A set of naturals has a least element.
LEMMA Least ==
    ASSUME NEW S, S \subseteq Nat, S # {}
    PROVE  \E m \in S : \A y \in S : m <= y
<1>1. IsWellFoundedOn(NatOrder, Nat)
  BY NatLessThanWellFounded DEF OpToRel, NatOrder
<1>2. PICK m \in S : \A y \in S : <<y, m>> \notin NatOrder
  BY <1>1, WFMin
<1>3. ASSUME NEW y \in S PROVE m <= y
  <2>1. m \in Nat /\ y \in Nat
    OBVIOUS
  <2>2. y < m => <<y, m>> \in NatOrder
    BY <2>1 DEF NatOrder
  <2> QED
    BY <1>2, <2>1, <2>2
<1> QED
  BY <1>3

\* A bounded set of naturals has a greatest element.
LEMMA Greatest ==
    ASSUME NEW S, S \subseteq Nat, S # {}, NEW b \in Nat, \A x \in S : x <= b
    PROVE  \E m \in S : \A y \in S : y <= m
<1> DEFINE T == {b - x : x \in S}
<1>1. T \subseteq Nat /\ T # {}
  <2>1. \A x \in S : b - x \in Nat
    OBVIOUS
  <2> QED
    BY <2>1
<1>2. PICK t \in T : \A y \in T : t <= y
  BY <1>1, Least
<1>3. PICK m \in S : t = b - m
  OBVIOUS
<1>4. ASSUME NEW y \in S PROVE y <= m
  <2>1. b - m <= b - y
    BY <1>2, <1>3
  <2>2. b \in Nat /\ m \in Nat /\ y \in Nat
    OBVIOUS
  <2> QED
    BY <2>1, <2>2
<1> QED
  BY <1>4

\* Newest chooses a row or snapshot that no other follows.
LEMMA NewestIs ==
    ASSUME NEW S, S # {}, NEW b \in Nat, \A x \in S : x.seq \in Nat /\ x.seq <= b
    PROVE  Newest(S) \in S /\ \A y \in S : y.seq <= Newest(S).seq
<1> DEFINE T == {x.seq : x \in S}
<1>1. T \subseteq Nat /\ T # {} /\ \A t \in T : t <= b
  OBVIOUS
<1>2. PICK m \in T : \A y \in T : y <= m
  BY <1>1, Greatest
<1>3. \E x \in S : \A y \in S : y.seq <= x.seq
  BY <1>2
<1> QED
  BY <1>3 DEF Newest

--------------------------------------------------------------------------------
(* Replay *)

\* The states of a history.
LEMMA AtIsState ==
    ASSUME NEW h \in Seq(State), NEW k \in 0 .. Len(h)
    PROVE  At(h, k) \in State
BY DEF At, State, EmptyState

\* A node without a row between two commands that are still journalled is the same after both.
LEMMA NoRowNoChange ==
    ASSUME NEW p, NEW h, RowSound(p, h), NEW i \in 0 .. p.head, NEW j \in 0 .. p.head, i <= j,
           \A k \in i + 1 .. j : Journalled(p, k), NEW n \in Node, RowsOf(p, n, i, j) = {}
    PROVE  At(h, j)[n] = At(h, i)[n]
<1> DEFINE S == {k \in i + 1 .. j : At(h, k)[n] # At(h, i)[n]}
<1>1. p.head \in Nat
  BY DEF RowSound, Row
<1>2. SUFFICES ASSUME S # {} PROVE FALSE
  <2>1. i = j \/ j \in i + 1 .. j
    BY <1>1
  <2> QED
    BY <2>1
<1>3. S \subseteq Nat
  BY <1>1
<1>4. PICK k \in S : \A y \in S : k <= y
  BY <1>2, <1>3, Least
<1>5. k \in i + 1 .. j /\ k \in Nat /\ k \in 1 .. p.head /\ k > i /\ k <= j
  BY <1>1, <1>4
<1>6. At(h, k - 1)[n] = At(h, i)[n]
  <2>1. k - 1 = i \/ k - 1 \in i + 1 .. j
    BY <1>1, <1>5
  <2>2. k - 1 \notin S
    BY <1>4, <1>5
  <2> QED
    BY <2>1, <2>2
<1>7. At(h, k)[n] # At(h, k - 1)[n]
  BY <1>4, <1>6
<1>8. PICK r \in p.journal : r.seq = k /\ r.node = n
  BY <1>5, <1>7 DEF RowSound, Complete
<1>9. r \in RowsOf(p, n, i, j)
  BY <1>5, <1>8 DEF RowsOf
<1> QED
  BY <1>9

\* Where replay starts.
LEMMA BaseIs ==
    ASSUME NEW p, NEW h, RowSound(p, h), NEW target \in 0 .. p.head
    PROVE  /\ BaseSeq(p, target) \in 0 .. target
           /\ BaseState(p, target) = At(h, BaseSeq(p, target))
           /\ \A s \in p.snaps : s.seq <= target => s.seq <= BaseSeq(p, target)
<1> DEFINE S == SnapsUpTo(p, target)
<1>0. p.head \in Nat /\ target \in Nat
  BY DEF RowSound, Row
<1>1. \A s \in S : s \in p.snaps /\ s.seq \in Nat /\ s.seq \in 1 .. p.head /\ s.seq <= target /\ s.payload = At(h, s.seq)
  BY <1>0 DEF SnapsUpTo, RowSound, SnapsTrue
<1>2. \A s \in p.snaps : s.seq <= target => s \in S
  BY DEF SnapsUpTo
<1>3. CASE S = {}
  <2>1. BaseSeq(p, target) = 0 /\ BaseState(p, target) = EmptyState
    BY <1>3 DEF BaseSeq, BaseState
  <2> QED
    BY <1>0, <1>2, <1>3, <2>1 DEF At
<1>4. CASE S # {}
  <2>1. Newest(S) \in S /\ \A y \in S : y.seq <= Newest(S).seq
    BY <1>0, <1>1, <1>4, NewestIs
  <2>2. BaseSeq(p, target) = Newest(S).seq /\ BaseState(p, target) = Newest(S).payload
    BY <1>4 DEF BaseSeq, BaseState
  <2> HIDE DEF S
  <2> QED
    BY <1>0, <1>1, <1>2, <2>1, <2>2
<1> QED
  BY <1>3, <1>4

\* Replaying up to a command whose rows since the base are all there gives its state.
LEMMA ReplayGives ==
    ASSUME NEW p, NEW h, RowSound(p, h), NEW target \in 0 .. p.head,
           \A k \in BaseSeq(p, target) + 1 .. target : Journalled(p, k)
    PROVE  Replay(p, target) = At(h, target)
<1> DEFINE b == BaseSeq(p, target)
<1>0. p.head \in Nat /\ h \in Seq(State) /\ Len(h) = p.head
  BY DEF RowSound, Row
<1>1. b \in 0 .. target /\ b \in 0 .. p.head /\ b <= target /\ BaseState(p, target) = At(h, b)
  BY <1>0, BaseIs
<1>2. At(h, target) \in State
  BY <1>0, AtIsState
<1> HIDE DEF b
<1>3. ASSUME NEW n \in Node
      PROVE  (LET rows == RowsOf(p, n, BaseSeq(p, target), target)
              IN  IF rows = {} THEN BaseState(p, target)[n] ELSE Newest(rows).new) = At(h, target)[n]
  <2> DEFINE rows == RowsOf(p, n, b, target)
  <2>1. CASE rows = {}
    <3>1. At(h, target)[n] = At(h, b)[n]
      BY <1>0, <1>1, <2>1, NoRowNoChange DEF b
    <3> QED
      BY <1>1, <2>1, <3>1 DEF b
  <2>2. CASE rows # {}
    <3>1. \A r \in rows : /\ r \in p.journal /\ r.node = n /\ r.seq > b /\ r.seq <= target
                          /\ r.seq \in 1 .. p.head /\ r.seq \in Nat /\ r.new = At(h, r.seq)[n]
      BY <1>0 DEF RowsOf, RowSound, Images
    <3>2. Newest(rows) \in rows /\ \A y \in rows : y.seq <= Newest(rows).seq
      BY <1>0, <2>2, <3>1, NewestIs
    <3> DEFINE m == Newest(rows).seq
    <3>3. m \in 0 .. p.head /\ m <= target /\ m > b /\ Newest(rows).new = At(h, m)[n]
      BY <1>0, <3>1, <3>2
    <3>4. RowsOf(p, n, m, target) = {}
      <4> SUFFICES ASSUME NEW r \in RowsOf(p, n, m, target) PROVE FALSE
        OBVIOUS
      <4>1. r \in p.journal /\ r.node = n /\ r.seq > m /\ r.seq <= target /\ r.seq \in Nat
        BY DEF RowsOf, RowSound, Row, JournalRow
      <4>2. r \in rows
        BY <1>0, <1>1, <3>3, <4>1 DEF RowsOf
      <4> QED
        BY <1>0, <3>2, <3>3, <4>1, <4>2
    <3>5. \A k \in m + 1 .. target : Journalled(p, k)
      BY <1>0, <1>1, <3>3 DEF b
    <3> HIDE DEF m
    <3>6. At(h, target)[n] = At(h, m)[n]
      BY <1>0, <3>3, <3>4, <3>5, NoRowNoChange
    <3> QED
      BY <2>2, <3>3, <3>6 DEF b
  <2> QED
    BY <2>1, <2>2
<1> QED
  BY <1>2, <1>3 DEF Replay, State

\* The head of a row is the state of its last command: it can always be replayed.
LEMMA HeadIs ==
    ASSUME NEW p, NEW h, RowSound(p, h)
    PROVE  HeadState(p) = At(h, p.head)
<1>1. p.head \in Nat /\ \A s \in p.snaps : s.seq \in 1 .. p.head
  BY DEF RowSound, Row, SnapsTrue
<1>2. BaseSeq(p, p.head) \in 0 .. p.head /\ \A s \in p.snaps : s.seq <= BaseSeq(p, p.head)
  BY <1>1, BaseIs
<1>3. ASSUME NEW k \in BaseSeq(p, p.head) + 1 .. p.head PROVE Journalled(p, k)
  <2>1. k \in 1 .. p.head /\ \A s \in p.snaps : s.seq < k
    BY <1>1, <1>2
  <2> QED
    BY <2>1 DEF RowSound, TailKept
<1> QED
  BY <1>1, <1>3, ReplayGives DEF HeadState

--------------------------------------------------------------------------------
(* The steps of a transaction keep a row sound *)

\* The history after one more command.
LEMMA HistoryGrows ==
    ASSUME NEW h \in Seq(State), NEW cur \in State
    PROVE  /\ Append(h, cur) \in Seq(State) /\ Len(Append(h, cur)) = Len(h) + 1 /\ Len(h) \in Nat
           /\ \A k \in 0 .. Len(h) : At(Append(h, cur), k) = At(h, k)
           /\ At(Append(h, cur), Len(h) + 1) = cur
BY DEF At

\* A command gets one row for every node it changed, with the images of that node.
LEMMA CommandRowsAre ==
    ASSUME NEW p, NEW h, RowSound(p, h), NEW cur \in State, NEW now
    PROVE  \E N \in SUBSET Node :
             /\ \A n \in Node : cur[n] # At(h, p.head)[n] => n \in N
             /\ p.head = 0 => Settings \in N
             /\ CommandRows(p, cur, now) =
                  {[seq |-> p.head + 1, node |-> n, old |-> At(h, p.head)[n], new |-> cur[n], at |-> now] : n \in N}
<1>1. (IF p.head = 0 THEN EmptyState ELSE HeadState(p)) = At(h, p.head)
  BY HeadIs DEF At
<1>2. CASE p.head = 0
  <2>1. \A n \in Node : cur[n] # At(h, p.head)[n] => n \in ImportNodes(cur)
    BY <1>2 DEF At, EmptyState, ImportNodes
  <2>2. ImportNodes(cur) \in SUBSET Node /\ Settings \in ImportNodes(cur)
    BY LibraryAssumption DEF ImportNodes
  <2> QED
    BY <1>1, <1>2, <2>1, <2>2 DEF CommandRows
<1>3. CASE p.head # 0
  <2>1. \A n \in Node : cur[n] # At(h, p.head)[n] => n \in DiffNodes(At(h, p.head), cur)
    BY DEF DiffNodes
  <2>2. DiffNodes(At(h, p.head), cur) \in SUBSET Node
    BY DEF DiffNodes
  <2> QED
    BY <1>1, <1>3, <2>1, <2>2 DEF CommandRows
<1> QED
  BY <1>2, <1>3

\* A save that has nothing to write finds its project at the head.
LEMMA NoopSaveIsHead ==
    ASSUME NEW p, NEW h, RowSound(p, h), NEW cur \in State, NEW now, IsNoopSave(p, cur, now)
    PROVE  p.head > 0 /\ h[p.head] = cur
<1>1. PICK N \in SUBSET Node :
             /\ \A n \in Node : cur[n] # At(h, p.head)[n] => n \in N
             /\ p.head = 0 => Settings \in N
             /\ CommandRows(p, cur, now) =
                  {[seq |-> p.head + 1, node |-> n, old |-> At(h, p.head)[n], new |-> cur[n], at |-> now] : n \in N}
  BY CommandRowsAre
<1>2. N = {}
  BY <1>1 DEF IsNoopSave
<1>3. p.head \in Nat /\ h \in Seq(State) /\ Len(h) = p.head
  BY DEF RowSound, Row
<1>4. p.head > 0
  BY <1>1, <1>2, <1>3
<1>5. At(h, p.head) \in State /\ \A n \in Node : cur[n] = At(h, p.head)[n]
  BY <1>1, <1>2, <1>3, AtIsState
<1> QED
  BY <1>3, <1>4, <1>5 DEF State, At

\* The journal, the head and the settings of a save.
LEMMA RecordKeeps ==
    ASSUME NEW p, NEW h, RowSound(p, h), NEW cur \in State, NEW now \in Nat, ~IsNoopSave(p, cur, now)
    PROVE  /\ RowSound(Record(p, CommandRows(p, cur, now), cur), Append(h, cur))
           /\ Record(p, CommandRows(p, cur, now), cur).head = p.head + 1
<1> DEFINE H == Append(h, cur)
           rows == CommandRows(p, cur, now)
           q == Record(p, rows, cur)
<1>1. p \in Row /\ p.head \in Nat /\ h \in Seq(State) /\ Len(h) = p.head
  BY DEF RowSound, Row
<1>2. /\ H \in Seq(State) /\ Len(H) = p.head + 1
      /\ \A k \in 0 .. p.head : At(H, k) = At(h, k)
      /\ At(H, p.head + 1) = cur
  BY <1>1, HistoryGrows
<1>3. PICK N \in SUBSET Node :
             /\ \A n \in Node : cur[n] # At(h, p.head)[n] => n \in N
             /\ p.head = 0 => Settings \in N
             /\ rows = {[seq |-> p.head + 1, node |-> n, old |-> At(h, p.head)[n], new |-> cur[n], at |-> now] : n \in N}
  BY CommandRowsAre
<1>4. At(h, p.head) \in State
  BY <1>1, AtIsState
<1>5. rows \subseteq JournalRow
  BY <1>1, <1>3, <1>4 DEF JournalRow, State
<1>6. /\ \A r \in rows : r.seq = p.head + 1 /\ r.at = now /\ r.node \in Node
                         /\ r.old = At(h, p.head)[r.node] /\ r.new = cur[r.node]
      /\ \A n \in N : \E r \in rows : r.seq = p.head + 1 /\ r.node = n
  <2> DEFINE row(n) == [seq |-> p.head + 1, node |-> n, old |-> At(h, p.head)[n], new |-> cur[n], at |-> now]
  <2>1. rows = {row(n) : n \in N}
    BY <1>3
  <2>2. \A n \in N : /\ row(n).seq = p.head + 1 /\ row(n).at = now /\ row(n).node = n /\ n \in Node
                      /\ row(n).old = At(h, p.head)[row(n).node] /\ row(n).new = cur[row(n).node]
    OBVIOUS
  <2> HIDE DEF row, rows
  <2> QED
    BY <2>1, <2>2
<1>e. rows # {} /\ cur[Settings] \in Content \cup {None}
  BY LibraryAssumption DEF IsNoopSave, State
<1> HIDE DEF rows
<1>7. /\ q.journal = p.journal \cup rows /\ q.head = p.head + 1 /\ q.settings = cur[Settings]
      /\ q.snaps = p.snaps /\ q \in Row
  <2>1. q = [p EXCEPT !.journal = p.journal \cup rows, !.head = p.head + 1, !.settings = cur[Settings]]
    BY <1>1 DEF Record, Row
  <2>2. p.journal \cup rows \in SUBSET JournalRow /\ p.head + 1 \in Nat
    BY <1>1, <1>5 DEF Row
  <2> HIDE DEF q
  <2> QED
    BY <1>1, <1>e, <2>1, <2>2 DEF Row
<1> HIDE DEF H, q
<1>8. \A r \in p.journal : r.seq \in 1 .. p.head
  BY DEF RowSound, Images
<1>9. Images(q, H)
  <2>1. ASSUME NEW r \in p.journal
        PROVE  r.seq \in 1 .. q.head /\ r.old = At(H, r.seq - 1)[r.node] /\ r.new = At(H, r.seq)[r.node]
    <3>1. r.seq \in 1 .. p.head /\ r.old = At(h, r.seq - 1)[r.node] /\ r.new = At(h, r.seq)[r.node]
      BY DEF RowSound, Images
    <3>2. r.seq \in 0 .. p.head /\ r.seq - 1 \in 0 .. p.head /\ r.seq \in 1 .. p.head + 1
      BY <1>1, <3>1
    <3> QED
      BY <1>2, <1>7, <3>1, <3>2
  <2>2. ASSUME NEW r \in rows
        PROVE  r.seq \in 1 .. q.head /\ r.old = At(H, r.seq - 1)[r.node] /\ r.new = At(H, r.seq)[r.node]
    <3>1. r.seq - 1 = p.head /\ p.head \in 0 .. p.head /\ r.seq \in 1 .. p.head + 1
      BY <1>1, <1>6
    <3> QED
      BY <1>2, <1>6, <1>7, <3>1
  <2> QED
    BY <1>7, <2>1, <2>2 DEF Images
<1>10. \A k \in 1 .. p.head : Journalled(q, k) <=> Journalled(p, k)
  BY <1>1, <1>6, <1>7 DEF Journalled
<1>11. Complete(q, H)
  <2> SUFFICES ASSUME NEW k \in 1 .. p.head + 1, Journalled(q, k), NEW n \in Node, At(H, k)[n] # At(H, k - 1)[n]
               PROVE  \E r \in q.journal : r.seq = k /\ r.node = n
    BY <1>7 DEF Complete
  <2>1. CASE k = p.head + 1
    <3>1. k - 1 = p.head /\ p.head \in 0 .. p.head
      BY <1>1, <2>1
    <3>2. n \in N
      BY <1>2, <1>3, <2>1, <3>1
    <3> QED
      BY <1>6, <1>7, <2>1, <3>2
  <2>2. CASE k # p.head + 1
    <3>1. k \in 1 .. p.head /\ k \in 0 .. p.head /\ k - 1 \in 0 .. p.head
      BY <1>1, <2>2
    <3>2. \E r \in p.journal : r.seq = k /\ r.node = n
      BY <1>2, <1>10, <3>1 DEF RowSound, Complete
    <3> QED
      BY <1>7, <3>2
  <2> QED
    BY <2>1, <2>2
<1>12. Together(q)
  <2>1. \A r \in p.journal, s \in rows : r.seq # s.seq
    BY <1>1, <1>6, <1>8
  <2> QED
    BY <1>6, <1>7, <2>1 DEF Together, RowSound
<1>13. SnapsTrue(q, H)
  <2>1. \A k \in 1 .. p.head : k \in 0 .. p.head /\ k \in 1 .. p.head + 1
    BY <1>1
  <2> QED
    BY <1>2, <1>7, <2>1 DEF SnapsTrue, RowSound
<1>14. TailKept(q)
  <2> SUFFICES ASSUME NEW k \in 1 .. p.head + 1, \A s \in p.snaps : s.seq < k PROVE Journalled(q, k)
    BY <1>7 DEF TailKept
  <2>1. CASE k = p.head + 1
    BY <1>6, <1>7, <1>e, <2>1 DEF Journalled
  <2>2. CASE k # p.head + 1
    <3>1. k \in 1 .. p.head
      BY <1>1, <2>2
    <3> QED
      BY <1>10, <3>1 DEF RowSound, TailKept
  <2> QED
    BY <2>1, <2>2
<1>15. q.head > 0 => q.settings = H[q.head][Settings]
  BY <1>1, <1>2, <1>7 DEF At
<1> QED
  BY <1>2, <1>7, <1>9, <1>11, <1>12, <1>13, <1>14, <1>15 DEF RowSound, H, q, rows

\* A snapshot of the head.
LEMMA WriteSnapshotKeeps ==
    ASSUME NEW p, NEW h, RowSound(p, h), p.head > 0, NEW now \in Nat
    PROVE  /\ RowSound(WriteSnapshot(p, p.head, now), h)
           /\ WriteSnapshot(p, p.head, now).head = p.head
           /\ \E s \in WriteSnapshot(p, p.head, now).snaps : s.seq = p.head
<1> DEFINE q == WriteSnapshot(p, p.head, now)
<1>1. CASE \E s \in p.snaps : s.seq = p.head
  <2>1. q = p
    BY <1>1 DEF WriteSnapshot
  <2> QED
    BY <1>1, <2>1
<1>2. CASE ~\E s \in p.snaps : s.seq = p.head
  <2>1. p \in Row /\ p.head \in Nat /\ h \in Seq(State) /\ Len(h) = p.head
    BY DEF RowSound, Row
  <2>2. Replay(p, p.head) = At(h, p.head) /\ At(h, p.head) \in State
    BY <2>1, HeadIs, AtIsState DEF HeadState
  <2> DEFINE new == [seq |-> p.head, payload |-> At(h, p.head), at |-> now]
  <2>3. new \in Snapshot /\ new.seq = p.head /\ new.payload = At(h, p.head)
    BY <2>1, <2>2 DEF Snapshot
  <2>4. q = [p EXCEPT !.snaps = @ \cup {new}]
    BY <1>2, <2>2 DEF WriteSnapshot
  <2> HIDE DEF new, q
  <2>5. /\ q.snaps = p.snaps \cup {new} /\ q.journal = p.journal /\ q.head = p.head
        /\ q.settings = p.settings /\ q \in Row
    BY <2>1, <2>3, <2>4 DEF Row
  <2>6. Images(q, h) /\ Complete(q, h) /\ Together(q)
    BY <2>5 DEF RowSound, Images, Complete, Journalled, Together
  <2>7. SnapsTrue(q, h)
    BY <2>1, <2>3, <2>5 DEF RowSound, SnapsTrue
  <2>8. TailKept(q)
    BY <2>5 DEF RowSound, TailKept, Journalled
  <2> QED
    BY <2>1, <2>3, <2>5, <2>6, <2>7, <2>8 DEF RowSound, q
<1> QED
  BY <1>1, <1>2

\* Dropping old snapshots keeps the newest, and with it what the journal may forget.
LEMMA PruneSnapshotsKeeps ==
    ASSUME NEW p, NEW h, RowSound(p, h)
    PROVE  /\ RowSound(PruneSnapshots(p), h) /\ PruneSnapshots(p).head = p.head
           /\ (\E s \in p.snaps : s.seq = p.head) => \E s \in PruneSnapshots(p).snaps : s.seq = p.head
<1> DEFINE q == PruneSnapshots(p)
<1>1. p \in Row /\ p.head \in Nat /\ h \in Seq(State) /\ Len(h) = p.head
  BY DEF RowSound, Row
<1>2. \A s \in p.snaps : s.seq \in Nat /\ s.seq <= p.head
  BY <1>1 DEF RowSound, SnapsTrue
<1>3. /\ q.snaps = {s \in p.snaps : Cardinality({t \in p.snaps : t.seq > s.seq}) < SNAPSHOT_KEEP}
      /\ q.journal = p.journal /\ q.head = p.head /\ q.settings = p.settings /\ q \in Row
  BY <1>1 DEF PruneSnapshots, Row
<1> HIDE DEF q
<1>4. \A s \in p.snaps : (\A t \in p.snaps : t.seq <= s.seq) => s \in q.snaps
  <2> SUFFICES ASSUME NEW s \in p.snaps, \A t \in p.snaps : t.seq <= s.seq PROVE s \in q.snaps
    OBVIOUS
  <2>1. {t \in p.snaps : t.seq > s.seq} = {}
    BY <1>2
  <2>2. Cardinality({}) < SNAPSHOT_KEEP
    BY FS_EmptySet, LibraryAssumption
  <2> QED
    BY <1>3, <2>1, <2>2
<1>5. Images(q, h) /\ Complete(q, h) /\ Together(q)
  BY <1>3 DEF RowSound, Images, Complete, Journalled, Together
<1>6. SnapsTrue(q, h)
  BY <1>3 DEF RowSound, SnapsTrue
<1>7. TailKept(q)
  <2> SUFFICES ASSUME NEW k \in 1 .. p.head, \A s \in q.snaps : s.seq < k PROVE Journalled(p, k)
    BY <1>3 DEF TailKept, Journalled
  <2>1. CASE p.snaps = {}
    BY <2>1 DEF RowSound, TailKept
  <2>2. CASE p.snaps # {}
    <3>1. Newest(p.snaps) \in p.snaps /\ \A y \in p.snaps : y.seq <= Newest(p.snaps).seq
      BY <1>1, <1>2, <2>2, NewestIs
    <3>2. Newest(p.snaps).seq < k /\ k \in Nat
      BY <1>1, <1>4, <3>1
    <3>3. \A s \in p.snaps : s.seq < k
      BY <1>2, <3>1, <3>2
    <3> QED
      BY <3>3 DEF RowSound, TailKept
  <2> QED
    BY <2>1, <2>2
<1>8. (\E s \in p.snaps : s.seq = p.head) => \E s \in q.snaps : s.seq = p.head
  BY <1>2, <1>4
<1> QED
  BY <1>1, <1>3, <1>5, <1>6, <1>7, <1>8 DEF RowSound, q

\* The retention drops whole commands, all of them at or before the newest snapshot.
LEMMA RetentionPruneKeeps ==
    ASSUME NEW p, NEW h, RowSound(p, h), NEW now \in Nat
    PROVE  /\ RowSound(RetentionPrune(p, now), h) /\ RetentionPrune(p, now).head = p.head
           /\ RetentionPrune(p, now).snaps = p.snaps
<1> DEFINE q == RetentionPrune(p, now)
<1>1. CASE RetentionDays <= 0 \/ p.snaps = {}
  <2>1. q = p
    BY <1>1 DEF RetentionPrune
  <2> QED
    BY <2>1
<1>2. CASE ~(RetentionDays <= 0 \/ p.snaps = {})
  <2>1. p \in Row /\ p.head \in Nat /\ h \in Seq(State) /\ Len(h) = p.head
    BY DEF RowSound, Row
  <2> DEFINE old(r) == r.seq <= Newest(p.snaps).seq /\ r.at < now - RetentionDays
  <2>2. q = [p EXCEPT !.journal = {r \in @ : ~old(r)}]
    BY <1>2 DEF RetentionPrune
  <2>3. /\ q.journal = {r \in p.journal : ~old(r)} /\ q.snaps = p.snaps /\ q.head = p.head
        /\ q.settings = p.settings /\ q \in Row
    BY <2>1, <2>2 DEF Row
  <2> HIDE DEF q
  <2>4. \A r, s \in p.journal : r.seq = s.seq => (old(r) <=> old(s))
    BY DEF RowSound, Together
  <2>5. \A k : Journalled(q, k) => Journalled(p, k) /\ \A r \in p.journal : r.seq = k => r \in q.journal
    BY <2>3, <2>4 DEF Journalled
  <2>6. Images(q, h) /\ Together(q) /\ SnapsTrue(q, h)
    BY <2>3 DEF RowSound, Images, Together, SnapsTrue
  <2>7. Complete(q, h)
    BY <2>3, <2>5 DEF RowSound, Complete
  <2>8. TailKept(q)
    <3> SUFFICES ASSUME NEW k \in 1 .. p.head, \A s \in p.snaps : s.seq < k PROVE Journalled(q, k)
      BY <2>3 DEF TailKept
    <3>1. PICK r \in p.journal : r.seq = k
      BY DEF RowSound, TailKept, Journalled
    <3>2. \A s \in p.snaps : s.seq \in Nat /\ s.seq <= p.head
      BY <2>1 DEF RowSound, SnapsTrue
    <3>3. Newest(p.snaps) \in p.snaps
      BY <1>2, <2>1, <3>2, NewestIs
    <3>4. ~old(r)
      BY <2>1, <3>1, <3>2, <3>3
    <3> QED
      BY <2>3, <3>1, <3>4 DEF Journalled
  <2> QED
    BY <2>1, <2>3, <2>6, <2>7, <2>8 DEF RowSound, q
<1> QED
  BY <1>1, <1>2

\* A save leaves a sound row whose history is one command longer, or the same.
LEMMA SaveTxKeeps ==
    ASSUME NEW p, NEW h, RowSound(p, h), NEW cur \in State, NEW now \in Nat
    PROVE  /\ IsNoopSave(p, cur, now) => SaveTx(p, cur, now) = p
           /\ ~IsNoopSave(p, cur, now) =>
                /\ RowSound(SaveTx(p, cur, now), Append(h, cur))
                /\ SaveTx(p, cur, now).head = p.head + 1
<1>1. IsNoopSave(p, cur, now) => SaveTx(p, cur, now) = p
  BY DEF SaveTx
<1>2. ASSUME ~IsNoopSave(p, cur, now)
      PROVE  /\ RowSound(SaveTx(p, cur, now), Append(h, cur))
             /\ SaveTx(p, cur, now).head = p.head + 1
  <2> DEFINE q == Record(p, CommandRows(p, cur, now), cur)
  <2>1. RowSound(q, Append(h, cur)) /\ q.head = p.head + 1 /\ q.head > 0
    <3>1. RowSound(q, Append(h, cur)) /\ q.head = p.head + 1
      BY <1>2, RecordKeeps
    <3>2. p.head \in Nat
      BY DEF RowSound, Row
    <3> QED
      BY <3>1, <3>2
  <2> HIDE DEF q
  <2>2. RowSound(MaybeSnapshot(q, now), Append(h, cur)) /\ MaybeSnapshot(q, now).head = p.head + 1
    <3>1. MaybeSnapshot(q, now) = q \/ MaybeSnapshot(q, now) = PruneSnapshots(WriteSnapshot(q, q.head, now))
      BY DEF MaybeSnapshot
    <3>2. /\ RowSound(WriteSnapshot(q, q.head, now), Append(h, cur))
          /\ WriteSnapshot(q, q.head, now).head = p.head + 1
      BY <2>1, WriteSnapshotKeeps
    <3>3. /\ RowSound(PruneSnapshots(WriteSnapshot(q, q.head, now)), Append(h, cur))
          /\ PruneSnapshots(WriteSnapshot(q, q.head, now)).head = p.head + 1
      BY <3>2, PruneSnapshotsKeeps
    <3> QED
      BY <2>1, <3>1, <3>3
  <2>3. SaveTx(p, cur, now) = RetentionPrune(MaybeSnapshot(q, now), now)
    BY <1>2 DEF SaveTx, q
  <2> QED
    BY <2>2, <2>3, RetentionPruneKeeps
<1> QED
  BY <1>1, <1>2

\* A snapshot keeps the head and its state, and covers it.
LEMMA SnapshotTxKeeps ==
    ASSUME NEW p, NEW h, RowSound(p, h), p.head > 0, NEW now \in Nat
    PROVE  /\ RowSound(SnapshotTx(p, now), h) /\ SnapshotTx(p, now).head = p.head
           /\ \E s \in SnapshotTx(p, now).snaps : s.seq = p.head
<1>1. /\ RowSound(WriteSnapshot(p, p.head, now), h)
      /\ WriteSnapshot(p, p.head, now).head = p.head
      /\ \E s \in WriteSnapshot(p, p.head, now).snaps : s.seq = p.head
  BY WriteSnapshotKeeps
<1> QED
  BY <1>1, PruneSnapshotsKeeps DEF SnapshotTx

\* The empty row is sound.
LEMMA NoRowSound == RowSound(NoRow, << >>)
<1>1. /\ NoRow.head = 0 /\ NoRow.journal = {} /\ NoRow.snaps = {} /\ NoRow \in Row
  BY DEF NoRow, Row
<1>2. << >> \in Seq(State) /\ Len(<< >>) = 0
  OBVIOUS
<1> QED
  BY <1>1, <1>2 DEF RowSound, Images, Complete, Together, SnapsTrue, TailKept

--------------------------------------------------------------------------------
(* The operations *)

\* The inductive invariant of the library: every row is sound, and fits the bounds
LibSound ==
    /\ lib \in [Uuid -> Row] /\ hist \in [Uuid -> Seq(State)] /\ clock \in 0 .. MaxClock
    /\ asked \in [Uuid -> State \cup {None}]
    /\ \A u \in Uuid : RowSound(lib[u], hist[u]) /\ lib[u].head <= MaxSeq

\* It implies the types of the library.
LEMMA SoundTypes == LibSound => LibraryTypeOK
<1> SUFFICES ASSUME LibSound, NEW u \in Uuid
             PROVE  /\ lib[u].head \in 0 .. MaxSeq /\ lib[u].journal \subseteq JournalRow
                    /\ lib[u].snaps \subseteq Snapshot /\ lib[u].settings \in Content \cup {None}
                    /\ hist[u] \in Seq(State) /\ Len(hist[u]) = lib[u].head
  BY DEF LibSound, LibraryTypeOK
<1>1. RowSound(lib[u], hist[u]) /\ lib[u].head <= MaxSeq /\ MaxSeq \in Nat
  BY LibraryAssumption DEF LibSound
<1>2. lib[u] \in Row /\ hist[u] \in Seq(State) /\ Len(hist[u]) = lib[u].head
  BY <1>1 DEF RowSound
<1> QED
  BY <1>1, <1>2 DEF Row

\* It implies that journal rows carry the images of their nodes.
LEMMA SoundImages == LibSound => JournalImages
<1> SUFFICES ASSUME LibSound, NEW u \in Uuid, NEW r \in lib[u].journal
             PROVE  /\ r.seq \in 1 .. Len(hist[u])
                    /\ r.old = HistoryAt(u, r.seq - 1)[r.node]
                    /\ r.new = HistoryAt(u, r.seq)[r.node]
  BY DEF JournalImages
<1>1. RowSound(lib[u], hist[u])
  BY DEF LibSound
<1> QED
  BY <1>1 DEF RowSound, Images, At, HistoryAt

\* It implies that every command that is still journalled since its base can be loaded.
LEMMA SoundReplay == LibSound => UnbrokenReplay
<1> SUFFICES ASSUME LibSound, NEW u \in Uuid, NEW seq \in 1 .. lib[u].head,
                    \A k \in BaseSeq(lib[u], seq) + 1 .. seq : ~Pruned(u, k)
             PROVE  LoadAt(u, seq) = HistoryAt(u, seq)
  BY DEF UnbrokenReplay
<1>1. RowSound(lib[u], hist[u]) /\ lib[u].head \in Nat
  BY DEF LibSound, RowSound, Row
<1>2. \A k \in BaseSeq(lib[u], seq) + 1 .. seq : Journalled(lib[u], k)
  BY DEF Pruned, Journalled
<1>3. seq \in 0 .. lib[u].head
  BY <1>1
<1>4. Replay(lib[u], seq) = At(hist[u], seq)
  BY <1>1, <1>2, <1>3, ReplayGives
<1> QED
  BY <1>4 DEF LoadAt, HistoryAt, At

\* An empty library is sound.
LEMMA LibraryInitSound == LibraryInit => LibSound
<1> SUFFICES ASSUME LibraryInit PROVE LibSound
  OBVIOUS
<1>1. NoRow \in Row /\ << >> \in Seq(State) /\ NoRow.head = 0
  BY NoRowSound DEF RowSound, NoRow
<1>2. \A u \in Uuid : lib[u] = NoRow /\ hist[u] = << >>
  BY DEF LibraryInit
<1>3. clock \in 0 .. MaxClock
  BY LibraryAssumption DEF LibraryInit
<1>4. lib \in [Uuid -> Row] /\ hist \in [Uuid -> Seq(State)] /\ asked \in [Uuid -> State \cup {None}]
  BY <1>1 DEF LibraryInit
<1> QED
  BY <1>1, <1>2, <1>3, <1>4, NoRowSound, LibraryAssumption DEF LibSound

\* One row, its history and what is asked of it change.
LEMMA RowChanges ==
    ASSUME LibSound, NEW u \in Uuid, NEW p, NEW h, RowSound(p, h), p.head <= MaxSeq,
           NEW a \in State \cup {None},
           lib' = [lib EXCEPT ![u] = p], hist' = [hist EXCEPT ![u] = h], asked' = [asked EXCEPT ![u] = a],
           clock' = clock
    PROVE  LibSound' /\ lib'[u] = p /\ hist'[u] = h /\ \A v \in Uuid : v # u => lib'[v] = lib[v]
<1>1. p \in Row /\ h \in Seq(State)
  BY DEF RowSound
<1>2. /\ lib'[u] = p /\ hist'[u] = h
      /\ \A v \in Uuid : v # u => lib'[v] = lib[v] /\ hist'[v] = hist[v]
      /\ lib' \in [Uuid -> Row] /\ hist' \in [Uuid -> Seq(State)] /\ asked' \in [Uuid -> State \cup {None}]
  BY <1>1 DEF LibSound
<1> QED
  BY <1>2 DEF LibSound

\* save_project: the row then holds the project, whether or not there was something to write.
LEMMA SaveProjectKeeps ==
    ASSUME LibSound, NEW u \in Uuid, NEW cur \in State, SaveProject(u, cur)
    PROVE  /\ LibSound' /\ clock' = clock
           /\ lib'[u].head > 0 /\ HeadState(lib'[u]) = cur /\ lib'[u].settings = cur[Settings]
           /\ \A v \in Uuid : v # u => lib'[v] = lib[v]
           /\ lib'[u] = lib[u] \/ lib'[u].head = lib[u].head + 1
<1>1. RowSound(lib[u], hist[u]) /\ lib[u].head <= MaxSeq /\ lib[u].head \in Nat /\ clock \in Nat /\ clock' = clock
  BY LibraryAssumption DEF LibSound, RowSound, Row, SaveProject
<1>2. lib' = [lib EXCEPT ![u] = SaveTx(lib[u], cur, clock)]
  BY DEF SaveProject, LibSound
<1>3. CASE IsNoopSave(lib[u], cur, clock)
  <2>1. lib' = lib /\ hist' = hist /\ asked' \in [Uuid -> State \cup {None}]
    BY <1>1, <1>2, <1>3, SaveTxKeeps DEF SaveProject, LibSound
  <2>2. lib[u].head > 0 /\ hist[u][lib[u].head] = cur
    BY <1>1, <1>3, NoopSaveIsHead
  <2>3. HeadState(lib[u]) = cur /\ lib[u].settings = cur[Settings]
    BY <1>1, <2>2, HeadIs DEF At, RowSound
  <2>4. LibSound'
    BY <1>1, <2>1 DEF LibSound
  <2> QED
    BY <1>1, <2>1, <2>2, <2>3, <2>4
<1>4. CASE ~IsNoopSave(lib[u], cur, clock)
  <2> DEFINE q == SaveTx(lib[u], cur, clock)
             h == Append(hist[u], cur)
  <2>1. RowSound(q, h) /\ q.head = lib[u].head + 1
    BY <1>1, <1>4, SaveTxKeeps
  <2>2. lib[u].head < MaxSeq /\ hist' = [hist EXCEPT ![u] = h] /\ asked' = [asked EXCEPT ![u] = cur]
    BY <1>4 DEF SaveProject, LibSound
  <2>3. Len(hist[u]) = lib[u].head /\ hist[u] \in Seq(State)
    BY <1>1 DEF RowSound
  <2>4. h[q.head] = cur
    BY <2>1, <2>3
  <2> HIDE DEF q, h
  <2>5. q.head <= MaxSeq /\ q.head > 0
    BY <1>1, <2>1, <2>2, LibraryAssumption
  <2>6. LibSound' /\ lib'[u] = q /\ \A v \in Uuid : v # u => lib'[v] = lib[v]
    BY <1>1, <1>2, <2>1, <2>2, <2>5, RowChanges DEF q
  <2>7. HeadState(q) = cur /\ q.settings = cur[Settings]
    BY <1>1, <2>1, <2>4, <2>5, HeadIs DEF At, RowSound
  <2> QED
    BY <1>1, <2>1, <2>5, <2>6, <2>7
<1> QED
  BY <1>3, <1>4

\* snapshot: the row keeps its head and what a load of it gives, and a snapshot covers it.
LEMMA SnapshotProjectKeeps ==
    ASSUME LibSound, NEW u \in Uuid, SnapshotProject(u)
    PROVE  /\ LibSound' /\ clock' = clock
           /\ lib'[u].head = lib[u].head /\ lib'[u].settings = lib[u].settings
           /\ HeadState(lib'[u]) = HeadState(lib[u])
           /\ \E s \in lib'[u].snaps : s.seq = lib'[u].head
           /\ \A v \in Uuid : v # u => lib'[v] = lib[v]
<1>1. /\ RowSound(lib[u], hist[u]) /\ lib[u].head > 0 /\ lib[u].head <= MaxSeq /\ clock \in Nat /\ clock' = clock
      /\ lib[u] \in Row
  BY LibraryAssumption DEF LibSound, RowSound, SnapshotProject
<1> DEFINE q == SnapshotTx(lib[u], clock)
<1>2. RowSound(q, hist[u]) /\ q.head = lib[u].head /\ \E s \in q.snaps : s.seq = lib[u].head
  BY <1>1, SnapshotTxKeeps
<1>3. /\ lib' = [lib EXCEPT ![u] = q] /\ hist' = [hist EXCEPT ![u] = hist[u]]
      /\ asked' = [asked EXCEPT ![u] = asked[u]] /\ asked[u] \in State \cup {None}
  BY DEF SnapshotProject, LibSound
<1> HIDE DEF q
<1>4. LibSound' /\ lib'[u] = q /\ \A v \in Uuid : v # u => lib'[v] = lib[v]
  BY <1>1, <1>2, <1>3, RowChanges
<1>5. HeadState(q) = HeadState(lib[u])
  BY <1>1, <1>2, HeadIs
<1>6. q.settings = lib[u].settings
  BY <1>1, <1>2 DEF RowSound
<1> QED
  BY <1>1, <1>2, <1>4, <1>5, <1>6

\* delete_project.
LEMMA DeleteProjectKeeps ==
    ASSUME LibSound, NEW u \in Uuid, DeleteProject(u)
    PROVE  LibSound' /\ clock' = clock /\ lib'[u].head = 0 /\ \A v \in Uuid : v # u => lib'[v] = lib[v]
<1>1. NoRow.head = 0 /\ NoRow.head <= MaxSeq
  BY LibraryAssumption DEF NoRow
<1> QED
  BY <1>1, NoRowSound, RowChanges DEF DeleteProject

\* duplicate_project.
LEMMA DuplicateProjectKeeps ==
    ASSUME LibSound, NEW u \in Uuid, NEW v \in Uuid, DuplicateProject(u, v)
    PROVE  LibSound' /\ lib'[v] = lib[u] /\ \A w \in Uuid : w # v => lib'[w] = lib[w]
<1>1. RowSound(lib[u], hist[u]) /\ lib[u].head <= MaxSeq /\ asked[u] \in State \cup {None}
  BY DEF LibSound
<1> QED
  BY <1>1, RowChanges DEF DuplicateProject

\* Time passes.
LEMMA TickKeeps ==
    ASSUME LibSound, Tick
    PROVE  LibSound' /\ lib' = lib
<1>1. clock' \in 0 .. MaxClock /\ lib' = lib /\ hist' = hist /\ asked' = asked
  BY LibraryAssumption DEF LibSound, Tick
<1> QED
  BY <1>1 DEF LibSound

\* Nothing happens to the library.
LEMMA LibraryStutters ==
    ASSUME LibSound, UNCHANGED libVars
    PROVE  LibSound' /\ lib' = lib
BY DEF LibSound, libVars

--------------------------------------------------------------------------------
(* The library under callers in any order: the journal, the replay of every command
   that is still there, and the promise of ProjectStore *)

\* Every step keeps the rows sound.
LEMMA LibraryStepKeeps ==
    ASSUME LibSound, [LibraryNext]_libVars
    PROVE  LibSound'
<1>1. ASSUME NEW u \in Uuid, NEW s \in State, SaveProject(u, s) PROVE LibSound'
  BY <1>1, SaveProjectKeeps
<1>2. ASSUME NEW u \in Uuid, SnapshotProject(u) PROVE LibSound'
  BY <1>2, SnapshotProjectKeeps
<1>3. ASSUME NEW u \in Uuid, DeleteProject(u) PROVE LibSound'
  BY <1>3, DeleteProjectKeeps
<1>4. ASSUME NEW u \in Uuid, NEW v \in Uuid, DuplicateProject(u, v) PROVE LibSound'
  BY <1>4, DuplicateProjectKeeps
<1>5. CASE Tick
  BY <1>5, TickKeeps
<1>6. CASE UNCHANGED libVars
  BY <1>6, LibraryStutters
<1> QED
  BY <1>1, <1>2, <1>3, <1>4, <1>5, <1>6 DEF LibraryNext

\* The rows of every reachable library are sound.
LEMMA LibraryIsSound == LibrarySpec => []LibSound
BY LibraryInitSound, LibraryStepKeeps, PTL DEF LibrarySpec

\* The rows, the journal and the snapshots of the library keep their types, whatever the
\* callers do, and a row has one command per saved state.
THEOREM LibraryTypeCorrect == LibrarySpec => []LibraryTypeOK
BY LibraryIsSound, SoundTypes, PTL

\* Every journal row carries the image of its node before and after its command, whatever
\* was snapshotted, pruned, copied or deleted (diff_rows, write_journal_rows).
THEOREM ImagesCorrect == LibrarySpec => []JournalImages
BY LibraryIsSound, SoundImages, PTL

\* Loading a command whose rows since the snapshot it starts from are all there gives the
\* project as that command left it, for any snapshot and retention policy (replay_state,
\* retention_prune).
THEOREM ReplayCorrect == LibrarySpec => []UnbrokenReplay
BY LibraryIsSound, SoundReplay, PTL

--------------------------------------------------------------------------------
(* The refinement of ProjectStore *)

Promised == [Store!Next]_<<asked, Stored>>

\* What one row stores.
StoredRow(p) == IF p.head = 0 THEN None ELSE [project |-> HeadState(p), settings |-> p.settings]

\* A stored row is not the absent one.
LEMMA StoredIsThere ==
    ASSUME LibSound, NEW u \in Uuid, lib[u].head > 0
    PROVE  Stored[u] # None
<1>1. RowSound(lib[u], hist[u]) /\ lib[u] \in Row /\ hist[u] \in Seq(State) /\ Len(hist[u]) = lib[u].head
  BY DEF LibSound, RowSound
<1>2. HeadState(lib[u]) \in State
  <2>1. lib[u].head \in 0 .. Len(hist[u])
    BY <1>1 DEF Row
  <2> QED
    BY <1>1, <2>1, HeadIs, AtIsState
<1>3. lib[u].settings \in Content \cup {None} /\ lib[u].head # 0
  BY <1>1 DEF Row
<1>4. Stored[u] = [project |-> HeadState(lib[u]), settings |-> lib[u].settings]
  BY <1>3 DEF Stored
<1>5. Stored[u] \in [project: State, settings: Content \cup {None}]
  BY <1>2, <1>3, <1>4
<1> QED
  BY <1>5, LibraryAssumption DEF State

\* Every step of the library is a step of the store, or none.
LEMMA StepPromised ==
    ASSUME LibSound, [LibraryNext]_libVars
    PROVE  Promised
<1>0. /\ \A u \in Uuid : Stored[u] = StoredRow(lib[u]) /\ Stored'[u] = StoredRow(lib'[u])
      /\ Stored = [u \in Uuid |-> Stored[u]] /\ Stored' = [u \in Uuid |-> Stored'[u]]
  BY DEF Stored, StoredRow
<1>1. ASSUME NEW u \in Uuid, NEW s \in State, SaveProject(u, s) PROVE Promised
  <2>1. /\ lib'[u].head > 0 /\ HeadState(lib'[u]) = s /\ lib'[u].settings = s[Settings]
        /\ \A v \in Uuid : v # u => lib'[v] = lib[v]
    BY <1>1, SaveProjectKeeps
  <2>2. Stored'[u] = Store!Entry(s)
    BY <1>0, <2>1 DEF StoredRow, Store!Entry
  <2>3. Stored' = [Stored EXCEPT ![u] = Store!Entry(s)]
    BY <1>0, <2>1, <2>2 DEF Stored
  <2> QED
    BY <1>1, <2>3 DEF Promised, Store!Next, Store!Save, SaveProject
<1>2. ASSUME NEW u \in Uuid, SnapshotProject(u) PROVE Promised
  <2>1. /\ lib'[u].head = lib[u].head /\ HeadState(lib'[u]) = HeadState(lib[u])
        /\ lib'[u].settings = lib[u].settings
        /\ \A v \in Uuid : v # u => lib'[v] = lib[v]
    BY <1>2, SnapshotProjectKeeps
  <2>2. Stored' = Stored
    BY <1>0, <2>1 DEF StoredRow
  <2> QED
    BY <1>2, <2>2 DEF Promised, SnapshotProject
<1>3. ASSUME NEW u \in Uuid, DeleteProject(u) PROVE Promised
  <2>1. lib'[u].head = 0 /\ \A v \in Uuid : v # u => lib'[v] = lib[v]
    BY <1>3, DeleteProjectKeeps
  <2>2. Stored[u] # None
    BY <1>3, StoredIsThere DEF DeleteProject
  <2>3. Stored' = [Stored EXCEPT ![u] = None]
    BY <1>0, <2>1 DEF Stored, StoredRow
  <2> QED
    BY <1>3, <2>2, <2>3 DEF Promised, Store!Next, Store!Delete, DeleteProject
<1>4. ASSUME NEW u \in Uuid, NEW v \in Uuid, DuplicateProject(u, v) PROVE Promised
  <2>1. lib'[v] = lib[u] /\ \A w \in Uuid : w # v => lib'[w] = lib[w]
    BY <1>4, DuplicateProjectKeeps
  <2>2. Stored[u] # None
    BY <1>4, StoredIsThere DEF DuplicateProject
  <2>3. Stored[v] = None
    BY <1>0, <1>4 DEF StoredRow, DuplicateProject
  <2>4. Stored' = [Stored EXCEPT ![v] = Stored[u]]
    BY <1>0, <2>1 DEF Stored, StoredRow
  <2> QED
    BY <1>4, <2>2, <2>3, <2>4 DEF Promised, Store!Next, Store!Duplicate, DuplicateProject
<1>5. ASSUME lib' = lib, asked' = asked PROVE Promised
  BY <1>5 DEF Promised, Stored
<1>6. Tick \/ UNCHANGED libVars => lib' = lib /\ asked' = asked
  BY DEF Tick, libVars
<1> QED
  BY <1>1, <1>2, <1>3, <1>4, <1>5, <1>6 DEF LibraryNext

\* The library implements the abstract store: what a load of the head gives is the very
\* project the last save of the row was called with and its settings, also after a save
\* that wrote nothing; a snapshot, pruning and retention change no node of it, for any
\* policy (save_tx_once, replay_state).
THEOREM StoreImplemented == LibrarySpec => StoresWhatWasSaved
<1>1. LibraryInit => Store!Init
  BY DEF LibraryInit, NoRow, Stored, Store!Init
<1> QED
  BY <1>1, StepPromised, LibraryIsSound, PTL DEF LibrarySpec, StoresWhatWasSaved, Store!Spec, Store!vars, Promised
================================================================================
