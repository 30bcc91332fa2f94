--------------------------------- MODULE Library ---------------------------------
(* The project library (oak-storage, backends/database): a row per project, a
   journal of the nodes each command changed, full snapshots, and the retention
   of both.  Every operation runs in one transaction under the backend's
   op_lock, so each is one step; the callers (the write-through session, the
   snapshot thread, the library manager, the command line) come in any order.

   A project is a function from nodes to their serialised form; the settings
   element is the node Settings, as in the journal (SETTINGS_NODE), and None is
   both an absent node and the empty settings element.  A committed row has
   command_seq >= 1, so head = 0 stands for "no row". *)
EXTENDS Integers, FiniteSets, Sequences

CONSTANTS
    Uuid, Node, Settings,   \* rows; graph identities; the settings pseudo-node
    Content, None,          \* serialised nodes; an absent one
    SNAPSHOT_KEEP,          \* snapshots that pruning keeps
    SnapshotInterval,       \* Storage/SnapshotIntervalSec, in clock ticks
    RetentionDays,          \* Storage/JournalRetentionDays, in clock ticks
    MaxSeq, MaxClock        \* bounds on the commands of a row and on time

ASSUME LibraryAssumption ==
    /\ Settings \in Node
    /\ None \notin Content
    /\ None \notin [project: [Node -> Content \cup {None}], settings: Content \cup {None}]
    /\ SNAPSHOT_KEEP \in Nat \ {0}
    /\ SnapshotInterval \in Int
    /\ RetentionDays \in Int
    /\ MaxSeq \in Nat
    /\ MaxClock \in Nat

VARIABLES
    lib,    \* the rows of the database
    clock,  \* wall-clock time
    hist,   \* history variable: the states saved under each row, one per command
    asked   \* history variable: what the callers last asked each row to hold

State == [Node -> Content \cup {None}]
EmptyState == [n \in Node |-> None]
JournalRow == [seq: Nat, node: Node, old: Content \cup {None},
               new: Content \cup {None}, at: Nat]
Snapshot == [seq: Nat, payload: State, at: Nat]
NoRow == [head |-> 0, journal |-> {}, snaps |-> {}, settings |-> None]

LibraryTypeOK ==
    /\ \A u \in Uuid :
        /\ lib[u].head \in 0 .. MaxSeq
        /\ lib[u].journal \subseteq JournalRow
        /\ lib[u].snaps \subseteq Snapshot
        /\ lib[u].settings \in Content \cup {None}
        /\ hist[u] \in Seq(State)
        /\ Len(hist[u]) = lib[u].head
    /\ DOMAIN lib = Uuid
    /\ DOMAIN hist = Uuid
    /\ asked \in [Uuid -> State \cup {None}]
    /\ clock \in 0 .. MaxClock

LibraryInit ==
    /\ lib = [u \in Uuid |-> NoRow]
    /\ clock = 0
    /\ hist = [u \in Uuid |-> << >>]
    /\ asked = [u \in Uuid |-> None]

--------------------------------------------------------------------------------
(* Replay *)

Newest(S) == CHOOSE x \in S : \A y \in S : y.seq <= x.seq

\* replay_state: the newest snapshot at or before `target`, or the empty project
SnapsUpTo(p, target) == {s \in p.snaps : s.seq <= target}
BaseSeq(p, target) ==
    IF SnapsUpTo(p, target) = {} THEN 0 ELSE Newest(SnapsUpTo(p, target)).seq
BaseState(p, target) ==
    IF SnapsUpTo(p, target) = {} THEN EmptyState ELSE Newest(SnapsUpTo(p, target)).payload

\* replay_state: then the journal rows after it, in order; the last row of a node decides
RowsOf(p, n, from, target) ==
    {r \in p.journal : r.node = n /\ r.seq > from /\ r.seq <= target}
Replay(p, target) ==
    [n \in Node |->
        LET rows == RowsOf(p, n, BaseSeq(p, target), target)
        IN  IF rows = {} THEN BaseState(p, target)[n] ELSE Newest(rows).new]

HeadState(p) == Replay(p, p.head)

--------------------------------------------------------------------------------
(* The steps of a transaction *)

WriteSnapshot(p, seq, now) ==
    IF \E s \in p.snaps : s.seq = seq THEN p
    ELSE [p EXCEPT !.snaps = @ \cup {[seq |-> seq, payload |-> Replay(p, seq), at |-> now]}]

PruneSnapshots(p) ==
    [p EXCEPT !.snaps = {s \in @ : Cardinality({t \in @ : t.seq > s.seq}) < SNAPSHOT_KEEP}]

MaybeSnapshot(p, now) ==
    LET last == Newest(p.snaps)
        due == \/ p.snaps = {}
               \/ /\ last.seq < p.head
                  /\ SnapshotInterval <= 0 \/ now - last.at >= SnapshotInterval
    IN  IF due THEN PruneSnapshots(WriteSnapshot(p, p.head, now)) ELSE p

\* Mutant: also drops rows that no snapshot covers
RetentionPruneUncovered(p, now) ==
    IF RetentionDays <= 0 \/ p.snaps = {} THEN p
    ELSE [p EXCEPT !.journal = {r \in @ : ~(r.at < now - RetentionDays)}]

RetentionPrune(p, now) ==
    IF RetentionDays <= 0 \/ p.snaps = {} THEN p
    ELSE [p EXCEPT !.journal =
            {r \in @ : ~(r.seq <= Newest(p.snaps).seq /\ r.at < now - RetentionDays)}]

\* Mutant: a removed node gets no row
DiffNodesKeepsRemoved(prev, cur) == {n \in Node : cur[n] # None /\ prev[n] # cur[n]}

\* diff_rows against the replayed head; a first entry carries every node and the settings
DiffNodes(prev, cur) == {n \in Node : prev[n] # cur[n]}
ImportNodes(cur) == {n \in Node : cur[n] # None} \cup {Settings}

\* Mutant: a diff against the last snapshot
CommandRowsSinceSnapshot(p, cur, now) ==
    LET prev == BaseState(p, p.head)
    IN  {[seq |-> p.head + 1, node |-> n, old |-> prev[n], new |-> cur[n], at |-> now] :
            n \in DiffNodes(prev, cur) \cup {Settings}}

CommandRows(p, cur, now) ==
    LET prev == IF p.head = 0 THEN EmptyState ELSE HeadState(p)
        nodes == IF p.head = 0 THEN ImportNodes(cur) ELSE DiffNodes(prev, cur)
    IN  {[seq |-> p.head + 1, node |-> n, old |-> prev[n], new |-> cur[n], at |-> now] :
            n \in nodes}

\* save_tx_once up to the snapshot policy: journal, head and settings mirror
Record(p, rows, cur) ==
    [p EXCEPT !.journal = @ \cup rows, !.head = @ + 1, !.settings = cur[Settings]]

IsNoopSave(p, cur, now) == CommandRows(p, cur, now) = {}

SaveTx(p, cur, now) ==
    IF IsNoopSave(p, cur, now) THEN p
    ELSE RetentionPrune(MaybeSnapshot(Record(p, CommandRows(p, cur, now), cur), now), now)

\* the backend's snapshot(): at the head, then prune
SnapshotTx(p, now) == PruneSnapshots(WriteSnapshot(p, p.head, now))

--------------------------------------------------------------------------------
(* Operations *)

SaveProject(u, cur) ==
    /\ IsNoopSave(lib[u], cur, clock) \/ lib[u].head < MaxSeq
    /\ lib' = [lib EXCEPT ![u] = SaveTx(@, cur, clock)]
    /\ hist' = IF IsNoopSave(lib[u], cur, clock) THEN hist
               ELSE [hist EXCEPT ![u] = Append(@, cur)]
    /\ asked' = [asked EXCEPT ![u] = cur]
    /\ UNCHANGED clock

\* fails with NotFound when there is no row: see the callers
SnapshotProject(u) ==
    /\ lib[u].head > 0
    /\ lib' = [lib EXCEPT ![u] = SnapshotTx(@, clock)]
    /\ UNCHANGED <<clock, hist, asked>>

DeleteProject(u) ==
    /\ lib[u].head > 0
    /\ lib' = [lib EXCEPT ![u] = NoRow]
    /\ hist' = [hist EXCEPT ![u] = << >>]
    /\ asked' = [asked EXCEPT ![u] = None]
    /\ UNCHANGED clock

\* new_uuid() is fresh, so the copy never lands on an existing row
DuplicateProject(u, v) ==
    /\ lib[u].head > 0
    /\ lib[v].head = 0
    /\ lib' = [lib EXCEPT ![v] = lib[u]]
    /\ hist' = [hist EXCEPT ![v] = hist[u]]
    /\ asked' = [asked EXCEPT ![v] = asked[u]]
    /\ UNCHANGED clock

\* load_at; load_project and load_project_by_uuid are load_at the head
LoadAt(u, seq) == Replay(lib[u], seq)

Tick ==
    /\ clock < MaxClock
    /\ clock' = clock + 1
    /\ UNCHANGED <<lib, hist, asked>>

libVars == <<lib, clock, hist, asked>>

LibraryNext ==
    \/ \E u \in Uuid :
        \/ \E s \in State : SaveProject(u, s)
        \/ SnapshotProject(u)
        \/ DeleteProject(u)
        \/ \E v \in Uuid : DuplicateProject(u, v)
    \/ Tick

LibrarySpec == LibraryInit /\ [][LibraryNext]_libVars

--------------------------------------------------------------------------------
(* Properties *)

HistoryAt(u, seq) == IF seq = 0 THEN EmptyState ELSE hist[u][seq]
Pruned(u, seq) == ~\E r \in lib[u].journal : r.seq = seq

(* Every journal row carries the image of its node before and after its command,
   so history can be walked in both directions (diff_rows, write_journal_rows). *)
JournalImages ==
    \A u \in Uuid : \A r \in lib[u].journal :
        /\ r.seq \in 1 .. Len(hist[u])
        /\ r.old = HistoryAt(u, r.seq - 1)[r.node]
        /\ r.new = HistoryAt(u, r.seq)[r.node]

(* Loading any command whose rows since the snapshot it starts from are all still
   there gives the project as that command left it, whatever was snapshotted and
   pruned in between; the head is always such a command (replay_state,
   retention_prune). *)
UnbrokenReplay ==
    \A u \in Uuid : \A seq \in 1 .. lib[u].head :
        (\A k \in BaseSeq(lib[u], seq) + 1 .. seq : ~Pruned(u, k))
            => LoadAt(u, seq) = HistoryAt(u, seq)

(* The library implements the abstract store: what a load of the head returns is
   the very project that the last save of its row was called with, also when that
   save found nothing to write; a snapshot, its pruning and the journal retention
   ask for nothing and change no node and no setting of it (replay_state,
   save_tx_once). *)
Stored ==
    [u \in Uuid |-> IF lib[u].head = 0 THEN None
                    ELSE [project |-> HeadState(lib[u]), settings |-> lib[u].settings]]
Store == INSTANCE ProjectStore WITH NoProject <- None, stored <- Stored
StoresWhatWasSaved == Store!Spec
================================================================================
