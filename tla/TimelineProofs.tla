---------------------------- MODULE TimelineProofs -----------------------------
(* The arena under every edit, undo and redo, for any tracks, loaded documents and
   number of edits: the documents and the commands keep their types, and the free list
   names every vacant slot once. *)
EXTENDS Timeline, TLAPS, SequenceTheorems, FiniteSetTheorems, NaturalsInduction

--------------------------------------------------------------------------------
(* Numbers, sets and sequences *)

NatOrder == {ss \in Nat \X Nat : ss[1] < ss[2]}

\* A set of naturals has a least element.
LEMMA Least ==
    ASSUME NEW S, S \subseteq Nat, S # {}
    PROVE  \E m \in S : \A y \in S : m <= y
  <1>1. IsWellFoundedOn(NatOrder, Nat) BY NatLessThanWellFounded DEF OpToRel, NatOrder
  <1>2. PICK m \in S : \A y \in S : <<y, m>> \notin NatOrder BY <1>1, WFMin
  <1>3. ASSUME NEW y \in S PROVE m <= y
    <2>1. m \in Nat /\ y \in Nat OBVIOUS
    <2>2. y < m => <<y, m>> \in NatOrder BY <2>1 DEF NatOrder
    <2> QED BY <1>2, <2>1, <2>2
  <1> QED BY <1>3

\* Min gives the least element of a set of naturals.
LEMMA MinIs ==
    ASSUME NEW S, S \subseteq Nat, S # {}
    PROVE  Min(S) \in S /\ \A y \in S : Min(S) <= y
  <1>1. \E m \in S : \A y \in S : m =< y BY Least
  <1> QED BY <1>1 DEF Min

\* A set of numbers below a bound has a greatest element.
LEMMA MaxIs ==
    ASSUME NEW n \in Nat, NEW S, S \subseteq 0..n, S # {}
    PROVE  Max(S) \in S /\ \A y \in S : Max(S) >= y
  <1> DEFINE T == {n - y : y \in S}
  <1>1. T \subseteq Nat /\ T # {} OBVIOUS
  <1> HIDE DEF T
  <1>2. PICK m \in T : \A y \in T : m <= y BY <1>1, Least
  <1> USE DEF T
  <1>3. PICK x \in S : m = n - x OBVIOUS
  <1>4. ASSUME NEW y \in S PROVE x >= y
    <2>1. n - y \in T OBVIOUS
    <2>2. m <= n - y BY <1>2, <2>1
    <2> QED BY <1>3, <2>2
  <1>5. \E z \in S : \A y \in S : z >= y BY <1>4
  <1> QED BY <1>5 DEF Max

\* A function on the first numbers is a sequence.
LEMMA FunctionIsSeq ==
    ASSUME NEW n \in Nat, NEW S, NEW f \in [1..n -> S]
    PROVE  f \in Seq(S) /\ Len(f) = n
  OBVIOUS

\* kept[i] is what Retain keeps of the first i elements
Keeping(f, n, s, keep) ==
    f = [i \in 0..n |-> IF i = 0 THEN <<>> ELSE IF i \in keep THEN Append(f[i - 1], s[i]) ELSE f[i - 1]]

\* There is such a function: the least length without one would follow one with.
LEMMA KeepingExists ==
    ASSUME NEW n \in Nat, NEW s, NEW keep
    PROVE  \E f : Keeping(f, n, s, keep)
  <1> DEFINE Missing == {m \in Nat : ~\E f : Keeping(f, m, s, keep)}
  <1>1. Missing = {}
    <2> SUFFICES ASSUME Missing # {} PROVE FALSE OBVIOUS
    <2>1. PICK m \in Missing : \A y \in Missing : m <= y
      <3>1. Missing \subseteq Nat OBVIOUS
      <3> HIDE DEF Missing
      <3> QED BY <3>1, Least
    <2>2. m \in Nat /\ ~\E f : Keeping(f, m, s, keep) OBVIOUS
    <2>3. m # 0
      <3>1. 0..0 = {0} OBVIOUS
      <3>2. Keeping([i \in {0} |-> <<>>], 0, s, keep) BY <3>1 DEF Keeping
      <3> QED BY <2>2, <3>2
    <2>4. PICK k \in Nat : m = k + 1
      <3>1. m - 1 \in Nat /\ m = (m - 1) + 1 BY <2>2, <2>3
      <3> QED BY <3>1
    <2>5. k \notin Missing BY <2>1, <2>4
    <2>6. PICK f : Keeping(f, k, s, keep) BY <2>5
    <2> DEFINE Body(e, i) == IF i = 0 THEN <<>> ELSE IF i \in keep THEN Append(e[i - 1], s[i]) ELSE e[i - 1]
               g == [i \in 0..(k + 1) |-> Body(f, i)]
               h == [i \in 0..(k + 1) |-> Body(g, i)]
    <2>7. \A i \in 0..k : f[i] = Body(f, i) BY <2>6 DEF Keeping
    <2>8. (\A i \in 0..(k + 1) : g[i] = Body(f, i)) /\ (\A i \in 0..(k + 1) : h[i] = Body(g, i)) OBVIOUS
    <2>9. g = [i \in 0..(k + 1) |-> g[i]] /\ h = [i \in 0..(k + 1) |-> h[i]] OBVIOUS
    <2>10. (\A i \in 0..(k + 1) : h[i] = Body(g, i)) => (g = h => Keeping(g, k + 1, s, keep)) BY DEF Keeping
    <2> HIDE DEF g, h
    <2>11. \A i \in 0..k : g[i] = f[i]
      <3> SUFFICES ASSUME NEW i \in 0..k PROVE g[i] = f[i] OBVIOUS
      <3>1. i \in 0..(k + 1) OBVIOUS
      <3> HIDE DEF Body
      <3> QED BY <2>7, <2>8, <3>1
    <2>12. ASSUME NEW i \in 0..(k + 1) PROVE g[i] = h[i]
      <3>1. CASE i = 0 BY <2>8, <3>1
      <3>2. CASE i # 0
        <4>1. i - 1 \in 0..k BY <3>2
        <4>2. g[i - 1] = f[i - 1] BY <2>11, <4>1
        <4>3. Body(f, i) = Body(g, i) BY <3>2, <4>2
        <4> HIDE DEF Body
        <4> QED BY <2>8, <4>3
      <3> QED BY <3>1, <3>2
    <2>13. g = h BY <2>9, <2>12
    <2>14. Keeping(g, k + 1, s, keep) BY <2>8, <2>10, <2>13
    <2> QED BY <2>2, <2>4, <2>14
  <1> QED BY <1>1

\* No element twice
Apart(s) == \A i, j \in 1..Len(s) : s[i] = s[j] => i = j

\* q holds what is kept of the first m elements of s
KeptOf(q, m, s, keep, S) ==
    /\ q \in Seq(S)
    /\ \A j \in 1..Len(q) : \E l \in 1..m : l \in keep /\ q[j] = s[l]
    /\ \A l \in 1..m : l \in keep => \E j \in 1..Len(q) : q[j] = s[l]
    /\ Apart(s) => Apart(q)

\* Retaining one element more keeps what is known of the retained ones.
LEMMA KeepOne ==
    ASSUME NEW S, NEW s \in Seq(S), NEW keep, NEW k \in Nat, k + 1 \in 1..Len(s), k + 1 \in keep,
           NEW q, KeptOf(q, k, s, keep, S)
    PROVE  KeptOf(Append(q, s[k + 1]), k + 1, s, keep, S)
  <1> DEFINE r == Append(q, s[k + 1])
  <1>1. q \in Seq(S) /\ s[k + 1] \in S BY DEF KeptOf
  <1>2. PICK n \in Nat : n = Len(q) BY <1>1
  <1>3. r \in Seq(S) /\ Len(r) = n + 1 /\ r[n + 1] = s[k + 1] /\ \A j \in 1..n : r[j] = q[j] BY <1>1, <1>2
  <1> HIDE DEF r
  <1>4. ASSUME NEW j \in 1..(n + 1) PROVE \E l \in 1..(k + 1) : l \in keep /\ r[j] = s[l]
    <2>1. CASE j = n + 1
      <3>1. k + 1 \in 1..(k + 1) OBVIOUS
      <3> QED BY <1>3, <2>1, <3>1
    <2>2. CASE j # n + 1
      <3>1. j \in 1..n BY <2>2
      <3>2. PICK l \in 1..k : l \in keep /\ q[j] = s[l] BY <1>2, <3>1 DEF KeptOf
      <3>3. l \in 1..(k + 1) OBVIOUS
      <3> QED BY <1>3, <3>1, <3>2, <3>3
    <2> QED BY <2>1, <2>2
  <1>5. ASSUME NEW l \in 1..(k + 1), l \in keep PROVE \E j \in 1..(n + 1) : r[j] = s[l]
    <2>1. CASE l = k + 1
      <3>1. n + 1 \in 1..(n + 1) OBVIOUS
      <3> QED BY <1>3, <2>1, <3>1
    <2>2. CASE l # k + 1
      <3>1. l \in 1..k BY <2>2
      <3>2. PICK j \in 1..n : q[j] = s[l] BY <1>2, <1>5, <3>1 DEF KeptOf
      <3>3. j \in 1..(n + 1) OBVIOUS
      <3> QED BY <1>3, <3>2, <3>3
    <2> QED BY <2>1, <2>2
  <1>6. ASSUME Apart(s), NEW i \in 1..(n + 1), NEW j \in 1..(n + 1), r[i] = r[j] PROVE i = j
    <2>1. \A o \in 1..n : q[o] # s[k + 1]
      <3> SUFFICES ASSUME NEW o \in 1..n, q[o] = s[k + 1] PROVE FALSE OBVIOUS
      <3>1. PICK l \in 1..k : q[o] = s[l] BY <1>2 DEF KeptOf
      <3>2. l \in 1..Len(s) /\ k + 1 \in 1..Len(s) OBVIOUS
      <3>3. l = k + 1 BY <1>6, <3>1, <3>2 DEF Apart
      <3> QED BY <3>3
    <2>2. \A o \in 1..(n + 1) : o = n + 1 \/ o \in 1..n OBVIOUS
    <2>3. \A o, p \in 1..n : q[o] = q[p] => o = p BY <1>2, <1>6 DEF KeptOf, Apart
    <2> QED BY <1>3, <1>6, <2>1, <2>2, <2>3
  <1>7. Apart(s) => Apart(r) BY <1>3, <1>6 DEF Apart
  <1> QED BY <1>3, <1>4, <1>5, <1>7 DEF KeptOf, r

\* Dropping one element more keeps what is known of the retained ones.
LEMMA KeepNone ==
    ASSUME NEW S, NEW s, NEW keep, NEW k \in Nat, k + 1 \notin keep, NEW q, KeptOf(q, k, s, keep, S)
    PROVE  KeptOf(q, k + 1, s, keep, S)
  <1>1. \A l \in 1..(k + 1) : l = k + 1 \/ l \in 1..k OBVIOUS
  <1>2. \A l \in 1..k : l \in 1..(k + 1) OBVIOUS
  <1>3. \A j \in 1..Len(q) : \E l \in 1..(k + 1) : l \in keep /\ q[j] = s[l]
    <2> SUFFICES ASSUME NEW j \in 1..Len(q) PROVE \E l \in 1..(k + 1) : l \in keep /\ q[j] = s[l] OBVIOUS
    <2>1. PICK l \in 1..k : l \in keep /\ q[j] = s[l] BY DEF KeptOf
    <2> QED BY <1>2, <2>1
  <1>4. \A l \in 1..(k + 1) : l \in keep => \E j \in 1..Len(q) : q[j] = s[l] BY <1>1 DEF KeptOf
  <1> QED BY <1>3, <1>4 DEF KeptOf

\* Retain returns a sequence of elements of s at kept indices, each at most once.
LEMMA RetainKeeps ==
    ASSUME NEW S, NEW s \in Seq(S), NEW keep
    PROVE  KeptOf(Retain(s, keep), Len(s), s, keep, S)
  <1> DEFINE F == CHOOSE f : f = [i \in 0..Len(s) |->
                    IF i = 0 THEN <<>> ELSE IF i \in keep THEN Append(f[i - 1], s[i]) ELSE f[i - 1]]
  <1>1. PICK n \in Nat : n = Len(s) OBVIOUS
  <1>2. Keeping(F, n, s, keep)
    <2>1. \E f : Keeping(f, n, s, keep) BY KeepingExists
    <2> QED BY <1>1, <2>1 DEF Keeping
  <1>3. Retain(s, keep) = F[n] BY <1>1 DEF Retain
  <1> HIDE DEF F
  <1>4. \A i \in 0..n : F[i] = IF i = 0 THEN <<>> ELSE IF i \in keep THEN Append(F[i - 1], s[i]) ELSE F[i - 1]
    BY <1>2 DEF Keeping
  <1> DEFINE Missing == {m \in 0..n : ~KeptOf(F[m], m, s, keep, S)}
  <1>5. Missing = {}
    <2> SUFFICES ASSUME Missing # {} PROVE FALSE OBVIOUS
    <2>1. PICK m \in Missing : \A y \in Missing : m <= y
      <3>1. Missing \subseteq Nat OBVIOUS
      <3> HIDE DEF Missing
      <3> QED BY <3>1, Least
    <2>2. m \in 0..n /\ ~KeptOf(F[m], m, s, keep, S) OBVIOUS
    <2>3. m # 0
      <3>1. F[0] = <<>> BY <1>4
      <3>2. KeptOf(<<>>, 0, s, keep, S) BY DEF KeptOf, Apart
      <3> QED BY <2>2, <3>1, <3>2
    <2>4. PICK k \in 0..n : m = k + 1
      <3>1. m - 1 \in 0..n /\ m = (m - 1) + 1 BY <2>2, <2>3
      <3> QED BY <3>1
    <2>5. k \notin Missing BY <2>1, <2>4
    <2>6. KeptOf(F[k], k, s, keep, S) BY <2>5
    <2>7. F[m] = IF m \in keep THEN Append(F[k], s[m]) ELSE F[k]
      <3>1. m - 1 = k BY <2>4
      <3> QED BY <1>4, <2>2, <2>3, <3>1
    <2>8. k + 1 \in 1..Len(s) /\ k \in Nat BY <1>1, <2>2, <2>4
    <2>9. CASE m \in keep
      <3>1. KeptOf(Append(F[k], s[k + 1]), k + 1, s, keep, S) BY <2>4, <2>6, <2>8, <2>9, KeepOne
      <3> QED BY <2>2, <2>4, <2>7, <2>9, <3>1
    <2>10. CASE m \notin keep
      <3>1. KeptOf(F[k], k + 1, s, keep, S) BY <2>4, <2>6, <2>8, <2>10, KeepNone
      <3> QED BY <2>2, <2>4, <2>7, <2>10, <3>1
    <2> QED BY <2>9, <2>10
  <1>6. n \notin Missing BY <1>5
  <1> QED BY <1>1, <1>3, <1>6

\* Without drops one value and nothing else.
LEMMA WithoutIs ==
    ASSUME NEW S, NEW s \in Seq(S), NEW x
    PROVE  /\ Without(s, x) \in Seq(S)
           /\ ToSet(Without(s, x)) = ToSet(s) \ {x}
           /\ Apart(s) => Apart(Without(s, x))
  <1> DEFINE keep == {i \in DOMAIN s : s[i] # x}
             q == Without(s, x)
  <1>1. KeptOf(q, Len(s), s, keep, S) BY RetainKeeps DEF Without
  <1> HIDE DEF q
  <1>2. q \in Seq(S) /\ (Apart(s) => Apart(q)) BY <1>1 DEF KeptOf
  <1>3. DOMAIN s = 1..Len(s) /\ DOMAIN q = 1..Len(q) BY <1>2
  <1>4. ASSUME NEW v \in ToSet(q) PROVE v \in ToSet(s) \ {x}
    <2>1. PICK j \in 1..Len(q) : v = q[j] BY <1>3 DEF ToSet
    <2>2. PICK l \in 1..Len(s) : l \in keep /\ q[j] = s[l] BY <1>1 DEF KeptOf
    <2> QED BY <1>3, <2>1, <2>2 DEF ToSet
  <1>5. ASSUME NEW v \in ToSet(s), v # x PROVE v \in ToSet(q)
    <2>1. PICK l \in 1..Len(s) : v = s[l] BY <1>3 DEF ToSet
    <2>2. l \in keep BY <1>3, <1>5, <2>1
    <2>3. PICK j \in 1..Len(q) : q[j] = s[l] BY <1>1, <2>2 DEF KeptOf
    <2> QED BY <1>3, <2>1, <2>3 DEF ToSet
  <1> QED BY <1>2, <1>4, <1>5 DEF q

--------------------------------------------------------------------------------
(* The arena *)

ArenaSlot == [gen : Nat, vacant : BOOLEAN, core : BlockCore]
Entries == Seq(ArenaSlot)
Vacant(entries) == {s \in DOMAIN entries : entries[s].vacant}

\* The free list names the vacant slots, each once
FreeIs(entries, free) == ToSet(free) = Vacant(entries) /\ Apart(free)
SoundDoc == {d \in Document : FreeIs(d.entries, d.free)}

\* A document put together from its parts
LEMMA Whole ==
    ASSUME NEW entries \in Entries, NEW free \in Seq(Nat), NEW order \in [Track -> Seq(Name)], NEW lapse \in BOOLEAN,
           FreeIs(entries, free), NEW e,
           e = [entries |-> entries, free |-> free, order |-> order, lapse |-> lapse]
    PROVE  e \in SoundDoc
  BY DEF SoundDoc, Document, Entries, ArenaSlot

\* A sound document is a record of a typed arena, free list and track lists.
LEMMA Parts ==
    ASSUME NEW d \in SoundDoc
    PROVE  \E a \in Entries, b \in Seq(Nat), o \in [Track -> Seq(Name)], l \in BOOLEAN :
              d = [entries |-> a, free |-> b, order |-> o, lapse |-> l] /\ FreeIs(a, b)
  <1>1. /\ d.entries \in Entries /\ d.free \in Seq(Nat) /\ d.order \in [Track -> Seq(Name)] /\ d.lapse \in BOOLEAN
        /\ d = [entries |-> d.entries, free |-> d.free, order |-> d.order, lapse |-> d.lapse]
        /\ FreeIs(d.entries, d.free)
    BY DEF SoundDoc, Document, Entries, ArenaSlot
  <1> QED BY <1>1

\* A slot and the free list written together
FreeThenSlot(d, f, s, v) == [d EXCEPT !.free = f, !.entries[s] = v]
SlotThenFree(d, f, s, v) == [d EXCEPT !.entries[s] = v, !.free = f]

\* The two orders of writing a slot and the free list give the same document.
LEMMA UpdatedBoth ==
    ASSUME NEW a, NEW b, NEW o, NEW l, NEW d, d = [entries |-> a, free |-> b, order |-> o, lapse |-> l],
           NEW f, NEW s, NEW v
    PROVE  /\ FreeThenSlot(d, f, s, v) = [entries |-> [a EXCEPT ![s] = v], free |-> f, order |-> o, lapse |-> l]
           /\ SlotThenFree(d, f, s, v) = [entries |-> [a EXCEPT ![s] = v], free |-> f, order |-> o, lapse |-> l]
  <1> DEFINE e == [d EXCEPT !.free = f]
             g == [d EXCEPT !.entries[s] = v]
  <1>1. FreeThenSlot(d, f, s, v) = [e EXCEPT !.entries[s] = v] BY DEF FreeThenSlot
  <1>2. SlotThenFree(d, f, s, v) = [g EXCEPT !.free = f] BY DEF SlotThenFree
  <1>3. e = [entries |-> a, free |-> f, order |-> o, lapse |-> l] OBVIOUS
  <1>4. g = [entries |-> [a EXCEPT ![s] = v], free |-> b, order |-> o, lapse |-> l] OBVIOUS
  <1> HIDE DEF e, g
  <1>5. [e EXCEPT !.entries[s] = v] = [entries |-> [a EXCEPT ![s] = v], free |-> f, order |-> o, lapse |-> l]
    BY <1>3
  <1>6. [g EXCEPT !.free = f] = [entries |-> [a EXCEPT ![s] = v], free |-> f, order |-> o, lapse |-> l]
    BY <1>4
  <1> QED BY <1>1, <1>2, <1>5, <1>6

\* One slot written
LEMMA SlotWritten ==
    ASSUME NEW entries \in Entries, NEW s, NEW v \in ArenaSlot
    PROVE  LET w == [entries EXCEPT ![s] = v]
           IN  /\ w \in Entries
               /\ v.vacant => Vacant(w) = Vacant(entries) \cup ({s} \cap DOMAIN entries)
               /\ ~v.vacant => Vacant(w) = Vacant(entries) \ {s}
  <1> DEFINE w == [entries EXCEPT ![s] = v]
  <1>1. w \in Entries
    <2>1. PICK n \in Nat : n = Len(entries) BY DEF Entries
    <2>2. entries \in [1..n -> ArenaSlot] BY <2>1 DEF Entries
    <2>3. w \in [1..n -> ArenaSlot] BY <2>2
    <2> QED BY <2>3, FunctionIsSeq DEF Entries
  <1>2. DOMAIN w = DOMAIN entries /\ \A i \in DOMAIN entries : w[i] = IF i = s THEN v ELSE entries[i] BY DEF Entries
  <1> HIDE DEF w
  <1>3. v.vacant => Vacant(w) = Vacant(entries) \cup ({s} \cap DOMAIN entries) BY <1>2 DEF Vacant
  <1>4. ~v.vacant => Vacant(w) = Vacant(entries) \ {s} BY <1>2 DEF Vacant
  <1> QED BY <1>1, <1>3, <1>4 DEF w

\* The last element of a list that names nothing twice
LEMMA FrontDropsLast ==
    ASSUME NEW S, NEW s \in Seq(S), s # <<>>, Apart(s)
    PROVE  /\ Front(s) \in Seq(S) /\ Last(s) \in S /\ Last(s) \in ToSet(s)
           /\ ToSet(Front(s)) = ToSet(s) \ {Last(s)} /\ Apart(Front(s))
  <1>1. PICK n \in Nat : n = Len(s) /\ n > 0 BY EmptySeq
  <1> DEFINE q == Front(s)
  <1>2. q \in Seq(S) /\ Len(q) = n - 1 /\ \A i \in 1..(n - 1) : q[i] = s[i] BY <1>1 DEF Front
  <1> HIDE DEF q
  <1>3. DOMAIN s = 1..n /\ DOMAIN q = 1..(n - 1) BY <1>1, <1>2
  <1>4. Last(s) = s[n] /\ n \in 1..n /\ s[n] \in S BY <1>1 DEF Last
  <1>5. ASSUME NEW v \in ToSet(q) PROVE v \in ToSet(s) /\ v # s[n]
    <2>1. PICK j \in 1..(n - 1) : v = q[j] BY <1>3 DEF ToSet
    <2>2. v = s[j] /\ j \in 1..n /\ j # n BY <1>1, <1>2, <2>1
    <2> QED BY <1>1, <1>3, <1>4, <2>2 DEF ToSet, Apart
  <1>6. ASSUME NEW v \in ToSet(s), v # s[n] PROVE v \in ToSet(q)
    <2>1. PICK j \in 1..n : v = s[j] BY <1>3 DEF ToSet
    <2>2. j \in 1..(n - 1) BY <1>1, <1>6, <2>1
    <2> QED BY <1>2, <1>3, <2>1, <2>2 DEF ToSet
  <1>7. Apart(q)
    <2> SUFFICES ASSUME NEW i \in 1..(n - 1), NEW j \in 1..(n - 1), q[i] = q[j] PROVE i = j BY <1>2 DEF Apart
    <2>1. i \in 1..n /\ j \in 1..n /\ s[i] = s[j] BY <1>1, <1>2
    <2> QED BY <1>1, <2>1 DEF Apart
  <1>8. s[n] \in ToSet(s) BY <1>3, <1>4 DEF ToSet
  <1> QED BY <1>2, <1>4, <1>5, <1>6, <1>7, <1>8 DEF q

\* Appending an element adds it, and nothing else, to what a sequence names.
LEMMA AppendNew ==
    ASSUME NEW S, NEW s \in Seq(S), NEW x \in S
    PROVE  /\ Append(s, x) \in Seq(S)
           /\ ToSet(Append(s, x)) = ToSet(s) \cup {x}
           /\ Apart(s) /\ x \notin ToSet(s) => Apart(Append(s, x))
  <1>1. PICK n \in Nat : n = Len(s) OBVIOUS
  <1> DEFINE q == Append(s, x)
  <1>2. q \in Seq(S) /\ Len(q) = n + 1 /\ q[n + 1] = x /\ \A i \in 1..n : q[i] = s[i] BY <1>1
  <1> HIDE DEF q
  <1>3. DOMAIN s = 1..n /\ DOMAIN q = 1..(n + 1) BY <1>1, <1>2
  <1>4. \A i \in 1..(n + 1) : i = n + 1 \/ i \in 1..n OBVIOUS
  <1>5. \A i \in 1..n : i \in 1..(n + 1) /\ i # n + 1 OBVIOUS
  <1>6. n + 1 \in 1..(n + 1) OBVIOUS
  <1>7. ToSet(q) = ToSet(s) \cup {x} BY <1>2, <1>3, <1>4, <1>5, <1>6 DEF ToSet
  <1>8. Apart(s) /\ x \notin ToSet(s) => Apart(q)
    <2> SUFFICES ASSUME Apart(s), x \notin ToSet(s), NEW i \in 1..(n + 1), NEW j \in 1..(n + 1), q[i] = q[j] PROVE i = j
      BY <1>2 DEF Apart
    <2>1. \A o \in 1..n : s[o] # x BY <1>3 DEF ToSet
    <2>2. \A o, p \in 1..n : s[o] = s[p] => o = p BY <1>1 DEF Apart
    <2> QED BY <1>2, <1>4, <2>1, <2>2
  <1> QED BY <1>2, <1>7, <1>8 DEF q

\* A new node takes a vacant slot off the free list, or opens a new one (add_node).
LEMMA AddNodeSound ==
    ASSUME NEW d \in SoundDoc, NEW core \in BlockCore
    PROVE  AddNode(d, core).d \in SoundDoc /\ AddNode(d, core).id \in Name
  <1>1. PICK a \in Entries, b \in Seq(Nat), o \in [Track -> Seq(Name)], l \in BOOLEAN :
              d = [entries |-> a, free |-> b, order |-> o, lapse |-> l] /\ FreeIs(a, b)
    BY Parts
  <1>2. d.entries = a /\ d.free = b /\ ToSet(b) = Vacant(a) /\ Apart(b) BY <1>1 DEF FreeIs
  <1>3. CASE b = <<>>
    <2> DEFINE v == [gen |-> 0, vacant |-> FALSE, core |-> core]
               w == Append(a, v)
    <2>1. PICK n \in Nat : n = Len(a) BY DEF Entries
    <2>2. v \in ArenaSlot /\ ~v.vacant BY DEF ArenaSlot
    <2>3. AddNode(d, core).d = [d EXCEPT !.entries = w] /\ AddNode(d, core).id = <<n + 1, 0>>
      BY <1>2, <1>3, <2>1 DEF AddNode
    <2> HIDE DEF v
    <2>4. w \in Entries /\ DOMAIN w = 1..(n + 1) /\ DOMAIN a = 1..n
          /\ w[n + 1] = v /\ (\A i \in 1..n : w[i] = a[i])
      BY <2>1, <2>2 DEF Entries
    <2> HIDE DEF w
    <2>5. Vacant(w) = Vacant(a)
      <3>1. \A i \in 1..(n + 1) : i = n + 1 \/ i \in 1..n OBVIOUS
      <3>2. \A i \in 1..n : i \in 1..(n + 1) OBVIOUS
      <3> QED BY <2>2, <2>4, <3>1, <3>2 DEF Vacant
    <2>6. FreeIs(w, b) BY <1>2, <2>5 DEF FreeIs
    <2>7. [d EXCEPT !.entries = w] = [entries |-> w, free |-> b, order |-> o, lapse |-> l] BY <1>1
    <2>8. AddNode(d, core).d \in SoundDoc BY <2>3, <2>4, <2>6, <2>7, Whole
    <2> QED BY <2>3, <2>8 DEF Name
  <1>4. CASE b # <<>>
    <2> DEFINE s == Last(b)
               g == a[s].gen + 1
               v == [gen |-> g, vacant |-> FALSE, core |-> core]
               w == [a EXCEPT ![s] = v]
    <2>1. /\ Front(b) \in Seq(Nat) /\ s \in Nat /\ s \in ToSet(b)
          /\ ToSet(Front(b)) = ToSet(b) \ {s} /\ Apart(Front(b))
      BY <1>2, <1>4, FrontDropsLast
    <2>2. s \in DOMAIN a BY <1>2, <2>1 DEF Vacant
    <2>3. a[s] \in ArenaSlot BY <2>2 DEF Entries
    <2>4. g \in Nat BY <2>3 DEF ArenaSlot
    <2>5. AddNode(d, core).d = FreeThenSlot(d, Front(b), s, v) /\ AddNode(d, core).id = <<s, g>>
      <3> DEFINE x == Last(d.free)
                 u == [gen |-> d.entries[x].gen + 1, vacant |-> FALSE, core |-> core]
      <3>1. AddNode(d, core).d = FreeThenSlot(d, Front(d.free), x, u)
            /\ AddNode(d, core).id = <<x, d.entries[x].gen + 1>>
        BY <1>2, <1>4 DEF AddNode, FreeThenSlot
      <3> QED BY <1>2, <3>1
    <2>6. v \in ArenaSlot /\ ~v.vacant BY <2>4 DEF ArenaSlot
    <2> HIDE DEF s, g, v
    <2>7. FreeThenSlot(d, Front(b), s, v)
          = [entries |-> w, free |-> Front(b), order |-> o, lapse |-> l]
      BY <1>1, UpdatedBoth
    <2>8. w \in Entries /\ Vacant(w) = Vacant(a) \ {s} BY <2>6, SlotWritten
    <2> HIDE DEF w
    <2>9. FreeIs(w, Front(b)) BY <1>2, <2>1, <2>8 DEF FreeIs
    <2>10. AddNode(d, core).d \in SoundDoc BY <2>1, <2>5, <2>7, <2>8, <2>9, Whole
    <2> QED BY <2>1, <2>4, <2>5, <2>10 DEF Name
  <1> QED BY <1>3, <1>4

\* A detached node leaves its slot vacant and on the free list, once (take_node).
LEMMA TakeNodeSound ==
    ASSUME NEW d \in SoundDoc, NEW b \in Name
    PROVE  TakeNode(d, b) \in SoundDoc
  <1>1. PICK a \in Entries, f \in Seq(Nat), o \in [Track -> Seq(Name)], l \in BOOLEAN :
              d = [entries |-> a, free |-> f, order |-> o, lapse |-> l] /\ FreeIs(a, f)
    BY Parts
  <1>2. d.entries = a /\ d.free = f /\ ToSet(f) = Vacant(a) /\ Apart(f) BY <1>1 DEF FreeIs
  <1>3. CASE Live(d, b)
    <2> DEFINE s == Slot(b)
               v == [gen |-> Gen(b), vacant |-> TRUE, core |-> Core("gap", 0, 0)]
               w == [a EXCEPT ![s] = v]
               g == Append(f, s)
    <2>1. s \in DOMAIN a /\ ~a[s].vacant BY <1>2, <1>3 DEF Live
    <2>2. s \in Nat /\ Gen(b) \in Nat BY DEF Name, Slot, Gen
    <2>3. v \in ArenaSlot /\ v.vacant BY <2>2 DEF ArenaSlot, BlockCore, Core
    <2>4. TakeNode(d, b) = SlotThenFree(d, g, s, v) BY <1>2, <1>3 DEF TakeNode, SlotThenFree
    <2> HIDE DEF s, v, g
    <2>5. SlotThenFree(d, g, s, v) = [entries |-> w, free |-> g, order |-> o, lapse |-> l]
      BY <1>1, UpdatedBoth
    <2>6. w \in Entries /\ Vacant(w) = Vacant(a) \cup {s}
      <3>1. w \in Entries /\ Vacant(w) = Vacant(a) \cup ({s} \cap DOMAIN a) BY <2>3, SlotWritten
      <3> HIDE DEF w
      <3> QED BY <2>1, <3>1
    <2> HIDE DEF w
    <2>7. s \notin ToSet(f) BY <1>2, <2>1 DEF Vacant
    <2>8. g \in Seq(Nat) /\ ToSet(g) = ToSet(f) \cup {s} /\ Apart(g) BY <1>2, <2>2, <2>7, AppendNew DEF g
    <2>9. FreeIs(w, g) BY <1>2, <2>6, <2>8 DEF FreeIs
    <2> QED BY <2>4, <2>5, <2>6, <2>8, <2>9, Whole
  <1>4. CASE ~Live(d, b) BY <1>4 DEF TakeNode
  <1> QED BY <1>3, <1>4

\* A lapse noted, a list written
LEMMA LapseSound ==
    ASSUME NEW d \in SoundDoc, NEW x \in BOOLEAN
    PROVE  [d EXCEPT !.lapse = x] \in SoundDoc
  <1>1. PICK a \in Entries, f \in Seq(Nat), o \in [Track -> Seq(Name)], l \in BOOLEAN :
              d = [entries |-> a, free |-> f, order |-> o, lapse |-> l] /\ FreeIs(a, f)
    BY Parts
  <1>2. [d EXCEPT !.lapse = x] = [entries |-> a, free |-> f, order |-> o, lapse |-> x] BY <1>1
  <1> QED BY <1>1, <1>2, Whole

ListWritten(d, t, q) == [d EXCEPT !.order[t] = q]

\* What writing one track list does to the parts of a document.
LEMMA ListWrittenIs ==
    ASSUME NEW a, NEW b, NEW o, NEW l, NEW d, d = [entries |-> a, free |-> b, order |-> o, lapse |-> l],
           NEW t, NEW q
    PROVE  ListWritten(d, t, q) = [entries |-> a, free |-> b, order |-> [o EXCEPT ![t] = q], lapse |-> l]
  BY DEF ListWritten

\* Writing a track list leaves the arena alone.
LEMMA ListSound ==
    ASSUME NEW d \in SoundDoc, NEW t \in Track, NEW q \in Seq(Name)
    PROVE  ListWritten(d, t, q) \in SoundDoc
  <1>1. PICK a \in Entries, f \in Seq(Nat), o \in [Track -> Seq(Name)], l \in BOOLEAN :
              d = [entries |-> a, free |-> f, order |-> o, lapse |-> l] /\ FreeIs(a, f)
    BY Parts
  <1> DEFINE p == [o EXCEPT ![t] = q]
  <1>2. p \in [Track -> Seq(Name)] OBVIOUS
  <1>3. d = [entries |-> a, free |-> f, order |-> o, lapse |-> l] BY <1>1
  <1>4. ListWritten(d, t, q) = [entries |-> a, free |-> f, order |-> p, lapse |-> l] BY ONLY <1>3, ListWrittenIs
  <1> HIDE DEF p
  <1> QED BY <1>1, <1>2, <1>4, Whole

\* A node that comes back takes its slot off the free list, or gets another (add_entry).
LEMMA AddEntrySound ==
    ASSUME NEW d \in SoundDoc, NEW b \in Name, NEW entry \in Seq(BlockCore)
    PROVE  AddEntry(d, b, entry) \in SoundDoc
  <1>1. CASE entry = <<>> BY <1>1 DEF AddEntry
  <1>2. CASE entry # <<>> /\ d.entries[Slot(b)].vacant
    <2>1. PICK a \in Entries, f \in Seq(Nat), o \in [Track -> Seq(Name)], l \in BOOLEAN :
                d = [entries |-> a, free |-> f, order |-> o, lapse |-> l] /\ FreeIs(a, f)
      BY Parts
    <2>2. d.entries = a /\ d.free = f /\ ToSet(f) = Vacant(a) /\ Apart(f) BY <2>1 DEF FreeIs
    <2> DEFINE s == Slot(b)
               v == [gen |-> Gen(b), vacant |-> FALSE, core |-> entry[1]]
               w == [a EXCEPT ![s] = v]
               g == Without(f, s)
    <2>3. Gen(b) \in Nat /\ entry[1] \in BlockCore BY <1>2, EmptySeq DEF Name, Gen
    <2>4. v \in ArenaSlot /\ ~v.vacant BY <2>3 DEF ArenaSlot
    <2>5. AddEntry(d, b, entry) = SlotThenFree(d, g, s, v) BY <1>2, <2>2 DEF AddEntry, SlotThenFree
    <2> HIDE DEF s, v, g
    <2>6. SlotThenFree(d, g, s, v) = [entries |-> w, free |-> g, order |-> o, lapse |-> l] BY <2>1, UpdatedBoth
    <2>7. w \in Entries /\ Vacant(w) = Vacant(a) \ {s} BY <2>4, SlotWritten
    <2> HIDE DEF w
    <2>8. g \in Seq(Nat) /\ ToSet(g) = ToSet(f) \ {s} /\ Apart(g) BY <2>2, WithoutIs DEF g
    <2>9. FreeIs(w, g) BY <2>2, <2>7, <2>8 DEF FreeIs
    <2> QED BY <2>5, <2>6, <2>7, <2>8, <2>9, Whole
  <1>3. CASE entry # <<>> /\ ~d.entries[Slot(b)].vacant
    <2> DEFINE e == AddNode(d, entry[1]).d
    <2>1. entry[1] \in BlockCore BY <1>3, EmptySeq
    <2>2. e \in SoundDoc BY <2>1, AddNodeSound
    <2>3. AddEntry(d, b, entry) = [e EXCEPT !.lapse = TRUE] BY <1>3 DEF AddEntry
    <2> HIDE DEF e
    <2> QED BY <2>2, <2>3, LapseSound
  <1> QED BY <1>1, <1>2, <1>3

CoreWritten(d, s, core) == [d EXCEPT !.entries[s].core = core]
WithCore(a, s, core) == [a EXCEPT ![s] = [a[s] EXCEPT !.core = core]]

\* What writing one core does to the parts of a document.
LEMMA CoreWrittenIs ==
    ASSUME NEW a, NEW b, NEW o, NEW l, NEW d, d = [entries |-> a, free |-> b, order |-> o, lapse |-> l],
           NEW s, NEW core
    PROVE  CoreWritten(d, s, core)
           = [entries |-> WithCore(a, s, core), free |-> b, order |-> o, lapse |-> l]
  BY DEF CoreWritten, WithCore

\* A live name has a core.
LEMMA NodeTyped ==
    ASSUME NEW d \in SoundDoc, NEW b, Live(d, b)
    PROVE  Node(d, b) \in BlockCore
  <1>1. d.entries \in Entries BY DEF SoundDoc, Document, Entries, ArenaSlot
  <1>2. d.entries[Slot(b)] \in ArenaSlot BY <1>1 DEF Live, Entries
  <1> QED BY <1>2 DEF Node, ArenaSlot

\* What a block reads as: zero, and no track, when its name is stale
LEMMA ReadsTyped ==
    ASSUME NEW d \in SoundDoc, NEW b
    PROVE  In(d, b) \in Int /\ Out(d, b) \in Int /\ Length(d, b) \in Int /\ TrackOf(d, b) \in Track \cup {NoTrack}
  <1>1. CASE Live(d, b)
    <2>1. Node(d, b) \in BlockCore BY <1>1, NodeTyped
    <2> QED BY <1>1, <2>1 DEF In, Out, Length, TrackOf, BlockCore
  <1>2. CASE ~Live(d, b) BY <1>2 DEF In, Out, Length, TrackOf
  <1> QED BY <1>1, <1>2

\* Writing the core of a block keeps every slot occupied or vacant as it was.
LEMMA SetCoreSound ==
    ASSUME NEW d \in SoundDoc, NEW b, NEW core, Live(d, b) => core \in BlockCore
    PROVE  SetCore(d, b, core) \in SoundDoc
  <1>1. CASE Live(d, b)
    <2>1. PICK a \in Entries, f \in Seq(Nat), o \in [Track -> Seq(Name)], l \in BOOLEAN :
                d = [entries |-> a, free |-> f, order |-> o, lapse |-> l] /\ FreeIs(a, f)
      BY Parts
    <2> DEFINE s == Slot(b)
               v == [a[s] EXCEPT !.core = core]
               w == WithCore(a, s, core)
    <2>2. d = [entries |-> a, free |-> f, order |-> o, lapse |-> l] BY <2>1
    <2>3. d.entries = a BY <2>1
    <2>4. s \in DOMAIN a /\ ~a[s].vacant BY <1>1, <2>3 DEF Live
    <2>5. a[s] \in ArenaSlot BY <2>4 DEF Entries
    <2>6. v \in ArenaSlot /\ ~v.vacant BY <1>1, <2>4, <2>5 DEF ArenaSlot
    <2>7. SetCore(d, b, core) = CoreWritten(d, s, core) BY <1>1 DEF SetCore, CoreWritten
    <2>8. CoreWritten(d, s, core) = [entries |-> w, free |-> f, order |-> o, lapse |-> l]
      BY ONLY <2>2, CoreWrittenIs
    <2> HIDE DEF v
    <2>9. w \in Entries /\ Vacant(w) = Vacant(a) \ {s} BY <2>6, SlotWritten DEF WithCore, v
    <2>10. Vacant(w) = Vacant(a) BY <2>4, <2>9 DEF Vacant
    <2> HIDE DEF w
    <2>11. FreeIs(w, f) BY <2>1, <2>10 DEF FreeIs
    <2> QED BY <2>1, <2>7, <2>8, <2>9, <2>11, Whole
  <1>2. CASE ~Live(d, b) BY <1>2 DEF SetCore
  <1> QED BY <1>1, <1>2

\* Writing a range, turned round or not, keeps the document sound.
LEMMA SetRangeSound ==
    ASSUME NEW d \in SoundDoc, NEW b, NEW i \in Int, NEW o \in Int
    PROVE  SetRange(d, b, i, o) \in SoundDoc
  <1> DEFINE core == [Node(d, b) EXCEPT !.in = IF o < i THEN o ELSE i, !.out = IF o < i THEN i ELSE o]
             e == SetCore(d, b, core)
  <1>1. Live(d, b) => core \in BlockCore
    <2> SUFFICES ASSUME Live(d, b) PROVE core \in BlockCore OBVIOUS
    <2>1. Node(d, b) \in BlockCore BY NodeTyped
    <2> QED BY <2>1 DEF BlockCore
  <1>2. SetRange(d, b, i, o) = [e EXCEPT !.lapse = e.lapse \/ o < i] BY DEF SetRange
  <1> HIDE DEF core
  <1>3. e \in SoundDoc BY <1>1, SetCoreSound
  <1> HIDE DEF e
  <1>4. (e.lapse \/ o < i) \in BOOLEAN OBVIOUS
  <1> QED BY <1>2, <1>3, <1>4, LapseSound

\* So does writing a media in point,
LEMMA SetMediaInSound ==
    ASSUME NEW d \in SoundDoc, NEW b, NEW i \in Int
    PROVE  SetMediaIn(d, b, i) \in SoundDoc
  <1> DEFINE core == [Node(d, b) EXCEPT !.media_in = i]
  <1>1. Live(d, b) => core \in BlockCore
    <2> SUFFICES ASSUME Live(d, b) PROVE core \in BlockCore OBVIOUS
    <2>1. Node(d, b) \in BlockCore BY NodeTyped
    <2> QED BY <2>1 DEF BlockCore
  <1> HIDE DEF core
  <1>2. SetCore(d, b, core) \in SoundDoc BY <1>1, SetCoreSound
  <1> QED BY <1>2 DEF SetMediaIn, core

\* and writing the track a block is on,
LEMMA SetTrackSound ==
    ASSUME NEW d \in SoundDoc, NEW b, NEW t \in Track \cup {NoTrack}
    PROVE  SetTrack(d, b, t) \in SoundDoc
  <1> DEFINE core == [Node(d, b) EXCEPT !.track = t]
  <1>1. Live(d, b) => core \in BlockCore
    <2> SUFFICES ASSUME Live(d, b) PROVE core \in BlockCore OBVIOUS
    <2>1. Node(d, b) \in BlockCore BY NodeTyped
    <2> QED BY <2>1 DEF BlockCore
  <1> HIDE DEF core
  <1>2. SetCore(d, b, core) \in SoundDoc BY <1>1, SetCoreSound
  <1> QED BY <1>2 DEF SetTrack, core

\* and the three setters of lengths and in points (block.rs).
LEMMA SettersSound ==
    ASSUME NEW d \in SoundDoc, NEW b, NEW i \in Int
    PROVE  /\ SetIn(d, b, i) \in SoundDoc
           /\ SetLengthMediaIn(d, b, i) \in SoundDoc
           /\ SetLengthMediaOut(d, b, i) \in SoundDoc
  <1>1. In(d, b) \in Int /\ Out(d, b) \in Int /\ Length(d, b) \in Int BY ReadsTyped
  <1>2. i + Length(d, b) \in Int /\ In(d, b) + i \in Int /\ Out(d, b) - i \in Int BY <1>1
  <1>3. SetIn(d, b, i) \in SoundDoc BY <1>1, <1>2, SetRangeSound DEF SetIn
  <1>4. SetLengthMediaIn(d, b, i) \in SoundDoc BY <1>1, <1>2, SetRangeSound DEF SetLengthMediaIn
  <1> DEFINE e == SetRange(d, b, Out(d, b) - i, Out(d, b))
  <1>5. e \in SoundDoc BY <1>1, <1>2, SetRangeSound
  <1>6. SetLengthMediaOut(d, b, i) = SetMediaIn(e, b, In(e, b)) BY DEF SetLengthMediaOut
  <1> HIDE DEF e
  <1>7. In(e, b) \in Int BY <1>5, ReadsTyped
  <1>8. SetMediaIn(e, b, In(e, b)) \in SoundDoc BY <1>5, <1>7, SetMediaInSound
  <1> QED BY <1>3, <1>4, <1>6, <1>8

--------------------------------------------------------------------------------
(* The list of a track *)

\* The first and the last index of a selection, or 0.
LEMMA FirstAt ==
    ASSUME NEW n \in Nat, NEW I, I \subseteq 1..n
    PROVE  (IF I # {} THEN Min(I) ELSE 0) \in 0..n /\ (IF I # {} THEN Max(I) ELSE 0) \in 0..n
  <1>1. CASE I = {} BY <1>1
  <1>2. CASE I # {}
    <2>1. I \subseteq Nat /\ I \subseteq 0..n OBVIOUS
    <2>2. Min(I) \in I BY <1>2, <2>1, MinIs
    <2>3. Max(I) \in I BY <1>2, <2>1, MaxIs
    <2> QED BY <1>2, <2>1, <2>2, <2>3
  <1> QED BY <1>1, <1>2

\* The list of a track is a sequence of names.
LEMMA ListOf ==
    ASSUME NEW d \in SoundDoc, NEW t \in Track
    PROVE  d.order[t] \in Seq(Name) /\ Len(d.order[t]) \in Nat
  BY DEF SoundDoc, Document

\* A block is listed at an index, or at 0 for nowhere.
LEMMA IndexIn ==
    ASSUME NEW d \in SoundDoc, NEW t \in Track, NEW b
    PROVE  Index(d, t, b) \in 0..Len(d.order[t])
  <1> DEFINE s == d.order[t]
             I == {i \in 1..Len(s) : s[i] = b}
  <1>1. Len(s) \in Nat BY ListOf
  <1>2. Index(d, t, b) = IF I # {} THEN Min(I) ELSE 0 BY DEF Index, SelectInSeq
  <1>3. I \subseteq 1..Len(s) OBVIOUS
  <1> HIDE DEF I
  <1> QED BY <1>1, <1>2, <1>3, FirstAt

\* InsertAt keeps the type of a sequence.
LEMMA InsertAtIs ==
    ASSUME NEW S, NEW s \in Seq(S), NEW i \in 1..(Len(s) + 1), NEW x \in S
    PROVE  InsertAt(s, i, x) \in Seq(S)
  <1>1. PICK n \in Nat : n = Len(s) OBVIOUS
  <1>2. SubSeq(s, 1, i - 1) \in Seq(S) BY <1>1
  <1>3. SubSeq(s, i, Len(s)) \in Seq(S) BY <1>1
  <1> QED BY <1>2, <1>3 DEF InsertAt

\* What a track lists is a name.
LEMMA NameInList ==
    ASSUME NEW d \in SoundDoc, NEW t \in Track, NEW i \in 1..Len(d.order[t])
    PROVE  d.order[t][i] \in Name
  BY ListOf

\* Listing a block keeps the document sound (insert_block_at_index),
LEMMA InsertBlockSound ==
    ASSUME NEW d \in SoundDoc, NEW t \in Track, NEW i \in 1..(Len(d.order[t]) + 1), NEW b \in Name
    PROVE  InsertBlock(d, t, i, b) \in SoundDoc
  <1> DEFINE q == InsertAt(d.order[t], i, b)
             e == ListWritten(d, t, q)
  <1>1. q \in Seq(Name) BY ListOf, InsertAtIs
  <1>2. InsertBlock(d, t, i, b) = SetTrack(e, b, t) BY DEF InsertBlock, ListWritten
  <1> HIDE DEF q
  <1>3. e \in SoundDoc BY <1>1, ListSound
  <1> HIDE DEF e
  <1> QED BY <1>2, <1>3, SetTrackSound

\* at the end as well (track_append_block),
LEMMA AppendBlockSound ==
    ASSUME NEW d \in SoundDoc, NEW t \in Track, NEW b \in Name
    PROVE  AppendBlock(d, t, b) \in SoundDoc
  <1>1. Len(d.order[t]) + 1 \in 1..(Len(d.order[t]) + 1) BY ListOf
  <1> QED BY <1>1, InsertBlockSound DEF AppendBlock

\* and beside another block (track_insert_block_after, track_insert_block_before).
LEMMA InsertBesideSound ==
    ASSUME NEW d \in SoundDoc, NEW t \in Track, NEW b \in Name, NEW x
    PROVE  InsertBlockAfter(d, t, b, x) \in SoundDoc /\ InsertBlockBefore(d, t, b, x) \in SoundDoc
  <1>1. PICK n \in Nat : n = Len(d.order[t]) BY ListOf
  <1>2. PICK i \in 0..n : i = Index(d, t, x) BY <1>1, IndexIn
  <1>3. 1 \in 1..(n + 1) /\ i + 1 \in 1..(n + 1) /\ (i # 0 => i \in 1..(n + 1)) OBVIOUS
  <1>4. InsertBlock(d, t, 1, b) \in SoundDoc /\ InsertBlock(d, t, i + 1, b) \in SoundDoc
        /\ (i # 0 => InsertBlock(d, t, i, b) \in SoundDoc)
    BY <1>1, <1>3, InsertBlockSound
  <1>5. InsertBlockAfter(d, t, b, x) \in SoundDoc BY <1>2, <1>4 DEF InsertBlockAfter
  <1>6. InsertBlockBefore(d, t, b, x) \in SoundDoc BY <1>2, <1>4 DEF InsertBlockBefore
  <1> QED BY <1>5, <1>6

\* So does taking a block off its list (track_ripple_remove_block),
LEMMA RippleRemoveBlockSound ==
    ASSUME NEW d \in SoundDoc, NEW t \in Track, NEW b
    PROVE  RippleRemoveBlock(d, t, b) \in SoundDoc
  <1> DEFINE q == Without(d.order[t], b)
             e == ListWritten(d, t, q)
  <1>1. q \in Seq(Name) BY ListOf, WithoutIs
  <1>2. RippleRemoveBlock(d, t, b) = IF Index(d, t, b) = 0 THEN d ELSE SetTrack(e, b, NoTrack)
    BY DEF RippleRemoveBlock, ListWritten
  <1> HIDE DEF q
  <1>3. e \in SoundDoc BY <1>1, ListSound
  <1> HIDE DEF e
  <1> QED BY <1>2, <1>3, SetTrackSound

\* and replacing it there (track_replace_block).
LEMMA ReplaceBlockSound ==
    ASSUME NEW d \in SoundDoc, NEW t \in Track, NEW old, NEW new \in Name
    PROVE  ReplaceBlock(d, t, old, new) \in SoundDoc
  <1> DEFINE i == Index(d, t, old)
             q == ReplaceAt(d.order[t], i, new)
             e == ListWritten(d, t, q)
             f == SetTrack(e, old, NoTrack)
  <1>1. d.order[t] \in Seq(Name) BY ListOf
  <1> HIDE DEF i
  <1>2. q \in Seq(Name)
    <2>1. PICK n \in Nat : n = Len(d.order[t]) BY <1>1
    <2>2. d.order[t] \in [1..n -> Name] BY <1>1, <2>1
    <2>3. q \in [1..n -> Name] BY <2>2 DEF ReplaceAt
    <2> HIDE DEF q
    <2> QED BY <2>1, <2>3, FunctionIsSeq
  <1>3. ReplaceBlock(d, t, old, new) = IF i = 0 THEN d ELSE SetTrack(f, new, t)
    BY DEF ReplaceBlock, ListWritten, i
  <1> HIDE DEF q
  <1>4. e \in SoundDoc BY <1>2, ListSound
  <1> HIDE DEF e
  <1>5. f \in SoundDoc BY <1>4, SetTrackSound
  <1> HIDE DEF f
  <1> QED BY <1>3, <1>5, SetTrackSound

\* The neighbours of a block
LEMMA SuccessorsTyped ==
    ASSUME NEW d \in SoundDoc, NEW b
    PROVE  Successors(d, b) \in Seq(Name)
  <1> DEFINE t == TrackOf(d, b)
  <1>1. CASE t = NoTrack \/ Index(d, t, b) = 0 BY <1>1 DEF Successors
  <1>2. CASE ~(t = NoTrack \/ Index(d, t, b) = 0)
    <2>1. t \in Track BY <1>2, ReadsTyped
    <2>2. d.order[t] \in Seq(Name) BY <2>1, ListOf
    <2>3. PICK n \in Nat : n = Len(d.order[t]) BY <2>2
    <2>4. PICK i \in 0..n : i = Index(d, t, b) BY <2>1, <2>3, IndexIn
    <2>5. SubSeq(d.order[t], i + 1, n) \in Seq(Name) BY <2>2, <2>3
    <2> QED BY <1>2, <2>3, <2>4, <2>5 DEF Successors
  <1> QED BY <1>1, <1>2

\* The neighbours of a block are names, None among them.
LEMMA NeighboursTyped ==
    ASSUME NEW d \in SoundDoc, NEW b
    PROVE  PreviousBlock(d, b) \in Name /\ NextBlock(d, b) \in Name
  <1> DEFINE t == TrackOf(d, b)
  <1>1. None \in Name BY DEF None, Name
  <1>2. PreviousBlock(d, b) \in Name
    <2>1. CASE t = NoTrack \/ Index(d, t, b) < 2 BY <1>1, <2>1 DEF PreviousBlock
    <2>2. CASE ~(t = NoTrack \/ Index(d, t, b) < 2)
      <3>1. t \in Track BY <2>2, ReadsTyped
      <3>2. d.order[t] \in Seq(Name) BY <3>1, ListOf
      <3>3. PICK n \in Nat : n = Len(d.order[t]) BY <3>2
      <3>4. PICK i \in 0..n : i = Index(d, t, b) BY <3>1, <3>3, IndexIn
      <3>5. d.order[t][i - 1] \in Name BY <2>2, <3>2, <3>3, <3>4
      <3> QED BY <2>2, <3>4, <3>5 DEF PreviousBlock
    <2> QED BY <2>1, <2>2
  <1>3. NextBlock(d, b) \in Name
    <2>1. Successors(d, b) \in Seq(Name) BY SuccessorsTyped
    <2>2. Successors(d, b) # <<>> => Head(Successors(d, b)) \in Name BY <2>1
    <2> QED BY <1>1, <2>2 DEF NextBlock
  <1> QED BY <1>2, <1>3

\* So is the block nearest to a time.
LEMMA NearestTyped ==
    ASSUME NEW d \in SoundDoc, NEW t \in Track, NEW time
    PROVE  NearestBeforeOrAt(d, t, time) \in Name
  <1> DEFINE s == d.order[t]
             A == {i \in 1..Len(s) : In(d, s[i]) <= time /\ Out(d, s[i]) > time}
             B == {i \in 1..Len(s) : Out(d, s[i]) <= time}
             C == {i \in 1..Len(s) : ~Live(d, s[i])}
             at == IF A # {} THEN Min(A) ELSE 0
             before == IF B # {} THEN Max(B) ELSE 0
             stale == IF C # {} THEN Min(C) ELSE 0
  <1>1. s \in Seq(Name) BY ListOf
  <1>2. PICK n \in Nat : n = Len(s) BY <1>1
  <1>3. None \in Name BY DEF None, Name
  <1>4. NearestBeforeOrAt(d, t, time)
        = IF stale # 0 /\ (at = 0 \/ stale < at) THEN None
          ELSE IF at # 0 THEN s[at] ELSE IF before # 0 THEN s[before] ELSE None
    BY DEF NearestBeforeOrAt, SelectInSeq, SelectLastInSeq
  <1>5. A \subseteq 1..n /\ B \subseteq 1..n BY <1>2
  <1> HIDE DEF A, B, C
  <1>6. at \in 0..n /\ before \in 0..n BY <1>5, FirstAt
  <1> HIDE DEF at, before, stale, s
  <1>7. \A i \in 0..n : i # 0 => s[i] \in Name BY <1>1, <1>2
  <1> QED BY <1>3, <1>4, <1>6, <1>7

\* m is the greatest of zero and the first k values of g
GreatestOf(m, g, k) == (m = 0 \/ \E i \in 1..k : m = g[i]) /\ m >= 0 /\ \A i \in 1..k : m >= g[i]

\* Finitely many numbers and 0 have a greatest.
LEMMA GreatestExists ==
    ASSUME NEW n \in Nat, NEW g, \A i \in 1..n : g[i] \in Int
    PROVE  \E m \in Int : GreatestOf(m, g, n)
  <1> DEFINE Missing == {k \in 0..n : ~\E m \in Int : GreatestOf(m, g, k)}
  <1>1. Missing = {}
    <2> SUFFICES ASSUME Missing # {} PROVE FALSE OBVIOUS
    <2>1. PICK m \in Missing : \A y \in Missing : m <= y
      <3>1. Missing \subseteq Nat OBVIOUS
      <3> HIDE DEF Missing
      <3> QED BY <3>1, Least
    <2>2. m \in 0..n /\ ~\E x \in Int : GreatestOf(x, g, m) OBVIOUS
    <2>3. m # 0
      <3>1. GreatestOf(0, g, 0) BY DEF GreatestOf
      <3> QED BY <2>2, <3>1
    <2>4. PICK k \in 0..n : m = k + 1
      <3>1. m - 1 \in 0..n /\ m = (m - 1) + 1 BY <2>2, <2>3
      <3> QED BY <3>1
    <2>5. k \notin Missing BY <2>1, <2>4
    <2>6. PICK x \in Int : GreatestOf(x, g, k) BY <2>5
    <2>7. g[k + 1] \in Int BY <2>2, <2>4
    <2>8. \A i \in 1..(k + 1) : i = k + 1 \/ i \in 1..k OBVIOUS
    <2>9. \A i \in 1..k : i \in 1..(k + 1) OBVIOUS
    <2>10. k + 1 \in 1..(k + 1) /\ \A i \in 1..k : g[i] \in Int BY <2>2, <2>4
    <2>11. CASE x >= g[k + 1]
      <3>1. GreatestOf(x, g, k + 1) BY <2>6, <2>8, <2>9, <2>11 DEF GreatestOf
      <3> QED BY <2>2, <2>4, <3>1
    <2>12. CASE ~(x >= g[k + 1])
      <3> DEFINE y == g[k + 1]
      <3>1. y >= 0 /\ \A i \in 1..k : y >= g[i] BY <2>6, <2>7, <2>10, <2>12 DEF GreatestOf
      <3>2. GreatestOf(y, g, k + 1) BY <2>7, <2>8, <2>10, <3>1 DEF GreatestOf
      <3> QED BY <2>2, <2>4, <2>7, <3>2
    <2> QED BY <2>11, <2>12
  <1>2. n \notin Missing BY <1>1
  <1> QED BY <1>2

\* The length of a track is a number.
LEMMA TrackLengthTyped ==
    ASSUME NEW d \in SoundDoc, NEW t \in Track
    PROVE  TrackLength(d, t) \in Int
  <1> DEFINE s == d.order[t]
             g == [i \in 1..Len(s) |-> Out(d, s[i])]
             S == {0} \cup {Out(d, b) : b \in ToSet(s)}
  <1>1. s \in Seq(Name) BY ListOf
  <1>2. PICK n \in Nat : n = Len(s) BY <1>1
  <1>3. \A i \in 1..n : g[i] = Out(d, s[i]) /\ g[i] \in Int BY <1>2, ReadsTyped
  <1> HIDE DEF g
  <1>4. (\A y \in S : y = 0 \/ \E i \in 1..n : y = g[i]) /\ 0 \in S /\ \A i \in 1..n : g[i] \in S
    <2>1. DOMAIN s = 1..n BY <1>1, <1>2
    <2>2. ASSUME NEW y \in S PROVE y = 0 \/ \E i \in 1..n : y = g[i]
      <3>1. CASE \E b \in ToSet(s) : y = Out(d, b)
        <4>1. PICK b \in ToSet(s) : y = Out(d, b) BY <3>1
        <4>2. PICK i \in 1..n : b = s[i] BY <2>1 DEF ToSet
        <4> QED BY <1>3, <4>1, <4>2
      <3> QED BY <3>1
    <2>3. ASSUME NEW i \in 1..n PROVE g[i] \in S
      <3>1. s[i] \in ToSet(s) BY <2>1 DEF ToSet
      <3> QED BY <1>3, <3>1
    <2> QED BY <2>2, <2>3
  <1>5. PICK m \in Int : GreatestOf(m, g, n) BY <1>3, GreatestExists
  <1>6. m \in S /\ \A y \in S : m >= y BY <1>4, <1>5 DEF GreatestOf
  <1>7. \A y \in S : y \in Int BY <1>3, <1>4
  <1>8. TrackLength(d, t) = Max(S) BY DEF TrackLength
  <1> HIDE DEF S
  <1>9. Max(S) \in S BY <1>6 DEF Max
  <1> QED BY <1>7, <1>8, <1>9

--------------------------------------------------------------------------------
(* Folds.  A fold over a sequence is a function on the sets of its indices, which picks
   an index, folds the rest and applies the step. *)

\* pk picks an index from every set of them
Picks(pk, n) == \A s \in SUBSET (1..n) : s # {} => pk[s] \in s

\* What is picked from a set of indices is one of them, and the rest is smaller.
LEMMA Picked ==
    ASSUME NEW n \in Nat, NEW pk, Picks(pk, n), NEW s \in SUBSET (1..n), s # {}
    PROVE  /\ s \ {pk[s]} \in SUBSET (1..n) /\ pk[s] \in 1..n
           /\ Cardinality(s) \in 1..n /\ Cardinality(s \ {pk[s]}) = Cardinality(s) - 1
  <1>1. IsFiniteSet(1..n) /\ Cardinality(1..n) = n
    <2>1. 1 \in Int /\ n \in Int /\ (1 > n => n = 0) OBVIOUS
    <2>2. IsFiniteSet(1..n) /\ Cardinality(1..n) = IF 1 > n THEN 0 ELSE n - 1 + 1 BY ONLY <2>1, FS_Interval
    <2> QED BY <2>1, <2>2
  <1>2. s \subseteq 1..n OBVIOUS
  <1>3. IsFiniteSet(s) /\ Cardinality(s) <= n BY ONLY <1>1, <1>2, FS_Subset
  <1>4. pk[s] \in s BY DEF Picks
  <1>5. Cardinality(s \ {pk[s]}) = Cardinality(s) - 1 BY ONLY <1>3, <1>4, FS_RemoveElement
  <1>6. Cardinality(s) \in Nat BY ONLY <1>3, FS_CardinalityType
  <1>7. Cardinality(s) # 0 BY <1>3, FS_EmptySet
  <1>8. Cardinality(s) \in 1..n BY ONLY <1>3, <1>6, <1>7, n \in Nat
  <1>9. s \ {pk[s]} \in SUBSET (1..n) /\ pk[s] \in 1..n BY <1>4
  <1> QED BY <1>5, <1>8, <1>9

\* The sets of at most k indices are folded
Folded(f, k, n, pk, step, base, seq) ==
    /\ f[{}] = base
    /\ \A s \in SUBSET (1..n) :
         s # {} /\ Cardinality(s) <= k => f[s] = step[<<f[s \ {pk[s]}], seq[pk[s]]>>]

\* The recursive function behind a fold exists: it does for the indices up to each length,
\* and at the least length at which it did not it would follow from the one before.
LEMMA FoldExists ==
    ASSUME NEW n \in Nat, NEW pk, Picks(pk, n), NEW S, NEW E, NEW step \in [S \X E -> S],
           NEW base \in S, NEW seq \in [1..n -> E]
    PROVE  \E f \in [SUBSET (1..n) -> S] : Folded(f, n, n, pk, step, base, seq)
  <1> DEFINE P(k) == \E f \in [SUBSET (1..n) -> S] : Folded(f, k, n, pk, step, base, seq)
             Missing == {k \in 0..n : ~P(k)}
  <1>1. Missing = {}
    <2> SUFFICES ASSUME Missing # {} PROVE FALSE OBVIOUS
    <2>1. PICK m \in Missing : \A y \in Missing : m <= y
      <3>1. Missing \subseteq Nat OBVIOUS
      <3> HIDE DEF Missing
      <3> QED BY <3>1, Least
    <2>2. m \in 0..n /\ ~P(m) OBVIOUS
    <2>3. m # 0
      <3> DEFINE f == [s \in SUBSET (1..n) |-> base]
      <3>1. f \in [SUBSET (1..n) -> S] /\ f[{}] = base OBVIOUS
      <3>2. \A s \in SUBSET (1..n) : s # {} => ~(Cardinality(s) <= 0)
        <4> SUFFICES ASSUME NEW s \in SUBSET (1..n), s # {} PROVE ~(Cardinality(s) <= 0) OBVIOUS
        <4>1. Cardinality(s) \in 1..n BY Picked
        <4> QED BY <4>1
      <3> HIDE DEF f
      <3>3. Folded(f, 0, n, pk, step, base, seq) BY <3>1, <3>2 DEF Folded
      <3> QED BY <2>2, <3>1, <3>3
    <2>4. PICK k \in 0..n : m = k + 1
      <3>1. m - 1 \in 0..n /\ m = (m - 1) + 1 BY <2>2, <2>3
      <3> QED BY <3>1
    <2>5. P(k)
      <3>1. k \in 0..n /\ ~(m <= k) BY <2>4
      <3> HIDE DEF P
      <3> QED BY <2>1, <3>1
    <2>6. PICK f \in [SUBSET (1..n) -> S] : Folded(f, k, n, pk, step, base, seq) BY <2>5
    <2> DEFINE Body(s) == IF s = {} \/ Cardinality(s) <= k THEN f[s] ELSE step[<<f[s \ {pk[s]}], seq[pk[s]]>>]
               g == [s \in SUBSET (1..n) |-> Body(s)]
    <2>7. \A s \in SUBSET (1..n) : s # {} => step[<<f[s \ {pk[s]}], seq[pk[s]]>>] \in S
      <3> SUFFICES ASSUME NEW s \in SUBSET (1..n), s # {} PROVE step[<<f[s \ {pk[s]}], seq[pk[s]]>>] \in S OBVIOUS
      <3>1. s \ {pk[s]} \in SUBSET (1..n) /\ pk[s] \in 1..n BY Picked
      <3>2. f[s \ {pk[s]}] \in S /\ seq[pk[s]] \in E BY <3>1
      <3> QED BY <3>2
    <2>8. \A s \in SUBSET (1..n) : Body(s) \in S BY <2>7
    <2>9. g \in [SUBSET (1..n) -> S] /\ \A s \in SUBSET (1..n) : g[s] = Body(s) BY <2>8
    <2> HIDE DEF g
    <2>10. \A s \in SUBSET (1..n) : s = {} \/ Cardinality(s) <= k => g[s] = f[s] BY <2>9
    <2>11. ASSUME NEW s \in SUBSET (1..n), s # {}, Cardinality(s) <= k + 1
           PROVE  g[s] = step[<<g[s \ {pk[s]}], seq[pk[s]]>>]
      <3>1. s \ {pk[s]} \in SUBSET (1..n) /\ Cardinality(s) \in 1..n
            /\ Cardinality(s \ {pk[s]}) = Cardinality(s) - 1
        BY <2>11, Picked
      <3>2. Cardinality(s \ {pk[s]}) <= k BY <2>11, <3>1
      <3>3. g[s \ {pk[s]}] = f[s \ {pk[s]}] BY <2>10, <3>1, <3>2
      <3>4. g[s] = step[<<f[s \ {pk[s]}], seq[pk[s]]>>]
        <4>1. CASE Cardinality(s) <= k BY <2>6, <2>10, <2>11, <4>1 DEF Folded
        <4>2. CASE ~(Cardinality(s) <= k) BY <2>9, <2>11, <4>2
        <4> QED BY <4>1, <4>2
      <3> QED BY <3>3, <3>4
    <2>12. g[{}] = base BY <2>6, <2>10 DEF Folded
    <2>13. Folded(g, k + 1, n, pk, step, base, seq) BY <2>11, <2>12 DEF Folded
    <2> QED BY <2>2, <2>4, <2>9, <2>13
  <1>2. P(n)
    <2>1. n \in 0..n OBVIOUS
    <2> HIDE DEF P
    <2> QED BY <1>1, <2>1
  <1> QED BY <1>2

\* Folding one more index stays in the set
Keeps(f, n, pk, S) == f[{}] \in S /\ \A s \in SUBSET (1..n) : s # {} /\ f[s \ {pk[s]}] \in S => f[s] \in S

\* A set that each step of a fold stays in has its result.
LEMMA FoldKeeps ==
    ASSUME NEW n \in Nat, NEW pk, Picks(pk, n), NEW S, NEW f, Keeps(f, n, pk, S)
    PROVE  f[1..n] \in S
  <1> DEFINE Lost == {k \in 0..n : \E s \in SUBSET (1..n) : Cardinality(s) = k /\ f[s] \notin S}
  <1>1. Lost = {}
    <2> SUFFICES ASSUME Lost # {} PROVE FALSE OBVIOUS
    <2>1. PICK m \in Lost : \A y \in Lost : m <= y
      <3>1. Lost \subseteq Nat OBVIOUS
      <3> HIDE DEF Lost
      <3> QED BY <3>1, Least
    <2>2. PICK s \in SUBSET (1..n) : Cardinality(s) = m /\ f[s] \notin S OBVIOUS
    <2>3. s # {} BY <2>2 DEF Keeps
    <2>4. s \ {pk[s]} \in SUBSET (1..n) /\ Cardinality(s) \in 1..n
          /\ Cardinality(s \ {pk[s]}) = Cardinality(s) - 1
      BY <2>3, Picked
    <2>5. m - 1 \in 0..n /\ Cardinality(s \ {pk[s]}) = m - 1 BY <2>2, <2>4
    <2>6. f[s \ {pk[s]}] \notin S BY <2>2, <2>3 DEF Keeps
    <2>7. m - 1 \in Lost BY <2>4, <2>5, <2>6
    <2> QED BY <2>1, <2>5, <2>7
  <1>2. CASE n = 0
    <2>1. 1..n = {} BY <1>2
    <2> QED BY <2>1 DEF Keeps
  <1>3. CASE n # 0
    <2>1. 1..n \in SUBSET (1..n) /\ 1..n # {} BY <1>3
    <2>2. Cardinality(1..n) \in 1..n BY <2>1, Picked
    <2>3. Cardinality(1..n) \in 0..n BY <2>2
    <2> QED BY <1>1, <2>1, <2>3
  <1> QED BY <1>2, <1>3

\* The steps of the folds: what one redo, undo or edit of a list of them does
StepOf(k, t, e, x) ==
    CASE k = "redoSetter" -> Write(e, x, x.new)
      [] k = "undoSetter" -> Write(e, x, x.old)
      [] k = "trimOut"    -> SetLengthMediaIn(e, x.block, IF t = "back" THEN x.old ELSE x.new)
      [] k = "trimIn"     -> SetLengthMediaOut(e, x.block, IF t = "back" THEN x.old ELSE x.new)
      [] k = "unlist"      -> RippleRemoveBlock(e, t, x.block)
      [] k = "take"        -> TakeNode(e, x.block)
      [] k = "restore"     -> AddEntry(e, x.block, x.entry)
      [] k = "list"        -> InsertBlockAfter(e, t, x.block, x.before)
      [] k = "redo"        -> [c |-> Append(e.c, Redo1(x, e.d).c), d |-> Redo1(x, e.d).d]
      [] k = "undo"        -> [c |-> <<Undo1(x, e.d).c>> \o e.c, d |-> Undo1(x, e.d).d]

\* Those that undo run from the right, and pick the first of the elements they fold.
PickOf(k, s) == IF k \in {"undoSetter", "restore", "undo"} THEN Min(s) ELSE Max(s)
FoldOf(f, k, t, base, q) ==
    [s \in SUBSET DOMAIN q |->
        IF s = {} THEN base ELSE StepOf(k, t, f[s \ {PickOf(k, s)}], q[PickOf(k, s)])]
Steady(k, t, S, E) == \A e \in S, x \in E : StepOf(k, t, e, x) \in S

\* There is such a fold, and none leaves a set that the step keeps.
LEMMA FoldStays ==
    ASSUME NEW k, NEW t, NEW S, NEW E, Steady(k, t, S, E), NEW base \in S, NEW q \in Seq(E)
    PROVE  /\ \E f : f = FoldOf(f, k, t, base, q)
           /\ \A f : f = FoldOf(f, k, t, base, q) => f[DOMAIN q] \in S
  <1>1. PICK n \in Nat : n = Len(q) OBVIOUS
  <1>2. q \in [1..n -> E] /\ DOMAIN q = 1..n BY <1>1
  <1> DEFINE pk == [s \in SUBSET (1..n) |-> PickOf(k, s)]
             step == [x \in S \X E |-> StepOf(k, t, x[1], x[2])]
  <1>3. Picks(pk, n)
    <2> SUFFICES ASSUME NEW s \in SUBSET (1..n), s # {} PROVE PickOf(k, s) \in s BY DEF Picks
    <2>1. s \subseteq Nat /\ s \subseteq 0..n OBVIOUS
    <2>2. Max(s) \in s BY <2>1, MaxIs
    <2>3. Min(s) \in s BY <2>1, MinIs
    <2> QED BY <2>2, <2>3 DEF PickOf
  <1>4. \A s \in SUBSET (1..n) : pk[s] = PickOf(k, s) OBVIOUS
  <1>5. step \in [S \X E -> S] BY DEF Steady
  <1>6. \A e \in S, x \in E : step[<<e, x>>] = StepOf(k, t, e, x) OBVIOUS
  <1> HIDE DEF step, pk
  <1>7. PICK f \in [SUBSET (1..n) -> S] : Folded(f, n, n, pk, step, base, q) BY <1>2, <1>3, <1>5, FoldExists
  <1>8. f = FoldOf(f, k, t, base, q)
    <2>1. f[{}] = base BY <1>7 DEF Folded
    <2>2. ASSUME NEW s \in SUBSET (1..n), s # {}
          PROVE  f[s] = StepOf(k, t, f[s \ {PickOf(k, s)}], q[PickOf(k, s)])
      <3> DEFINE p == PickOf(k, s)
      <3>1. /\ s \ {pk[s]} \in SUBSET (1..n) /\ pk[s] \in 1..n /\ pk[s] = p
            /\ Cardinality(s) \in 1..n
        BY <1>3, <1>4, <2>2, Picked
      <3>2. Cardinality(s) <= n BY <3>1
      <3> HIDE DEF p
      <3>3. f[s] = step[<<f[s \ {p}], q[p]>>] BY <1>7, <2>2, <3>1, <3>2 DEF Folded
      <3>4. f[s \ {p}] \in S /\ q[p] \in E BY <1>2, <3>1
      <3>5. f[s] = StepOf(k, t, f[s \ {p}], q[p]) BY <1>6, <3>3, <3>4
      <3> QED BY <3>5 DEF p
    <2> QED BY <1>2, <2>1, <2>2 DEF FoldOf
  <1>9. ASSUME NEW g, g = FoldOf(g, k, t, base, q) PROVE g[DOMAIN q] \in S
    <2>1. g[{}] = base BY <1>9 DEF FoldOf
    <2>2. ASSUME NEW s \in SUBSET (1..n), s # {}, g[s \ {pk[s]}] \in S PROVE g[s] \in S
      <3>1. pk[s] \in 1..n /\ pk[s] = PickOf(k, s) BY <1>3, <1>4, <2>2, Picked
      <3>2. g[s] = StepOf(k, t, g[s \ {pk[s]}], q[pk[s]]) BY <1>2, <1>9, <2>2, <3>1 DEF FoldOf
      <3>3. q[pk[s]] \in E BY <1>2, <3>1
      <3> QED BY <2>2, <3>2, <3>3 DEF Steady
    <2>3. Keeps(g, n, pk, S) BY <2>1, <2>2 DEF Keeps
    <2> QED BY <1>2, <1>3, <2>3, FoldKeeps
  <1> QED BY <1>8, <1>9

--------------------------------------------------------------------------------
(* What the commands remember *)

Cores == Seq(BlockCore)
SetterT ==
    [op : {"length, in stays", "length, out stays", "in", "media in"}, block : Name, old : Int, new : Int]
TrimT == [block : Name, old : Int, new : Int]
RemovalT == [block : Name, before : Name]
SettersC == [op : {"setters"}, set : Seq(SetterT)]
RemoveC == [op : {"remove"}, block : Name, entry : Cores]
SplitC == [op : {"split"}, block : Name, point : Int, new : Name, entry : Cores, old : Int]
RippleC ==
    [op : {"ripple"}, track : Track, in : Int, out : Int, splitGaps : BOOLEAN, prepared : BOOLEAN,
     trimOut : Seq(TrimT), removals : Seq(RemovalT), trimIn : Seq(TrimT), prev : Name,
     splice : Seq(SplitC), taken : Seq(RemoveC)]
GapC ==
    [op : {"gap"}, track : Track, block : Name, inPoint : Int, existing : Name, merged : Name,
     precedes : BOOLEAN, ours : Name, oursEntry : Cores, mergedEntry : Cores]
PlaceC ==
    [op : {"place"}, track : Track, block : Name, in : Int, gap : Name, gapEntry : Cores,
     ripple : Seq(RippleC), oldIn : Seq(Int)]
RollC ==
    [op : {"roll"}, track : Track, block : Name, new : Int, old : Int, diff : Int, adjacent : Name,
     removes : BOOLEAN, entry : Cores]

\* Taking the blocks of a removal off a track, one after another.
LEMMA FoldUnlist ==
    ASSUME NEW d \in SoundDoc, NEW t \in Track, NEW q \in Seq(RemovalT)
    PROVE  FoldLeft(LAMBDA e, x : RippleRemoveBlock(e, t, x.block), d, q) \in SoundDoc
  <1> DEFINE Body(f) == [s \in SUBSET DOMAIN q |->
                            IF s = {} THEN d ELSE RippleRemoveBlock(f[s \ {Max(s)}], t, q[Max(s)].block)]
             F == CHOOSE f : f = Body(f)
  <1>1. FoldLeft(LAMBDA e, x : RippleRemoveBlock(e, t, x.block), d, q) = F[DOMAIN q]
    BY DEF FoldLeft, MapThenFoldSet
  <1>2. \A f : Body(f) = FoldOf(f, "unlist", t, d, q) BY DEF FoldOf, StepOf, PickOf
  <1>3. Steady("unlist", t, SoundDoc, RemovalT) BY RippleRemoveBlockSound DEF Steady, StepOf
  <1> HIDE DEF Body
  <1>4. \E f : f = Body(f) BY <1>2, <1>3, FoldStays
  <1>5. F = Body(F) BY <1>4
  <1> HIDE DEF F
  <1>6. F[DOMAIN q] \in SoundDoc BY <1>2, <1>3, <1>5, FoldStays
  <1> QED BY <1>1, <1>6

\* One setter of a row keeps the document sound.
LEMMA WriteSound ==
    ASSUME NEW d \in SoundDoc, NEW s \in SetterT, NEW v \in Int
    PROVE  Write(d, s, v) \in SoundDoc
  <1>1. s.op \in {"length, in stays", "length, out stays", "in", "media in"} BY DEF SetterT
  <1> QED BY <1>1, SettersSound, SetMediaInSound DEF Write

\* The setters of a row in order,
LEMMA FoldRedoSetters ==
    ASSUME NEW d \in SoundDoc, NEW q \in Seq(SetterT)
    PROVE  FoldLeft(LAMBDA e, x : Write(e, x, x.new), d, q) \in SoundDoc
  <1> DEFINE Body(f) == [s \in SUBSET DOMAIN q |->
                            IF s = {} THEN d ELSE Write(f[s \ {Max(s)}], q[Max(s)], q[Max(s)].new)]
             F == CHOOSE f : f = Body(f)
  <1>1. FoldLeft(LAMBDA e, x : Write(e, x, x.new), d, q) = F[DOMAIN q]
    BY DEF FoldLeft, MapThenFoldSet
  <1>2. \A f : Body(f) = FoldOf(f, "redoSetter", NoTrack, d, q) BY DEF FoldOf, StepOf, PickOf
  <1>3. Steady("redoSetter", NoTrack, SoundDoc, SetterT) BY WriteSound DEF Steady, StepOf, SetterT
  <1> HIDE DEF Body
  <1>4. \E f : f = Body(f) BY <1>2, <1>3, FoldStays
  <1>5. F = Body(F) BY <1>4
  <1> HIDE DEF F
  <1>6. F[DOMAIN q] \in SoundDoc BY <1>2, <1>3, <1>5, FoldStays
  <1> QED BY <1>1, <1>6

\* and back with the old values.
LEMMA FoldUndoSetters ==
    ASSUME NEW d \in SoundDoc, NEW q \in Seq(SetterT)
    PROVE  FoldRight(LAMBDA x, e : Write(e, x, x.old), q, d) \in SoundDoc
  <1> DEFINE Body(f) == [s \in SUBSET DOMAIN q |->
                            IF s = {} THEN d ELSE Write(f[s \ {Min(s)}], q[Min(s)], q[Min(s)].old)]
             F == CHOOSE f : f = Body(f)
  <1>1. FoldRight(LAMBDA x, e : Write(e, x, x.old), q, d) = F[DOMAIN q]
    BY DEF FoldRight, MapThenFoldSet
  <1>2. \A f : Body(f) = FoldOf(f, "undoSetter", NoTrack, d, q) BY DEF FoldOf, StepOf, PickOf
  <1>3. Steady("undoSetter", NoTrack, SoundDoc, SetterT) BY WriteSound DEF Steady, StepOf, SetterT
  <1> HIDE DEF Body
  <1>4. \E f : f = Body(f) BY <1>2, <1>3, FoldStays
  <1>5. F = Body(F) BY <1>4
  <1> HIDE DEF F
  <1>6. F[DOMAIN q] \in SoundDoc BY <1>2, <1>3, <1>5, FoldStays
  <1> QED BY <1>1, <1>6

\* The out trims of a ripple removal, forth and back,
LEMMA FoldTrimOut ==
    ASSUME NEW d \in SoundDoc, NEW back \in BOOLEAN, NEW q \in Seq(TrimT)
    PROVE  FoldLeft(LAMBDA e, x : SetLengthMediaIn(e, x.block, IF back THEN x.old ELSE x.new), d, q) \in SoundDoc
  <1> DEFINE Body(f) == [s \in SUBSET DOMAIN q |->
                            IF s = {} THEN d ELSE SetLengthMediaIn(f[s \ {Max(s)}], q[Max(s)].block, IF back THEN q[Max(s)].old ELSE q[Max(s)].new)]
             way == IF back THEN "back" ELSE "forth"
             F == CHOOSE f : f = Body(f)
  <1>1. FoldLeft(LAMBDA e, x : SetLengthMediaIn(e, x.block, IF back THEN x.old ELSE x.new), d, q) = F[DOMAIN q]
    BY DEF FoldLeft, MapThenFoldSet
  <1>2. \A f : Body(f) = FoldOf(f, "trimOut", way, d, q) BY DEF FoldOf, StepOf, PickOf
  <1>3. Steady("trimOut", way, SoundDoc, TrimT) BY SettersSound DEF Steady, StepOf, TrimT
  <1> HIDE DEF Body, way
  <1>4. \E f : f = Body(f) BY <1>2, <1>3, FoldStays
  <1>5. F = Body(F) BY <1>4
  <1> HIDE DEF F
  <1>6. F[DOMAIN q] \in SoundDoc BY <1>2, <1>3, <1>5, FoldStays
  <1> QED BY <1>1, <1>6

\* and its in trims.
LEMMA FoldTrimIn ==
    ASSUME NEW d \in SoundDoc, NEW back \in BOOLEAN, NEW q \in Seq(TrimT)
    PROVE  FoldLeft(LAMBDA e, x : SetLengthMediaOut(e, x.block, IF back THEN x.old ELSE x.new), d, q) \in SoundDoc
  <1> DEFINE Body(f) == [s \in SUBSET DOMAIN q |->
                            IF s = {} THEN d ELSE SetLengthMediaOut(f[s \ {Max(s)}], q[Max(s)].block, IF back THEN q[Max(s)].old ELSE q[Max(s)].new)]
             way == IF back THEN "back" ELSE "forth"
             F == CHOOSE f : f = Body(f)
  <1>1. FoldLeft(LAMBDA e, x : SetLengthMediaOut(e, x.block, IF back THEN x.old ELSE x.new), d, q) = F[DOMAIN q]
    BY DEF FoldLeft, MapThenFoldSet
  <1>2. \A f : Body(f) = FoldOf(f, "trimIn", way, d, q) BY DEF FoldOf, StepOf, PickOf
  <1>3. Steady("trimIn", way, SoundDoc, TrimT) BY SettersSound DEF Steady, StepOf, TrimT
  <1> HIDE DEF Body, way
  <1>4. \E f : f = Body(f) BY <1>2, <1>3, FoldStays
  <1>5. F = Body(F) BY <1>4
  <1> HIDE DEF F
  <1>6. F[DOMAIN q] \in SoundDoc BY <1>2, <1>3, <1>5, FoldStays
  <1> QED BY <1>1, <1>6

\* Detaching the blocks of a removal,
LEMMA FoldTake ==
    ASSUME NEW d \in SoundDoc, NEW q \in Seq(RemoveC)
    PROVE  FoldLeft(LAMBDA e, x : TakeNode(e, x.block), d, q) \in SoundDoc
  <1> DEFINE Body(f) == [s \in SUBSET DOMAIN q |->
                            IF s = {} THEN d ELSE TakeNode(f[s \ {Max(s)}], q[Max(s)].block)]
             F == CHOOSE f : f = Body(f)
  <1>1. FoldLeft(LAMBDA e, x : TakeNode(e, x.block), d, q) = F[DOMAIN q]
    BY DEF FoldLeft, MapThenFoldSet
  <1>2. \A f : Body(f) = FoldOf(f, "take", NoTrack, d, q) BY DEF FoldOf, StepOf, PickOf
  <1>3. Steady("take", NoTrack, SoundDoc, RemoveC) BY TakeNodeSound DEF Steady, StepOf, RemoveC
  <1> HIDE DEF Body
  <1>4. \E f : f = Body(f) BY <1>2, <1>3, FoldStays
  <1>5. F = Body(F) BY <1>4
  <1> HIDE DEF F
  <1>6. F[DOMAIN q] \in SoundDoc BY <1>2, <1>3, <1>5, FoldStays
  <1> QED BY <1>1, <1>6

\* bringing them back in reverse,
LEMMA FoldRestore ==
    ASSUME NEW d \in SoundDoc, NEW q \in Seq(RemoveC)
    PROVE  FoldRight(LAMBDA x, e : AddEntry(e, x.block, x.entry), q, d) \in SoundDoc
  <1> DEFINE Body(f) == [s \in SUBSET DOMAIN q |->
                            IF s = {} THEN d ELSE AddEntry(f[s \ {Min(s)}], q[Min(s)].block, q[Min(s)].entry)]
             F == CHOOSE f : f = Body(f)
  <1>1. FoldRight(LAMBDA x, e : AddEntry(e, x.block, x.entry), q, d) = F[DOMAIN q]
    BY DEF FoldRight, MapThenFoldSet
  <1>2. \A f : Body(f) = FoldOf(f, "restore", NoTrack, d, q) BY DEF FoldOf, StepOf, PickOf
  <1>3. Steady("restore", NoTrack, SoundDoc, RemoveC) BY AddEntrySound DEF Steady, StepOf, RemoveC, Cores
  <1> HIDE DEF Body
  <1>4. \E f : f = Body(f) BY <1>2, <1>3, FoldStays
  <1>5. F = Body(F) BY <1>4
  <1> HIDE DEF F
  <1>6. F[DOMAIN q] \in SoundDoc BY <1>2, <1>3, <1>5, FoldStays
  <1> QED BY <1>1, <1>6

\* and listing them behind their predecessors again.
LEMMA FoldList ==
    ASSUME NEW d \in SoundDoc, NEW t \in Track, NEW q \in Seq(RemovalT)
    PROVE  FoldLeft(LAMBDA e, x : InsertBlockAfter(e, t, x.block, x.before), d, q) \in SoundDoc
  <1> DEFINE Body(f) == [s \in SUBSET DOMAIN q |->
                            IF s = {} THEN d ELSE InsertBlockAfter(f[s \ {Max(s)}], t, q[Max(s)].block, q[Max(s)].before)]
             F == CHOOSE f : f = Body(f)
  <1>1. FoldLeft(LAMBDA e, x : InsertBlockAfter(e, t, x.block, x.before), d, q) = F[DOMAIN q]
    BY DEF FoldLeft, MapThenFoldSet
  <1>2. \A f : Body(f) = FoldOf(f, "list", t, d, q) BY DEF FoldOf, StepOf, PickOf
  <1>3. Steady("list", t, SoundDoc, RemovalT) BY InsertBesideSound DEF Steady, StepOf, RemovalT
  <1> HIDE DEF Body
  <1>4. \E f : f = Body(f) BY <1>2, <1>3, FoldStays
  <1>5. F = Body(F) BY <1>4
  <1> HIDE DEF F
  <1>6. F[DOMAIN q] \in SoundDoc BY <1>2, <1>3, <1>5, FoldStays
  <1> QED BY <1>1, <1>6

--------------------------------------------------------------------------------
(* Redo and undo of every command *)

Result(S) == [c : S, d : SoundDoc]

\* A command and a document are a result.
LEMMA BothIs ==
    ASSUME NEW S, NEW c \in S, NEW d \in SoundDoc
    PROVE  Both(c, d) \in Result(S)
  BY DEF Both, Result

\* What is kept of a detached node is a core or nothing.
LEMMA EntryTyped ==
    ASSUME NEW d \in SoundDoc, NEW b
    PROVE  Entry(d, b) \in Cores
  <1>1. Live(d, b) => Node(d, b) \in BlockCore BY NodeTyped
  <1> QED BY <1>1 DEF Entry, Cores

\* Setters run and are undone within sound documents (trim_command).
LEMMA SettersC1 ==
    ASSUME NEW c \in SettersC, NEW d \in SoundDoc
    PROVE  RedoSetters(c, d) \in Result(SettersC) /\ UndoSetters(c, d) \in Result(SettersC)
  <1>1. c.set \in Seq(SetterT) BY DEF SettersC
  <1> DEFINE q == c.set
             e == FoldLeft(LAMBDA a, x : Write(a, x, x.new), d, q)
             f == FoldRight(LAMBDA x, a : Write(a, x, x.old), q, d)
  <1>2. e \in SoundDoc BY <1>1, FoldRedoSetters
  <1>3. f \in SoundDoc BY <1>1, FoldUndoSetters
  <1>4. RedoSetters(c, d) = Both(c, e) BY DEF RedoSetters
  <1>5. UndoSetters(c, d) = Both(c, f) BY DEF UndoSetters
  <1> HIDE DEF e, f
  <1> QED BY <1>2, <1>3, <1>4, <1>5, BothIs

\* So is the removal of a node (RemoveNodeCommand).
LEMMA RemoveC1 ==
    ASSUME NEW c \in RemoveC, NEW d \in SoundDoc
    PROVE  RedoRemove(c, d) \in Result(RemoveC) /\ UndoRemove(c, d) \in Result(RemoveC)
  <1>1. c.block \in Name /\ c.entry \in Seq(BlockCore) BY DEF RemoveC, Cores
  <1>2. TakeNode(d, c.block) \in SoundDoc BY <1>1, TakeNodeSound
  <1>3. AddEntry(d, c.block, c.entry) \in SoundDoc BY <1>1, AddEntrySound
  <1>4. Entry(d, c.block) \in Cores /\ <<>> \in Cores BY EntryTyped DEF Cores
  <1>5. [c EXCEPT !.entry = Entry(d, c.block)] \in RemoveC BY <1>4 DEF RemoveC
  <1>6. [c EXCEPT !.entry = <<>>] \in RemoveC BY <1>4 DEF RemoveC
  <1>7. RedoRemove(c, d) \in Result(RemoveC) BY <1>2, <1>5, BothIs DEF RedoRemove
  <1>8. UndoRemove(c, d) \in Result(RemoveC) BY <1>3, <1>6, BothIs DEF UndoRemove
  <1> QED BY <1>7, <1>8

\* Dividing a clip between two names keeps the document sound.
LEMMA SplitInSound ==
    ASSUME NEW c \in SplitC, NEW d \in SoundDoc, NEW n \in Name
    PROVE  SplitIn(c, d, n) \in Result(SplitC)
  <1> DEFINE b == c.block
             e == SetLengthMediaIn(d, b, c.point - In(d, b))
             cut == SetLengthMediaOut(e, n, Out(d, b) - c.point)
             t == TrackOf(d, b)
             f == IF n = None THEN d ELSE IF t = NoTrack THEN cut ELSE InsertBlockAfter(cut, t, n, b)
             k == [c EXCEPT !.new = n, !.entry = <<>>, !.old = Length(d, b)]
  <1>1. c.point \in Int /\ In(d, b) \in Int /\ Out(d, b) \in Int /\ Length(d, b) \in Int BY ReadsTyped DEF SplitC
  <1>2. e \in SoundDoc BY <1>1, SettersSound
  <1>3. cut \in SoundDoc
    <2> HIDE DEF e
    <2> QED BY <1>1, <1>2, SettersSound
  <1>4. t \in Track \cup {NoTrack} BY ReadsTyped
  <1>5. SplitIn(c, d, n) = Both(k, f) BY DEF SplitIn
  <1> HIDE DEF cut, t
  <1>6. f \in SoundDoc BY <1>3, <1>4, InsertBesideSound
  <1>7. k \in SplitC
    <2>1. <<>> \in Cores BY DEF Cores
    <2> QED BY <1>1, <2>1 DEF SplitC
  <1> HIDE DEF f, k
  <1> QED BY <1>5, <1>6, <1>7, BothIs

\* A split runs, for the first time or again (BlockSplitCommand::redo),
LEMMA RedoSplitSound ==
    ASSUME NEW c \in SplitC, NEW d \in SoundDoc
    PROVE  RedoSplit(c, d) \in Result(SplitC)
  <1> DEFINE made == IF c.new = None /\ Live(d, c.block) THEN AddNode(d, Node(d, c.block))
                     ELSE [d |-> d, id |-> c.new]
             e == AddEntry(made.d, made.id, c.entry)
  <1>1. c.new \in Name /\ c.entry \in Seq(BlockCore) BY DEF SplitC, Cores
  <1>2. made.d \in SoundDoc /\ made.id \in Name
    <2>1. CASE c.new = None /\ Live(d, c.block)
      <3>1. Node(d, c.block) \in BlockCore BY <2>1, NodeTyped
      <3> QED BY <2>1, <3>1, AddNodeSound
    <2>2. CASE ~(c.new = None /\ Live(d, c.block)) BY <1>1, <2>2
    <2> QED BY <2>1, <2>2
  <1>3. RedoSplit(c, d) = SplitIn(c, e, made.id) BY DEF RedoSplit
  <1> HIDE DEF made
  <1>4. e \in SoundDoc BY <1>1, <1>2, AddEntrySound
  <1> HIDE DEF e
  <1> QED BY <1>2, <1>3, <1>4, SplitInSound

\* and is undone (BlockSplitCommand::undo).
LEMMA UndoSplitSound ==
    ASSUME NEW c \in SplitC, NEW d \in SoundDoc
    PROVE  UndoSplit(c, d) \in Result(SplitC)
  <1> DEFINE t == TrackOf(d, c.block)
             f == SetLengthMediaIn(d, c.block, c.old)
             e == IF t = NoTrack THEN d ELSE RippleRemoveBlock(f, t, c.new)
             k == [c EXCEPT !.entry = Entry(e, c.new)]
  <1>1. c.new \in Name /\ c.old \in Int BY DEF SplitC
  <1>2. t \in Track \cup {NoTrack} BY ReadsTyped
  <1>3. f \in SoundDoc BY <1>1, SettersSound
  <1>4. UndoSplit(c, d) = Both(k, TakeNode(e, c.new)) BY DEF UndoSplit
  <1> HIDE DEF f, t
  <1>5. e \in SoundDoc BY <1>2, <1>3, RippleRemoveBlockSound
  <1> HIDE DEF e
  <1>6. TakeNode(e, c.new) \in SoundDoc BY <1>1, <1>5, TakeNodeSound
  <1>7. k \in SplitC
    <2>1. Entry(e, c.new) \in Cores BY <1>5, EntryTyped
    <2> QED BY <2>1 DEF SplitC
  <1> HIDE DEF k
  <1> QED BY <1>4, <1>6, <1>7, BothIs

\* Retain keeps the type of a sequence.
LEMMA RetainTyped ==
    ASSUME NEW S, NEW s \in Seq(S), NEW keep
    PROVE  Retain(s, keep) \in Seq(S)
  BY RetainKeeps DEF KeptOf

\* The trims and removals a ripple removal prepares are typed.
LEMMA OpsTyped ==
    ASSUME NEW d \in SoundDoc, NEW b \in Name, NEW len \in Int
    PROVE  TrimOp(d, b, len) \in Seq(TrimT) /\ Removal(d, b) \in RemovalT
  <1>1. Length(d, b) \in Int /\ PreviousBlock(d, b) \in Name BY ReadsTyped, NeighboursTyped
  <1>2. [block |-> b, old |-> Length(d, b), new |-> len] \in TrimT BY <1>1 DEF TrimT
  <1>3. TrimOp(d, b, len) \in Seq(TrimT) BY <1>2 DEF TrimOp
  <1> QED BY <1>1, <1>3 DEF Removal, RemovalT

\* The blocks a ripple removal scans are names.
LEMMA ScannedTyped ==
    ASSUME NEW c, NEW d \in SoundDoc, NEW first
    PROVE  Scanned(c, d, first) \in Seq(Name)
  <1> DEFINE s == Successors(d, first)
             I == {i \in 1..Len(s) : In(d, s[i]) >= c.out \/ Out(d, s[i]) >= c.out \/ TrackOf(d, s[i]) = NoTrack}
             last == IF I # {} THEN Min(I) ELSE 0
  <1>1. s \in Seq(Name) BY SuccessorsTyped
  <1>2. PICK n \in Nat : n = Len(s) BY <1>1
  <1>3. Scanned(c, d, first) = IF last = 0 THEN s ELSE SubSeq(s, 1, last) BY DEF Scanned, SelectInSeq
  <1>4. I \subseteq 1..n BY <1>2
  <1> HIDE DEF I
  <1>5. last \in 0..n BY <1>4, FirstAt
  <1> HIDE DEF s, last
  <1>6. last # 0 => SubSeq(s, 1, last) \in Seq(Name) BY <1>1, <1>2, <1>5
  <1> QED BY <1>1, <1>3, <1>6

\* A clearing with new parts
LEMMA RippleWith ==
    ASSUME NEW c \in RippleC
    PROVE  /\ \A p \in Name : [c EXCEPT !.prepared = TRUE, !.prev = p] \in RippleC
           /\ \A q \in Seq(TrimT) : [c EXCEPT !.trimOut = q] \in RippleC /\ [c EXCEPT !.trimIn = q] \in RippleC
           /\ \A x \in SplitC : [c EXCEPT !.splice = <<x>>] \in RippleC
           /\ \A q \in Seq(TrimT), r \in Seq(RemovalT), u \in Seq(TrimT) :
                 [c EXCEPT !.trimOut = q, !.removals = r, !.trimIn = u] \in RippleC
  <1>1. \A p \in Name : [c EXCEPT !.prepared = TRUE, !.prev = p] \in RippleC BY DEF RippleC
  <1>2. \A q \in Seq(TrimT) : [c EXCEPT !.trimOut = q] \in RippleC /\ [c EXCEPT !.trimIn = q] \in RippleC
    BY DEF RippleC
  <1>3. ASSUME NEW x \in SplitC PROVE [c EXCEPT !.splice = <<x>>] \in RippleC
    <2> DEFINE q == <<x>>
    <2>1. q \in Seq(SplitC) OBVIOUS
    <2> HIDE DEF q
    <2>2. [c EXCEPT !.splice = q] \in RippleC BY <2>1 DEF RippleC
    <2> QED BY <2>2 DEF q
  <1>4. \A q \in Seq(TrimT), r \in Seq(RemovalT), u \in Seq(TrimT) :
                 [c EXCEPT !.trimOut = q, !.removals = r, !.trimIn = u] \in RippleC
    BY DEF RippleC
  <1> QED BY <1>1, <1>2, <1>3, <1>4

\* A new split is a split.
LEMMA SplitTyped ==
    ASSUME NEW b \in Name, NEW point \in Int
    PROVE  Split(b, point) \in SplitC
  <1>1. <<>> \in Cores /\ None \in Name BY DEF Cores, None, Name
  <1> QED BY <1>1 DEF Split, SplitC

\* What a ripple removal prepares from its first block is what its type promises,
LEMMA PrepareFromTyped ==
    ASSUME NEW c \in RippleC, NEW d \in SoundDoc, NEW fb \in Name
    PROVE  PrepareFrom(c, d, fb) \in RippleC
  <1> DEFINE outTrimmed == In(d, fb) < c.in
             inTrimmed == Out(d, fb) > c.out
             found == [c EXCEPT !.prepared = TRUE, !.prev = IF outTrimmed THEN fb ELSE PreviousBlock(d, fb)]
             scanned == Scanned(c, d, fb)
             within == Retain(scanned, {i \in DOMAIN scanned : In(d, scanned[i]) < c.out})
             gone == Retain(within, {i \in DOMAIN within : Out(d, within[i]) <= c.out})
             removed == (IF outTrimmed THEN <<>> ELSE <<fb>>) \o gone
             s == Retain(within, {i \in DOMAIN within : Out(d, within[i]) > c.out})
             cutByEnd == IF s = <<>> THEN <<>> ELSE TrimOp(d, s[1], Length(d, s[1]) - (c.out - In(d, s[1])))
             removals == [i \in DOMAIN removed |-> Removal(d, removed[i])]
             o1 == TrimOp(d, fb, Length(d, fb) - (c.out - c.in))
             o2 == TrimOp(d, fb, Length(d, fb) - (c.out - In(d, fb)))
             o3 == IF outTrimmed THEN TrimOp(d, fb, Length(d, fb) - (Out(d, fb) - c.in)) ELSE <<>>
             ops == IF outTrimmed /\ inTrimmed
                    THEN IF ~c.splitGaps /\ Kind(d, fb) = "gap" THEN [found EXCEPT !.trimOut = o1]
                         ELSE [found EXCEPT !.splice = <<Split(fb, c.in)>>]
                    ELSE IF inTrimmed THEN [found EXCEPT !.trimIn = o2]
                    ELSE [found EXCEPT !.trimOut = o3, !.removals = removals, !.trimIn = cutByEnd]
  <1>1. PrepareFrom(c, d, fb) = IF fb = None THEN c ELSE ops BY DEF PrepareFrom
  <1>2. c.in \in Int /\ c.out \in Int BY DEF RippleC
  <1>3. \A b : In(d, b) \in Int /\ Out(d, b) \in Int /\ Length(d, b) \in Int BY ReadsTyped
  <1>4. found \in RippleC
    <2>1. (IF outTrimmed THEN fb ELSE PreviousBlock(d, fb)) \in Name BY NeighboursTyped
    <2> QED BY <2>1, RippleWith
  <1>5. o1 \in Seq(TrimT) /\ o2 \in Seq(TrimT) /\ o3 \in Seq(TrimT)
    <2>1. Length(d, fb) - (c.out - c.in) \in Int /\ Length(d, fb) - (c.out - In(d, fb)) \in Int
          /\ Length(d, fb) - (Out(d, fb) - c.in) \in Int
      BY <1>2, <1>3
    <2>2. o1 \in Seq(TrimT) BY <2>1, OpsTyped
    <2>3. o2 \in Seq(TrimT) BY <2>1, OpsTyped
    <2>4. TrimOp(d, fb, Length(d, fb) - (Out(d, fb) - c.in)) \in Seq(TrimT) BY <2>1, OpsTyped
    <2>5. o3 \in Seq(TrimT)
      <3> HIDE DEF outTrimmed
      <3> QED BY <2>4
    <2> QED BY <2>2, <2>3, <2>5
  <1>6. scanned \in Seq(Name) BY ScannedTyped
  <1> HIDE DEF scanned
  <1>7. within \in Seq(Name) BY <1>6, RetainTyped
  <1> HIDE DEF within
  <1>8. s \in Seq(Name) /\ gone \in Seq(Name) BY <1>7, RetainTyped
  <1> HIDE DEF s, gone, outTrimmed
  <1>9. cutByEnd \in Seq(TrimT)
    <2>1. CASE s = <<>> BY <2>1
    <2>2. CASE s # <<>>
      <3>1. s[1] \in Name BY <1>8, <2>2, EmptySeq
      <3>2. Length(d, s[1]) - (c.out - In(d, s[1])) \in Int BY <1>2, <1>3
      <3> QED BY <2>2, <3>1, <3>2, OpsTyped
    <2> QED BY <2>1, <2>2
  <1>10. removals \in Seq(RemovalT)
    <2>1. removed \in Seq(Name) BY <1>8
    <2> HIDE DEF removed
    <2>2. PICK n \in Nat : n = Len(removed) BY <2>1
    <2>3. \A i \in 1..n : removed[i] \in Name BY <2>1, <2>2
    <2>4. \A i \in 1..n : Removal(d, removed[i]) \in RemovalT BY <2>3, OpsTyped
    <2>5. removals \in [1..n -> RemovalT] BY <2>1, <2>2, <2>4
    <2> HIDE DEF removals
    <2> QED BY <2>5, FunctionIsSeq
  <1>11. Split(fb, c.in) \in SplitC BY <1>2, SplitTyped
  <1> HIDE DEF found, o1, o2, o3, cutByEnd, removals, inTrimmed
  <1>12. ops \in RippleC BY <1>4, <1>5, <1>9, <1>10, <1>11, RippleWith
  <1> QED BY <1>1, <1>12

\* with or without such a block (TrackRippleRemoveAreaCommand::prepare).
LEMMA PrepareRippleTyped ==
    ASSUME NEW c \in RippleC, NEW d \in SoundDoc
    PROVE  PrepareRipple(c, d) \in RippleC
  <1> DEFINE k == [c EXCEPT !.trimOut = <<>>, !.removals = <<>>, !.trimIn = <<>>, !.prev = None, !.splice = <<>>]
  <1>1. k \in RippleC
    <2>1. None \in Name BY DEF None, Name
    <2>2. <<>> \in Seq(TrimT) /\ <<>> \in Seq(RemovalT) /\ <<>> \in Seq(SplitC) OBVIOUS
    <2> QED BY <2>1, <2>2 DEF RippleC
  <1>2. c.track \in Track BY DEF RippleC
  <1>3. NearestBeforeOrAt(d, c.track, c.in) \in Name BY <1>2, NearestTyped
  <1> HIDE DEF k
  <1>4. PrepareFrom(k, d, NearestBeforeOrAt(d, c.track, c.in)) \in RippleC BY <1>1, <1>3, PrepareFromTyped
  <1> QED BY <1>4 DEF PrepareRipple, k

\* The trims of a ripple removal keep the document sound.
LEMMA TrimSound ==
    ASSUME NEW c \in RippleC, NEW d \in SoundDoc, NEW back \in BOOLEAN
    PROVE  Trim(c, d, back) \in SoundDoc
  <1> DEFINE q == c.trimOut
             r == c.trimIn
             cut == FoldLeft(LAMBDA e, x : SetLengthMediaIn(e, x.block, IF back THEN x.old ELSE x.new), d, q)
             f == FoldLeft(LAMBDA e, x : SetLengthMediaOut(e, x.block, IF back THEN x.old ELSE x.new), cut, r)
  <1>1. q \in Seq(TrimT) /\ r \in Seq(TrimT) BY DEF RippleC
  <1>2. cut \in SoundDoc BY <1>1, FoldTrimOut
  <1>3. Trim(c, d, back) = f BY DEF Trim
  <1> HIDE DEF cut
  <1>4. f \in SoundDoc BY <1>1, <1>2, FoldTrimIn
  <1> QED BY <1>3, <1>4

\* So does splicing a clip that covers the whole range,
LEMMA RedoSpliceSound ==
    ASSUME NEW c \in RippleC, NEW d \in SoundDoc, c.splice # <<>>
    PROVE  RedoSplice(c, d) \in Result(RippleC)
  <1> DEFINE x == c.splice[1]
             lapse == d.lapse \/ x.new # None
             e == [d EXCEPT !.lapse = lapse]
             r == RedoSplit(x, e)
             n == r.c.new
             f == IF n = None THEN r.d
                  ELSE SetLengthMediaIn(r.d, n, Length(r.d, n) - (c.out - In(r.d, n)))
             k == [c EXCEPT !.splice = <<r.c>>]
  <1>1. x \in SplitC
    <2>1. c.splice \in Seq(SplitC) BY DEF RippleC
    <2> QED BY <2>1, EmptySeq
  <1>2. RedoSplice(c, d) = Both(k, f) BY DEF RedoSplice
  <1>3. lapse \in BOOLEAN OBVIOUS
  <1> HIDE DEF x, lapse
  <1>4. e \in SoundDoc BY <1>3, LapseSound
  <1> HIDE DEF e
  <1>5. r \in Result(SplitC) BY <1>1, <1>4, RedoSplitSound
  <1>6. r.c \in SplitC /\ r.d \in SoundDoc BY <1>5 DEF Result
  <1> HIDE DEF r
  <1>7. k \in RippleC BY <1>6, RippleWith
  <1>8. f \in SoundDoc
    <2>1. Length(r.d, n) \in Int /\ In(r.d, n) \in Int BY <1>6, ReadsTyped
    <2>2. c.out \in Int BY DEF RippleC
    <2>3. Length(r.d, n) - (c.out - In(r.d, n)) \in Int BY <2>1, <2>2
    <2> QED BY <1>6, <2>3, SettersSound
  <1> HIDE DEF k, f
  <1> QED BY <1>2, <1>7, <1>8, BothIs

\* The detached nodes of a clearing, detached again
LEMMA RedoRemoveEach ==
    ASSUME NEW q \in Seq(RemoveC), NEW d \in SoundDoc
    PROVE  [i \in DOMAIN q |-> RedoRemove(q[i], d).c] \in Seq(RemoveC)
  <1>1. PICK n \in Nat : n = Len(q) OBVIOUS
  <1>2. \A i \in 1..n : RedoRemove(q[i], d).c \in RemoveC
    <2> SUFFICES ASSUME NEW i \in 1..n PROVE RedoRemove(q[i], d).c \in RemoveC OBVIOUS
    <2>1. q[i] \in RemoveC BY <1>1
    <2>2. RedoRemove(q[i], d) \in Result(RemoveC) BY <2>1, RemoveC1
    <2> QED BY <2>2 DEF Result
  <1> DEFINE f == [i \in DOMAIN q |-> RedoRemove(q[i], d).c]
  <1>3. f \in [1..n -> RemoveC] BY <1>1, <1>2
  <1> HIDE DEF f
  <1>4. f \in Seq(RemoveC) BY <1>3, FunctionIsSeq
  <1> QED BY <1>4 DEF f

\* taking off and detaching the blocks inside it,
LEMMA RedoRemovalsSound ==
    ASSUME NEW c \in RippleC, NEW d \in SoundDoc
    PROVE  RedoRemovals(c, d) \in Result(RippleC)
  <1> DEFINE t == c.track
             q == c.removals
             e == FoldLeft(LAMBDA a, x : RippleRemoveBlock(a, t, x.block), d, q)
             new == [i \in DOMAIN q |-> RemoveNode(q[i].block)]
             taken == IF c.taken = <<>> THEN new ELSE c.taken
             left == [i \in DOMAIN taken |-> RedoRemove(taken[i], e).c]
             f == FoldLeft(LAMBDA a, x : TakeNode(a, x.block), e, taken)
             k == [c EXCEPT !.taken = left]
  <1>1. q \in Seq(RemovalT) /\ c.taken \in Seq(RemoveC) /\ t \in Track BY DEF RippleC
  <1>2. RedoRemovals(c, d) = IF q = <<>> THEN Both(c, d) ELSE Both(k, f) BY DEF RedoRemovals
  <1>3. e \in SoundDoc BY <1>1, FoldUnlist
  <1> HIDE DEF e
  <1>4. new \in Seq(RemoveC)
    <2>1. PICK n \in Nat : n = Len(q) BY <1>1
    <2>2. <<>> \in Cores BY DEF Cores
    <2>3. \A i \in 1..n : q[i] \in RemovalT BY <1>1, <2>1
    <2> HIDE DEF q
    <2>4. \A i \in 1..n : q[i].block \in Name BY <2>3 DEF RemovalT
    <2> USE DEF q
    <2>5. \A i \in 1..n : RemoveNode(q[i].block) \in RemoveC BY <2>2, <2>4 DEF RemoveNode, RemoveC
    <2>6. new \in [1..n -> RemoveC] BY <1>1, <2>1, <2>5
    <2> HIDE DEF new
    <2> QED BY <2>6, FunctionIsSeq
  <1> HIDE DEF new
  <1>5. taken \in Seq(RemoveC) BY <1>1, <1>4
  <1> HIDE DEF taken
  <1>6. left \in Seq(RemoveC) BY <1>3, <1>5, RedoRemoveEach
  <1>7. f \in SoundDoc BY <1>3, <1>5, FoldTake
  <1> HIDE DEF left, f
  <1>8. k \in RippleC BY <1>6 DEF RippleC
  <1> HIDE DEF k, q
  <1> QED BY <1>2, <1>7, <1>8, BothIs

\* the run of a prepared removal,
LEMMA RedoPreparedSound ==
    ASSUME NEW c \in RippleC, NEW d \in SoundDoc
    PROVE  RedoPrepared(c, d) \in Result(RippleC)
  <1>1. Trim(c, d, FALSE) \in SoundDoc BY TrimSound
  <1>2. RedoRemovals(c, Trim(c, d, FALSE)) \in Result(RippleC) BY <1>1, RedoRemovalsSound
  <1> QED BY <1>2, RedoSpliceSound DEF RedoPrepared

\* the first run, which prepares it (redo),
LEMMA RedoRippleSound ==
    ASSUME NEW c \in RippleC, NEW d \in SoundDoc
    PROVE  RedoRipple(c, d) \in Result(RippleC)
  <1>1. PrepareRipple(c, d) \in RippleC BY PrepareRippleTyped
  <1> QED BY <1>1, RedoPreparedSound DEF RedoRipple

\* and its undo, which brings the blocks back in reverse.
LEMMA UndoRippleSound ==
    ASSUME NEW c \in RippleC, NEW d \in SoundDoc
    PROVE  UndoRipple(c, d) \in Result(RippleC)
  <1>1. CASE c.splice # <<>>
    <2> DEFINE r == UndoSplit(c.splice[1], d)
    <2>1. c.splice[1] \in SplitC
      <3>1. c.splice \in Seq(SplitC) BY DEF RippleC
      <3> QED BY <1>1, <3>1, EmptySeq
    <2>2. UndoRipple(c, d) = Both([c EXCEPT !.splice = <<r.c>>], r.d) BY <1>1 DEF UndoRipple
    <2>3. r \in Result(SplitC) BY <2>1, UndoSplitSound
    <2>4. r.c \in SplitC /\ r.d \in SoundDoc BY <2>3 DEF Result
    <2> HIDE DEF r
    <2>5. [c EXCEPT !.splice = <<r.c>>] \in RippleC BY <2>4, RippleWith
    <2> QED BY <2>2, <2>4, <2>5, BothIs
  <1>2. CASE c.splice = <<>>
    <2> DEFINE t == c.track
               q == c.taken
               r == c.removals
               e == Trim(c, d, TRUE)
               f == FoldRight(LAMBDA x, a : AddEntry(a, x.block, x.entry), q, e)
               g == FoldLeft(LAMBDA a, x : InsertBlockAfter(a, t, x.block, x.before), f, r)
               left == [i \in DOMAIN q |-> [q[i] EXCEPT !.entry = <<>>]]
               k == [c EXCEPT !.taken = left]
    <2>1. q \in Seq(RemoveC) /\ r \in Seq(RemovalT) /\ t \in Track BY DEF RippleC
    <2>2. UndoRipple(c, d) = Both(k, g) BY <1>2 DEF UndoRipple
    <2>3. e \in SoundDoc BY TrimSound
    <2> HIDE DEF e
    <2>4. f \in SoundDoc BY <2>1, <2>3, FoldRestore
    <2> HIDE DEF f
    <2>5. g \in SoundDoc BY <2>1, <2>4, FoldList
    <2>6. left \in Seq(RemoveC)
      <3>1. PICK n \in Nat : n = Len(q) BY <2>1
      <3>2. <<>> \in Cores BY DEF Cores
      <3>3. \A i \in 1..n : q[i] \in RemoveC BY <2>1, <3>1
      <3>4. \A i \in 1..n : [q[i] EXCEPT !.entry = <<>>] \in RemoveC BY <3>2, <3>3 DEF RemoveC
      <3>5. left \in [1..n -> RemoveC] BY <2>1, <3>1, <3>4
      <3> HIDE DEF left
      <3> QED BY <3>5, FunctionIsSeq
    <2> HIDE DEF left, g
    <2>7. k \in RippleC BY <2>6 DEF RippleC
    <2> HIDE DEF k
    <2> QED BY <2>2, <2>5, <2>7, BothIs
  <1> QED BY <1>1, <1>2

\* The fields of a replacement by a gap.
LEMMA GapParts ==
    ASSUME NEW c \in GapC
    PROVE  /\ c.track \in Track /\ c.block \in Name /\ c.inPoint \in Int /\ c.existing \in Name /\ c.merged \in Name
           /\ c.ours \in Name /\ c.oursEntry \in Seq(BlockCore) /\ c.mergedEntry \in Seq(BlockCore)
           /\ None \in Name /\ <<>> \in Cores
  BY DEF GapC, Cores, None, Name

\* A neighbouring gap takes over the length of the block, and of the gap behind it,
LEMMA GrowGapSound ==
    ASSUME NEW c \in GapC, NEW d \in SoundDoc, NEW prevGap \in BOOLEAN, NEW nextGap \in BOOLEAN
    PROVE  GrowGap(c, d, prevGap, nextGap) \in Result(GapC)
  <1> DEFINE prev == PreviousBlock(d, c.block)
             nxt == NextBlock(d, c.block)
             gap == IF prevGap THEN prev ELSE IF nextGap THEN nxt ELSE c.existing
             both == prevGap /\ nextGap
             u == RippleRemoveBlock(d, c.track, nxt)
             e == IF both THEN TakeNode(u, nxt) ELSE d
             len == Length(d, c.block) + (IF both THEN Length(d, nxt) ELSE 0) + Length(d, gap)
             f == SetLengthMediaIn(e, gap, len)
             m == IF both THEN nxt ELSE c.merged
             n == IF both THEN Entry(u, nxt) ELSE c.mergedEntry
             k == [c EXCEPT !.existing = gap, !.precedes = (gap = prev), !.merged = m, !.mergedEntry = n]
  <1>1. prev \in Name /\ nxt \in Name BY NeighboursTyped
  <1>2. gap \in Name BY <1>1, GapParts
  <1>3. u \in SoundDoc BY GapParts, RippleRemoveBlockSound
  <1>4. GrowGap(c, d, prevGap, nextGap) = Both(k, RippleRemoveBlock(f, c.track, c.block)) BY DEF GrowGap
  <1> HIDE DEF u, prev, nxt
  <1>5. e \in SoundDoc BY <1>1, <1>3, TakeNodeSound
  <1>6. len \in Int BY ReadsTyped
  <1>7. m \in Name /\ n \in Cores BY <1>1, <1>3, GapParts, EntryTyped DEF Cores
  <1> HIDE DEF e, len, gap, m, n
  <1>8. f \in SoundDoc BY <1>5, <1>6, SettersSound
  <1>9. k \in GapC BY <1>2, <1>7 DEF GapC
  <1> HIDE DEF f, k
  <1>10. RippleRemoveBlock(f, c.track, c.block) \in SoundDoc BY <1>8, GapParts, RippleRemoveBlockSound
  <1> QED BY <1>4, <1>9, <1>10, BothIs

\* or a new gap takes its place,
LEMMA SwapInGapSound ==
    ASSUME NEW c \in GapC, NEW d \in SoundDoc
    PROVE  SwapInGap(c, d) \in Result(GapC)
  <1> DEFINE core == Core("gap", c.inPoint, c.inPoint + Length(d, c.block))
             made == IF c.ours = None THEN AddNode(d, core) ELSE [d |-> d, id |-> c.ours]
             e == AddEntry(made.d, made.id, c.oursEntry)
             f == ReplaceBlock(e, c.track, c.block, made.id)
             k == [c EXCEPT !.ours = made.id, !.oursEntry = <<>>]
  <1>1. core \in BlockCore
    <2>1. Length(d, c.block) \in Int BY ReadsTyped
    <2> QED BY <2>1, GapParts DEF Core, BlockCore
  <1>2. SwapInGap(c, d) = Both(k, f) BY DEF SwapInGap
  <1> HIDE DEF core
  <1>3. made.d \in SoundDoc /\ made.id \in Name BY <1>1, AddNodeSound, GapParts
  <1> HIDE DEF made
  <1>4. e \in SoundDoc BY <1>3, GapParts, AddEntrySound
  <1> HIDE DEF e
  <1>5. f \in SoundDoc BY <1>3, <1>4, GapParts, ReplaceBlockSound
  <1>6. k \in GapC BY <1>3, GapParts DEF GapC
  <1> HIDE DEF f, k
  <1> QED BY <1>2, <1>5, <1>6, BothIs

\* or, at the end of the track, nothing does:
LEMMA DropLastSound ==
    ASSUME NEW c \in GapC, NEW d \in SoundDoc
    PROVE  DropLast(c, d) \in Result(GapC)
  <1> DEFINE prev == PreviousBlock(d, c.block)
             e == RippleRemoveBlock(d, c.track, c.block)
             f == RippleRemoveBlock(e, c.track, prev)
             m == Entry(f, prev)
             k == [c EXCEPT !.merged = prev, !.mergedEntry = m]
  <1>1. prev \in Name BY NeighboursTyped
  <1>2. e \in SoundDoc BY GapParts, RippleRemoveBlockSound
  <1>3. DropLast(c, d) = IF Kind(d, prev) # "gap" THEN Both(c, e) ELSE Both(k, TakeNode(f, prev)) BY DEF DropLast
  <1> HIDE DEF e, prev
  <1>4. f \in SoundDoc BY <1>2, GapParts, RippleRemoveBlockSound
  <1> HIDE DEF f
  <1>5. TakeNode(f, prev) \in SoundDoc BY <1>1, <1>4, TakeNodeSound
  <1>6. m \in Cores BY <1>4, EntryTyped
  <1> HIDE DEF m
  <1>7. k \in GapC BY <1>1, <1>6 DEF GapC
  <1> HIDE DEF k
  <1> QED BY <1>2, <1>3, <1>5, <1>7, BothIs

\* every run of TrackReplaceBlockWithGapCommand keeps the document sound.
LEMMA RedoGapSound ==
    ASSUME NEW c \in GapC, NEW d \in SoundDoc
    PROVE  RedoGap(c, d) \in Result(GapC)
  <1> DEFINE prevGap == Kind(d, PreviousBlock(d, c.block)) = "gap"
             nextGap == Kind(d, NextBlock(d, c.block)) = "gap"
  <1>1. prevGap \in BOOLEAN /\ nextGap \in BOOLEAN OBVIOUS
  <1>2. RedoGap(c, d) = IF NextBlock(d, c.block) = None THEN DropLast(c, d)
                        ELSE IF prevGap \/ nextGap \/ c.existing # None THEN GrowGap(c, d, prevGap, nextGap)
                        ELSE SwapInGap(c, d)
    BY DEF RedoGap
  <1> HIDE DEF prevGap, nextGap
  <1>3. GrowGap(c, d, prevGap, nextGap) \in Result(GapC) BY <1>1, GrowGapSound
  <1> QED BY <1>2, <1>3, DropLastSound, SwapInGapSound

\* Undone, the gap gives the length back and the merged gap returns,
LEMMA ShrinkGapSound ==
    ASSUME NEW c \in GapC, NEW d \in SoundDoc
    PROVE  ShrinkGap(c, d) \in Result(GapC)
  <1> DEFINE merged == c.merged # None
             len == Length(d, c.existing) - Length(d, c.block) - (IF merged THEN Length(d, c.merged) ELSE 0)
             a == InsertBlockAfter(d, c.track, c.merged, c.existing)
             b == AddEntry(a, c.merged, c.mergedEntry)
             e == IF merged THEN [b EXCEPT !.lapse = TRUE] ELSE d
             f == IF c.precedes THEN InsertBlockAfter(e, c.track, c.block, c.existing)
                  ELSE InsertBlockBefore(e, c.track, c.block, c.existing)
             k == [c EXCEPT !.existing = None, !.merged = None, !.mergedEntry = <<>>]
  <1>1. len \in Int
    <2>1. Length(d, c.existing) \in Int /\ Length(d, c.block) \in Int /\ Length(d, c.merged) \in Int BY ReadsTyped
    <2> QED BY <2>1
  <1>2. a \in SoundDoc BY GapParts, InsertBesideSound
  <1>3. ShrinkGap(c, d) = Both(k, SetLengthMediaIn(f, c.existing, len)) BY DEF ShrinkGap
  <1> HIDE DEF a, len
  <1>4. b \in SoundDoc BY <1>2, GapParts, AddEntrySound
  <1> HIDE DEF b
  <1>5. e \in SoundDoc
    <2>1. [b EXCEPT !.lapse = TRUE] \in SoundDoc BY <1>4, LapseSound
    <2> QED BY <2>1
  <1> HIDE DEF e
  <1>6. f \in SoundDoc BY <1>5, GapParts, InsertBesideSound
  <1>7. k \in GapC BY GapParts DEF GapC
  <1> HIDE DEF f, k
  <1>8. SetLengthMediaIn(f, c.existing, len) \in SoundDoc BY <1>1, <1>6, SettersSound
  <1> QED BY <1>3, <1>7, <1>8, BothIs

\* or the new gap leaves again,
LEMMA SwapOutGapSound ==
    ASSUME NEW c \in GapC, NEW d \in SoundDoc
    PROVE  SwapOutGap(c, d) \in Result(GapC)
  <1> DEFINE e == ReplaceBlock(d, c.track, c.ours, c.block)
             m == IF c.oursEntry = <<>> THEN Entry(e, c.ours) ELSE c.oursEntry
             f == IF c.oursEntry = <<>> THEN TakeNode(e, c.ours) ELSE e
             k == [c EXCEPT !.oursEntry = m]
  <1>1. e \in SoundDoc BY GapParts, ReplaceBlockSound
  <1>2. SwapOutGap(c, d) = Both(k, f) BY DEF SwapOutGap
  <1> HIDE DEF e
  <1>3. m \in Cores BY <1>1, GapParts, EntryTyped DEF Cores
  <1>4. f \in SoundDoc BY <1>1, GapParts, TakeNodeSound
  <1> HIDE DEF m
  <1>5. k \in GapC BY <1>3 DEF GapC
  <1> HIDE DEF f, k
  <1> QED BY <1>2, <1>4, <1>5, BothIs

\* or the block is appended again:
LEMMA AppendLastSound ==
    ASSUME NEW c \in GapC, NEW d \in SoundDoc
    PROVE  AppendLast(c, d) \in Result(GapC)
  <1> DEFINE a == AppendBlock(d, c.track, c.merged)
             b == AddEntry(a, c.merged, c.mergedEntry)
             e == IF c.merged = None THEN d ELSE [b EXCEPT !.lapse = TRUE]
             k == [c EXCEPT !.merged = None, !.mergedEntry = <<>>]
  <1>1. a \in SoundDoc BY GapParts, AppendBlockSound
  <1>2. AppendLast(c, d) = Both(k, AppendBlock(e, c.track, c.block)) BY DEF AppendLast
  <1> HIDE DEF a
  <1>3. b \in SoundDoc BY <1>1, GapParts, AddEntrySound
  <1> HIDE DEF b
  <1>4. e \in SoundDoc
    <2>1. [b EXCEPT !.lapse = TRUE] \in SoundDoc BY <1>3, LapseSound
    <2> QED BY <2>1
  <1>5. k \in GapC BY GapParts DEF GapC
  <1> HIDE DEF e, k
  <1>6. AppendBlock(e, c.track, c.block) \in SoundDoc BY <1>4, GapParts, AppendBlockSound
  <1> QED BY <1>2, <1>5, <1>6, BothIs

\* every undo keeps the document sound.
LEMMA UndoGapSound ==
    ASSUME NEW c \in GapC, NEW d \in SoundDoc
    PROVE  UndoGap(c, d) \in Result(GapC)
  BY SwapOutGapSound, ShrinkGapSound, AppendLastSound DEF UndoGap

\* The fields of a placement.
LEMMA PlaceParts ==
    ASSUME NEW c \in PlaceC
    PROVE  /\ c.track \in Track /\ c.block \in Name /\ c.in \in Int /\ c.gap \in Name
           /\ c.gapEntry \in Seq(BlockCore) /\ c.ripple \in Seq(RippleC) /\ c.oldIn \in Seq(Int)
           /\ None \in Name /\ <<>> \in Cores
  BY DEF PlaceC, Cores, None, Name

\* A new ripple removal is a ripple removal.
LEMMA RippleRemoveTyped ==
    ASSUME NEW t \in Track, NEW i \in Int, NEW o \in Int, NEW g \in BOOLEAN
    PROVE  RippleRemove(t, i, o, g) \in RippleC
  <1>1. None \in Name BY DEF None, Name
  <1>2. <<>> \in Seq(TrimT) /\ <<>> \in Seq(RemovalT) /\ <<>> \in Seq(SplitC) /\ <<>> \in Seq(RemoveC) OBVIOUS
  <1> QED BY <1>1, <1>2 DEF RippleRemove, RippleC

\* A placing that ran remembers where its block was
PlacedC == {c \in PlaceC : c.oldIn # <<>>}

\* A placement behind the end of the track, with a gap before it if need be,
LEMMA PlaceAtEndSound ==
    ASSUME NEW c \in PlacedC, NEW d \in SoundDoc
    PROVE  PlaceAtEnd(c, d) \in Result(PlacedC)
  <1> DEFINE end == TrackLength(d, c.track)
             core == Core("gap", end, c.in)
             made == IF c.gap = None THEN AddNode(d, core) ELSE [d |-> d, id |-> c.gap]
             a == AddEntry(made.d, made.id, c.gapEntry)
             e == AppendBlock(a, c.track, made.id)
             f == AppendBlock(e, c.track, c.block)
             g == AppendBlock(d, c.track, c.block)
             k == [c EXCEPT !.gap = made.id, !.gapEntry = <<>>]
  <1>1. c \in PlaceC BY DEF PlacedC
  <1>2. core \in BlockCore
    <2>1. end \in Int /\ c.in \in Int BY <1>1, PlaceParts, TrackLengthTyped
    <2> HIDE DEF end
    <2> QED BY <2>1 DEF Core, BlockCore
  <1>3. PlaceAtEnd(c, d) = IF c.in = end THEN Both(c, g) ELSE Both(k, f) BY DEF PlaceAtEnd
  <1> HIDE DEF core, end
  <1>4. made.d \in SoundDoc /\ made.id \in Name BY <1>1, <1>2, AddNodeSound, PlaceParts
  <1> HIDE DEF made
  <1>5. a \in SoundDoc BY <1>1, <1>4, PlaceParts, AddEntrySound
  <1> HIDE DEF a
  <1>6. e \in SoundDoc BY <1>1, <1>4, <1>5, PlaceParts, AppendBlockSound
  <1> HIDE DEF e
  <1>7. f \in SoundDoc /\ g \in SoundDoc BY <1>1, <1>6, PlaceParts, AppendBlockSound
  <1>8. k \in PlaceC /\ k.oldIn = c.oldIn BY <1>1, <1>4, PlaceParts DEF PlaceC
  <1> HIDE DEF f, g, k
  <1>9. k \in PlacedC BY <1>8 DEF PlacedC
  <1> QED BY <1>3, <1>7, <1>9, BothIs

\* and one over what is there, which it clears first, keep the document sound:
LEMMA PlaceOverSound ==
    ASSUME NEW c \in PlacedC, NEW d \in SoundDoc
    PROVE  PlaceOver(c, d) \in Result(PlacedC)
  <1> DEFINE ripple == IF c.ripple = <<>>
                       THEN RippleRemove(c.track, c.in, c.in + Length(d, c.block), TRUE) ELSE c.ripple[1]
             lapse == d.lapse \/ ripple.splice # <<>>
             e == [d EXCEPT !.lapse = lapse]
             r == RedoPrepared(PrepareRipple(ripple, d), e)
             f == InsertBlockAfter(r.d, c.track, c.block, r.c.prev)
             q == <<r.c>>
             k == [c EXCEPT !.ripple = q]
  <1>1. c \in PlaceC BY DEF PlacedC
  <1>2. ripple \in RippleC
    <2>1. c.track \in Track /\ c.in \in Int /\ c.in + Length(d, c.block) \in Int BY <1>1, PlaceParts, ReadsTyped
    <2>2. RippleRemove(c.track, c.in, c.in + Length(d, c.block), TRUE) \in RippleC BY <2>1, RippleRemoveTyped
    <2>3. c.ripple # <<>> => c.ripple[1] \in RippleC BY <1>1, PlaceParts, EmptySeq
    <2> QED BY <2>2, <2>3
  <1>3. PlaceOver(c, d) = Both(k, f) BY DEF PlaceOver
  <1>4. lapse \in BOOLEAN OBVIOUS
  <1> HIDE DEF ripple, lapse
  <1>5. e \in SoundDoc BY <1>4, LapseSound
  <1> HIDE DEF e
  <1>6. r \in Result(RippleC) BY <1>2, <1>5, PrepareRippleTyped, RedoPreparedSound
  <1>7. r.c \in RippleC /\ r.d \in SoundDoc BY <1>6 DEF Result
  <1> HIDE DEF r
  <1>8. f \in SoundDoc BY <1>1, <1>7, PlaceParts, InsertBesideSound
  <1>9. q \in Seq(RippleC) BY <1>7
  <1> HIDE DEF f, q
  <1>10. k \in PlaceC /\ k.oldIn = c.oldIn BY <1>1, <1>9 DEF PlaceC
  <1> HIDE DEF k
  <1>11. k \in PlacedC BY <1>10 DEF PlacedC
  <1> QED BY <1>3, <1>8, <1>11, BothIs

\* a placement that ran knows the old in point (TrackPlaceBlockCommand::redo),
LEMMA RedoPlaceSound ==
    ASSUME NEW c \in PlaceC, NEW d \in SoundDoc
    PROVE  RedoPlace(c, d) \in Result(PlacedC)
  <1> DEFINE old == IF c.oldIn = <<>> THEN <<In(d, c.block)>> ELSE c.oldIn
             p == [c EXCEPT !.oldIn = old]
             e == SetIn(d, c.block, c.in)
  <1>1. old \in Seq(Int) /\ old # <<>> BY PlaceParts, ReadsTyped
  <1>2. RedoPlace(c, d) = IF c.in >= TrackLength(e, c.track) THEN PlaceAtEnd(p, e) ELSE PlaceOver(p, e)
    BY DEF RedoPlace
  <1> HIDE DEF old
  <1>3. p \in PlaceC /\ p.oldIn = old BY <1>1 DEF PlaceC
  <1>4. e \in SoundDoc BY PlaceParts, SettersSound
  <1> HIDE DEF p, e
  <1>5. p \in PlacedC BY <1>1, <1>3 DEF PlacedC
  <1> QED BY <1>2, <1>4, <1>5, PlaceAtEndSound, PlaceOverSound

\* which its undo puts back.
LEMMA UndoPlaceSound ==
    ASSUME NEW c \in PlacedC, NEW d \in SoundDoc
    PROVE  UndoPlace(c, d) \in Result(PlacedC)
  <1> DEFINE a == RippleRemoveBlock(d, c.track, c.block)
             e == SetIn(a, c.block, c.oldIn[1])
             f == RippleRemoveBlock(e, c.track, c.gap)
             r == UndoRipple(c.ripple[1], e)
             q == <<r.c>>
             k == [c EXCEPT !.ripple = q]
             m == IF c.gapEntry = <<>> THEN Entry(f, c.gap) ELSE c.gapEntry
             g == IF c.gapEntry = <<>> THEN TakeNode(f, c.gap) ELSE f
             l == [c EXCEPT !.gapEntry = m]
  <1>1. c \in PlaceC /\ c.oldIn # <<>> BY DEF PlacedC
  <1>2. c.oldIn[1] \in Int BY <1>1, PlaceParts, EmptySeq
  <1>3. UndoPlace(c, d) = IF c.ripple # <<>> THEN Both(k, r.d) ELSE IF c.gap = None THEN Both(c, e) ELSE Both(l, g)
    BY DEF UndoPlace
  <1>4. a \in SoundDoc BY <1>1, PlaceParts, RippleRemoveBlockSound
  <1> HIDE DEF a
  <1>5. e \in SoundDoc BY <1>2, <1>4, SettersSound
  <1> HIDE DEF e
  <1>6. f \in SoundDoc BY <1>1, <1>5, PlaceParts, RippleRemoveBlockSound
  <1> HIDE DEF f
  <1>7. ASSUME c.ripple # <<>> PROVE k \in PlacedC /\ r.d \in SoundDoc
    <2>1. c.ripple[1] \in RippleC BY <1>1, <1>7, PlaceParts, EmptySeq
    <2>2. r \in Result(RippleC) BY <1>5, <2>1, UndoRippleSound
    <2>3. r.c \in RippleC /\ r.d \in SoundDoc BY <2>2 DEF Result
    <2> HIDE DEF r
    <2>4. q \in Seq(RippleC) BY <2>3
    <2> HIDE DEF q
    <2>5. k \in PlaceC /\ k.oldIn = c.oldIn BY <1>1, <2>4 DEF PlaceC
    <2> HIDE DEF k
    <2> QED BY <1>1, <2>3, <2>5 DEF PlacedC
  <1>8. m \in Cores BY <1>1, <1>6, PlaceParts, EntryTyped DEF Cores
  <1>9. g \in SoundDoc BY <1>1, <1>6, PlaceParts, TakeNodeSound
  <1> HIDE DEF m, g, r, k
  <1>10. l \in PlaceC /\ l.oldIn = c.oldIn BY <1>1, <1>8 DEF PlaceC
  <1> HIDE DEF l
  <1>11. l \in PlacedC BY <1>1, <1>10 DEF PlacedC
  <1> QED BY <1>3, <1>5, <1>7, <1>9, <1>11, BothIs

\* The fields of a roll.
LEMMA RollParts ==
    ASSUME NEW c \in RollC
    PROVE  /\ c.track \in Track /\ c.block \in Name /\ c.new \in Int /\ c.old \in Int /\ c.diff \in Int
           /\ c.adjacent \in Name /\ c.entry \in Seq(BlockCore) /\ <<>> \in Cores
  BY DEF RollC, Cores

\* A roll trims a block and its neighbour, with a gap for a hole (BlockTrimCommand::redo),
LEMMA RedoRollSound ==
    ASSUME NEW c \in RollC, NEW d \in SoundDoc
    PROVE  RedoRoll(c, d) \in Result(RollC)
  <1> DEFINE e == SetLengthMediaOut(d, c.block, c.new)
             f == RippleRemoveBlock(e, c.track, c.adjacent)
             m == Entry(f, c.adjacent)
             k == [c EXCEPT !.entry = m]
             g == SetLengthMediaIn(e, c.adjacent, Length(e, c.adjacent) + c.diff)
  <1>1. e \in SoundDoc BY RollParts, SettersSound
  <1>2. RedoRoll(c, d) = IF c.adjacent = None THEN Both(c, e)
                         ELSE IF c.removes THEN Both(k, TakeNode(f, c.adjacent)) ELSE Both(c, g)
    BY DEF RedoRoll
  <1> HIDE DEF e
  <1>3. f \in SoundDoc BY <1>1, RollParts, RippleRemoveBlockSound
  <1>4. g \in SoundDoc
    <2>1. Length(e, c.adjacent) + c.diff \in Int BY <1>1, ReadsTyped, RollParts
    <2> QED BY <1>1, <2>1, SettersSound
  <1> HIDE DEF f, g
  <1>5. m \in Cores BY <1>3, EntryTyped
  <1> HIDE DEF m
  <1>6. k \in RollC BY <1>5 DEF RollC
  <1>7. TakeNode(f, c.adjacent) \in SoundDoc BY <1>3, RollParts, TakeNodeSound
  <1> HIDE DEF k
  <1> QED BY <1>1, <1>2, <1>4, <1>6, <1>7, BothIs

\* and its undo takes the gap away again.
LEMMA UndoRollSound ==
    ASSUME NEW c \in RollC, NEW d \in SoundDoc
    PROVE  UndoRoll(c, d) \in Result(RollC)
  <1> DEFINE a == AddEntry(d, c.adjacent, c.entry)
             b == InsertBlockAfter(a, c.track, c.adjacent, c.block)
             g == SetLengthMediaIn(d, c.adjacent, Length(d, c.adjacent) - c.diff)
             e == IF c.adjacent = None THEN d ELSE IF c.removes THEN b ELSE g
             k == [c EXCEPT !.entry = <<>>]
  <1>1. a \in SoundDoc BY RollParts, AddEntrySound
  <1>2. UndoRoll(c, d) = Both(k, SetLengthMediaOut(e, c.block, c.old)) BY DEF UndoRoll
  <1> HIDE DEF a
  <1>3. b \in SoundDoc BY <1>1, RollParts, InsertBesideSound
  <1>4. g \in SoundDoc
    <2>1. Length(d, c.adjacent) - c.diff \in Int BY ReadsTyped, RollParts
    <2> QED BY <2>1, SettersSound
  <1> HIDE DEF b, g
  <1>5. e \in SoundDoc BY <1>3, <1>4
  <1>6. k \in RollC BY RollParts DEF RollC
  <1> HIDE DEF e, k
  <1>7. SetLengthMediaOut(e, c.block, c.old) \in SoundDoc BY <1>5, RollParts, SettersSound
  <1> QED BY <1>2, <1>6, <1>7, BothIs

--------------------------------------------------------------------------------
(* Rows of commands *)

Command == SettersC \cup RemoveC \cup SplitC \cup RippleC \cup GapC \cup PlaceC \cup RollC
RanC == SettersC \cup RemoveC \cup SplitC \cup RippleC \cup GapC \cup PlacedC \cup RollC

\* The tag of a command says its kind.
LEMMA OpIs ==
    /\ \A c \in SettersC : c.op = "setters"
    /\ \A c \in RemoveC : c.op = "remove"
    /\ \A c \in SplitC : c.op = "split"
    /\ \A c \in RippleC : c.op = "ripple"
    /\ \A c \in GapC : c.op = "gap"
    /\ \A c \in PlaceC : c.op = "place"
    /\ \A c \in RollC : c.op = "roll"
  <1>1. \A c \in SettersC : c.op = "setters" BY DEF SettersC
  <1>2. \A c \in RemoveC : c.op = "remove" BY DEF RemoveC
  <1>3. \A c \in SplitC : c.op = "split" BY DEF SplitC
  <1>4. \A c \in RippleC : c.op = "ripple" BY DEF RippleC
  <1>5. \A c \in GapC : c.op = "gap" BY DEF GapC
  <1>6. \A c \in PlaceC : c.op = "place" BY DEF PlaceC
  <1>7. \A c \in RollC : c.op = "roll" BY DEF RollC
  <1> QED BY <1>1, <1>2, <1>3, <1>4, <1>5, <1>6, <1>7

\* A result of one kind of command is a result of commands.
LEMMA ResultGrows ==
    ASSUME NEW S, NEW T, S \subseteq T, NEW r \in Result(S)
    PROVE  r \in Result(T)
  BY DEF Result

\* A command of any kind runs within sound documents,
LEMMA Redo1Sound ==
    ASSUME NEW c \in Command, NEW d \in SoundDoc
    PROVE  Redo1(c, d) \in Result(RanC)
  <1>1. CASE c \in SettersC
    <2>1. Redo1(c, d) = RedoSetters(c, d)
      <3>1. c.op = "setters" BY <1>1, OpIs
      <3> QED BY <3>1 DEF Redo1
    <2>2. Redo1(c, d) \in Result(SettersC) BY <1>1, <2>1, SettersC1
    <2>3. SettersC \subseteq RanC BY DEF RanC
    <2> QED BY <2>2, <2>3, ResultGrows
  <1>2. CASE c \in RemoveC
    <2>1. Redo1(c, d) = RedoRemove(c, d)
      <3>1. c.op = "remove" BY <1>2, OpIs
      <3> QED BY <3>1 DEF Redo1
    <2>2. Redo1(c, d) \in Result(RemoveC) BY <1>2, <2>1, RemoveC1
    <2>3. RemoveC \subseteq RanC BY DEF RanC
    <2> QED BY <2>2, <2>3, ResultGrows
  <1>3. CASE c \in SplitC
    <2>1. Redo1(c, d) = RedoSplit(c, d)
      <3>1. c.op = "split" BY <1>3, OpIs
      <3> QED BY <3>1 DEF Redo1
    <2>2. Redo1(c, d) \in Result(SplitC) BY <1>3, <2>1, RedoSplitSound
    <2>3. SplitC \subseteq RanC BY DEF RanC
    <2> QED BY <2>2, <2>3, ResultGrows
  <1>4. CASE c \in RippleC
    <2>1. Redo1(c, d) = RedoRipple(c, d)
      <3>1. c.op = "ripple" BY <1>4, OpIs
      <3> QED BY <3>1 DEF Redo1
    <2>2. Redo1(c, d) \in Result(RippleC) BY <1>4, <2>1, RedoRippleSound
    <2>3. RippleC \subseteq RanC BY DEF RanC
    <2> QED BY <2>2, <2>3, ResultGrows
  <1>5. CASE c \in GapC
    <2>1. Redo1(c, d) = RedoGap(c, d)
      <3>1. c.op = "gap" BY <1>5, OpIs
      <3> QED BY <3>1 DEF Redo1
    <2>2. Redo1(c, d) \in Result(GapC) BY <1>5, <2>1, RedoGapSound
    <2>3. GapC \subseteq RanC BY DEF RanC
    <2> QED BY <2>2, <2>3, ResultGrows
  <1>6. CASE c \in PlaceC
    <2>1. Redo1(c, d) = RedoPlace(c, d)
      <3>1. c.op = "place" BY <1>6, OpIs
      <3> QED BY <3>1 DEF Redo1
    <2>2. Redo1(c, d) \in Result(PlacedC) BY <1>6, <2>1, RedoPlaceSound
    <2>3. PlacedC \subseteq RanC BY DEF RanC
    <2> QED BY <2>2, <2>3, ResultGrows
  <1>7. CASE c \in RollC
    <2>1. Redo1(c, d) = RedoRoll(c, d)
      <3>1. c.op = "roll" BY <1>7, OpIs
      <3> QED BY <3>1 DEF Redo1
    <2>2. Redo1(c, d) \in Result(RollC) BY <1>7, <2>1, RedoRollSound
    <2>3. RollC \subseteq RanC BY DEF RanC
    <2> QED BY <2>2, <2>3, ResultGrows
  <1> QED BY <1>1, <1>2, <1>3, <1>4, <1>5, <1>6, <1>7 DEF Command

\* and one that ran is undone within them.
LEMMA Undo1Sound ==
    ASSUME NEW c \in RanC, NEW d \in SoundDoc
    PROVE  Undo1(c, d) \in Result(RanC)
  <1>1. CASE c \in SettersC
    <2>1. Undo1(c, d) = UndoSetters(c, d)
      <3>1. c.op = "setters" BY <1>1, OpIs
      <3> QED BY <3>1 DEF Undo1
    <2>2. Undo1(c, d) \in Result(SettersC) BY <1>1, <2>1, SettersC1
    <2>3. SettersC \subseteq RanC BY DEF RanC
    <2> QED BY <2>2, <2>3, ResultGrows
  <1>2. CASE c \in RemoveC
    <2>1. Undo1(c, d) = UndoRemove(c, d)
      <3>1. c.op = "remove" BY <1>2, OpIs
      <3> QED BY <3>1 DEF Undo1
    <2>2. Undo1(c, d) \in Result(RemoveC) BY <1>2, <2>1, RemoveC1
    <2>3. RemoveC \subseteq RanC BY DEF RanC
    <2> QED BY <2>2, <2>3, ResultGrows
  <1>3. CASE c \in SplitC
    <2>1. Undo1(c, d) = UndoSplit(c, d)
      <3>1. c.op = "split" BY <1>3, OpIs
      <3> QED BY <3>1 DEF Undo1
    <2>2. Undo1(c, d) \in Result(SplitC) BY <1>3, <2>1, UndoSplitSound
    <2>3. SplitC \subseteq RanC BY DEF RanC
    <2> QED BY <2>2, <2>3, ResultGrows
  <1>4. CASE c \in RippleC
    <2>1. Undo1(c, d) = UndoRipple(c, d)
      <3>1. c.op = "ripple" BY <1>4, OpIs
      <3> QED BY <3>1 DEF Undo1
    <2>2. Undo1(c, d) \in Result(RippleC) BY <1>4, <2>1, UndoRippleSound
    <2>3. RippleC \subseteq RanC BY DEF RanC
    <2> QED BY <2>2, <2>3, ResultGrows
  <1>5. CASE c \in GapC
    <2>1. Undo1(c, d) = UndoGap(c, d)
      <3>1. c.op = "gap" BY <1>5, OpIs
      <3> QED BY <3>1 DEF Undo1
    <2>2. Undo1(c, d) \in Result(GapC) BY <1>5, <2>1, UndoGapSound
    <2>3. GapC \subseteq RanC BY DEF RanC
    <2> QED BY <2>2, <2>3, ResultGrows
  <1>6. CASE c \in PlacedC
    <2>1. Undo1(c, d) = UndoPlace(c, d)
      <3>1. c.op = "place" BY <1>6, OpIs DEF PlacedC
      <3> QED BY <3>1 DEF Undo1
    <2>2. Undo1(c, d) \in Result(PlacedC) BY <1>6, <2>1, UndoPlaceSound
    <2>3. PlacedC \subseteq RanC BY DEF RanC
    <2> QED BY <2>2, <2>3, ResultGrows
  <1>7. CASE c \in RollC
    <2>1. Undo1(c, d) = UndoRoll(c, d)
      <3>1. c.op = "roll" BY <1>7, OpIs
      <3> QED BY <3>1 DEF Undo1
    <2>2. Undo1(c, d) \in Result(RollC) BY <1>7, <2>1, UndoRollSound
    <2>3. RollC \subseteq RanC BY DEF RanC
    <2> QED BY <2>2, <2>3, ResultGrows
  <1> QED BY <1>1, <1>2, <1>3, <1>4, <1>5, <1>6, <1>7 DEF RanC

\* What the children of a row left, and the document
RowResult == Result(Seq(RanC))

\* The commands of a row run in order: each gets the document of the one before,
\* and is afterwards a command that ran (MultiUndoCommand::redo).
LEMMA RedoAllSound ==
    ASSUME NEW q \in Seq(Command), NEW d \in SoundDoc
    PROVE  RedoAll(q, d) \in RowResult
  <1> DEFINE base == Both(<<>>, d)
             Child(a, r) == [c |-> Append(a.c, r.c), d |-> r.d]
             Body(f) == [s \in SUBSET DOMAIN q |->
                            IF s = {} THEN base
                            ELSE Child(f[s \ {Max(s)}], Redo1(q[Max(s)], f[s \ {Max(s)}].d))]
             F == CHOOSE f : f = Body(f)
  <1>1. RedoAll(q, d) = F[DOMAIN q] BY DEF RedoAll, FoldLeft, MapThenFoldSet
  <1>2. \A f : Body(f) = FoldOf(f, "redo", NoTrack, base, q) BY DEF FoldOf, StepOf, PickOf
  <1>3. Steady("redo", NoTrack, RowResult, Command)
    <2> SUFFICES ASSUME NEW a \in RowResult, NEW c \in Command
                 PROVE  [c |-> Append(a.c, Redo1(c, a.d).c), d |-> Redo1(c, a.d).d] \in RowResult
      BY DEF Steady, StepOf
    <2> DEFINE r == Redo1(c, a.d)
    <2>1. a.c \in Seq(RanC) /\ a.d \in SoundDoc BY DEF RowResult, Result
    <2>2. r \in Result(RanC) BY <2>1, Redo1Sound
    <2> HIDE DEF r
    <2>3. r.c \in RanC /\ r.d \in SoundDoc BY <2>2 DEF Result
    <2>4. Append(a.c, r.c) \in Seq(RanC) BY <2>1, <2>3
    <2>5. [c |-> Append(a.c, r.c), d |-> r.d] \in RowResult BY <2>3, <2>4 DEF RowResult, Result
    <2> QED BY <2>5 DEF r
  <1>4. base \in RowResult
    <2>1. <<>> \in Seq(RanC) OBVIOUS
    <2> QED BY <2>1, BothIs DEF RowResult
  <1> HIDE DEF Body, base
  <1>5. \E f : f = Body(f) BY <1>2, <1>3, <1>4, FoldStays
  <1>6. F = Body(F) BY <1>5
  <1> HIDE DEF F
  <1>7. F[DOMAIN q] \in RowResult BY <1>2, <1>3, <1>4, <1>6, FoldStays
  <1> QED BY <1>1, <1>7

\* They are undone in reverse (MultiUndoCommand::undo).
LEMMA UndoAllSound ==
    ASSUME NEW q \in Seq(RanC), NEW d \in SoundDoc
    PROVE  UndoAll(q, d) \in RowResult
  <1> DEFINE base == Both(<<>>, d)
             Child(a, r) == [c |-> <<r.c>> \o a.c, d |-> r.d]
             Body(f) == [s \in SUBSET DOMAIN q |->
                            IF s = {} THEN base
                            ELSE Child(f[s \ {Min(s)}], Undo1(q[Min(s)], f[s \ {Min(s)}].d))]
             F == CHOOSE f : f = Body(f)
  <1>1. UndoAll(q, d) = F[DOMAIN q] BY DEF UndoAll, FoldRight, MapThenFoldSet
  <1>2. \A f : Body(f) = FoldOf(f, "undo", NoTrack, base, q) BY DEF FoldOf, StepOf, PickOf
  <1>3. Steady("undo", NoTrack, RowResult, RanC)
    <2> SUFFICES ASSUME NEW a \in RowResult, NEW c \in RanC
                 PROVE  [c |-> <<Undo1(c, a.d).c>> \o a.c, d |-> Undo1(c, a.d).d] \in RowResult
      BY DEF Steady, StepOf
    <2> DEFINE r == Undo1(c, a.d)
    <2>1. a.c \in Seq(RanC) /\ a.d \in SoundDoc BY DEF RowResult, Result
    <2>2. r \in Result(RanC) BY <2>1, Undo1Sound
    <2> HIDE DEF r
    <2>3. r.c \in RanC /\ r.d \in SoundDoc BY <2>2 DEF Result
    <2>4. <<r.c>> \o a.c \in Seq(RanC) BY <2>1, <2>3
    <2>5. [c |-> <<r.c>> \o a.c, d |-> r.d] \in RowResult BY <2>3, <2>4 DEF RowResult, Result
    <2> QED BY <2>5 DEF r
  <1>4. base \in RowResult
    <2>1. <<>> \in Seq(RanC) OBVIOUS
    <2> QED BY <2>1, BothIs DEF RowResult
  <1> HIDE DEF Body, base
  <1>5. \E f : f = Body(f) BY <1>2, <1>3, <1>4, FoldStays
  <1>6. F = Body(F) BY <1>5
  <1> HIDE DEF F
  <1>7. F[DOMAIN q] \in RowResult BY <1>2, <1>3, <1>4, <1>6, FoldStays
  <1> QED BY <1>1, <1>7

--------------------------------------------------------------------------------
(* The history *)

Row == [row : Seq(RanC), found : {Layout(d) : d \in SoundDoc}, left : {Layout(d) : d \in SoundDoc}]

\* Every document is sound, and the rows hold commands that ran.
TimelineSound == doc \in SoundDoc /\ done \in Seq(Row) /\ undone \in Seq(Row)

\* A loaded document has no vacant slot and an empty free list.
LEMMA LoadedSound ==
    ASSUME NEW d \in Loaded
    PROVE  d \in SoundDoc
  <1>1. d \in Document /\ d.free = <<>> /\ \A s \in DOMAIN d.entries : ~d.entries[s].vacant BY LoadedAssumption
  <1>2. ToSet(d.free) = {} BY <1>1 DEF ToSet
  <1>3. Vacant(d.entries) = {} BY <1>1 DEF Vacant
  <1>4. Apart(d.free) BY <1>1 DEF Apart
  <1> QED BY <1>1, <1>2, <1>3, <1>4 DEF SoundDoc, FreeIs

\* A row that ran is a row of the history.
LEMMA RowTyped ==
    ASSUME NEW c \in Seq(RanC), NEW d \in SoundDoc, NEW e \in SoundDoc
    PROVE  [row |-> c, found |-> Layout(d), left |-> Layout(e)] \in Row
  BY DEF Row

\* Running a row records it.
LEMMA RanSound ==
    ASSUME NEW r \in RowResult, NEW d \in SoundDoc, done \in Seq(Row), Ran(r, d)
    PROVE  doc' \in SoundDoc /\ done' \in Seq(Row)
  <1>1. r.c \in Seq(RanC) /\ r.d \in SoundDoc BY DEF RowResult, Result
  <1> DEFINE x == [row |-> r.c, found |-> Layout(d), left |-> Layout(r.d)]
  <1>2. x \in Row BY <1>1, RowTyped
  <1>3. doc' = r.d /\ done' = Append(done, x) BY DEF Ran
  <1> HIDE DEF x
  <1> QED BY <1>1, <1>2, <1>3

\* Every edit pushes a row of commands that keeps the history sound.
LEMMA PushSound ==
    ASSUME TimelineSound, NEW row \in Seq(Command), NEW d \in SoundDoc, Push(row, d)
    PROVE  TimelineSound'
  <1>1. RedoAll(row, d) \in RowResult BY RedoAllSound
  <1>2. Ran(RedoAll(row, d), d) /\ undone' = <<>> BY DEF Push
  <1>3. doc' \in SoundDoc /\ done' \in Seq(Row) BY <1>1, <1>2, RanSound DEF TimelineSound
  <1> QED BY <1>2, <1>3 DEF TimelineSound

\* The top of a stack is a row.
LEMMA LastRow ==
    ASSUME NEW s \in Seq(Row), s # <<>>
    PROVE  Last(s) \in Row /\ Last(s).row \in Seq(RanC) /\ Front(s) \in Seq(Row)
  <1>1. PICK n \in Nat : n = Len(s) /\ n > 0 BY EmptySeq
  <1>2. Last(s) \in Row BY <1>1 DEF Last
  <1>3. Front(s) \in Seq(Row) BY <1>1 DEF Front
  <1> QED BY <1>2, <1>3 DEF Row

\* Undoing the last row keeps the history sound,
LEMMA UndoSound ==
    ASSUME TimelineSound, Undo
    PROVE  TimelineSound'
  <1> DEFINE l == Last(done)
             r == UndoAll(l.row, doc)
             x == [l EXCEPT !.row = r.c]
  <1>1. l \in Row /\ l.row \in Seq(RanC) /\ Front(done) \in Seq(Row) BY LastRow DEF TimelineSound, Undo
  <1>2. doc' = r.d /\ undone' = Append(undone, x) /\ done' = Front(done) BY DEF Undo, Undone
  <1> HIDE DEF l
  <1>3. r \in RowResult BY <1>1, UndoAllSound DEF TimelineSound
  <1> HIDE DEF r
  <1>4. r.c \in Seq(RanC) /\ r.d \in SoundDoc BY <1>3 DEF RowResult, Result
  <1>5. x \in Row BY <1>1, <1>4 DEF Row
  <1> HIDE DEF x
  <1>6. Append(undone, x) \in Seq(Row) BY <1>5 DEF TimelineSound
  <1> QED BY <1>1, <1>2, <1>4, <1>6 DEF TimelineSound

\* and redoing the next one does.
LEMMA RedoSound ==
    ASSUME TimelineSound, Redo
    PROVE  TimelineSound'
  <1> DEFINE row == Last(undone).row
  <1>1. row \in Seq(RanC) /\ Front(undone) \in Seq(Row) BY LastRow DEF TimelineSound, Redo
  <1>2. Ran(RedoAll(row, doc), doc) /\ undone' = Front(undone) BY DEF Redo
  <1> HIDE DEF row
  <1>3. row \in Seq(Command)
    <2>1. RanC \subseteq Command BY DEF RanC, Command, PlacedC
    <2> QED BY <1>1, <2>1
  <1>4. RedoAll(row, doc) \in RowResult BY <1>3, RedoAllSound DEF TimelineSound
  <1>5. doc' \in SoundDoc /\ done' \in Seq(Row) BY <1>2, <1>4, RanSound DEF TimelineSound
  <1> QED BY <1>1, <1>2, <1>5 DEF TimelineSound

--------------------------------------------------------------------------------
(* The operations *)

\* Frames and lengths are numbers.
LEMMA TimesTyped == Time \subseteq Int /\ 1..MaxClip \subseteq Int
  BY BoundAssumption DEF Time

\* A clip the user can name is live and on a track.
LEMMA ClipTyped ==
    ASSUME TimelineSound, NEW b \in Clips
    PROVE  /\ b \in Name /\ TrackOf(doc, b) \in Track /\ Live(doc, b)
           /\ In(doc, b) \in Int /\ Out(doc, b) \in Int /\ Length(doc, b) \in Int
  <1>1. doc \in SoundDoc BY DEF TimelineSound
  <1>2. b \in Listed(doc) /\ Kind(doc, b) = "clip" /\ TrackOf(doc, b) # NoTrack BY DEF Clips
  <1>3. PICK t \in Track : b \in ToSet(doc.order[t]) BY <1>2 DEF Listed
  <1>4. doc.order[t] \in Seq(Name) BY <1>1, ListOf
  <1>5. b \in Name BY <1>3, <1>4 DEF ToSet
  <1>6. Live(doc, b) BY <1>2 DEF Kind
  <1> QED BY <1>1, <1>2, <1>5, <1>6, ReadsTyped

\* A setter with its values is one of a row,
LEMMA SetterTyped ==
    ASSUME NEW op \in {"length, in stays", "length, out stays", "in", "media in"}, NEW b \in Name,
           NEW old \in Int, NEW new \in Int
    PROVE  Setter(op, b, old, new) \in SetterT
  BY DEF Setter, SetterT

\* and several of them are a command.
LEMMA SettersTyped ==
    ASSUME NEW q \in Seq(SetterT)
    PROVE  Setters(q) \in SettersC /\ <<Setters(q)>> \in Seq(Command)
  <1>1. Setters(q) \in SettersC BY DEF Setters, SettersC
  <1>2. Setters(q) \in Command BY <1>1 DEF Command
  <1> QED BY <1>1, <1>2

\* A new placement is a placement.
LEMMA PlaceTyped ==
    ASSUME NEW t \in Track, NEW b \in Name, NEW i \in Int
    PROVE  Place(t, b, i) \in PlaceC
  <1>1. None \in Name /\ <<>> \in Cores BY DEF None, Name, Cores
  <1>2. <<>> \in Seq(RippleC) /\ <<>> \in Seq(Int) OBVIOUS
  <1> QED BY <1>1, <1>2 DEF Place, PlaceC

\* A new replacement by a gap is one.
LEMMA GapTyped ==
    ASSUME NEW d \in SoundDoc, NEW t \in Track, NEW b \in Name
    PROVE  ReplaceWithGap(d, t, b) \in GapC
  <1>1. None \in Name /\ <<>> \in Cores BY DEF None, Name, Cores
  <1>2. In(d, b) \in Int BY ReadsTyped
  <1> QED BY <1>1, <1>2 DEF ReplaceWithGap, GapC

\* Adding a clip (place_footage_clip): the node is made outside the row.
LEMMA AddClipSound ==
    ASSUME TimelineSound, NEW t \in Track, NEW i \in Time, NEW len \in 1..MaxClip, AddClip(t, i, len)
    PROVE  TimelineSound'
  <1> DEFINE core == Core("clip", 0, len)
             made == AddNode(doc, core)
             row == <<Place(t, made.id, i)>>
  <1>1. core \in BlockCore BY TimesTyped DEF Core, BlockCore
  <1>2. Push(row, made.d) BY DEF AddClip
  <1> HIDE DEF core
  <1>3. made.d \in SoundDoc /\ made.id \in Name BY <1>1, AddNodeSound DEF TimelineSound
  <1> HIDE DEF made
  <1>4. Place(t, made.id, i) \in PlaceC BY <1>3, PlaceTyped, TimesTyped
  <1>5. row \in Seq(Command) BY <1>4 DEF Command
  <1> HIDE DEF row
  <1> QED BY <1>2, <1>3, <1>5, PushSound

\* Splitting a clip (split_clip).
LEMMA SplitClipSound ==
    ASSUME TimelineSound, NEW b \in Clips, NEW p \in Time, SplitClip(b, p)
    PROVE  TimelineSound'
  <1> DEFINE row == <<Split(b, p)>>
  <1>1. Split(b, p) \in SplitC BY ClipTyped, SplitTyped, TimesTyped
  <1>2. row \in Seq(Command) BY <1>1 DEF Command
  <1>3. Push(row, doc) BY DEF SplitClip
  <1> HIDE DEF row
  <1> QED BY <1>2, <1>3, PushSound DEF TimelineSound

\* Trimming a clip (trim_clip).
LEMMA TrimClipSound ==
    ASSUME TimelineSound, NEW b \in Clips, NEW i \in Int, NEW o \in Int, TrimClip(b, i, o)
    PROVE  TimelineSound'
  <1> DEFINE in == In(doc, b)
             out == Out(doc, b)
             trimIn == Setter("length, out stays", b, out - in, out - i)
             trimOut == Setter("length, in stays", b, out - i, o - i)
             q == (IF i = in THEN <<>> ELSE <<trimIn>>) \o (IF o = out THEN <<>> ELSE <<trimOut>>)
  <1>1. b \in Name /\ in \in Int /\ out \in Int BY ClipTyped
  <1>2. trimIn \in SetterT /\ trimOut \in SetterT
    <2>1. out - in \in Int /\ out - i \in Int /\ o - i \in Int BY <1>1
    <2> HIDE DEF in, out
    <2> QED BY <1>1, <2>1, SetterTyped
  <1>3. Push(<<Setters(q)>>, doc) BY DEF TrimClip
  <1> HIDE DEF in, out, trimIn, trimOut
  <1>4. q \in Seq(SetterT) BY <1>2
  <1> HIDE DEF q
  <1>5. <<Setters(q)>> \in Seq(Command) BY <1>4, SettersTyped
  <1> QED BY <1>3, <1>5, PushSound DEF TimelineSound

\* Trimming a clip and moving what follows (ripple_trim_clip).
LEMMA RippleTrimClipSound ==
    ASSUME TimelineSound, NEW b \in Clips, NEW start \in BOOLEAN, NEW new \in Time, RippleTrimClip(b, start, new)
    PROVE  TimelineSound'
  <1> DEFINE in == In(doc, b)
             out == Out(doc, b)
             delta == IF start THEN new - in ELSE new - out
             trim == IF start THEN Setter("length, out stays", b, out - in, out - new)
                     ELSE Setter("length, in stays", b, out - in, new - in)
             tail == Successors(doc, b)
             moves == [i \in DOMAIN tail |-> Setter("in", tail[i], In(doc, tail[i]), In(doc, tail[i]) + delta)]
             q == <<trim>> \o moves
  <1>1. b \in Name /\ in \in Int /\ out \in Int /\ new \in Int BY ClipTyped, TimesTyped
  <1>2. delta \in Int BY <1>1
  <1>3. trim \in SetterT
    <2>1. out - in \in Int /\ out - new \in Int /\ new - in \in Int BY <1>1
    <2> HIDE DEF in, out
    <2> QED BY <1>1, <2>1, SetterTyped
  <1>4. tail \in Seq(Name) BY SuccessorsTyped DEF TimelineSound
  <1>5. Push(<<Setters(q)>>, doc) BY DEF RippleTrimClip
  <1> HIDE DEF delta, trim, tail
  <1>6. moves \in Seq(SetterT)
    <2>1. PICK n \in Nat : n = Len(tail) BY <1>4
    <2>2. \A i \in 1..n : tail[i] \in Name BY <1>4, <2>1
    <2>3. \A i \in 1..n : In(doc, tail[i]) \in Int BY ReadsTyped DEF TimelineSound
    <2>4. \A i \in 1..n : In(doc, tail[i]) + delta \in Int BY <1>2, <2>3
    <2>5. \A i \in 1..n : Setter("in", tail[i], In(doc, tail[i]), In(doc, tail[i]) + delta) \in SetterT
      BY <2>2, <2>3, <2>4, SetterTyped
    <2>6. moves \in [1..n -> SetterT] BY <1>4, <2>1, <2>5
    <2> HIDE DEF moves
    <2> QED BY <2>6, FunctionIsSeq
  <1> HIDE DEF moves
  <1>7. q \in Seq(SetterT) BY <1>3, <1>6
  <1> HIDE DEF q
  <1>8. <<Setters(q)>> \in Seq(Command) BY <1>7, SettersTyped
  <1> QED BY <1>5, <1>8, PushSound DEF TimelineSound

\* Rolling the boundary of two clips (roll_edit).
LEMMA RollEditSound ==
    ASSUME TimelineSound, NEW a \in Clips, NEW b \in Clips, NEW new \in Time, RollEdit(a, b, new)
    PROVE  TimelineSound'
  <1> DEFINE len == new - In(doc, a)
             t == TrackOf(doc, a)
             r == Roll(doc, t, a, len)
             row == <<r>>
  <1>1. a \in Name /\ t \in Track /\ len \in Int /\ Length(doc, a) \in Int BY ClipTyped, TimesTyped
  <1>2. NextBlock(doc, a) \in Name /\ Length(doc, NextBlock(doc, a)) \in Int
    BY NeighboursTyped, ReadsTyped DEF TimelineSound
  <1>3. Push(row, doc) BY DEF RollEdit
  <1> HIDE DEF t, len
  <1>4. r \in RollC
    <2>1. <<>> \in Cores BY DEF Cores
    <2>2. Length(doc, a) - len \in Int BY <1>1
    <2> QED BY <1>1, <1>2, <2>1, <2>2 DEF Roll, RollC
  <1> HIDE DEF r
  <1>5. row \in Seq(Command) BY <1>4 DEF Command
  <1> HIDE DEF row
  <1> QED BY <1>3, <1>5, PushSound DEF TimelineSound

\* Sliding a clip between its neighbours (slide_clip).
LEMMA SlideClipSound ==
    ASSUME TimelineSound, NEW b \in Clips, NEW new \in Time, SlideClip(b, new)
    PROVE  TimelineSound'
  <1> DEFINE delta == new - In(doc, b)
             left == PreviousBlock(doc, b)
             right == NextBlock(doc, b)
             slide == Setter("in", b, In(doc, b), new)
             grow == Setter("length, in stays", left, Length(doc, left), Length(doc, left) + delta)
             shrink == Setter("length, out stays", right, Length(doc, right), Length(doc, right) - delta)
             q == <<slide>>
                  \o (IF left # None /\ new > In(doc, left) THEN <<grow>> ELSE <<>>)
                  \o (IF right # None /\ new + Length(doc, b) < Out(doc, right) THEN <<shrink>> ELSE <<>>)
  <1>1. b \in Name /\ In(doc, b) \in Int /\ new \in Int BY ClipTyped, TimesTyped
  <1>2. delta \in Int BY <1>1
  <1>3. left \in Name /\ right \in Name BY NeighboursTyped DEF TimelineSound
  <1>4. Push(<<Setters(q)>>, doc) BY DEF SlideClip
  <1> HIDE DEF left, right, delta
  <1>5. Length(doc, left) \in Int /\ Length(doc, right) \in Int BY ReadsTyped DEF TimelineSound
  <1>6. Length(doc, left) + delta \in Int /\ Length(doc, right) - delta \in Int BY <1>2, <1>5
  <1>7. slide \in SetterT /\ grow \in SetterT /\ shrink \in SetterT BY <1>1, <1>3, <1>5, <1>6, SetterTyped
  <1> HIDE DEF slide, grow, shrink
  <1>8. q \in Seq(SetterT) BY <1>7
  <1> HIDE DEF q
  <1>9. <<Setters(q)>> \in Seq(Command) BY <1>8, SettersTyped
  <1> QED BY <1>4, <1>9, PushSound DEF TimelineSound

\* Slipping the media of a clip (slip_clip).
LEMMA SlipClipSound ==
    ASSUME TimelineSound, NEW b \in Clips, NEW new \in Time, SlipClip(b, new)
    PROVE  TimelineSound'
  <1> DEFINE s == Setter("media in", b, Node(doc, b).media_in, new)
             q == <<s>>
  <1>1. b \in Name /\ new \in Int BY ClipTyped, TimesTyped
  <1>2. Node(doc, b) \in BlockCore BY ClipTyped, NodeTyped DEF TimelineSound
  <1>3. Node(doc, b).media_in \in Int BY <1>2 DEF BlockCore
  <1>4. s \in SetterT BY <1>1, <1>3, SetterTyped
  <1>5. Push(<<Setters(q)>>, doc) BY DEF SlipClip
  <1> HIDE DEF s
  <1>6. q \in Seq(SetterT) BY <1>4
  <1> HIDE DEF q
  <1>7. <<Setters(q)>> \in Seq(Command) BY <1>6, SettersTyped
  <1> QED BY <1>5, <1>7, PushSound DEF TimelineSound

\* Moving a clip, to another track too (move_clip, move_clip_to_track).
LEMMA MoveClipSound ==
    ASSUME TimelineSound, NEW b \in Clips, NEW t \in Track, NEW new \in Time, MoveClip(b, t, new)
    PROVE  TimelineSound'
  <1> DEFINE from == TrackOf(doc, b)
             gap == ReplaceWithGap(doc, from, b)
             s == Setter("in", b, In(doc, b), new)
             home == Setters(<<s>>)
             place == Place(t, b, new)
             row == IF t = from THEN <<home, gap, place>> ELSE <<gap, home, place>>
  <1>1. b \in Name /\ from \in Track /\ In(doc, b) \in Int /\ new \in Int BY ClipTyped, TimesTyped
  <1>2. gap \in GapC BY <1>1, GapTyped DEF TimelineSound
  <1>3. s \in SetterT BY <1>1, SetterTyped
  <1>4. place \in PlaceC BY <1>1, PlaceTyped
  <1>5. Push(row, doc) BY DEF MoveClip
  <1> HIDE DEF gap, s, place
  <1>6. home \in SettersC
    <2>1. <<s>> \in Seq(SetterT) BY <1>3
    <2> QED BY <2>1, SettersTyped
  <1> HIDE DEF home
  <1>7. gap \in Command /\ home \in Command /\ place \in Command BY <1>2, <1>4, <1>6 DEF Command
  <1>8. row \in Seq(Command) BY <1>7
  <1> HIDE DEF row
  <1> QED BY <1>5, <1>8, PushSound DEF TimelineSound

\* Deleting a clip, which leaves a gap (delete_clip).
LEMMA DeleteClipSound ==
    ASSUME TimelineSound, NEW b \in Clips, DeleteClip(b)
    PROVE  TimelineSound'
  <1> DEFINE gap == ReplaceWithGap(doc, TrackOf(doc, b), b)
             remove == RemoveNode(b)
             row == <<gap, remove>>
  <1>1. b \in Name /\ TrackOf(doc, b) \in Track BY ClipTyped
  <1>2. gap \in GapC BY <1>1, GapTyped DEF TimelineSound
  <1>3. remove \in RemoveC
    <2>1. <<>> \in Cores BY DEF Cores
    <2> QED BY <1>1, <2>1 DEF RemoveNode, RemoveC
  <1>4. Push(row, doc) BY DEF DeleteClip
  <1> HIDE DEF gap, remove
  <1>5. gap \in Command /\ remove \in Command BY <1>2, <1>3 DEF Command
  <1>6. row \in Seq(Command) BY <1>5
  <1> HIDE DEF row
  <1> QED BY <1>4, <1>6, PushSound DEF TimelineSound

\* Deleting a clip and closing the gap (ripple_delete_clip).
LEMMA RippleDeleteClipSound ==
    ASSUME TimelineSound, NEW b \in Clips, RippleDeleteClip(b)
    PROVE  TimelineSound'
  <1> DEFINE r == RippleRemove(TrackOf(doc, b), In(doc, b), Out(doc, b), FALSE)
             row == <<r>>
  <1>1. r \in RippleC BY ClipTyped, RippleRemoveTyped
  <1>2. Push(row, doc) BY DEF RippleDeleteClip
  <1> HIDE DEF r
  <1>3. r \in Command BY <1>1 DEF Command
  <1>4. row \in Seq(Command) BY <1>3
  <1> HIDE DEF row
  <1> QED BY <1>2, <1>4, PushSound DEF TimelineSound

--------------------------------------------------------------------------------
(* The theorems *)

\* A loaded project has no history.
LEMMA TimelineInit ==
    ASSUME Init
    PROVE  TimelineSound
  BY LoadedSound DEF Init, TimelineSound

\* Every operation, undo and redo keeps the timeline sound.
LEMMA TimelineStep ==
    ASSUME TimelineSound, [Next]_vars
    PROVE  TimelineSound'
  <1>1. CASE \E t \in Track, i \in Time, len \in 1..MaxClip : AddClip(t, i, len) BY <1>1, AddClipSound
  <1>2. CASE \E b \in Clips, p \in Time : SplitClip(b, p) BY <1>2, SplitClipSound
  <1>3. CASE \E b \in Clips, i \in Time : TrimClip(b, i, Out(doc, b))
    <2>1. PICK b \in Clips, i \in Time : TrimClip(b, i, Out(doc, b)) BY <1>3
    <2>2. i \in Int /\ Out(doc, b) \in Int BY ClipTyped, TimesTyped
    <2> QED BY <2>1, <2>2, TrimClipSound
  <1>4. CASE \E b \in Clips, o \in Time : TrimClip(b, In(doc, b), o)
    <2>1. PICK b \in Clips, o \in Time : TrimClip(b, In(doc, b), o) BY <1>4
    <2>2. o \in Int /\ In(doc, b) \in Int BY ClipTyped, TimesTyped
    <2> QED BY <2>1, <2>2, TrimClipSound
  <1>5. CASE \E b \in Clips, start \in BOOLEAN, new \in Time : RippleTrimClip(b, start, new)
    BY <1>5, RippleTrimClipSound
  <1>6. CASE \E a, b \in Clips, new \in Time : RollEdit(a, b, new) BY <1>6, RollEditSound
  <1>7. CASE \E b \in Clips, new \in Time : SlideClip(b, new) BY <1>7, SlideClipSound
  <1>8. CASE \E b \in Clips, new \in Time : SlipClip(b, new) BY <1>8, SlipClipSound
  <1>9. CASE \E b \in Clips, t \in Track, new \in Time : MoveClip(b, t, new) BY <1>9, MoveClipSound
  <1>10. CASE \E b \in Clips : DeleteClip(b) BY <1>10, DeleteClipSound
  <1>11. CASE \E b \in Clips : RippleDeleteClip(b) BY <1>11, RippleDeleteClipSound
  <1>12. CASE Undo BY <1>12, UndoSound
  <1>13. CASE Redo BY <1>13, RedoSound
  <1>14. CASE UNCHANGED vars BY <1>14 DEF vars, TimelineSound
  <1> QED BY <1>1, <1>2, <1>3, <1>4, <1>5, <1>6, <1>7, <1>8, <1>9, <1>10, <1>11, <1>12, <1>13, <1>14 DEF Next

\* A list that names nothing twice is as long as the set of what it names.
LEMMA ApartCount ==
    ASSUME NEW s \in Seq(Nat), Apart(s)
    PROVE  Len(s) = Cardinality(ToSet(s))
  <1>1. PICK n \in Nat : n = Len(s) OBVIOUS
  <1>2. DOMAIN s = 1..n /\ s = [i \in 1..n |-> s[i]] BY <1>1
  <1>3. ToSet(s) = {s[i] : i \in 1..n} BY <1>2 DEF ToSet
  <1>4. s \in [1..n -> ToSet(s)] BY <1>2, <1>3
  <1>5. s \in Bijection(1..n, ToSet(s))
    BY <1>1, <1>3, <1>4 DEF Bijection, Injection, Surjection, IsInjective, Apart
  <1>6. ExistsBijection(1..n, ToSet(s)) BY <1>5 DEF ExistsBijection
  <1> QED BY <1>1, <1>6, FS_CountingElements

\* Documents and the commands of the history keep their types, and the free list names
\* every vacant slot once: the strengthening that every edit, undo and redo keeps.
THEOREM TimelineIsSound == Spec => []TimelineSound
  <1>1. Init => TimelineSound BY TimelineInit
  <1>2. TimelineSound /\ [Next]_vars => TimelineSound' BY TimelineStep
  <1> QED BY <1>1, <1>2, PTL DEF Spec

\* No new node overwrites one that an undo brought back: the free list of the arena
\* names every vacant slot once and no occupied one.
THEOREM ArenaIsSound == Spec => []ArenaSound
  <1>1. TimelineSound => ArenaSound
    <2> SUFFICES ASSUME TimelineSound PROVE ArenaSound OBVIOUS
    <2>1. doc.free \in Seq(Nat) /\ FreeIs(doc.entries, doc.free) BY DEF TimelineSound, SoundDoc, Document
    <2>2. Len(doc.free) = Cardinality(ToSet(doc.free)) BY <2>1, ApartCount DEF FreeIs
    <2> QED BY <2>1, <2>2 DEF ArenaSound, FreeIs, Vacant
  <1> QED BY <1>1, TimelineIsSound, PTL

================================================================================
