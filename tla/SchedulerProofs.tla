--------------------------- MODULE SchedulerProofs ---------------------------
(***************************************************************************)
(* Proofs about the lists of Scheduler, for any number of tasks, priority  *)
(* levels and applications.                                                *)
(***************************************************************************)
EXTENDS Scheduler, SequenceTheorems, FiniteSetTheorems, TLAPS

-----------------------------------------------------------------------------
(* Families of lists, L[l] being the list l.                               *)

(* Each task is in one list at most, and once.                             *)
Disjoint(L) ==
  \A l, m \in DOMAIN L : \A i \in DOMAIN L[l], j \in DOMAIN L[m] :
    L[l][i] = L[m][j] => l = m /\ i = j

Members(L) == {t \in Task : \E l \in DOMAIN L : InList(L[l], t)}

(* From L to M: the head of l is taken off; x is put at the end of m; u is *)
(* put behind w; w is reordered; the head of l goes to the end of m; u is  *)
(* put behind w and the whole sorted.                                      *)
Families(I, L, M) == L \in [I -> Seq(Task)] /\ M \in [I -> Seq(Task)]
Drops(I, L, M, l) ==
  /\ Families(I, L, M) /\ l \in I /\ L[l] # <<>>
  /\ M[l] = Tail(L[l]) /\ \A k \in I \ {l} : M[k] = L[k]
Adds(I, L, M, m, x) ==
  /\ Families(I, L, M) /\ m \in I /\ x \in Task
  /\ M[m] = Append(L[m], x) /\ \A k \in I \ {m} : M[k] = L[k]
Joins(I, L, M, w, u) ==
  /\ Families(I, L, M) /\ w \in I /\ u \in I /\ w # u
  /\ M[w] = L[w] \o L[u] /\ M[u] = <<>> /\ \A k \in I \ {w, u} : M[k] = L[k]
Moves(I, L, M, l, m) ==
  /\ Families(I, L, M) /\ l \in I /\ m \in I /\ l # m /\ L[l] # <<>>
  /\ M[l] = Tail(L[l]) /\ M[m] = Append(L[m], Head(L[l]))
  /\ \A k \in I \ {l, m} : M[k] = L[k]

(* What Tail and Append do to the elements.                                *)
LEMMA TailElements ==
  ASSUME NEW q \in Seq(Task), q # <<>>
  PROVE  /\ Tail(q) \in Seq(Task) /\ Head(q) \in Task /\ Head(q) = q[1] /\ 1 \in DOMAIN q
         /\ \A i \in DOMAIN Tail(q) : i + 1 \in DOMAIN q /\ Tail(q)[i] = q[i + 1]
         /\ \A i \in DOMAIN q : i = 1 \/ (i - 1 \in DOMAIN Tail(q) /\ Tail(q)[i - 1] = q[i])
BY HeadTailProperties, EmptySeq, LenProperties

LEMMA AppendElements ==
  ASSUME NEW q \in Seq(Task), NEW x \in Task
  PROVE  /\ Append(q, x) \in Seq(Task)
         /\ DOMAIN Append(q, x) = DOMAIN q \cup {Len(q) + 1} /\ Len(q) + 1 \notin DOMAIN q
         /\ Append(q, x)[Len(q) + 1] = x
         /\ \A i \in DOMAIN q : Append(q, x)[i] = q[i]
BY AppendProperties, LenProperties

(* The head of a list is taken off.                                        *)
LEMMA DropHead ==
  ASSUME NEW I, NEW L, NEW M, NEW l, Drops(I, L, M, l), Disjoint(L)
  PROVE  Disjoint(M) /\ Members(M) = Members(L) \ {Head(L[l])}
<1>. USE DEF Drops, Families
<1>1. /\ Head(L[l]) \in Task /\ Head(L[l]) = L[l][1] /\ 1 \in DOMAIN L[l]
      /\ \A i \in DOMAIN M[l] : i + 1 \in DOMAIN L[l] /\ M[l][i] = L[l][i + 1] /\ i \in Nat \ {0}
      /\ \A i \in DOMAIN L[l] : i = 1 \/ (i - 1 \in DOMAIN M[l] /\ M[l][i - 1] = L[l][i])
  BY TailElements, LenProperties
<1>2. Disjoint(M)
  <2>. SUFFICES ASSUME NEW k \in I, NEW m \in I, NEW i \in DOMAIN M[k], NEW j \in DOMAIN M[m],
                       M[k][i] = M[m][j]
                PROVE  k = m /\ i = j
    BY DEF Disjoint
  <2>1. CASE k = l /\ m = l
    <3>1. i + 1 = j + 1
      BY <2>1, <1>1 DEF Disjoint
    <3>. QED BY <2>1, <3>1, <1>1
  <2>2. CASE k = l /\ m # l
    BY <2>2, <1>1 DEF Disjoint
  <2>3. CASE k # l /\ m = l
    BY <2>3, <1>1 DEF Disjoint
  <2>4. CASE k # l /\ m # l
    BY <2>4 DEF Disjoint
  <2>. QED BY <2>1, <2>2, <2>3, <2>4
<1>3. ASSUME NEW t \in Members(M) PROVE t \in Members(L) \ {Head(L[l])}
  <2>1. PICK k \in I : \E i \in DOMAIN M[k] : M[k][i] = t
    BY DEF Members, InList
  <2>2. PICK i \in DOMAIN M[k] : M[k][i] = t
    BY <2>1
  <2>3. \E j \in DOMAIN L[k] : L[k][j] = t /\ ~(k = l /\ j = 1)
    <3>1. CASE k = l
      <4>1. i + 1 \in DOMAIN L[l] /\ L[l][i + 1] = t /\ i + 1 # 1
        BY <2>2, <3>1, <1>1
      <4>. QED BY <3>1, <4>1
    <3>2. CASE k # l
      BY <2>2, <3>2
    <3>. QED BY <3>1, <3>2
  <2>4. t # Head(L[l])
    BY <2>3, <1>1 DEF Disjoint
  <2>5. t \in Task
    BY DEF Members
  <2>. QED BY <2>3, <2>4, <2>5 DEF Members, InList
<1>4. ASSUME NEW t \in Members(L), t # Head(L[l]) PROVE t \in Members(M)
  <2>1. PICK k \in I : \E i \in DOMAIN L[k] : L[k][i] = t
    BY DEF Members, InList
  <2>2. PICK i \in DOMAIN L[k] : L[k][i] = t
    BY <2>1
  <2>3. \E j \in DOMAIN M[k] : M[k][j] = t
    BY <1>1, <1>4, <2>2
  <2>4. t \in Task
    BY DEF Members
  <2>. QED BY <2>3, <2>4 DEF Members, InList
<1>. QED BY <1>2, <1>3, <1>4

(* A task that is in no list is put at the end of one.                     *)
LEMMA AddLast ==
  ASSUME NEW I, NEW L, NEW M, NEW m, NEW x, Adds(I, L, M, m, x), Disjoint(L), x \notin Members(L)
  PROVE  Disjoint(M) /\ Members(M) = Members(L) \cup {x}
<1>. USE DEF Adds, Families
<1>1. /\ DOMAIN M[m] = DOMAIN L[m] \cup {Len(L[m]) + 1} /\ Len(L[m]) + 1 \notin DOMAIN L[m]
      /\ M[m][Len(L[m]) + 1] = x /\ \A i \in DOMAIN L[m] : M[m][i] = L[m][i]
  BY AppendElements
<1>2. \A k \in I : \A i \in DOMAIN L[k] : L[k][i] # x /\ i \in DOMAIN M[k] /\ M[k][i] = L[k][i]
  BY <1>1 DEF Members, InList
<1>3. \A k \in I : \A i \in DOMAIN M[k] :
        i \in DOMAIN L[k] \/ (k = m /\ i = Len(L[m]) + 1 /\ M[k][i] = x)
  <2>. SUFFICES ASSUME NEW k \in I, NEW i \in DOMAIN M[k]
                PROVE  i \in DOMAIN L[k] \/ (k = m /\ i = Len(L[m]) + 1 /\ M[k][i] = x)
    OBVIOUS
  <2>1. CASE k = m
    BY <2>1, <1>1
  <2>2. CASE k # m
    BY <2>2
  <2>. QED BY <2>1, <2>2
<1>4. Disjoint(M)
  BY <1>2, <1>3 DEF Disjoint
<1>5. Members(M) \subseteq Members(L) \cup {x}
  BY <1>2, <1>3 DEF Members, InList
<1>6. Members(L) \subseteq Members(M)
  BY <1>2 DEF Members, InList
<1>7. x \in Members(M)
  BY <1>1 DEF Members, InList
<1>. QED BY <1>4, <1>5, <1>6, <1>7

(* A list is put behind another and left empty.                            *)
LEMMA JoinLists ==
  ASSUME NEW I, NEW L, NEW M, NEW w, NEW u, Joins(I, L, M, w, u), Disjoint(L)
  PROVE  Disjoint(M) /\ Members(M) = Members(L)
<1>. USE DEF Joins, Families
<1>. DEFINE n == Len(L[w])
            Moved(k, i) == k = w /\ i > n
<1>1. /\ n \in Nat /\ DOMAIN L[w] = 1 .. n /\ DOMAIN L[u] = 1 .. Len(L[u]) /\ Len(L[u]) \in Nat
      /\ DOMAIN M[w] = 1 .. (n + Len(L[u])) /\ DOMAIN M[u] = {}
      /\ \A i \in DOMAIN M[w] : M[w][i] = IF i <= n THEN L[w][i] ELSE L[u][i - n]
  BY ConcatProperties, LenProperties, EmptySeq
<1>2. \A k \in I : \A i \in DOMAIN M[k] :
        /\ Moved(k, i) => i \in Nat /\ i - n \in DOMAIN L[u] /\ M[k][i] = L[u][i - n]
        /\ ~Moved(k, i) => k # u /\ i \in DOMAIN L[k] /\ M[k][i] = L[k][i]
  <2>. SUFFICES ASSUME NEW k \in I, NEW i \in DOMAIN M[k]
                PROVE  /\ Moved(k, i) => i \in Nat /\ i - n \in DOMAIN L[u] /\ M[k][i] = L[u][i - n]
                       /\ ~Moved(k, i) => k # u /\ i \in DOMAIN L[k] /\ M[k][i] = L[k][i]
    OBVIOUS
  <2>1. CASE k = w
    <3>1. i \in 1 .. (n + Len(L[u])) /\ M[w][i] = IF i <= n THEN L[w][i] ELSE L[u][i - n]
      BY <2>1, <1>1
    <3>2. CASE i > n
      <4>1. i - n \in 1 .. Len(L[u]) /\ M[w][i] = L[u][i - n]
        BY <3>1, <3>2, <1>1
      <4>2. i \in Nat
        BY <3>1
      <4>3. i - n \in DOMAIN L[u]
        BY <4>1, <1>1
      <4>4. M[k][i] = L[u][i - n]
        BY <2>1, <4>1
      <4>. QED BY <2>1, <3>2, <4>2, <4>3, <4>4
    <3>3. CASE ~(i > n)
      <4>1. i \in 1 .. n /\ M[w][i] = L[w][i]
        BY <3>1, <3>3, <1>1
      <4>. QED BY <2>1, <3>3, <4>1, <1>1
    <3>. QED BY <3>2, <3>3
  <2>2. CASE k # w
    BY <2>2, <1>1
  <2>. QED BY <2>1, <2>2
<1>3. Disjoint(M)
  <2>. SUFFICES ASSUME NEW k \in I, NEW m \in I, NEW i \in DOMAIN M[k], NEW j \in DOMAIN M[m],
                       M[k][i] = M[m][j]
                PROVE  k = m /\ i = j
    BY DEF Disjoint
  <2>0. /\ Moved(k, i) => i \in Nat /\ i - n \in DOMAIN L[u] /\ M[k][i] = L[u][i - n]
        /\ ~Moved(k, i) => k # u /\ i \in DOMAIN L[k] /\ M[k][i] = L[k][i]
        /\ Moved(m, j) => j \in Nat /\ j - n \in DOMAIN L[u] /\ M[m][j] = L[u][j - n]
        /\ ~Moved(m, j) => m # u /\ j \in DOMAIN L[m] /\ M[m][j] = L[m][j]
    BY <1>2
  <2>1. CASE Moved(k, i) /\ Moved(m, j)
    <3>1. i - n = j - n /\ i \in Nat /\ j \in Nat
      BY <2>0, <2>1 DEF Disjoint
    <3>. QED BY <2>1, <3>1, <1>1
  <2>2. CASE Moved(k, i) /\ ~Moved(m, j)
    <3>1. L[u][i - n] = L[m][j] /\ i - n \in DOMAIN L[u] /\ j \in DOMAIN L[m] /\ m # u
      BY <2>0, <2>2
    <3>. QED BY <3>1 DEF Disjoint
  <2>3. CASE ~Moved(k, i) /\ Moved(m, j)
    <3>1. L[k][i] = L[u][j - n] /\ i \in DOMAIN L[k] /\ j - n \in DOMAIN L[u] /\ k # u
      BY <2>0, <2>3
    <3>. QED BY <3>1 DEF Disjoint
  <2>4. CASE ~Moved(k, i) /\ ~Moved(m, j)
    <3>1. L[k][i] = L[m][j] /\ i \in DOMAIN L[k] /\ j \in DOMAIN L[m]
      BY <2>0, <2>4
    <3>. QED BY <3>1 DEF Disjoint
  <2>. QED BY <2>1, <2>2, <2>3, <2>4
<1>4. Members(M) \subseteq Members(L)
  BY <1>2 DEF Members, InList
<1>5. ASSUME NEW t \in Members(L) PROVE t \in Members(M)
  <2>1. t \in Task /\ \E k \in I : \E i \in DOMAIN L[k] : L[k][i] = t
    BY DEF Members, InList
  <2>2. PICK k \in I : \E i \in DOMAIN L[k] : L[k][i] = t
    BY <2>1
  <2>3. PICK i \in DOMAIN L[k] : L[k][i] = t
    BY <2>2
  <2>4. CASE k = w
    BY <2>1, <2>3, <2>4, <1>1 DEF Members, InList
  <2>5. CASE k = u
    <3>1. i + n \in DOMAIN M[w] /\ M[w][i + n] = t
      BY <2>3, <2>5, <1>1
    <3>. QED BY <2>1, <3>1 DEF Members, InList
  <2>6. CASE k # w /\ k # u
    BY <2>1, <2>3, <2>6 DEF Members, InList
  <2>. QED BY <2>4, <2>5, <2>6
<1>. QED BY <1>3, <1>4, <1>5

-----------------------------------------------------------------------------
(* Sorting.                                                                *)

(* r has the elements of q, each as often as q has it.                     *)
Permuted(q, r) ==
  \E f \in [DOMAIN q -> DOMAIN q] :
    /\ DOMAIN r = DOMAIN q /\ \A k \in DOMAIN q : r[k] = q[f[k]]
    /\ \A k, l \in DOMAIN q : f[k] = f[l] => k = l
    /\ \A j \in DOMAIN q : \E k \in DOMAIN q : f[k] = j

Reorders(I, L, M, w) ==
  /\ Families(I, L, M) /\ w \in I
  /\ Permuted(L[w], M[w]) /\ \A k \in I \ {w} : M[k] = L[k]

LEMMA PermuteList ==
  ASSUME NEW I, NEW L, NEW M, NEW w, Reorders(I, L, M, w), Disjoint(L)
  PROVE  Disjoint(M) /\ Members(M) = Members(L)
<1>. USE DEF Reorders, Families
<1>1. PICK f \in [DOMAIN L[w] -> DOMAIN L[w]] :
        /\ DOMAIN M[w] = DOMAIN L[w] /\ \A k \in DOMAIN L[w] : M[w][k] = L[w][f[k]]
        /\ \A k, l \in DOMAIN L[w] : f[k] = f[l] => k = l
        /\ \A j \in DOMAIN L[w] : \E k \in DOMAIN L[w] : f[k] = j
  BY DEF Permuted
<1>2. Disjoint(M)
  <2>. SUFFICES ASSUME NEW k \in I, NEW m \in I, NEW i \in DOMAIN M[k], NEW j \in DOMAIN M[m],
                       M[k][i] = M[m][j]
                PROVE  k = m /\ i = j
    BY DEF Disjoint
  <2>1. CASE k = w /\ m = w
    <3>1. f[i] = f[j]
      BY <2>1, <1>1 DEF Disjoint
    <3>. QED BY <2>1, <3>1, <1>1
  <2>2. CASE k = w /\ m # w
    BY <2>2, <1>1 DEF Disjoint
  <2>3. CASE k # w /\ m = w
    BY <2>3, <1>1 DEF Disjoint
  <2>4. CASE k # w /\ m # w
    BY <2>4 DEF Disjoint
  <2>. QED BY <2>1, <2>2, <2>3, <2>4
<1>3. \A t : InList(M[w], t) <=> InList(L[w], t)
  BY <1>1 DEF InList
<1>4. \A k \in I : \A t : InList(M[k], t) <=> InList(L[k], t)
  BY <1>3
<1>. QED BY <1>2, <1>4 DEF Members

(* The order in which ByEntry puts the elements of q, by their places.     *)
Before(q, i, j) ==
  \/ task[q[i]].entry < task[q[j]].entry
  \/ task[q[i]].entry = task[q[j]].entry /\ i <= j
Rank(q, j) == Cardinality({i \in DOMAIN q : Before(q, i, j)})

(* Where the elements of the sorted list come from: the one at place k is  *)
(* the one that k elements of the list, itself included, do not follow.    *)
LEMMA SortPlaces ==
  ASSUME NEW q \in Seq(Task), \A t \in Task : task[t].entry \in Int
  PROVE  \E f \in [DOMAIN q -> DOMAIN q] :
            /\ ByEntry(q) = [k \in DOMAIN q |-> q[f[k]]]
            /\ \A k, l \in DOMAIN q : f[k] = f[l] => k = l
            /\ \A j \in DOMAIN q : \E k \in DOMAIN q : f[k] = j
            /\ \A k \in DOMAIN q : Rank(q, f[k]) = k
<1>. DEFINE D == DOMAIN q
            r == [j \in D |-> Rank(q, j)]
            Upto(j) == {i \in D : Before(q, i, j)}
<1>0. /\ D = 1 .. Len(q) /\ Len(q) \in Nat /\ IsFiniteSet(D) /\ Cardinality(D) = Len(q)
      /\ \A i \in D : q[i] \in Task /\ task[q[i]].entry \in Int /\ i \in Int
  <2>1. D = 1 .. Len(q) /\ Len(q) \in Nat
    BY LenProperties
  <2>2. IsFiniteSet(D) /\ Cardinality(D) = Len(q)
    BY <2>1, FS_Interval
  <2>3. \A i \in D : q[i] \in Task
    BY <2>1, ElementOfSeq
  <2>. QED BY <2>1, <2>2, <2>3
<1>1. \A j \in D : Upto(j) \in SUBSET D /\ IsFiniteSet(Upto(j)) /\ j \in Upto(j)
                   /\ Cardinality(Upto(j)) \in 1 .. Len(q)
  <2>. SUFFICES ASSUME NEW j \in D
                PROVE  Upto(j) \in SUBSET D /\ IsFiniteSet(Upto(j)) /\ j \in Upto(j)
                       /\ Cardinality(Upto(j)) \in 1 .. Len(q)
    OBVIOUS
  <2>1. Upto(j) \in SUBSET D /\ j \in Upto(j)
    BY <1>0 DEF Before
  <2>2. IsFiniteSet(Upto(j)) /\ Cardinality(Upto(j)) <= Len(q)
    BY <2>1, <1>0, FS_Subset
  <2>3. Cardinality(Upto(j)) \in Nat /\ Cardinality(Upto(j)) # 0
    BY <2>1, <2>2, FS_CardinalityType, FS_EmptySet
  <2>. QED BY <2>1, <2>2, <2>3, <1>0
<1>2. r \in [D -> D] /\ \A j \in D : r[j] = Cardinality(Upto(j))
  BY <1>0, <1>1 DEF Rank
<1>3. ASSUME NEW j \in D, NEW k \in D, r[j] = r[k] PROVE j = k
  <2>1. Upto(j) \subseteq Upto(k) \/ Upto(k) \subseteq Upto(j)
    BY <1>0 DEF Before
  <2>2. Upto(j) = Upto(k)
    BY <2>1, <1>1, <1>2, <1>3, FS_Subset
  <2>3. Before(q, j, k) /\ Before(q, k, j)
    BY <2>2, <1>1
  <2>. QED BY <2>3, <1>0 DEF Before
<1>4. \A k \in D : \E j \in D : r[j] = k
  <2>1. r \in Injection(D, D)
    BY <1>2, <1>3 DEF Injection, IsInjective
  <2>2. r \in Surjection(D, D)
    BY <2>1, <1>0, FS_Injection
  <2>. QED BY <2>2 DEF Surjection
<1>. DEFINE f == [k \in D |-> CHOOSE j \in D : Rank(q, j) = k]
<1>5. \A k \in D : f[k] \in D /\ r[f[k]] = k
  BY <1>4
<1>6. ByEntry(q) = [k \in D |-> q[f[k]]]
  BY DEF ByEntry, Rank, Before
<1>7. f \in [D -> D] /\ \A k, l \in D : f[k] = f[l] => k = l
  BY <1>5
<1>8. \A j \in D : \E k \in D : f[k] = j
  BY <1>2, <1>3, <1>5
<1>9. \A k \in D : Rank(q, f[k]) = k
  BY <1>5
<1>. QED BY <1>6, <1>7, <1>8, <1>9

(* Sorting loses and repeats nothing, also when identifiers are equal.     *)
LEMMA SortPermutes ==
  ASSUME NEW q \in Seq(Task), \A t \in Task : task[t].entry \in Int
  PROVE  Permuted(q, ByEntry(q)) /\ ByEntry(q) \in Seq(Task)
<1>1. PICK f \in [DOMAIN q -> DOMAIN q] :
        /\ ByEntry(q) = [k \in DOMAIN q |-> q[f[k]]]
        /\ \A k, l \in DOMAIN q : f[k] = f[l] => k = l
        /\ \A j \in DOMAIN q : \E k \in DOMAIN q : f[k] = j
  BY SortPlaces
<1>2. DOMAIN q = 1 .. Len(q) /\ Len(q) \in Nat /\ \A i \in DOMAIN q : q[i] \in Task
  BY LenProperties, ElementOfSeq
<1>3. Permuted(q, ByEntry(q))
  BY <1>1 DEF Permuted
<1>4. ByEntry(q) \in Seq(Task)
  BY <1>1, <1>2, IsASeq
<1>. QED BY <1>3, <1>4

(* The task in front of one list goes to the end of another.               *)
LEMMA MoveHead ==
  ASSUME NEW I, NEW L, NEW M, NEW l, NEW m, Moves(I, L, M, l, m), Disjoint(L)
  PROVE  Disjoint(M) /\ Members(M) = Members(L)
<1>. DEFINE N == [L EXCEPT ![l] = Tail(@)]
            x == Head(L[l])
<1>0. L \in [I -> Seq(Task)] /\ l \in I /\ m \in I /\ l # m /\ L[l] \in Seq(Task) /\ L[l] # <<>>
  BY DEF Moves, Families
<1>1. x \in Task /\ x \in Members(L) /\ Tail(L[l]) \in Seq(Task)
  BY <1>0, TailElements DEF Members, InList
<1>2. Drops(I, L, N, l)
  BY <1>0, <1>1 DEF Drops, Families
<1>3. Adds(I, N, M, m, x)
  BY <1>0, <1>1 DEF Moves, Adds, Families
<1>. HIDE DEF N
<1>4. Disjoint(N) /\ Members(N) = Members(L) \ {x}
  BY <1>2, DropHead
<1>5. Disjoint(M) /\ Members(M) = Members(N) \cup {x}
  BY <1>3, <1>4, AddLast
<1>. QED BY <1>1, <1>4, <1>5

(* One list is put behind another and the whole is sorted.                 *)
JoinsSorted(I, L, M, w, u) ==
  /\ Families(I, L, M) /\ w \in I /\ u \in I /\ w # u
  /\ M[w] = ByEntry(L[w] \o L[u]) /\ M[u] = <<>> /\ \A k \in I \ {w, u} : M[k] = L[k]

LEMMA JoinSorted ==
  ASSUME NEW I, NEW L, NEW M, NEW w, NEW u, JoinsSorted(I, L, M, w, u), Disjoint(L),
         \A t \in Task : task[t].entry \in Int
  PROVE  Disjoint(M) /\ Members(M) = Members(L)
<1>. DEFINE N == [k \in I |-> IF k = w THEN L[w] \o L[u] ELSE IF k = u THEN <<>> ELSE L[k]]
<1>1. L[w] \o L[u] \in Seq(Task) /\ <<>> \in Seq(Task)
  BY ConcatProperties, EmptySeq DEF JoinsSorted, Families
<1>2. Joins(I, L, N, w, u)
  BY <1>1 DEF JoinsSorted, Joins, Families
<1>3. N[w] = L[w] \o L[u] /\ w \in I
  BY DEF JoinsSorted
<1>4. Permuted(N[w], M[w])
  BY <1>1, <1>3, SortPermutes DEF JoinsSorted
<1>5. Reorders(I, N, M, w)
  BY <1>1, <1>4 DEF JoinsSorted, Reorders, Families
<1>. HIDE DEF N
<1>. QED BY <1>2, <1>5, JoinLists, PermuteList

-----------------------------------------------------------------------------
(* The lists of the kernel as a family.                                    *)
ListsOf(w, u, r) == [l \in Levels \cup {-1, -2} |-> IF l = -1 THEN w ELSE IF l = -2 THEN u ELSE r[l]]

Shaped(L, w, u, r) ==
  /\ L \in [Levels \cup {-1, -2} -> Seq(Task)] /\ L[-1] = w /\ L[-2] = u
  /\ \A p \in Levels : L[p] = r[p] /\ p # -1 /\ p # -2

LEMMA ListsShape ==
  ASSUME NEW w \in Seq(Task), NEW u \in Seq(Task), NEW r \in [Levels -> Seq(Task)]
  PROVE  Shaped(ListsOf(w, u, r), w, u, r)
<1>1. \A p \in Levels : p # -1 /\ p # -2
  BY SchedulerAssumption DEF Levels
<1>. QED BY <1>1 DEF ListsOf, Shaped

LEMMA ListsMembers ==
  ASSUME NEW w \in Seq(Task), NEW u \in Seq(Task), NEW r \in [Levels -> Seq(Task)]
  PROVE  Members(ListsOf(w, u, r)) = {t \in Task : InList(w, t) \/ InList(u, t)}
                                       \cup {t \in Task : \E p \in Levels : InList(r[p], t)}
<1>. DEFINE L == ListsOf(w, u, r)
            I == Levels \cup {-1, -2}
<1>1. /\ L \in [I -> Seq(Task)] /\ L[-1] = w /\ L[-2] = u
      /\ \A p \in Levels : L[p] = r[p] /\ p # -1 /\ p # -2
  <2>1. Shaped(L, w, u, r)
    BY ListsShape
  <2>. QED BY <2>1 DEF Shaped
<1>. HIDE DEF L
<1>2. \A t : (\E l \in I : InList(L[l], t))
              <=> InList(w, t) \/ InList(u, t) \/ (\E p \in Levels : InList(r[p], t))
  BY <1>1
<1>3. Members(L) = {t \in Task : InList(w, t) \/ InList(u, t)}
                     \cup {t \in Task : \E p \in Levels : InList(r[p], t)}
  BY <1>1, <1>2 DEF Members
<1>. QED BY <1>3 DEF L

(* What the properties say, in terms of the family.                        *)
LEMMA FamilyFacts ==
  ASSUME waiting \in Seq(Task), suspended \in Seq(Task), ready \in [Levels -> Seq(Task)]
  PROVE  /\ EachOnce <=> Disjoint(ListsOf(waiting, suspended, ready))
         /\ Registered = Members(ListsOf(waiting, suspended, ready))
<1>1. Lists = ListsOf(waiting, suspended, ready)
  BY DEF Lists, ListsOf
<1>2. Registered = Members(ListsOf(waiting, suspended, ready))
  BY ListsMembers DEF Registered, ReadyTasks
<1>. QED BY <1>1, <1>2 DEF EachOnce, Disjoint

LEMMA FamilyFactsPrimed ==
  ASSUME waiting' \in Seq(Task), suspended' \in Seq(Task), ready' \in [Levels -> Seq(Task)]
  PROVE  /\ EachOnce' <=> Disjoint(ListsOf(waiting', suspended', ready'))
         /\ Registered' = Members(ListsOf(waiting', suspended', ready'))
<1>1. Lists' = ListsOf(waiting', suspended', ready')
  BY DEF Lists, ListsOf
<1>2. Registered' = Members(ListsOf(waiting', suspended', ready'))
  BY ListsMembers DEF Registered, ReadyTasks
<1>. QED BY <1>1, <1>2 DEF EachOnce, Disjoint

-----------------------------------------------------------------------------
(* The inductive invariant: one list each while no task was linked twice,  *)
(* with as much of the types as the moves between lists need.              *)
TaskState ==
  [prio : Levels, awake : BOOLEAN, enabled : BOOLEAN, removeReq : BOOLEAN, trigger : Triggers,
   due : BOOLEAN, iters : Int, notif : Int, async : Data \cup {None}, flags : BOOLEAN,
   queue : BOOLEAN, entry : Int]

ListTypes ==
  /\ waiting \in Seq(Task) /\ suspended \in Seq(Task) /\ ready \in [Levels -> Seq(Task)]
TaskTypes ==
  /\ task \in [Task -> TaskState] /\ taskEntries \in Int
  /\ spread.data \in Data \cup {None} /\ level \in Levels /\ app \in Applications
Called == pc = "call" => ready[level] # <<>>

ListInv == ListTypes /\ TaskTypes /\ Called /\ OneListEach

(* PERIODIC is no count, nor the negative of one.                          *)
LEMMA Limits == Periodic \in Int /\ MaxIterations \in Nat /\ Periodic < -MaxIterations
BY SMT DEF Periodic, MaxIterations

LEMMA AppFacts ==
  ASSUME app \in Applications
  PROVE  /\ app.tasks \subseteq Task /\ app.levels \subseteq Levels /\ app.data \subseteq Data
         /\ app.iterations \subseteq Int /\ \A n \in app.iterations : Negated(n) \in Int
         /\ app.order \in Seq(app.tasks) /\ app.order \in Seq(Task)
         /\ \A i, j \in DOMAIN app.order : app.order[i] = app.order[j] => i = j
<1>1. IsApplication(app)
  BY SchedulerAssumption
<1>2. Periodic \in Int
  BY Limits
<1>. QED BY <1>1, <1>2, SeqMonotonic DEF IsApplication, Negated

LEMMA NewTaskType ==
  ASSUME NEW p \in Levels, NEW n \in Int, Negated(n) \in Int, NEW on \in BOOLEAN, NEW id \in Int
  PROVE  NewTask(p, n, on, id) \in TaskState
BY DEF NewTask, TaskState, Triggers

LEMMA ListInit == Init => ListInv
<1>. SUFFICES ASSUME Init PROVE ListInv
  OBVIOUS
<1>0. app \in Applications
  BY DEF Init
<1>1. ListTypes
  BY <1>0, AppFacts, EmptySeq DEF Init, ListTypes
<1>2. TaskTypes
  <2>1. PICK prios \in [app.tasks -> app.levels], n \in app.iterations :
          task = [t \in Task |->
                    IF \E i \in DOMAIN app.order : app.order[i] = t
                      THEN NewTask(prios[t], n, "time" \in Uses,
                                   CHOOSE i \in DOMAIN app.order : app.order[i] = t)
                      ELSE NewTask(0, Periodic, FALSE, Unregistered)]
    BY DEF Init
  <2>2. n \in Int /\ Negated(n) \in Int /\ Periodic \in Int /\ Negated(Periodic) \in Int
        /\ 0 \in Levels /\ Unregistered \in Int /\ Len(app.order) \in Nat /\ MaxPriority \in Levels
        /\ DOMAIN app.order = 1 .. Len(app.order)
    BY <1>0, AppFacts, SchedulerAssumption, LenProperties, Limits DEF Negated, Levels, Unregistered
  <2>3. ASSUME NEW t \in Task PROVE task[t] \in TaskState
    <3>1. CASE \E i \in DOMAIN app.order : app.order[i] = t
      <4>. DEFINE id == CHOOSE i \in DOMAIN app.order : app.order[i] = t
      <4>1. id \in DOMAIN app.order /\ app.order[id] = t
        BY <3>1
      <4>. HIDE DEF id
      <4>2. t \in app.tasks
        <5>1. app.order \in Seq(app.tasks) /\ id \in 1 .. Len(app.order)
          BY <4>1, <1>0, <2>2, AppFacts
        <5>. QED BY <4>1, <5>1, ElementOfSeq
      <4>3. prios[t] \in Levels /\ id \in Int
        BY <4>1, <4>2, <1>0, <2>2, AppFacts
      <4>4. ("time" \in Uses) \in BOOLEAN
        OBVIOUS
      <4>5. NewTask(prios[t], n, "time" \in Uses, id) \in TaskState
        BY <4>3, <4>4, <2>2, NewTaskType
      <4>. QED BY <2>1, <3>1, <4>5 DEF id
    <3>2. CASE ~\E i \in DOMAIN app.order : app.order[i] = t
      <4>1. NewTask(0, Periodic, FALSE, Unregistered) \in TaskState
        BY <2>2, NewTaskType
      <4>. QED BY <2>1, <3>2, <4>1
    <3>. QED BY <3>1, <3>2
  <2>4. task \in [Task -> TaskState]
    BY <2>1, <2>3
  <2>5. taskEntries = Len(app.order) /\ spread.data = None /\ level = MaxPriority
    BY DEF Init
  <2>. QED BY <1>0, <2>2, <2>4, <2>5 DEF TaskTypes
<1>3. EachOnce
  <2>1. ListsOf(waiting, suspended, ready)
          = [l \in Levels \cup {-1, -2} |-> IF l = -1 THEN app.order ELSE <<>>]
    BY DEF Init, ListsOf
  <2>2. Disjoint(ListsOf(waiting, suspended, ready))
    BY <2>1, <1>0, AppFacts DEF Disjoint
  <2>. QED BY <1>1, <2>2, FamilyFacts DEF ListTypes
<1>4. Called
  BY DEF Init, Called
<1>5. OneListEach
  BY <1>3 DEF Init, OneListEach
<1>. QED BY <1>1, <1>2, <1>4, <1>5 DEF ListInv

-----------------------------------------------------------------------------
(* Types of the fields.                                                    *)

LEMMA Fields ==
  ASSUME NEW r \in TaskState
  PROVE  /\ r.prio \in Levels /\ r.trigger \in Triggers /\ r.async \in Data \cup {None}
         /\ r.awake \in BOOLEAN /\ r.enabled \in BOOLEAN /\ r.due \in BOOLEAN
         /\ r.iters \in Int /\ r.notif \in Int /\ r.entry \in Int
BY DEF TaskState

LEMMA FieldUpdates ==
  ASSUME NEW r \in TaskState, NEW v
  PROVE  /\ v \in Levels => [r EXCEPT !.prio = v] \in TaskState
         /\ v \in Triggers => [r EXCEPT !.trigger = v] \in TaskState
         /\ v \in Data \cup {None} => [r EXCEPT !.async = v] \in TaskState
         /\ v \in Int => /\ [r EXCEPT !.iters = v] \in TaskState
                         /\ [r EXCEPT !.notif = v] \in TaskState
                         /\ [r EXCEPT !.entry = v] \in TaskState
         /\ v \in BOOLEAN => /\ [r EXCEPT !.awake = v] \in TaskState
                             /\ [r EXCEPT !.enabled = v] \in TaskState
                             /\ [r EXCEPT !.due = v] \in TaskState
                             /\ [r EXCEPT !.removeReq = v] \in TaskState
                             /\ [r EXCEPT !.flags = v] \in TaskState
                             /\ [r EXCEPT !.queue = v] \in TaskState
BY DEF TaskState

LEMMA NotifiedType ==
  ASSUME task \in [Task -> TaskState], NEW t \in Task, NEW d \in Data \cup {None}
  PROVE  Notified(t, d) \in [Task -> TaskState]
<1>. DEFINE r == [task[t] EXCEPT !.notif = @ + 1]
            q == [r EXCEPT !.async = d]
<1>1. task[t] \in TaskState /\ task[t].notif + 1 \in Int
  BY Fields
<1>2. r \in TaskState
  BY <1>1, FieldUpdates
<1>3. q \in TaskState
  <2>. HIDE DEF r
  <2>. QED BY <1>2, FieldUpdates
<1>4. [task EXCEPT ![t].notif = @ + 1, ![t].async = d] = [task EXCEPT ![t] = q]
  BY <1>1 DEF TaskState
<1>. HIDE DEF q
<1>. QED BY <1>3, <1>4 DEF Notified

LEMMA IteratedType == ASSUME NEW r \in TaskState PROVE Iterated(r) \in TaskState
<1>. DEFINE n == IF r.iters < 0 /\ r.iters # Periodic THEN -r.iters ELSE r.iters
            m == IF n = Periodic THEN n ELSE n - 1
            on == r.enabled /\ m # 0
            q == [r EXCEPT !.iters = m]
<1>1. m \in Int
  BY Fields, Limits
<1>2. on \in BOOLEAN
  OBVIOUS
<1>3. Iterated(r) = [q EXCEPT !.enabled = on]
  BY DEF Iterated, TaskState
<1>. HIDE DEF m, on
<1>4. q \in TaskState
  BY <1>1, FieldUpdates
<1>. HIDE DEF q
<1>. QED BY <1>2, <1>3, <1>4, FieldUpdates

LEMMA KernelTypes == ASSUME ListInv, Kernel PROVE TaskTypes'
<1>. USE DEF ListInv, TaskTypes, ListTypes
<1>0. "Queued" \in Triggers /\ "None" \in Triggers
  BY DEF Triggers
<1>1. CASE GetQueued
  <2>1. ASSUME NEW t, task' = [task EXCEPT ![t].trigger = "Queued", ![t].awake = TRUE]
        PROVE  task' \in [Task -> TaskState]
    <3>1. CASE t \in Task
      <4>. DEFINE marked == [task[t] EXCEPT !.trigger = "Queued"]
                  woken == [marked EXCEPT !.awake = TRUE]
      <4>1. marked \in TaskState
        BY <1>0, <3>1, FieldUpdates
      <4>2. task' = [task EXCEPT ![t] = woken]
        BY <2>1, <3>1 DEF TaskState
      <4>. HIDE DEF marked
      <4>3. woken \in TaskState
        BY <4>1, FieldUpdates
      <4>. HIDE DEF woken
      <4>. QED BY <3>1, <4>2, <4>3
    <3>2. CASE t \notin Task
      <4>1. task' = task
        BY <2>1, <3>2
      <4>. QED BY <4>1
    <3>. QED BY <3>1, <3>2
  <2>. QED BY <1>1, <2>1 DEF GetQueued, lists, hist
<1>2. CASE ScanTask
  <2>. DEFINE t == Head(waiting)
              trg == TriggerOf(t)
              left == task[t].due /\ ~(task[t].awake /\ trg # "None" /\ trg = "Time")
              marked == [task[t] EXCEPT !.trigger = trg]
              scanned == [marked EXCEPT !.due = left]
              freed == [scanned EXCEPT !.removeReq = FALSE]
              removed == [freed EXCEPT !.entry = Unregistered]
  <2>1. t \in Task /\ task[t] \in TaskState
    BY <1>2, TailElements DEF ScanTask
  <2>2. trg \in Triggers
    BY <2>1, Fields DEF TriggerOf, Triggers
  <2>3. left \in BOOLEAN
    OBVIOUS
  <2>4. \/ task' = [task EXCEPT ![t] = scanned] /\ taskEntries' = taskEntries
        \/ task' = [task EXCEPT ![t] = removed] /\ taskEntries' = taskEntries - 1
    BY <1>2, <2>1 DEF ScanTask, TaskState
  <2>5. UNCHANGED <<spread, level, app>>
    BY <1>2 DEF ScanTask, hist
  <2>6. Unregistered \in Int
    BY SchedulerAssumption DEF Unregistered
  <2>. HIDE DEF trg, left
  <2>7. marked \in TaskState
    BY <2>1, <2>2, FieldUpdates
  <2>. HIDE DEF marked
  <2>8. scanned \in TaskState
    BY <2>3, <2>7, FieldUpdates
  <2>. HIDE DEF scanned
  <2>9. freed \in TaskState
    BY <2>8, FieldUpdates
  <2>. HIDE DEF freed
  <2>10. removed \in TaskState
    BY <2>6, <2>9, FieldUpdates
  <2>. HIDE DEF removed, t
  <2>11. task' \in [Task -> TaskState]
    BY <2>1, <2>4, <2>8, <2>10
  <2>12. taskEntries' \in Int
    BY <2>4
  <2>. QED BY <2>5, <2>11, <2>12
<1>3. CASE ScanSpread
  <2>. DEFINE t == Head(waiting)
  <2>1. t \in Task /\ task[t] \in TaskState
    BY <1>3, TailElements DEF ScanSpread
  <2>3. Notified(t, spread.data) \in [Task -> TaskState]
    BY <2>1, NotifiedType
  <2>4. task' = Notified(t, spread.data) \/ task' = task
    BY <1>3 DEF ScanSpread
  <2>5. spread'.data = None /\ level' = MaxPriority /\ UNCHANGED <<taskEntries, app>>
    BY <1>3 DEF ScanSpread, hist
  <2>6. MaxPriority \in Levels
    BY SchedulerAssumption DEF Levels
  <2>. HIDE DEF t
  <2>. QED BY <2>3, <2>4, <2>5, <2>6
<1>4. CASE EndScan
  <2>1. MaxPriority \in Levels
    BY SchedulerAssumption DEF Levels
  <2>. QED BY <1>4, <2>1 DEF EndScan, hist
<1>5. CASE Dispatch
  <2>. DEFINE t == Head(ready[level])
  <2>1. t \in Task /\ task[t] \in TaskState
    BY <1>5, TailElements DEF Dispatch
  <2>2. Iterated(task[t]) \in TaskState
    BY <2>1, IteratedType
  <2>3. [task[t] EXCEPT !.notif = @ - 1] \in TaskState
    <3>1. task[t].notif - 1 \in Int
      BY <2>1, Fields
    <3>. QED BY <2>1, <3>1, FieldUpdates
  <2>. DEFINE after == CASE task[t].trigger = "Time" -> Iterated(task[t])
                         [] task[t].trigger = "Simple" -> [task[t] EXCEPT !.notif = @ - 1]
                         [] OTHER -> task[t]
  <2>4. task' = [task EXCEPT ![t] = after]
    BY <1>5, <2>1 DEF Dispatch
  <2>5. after \in TaskState
    <3>1. after = Iterated(task[t]) \/ after = [task[t] EXCEPT !.notif = @ - 1] \/ after = task[t]
      OBVIOUS
    <3>. QED BY <2>1, <2>2, <2>3, <3>1
  <2>6. UNCHANGED <<spread, level, app, taskEntries>>
    BY <1>5 DEF Dispatch
  <2>. HIDE DEF t, after
  <2>. QED BY <2>1, <2>4, <2>5, <2>6
<1>6. CASE NextLevel
  <2>1. level > 0 => level - 1 \in Levels
    BY SchedulerAssumption DEF Levels
  <2>. QED BY <1>6, <2>1 DEF NextLevel, notes, hist
<1>7. CASE ReturnYielded
  BY <1>7 DEF ReturnYielded, notes, sched, hist
<1>8. CASE Return
  <2>1. [task EXCEPT ![Head(ready[level])].trigger = "None"] \in [Task -> TaskState]
    BY <1>0 DEF TaskState
  <2>. QED BY <1>8, <2>1 DEF Return, notes, hist
<1>9. CASE Gather \/ IdleReturn \/ Loop
  BY <1>9 DEF Gather, IdleReturn, Loop, notes, hist
<1>. QED BY <1>1, <1>2, <1>3, <1>4, <1>5, <1>6, <1>7, <1>8, <1>9 DEF Kernel

(* The step of add() that links a task twice.                              *)
Relinks(t) ==
  /\ t \in Registered /\ ~InList(waiting, t) /\ pc' = "relinked" /\ level' = level
  /\ waiting' = Append(waiting, t) /\ suspended' = CutAt(suspended, t)
  /\ ready' = [p \in Levels |-> CutAt(ready[p], t)]
Stays == UNCHANGED <<ready, suspended, level, pc>>

LEMMA CallTypes ==
  ASSUME ListInv, Calls PROVE TaskTypes' /\ (Stays \/ \E t \in app.tasks : Relinks(t))
<1>. USE DEF ListInv, TaskTypes, ListTypes, Stays
<1>1. ASSUME NEW t \in Task, NEW r \in TaskState, SetTask(t, r)
      PROVE  TaskTypes' /\ Stays
  BY <1>1 DEF SetTask, lists, notes, sched, hist
<1>2. ASSUME NEW t \in app.tasks, TaskCalls(t)
      PROVE  TaskTypes' /\ (Stays \/ Relinks(t))
  <2>0. t \in Task /\ task[t] \in TaskState
    BY AppFacts
  <2>1. ASSUME NEW d \in app.data, NotifySimple(t, d) \/ NotifyQueued(t, d)
        PROVE  TaskTypes' /\ Stays
    <3>1. Notified(t, d) \in [Task -> TaskState]
      BY <2>0, AppFacts, NotifiedType
    <3>. QED BY <2>1, <3>1 DEF NotifySimple, NotifyQueued, lists, notes, sched, hist
  <2>2. CASE Tick(t) \/ QueueEvent(t)
    <3>1. [task[t] EXCEPT !.due = TRUE] \in TaskState /\ [task[t] EXCEPT !.queue = TRUE] \in TaskState
      BY <2>0, FieldUpdates
    <3>2. \/ task' = [task EXCEPT ![t] = [task[t] EXCEPT !.due = TRUE]]
          \/ task' = [task EXCEPT ![t] = [task[t] EXCEPT !.queue = TRUE]]
      BY <2>2, <2>0 DEF Tick, QueueEvent
    <3>3. UNCHANGED <<ready, suspended, level, pc, taskEntries, spread, app>>
      BY <2>2 DEF Tick, QueueEvent, lists, notes, sched, hist
    <3>. QED BY <2>0, <3>1, <3>2, <3>3
  <2>3. CASE ConsumeQueue(t) \/ RemoveTask(t)
    <3>1. [task[t] EXCEPT !.queue = FALSE] \in TaskState
          /\ [task[t] EXCEPT !.removeReq = TRUE] \in TaskState
      BY <2>0, FieldUpdates
    <3>. QED BY <2>0, <2>3, <3>1, <1>1 DEF ConsumeQueue, RemoveTask
  <2>4. CASE YieldToTask(t)
    BY <2>4 DEF YieldToTask, lists, notes, sched, hist
  <2>5. ASSUME NEW b \in BOOLEAN, SetEnabled(t, b) \/ SetAwake(t, b) \/ EventFlagsModify(t, b)
        PROVE  TaskTypes' /\ Stays
    <3>. DEFINE en == [task[t] EXCEPT !.enabled = b]
    <3>1. en \in TaskState /\ [task[t] EXCEPT !.awake = b] \in TaskState
          /\ [task[t] EXCEPT !.flags = b] \in TaskState
      BY <2>0, FieldUpdates
    <3>2. [task[t] EXCEPT !.enabled = b, !.due = FALSE] = [en EXCEPT !.due = FALSE]
      BY <2>0 DEF TaskState
    <3>. HIDE DEF en
    <3>3. [en EXCEPT !.due = FALSE] \in TaskState
      BY <3>1, FieldUpdates
    <3>. QED BY <2>0, <2>5, <3>1, <3>2, <3>3, <1>1 DEF SetEnabled, SetAwake, EventFlagsModify
  <2>6. ASSUME NEW n \in app.iterations, SetIterations(t, n)
        PROVE  TaskTypes' /\ Stays
    <3>1. [task[t] EXCEPT !.iters = Negated(n)] \in TaskState
      BY <2>0, FieldUpdates, AppFacts
    <3>2. task' = [task EXCEPT ![t] = [task[t] EXCEPT !.iters = Negated(n)]]
      BY <2>0, <2>6 DEF SetIterations
    <3>3. UNCHANGED <<ready, suspended, level, pc, taskEntries, spread, app>>
      BY <2>6 DEF SetIterations, lists, notes, sched
    <3>. QED BY <2>0, <3>1, <3>2, <3>3
  <2>7. ASSUME NEW p \in app.levels, SetPriority(t, p)
        PROVE  TaskTypes' /\ Stays
    <3>1. [task[t] EXCEPT !.prio = p] \in TaskState
      BY <2>0, FieldUpdates, AppFacts
    <3>. QED BY <2>0, <2>7, <3>1, <1>1 DEF SetPriority
  <2>8. ASSUME NEW p \in app.levels, NEW n \in app.iterations, NEW on \in BOOLEAN,
               NEW awake \in BOOLEAN, Add(t, p, n, on, awake)
        PROVE  TaskTypes' /\ (Stays \/ Relinks(t))
    <3>. DEFINE r1 == [task[t] EXCEPT !.prio = p]
                r2 == [r1 EXCEPT !.awake = awake]
                r3 == [r2 EXCEPT !.enabled = on]
                r4 == [r3 EXCEPT !.due = FALSE]
                r5 == [r4 EXCEPT !.entry = taskEntries + 1]
                r6 == [r5 EXCEPT !.iters = Negated(n)]
    <3>1. task' = [task EXCEPT ![t] = r6]
      BY <2>0, <2>8 DEF Add, TaskState
    <3>2. p \in Levels /\ Negated(n) \in Int /\ taskEntries + 1 \in Int
      BY AppFacts
    <3>3. r1 \in TaskState
      BY <2>0, <3>2, FieldUpdates
    <3>. HIDE DEF r1
    <3>4. r2 \in TaskState
      BY <3>3, FieldUpdates
    <3>. HIDE DEF r2
    <3>5. r3 \in TaskState
      BY <3>4, FieldUpdates
    <3>. HIDE DEF r3
    <3>6. r4 \in TaskState
      BY <3>5, FieldUpdates
    <3>. HIDE DEF r4
    <3>7. r5 \in TaskState
      BY <3>2, <3>6, FieldUpdates
    <3>. HIDE DEF r5
    <3>8. r6 \in TaskState
      BY <3>2, <3>7, FieldUpdates
    <3>. HIDE DEF r6
    <3>9. taskEntries' = taskEntries + 1 /\ UNCHANGED <<spread, app>> /\ Enter(t)
      BY <2>8 DEF Add, notes
    <3>10. UNCHANGED level /\ (Stays \/ Relinks(t))
      BY <3>9 DEF Enter, Relinks, lists, sched
    <3>. HIDE DEF Stays
    <3>. QED BY <2>0, <3>1, <3>2, <3>8, <3>9, <3>10
  <2>. QED BY <1>2, <2>1, <2>2, <2>3, <2>4, <2>5, <2>6, <2>7, <2>8 DEF TaskCalls
<1>3. ASSUME NEW mode \in {"simple", "queued"}, NEW d \in app.data, Spread(mode, d)
      PROVE  TaskTypes' /\ Stays
  BY <1>3, AppFacts DEF Spread, lists, sched, hist
<1>4. CASE SchedulerRelease
  BY <1>4 DEF SchedulerRelease, lists, notes, sched, hist
<1>. QED BY <1>2, <1>3, <1>4 DEF Calls

-----------------------------------------------------------------------------
(* What the steps that move tasks do to the lists.                         *)
Family == ListsOf(waiting, suspended, ready)
Places == Levels \cup {-1, -2}
Kept ==
  /\ ListTypes' /\ EachOnce'
  /\ \A t \in Registered : task[t].removeReq \/ t \in Registered'

LEMMA FamilyIs ==
  ASSUME ListTypes
  PROVE  /\ Family \in [Places -> Seq(Task)] /\ Family[-1] = waiting /\ Family[-2] = suspended
         /\ \A p \in Levels : Family[p] = ready[p] /\ p # -1 /\ p # -2
         /\ EachOnce <=> Disjoint(Family)
         /\ Registered = Members(Family)
<1>1. /\ Family \in [Places -> Seq(Task)] /\ Family[-1] = waiting /\ Family[-2] = suspended
      /\ \A p \in Levels : Family[p] = ready[p] /\ p # -1 /\ p # -2
  <2>1. waiting \in Seq(Task) /\ suspended \in Seq(Task) /\ ready \in [Levels -> Seq(Task)]
    BY DEF ListTypes
  <2>2. Shaped(Family, waiting, suspended, ready)
    BY <2>1, ListsShape DEF Family
  <2>. QED BY <2>2 DEF Places, Shaped
<1>2. (EachOnce <=> Disjoint(Family)) /\ Registered = Members(Family)
  <2>. USE DEF ListTypes, Family
  <2>. QED BY FamilyFacts
<1>. QED BY <1>1, <1>2

LEMMA FamilyIsPrimed ==
  ASSUME ListTypes'
  PROVE  /\ Family' \in [Places -> Seq(Task)] /\ Family'[-1] = waiting' /\ Family'[-2] = suspended'
         /\ \A p \in Levels : Family'[p] = ready'[p]
         /\ EachOnce' <=> Disjoint(Family')
         /\ Registered' = Members(Family')
<1>1. Family' = ListsOf(waiting', suspended', ready')
  BY DEF Family, ListsOf
<1>2. waiting' \in Seq(Task) /\ suspended' \in Seq(Task) /\ ready' \in [Levels -> Seq(Task)]
  BY DEF ListTypes
<1>3. /\ Family' \in [Places -> Seq(Task)] /\ Family'[-1] = waiting' /\ Family'[-2] = suspended'
      /\ \A p \in Levels : Family'[p] = ready'[p]
  <2>1. Shaped(Family', waiting', suspended', ready')
    BY <1>1, <1>2, ListsShape
  <2>. QED BY <2>1 DEF Places, Shaped
<1>4. (EachOnce' <=> Disjoint(Family')) /\ Registered' = Members(Family')
  BY <1>1, <1>2, FamilyFactsPrimed
<1>. QED BY <1>3, <1>4

LEMMA ScanKeeps == ASSUME ListInv, EachOnce, ScanTask PROVE Kept
<1>. DEFINE t == Head(waiting)
            trg == TriggerOf(t)
<1>. USE DEF ListInv
<1>1. /\ waiting # <<>> /\ waiting \in Seq(Task) /\ t \in Task /\ waiting' = Tail(waiting)
      /\ Tail(waiting) \in Seq(Task) /\ task[t].prio \in Levels
  BY TailElements, Fields DEF ScanTask, ListTypes, TaskTypes
<1>2. \/ task[t].removeReq /\ UNCHANGED <<suspended, ready>>
      \/ suspended' = Append(suspended, t) /\ UNCHANGED ready
      \/ ready' = [ready EXCEPT ![task[t].prio] = Append(@, t)] /\ UNCHANGED suspended
  BY DEF ScanTask
<1>. HIDE DEF t
<1>3. ListTypes'
  <2>1. suspended \in Seq(Task) /\ ready \in [Levels -> Seq(Task)]
    BY DEF ListTypes
  <2>2. Append(suspended, t) \in Seq(Task) /\ Append(ready[task[t].prio], t) \in Seq(Task)
    BY <1>1, <2>1, AppendElements
  <2>3. suspended' \in Seq(Task) /\ ready' \in [Levels -> Seq(Task)]
    BY <1>1, <1>2, <2>1, <2>2
  <2>. QED BY <1>1, <2>3 DEF ListTypes
<1>4. Family[-1] = waiting /\ t = Head(Family[-1]) /\ Families(Places, Family, Family')
      /\ Disjoint(Family) /\ -1 \in Places /\ -2 \in Places
  BY <1>3, FamilyIs, FamilyIsPrimed DEF Families, Places, t
<1>5. CASE task[t].removeReq /\ UNCHANGED <<suspended, ready>>
  <2>1. Drops(Places, Family, Family', -1)
    BY <1>1, <1>3, <1>4, <1>5, FamilyIs, FamilyIsPrimed DEF Drops, Places
  <2>2. Disjoint(Family') /\ Members(Family') = Members(Family) \ {t}
    BY <1>4, <2>1, DropHead
  <2>. QED BY <1>3, <1>5, <2>2, FamilyIs, FamilyIsPrimed DEF Kept
<1>6. CASE suspended' = Append(suspended, t) /\ UNCHANGED ready
  <2>1. Moves(Places, Family, Family', -1, -2)
    <3>1. Family'[-1] = Tail(Family[-1]) /\ Family'[-2] = Append(Family[-2], Head(Family[-1]))
      BY <1>1, <1>3, <1>4, <1>6, FamilyIs, FamilyIsPrimed
    <3>2. ASSUME NEW k \in Places \ {-1, -2} PROVE Family'[k] = Family[k]
      BY <1>3, <1>6, FamilyIs, FamilyIsPrimed DEF Places
    <3>. QED BY <1>1, <1>4, <3>1, <3>2 DEF Moves
  <2>2. Disjoint(Family') /\ Members(Family') = Members(Family)
    BY <1>4, <2>1, MoveHead
  <2>. QED BY <1>3, <2>2, FamilyIs, FamilyIsPrimed DEF Kept
<1>7. CASE ready' = [ready EXCEPT ![task[t].prio] = Append(@, t)] /\ UNCHANGED suspended
  <2>0. ready \in [Levels -> Seq(Task)]
    BY DEF ListTypes
  <2>1. Moves(Places, Family, Family', -1, task[t].prio)
    BY <1>1, <1>3, <1>4, <1>7, <2>0, FamilyIs, FamilyIsPrimed DEF Moves, Places
  <2>2. Disjoint(Family') /\ Members(Family') = Members(Family)
    BY <1>4, <2>1, MoveHead
  <2>. QED BY <1>3, <2>2, FamilyIs, FamilyIsPrimed DEF Kept
<1>. QED BY <1>2, <1>5, <1>6, <1>7

LEMMA ReturnKeeps == ASSUME ListInv, EachOnce, Return PROVE Kept
<1>. DEFINE t == Head(ready[level])
<1>. USE DEF ListInv
<1>1. /\ ready[level] # <<>> /\ ready[level] \in Seq(Task) /\ t \in Task /\ level \in Levels
      /\ Tail(ready[level]) \in Seq(Task)
  BY TailElements DEF Return, Called, ListTypes, TaskTypes
<1>2. /\ ready' = [ready EXCEPT ![level] = Tail(ready[level])] /\ waiting' = Append(waiting, t)
      /\ UNCHANGED suspended
  BY DEF Return
<1>. HIDE DEF t
<1>3. ListTypes'
  BY <1>1, <1>2, AppendElements DEF ListTypes
<1>4. Family[level] = ready[level] /\ t = Head(Family[level]) /\ Families(Places, Family, Family')
      /\ Disjoint(Family) /\ -1 \in Places /\ level \in Places /\ level # -1
  BY <1>1, <1>3, FamilyIs, FamilyIsPrimed DEF Families, Places, t
<1>5. Moves(Places, Family, Family', level, -1)
  <2>0. ready \in [Levels -> Seq(Task)]
    BY DEF ListTypes
  <2>1. Family'[level] = Tail(Family[level]) /\ Family'[-1] = Append(Family[-1], t)
    BY <1>1, <1>2, <1>3, <1>4, <2>0, FamilyIs, FamilyIsPrimed
  <2>2. ASSUME NEW k \in Places \ {level, -1} PROVE Family'[k] = Family[k]
    BY <1>1, <1>2, <1>3, <2>0, FamilyIs, FamilyIsPrimed DEF Places
  <2>. QED BY <1>1, <1>4, <2>1, <2>2 DEF Moves
<1>6. Disjoint(Family') /\ Members(Family') = Members(Family)
  BY <1>4, <1>5, MoveHead
<1>. QED BY <1>3, <1>6, FamilyIs, FamilyIsPrimed DEF Kept

LEMMA GatherKeeps == ASSUME ListInv, EachOnce, Gather PROVE Kept
<1>. USE DEF ListInv
<1>0. /\ waiting \in Seq(Task) /\ suspended \in Seq(Task) /\ waiting \o suspended \in Seq(Task)
      /\ \A t \in Task : task[t].entry \in Int
  BY ConcatProperties, Fields DEF ListTypes, TaskTypes
<1>1. CASE suspended # <<>>
  <2>1. waiting' = ByEntry(waiting \o suspended) /\ suspended' = <<>> /\ UNCHANGED ready
    BY <1>1 DEF Gather
  <2>2. ByEntry(waiting \o suspended) \in Seq(Task)
    BY <1>0, SortPermutes
  <2>3. ListTypes'
    BY <2>1, <2>2, EmptySeq DEF ListTypes
  <2>4. Disjoint(Family) /\ JoinsSorted(Places, Family, Family', -1, -2)
    <3>1. Family'[-1] = ByEntry(Family[-1] \o Family[-2]) /\ Family'[-2] = <<>>
      BY <2>1, <2>3, FamilyIs, FamilyIsPrimed
    <3>2. ASSUME NEW k \in Places \ {-1, -2} PROVE Family'[k] = Family[k]
      BY <2>1, <2>3, FamilyIs, FamilyIsPrimed DEF Places
    <3>3. Families(Places, Family, Family') /\ Disjoint(Family) /\ -1 \in Places /\ -2 \in Places
      BY <2>3, FamilyIs, FamilyIsPrimed DEF Families, Places
    <3>. QED BY <3>1, <3>2, <3>3 DEF JoinsSorted
  <2>5. Disjoint(Family') /\ Members(Family') = Members(Family)
    BY <1>0, <2>4, JoinSorted
  <2>. QED BY <2>3, <2>5, FamilyIs, FamilyIsPrimed DEF Kept
<1>2. CASE suspended = <<>>
  <2>1. UNCHANGED lists
    BY <1>2 DEF Gather, lists
  <2>2. ListTypes' /\ Family' = Family
    BY <2>1 DEF lists, ListTypes, Family, ListsOf
  <2>. QED BY <2>2, FamilyIs, FamilyIsPrimed DEF Kept
<1>. QED BY <1>1, <1>2

LEMMA AddKeeps ==
  ASSUME ListInv, EachOnce, NEW t \in Task, t \notin Registered, waiting' = Append(waiting, t),
         UNCHANGED <<suspended, ready>>
  PROVE  Kept
<1>. USE DEF ListInv
<1>1. ListTypes'
  BY AppendElements DEF ListTypes
<1>2. Adds(Places, Family, Family', -1, t)
  BY <1>1, FamilyIs, FamilyIsPrimed DEF Adds, Families, Places
<1>3. Disjoint(Family) /\ t \notin Members(Family)
  BY FamilyIs
<1>4. Disjoint(Family') /\ Members(Family') = Members(Family) \cup {t}
  BY <1>2, <1>3, AddLast
<1>. QED BY <1>1, <1>4, FamilyIs, FamilyIsPrimed DEF Kept

LEMMA UnchangedKeeps ==
  ASSUME ListInv, UNCHANGED lists
  PROVE  ListTypes' /\ (EachOnce' <=> EachOnce) /\ Registered' = Registered
<1>. USE DEF ListInv
<1>1. ListTypes' /\ Family' = Family
  BY DEF lists, ListTypes, Family, ListsOf
<1>. QED BY <1>1, FamilyIs, FamilyIsPrimed

(* A list cut at one of its tasks still ends with it.                      *)
LEMMA CutList ==
  ASSUME NEW q \in Seq(Task), NEW t
  PROVE  CutAt(q, t) \in Seq(Task) /\ (InList(q, t) => InList(CutAt(q, t), t))
<1>1. CASE InList(q, t)
  <2>. DEFINE n == CHOOSE i \in DOMAIN q : q[i] = t
  <2>1. n \in DOMAIN q /\ q[n] = t
    BY <1>1 DEF InList
  <2>2. CutAt(q, t) = SubSeq(q, 1, n)
    BY <1>1 DEF CutAt
  <2>. HIDE DEF n
  <2>3. n \in 1 .. Len(q) /\ Len(q) \in Nat
    BY <2>1, LenProperties
  <2>4. \A i \in 1 .. n : q[i] \in Task
    BY <2>3, ElementOfSeq
  <2>5. SubSeq(q, 1, n) \in Seq(Task) /\ Len(SubSeq(q, 1, n)) = n /\ SubSeq(q, 1, n)[n] = t
    BY <2>1, <2>3, <2>4, SubSeqProperties
  <2>6. n \in DOMAIN SubSeq(q, 1, n)
    BY <2>3, <2>5, LenProperties
  <2>. QED BY <2>2, <2>5, <2>6 DEF InList
<1>2. CASE ~InList(q, t)
  BY <1>2 DEF CutAt
<1>. QED BY <1>1, <1>2

LEMMA RelinkKeeps ==
  ASSUME ListInv, NEW t \in Task, Relinks(t)
  PROVE  ListTypes' /\ ~EachOnce'
<1>. USE DEF ListInv, ListTypes
<1>1. ListTypes'
  BY CutList, AppendElements DEF Relinks
<1>2. InList(waiting', t)
  BY AppendElements DEF Relinks, InList
<1>3. PICK m \in Places \ {-1} : InList(Family'[m], t)
  <2>1. CASE InList(suspended, t)
    <3>1. suspended' = CutAt(suspended, t) /\ suspended \in Seq(Task)
      BY DEF Relinks
    <3>2. InList(suspended', t)
      BY <3>1, <2>1, CutList
    <3>3. Family'[-2] = suspended' /\ -2 \in Places \ {-1}
      BY <1>1, FamilyIsPrimed DEF Places
    <3>. QED BY <3>2, <3>3
  <2>2. ASSUME NEW p \in Levels, InList(ready[p], t)
        PROVE  \E m \in Places \ {-1} : InList(Family'[m], t)
    <3>1. ready'[p] = CutAt(ready[p], t) /\ ready[p] \in Seq(Task)
      BY DEF Relinks
    <3>2. InList(ready'[p], t)
      BY <3>1, <2>2, CutList
    <3>. QED BY <1>1, <3>2, FamilyIs, FamilyIsPrimed DEF Places
  <2>3. InList(suspended, t) \/ \E p \in Levels : InList(ready[p], t)
    BY DEF Relinks, Registered, ReadyTasks
  <2>. QED BY <2>1, <2>2, <2>3
<1>4. InList(Family'[-1], t) /\ -1 \in Places /\ DOMAIN Family' = Places
  BY <1>1, <1>2, FamilyIsPrimed DEF Places
<1>5. ~Disjoint(Family')
  BY <1>3, <1>4 DEF Disjoint, InList
<1>. QED BY <1>1, <1>5, FamilyIsPrimed

-----------------------------------------------------------------------------
(* One step of the system.                                                 *)
Held == pc' = "relinked" \/ \A t \in Registered : task[t].removeReq \/ t \in Registered'

LEMMA KernelKeeps ==
  ASSUME ListInv, Kernel PROVE Kept /\ Called' /\ pc # "relinked" /\ pc' # "relinked"
<1>0. pc # "relinked" /\ pc' # "relinked" /\ EachOnce
  <2>1. pc # "relinked" /\ pc' # "relinked"
    BY DEF Kernel, GetQueued, ScanTask, ScanSpread, EndScan, Dispatch, NextLevel, ReturnYielded,
           Return, Gather, IdleReturn, Loop, sched
  <2>. QED BY <2>1 DEF ListInv, OneListEach
<1>1. CASE ScanTask
  BY <1>0, <1>1, ScanKeeps DEF ScanTask, Called
<1>2. CASE Return
  BY <1>0, <1>2, ReturnKeeps DEF Return, Called
<1>3. CASE Gather
  BY <1>0, <1>3, GatherKeeps DEF Gather, Called
<1>4. CASE GetQueued \/ ScanSpread \/ EndScan \/ Dispatch \/ NextLevel \/ ReturnYielded
           \/ IdleReturn \/ Loop
  <2>1. UNCHANGED lists
    BY <1>4 DEF GetQueued, ScanSpread, EndScan, Dispatch, NextLevel, ReturnYielded, IdleReturn, Loop
  <2>2. Called'
    BY <1>4 DEF GetQueued, ScanSpread, EndScan, Dispatch, NextLevel, ReturnYielded, IdleReturn,
               Loop, lists, sched, ListInv, Called
  <2>. QED BY <1>0, <2>1, <2>2, UnchangedKeeps DEF Kept
<1>. QED BY <1>0, <1>1, <1>2, <1>3, <1>4 DEF Kernel

LEMMA CallKeeps == ASSUME ListInv, Calls PROVE ListTypes' /\ OneListEach' /\ Held
<1>1. \/ UNCHANGED waiting
      \/ \E t \in app.tasks : t \notin Registered /\ pc # "relinked" /\ waiting' = Append(waiting, t)
      \/ \E t \in app.tasks : Relinks(t)
  <2>1. ASSUME NEW t \in app.tasks, TaskCalls(t)
        PROVE  \/ UNCHANGED waiting
               \/ t \notin Registered /\ pc # "relinked" /\ waiting' = Append(waiting, t)
               \/ Relinks(t)
    BY <2>1 DEF TaskCalls, NotifySimple, NotifyQueued, Tick, QueueEvent, ConsumeQueue, RemoveTask,
                YieldToTask, SetEnabled, SetAwake, EventFlagsModify, SetIterations, SetPriority,
                Add, Enter, InCallback, Relinks, SetTask, lists
  <2>2. ASSUME NEW mode \in {"simple", "queued"}, NEW d \in app.data, Spread(mode, d)
        PROVE  UNCHANGED waiting
    BY <2>2 DEF Spread, lists
  <2>3. CASE SchedulerRelease
    BY <2>3 DEF SchedulerRelease, lists
  <2>. QED BY <2>1, <2>2, <2>3 DEF Calls
<1>2. (Stays \/ \E t \in app.tasks : Relinks(t)) /\ app.tasks \subseteq Task
  BY CallTypes, AppFacts DEF ListInv, TaskTypes
<1>3. ASSUME NEW t \in app.tasks, Relinks(t)
      PROVE  ListTypes' /\ OneListEach' /\ Held
  <2>1. ListTypes' /\ ~EachOnce' /\ pc' = "relinked"
    BY <1>2, <1>3, RelinkKeeps DEF Relinks
  <2>. QED BY <2>1 DEF OneListEach, Held
<1>4. CASE Stays /\ UNCHANGED waiting
  <2>1. UNCHANGED lists /\ pc' = pc
    BY <1>4 DEF Stays, lists
  <2>. QED BY <2>1, UnchangedKeeps DEF ListInv, OneListEach, Held
<1>5. ASSUME Stays, NEW t \in app.tasks, t \notin Registered, pc # "relinked",
             waiting' = Append(waiting, t)
      PROVE  ListTypes' /\ OneListEach' /\ Held
  <2>1. Kept
    BY <1>2, <1>5, AddKeeps DEF Stays, ListInv, OneListEach
  <2>. QED BY <1>5, <2>1 DEF Kept, Held, Stays, OneListEach
<1>. QED BY <1>1, <1>2, <1>3, <1>4, <1>5

LEMMA ListNext == ASSUME ListInv, [Next]_vars PROVE ListInv' /\ Held
<1>1. CASE Kernel
  BY <1>1, KernelTypes, KernelKeeps DEF ListInv, Kept, OneListEach, Held
<1>2. CASE Calls
  <2>1. TaskTypes' /\ (Stays \/ \E t \in app.tasks : Relinks(t)) /\ ListTypes' /\ OneListEach' /\ Held
    BY <1>2, CallTypes, CallKeeps
  <2>2. Called'
    BY <2>1 DEF ListInv, Called, Stays, Relinks
  <2>. QED BY <2>1, <2>2 DEF ListInv
<1>3. CASE RunAgain \/ UNCHANGED vars
  <2>1. UNCHANGED <<lists, task, taskEntries, spread, level, app>> /\ Called'
    BY <1>3 DEF RunAgain, vars, notes, sched, hist, ListInv, Called, lists
  <2>2. TaskTypes'
    BY <2>1 DEF ListInv, TaskTypes
  <2>3. pc' = "relinked" <=> pc = "relinked"
    BY <1>3 DEF RunAgain, vars, sched
  <2>. QED BY <2>1, <2>2, <2>3, UnchangedKeeps DEF ListInv, OneListEach, Held
<1>. QED BY <1>1, <1>2, <1>3 DEF Next

LEMMA ListInvariant == Spec => []ListInv
BY ListInit, ListNext, PTL DEF Spec

(* Whatever the tasks and the interrupt handlers call, and in whatever     *)
(* order, no task is in two lists of the kernel, nor twice in one (each    *)
(* node has one pair of links, list.cpp, and a list would be cut) until    *)
(* add() is called for a task that a ready or suspended list holds, and    *)
(* from that call on one is (kernel.cpp 63).                               *)
THEOREM TasksInOneList == Spec => []OneListEach
<1>1. ListInv => OneListEach
  BY DEF ListInv
<1>. QED BY <1>1, ListInvariant, PTL

(* The kernel loses no task on the way from the waiting list to the ready  *)
(* or the suspended list, through the sort and back: only one whose        *)
(* removal was asked for leaves the lists, until that call cuts one.       *)
THEOREM NoTaskIsLost == Spec => NoneLost
<1>1. ListInv /\ [Next]_vars =>
        [pc' = "relinked" \/ \A t \in Registered : task[t].removeReq \/ t \in Registered']_vars
  BY ListNext DEF Held
<1>. QED BY <1>1, ListInvariant, PTL DEF Spec, NoneLost
=============================================================================
