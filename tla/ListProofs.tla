----------------------------- MODULE ListProofs -----------------------------
(* For every set of nodes, every set of lists and every numbering of the      *)
(* comparison: until a node is put into a list that another list still holds, *)
(* the links of the lists mirror each other and the calls act on lists as on  *)
(* sequences; a loop that takes nodes out visits them all.                    *)
(*                                                                            *)
(* The invariant says that a list consists of the nodes of a sequence without *)
(* repetitions (Chained): head, tail, next, prev, size and the containers are *)
(* read off that sequence.  Of each operation on the links a lemma says which *)
(* links it changes (InsertEffect, RemoveEffect, SwapEffect, JoinEffect), and *)
(* another one what sequence the changed links make.  What the chain operator *)
(* of List collects from them is that sequence (ChainIs).                     *)
EXTENDS List, TLAPS, FiniteSetTheorems, FunctionTheorems, SequenceTheorems,
        NaturalsInduction, WellFoundedInduction

-----------------------------------------------------------------------------
(* Sequences without repetitions, and the chains of links along them.         *)

(* Every non-empty set of numbers has a least one.                            *)
LEMMA LeastOf ==
  ASSUME NEW S \in SUBSET Nat, S # {}
  PROVE  \E k \in S : \A j \in S : k <= j
<1>1. PICK k \in S : \A j \in S : ~(<<j, k>> \in OpToRel(<, Nat))
  BY NatLessThanWellFounded, WFMin
<1>2. \A j \in S : ~(j < k)
  BY <1>1 DEF OpToRel
<1>. QED BY <1>2

(* s names each of its nodes once.                                            *)
Once(s) == s \in Seq(Node) /\ \A i, j \in 1 .. Len(s) : s[i] = s[j] => i = j

(* From first on, link leads through the nodes of s and no further.           *)
Follows(s, first, link) ==
  /\ Once(s)
  /\ first = IF Len(s) = 0 THEN Nothing ELSE s[1]
  /\ \A i \in 1 .. Len(s) : link[s[i]] = IF i < Len(s) THEN s[i + 1] ELSE Nothing

(* Facts of a sequence as a function.                                         *)
LEMMA AsFunction ==
  ASSUME NEW s \in Seq(Node)
  PROVE  /\ Len(s) \in Nat /\ DOMAIN s = 1 .. Len(s)
         /\ s \in [1 .. Len(s) -> Node]
         /\ \A i \in 1 .. Len(s) : s[i] \in Node /\ s[i] # Nothing
BY LenProperties, ListAssumption

(* A sequence without repetitions is no longer than there are nodes.          *)
LEMMA OnceLen ==
  ASSUME NEW s, Once(s)
  PROVE  /\ Len(s) \in Nat /\ Cardinality(Node) \in Nat
         /\ Len(s) <= Cardinality(Node)
<1>1. s \in [1 .. Len(s) -> Node] /\ Len(s) \in Nat
  BY LenProperties DEF Once
<1>2. s \in Injection(1 .. Len(s), Node)
  BY <1>1 DEF Once, Injection, IsInjective
<1>3. Cardinality(1 .. Len(s)) = Len(s)
  <2>1. 1 \in Int /\ Len(s) \in Int /\ Len(s) >= 0
    BY <1>1
  <2>2. Cardinality(1 .. Len(s)) = IF 1 > Len(s) THEN 0 ELSE Len(s) - 1 + 1
    BY <2>1, FS_Interval
  <2>. QED BY <2>1, <2>2
<1>. QED BY <1>1, <1>2, <1>3, FS_Injection, FS_CardinalityType, ListAssumption

(* The first k nodes of s.                                                    *)
FirstOf(s, k) == [i \in 1 .. (IF k < Len(s) THEN k ELSE Len(s)) |-> s[i]]

LEMMA FirstOfSeq ==
  ASSUME NEW s \in Seq(Node), NEW k \in Nat
  PROVE  /\ FirstOf(s, k) \in Seq(Node)
         /\ Len(FirstOf(s, k)) = IF k < Len(s) THEN k ELSE Len(s)
         /\ \A i \in 1 .. Len(FirstOf(s, k)) : FirstOf(s, k)[i] = s[i]
         /\ k >= Len(s) => FirstOf(s, k) = s
<1>. DEFINE n == IF k < Len(s) THEN k ELSE Len(s)
<1>1. Len(s) \in Nat /\ n \in Nat /\ n <= Len(s) /\ \A i \in 1 .. Len(s) : s[i] \in Node
  BY AsFunction
<1>2. FirstOf(s, k) = [i \in 1 .. n |-> s[i]]
  BY DEF FirstOf
<1>. HIDE DEF n
<1>3. [i \in 1 .. n |-> s[i]] \in [1 .. n -> Node]
  BY <1>1
<1>4. FirstOf(s, k) \in Seq(Node) /\ Len(FirstOf(s, k)) = n
  BY <1>1, <1>2, <1>3, IsASeq, LenProperties
<1>5. k >= Len(s) => FirstOf(s, k) = s
  <2>. SUFFICES ASSUME k >= Len(s) PROVE FirstOf(s, k) = s
    OBVIOUS
  <2>1. n = Len(s)
    BY <1>1 DEF n
  <2>. QED BY <1>1, <1>2, <1>4, <2>1, SeqEqual
<1>. QED BY <1>1, <1>2, <1>4, <1>5 DEF n

(* One element more, by the link of the last one.                             *)
OneMore(s, k, first, link) ==
  LET n == IF s = <<>> THEN first ELSE link[Last(s)]
  IN IF n = Nothing \/ Len(s) < k - 1 THEN s ELSE Append(s, n)

LEMMA FirstOfMore ==
  ASSUME NEW s, NEW first, NEW link, Follows(s, first, link), NEW k \in Nat, k > 0
  PROVE  OneMore(FirstOf(s, k - 1), k, first, link) = FirstOf(s, k)
<1>. DEFINE p == FirstOf(s, k - 1)
<1>1. s \in Seq(Node) /\ Len(s) \in Nat /\ k - 1 \in Nat
      /\ \A i \in 1 .. Len(s) : s[i] \in Node /\ s[i] # Nothing
  BY AsFunction DEF Follows, Once
<1>2. /\ p \in Seq(Node) /\ Len(p) = (IF k - 1 < Len(s) THEN k - 1 ELSE Len(s))
      /\ \A i \in 1 .. Len(p) : p[i] = s[i]
      /\ k - 1 >= Len(s) => p = s
  BY <1>1, FirstOfSeq
<1>3. /\ FirstOf(s, k) \in Seq(Node) /\ Len(FirstOf(s, k)) = (IF k < Len(s) THEN k ELSE Len(s))
      /\ \A i \in 1 .. Len(FirstOf(s, k)) : FirstOf(s, k)[i] = s[i]
      /\ k >= Len(s) => FirstOf(s, k) = s
  BY <1>1, FirstOfSeq
<1>. HIDE DEF p
<1>. DEFINE n == IF p = <<>> THEN first ELSE link[Last(p)]
<1>4. p = <<>> <=> Len(p) = 0
  BY <1>2, EmptySeq
<1>5. CASE k - 1 >= Len(s)
  <2>1. p = s /\ FirstOf(s, k) = s
    BY <1>1, <1>2, <1>3, <1>5
  <2>2. n = Nothing
    <3>1. CASE Len(s) = 0
      BY <1>4, <2>1, <3>1 DEF Follows
    <3>2. CASE Len(s) # 0
      <4>1. n = link[s[Len(s)]] /\ Len(s) \in 1 .. Len(s)
        BY <1>1, <1>4, <2>1, <3>2 DEF Last
      <4>. QED BY <4>1 DEF Follows
    <3>. QED BY <3>1, <3>2
  <2>. QED BY <2>1, <2>2 DEF OneMore, p
<1>6. CASE k - 1 < Len(s)
  <2>1. Len(p) = k - 1 /\ k \in 1 .. Len(s)
    BY <1>1, <1>2, <1>6
  <2>2. n = s[k]
    <3>1. CASE k = 1
      BY <1>4, <1>6, <2>1, <3>1 DEF Follows
    <3>2. CASE k # 1
      <4>1. n = link[s[k - 1]] /\ k - 1 \in 1 .. Len(s) /\ k - 1 < Len(s)
        BY <1>1, <1>2, <1>4, <2>1, <3>2 DEF Last
      <4>. QED BY <4>1 DEF Follows
    <3>. QED BY <3>1, <3>2
  <2>3. n # Nothing /\ n \in Node /\ ~(Len(p) < k - 1)
    BY <1>1, <2>1, <2>2
  <2>4. OneMore(p, k, first, link) = Append(p, n)
    BY <2>3 DEF OneMore
  <2>5. Append(p, n) = FirstOf(s, k)
    <3>1. Append(p, n) \in Seq(Node) /\ Len(Append(p, n)) = k
          /\ \A i \in 1 .. Len(p) : Append(p, n)[i] = p[i] /\ Append(p, n)[Len(p) + 1] = n
      BY <1>1, <1>2, <2>1, <2>3, AppendProperties
    <3>2. Len(FirstOf(s, k)) = k
      BY <1>1, <1>3, <2>1
    <3>3. \A i \in 1 .. k : Append(p, n)[i] = FirstOf(s, k)[i]
      BY <1>1, <1>2, <1>3, <2>1, <2>2, <3>1, <3>2
    <3>. QED BY <1>3, <3>1, <3>2, <3>3, SeqEqual
  <2>. QED BY <2>4, <2>5 DEF p
<1>. QED BY <1>1, <1>5, <1>6

(* What Chain collects: all of the nodes, in order.                           *)
LEMMA ChainIs ==
  ASSUME NEW s, NEW first, NEW link, Follows(s, first, link)
  PROVE  Chain(first, link) = s
<1>. DEFINE N == Cardinality(Node)
            Eq(f) == f = [k \in 0..N |->
                            IF k = 0 THEN <<>>
                            ELSE LET t == f[k - 1]
                                     n == IF t = <<>> THEN first ELSE link[Last(t)]
                                 IN IF n = Nothing \/ Len(t) < k - 1 THEN t ELSE Append(t, n)]
            u == CHOOSE f : Eq(f)
            g == [k \in 0..N |-> FirstOf(s, k)]
<1>1. Chain(first, link) = u[N]
  BY DEF Chain
<1>2. N \in Nat /\ Len(s) \in Nat /\ Len(s) <= N /\ s \in Seq(Node)
  BY OnceLen DEF Follows, Once
<1>3. FirstOf(s, 0) = <<>>
  <2>1. FirstOf(s, 0) \in Seq(Node) /\ Len(FirstOf(s, 0)) = 0
    BY <1>2, FirstOfSeq
  <2>. QED BY <2>1, EmptySeq
<1>4. \A f : Eq(f) <=> f = [k \in 0..N |-> IF k = 0 THEN <<>> ELSE OneMore(f[k - 1], k, first, link)]
  BY DEF OneMore
<1>5. Eq(g)
  <2>1. ASSUME NEW k \in 0..N
        PROVE  g[k] = IF k = 0 THEN <<>> ELSE OneMore(g[k - 1], k, first, link)
    <3>1. CASE k = 0
      BY <1>3, <3>1, <1>2
    <3>2. CASE k > 0
      <4>1. k \in Nat /\ k - 1 \in 0..N
        BY <3>2, <1>2
      <4>. QED BY <3>2, <4>1, FirstOfMore
    <3>. QED BY <3>1, <3>2
  <2>2. g = [k \in 0..N |-> IF k = 0 THEN <<>> ELSE OneMore(g[k - 1], k, first, link)]
    BY <2>1
  <2>. QED BY <1>4, <2>2
<1>6. Eq(u)
  <2>. HIDE DEF Eq
  <2>. QED BY <1>5
<1>7. u = [k \in 0..N |-> IF k = 0 THEN <<>> ELSE OneMore(u[k - 1], k, first, link)]
  BY <1>4, <1>6
<1>. HIDE DEF u, Eq
<1>. DEFINE Bad == {k \in 0..N : u[k] # FirstOf(s, k)}
<1>8. Bad = {}
  <2>. SUFFICES ASSUME Bad # {} PROVE FALSE
    OBVIOUS
  <2>1. PICK k \in Bad : \A j \in Bad : k <= j
    BY LeastOf, Bad \in SUBSET Nat
  <2>2. k # 0
    BY <1>2, <1>3, <1>7, <2>1
  <2>3. k - 1 \in 0..N /\ k \in Nat /\ k > 0 /\ k \in 0..N
    BY <1>2, <2>1, <2>2
  <2>4. u[k - 1] = FirstOf(s, k - 1)
    BY <2>1, <2>3
  <2>5. u[k] = OneMore(u[k - 1], k, first, link)
    BY <1>7, <2>2, <2>3
  <2>. QED BY <2>1, <2>3, <2>4, <2>5, FirstOfMore
<1>9. u[N] = FirstOf(s, N)
  BY <1>2, <1>8
<1>. QED BY <1>1, <1>2, <1>9, FirstOfSeq

-----------------------------------------------------------------------------
(* Lists, and a node put into one.                                            *)

Link == Node \cup {Nothing}
HeapT == [next : [Node -> Link], prev : [Node -> Link], container : [Node -> Lists \cup {Nothing}],
          head : [Lists -> Link], tail : [Lists -> Link], size : [Lists -> Nat]]

(* The list l of the heap h consists of the nodes of s, its tail left aside.  *)
Linked(h, l, s) ==
  /\ Follows(s, h.head[l], h.next)
  /\ \A i \in 1 .. Len(s) : h.prev[s[i]] = IF i > 1 THEN s[i - 1] ELSE Nothing
  /\ h.size[l] = Len(s)
  /\ \A n \in Node : h.container[n] = l <=> \E i \in 1 .. Len(s) : s[i] = n

Chained(h, l, s) ==
  Linked(h, l, s) /\ h.tail[l] = IF Len(s) = 0 THEN Nothing ELSE s[Len(s)]

(* From h to g nothing happens to lists other than those of L, nor to their   *)
(* nodes.                                                                     *)
Spares(h, g, L) ==
  /\ \A m \in Lists \ L : g.head[m] = h.head[m] /\ g.tail[m] = h.tail[m] /\ g.size[m] = h.size[m]
  /\ \A n \in Node, m \in Lists \ L : g.container[n] = m <=> h.container[n] = m
  /\ \A n \in Node : h.container[n] \in Lists \ L => g.next[n] = h.next[n] /\ g.prev[n] = h.prev[n]

LEMMA SparedStays ==
  ASSUME NEW h, NEW g, NEW L, Spares(h, g, L), NEW m \in Lists \ L, NEW s, Chained(h, m, s)
  PROVE  Chained(g, m, s)
<1>1. s \in Seq(Node) /\ \A i \in 1 .. Len(s) : s[i] \in Node
  BY AsFunction DEF Chained, Linked, Follows, Once
<1>2. \A i \in 1 .. Len(s) : h.container[s[i]] = m
  BY <1>1 DEF Chained, Linked
<1>3. \A i \in 1 .. Len(s) : g.next[s[i]] = h.next[s[i]] /\ g.prev[s[i]] = h.prev[s[i]]
  BY <1>1, <1>2 DEF Spares
<1>4. g.head[m] = h.head[m] /\ g.tail[m] = h.tail[m] /\ g.size[m] = h.size[m]
  BY DEF Spares
<1>5. \A n \in Node : g.container[n] = m <=> h.container[n] = m
  BY DEF Spares
<1>6. Follows(s, g.head[m], g.next)
  BY <1>3, <1>4 DEF Chained, Linked, Follows
<1>7. \A i \in 1 .. Len(s) : g.prev[s[i]] = IF i > 1 THEN s[i - 1] ELSE Nothing
  BY <1>3 DEF Chained, Linked
<1>8. \A n \in Node : g.container[n] = m <=> \E i \in 1 .. Len(s) : s[i] = n
  BY <1>5 DEF Chained, Linked
<1>. QED BY <1>4, <1>6, <1>7, <1>8 DEF Chained, Linked

-----------------------------------------------------------------------------
(* Insertion: behind the first k nodes of s.                                  *)
Spliced(s, k, n) == [i \in 1 .. Len(s) + 1 |->
                       IF i <= k THEN s[i] ELSE IF i = k + 1 THEN n ELSE s[i - 1]]

InsertEffect(h, g, l, n, s, k) ==
  /\ g \in HeapT
  /\ \A m \in Node : g.next[m] = IF m = n THEN (IF k < Len(s) THEN s[k + 1] ELSE Nothing)
                                 ELSE IF k > 0 /\ m = s[k] THEN n ELSE h.next[m]
  /\ \A m \in Node : g.prev[m] = IF m = n THEN (IF k > 0 THEN s[k] ELSE Nothing)
                                 ELSE IF k < Len(s) /\ m = s[k + 1] THEN n ELSE h.prev[m]
  /\ \A m \in Node : g.container[m] = IF m = n THEN l ELSE h.container[m]
  /\ \A m \in Lists : g.head[m] = IF m = l /\ k = 0 THEN n ELSE h.head[m]
  /\ \A m \in Lists : g.tail[m] = IF m = l /\ k = Len(s) THEN n ELSE h.tail[m]
  /\ \A m \in Lists : g.size[m] = IF m = l THEN h.size[m] + 1 ELSE h.size[m]

LEMMA SplicedSeq ==
  ASSUME NEW s, Once(s), NEW k \in 0 .. Len(s), NEW n \in Node,
         \A i \in 1 .. Len(s) : s[i] # n
  PROVE  /\ Once(Spliced(s, k, n)) /\ Len(Spliced(s, k, n)) = Len(s) + 1
         /\ \A i \in 1 .. Len(s) + 1 :
              Spliced(s, k, n)[i] = IF i <= k THEN s[i] ELSE IF i = k + 1 THEN n ELSE s[i - 1]
<1>. DEFINE t == Spliced(s, k, n)
<1>1. Len(s) \in Nat /\ k \in Nat /\ k <= Len(s) /\ \A i \in 1 .. Len(s) : s[i] \in Node
  BY AsFunction DEF Once
<1>2. /\ t = [i \in 1 .. Len(s) + 1 |-> IF i <= k THEN s[i] ELSE IF i = k + 1 THEN n ELSE s[i - 1]]
      /\ \A i \in 1 .. Len(s) + 1 : t[i] = IF i <= k THEN s[i] ELSE IF i = k + 1 THEN n ELSE s[i - 1]
  BY DEF Spliced
<1>3. \A i \in 1 .. Len(s) + 1 : t[i] \in Node
  BY <1>1, <1>2
<1>. HIDE DEF t
<1>4. t \in [1 .. Len(s) + 1 -> Node]
  BY <1>2, <1>3
<1>5. t \in Seq(Node) /\ Len(t) = Len(s) + 1
  BY <1>1, <1>4, IsASeq, LenProperties
<1>6. \A i, j \in 1 .. Len(s) : s[i] = s[j] => i = j
  BY DEF Once
<1>7. \A i, j \in 1 .. Len(t) : t[i] = t[j] => i = j
  <2>. SUFFICES ASSUME NEW i \in 1 .. Len(s) + 1, NEW j \in 1 .. Len(s) + 1, t[i] = t[j], i < j PROVE FALSE
    BY <1>1, <1>5
  <2>. QED BY <1>1, <1>2, <1>6
<1>. QED BY <1>2, <1>5, <1>7 DEF Once, t

(* Of the nodes outside l only n is touched.                                  *)
LeavesNodes(h, g, l, n) ==
  \A m \in Node : m # n /\ h.container[m] # l
    => g.next[m] = h.next[m] /\ g.prev[m] = h.prev[m] /\ g.container[m] = h.container[m]

LEMMA InsertChained ==
  ASSUME NEW h \in HeapT, NEW g, NEW l \in Lists, NEW n \in Node, NEW s, Chained(h, l, s),
         NEW k \in 0 .. Len(s), h.container[n] # l, InsertEffect(h, g, l, n, s, k)
  PROVE  /\ Chained(g, l, Spliced(s, k, n)) /\ Spares(h, g, {l, h.container[n]})
         /\ LeavesNodes(h, g, l, n)
<1>. DEFINE t == Spliced(s, k, n)
<1>1. Once(s) /\ Len(s) \in Nat /\ k \in Nat /\ k <= Len(s) /\ s \in Seq(Node)
      /\ \A i \in 1 .. Len(s) : s[i] \in Node /\ s[i] # Nothing
  BY AsFunction DEF Chained, Linked, Follows, Once
<1>2. \A i \in 1 .. Len(s) : s[i] # n
  BY DEF Chained, Linked
<1>3. /\ Once(t) /\ Len(t) = Len(s) + 1
      /\ \A i \in 1 .. Len(s) + 1 : t[i] = IF i <= k THEN s[i] ELSE IF i = k + 1 THEN n ELSE s[i - 1]
  BY <1>1, <1>2, SplicedSeq
<1>. HIDE DEF t
<1>4. /\ h.head[l] = (IF Len(s) = 0 THEN Nothing ELSE s[1])
      /\ \A i \in 1 .. Len(s) : h.next[s[i]] = IF i < Len(s) THEN s[i + 1] ELSE Nothing
      /\ \A i, j \in 1 .. Len(s) : s[i] = s[j] => i = j
  BY DEF Chained, Linked, Follows, Once
<1>5. Follows(t, g.head[l], g.next)
  <2>1. g.head[l] = t[1]
    BY <1>1, <1>3, <1>4 DEF InsertEffect
  <2>2. ASSUME NEW i \in 1 .. Len(t) PROVE g.next[t[i]] = IF i < Len(t) THEN t[i + 1] ELSE Nothing
    <3>1. \A m \in Node : g.next[m] = IF m = n THEN (IF k < Len(s) THEN s[k + 1] ELSE Nothing)
                                 ELSE IF k > 0 /\ m = s[k] THEN n ELSE h.next[m]
      BY DEF InsertEffect
    <3>2. CASE i < k
      BY <1>1, <1>2, <1>3, <1>4, <3>1, <3>2
    <3>3. CASE i = k
      BY <1>1, <1>2, <1>3, <1>4, <3>1, <3>3
    <3>4. CASE i = k + 1
      BY <1>1, <1>2, <1>3, <1>4, <3>1, <3>4
    <3>5. CASE i > k + 1
      <4>1. t[i] = s[i - 1] /\ i - 1 \in 1 .. Len(s) /\ s[i - 1] # n /\ (k > 0 => s[i - 1] # s[k])
        BY <1>1, <1>2, <1>3, <1>4, <3>5
      <4>. QED BY <1>1, <1>3, <1>4, <3>1, <3>5, <4>1, SMTT(30)
    <3>. QED BY <1>1, <1>3, <3>2, <3>3, <3>4, <3>5
  <2>. QED BY <1>1, <1>3, <2>1, <2>2 DEF Follows
<1>6. ASSUME NEW i \in 1 .. Len(t) PROVE g.prev[t[i]] = IF i > 1 THEN t[i - 1] ELSE Nothing
  <2>1. \A m \in Node : g.prev[m] = IF m = n THEN (IF k > 0 THEN s[k] ELSE Nothing)
                                 ELSE IF k < Len(s) /\ m = s[k + 1] THEN n ELSE h.prev[m]
    BY DEF InsertEffect
  <2>2. \A j \in 1 .. Len(s) : h.prev[s[j]] = IF j > 1 THEN s[j - 1] ELSE Nothing
    BY DEF Chained, Linked
  <2>3. CASE i <= k
    <3>1. t[i] = s[i] /\ i \in 1 .. Len(s) /\ s[i] # n /\ (k < Len(s) => s[i] # s[k + 1])
      BY <1>1, <1>2, <1>3, <1>4, <2>3
    <3>. QED BY <1>1, <1>3, <2>1, <2>2, <2>3, <3>1
  <2>4. CASE i = k + 1
    BY <1>1, <1>2, <1>3, <1>4, <2>1, <2>4
  <2>5. CASE i > k + 1
    <3>1. t[i] = s[i - 1] /\ i - 1 \in 1 .. Len(s) /\ s[i - 1] # n
          /\ (k < Len(s) /\ s[i - 1] = s[k + 1] <=> i - 1 = k + 1)
      BY <1>1, <1>2, <1>3, <1>4, <2>5
    <3>. QED BY <1>1, <1>3, <2>1, <2>2, <2>5, <3>1
  <2>. QED BY <1>1, <1>3, <2>3, <2>4, <2>5
<1>7. g.size[l] = Len(t)
  BY <1>1, <1>3 DEF InsertEffect, Chained, Linked
<1>8. ASSUME NEW m \in Node PROVE g.container[m] = l <=> \E i \in 1 .. Len(t) : t[i] = m
  <2>1. g.container[m] = IF m = n THEN l ELSE h.container[m]
    BY DEF InsertEffect
  <2>2. h.container[m] = l <=> \E i \in 1 .. Len(s) : s[i] = m
    BY DEF Chained, Linked
  <2>3. CASE m = n
    <3>1. k + 1 \in 1 .. Len(t) /\ t[k + 1] = n
      BY <1>1, <1>3
    <3>. QED BY <2>1, <2>3, <3>1
  <2>4. CASE m # n
    <3>1. ASSUME NEW i \in 1 .. Len(s), s[i] = m PROVE \E j \in 1 .. Len(t) : t[j] = m
      <4>1. i <= k => t[i] = m /\ i \in 1 .. Len(t)
        BY <1>1, <1>3, <3>1
      <4>2. ~(i <= k) => t[i + 1] = m /\ i + 1 \in 1 .. Len(t)
        BY <1>1, <1>3, <3>1
      <4>. QED BY <4>1, <4>2
    <3>2. ASSUME NEW j \in 1 .. Len(t), t[j] = m PROVE \E i \in 1 .. Len(s) : s[i] = m
      <4>1. j <= k => s[j] = m /\ j \in 1 .. Len(s)
        BY <1>1, <1>3, <3>2, <2>4
      <4>2. ~(j <= k) => s[j - 1] = m /\ j - 1 \in 1 .. Len(s)
        BY <1>1, <1>3, <3>2, <2>4
      <4>. QED BY <4>1, <4>2
    <3>. QED BY <2>1, <2>2, <2>4, <3>1, <3>2
  <2>. QED BY <2>3, <2>4
<1>9. g.tail[l] = t[Len(t)]
  BY <1>1, <1>3 DEF InsertEffect, Chained
<1>10. \A m \in Node : h.container[m] # l => (k > 0 => m # s[k]) /\ (k < Len(s) => m # s[k + 1])
  <2>1. \A i \in 1 .. Len(s) : h.container[s[i]] = l
    BY <1>1 DEF Chained, Linked
  <2>2. (k > 0 => k \in 1 .. Len(s)) /\ (k < Len(s) => k + 1 \in 1 .. Len(s))
    BY <1>1
  <2>. QED BY <2>1, <2>2
<1>11. \A m \in Node : m # n /\ h.container[m] # l
         => g.next[m] = h.next[m] /\ g.prev[m] = h.prev[m] /\ g.container[m] = h.container[m]
  BY <1>10 DEF InsertEffect
<1>12. Spares(h, g, {l, h.container[n]})
  <2>1. \A m \in Node : g.container[m] = IF m = n THEN l ELSE h.container[m]
    BY DEF InsertEffect
  <2>2. \A m \in Lists \ {l, h.container[n]} :
          g.head[m] = h.head[m] /\ g.tail[m] = h.tail[m] /\ g.size[m] = h.size[m]
    BY DEF InsertEffect
  <2>3. \A x \in Node : h.container[x] \in Lists \ {l, h.container[n]} => x # n /\ h.container[x] # l
    OBVIOUS
  <2>. QED BY <1>11, <2>1, <2>2, <2>3 DEF Spares
<1>13. Chained(g, l, t)
  BY <1>1, <1>3, <1>5, <1>6, <1>7, <1>8, <1>9 DEF Chained, Linked
<1>. QED BY <1>11, <1>12, <1>13 DEF LeavesNodes, t

-----------------------------------------------------------------------------
(* A node taken out.                                                          *)

(* Removal of the node at place k of s.                                       *)
Shortened(s, k) == [i \in 1 .. Len(s) - 1 |-> IF i < k THEN s[i] ELSE s[i + 1]]

RemoveEffect(h, g, l, s, k) ==
  /\ g \in HeapT
  /\ \A m \in Node : g.next[m] = IF k > 1 /\ m = s[k - 1]
                                 THEN (IF k < Len(s) THEN s[k + 1] ELSE Nothing) ELSE h.next[m]
  /\ \A m \in Node : g.prev[m] = IF k < Len(s) /\ m = s[k + 1]
                                 THEN (IF k > 1 THEN s[k - 1] ELSE Nothing) ELSE h.prev[m]
  /\ \A m \in Node : g.container[m] = IF m = s[k] THEN Nothing ELSE h.container[m]
  /\ \A m \in Lists : g.head[m] = IF m = l /\ k = 1 THEN (IF k < Len(s) THEN s[2] ELSE Nothing)
                                  ELSE h.head[m]
  /\ \A m \in Lists : g.tail[m] = IF m = l /\ k = Len(s) THEN (IF k > 1 THEN s[k - 1] ELSE Nothing)
                                  ELSE h.tail[m]
  /\ \A m \in Lists : g.size[m] = IF m = l THEN h.size[m] - 1 ELSE h.size[m]

LEMMA ShortenedSeq ==
  ASSUME NEW s, Once(s), NEW k \in 1 .. Len(s)
  PROVE  /\ Once(Shortened(s, k)) /\ Len(Shortened(s, k)) = Len(s) - 1
         /\ \A i \in 1 .. Len(s) - 1 : Shortened(s, k)[i] = IF i < k THEN s[i] ELSE s[i + 1]
<1>. DEFINE t == Shortened(s, k)
<1>1. Len(s) \in Nat /\ k \in Nat /\ k <= Len(s) /\ k >= 1 /\ Len(s) - 1 \in Nat
      /\ \A i \in 1 .. Len(s) : s[i] \in Node
  BY AsFunction DEF Once
<1>2. /\ t = [i \in 1 .. Len(s) - 1 |-> IF i < k THEN s[i] ELSE s[i + 1]]
      /\ \A i \in 1 .. Len(s) - 1 : t[i] = IF i < k THEN s[i] ELSE s[i + 1]
  BY DEF Shortened
<1>3. \A i \in 1 .. Len(s) - 1 : t[i] \in Node
  BY <1>1, <1>2
<1>. HIDE DEF t
<1>4. t \in [1 .. Len(s) - 1 -> Node]
  BY <1>2, <1>3
<1>5. t \in Seq(Node) /\ Len(t) = Len(s) - 1
  BY <1>1, <1>4, IsASeq, LenProperties
<1>6. \A i, j \in 1 .. Len(s) : s[i] = s[j] => i = j
  BY DEF Once
<1>7. \A i, j \in 1 .. Len(t) : t[i] = t[j] => i = j
  <2>. SUFFICES ASSUME NEW i \in 1 .. Len(s) - 1, NEW j \in 1 .. Len(s) - 1, t[i] = t[j], i < j PROVE FALSE
    BY <1>1, <1>5
  <2>. QED BY <1>1, <1>2, <1>6
<1>. QED BY <1>2, <1>5, <1>7 DEF Once, t

LEMMA RemoveChained ==
  ASSUME NEW h \in HeapT, NEW g, NEW l \in Lists, NEW s, Chained(h, l, s),
         NEW k \in 1 .. Len(s), RemoveEffect(h, g, l, s, k)
  PROVE  Chained(g, l, Shortened(s, k)) /\ Spares(h, g, {l})
<1>. DEFINE t == Shortened(s, k)
<1>1. Once(s) /\ Len(s) \in Nat /\ k \in Nat /\ k <= Len(s) /\ k >= 1 /\ s \in Seq(Node)
      /\ \A i \in 1 .. Len(s) : s[i] \in Node /\ s[i] # Nothing
  BY AsFunction DEF Chained, Linked, Follows, Once
<1>2. /\ Once(t) /\ Len(t) = Len(s) - 1
      /\ \A i \in 1 .. Len(s) - 1 : t[i] = IF i < k THEN s[i] ELSE s[i + 1]
  BY <1>1, ShortenedSeq
<1>. HIDE DEF t
<1>3. /\ h.head[l] = (IF Len(s) = 0 THEN Nothing ELSE s[1])
      /\ \A i \in 1 .. Len(s) : h.next[s[i]] = IF i < Len(s) THEN s[i + 1] ELSE Nothing
      /\ \A i, j \in 1 .. Len(s) : s[i] = s[j] => i = j
  BY DEF Chained, Linked, Follows, Once
<1>4. Follows(t, g.head[l], g.next)
  <2>1. g.head[l] = IF Len(t) = 0 THEN Nothing ELSE t[1]
    BY <1>1, <1>2, <1>3 DEF RemoveEffect
  <2>2. ASSUME NEW i \in 1 .. Len(t) PROVE g.next[t[i]] = IF i < Len(t) THEN t[i + 1] ELSE Nothing
    <3>1. \A m \in Node : g.next[m] = IF k > 1 /\ m = s[k - 1]
                                 THEN (IF k < Len(s) THEN s[k + 1] ELSE Nothing) ELSE h.next[m]
      BY DEF RemoveEffect
    <3>2. CASE i < k - 1
      <4>1. t[i] = s[i] /\ i \in 1 .. Len(s) /\ (k > 1 => s[i] # s[k - 1])
        BY <1>1, <1>2, <1>3, <3>2
      <4>2. i < Len(s) /\ i < Len(t) /\ t[i + 1] = s[i + 1]
        BY <1>1, <1>2, <3>2
      <4>3. g.next[s[i]] = h.next[s[i]] /\ h.next[s[i]] = s[i + 1]
        BY <1>1, <1>3, <3>1, <4>1, <4>2
      <4>. QED BY <4>1, <4>2, <4>3
    <3>3. CASE i = k - 1
      <4>1. t[i] = s[k - 1] /\ k - 1 \in 1 .. Len(s) /\ k > 1 /\ s[k - 1] \in Node
        BY <1>1, <1>2, <3>3
      <4>2. (i < Len(t) <=> k < Len(s)) /\ (k < Len(s) => t[i + 1] = s[k + 1])
        BY <1>1, <1>2, <3>3
      <4>3. g.next[s[k - 1]] = IF k < Len(s) THEN s[k + 1] ELSE Nothing
        BY <3>1, <4>1
      <4>. QED BY <4>1, <4>2, <4>3
    <3>4. CASE i >= k
      <4>1. t[i] = s[i + 1] /\ i + 1 \in 1 .. Len(s) /\ (k > 1 => s[i + 1] # s[k - 1])
        BY <1>1, <1>2, <1>3, <3>4
      <4>2. g.next[s[i + 1]] = h.next[s[i + 1]]
            /\ h.next[s[i + 1]] = IF i + 1 < Len(s) THEN s[(i + 1) + 1] ELSE Nothing
        BY <1>1, <1>3, <3>1, <4>1
      <4>3. (i + 1 < Len(s) <=> i < Len(t)) /\ (i < Len(t) => t[i + 1] = s[(i + 1) + 1])
        BY <1>1, <1>2, <3>4
      <4>. QED BY <4>1, <4>2, <4>3
    <3>. QED BY <1>1, <1>2, <3>2, <3>3, <3>4
  <2>. QED BY <1>1, <1>2, <2>1, <2>2 DEF Follows
<1>5. ASSUME NEW i \in 1 .. Len(t) PROVE g.prev[t[i]] = IF i > 1 THEN t[i - 1] ELSE Nothing
  <2>1. \A m \in Node : g.prev[m] = IF k < Len(s) /\ m = s[k + 1]
                                 THEN (IF k > 1 THEN s[k - 1] ELSE Nothing) ELSE h.prev[m]
    BY DEF RemoveEffect
  <2>2. \A j \in 1 .. Len(s) : h.prev[s[j]] = IF j > 1 THEN s[j - 1] ELSE Nothing
    BY DEF Chained, Linked
  <2>3. CASE i < k
    <3>1. t[i] = s[i] /\ i \in 1 .. Len(s) /\ (k < Len(s) => s[i] # s[k + 1])
      BY <1>1, <1>2, <1>3, <2>3
    <3>. QED BY <1>1, <1>2, <2>1, <2>2, <2>3, <3>1
  <2>4. CASE i = k
    BY <1>1, <1>2, <1>3, <2>1, <2>4
  <2>5. CASE i > k
    <3>1. t[i] = s[i + 1] /\ i + 1 \in 1 .. Len(s) /\ (k < Len(s) => s[i + 1] # s[k + 1])
      BY <1>1, <1>2, <1>3, <2>5
    <3>2. g.prev[s[i + 1]] = h.prev[s[i + 1]] /\ h.prev[s[i + 1]] = s[(i + 1) - 1]
      BY <1>1, <2>1, <2>2, <2>5, <3>1
    <3>3. i > 1 /\ t[i - 1] = s[(i + 1) - 1]
      BY <1>1, <1>2, <2>5
    <3>. QED BY <3>1, <3>2, <3>3
  <2>. QED BY <1>1, <1>2, <2>3, <2>4, <2>5
<1>6. g.size[l] = Len(t)
  BY <1>1, <1>2 DEF RemoveEffect, Chained, Linked
<1>7. ASSUME NEW m \in Node PROVE g.container[m] = l <=> \E i \in 1 .. Len(t) : t[i] = m
  <2>1. g.container[m] = IF m = s[k] THEN Nothing ELSE h.container[m]
    BY DEF RemoveEffect
  <2>2. h.container[m] = l <=> \E i \in 1 .. Len(s) : s[i] = m
    BY DEF Chained, Linked
  <2>3. ASSUME NEW i \in 1 .. Len(s), s[i] = m, m # s[k] PROVE \E j \in 1 .. Len(t) : t[j] = m
    <3>1. i < k => t[i] = m /\ i \in 1 .. Len(t)
      BY <1>1, <1>2, <2>3
    <3>2. ~(i < k) => t[i - 1] = m /\ i - 1 \in 1 .. Len(t)
      BY <1>1, <1>2, <2>3
    <3>. QED BY <3>1, <3>2
  <2>4. ASSUME NEW j \in 1 .. Len(t), t[j] = m PROVE m # s[k] /\ \E i \in 1 .. Len(s) : s[i] = m
    <3>1. j < k => s[j] = m /\ j \in 1 .. Len(s)
      BY <1>1, <1>2, <2>4
    <3>2. ~(j < k) => s[j + 1] = m /\ j + 1 \in 1 .. Len(s)
      BY <1>1, <1>2, <2>4
    <3>3. m # s[k]
      BY <1>1, <1>3, <3>1, <3>2
    <3>. QED BY <3>1, <3>2, <3>3
  <2>5. Nothing # l
    BY ListAssumption
  <2>. QED BY <2>1, <2>2, <2>3, <2>4, <2>5
<1>8. g.tail[l] = IF Len(t) = 0 THEN Nothing ELSE t[Len(t)]
  BY <1>1, <1>2 DEF RemoveEffect, Chained
<1>9. Spares(h, g, {l})
  <2>1. \A i \in 1 .. Len(s) : h.container[s[i]] = l
    BY <1>1 DEF Chained, Linked
  <2>2. \A m \in Node : h.container[m] \in Lists \ {l} =>
          m # s[k] /\ (k > 1 => m # s[k - 1]) /\ (k < Len(s) => m # s[k + 1])
    <3>1. (k > 1 => k - 1 \in 1 .. Len(s)) /\ (k < Len(s) => k + 1 \in 1 .. Len(s))
      BY <1>1
    <3>. QED BY <2>1, <3>1
  <2>3. h.container[s[k]] = l /\ Nothing \notin Lists
    BY <2>1, ListAssumption
  <2>. QED BY <2>2, <2>3 DEF Spares, RemoveEffect
<1>. QED BY <1>1, <1>2, <1>4, <1>5, <1>6, <1>7, <1>8, <1>9 DEF Chained, Linked, t

-----------------------------------------------------------------------------
(* What listInsert does.                                                      *)

(* The node an index stands for.                                              *)
LEMMA NodeAtIndex ==
  ASSUME NEW h, NEW l, NEW s, Chained(h, l, s), NEW p \in Int
  PROVE  getNodeAtIndex(h, l, p) = s[IF p < 0 THEN 1 ELSE IF p < Len(s) THEN p + 1 ELSE Len(s)]
<1>1. ForwardChain(h, l) = s
  BY ChainIs DEF ForwardChain, Chained, Linked
<1>. QED BY <1>1 DEF getNodeAtIndex

(* The place a call of insert means.                                          *)
PlaceOf(s, p) == IF Len(s) = 0 \/ p = AT_FRONT THEN 0 ELSE IF p = AT_BACK THEN Len(s) ELSE p + 1

LEMMA InsertDoes ==
  ASSUME NEW h \in HeapT, NEW l \in Lists, NEW n \in Node, NEW s, Chained(h, l, s),
         h.container[n] # l, NEW p \in Int, p >= AT_BACK,
         p \in {AT_FRONT, AT_BACK} \/ Len(s) = 0 \/ p + 1 \in 1 .. Len(s) - 1
  PROVE  /\ PlaceOf(s, p) \in 0 .. Len(s)
         /\ InsertEffect(h, listInsert(h, l, n, p), l, n, s, PlaceOf(s, p))
<1>. DEFINE k == PlaceOf(s, p)
            fresh == initNode(h, n)
            g == listInsert(h, l, n, p)
            i == getNodeAtIndex(fresh, l, p)
<1>1. Once(s) /\ Len(s) \in Nat /\ s \in Seq(Node)
      /\ \A j \in 1 .. Len(s) : s[j] \in Node /\ s[j] # Nothing /\ h.container[s[j]] = l
  BY AsFunction DEF Chained, Linked, Follows, Once
<1>2. \A j \in 1 .. Len(s) : s[j] # n
  BY <1>1
<1>3. /\ h.head[l] = (IF Len(s) = 0 THEN Nothing ELSE s[1])
      /\ h.tail[l] = (IF Len(s) = 0 THEN Nothing ELSE s[Len(s)])
      /\ \A j \in 1 .. Len(s) : h.next[s[j]] = IF j < Len(s) THEN s[j + 1] ELSE Nothing
  BY DEF Chained, Linked, Follows
<1>4. /\ fresh \in HeapT
      /\ fresh.next = [h.next EXCEPT ![n] = Nothing]
      /\ fresh.prev = [h.prev EXCEPT ![n] = Nothing]
      /\ fresh.container = [h.container EXCEPT ![n] = Nothing]
      /\ fresh.head = h.head /\ fresh.tail = h.tail /\ fresh.size = h.size
  BY DEF initNode, HeapT, Link
<1>5. Chained(fresh, l, s)
  <2>1. Spares(h, fresh, Lists \ {l})
    BY <1>4, ListAssumption DEF Spares
  <2>. QED BY <2>1, SparedStays
<1>0. Len(s) # 0 => 1 \in 1 .. Len(s) /\ Len(s) \in 1 .. Len(s)
  BY <1>1
<1>6. k \in 0 .. Len(s)
  BY <1>1 DEF PlaceOf, AT_FRONT, AT_BACK
<1>. DEFINE linked == CASE h.head[l] = Nothing -> [fresh EXCEPT !.head[l] = n, !.tail[l] = n]
                        [] h.head[l] # Nothing /\ p = AT_FRONT -> insertAtFront(fresh, l, n)
                        [] h.head[l] # Nothing /\ p = AT_BACK -> insertAtBack(fresh, l, n)
                        [] OTHER -> insertAfter(fresh, l, n, p)
<1>7. g = [linked EXCEPT !.size[l] = @ + 1, !.container[n] = l]
  BY ListAssumption DEF listInsert, isMember, AT_BACK
<1>. HIDE DEF fresh
<1>8. /\ linked \in HeapT
      /\ \A m \in Node : linked.next[m] = IF m = n THEN (IF k < Len(s) THEN s[k + 1] ELSE Nothing)
                                     ELSE IF k > 0 /\ m = s[k] THEN n ELSE h.next[m]
      /\ \A m \in Node : linked.prev[m] = IF m = n THEN (IF k > 0 THEN s[k] ELSE Nothing)
                                 ELSE IF k < Len(s) /\ m = s[k + 1] THEN n ELSE h.prev[m]
      /\ linked.container = fresh.container /\ linked.size = h.size
      /\ \A m \in Lists : linked.head[m] = IF m = l /\ k = 0 THEN n ELSE h.head[m]
      /\ \A m \in Lists : linked.tail[m] = IF m = l /\ k = Len(s) THEN n ELSE h.tail[m]
  <2>1. CASE Len(s) = 0
    <3>1. linked = [fresh EXCEPT !.head[l] = n, !.tail[l] = n] /\ k = 0
      BY <1>3, <2>1 DEF PlaceOf
    <3>. HIDE DEF linked, k
    <3>2. /\ linked \in HeapT /\ linked.next = fresh.next /\ linked.prev = fresh.prev
          /\ linked.container = fresh.container /\ linked.size = fresh.size
          /\ linked.head = [fresh.head EXCEPT ![l] = n] /\ linked.tail = [fresh.tail EXCEPT ![l] = n]
      BY <1>4, <3>1 DEF HeapT, Link
    <3>3. h.next \in [Node -> Link] /\ h.prev \in [Node -> Link] /\ h.head \in [Lists -> Link]
          /\ h.tail \in [Lists -> Link]
      BY DEF HeapT
    <3>. QED BY <1>4, <2>1, <3>1, <3>2, <3>3
  <2>2. CASE Len(s) # 0 /\ p = AT_FRONT
    <3>1. linked = insertAtFront(fresh, l, n) /\ k = 0 /\ h.head[l] = s[1] /\ s[1] \in Node /\ s[1] # n
      <4>1. h.head[l] = s[1] /\ s[1] \in Node /\ s[1] # n /\ s[1] # Nothing
        BY <1>1, <1>2, <1>3, <1>0, <2>2
      <4>2. linked = insertAtFront(fresh, l, n)
        BY <2>2, <4>1 DEF AT_FRONT, AT_BACK
      <4>. QED BY <2>2, <4>1, <4>2 DEF PlaceOf
    <3>. HIDE DEF linked, k
    <3>2. /\ linked \in HeapT /\ linked.next = [fresh.next EXCEPT ![n] = s[1]]
          /\ linked.prev = [fresh.prev EXCEPT ![s[1]] = n]
          /\ linked.container = fresh.container /\ linked.size = fresh.size
          /\ linked.head = [fresh.head EXCEPT ![l] = n] /\ linked.tail = fresh.tail
      BY <1>4, <3>1 DEF HeapT, Link, insertAtFront
    <3>3. h.next \in [Node -> Link] /\ h.prev \in [Node -> Link] /\ h.head \in [Lists -> Link]
      BY DEF HeapT
    <3>. QED BY <1>1, <1>4, <2>2, <3>1, <3>2, <3>3
  <2>3. CASE Len(s) # 0 /\ p = AT_BACK
    <3>1. linked = insertAtBack(fresh, l, n) /\ k = Len(s) /\ h.tail[l] = s[k] /\ s[k] \in Node /\ s[k] # n
      BY <1>1, <1>2, <1>3, <2>3, <1>0 DEF PlaceOf, AT_FRONT, AT_BACK
    <3>. HIDE DEF linked, k
    <3>2. /\ linked \in HeapT /\ linked.next = [fresh.next EXCEPT ![s[k]] = n]
          /\ linked.prev = [fresh.prev EXCEPT ![n] = s[k]]
          /\ linked.container = fresh.container /\ linked.size = fresh.size
          /\ linked.head = fresh.head /\ linked.tail = [fresh.tail EXCEPT ![l] = n]
      BY <1>4, <3>1 DEF HeapT, Link, insertAtBack
    <3>3. h.next \in [Node -> Link] /\ h.prev \in [Node -> Link] /\ h.tail \in [Lists -> Link]
      BY DEF HeapT
    <3>. QED BY <1>1, <1>4, <2>3, <3>1, <3>2, <3>3
  <2>4. CASE Len(s) # 0 /\ p \notin {AT_FRONT, AT_BACK}
    <3>0. p + 1 \in 1 .. Len(s) - 1 /\ p >= 0
      BY <2>4, <1>1
    <3>1. k = p + 1 /\ i = s[k] /\ k \in 1 .. Len(s) /\ k + 1 \in 1 .. Len(s)
      BY <1>1, <1>5, <2>4, <3>0, NodeAtIndex DEF PlaceOf
    <3>2. linked = insertAfter(fresh, l, n, p)
      BY <1>1, <1>3, <2>4, <1>0
    <3>3. i \in Node /\ s[k + 1] \in Node /\ i # n /\ s[k + 1] # n /\ i # s[k + 1] /\ fresh.next[i] = s[k + 1]
      <4>1. h.next[s[k]] = s[k + 1] /\ s[k] # n /\ s[k + 1] # n /\ s[k] \in Node /\ s[k + 1] \in Node
        BY <1>1, <1>2, <1>3, <3>0, <3>1
      <4>2. s[k] # s[k + 1]
        BY <1>1, <3>1 DEF Once
      <4>3. h.next \in [Node -> Link]
        BY DEF HeapT
      <4>. QED BY <1>4, <3>1, <4>1, <4>2, <4>3
    <3>. DEFINE a == s[k]
                b == s[k + 1]
    <3>4. linked = [fresh EXCEPT !.next[n] = b, !.prev[n] = a, !.prev[b] = n, !.next[a] = n]
      BY <3>1, <3>2, <3>3 DEF insertAfter
    <3>5. i = a /\ a \in Node /\ b \in Node /\ a # n /\ b # n /\ a # b
      BY <3>1, <3>3
    <3>. HIDE DEF a, b, linked, i, k
    <3>6. /\ linked \in HeapT /\ linked.next = [fresh.next EXCEPT ![n] = b, ![a] = n]
          /\ linked.prev = [fresh.prev EXCEPT ![n] = a, ![b] = n]
          /\ linked.container = fresh.container /\ linked.size = fresh.size
          /\ linked.head = fresh.head /\ linked.tail = fresh.tail
      BY <1>4, <3>4, <3>5 DEF HeapT, Link
    <3>7. h.next \in [Node -> Link] /\ h.prev \in [Node -> Link] /\ k \in Int /\ 0 < k /\ k < Len(s)
      BY <1>1, <3>0, <3>1 DEF HeapT
    <3>. QED BY <1>4, <3>5, <3>6, <3>7, <1>1 DEF a, b
  <2>. QED BY <2>1, <2>2, <2>3, <2>4
<1>. HIDE DEF linked, k
<1>9. /\ g \in HeapT /\ g.next = linked.next /\ g.prev = linked.prev /\ g.head = linked.head
      /\ g.tail = linked.tail /\ g.container = [linked.container EXCEPT ![n] = l]
      /\ g.size = [linked.size EXCEPT ![l] = @ + 1]
  <2>1. linked.size[l] + 1 \in Nat
    BY <1>8 DEF HeapT
  <2>. HIDE DEF g
  <2>. QED BY <1>7, <1>8, <2>1 DEF HeapT
<1>. HIDE DEF g
<1>10. h.container \in [Node -> Lists \cup {Nothing}] /\ h.size \in [Lists -> Nat]
  BY DEF HeapT
<1>11. InsertEffect(h, g, l, n, s, k)
  BY <1>4, <1>8, <1>9, <1>10 DEF InsertEffect
<1>. QED BY <1>6, <1>11 DEF g, k

-----------------------------------------------------------------------------
(* What remove and removeAt do.                                               *)

(* The links around the node at place k of s are closed.                      *)
Unlinked(h, g, l, s, k) ==
  /\ g \in HeapT
  /\ \A m \in Node : g.next[m] = IF k > 1 /\ m = s[k - 1]
                                 THEN (IF k < Len(s) THEN s[k + 1] ELSE Nothing) ELSE h.next[m]
  /\ \A m \in Node : g.prev[m] = IF k < Len(s) /\ m = s[k + 1]
                                 THEN (IF k > 1 THEN s[k - 1] ELSE Nothing) ELSE h.prev[m]
  /\ g.container = h.container /\ g.size = h.size
  /\ \A m \in Lists : g.head[m] = IF m = l /\ k = 1 THEN (IF k < Len(s) THEN s[2] ELSE Nothing)
                                  ELSE h.head[m]
  /\ \A m \in Lists : g.tail[m] = IF m = l /\ k = Len(s) THEN (IF k > 1 THEN s[k - 1] ELSE Nothing)
                                  ELSE h.tail[m]

(* What a list of s says of its nodes.                                        *)
LEMMA ChainedFacts ==
  ASSUME NEW h, NEW l \in Lists, NEW s \in Seq(Node), Chained(h, l, s)
  PROVE  /\ Once(s) /\ Len(s) \in Nat /\ s \in Seq(Node) /\ Nothing # l
         /\ \A j \in 1 .. Len(s) : s[j] \in Node /\ s[j] # Nothing /\ h.container[s[j]] = l
         /\ \A i, j \in 1 .. Len(s) : s[i] = s[j] => i = j
         /\ h.head[l] = (IF Len(s) = 0 THEN Nothing ELSE s[1])
         /\ h.tail[l] = (IF Len(s) = 0 THEN Nothing ELSE s[Len(s)])
         /\ h.size[l] = Len(s)
         /\ \A j \in 1 .. Len(s) : h.next[s[j]] = IF j < Len(s) THEN s[j + 1] ELSE Nothing
         /\ \A j \in 1 .. Len(s) : h.prev[s[j]] = IF j > 1 THEN s[j - 1] ELSE Nothing
         /\ \A n \in Node : h.container[n] = l <=> \E i \in 1 .. Len(s) : s[i] = n
<1>1. Once(s) /\ Len(s) \in Nat /\ s \in Seq(Node)
      /\ \A j \in 1 .. Len(s) : s[j] \in Node /\ s[j] # Nothing
  BY AsFunction DEF Chained, Linked, Follows, Once
<1>2. \A j \in 1 .. Len(s) : h.container[s[j]] = l
  BY <1>1 DEF Chained, Linked
<1>. QED BY <1>1, <1>2, ListAssumption DEF Chained, Linked, Follows, Once

LEMMA ChainedNodes ==
  ASSUME NEW h, NEW l \in Lists, NEW s \in Seq(Node), Chained(h, l, s), NEW k \in 1 .. Len(s)
  PROVE  s[k] \in Node /\ s[k] # Nothing /\ h.container[s[k]] = l
<1>1. s \in Seq(Node) /\ \A i, j \in 1 .. Len(s) : s[i] = s[j] => i = j
  BY DEF Chained, Linked, Follows, Once
<1>2. \A n \in Node : h.container[n] = l <=> \E i \in 1 .. Len(s) : s[i] = n
  BY DEF Chained, Linked
<1>3. s[k] \in Node /\ s[k] # Nothing
  BY <1>1, AsFunction
<1>. QED BY <1>1, <1>2, <1>3

LEMMA FrontUnlinked ==
  ASSUME NEW h \in HeapT, NEW l \in Lists, NEW s \in Seq(Node), Chained(h, l, s), Len(s) > 0
  PROVE  Unlinked(h, removeFront(h, l), l, s, 1)
<1>0. Len(s) = 1 \/ Len(s) > 1
  <2>1. PICK c \in Nat : c = Len(s)
    BY ChainedFacts
  <2>2. c = 1 \/ c > 1
    BY <2>1
  <2>. QED BY <2>1, <2>2
<1>. DEFINE g == removeFront(h, l)
<1>1. /\ Len(s) \in Nat /\ 1 \in 1 .. Len(s) /\ s[1] \in Node /\ h.head[l] = s[1]
      /\ h.next[s[1]] = (IF 1 < Len(s) THEN s[2] ELSE Nothing)
      /\ h.tail[l] = s[Len(s)]
  BY ChainedFacts
<1>2. h.next \in [Node -> Link] /\ h.prev \in [Node -> Link] /\ h.head \in [Lists -> Link]
      /\ h.tail \in [Lists -> Link]
  BY DEF HeapT
<1>3. CASE Len(s) = 1
  <2>1. g = [h EXCEPT !.head[l] = Nothing, !.tail[l] = Nothing]
    BY <1>1, <1>3 DEF removeFront
  <2>. HIDE DEF g
  <2>2. /\ g \in HeapT /\ g.next = h.next /\ g.prev = h.prev /\ g.container = h.container /\ g.size = h.size
        /\ g.head = [h.head EXCEPT ![l] = Nothing] /\ g.tail = [h.tail EXCEPT ![l] = Nothing]
    BY <2>1 DEF HeapT, Link
  <2>3. Unlinked(h, g, l, s, 1)
    BY <1>2, <1>3, <2>2 DEF Unlinked
  <2>. QED BY <2>3 DEF g
<1>4. CASE Len(s) > 1
  <2>1. s[2] \in Node /\ s[2] # Nothing
    BY <1>1, <1>4, ChainedFacts
  <2>2. g = [h EXCEPT !.head[l] = s[2], !.prev[s[2]] = Nothing]
    BY <1>1, <1>4, <2>1 DEF removeFront
  <2>. HIDE DEF g
  <2>3. /\ g \in HeapT /\ g.next = h.next /\ g.container = h.container /\ g.size = h.size
        /\ g.prev = [h.prev EXCEPT ![s[2]] = Nothing]
        /\ g.head = [h.head EXCEPT ![l] = s[2]] /\ g.tail = h.tail
    BY <2>1, <2>2 DEF HeapT, Link
  <2>4. Unlinked(h, g, l, s, 1)
    BY <1>1, <1>2, <1>4, <2>1, <2>3 DEF Unlinked
  <2>. QED BY <2>4 DEF g
<1>. QED BY <1>0, <1>3, <1>4

LEMMA BackUnlinked ==
  ASSUME NEW h \in HeapT, NEW l \in Lists, NEW s \in Seq(Node), Chained(h, l, s), Len(s) > 0
  PROVE  Unlinked(h, removeBack(h, l), l, s, Len(s))
<1>0. Len(s) = 1 \/ Len(s) > 1
  <2>1. PICK c \in Nat : c = Len(s)
    BY ChainedFacts
  <2>2. c = 1 \/ c > 1
    BY <2>1
  <2>. QED BY <2>1, <2>2
<1>. DEFINE g == removeBack(h, l)
            c == Len(s)
<1>1. /\ c \in Nat /\ c \in 1 .. Len(s) /\ s[c] \in Node /\ h.head[l] = s[1]
      /\ h.prev[s[c]] = (IF c > 1 THEN s[c - 1] ELSE Nothing)
      /\ h.tail[l] = s[c]
  <2>1. c \in Nat /\ c \in 1 .. Len(s)
    BY ChainedFacts
  <2>. QED BY <2>1, ChainedFacts
<1>2. h.next \in [Node -> Link] /\ h.prev \in [Node -> Link] /\ h.head \in [Lists -> Link]
      /\ h.tail \in [Lists -> Link]
  BY DEF HeapT
<1>3. CASE c = 1
  <2>1. g = [h EXCEPT !.head[l] = Nothing, !.tail[l] = Nothing]
    BY <1>1, <1>3 DEF removeBack
  <2>. HIDE DEF g
  <2>2. /\ g \in HeapT /\ g.next = h.next /\ g.prev = h.prev /\ g.container = h.container /\ g.size = h.size
        /\ g.head = [h.head EXCEPT ![l] = Nothing] /\ g.tail = [h.tail EXCEPT ![l] = Nothing]
    BY <2>1 DEF HeapT, Link
  <2>3. Unlinked(h, g, l, s, c)
    BY <1>2, <1>3, <2>2 DEF Unlinked
  <2>. QED BY <2>3 DEF g
<1>4. CASE c > 1
  <2>. DEFINE b == s[c - 1]
  <2>1. b \in Node /\ b # Nothing
    BY <1>1, <1>4, ChainedFacts
  <2>2. g = [h EXCEPT !.tail[l] = b, !.next[b] = Nothing]
    BY <1>1, <1>4, <2>1 DEF removeBack
  <2>. HIDE DEF g
  <2>3. /\ g \in HeapT /\ g.prev = h.prev /\ g.container = h.container /\ g.size = h.size
        /\ g.next = [h.next EXCEPT ![b] = Nothing]
        /\ g.tail = [h.tail EXCEPT ![l] = b] /\ g.head = h.head
    BY <2>1, <2>2 DEF HeapT, Link
  <2>4. Unlinked(h, g, l, s, c)
    BY <1>1, <1>2, <1>4, <2>1, <2>3 DEF Unlinked
  <2>. QED BY <2>4 DEF g
<1>. QED BY <1>0, <1>3, <1>4

LEMMA InnerUnlinked ==
  ASSUME NEW h \in HeapT, NEW l \in Lists, NEW s \in Seq(Node), Chained(h, l, s), NEW k \in 1 .. Len(s),
         k > 1, k < Len(s)
  PROVE  LET before == s[k - 1]
             after == s[k + 1]
         IN /\ before \in Node /\ after \in Node
            /\ h.prev[s[k]] = before /\ h.next[s[k]] = after
            /\ Unlinked(h, [h EXCEPT !.next[before] = after, !.prev[after] = before], l, s, k)
<1>. DEFINE a == s[k - 1]
            b == s[k + 1]
            g == [h EXCEPT !.next[a] = b, !.prev[b] = a]
<1>1. k \in Nat /\ Len(s) \in Nat
  BY ChainedFacts
<1>2. k - 1 \in 1 .. Len(s) /\ k + 1 \in 1 .. Len(s)
  BY <1>1
<1>3. /\ a \in Node /\ b \in Node /\ h.prev[s[k]] = a /\ h.next[s[k]] = b
  BY <1>1, <1>2, ChainedFacts
<1>4. h.next \in [Node -> Link] /\ h.prev \in [Node -> Link]
  BY DEF HeapT
<1>5. Unlinked(h, g, l, s, k)
  <2>. HIDE DEF a, b
  <2>1. /\ g \in HeapT /\ g.container = h.container /\ g.size = h.size
        /\ g.next = [h.next EXCEPT ![a] = b] /\ g.prev = [h.prev EXCEPT ![b] = a]
        /\ g.tail = h.tail /\ g.head = h.head
    BY <1>3 DEF HeapT, Link
  <2>. HIDE DEF g
  <2>. QED BY <1>1, <1>4, <2>1 DEF Unlinked, a, b
<1>. QED BY <1>3, <1>5

LEMMA UnlinkedRemoves ==
  ASSUME NEW h \in HeapT, NEW l \in Lists, NEW s \in Seq(Node), Chained(h, l, s), NEW k \in 1 .. Len(s),
         NEW u, Unlinked(h, u, l, s, k)
  PROVE  RemoveEffect(h, [u EXCEPT !.size[l] = @ - 1, !.container[s[k]] = Nothing], l, s, k)
<1>. DEFINE n == s[k]
            g == [u EXCEPT !.size[l] = @ - 1, !.container[n] = Nothing]
<1>1. n \in Node /\ h.size[l] = Len(s) /\ Len(s) \in Nat /\ Len(s) >= 1
  BY ChainedFacts
<1>2. u \in HeapT /\ u.size = h.size /\ u.container = h.container
  BY DEF Unlinked
<1>3. u.size[l] - 1 \in Nat
  BY <1>1, <1>2
<1>. HIDE DEF n
<1>4. /\ g \in HeapT /\ g.next = u.next /\ g.prev = u.prev /\ g.head = u.head /\ g.tail = u.tail
      /\ g.container = [u.container EXCEPT ![n] = Nothing] /\ g.size = [u.size EXCEPT ![l] = @ - 1]
  BY <1>1, <1>2, <1>3 DEF HeapT
<1>5. u.container \in [Node -> Lists \cup {Nothing}] /\ u.size \in [Lists -> Nat]
  BY <1>2 DEF HeapT
<1>. HIDE DEF g
<1>6. RemoveEffect(h, g, l, s, k)
  BY <1>2, <1>4, <1>5 DEF Unlinked, RemoveEffect, n
<1>. QED BY <1>6 DEF g, n

(* What removing a node does.                                                 *)
LEMMA RemoveDoes ==
  ASSUME NEW h \in HeapT, NEW l \in Lists, NEW s \in Seq(Node), Chained(h, l, s), NEW k \in 1 .. Len(s)
  PROVE  RemoveEffect(h, remove(h, l, s[k]), l, s, k)
<1>0. s[k] \in Node /\ s[k] # Nothing /\ h.container[s[k]] = l
  <2>1. s[k] \in Node
    BY ChainedNodes
  <2>2. s[k] # Nothing
    BY <2>1, ListAssumption
  <2>3. h.container[s[k]] = l
    BY <2>1 DEF Chained, Linked
  <2>. QED BY <2>1, <2>2, <2>3
<1>4. \A i, j \in 1 .. Len(s) : s[i] = s[j] => i = j
  BY DEF Chained, Linked, Follows, Once
<1>. DEFINE n == s[k]
            unlinked == CASE n = h.head[l] -> removeFront(h, l)
                         [] n # h.head[l] /\ n = h.tail[l] -> removeBack(h, l)
                         [] OTHER -> unlinkInner(h, n)
<1>1. remove(h, l, n) = [unlinked EXCEPT !.size[l] = @ - 1, !.container[n] = Nothing]
  <2>1. n \in Node /\ n # Nothing /\ h.container[n] = l
    BY <1>0
  <2>2. isMember(h, l, n)
    BY <2>1 DEF isMember
  <2>. QED BY <2>2 DEF remove
<1>2. Len(s) \in Nat /\ k \in Nat /\ Len(s) > 0 /\ Len(s) \in 1 .. Len(s) /\ 1 \in 1 .. Len(s)
  BY ChainedFacts
<1>3. h.head[l] = s[1] /\ h.tail[l] = s[Len(s)]
  BY <1>2, ChainedFacts
<1>5. Unlinked(h, unlinked, l, s, k)
  <2>1. CASE k = 1
    BY <1>2, <1>3, <2>1, FrontUnlinked
  <2>2. CASE k # 1 /\ k = Len(s)
    <3>1. unlinked = removeBack(h, l)
      BY <1>2, <1>3, <1>4, <2>2
    <3>. QED BY <1>2, <2>2, <3>1, BackUnlinked
  <2>3. CASE k # 1 /\ k # Len(s)
    <3>1. unlinked = unlinkInner(h, n)
      BY <1>2, <1>3, <1>4, <2>3
    <3>. DEFINE a == s[k - 1]
                b == s[k + 1]
    <3>2. k > 1 /\ k < Len(s)
      BY <1>2, <2>3
    <3>3. h.prev[n] = a /\ h.next[n] = b /\ b \in Node
          /\ Unlinked(h, [h EXCEPT !.next[a] = b, !.prev[b] = a], l, s, k)
      BY <3>2, InnerUnlinked
    <3>4. unlinkInner(h, n) = [h EXCEPT !.next[a] = b, !.prev[b] = a]
      <4>. HIDE DEF a, b, n
      <4>. QED BY <3>3, ListAssumption DEF unlinkInner
    <3>. QED BY <3>1, <3>3, <3>4
  <2>. QED BY <2>1, <2>2, <2>3
<1>6. RemoveEffect(h, [unlinked EXCEPT !.size[l] = @ - 1, !.container[s[k]] = Nothing], l, s, k)
  <2>. HIDE DEF unlinked
  <2>. QED BY <1>5, UnlinkedRemoves
<1>. QED BY <1>1, <1>6

(* The place a removal by position means.                                     *)
PlaceToCut(s, p) == IF p = AT_FRONT THEN 1 ELSE IF p = AT_BACK THEN Len(s) ELSE p + 1

LEMMA RemoveAtDoes ==
  ASSUME NEW h \in HeapT, NEW l \in Lists, NEW s \in Seq(Node), Chained(h, l, s), Len(s) > 0,
         NEW p \in Int, p \in {AT_FRONT, AT_BACK} \/ p \in 1 .. Len(s) - 2
  PROVE  /\ PlaceToCut(s, p) \in 1 .. Len(s)
         /\ RemoveEffect(h, removeAt(h, l, p), l, s, PlaceToCut(s, p))
<1>. DEFINE k == PlaceToCut(s, p)
            n == victimAt(h, l, p)
            i == getNodeAtIndex(h, l, p - 1)
            after == h.next[n]
            skipped == [h EXCEPT !.next[i] = after]
            unlinked == CASE p = AT_FRONT -> removeFront(h, l)
                         [] p = AT_BACK -> removeBack(h, l)
                         [] p >= 0 /\ after = Nothing -> skipped
                         [] OTHER -> [skipped EXCEPT !.prev[after] = i]
<1>1. Len(s) \in Nat /\ Len(s) \in 1 .. Len(s) /\ 1 \in 1 .. Len(s)
  BY ChainedFacts
<1>2. k \in 1 .. Len(s)
  BY <1>1 DEF PlaceToCut
<1>3. h.head[l] = s[1] /\ h.tail[l] = s[Len(s)] /\ s[1] # Nothing
  BY <1>1, ChainedFacts
<1>4. removeAt(h, l, p) = [unlinked EXCEPT !.size[l] = @ - 1, !.container[n] = Nothing]
  <2>1. ~(p < AT_BACK)
    BY DEF AT_FRONT, AT_BACK
  <2>. QED BY <1>3, <2>1 DEF removeAt
<1>5. n = s[k] /\ Unlinked(h, unlinked, l, s, k)
  <2>1. CASE p = AT_FRONT
    <3>1. n = s[k] /\ unlinked = removeFront(h, l) /\ k = 1
      BY <1>3, <2>1 DEF AT_FRONT, AT_BACK, victimAt, PlaceToCut
    <3>. QED BY <3>1, FrontUnlinked
  <2>2. CASE p = AT_BACK
    <3>1. n = s[k] /\ unlinked = removeBack(h, l) /\ k = Len(s)
      BY <1>3, <2>2 DEF AT_FRONT, AT_BACK, victimAt, PlaceToCut
    <3>. QED BY <3>1, BackUnlinked
  <2>3. CASE p \notin {AT_FRONT, AT_BACK}
    <3>1. p \in 1 .. Len(s) - 2
      BY <2>3
    <3>2. k = p + 1 /\ k > 1 /\ k < Len(s)
      BY <1>1, <2>3, <3>1 DEF PlaceToCut
    <3>. DEFINE a == s[k - 1]
                b == s[k + 1]
    <3>3. i = a
      <4>1. i = s[IF p - 1 < 0 THEN 1 ELSE IF p - 1 < Len(s) THEN p - 1 + 1 ELSE Len(s)]
        BY <3>1, NodeAtIndex
      <4>. QED BY <1>1, <3>1, <3>2, <4>1
    <3>4. /\ h.prev[s[k]] = a /\ h.next[s[k]] = b /\ a \in Node /\ b \in Node /\ b # Nothing
          /\ Unlinked(h, [h EXCEPT !.next[a] = b, !.prev[b] = a], l, s, k)
      <4>0. 1 < k /\ k < Len(s) /\ k \in 1 .. Len(s)
        BY <1>2, <3>2
      <4>. HIDE DEF n, i, after, skipped, unlinked, k
      <4>1. /\ h.prev[s[k]] = a /\ h.next[s[k]] = b /\ a \in Node /\ b \in Node
            /\ Unlinked(h, [h EXCEPT !.next[a] = b, !.prev[b] = a], l, s, k)
        BY <4>0, InnerUnlinked
      <4>. QED BY <4>1, ListAssumption
    <3>5. h.next[a] = s[k]
      <4>1. k - 1 \in 1 .. Len(s) /\ k - 1 < Len(s) /\ k - 1 + 1 = k
        BY <1>1, <3>1, <3>2
      <4>2. \A j \in 1 .. Len(s) : h.next[s[j]] = IF j < Len(s) THEN s[j + 1] ELSE Nothing
        BY ChainedFacts
      <4>3. h.next[s[k - 1]] = s[k - 1 + 1]
        BY <4>1, <4>2
      <4>. QED BY <4>1, <4>3
    <3>6. n = s[k]
      BY <2>3, <3>3, <3>5 DEF victimAt
    <3>7. after = b
      BY <3>4, <3>6
    <3>. HIDE DEF n, i, after, a, b
    <3>8. unlinked = [[h EXCEPT !.next[a] = b] EXCEPT !.prev[b] = a]
      BY <2>3, <3>3, <3>4, <3>7
    <3>. QED BY <3>4, <3>6, <3>8
  <2>. QED BY <2>1, <2>2, <2>3
<1>6. RemoveEffect(h, [unlinked EXCEPT !.size[l] = @ - 1, !.container[n] = Nothing], l, s, k)
  <2>. HIDE DEF unlinked, n, k
  <2>. QED BY <1>2, <1>5, UnlinkedRemoves
<1>. QED BY <1>2, <1>4, <1>6

-----------------------------------------------------------------------------
(* Two nodes change places.                                                   *)

(* The neighbours of place i.                                                 *)
Pred(s, i) == IF i > 1 THEN s[i - 1] ELSE Nothing
Succ(s, i) == IF i < Len(s) THEN s[i + 1] ELSE Nothing

(* The nodes at two places change places.                                     *)
Swapped(s, x, y) == [i \in 1 .. Len(s) |-> IF i = x THEN s[y] ELSE IF i = y THEN s[x] ELSE s[i]]

LEMMA SwappedSeq ==
  ASSUME NEW s, Once(s), NEW x \in 1 .. Len(s), NEW y \in 1 .. Len(s)
  PROVE  /\ Once(Swapped(s, x, y)) /\ Len(Swapped(s, x, y)) = Len(s)
         /\ \A i \in 1 .. Len(s) : Swapped(s, x, y)[i] = IF i = x THEN s[y] ELSE IF i = y THEN s[x] ELSE s[i]
<1>. DEFINE t == Swapped(s, x, y)
<1>1. Len(s) \in Nat /\ \A i \in 1 .. Len(s) : s[i] \in Node
  BY AsFunction DEF Once
<1>2. /\ t = [i \in 1 .. Len(s) |-> IF i = x THEN s[y] ELSE IF i = y THEN s[x] ELSE s[i]]
      /\ \A i \in 1 .. Len(s) : t[i] = IF i = x THEN s[y] ELSE IF i = y THEN s[x] ELSE s[i]
  BY DEF Swapped
<1>3. \A i \in 1 .. Len(s) : t[i] \in Node
  BY <1>1, <1>2
<1>. HIDE DEF t
<1>4. t \in [1 .. Len(s) -> Node]
  BY <1>2, <1>3
<1>5. t \in Seq(Node) /\ Len(t) = Len(s)
  BY <1>1, <1>4, IsASeq, LenProperties
<1>6. \A i, j \in 1 .. Len(s) : s[i] = s[j] => i = j
  BY DEF Once
<1>7. \A i, j \in 1 .. Len(t) : t[i] = t[j] => i = j
  <2>. SUFFICES ASSUME NEW i \in 1 .. Len(s), NEW j \in 1 .. Len(s), t[i] = t[j], i < j PROVE FALSE
    BY <1>1, <1>5
  <2>. QED BY <1>1, <1>2, <1>6
<1>. QED BY <1>2, <1>5, <1>7 DEF Once, t

SwapEffect(h, g, l, s, x, y) ==
  LET q == IF y = x + 1 THEN s[y] ELSE Pred(s, y)
      r == IF y = x + 1 THEN s[x] ELSE Succ(s, x)
  IN /\ g \in HeapT
     /\ \A m \in Node : g.next[m] = IF m = Pred(s, x) THEN s[y] ELSE IF m = q THEN s[x]
                                    ELSE IF m = s[x] THEN Succ(s, y) ELSE IF m = s[y] THEN r ELSE h.next[m]
     /\ \A m \in Node : g.prev[m] = IF m = r THEN s[y] ELSE IF m = Succ(s, y) THEN s[x]
                                    ELSE IF m = s[y] THEN Pred(s, x) ELSE IF m = s[x] THEN q ELSE h.prev[m]
     /\ g.container = h.container /\ g.size = h.size
     /\ \A m \in Lists : g.head[m] = IF m # l THEN h.head[m] ELSE IF x = 1 THEN s[y]
                                     ELSE IF y = 1 THEN s[x] ELSE h.head[m]
     /\ \A m \in Lists \ {l} : g.tail[m] = h.tail[m]

LEMMA SwapLinked ==
  ASSUME NEW h \in HeapT, NEW g, NEW l \in Lists, NEW s \in Seq(Node), Linked(h, l, s),
         NEW x \in 1 .. Len(s), NEW y \in 1 .. Len(s), x # y, x # y + 1, SwapEffect(h, g, l, s, x, y)
  PROVE  Linked(g, l, Swapped(s, x, y)) /\ Spares(h, g, {l})
<1>. DEFINE t == Swapped(s, x, y)
            q == IF y = x + 1 THEN s[y] ELSE Pred(s, y)
            r == IF y = x + 1 THEN s[x] ELSE Succ(s, x)
<1>1. Len(s) \in Nat /\ Once(s) /\ \A i \in 1 .. Len(s) : s[i] \in Node /\ s[i] # Nothing
  BY AsFunction DEF Linked, Follows
<1>2. \A i, j \in 1 .. Len(s) : s[i] = s[j] => i = j
  BY <1>1 DEF Once
<1>3. /\ Once(t) /\ Len(t) = Len(s)
      /\ \A i \in 1 .. Len(s) : t[i] = IF i = x THEN s[y] ELSE IF i = y THEN s[x] ELSE s[i]
  <2>. HIDE DEF t
  <2>. QED BY <1>1, SwappedSeq DEF t
<1>. HIDE DEF t
<1>4. /\ \A i \in 1 .. Len(s) : h.next[s[i]] = Succ(s, i)
      /\ \A i \in 1 .. Len(s) : h.prev[s[i]] = Pred(s, i)
      /\ h.head[l] = s[1]
  BY <1>1 DEF Linked, Follows, Pred, Succ
<1>5. \A m \in Node : g.next[m] = IF m = Pred(s, x) THEN s[y] ELSE IF m = q THEN s[x]
                                    ELSE IF m = s[x] THEN Succ(s, y) ELSE IF m = s[y] THEN r ELSE h.next[m]
  BY DEF SwapEffect
<1>6. \A m \in Node : g.prev[m] = IF m = r THEN s[y] ELSE IF m = Succ(s, y) THEN s[x]
                                    ELSE IF m = s[y] THEN Pred(s, x) ELSE IF m = s[x] THEN q ELSE h.prev[m]
  BY DEF SwapEffect
<1>7. \A i, j \in 1 .. Len(s) : (s[i] = Pred(s, j) <=> i = j - 1) /\ (s[i] = Succ(s, j) <=> i = j + 1)
  <2>. TAKE i, j \in 1 .. Len(s)
  <2>1. s[i] = Pred(s, j) <=> i = j - 1
    <3>1. j - 1 \in 1 .. Len(s) \/ j = 1
      BY <1>1
    <3>. QED BY <1>1, <1>2, <3>1 DEF Pred
  <2>2. s[i] = Succ(s, j) <=> i = j + 1
    <3>1. j + 1 \in 1 .. Len(s) \/ j = Len(s)
      BY <1>1
    <3>. QED BY <1>1, <1>2, <3>1 DEF Succ
  <2>. QED BY <2>1, <2>2
<1>8. ASSUME NEW i \in 1 .. Len(s) PROVE g.next[t[i]] = Succ(t, i)
  <2>0. Succ(t, i) = IF i < Len(s) THEN t[i + 1] ELSE Nothing
    BY <1>3 DEF Succ
  <2>1. CASE i = x
    <3>1. t[i] = s[y] /\ s[y] \in Node /\ s[y] # s[x] /\ s[y] # Pred(s, x)
      BY <1>1, <1>2, <1>3, <1>7, <2>1
    <3>2. CASE y = x + 1
      <4>1. g.next[s[y]] = s[x] /\ i < Len(s) /\ t[i + 1] = s[x]
        BY <1>1, <1>3, <1>5, <2>1, <3>1, <3>2
      <4>. QED BY <2>0, <3>1, <4>1
    <3>3. CASE y # x + 1
      <4>1. s[y] # q
        BY <1>7, <3>3
      <4>2. g.next[s[y]] = Succ(s, x)
        BY <1>5, <3>1, <3>3, <4>1
      <4>3. i < Len(s) => t[i + 1] = s[i + 1]
        BY <1>1, <1>3, <2>1, <3>3
      <4>. QED BY <2>0, <2>1, <3>1, <4>2, <4>3 DEF Succ
    <3>. QED BY <3>2, <3>3
  <2>2. CASE i = y
    <3>1. t[i] = s[x] /\ s[x] \in Node /\ s[y] # s[x] /\ s[x] # Pred(s, x)
      BY <1>1, <1>2, <1>3, <1>7, <2>2
    <3>2. s[x] # q
      BY <1>1, <1>7, <3>1
    <3>3. g.next[s[x]] = Succ(s, y)
      BY <1>5, <3>1, <3>2
    <3>4. i < Len(s) => t[i + 1] = s[i + 1]
      BY <1>1, <1>3, <2>2
    <3>. QED BY <2>0, <2>2, <3>1, <3>3, <3>4 DEF Succ
  <2>3. CASE i # y /\ i = x - 1
    <3>1. t[i] = s[i] /\ s[i] \in Node /\ s[i] = Pred(s, x)
      BY <1>1, <1>3, <1>7, <2>3
    <3>2. i < Len(s) /\ t[i + 1] = s[y]
      BY <1>1, <1>3, <2>3
    <3>. QED BY <1>5, <2>0, <3>1, <3>2
  <2>4. CASE i # x /\ i # y /\ i = y - 1
    <3>1. t[i] = s[i] /\ s[i] \in Node /\ s[i] = Pred(s, y) /\ s[i] # Pred(s, x) /\ y # x + 1
      BY <1>1, <1>3, <1>7, <2>4
    <3>2. i < Len(s) /\ t[i + 1] = s[x]
      BY <1>1, <1>3, <2>4
    <3>. QED BY <1>5, <2>0, <3>1, <3>2
  <2>5. CASE i # x /\ i # y /\ i # x - 1 /\ i # y - 1
    <3>1. t[i] = s[i] /\ s[i] \in Node /\ s[i] # Pred(s, x) /\ s[i] # Pred(s, y) /\ s[i] # s[x] /\ s[i] # s[y]
      BY <1>1, <1>2, <1>3, <1>7, <2>5
    <3>2. g.next[s[i]] = Succ(s, i)
      BY <1>4, <1>5, <3>1
    <3>3. i < Len(s) => t[i + 1] = s[i + 1]
      BY <1>1, <1>3, <2>5
    <3>. QED BY <2>0, <3>1, <3>2, <3>3 DEF Succ
  <2>. QED BY <2>1, <2>2, <2>3, <2>4, <2>5
<1>9. ASSUME NEW i \in 1 .. Len(s) PROVE g.prev[t[i]] = Pred(t, i)
  <2>1. CASE i = y
    <3>1. t[i] = s[x] /\ s[x] \in Node /\ s[y] # s[x] /\ s[x] # Succ(s, y)
      BY <1>1, <1>2, <1>3, <1>7, <2>1
    <3>2. CASE y = x + 1
      <4>1. g.prev[s[x]] = s[y] /\ i > 1 /\ t[i - 1] = s[y]
        BY <1>1, <1>3, <1>6, <2>1, <3>1, <3>2
      <4>. QED BY <3>1, <4>1 DEF Pred
    <3>3. CASE y # x + 1
      <4>1. s[x] # r
        BY <1>7, <3>3
      <4>2. g.prev[s[x]] = Pred(s, y)
        BY <1>6, <3>1, <3>3, <4>1
      <4>3. i > 1 => t[i - 1] = s[i - 1]
        BY <1>1, <1>3, <2>1, <3>3
      <4>. QED BY <2>1, <3>1, <4>2, <4>3 DEF Pred
    <3>. QED BY <3>2, <3>3
  <2>2. CASE i = x
    <3>1. t[i] = s[y] /\ s[y] \in Node /\ s[y] # s[x] /\ s[y] # Succ(s, y)
      BY <1>1, <1>2, <1>3, <1>7, <2>2
    <3>2. s[y] # r
      BY <1>1, <1>7, <3>1
    <3>3. g.prev[s[y]] = Pred(s, x)
      BY <1>6, <3>1, <3>2
    <3>4. i > 1 => t[i - 1] = s[i - 1]
      BY <1>1, <1>3, <2>2
    <3>. QED BY <2>2, <3>1, <3>3, <3>4 DEF Pred
  <2>3. CASE i # x /\ i = y + 1
    <3>1. t[i] = s[i] /\ s[i] \in Node /\ s[i] = Succ(s, y) /\ s[i] # r
      BY <1>1, <1>2, <1>3, <1>7, <2>3
    <3>2. i > 1 /\ t[i - 1] = s[x]
      BY <1>1, <1>3, <2>3
    <3>. QED BY <1>6, <3>1, <3>2 DEF Pred
  <2>4. CASE i # y /\ i # x /\ i = x + 1
    <3>1. t[i] = s[i] /\ s[i] \in Node /\ s[i] = r
      BY <1>1, <1>3, <1>7, <2>4
    <3>2. i > 1 /\ t[i - 1] = s[y]
      BY <1>1, <1>3, <2>4
    <3>. QED BY <1>6, <3>1, <3>2 DEF Pred
  <2>5. CASE i # x /\ i # y /\ i # x + 1 /\ i # y + 1
    <3>1. t[i] = s[i] /\ s[i] \in Node /\ s[i] # Succ(s, x) /\ s[i] # Succ(s, y) /\ s[i] # s[x] /\ s[i] # s[y]
      BY <1>1, <1>2, <1>3, <1>7, <2>5
    <3>2. g.prev[s[i]] = Pred(s, i)
      BY <1>4, <1>6, <3>1
    <3>3. i > 1 => t[i - 1] = s[i - 1]
      BY <1>1, <1>3, <2>5
    <3>. QED BY <3>1, <3>2, <3>3 DEF Pred
  <2>. QED BY <2>1, <2>2, <2>3, <2>4, <2>5
<1>10. g.head[l] = t[1] /\ Len(s) # 0
  <2>1. 1 \in 1 .. Len(s)
    BY <1>1
  <2>. QED BY <1>1, <1>3, <1>4, <2>1 DEF SwapEffect
<1>11. Linked(g, l, t)
  <2>1. Follows(t, g.head[l], g.next)
    BY <1>1, <1>3, <1>8, <1>10 DEF Follows, Succ
  <2>2. \A i \in 1 .. Len(t) : g.prev[t[i]] = IF i > 1 THEN t[i - 1] ELSE Nothing
    BY <1>3, <1>9 DEF Pred
  <2>3. g.size[l] = Len(t) /\ g.container = h.container
    BY <1>3 DEF Linked, SwapEffect
  <2>4. \A n \in Node : h.container[n] = l <=> \E i \in 1 .. Len(s) : s[i] = n
    BY DEF Linked
  <2>5. \A n \in Node : g.container[n] = l <=> \E i \in 1 .. Len(t) : t[i] = n
    <3>. TAKE n \in Node
    <3>1. (\E i \in 1 .. Len(s) : s[i] = n) <=> (\E i \in 1 .. Len(s) : t[i] = n)
      <4>1. t[x] = s[y] /\ t[y] = s[x]
        BY <1>3
      <4>2. \A i \in 1 .. Len(s) : i # x /\ i # y => t[i] = s[i]
        BY <1>3
      <4>. QED BY <4>1, <4>2
    <3>. QED BY <1>3, <2>3, <2>4, <3>1
  <2>. QED BY <2>1, <2>2, <2>3, <2>5 DEF Linked
<1>12. Spares(h, g, {l})
  <2>1. \A i \in 1 .. Len(s) : h.container[s[i]] = l
    BY <1>1 DEF Linked
  <2>2. \A i \in 1 .. Len(s) : (Pred(s, i) = Nothing \/ h.container[Pred(s, i)] = l)
                               /\ (Succ(s, i) = Nothing \/ h.container[Succ(s, i)] = l)
    BY <1>1, <2>1 DEF Pred, Succ
  <2>3. \A m \in Node : h.container[m] \in Lists \ {l} =>
          /\ m # s[x] /\ m # s[y] /\ m # Pred(s, x) /\ m # Succ(s, y) /\ m # q /\ m # r
    BY <2>1, <2>2, ListAssumption
  <2>4. \A m \in Node : h.container[m] \in Lists \ {l} => g.next[m] = h.next[m] /\ g.prev[m] = h.prev[m]
    BY <1>5, <1>6, <2>3
  <2>. QED BY <2>4 DEF Spares, SwapEffect
<1>. QED BY <1>11, <1>12 DEF t

-----------------------------------------------------------------------------
(* What compareAndSwap does.                                                  *)

(* The neighbours a linked list names.                                        *)
LEMMA LinkedNeighbours ==
  ASSUME NEW h, NEW l \in Lists, NEW s \in Seq(Node), Linked(h, l, s), NEW k \in 1 .. Len(s)
  PROVE  /\ s[k] \in Node /\ s[k] # Nothing
         /\ h.next[s[k]] = Succ(s, k) /\ h.prev[s[k]] = Pred(s, k)
         /\ Succ(s, k) \in Link /\ Pred(s, k) \in Link
         /\ Succ(s, k) # s[k] /\ Pred(s, k) # s[k]
         /\ Len(s) \in Nat
<1>1. Len(s) \in Nat /\ \A i \in 1 .. Len(s) : s[i] \in Node /\ s[i] # Nothing
  BY AsFunction
<1>2. \A i, j \in 1 .. Len(s) : s[i] = s[j] => i = j
  BY DEF Linked, Follows, Once
<1>3. h.next[s[k]] = Succ(s, k) /\ h.prev[s[k]] = Pred(s, k)
  BY DEF Linked, Follows, Pred, Succ
<1>4. Succ(s, k) \in Link /\ Succ(s, k) # s[k]
  <2>1. k < Len(s) => k + 1 \in 1 .. Len(s) /\ k + 1 # k
    BY <1>1
  <2>. QED BY <1>1, <1>2, <2>1 DEF Succ, Link
<1>5. Pred(s, k) \in Link /\ Pred(s, k) # s[k]
  <2>1. k > 1 => k - 1 \in 1 .. Len(s) /\ k - 1 # k
    BY <1>1
  <2>. QED BY <1>1, <1>2, <2>1 DEF Pred, Link
<1>. QED BY <1>1, <1>3, <1>4, <1>5

(* One comparison of the sort.                                                *)
LEMMA CompareDoes ==
  ASSUME NEW h \in HeapT, NEW l \in Lists, NEW s \in Seq(Node), Linked(h, l, s),
         NEW k \in 1 .. Len(s), k < Len(s)
  PROVE  LET r == compareAndSwap(h, l, s[k])
             t == IF goesAfter(s[k], s[k + 1]) THEN Swapped(s, k, k + 1) ELSE s
         IN /\ r.h \in HeapT /\ Linked(r.h, l, t) /\ Spares(h, r.h, {l})
            /\ r.current = t[k + 1]
<1>1. k \in Nat /\ k + 1 \in 1 .. Len(s) /\ Len(s) \in Nat
  BY LinkedNeighbours
<1>2. /\ s[k] \in Node /\ s[k] # Nothing /\ s[k + 1] \in Node /\ s[k + 1] # Nothing
      /\ h.next[s[k]] = s[k + 1] /\ h.prev[s[k]] = Pred(s, k) /\ h.next[s[k + 1]] = Succ(s, k + 1)
      /\ Pred(s, k) \in Link /\ Succ(s, k + 1) \in Link
  <2>1. h.next[s[k]] = Succ(s, k) /\ Succ(s, k) = s[k + 1]
    BY LinkedNeighbours DEF Succ
  <2>2. s[k] \in Node /\ s[k] # Nothing /\ h.prev[s[k]] = Pred(s, k) /\ Pred(s, k) \in Link
    BY LinkedNeighbours
  <2>3. s[k + 1] \in Node /\ s[k + 1] # Nothing /\ h.next[s[k + 1]] = Succ(s, k + 1) /\ Succ(s, k + 1) \in Link
    BY <1>1, LinkedNeighbours
  <2>. QED BY <2>1, <2>2, <2>3
<1>3. CASE ~goesAfter(s[k], s[k + 1])
  <2>1. compareAndSwap(h, l, s[k]) = [h |-> h, current |-> s[k + 1]]
    BY <1>2, <1>3 DEF compareAndSwap
  <2>2. Spares(h, h, {l})
    BY DEF Spares
  <2>. QED BY <1>3, <2>1, <2>2
<1>4. CASE goesAfter(s[k], s[k + 1])
  <2>. DEFINE c == s[k]
              d == s[k + 1]
              b == Pred(s, k)
              e == Succ(s, k + 1)
              front == IF b = Nothing THEN [h EXCEPT !.head[l] = d] ELSE [h EXCEPT !.next[b] = d]
              moved == [front EXCEPT !.next[c] = e, !.prev[c] = d]
              back == IF e = Nothing THEN moved ELSE [moved EXCEPT !.prev[e] = c]
              g == [back EXCEPT !.next[d] = c, !.prev[d] = b]
  <2>1. compareAndSwap(h, l, c) = [h |-> g, current |-> c]
    BY <1>2, <1>4 DEF compareAndSwap
  <2>2. c \in Node /\ d \in Node /\ b \in Link /\ e \in Link
    BY <1>2
  <2>3. b = Nothing <=> k = 1
    <3>1. k > 1 => k - 1 \in 1 .. Len(s)
      BY <1>1
    <3>. QED BY <1>1, <3>1, AsFunction DEF Pred
  <2>4. c # d /\ b # c /\ b # d /\ e # c /\ e # d
    <3>1. \A i, j \in 1 .. Len(s) : s[i] = s[j] => i = j
      BY DEF Linked, Follows, Once
    <3>2. k > 1 => k - 1 \in 1 .. Len(s)
      BY <1>1
    <3>3. k + 1 < Len(s) => k + 1 + 1 \in 1 .. Len(s)
      BY <1>1
    <3>. QED BY <1>1, <1>2, <3>1, <3>2, <3>3 DEF Pred, Succ
  <2>5. SwapEffect(h, g, l, s, k, k + 1)
    <3>. HIDE DEF c, d, b, e
    <3>1. /\ front \in HeapT /\ front.prev = h.prev /\ front.container = h.container /\ front.size = h.size
          /\ front.tail = h.tail
          /\ \A m \in Node : front.next[m] = IF m = b THEN d ELSE h.next[m]
          /\ \A m \in Lists : front.head[m] = IF m = l /\ k = 1 THEN d ELSE h.head[m]
      <4>1. CASE b = Nothing
        <5>1. front = [h EXCEPT !.head[l] = d]
          BY <4>1
        <5>. HIDE DEF front
        <5>2. /\ front \in HeapT /\ front.prev = h.prev /\ front.container = h.container /\ front.size = h.size
              /\ front.tail = h.tail /\ front.next = h.next /\ front.head = [h.head EXCEPT ![l] = d]
          BY <2>2, <5>1 DEF HeapT, Link
        <5>3. h.head \in [Lists -> Link]
          BY DEF HeapT
        <5>. QED BY <2>3, <4>1, <5>2, <5>3, ListAssumption
      <4>2. CASE b # Nothing
        <5>1. front = [h EXCEPT !.next[b] = d] /\ b \in Node
          BY <2>2, <4>2 DEF Link
        <5>. HIDE DEF front
        <5>2. /\ front \in HeapT /\ front.prev = h.prev /\ front.container = h.container /\ front.size = h.size
              /\ front.tail = h.tail /\ front.head = h.head /\ front.next = [h.next EXCEPT ![b] = d]
          BY <2>2, <5>1 DEF HeapT, Link
        <5>3. h.next \in [Node -> Link]
          BY DEF HeapT
        <5>. QED BY <2>3, <4>2, <5>2, <5>3
      <4>. QED BY <4>1, <4>2
    <3>. HIDE DEF front
    <3>2. /\ moved \in HeapT /\ moved.container = front.container /\ moved.size = front.size
          /\ moved.tail = front.tail /\ moved.head = front.head
          /\ moved.next = [front.next EXCEPT ![c] = e] /\ moved.prev = [front.prev EXCEPT ![c] = d]
      BY <2>2, <3>1 DEF HeapT, Link
    <3>. HIDE DEF moved
    <3>3. /\ back \in HeapT /\ back.container = moved.container /\ back.size = moved.size
          /\ back.tail = moved.tail /\ back.head = moved.head /\ back.next = moved.next
          /\ \A m \in Node : back.prev[m] = IF m = e THEN c ELSE moved.prev[m]
      <4>1. CASE e = Nothing
        BY <3>2, <4>1, ListAssumption
      <4>2. CASE e # Nothing
        <5>1. back = [moved EXCEPT !.prev[e] = c] /\ e \in Node
          BY <2>2, <4>2 DEF Link
        <5>. HIDE DEF back
        <5>2. /\ back \in HeapT /\ back.container = moved.container /\ back.size = moved.size
              /\ back.tail = moved.tail /\ back.head = moved.head /\ back.next = moved.next
              /\ back.prev = [moved.prev EXCEPT ![e] = c]
          BY <2>2, <3>2, <5>1 DEF HeapT, Link
        <5>3. moved.prev \in [Node -> Link]
          BY <3>2 DEF HeapT
        <5>. QED BY <5>2, <5>3
      <4>. QED BY <4>1, <4>2
    <3>. HIDE DEF back
    <3>4. /\ g \in HeapT /\ g.container = back.container /\ g.size = back.size
          /\ g.tail = back.tail /\ g.head = back.head
          /\ g.next = [back.next EXCEPT ![d] = c] /\ g.prev = [back.prev EXCEPT ![d] = b]
      BY <2>2, <3>3 DEF HeapT, Link
    <3>. HIDE DEF g
    <3>5. /\ front.next \in [Node -> Link] /\ front.prev \in [Node -> Link]
          /\ back.next \in [Node -> Link] /\ back.prev \in [Node -> Link]
      BY <3>1, <3>3 DEF HeapT
    <3>6. \A m \in Node : g.next[m] = IF m = b THEN d ELSE IF m = d THEN c
                                      ELSE IF m = c THEN e ELSE h.next[m]
      BY <2>2, <2>4, <3>1, <3>2, <3>3, <3>4, <3>5
    <3>7. \A m \in Node : g.prev[m] = IF m = c THEN d ELSE IF m = e THEN c
                                      ELSE IF m = d THEN b ELSE h.prev[m]
      BY <2>2, <2>4, <3>1, <3>2, <3>3, <3>4, <3>5
    <3>8. \A m \in Lists : g.head[m] = IF m # l THEN h.head[m] ELSE IF k = 1 THEN d
                                       ELSE IF k + 1 = 1 THEN c ELSE h.head[m]
      BY <1>1, <3>1, <3>2, <3>3, <3>4
    <3>9. g.container = h.container /\ g.size = h.size /\ g.tail = h.tail /\ g \in HeapT
      BY <3>1, <3>2, <3>3, <3>4
    <3>. QED BY <2>4, <3>6, <3>7, <3>8, <3>9 DEF SwapEffect, c, d, b, e
  <2>. HIDE DEF g
  <2>6. k # k + 1 /\ k # k + 1 + 1
    BY <1>1
  <2>7. Linked(g, l, Swapped(s, k, k + 1)) /\ Spares(h, g, {l}) /\ g \in HeapT
    <3>1. g \in HeapT
      BY <2>5 DEF SwapEffect
    <3>. HIDE DEF c, d, b, e
    <3>2. Linked(g, l, Swapped(s, k, k + 1)) /\ Spares(h, g, {l})
      BY ONLY <1>1, <2>5, <2>6, SwapLinked, h \in HeapT, l \in Lists, s \in Seq(Node), Linked(h, l, s),
         k \in 1 .. Len(s)
    <3>. QED BY <3>1, <3>2
  <2>8. Swapped(s, k, k + 1)[k + 1] = c
    BY <1>1 DEF Swapped
  <2>. QED BY <1>4, <2>1, <2>7, <2>8
<1>. QED BY <1>3, <1>4

-----------------------------------------------------------------------------
(* What the steps of swap do.                                                 *)

(* The node before n points to it, and the one behind it.                     *)
NextSet(h, n, g) ==
  /\ g \in HeapT /\ g.prev = h.prev /\ g.container = h.container /\ g.size = h.size
  /\ g.head = h.head /\ g.tail = h.tail
  /\ \A m \in Node : g.next[m] = IF m = h.prev[n] THEN n ELSE h.next[m]

PrevSet(h, n, g) ==
  /\ g \in HeapT /\ g.next = h.next /\ g.container = h.container /\ g.size = h.size
  /\ g.head = h.head /\ g.tail = h.tail
  /\ \A m \in Node : g.prev[m] = IF m = h.next[n] THEN n ELSE h.prev[m]

LEMMA BeforePoints ==
  ASSUME NEW h \in HeapT, NEW n \in Node
  PROVE  NextSet(h, n, pointFromBefore(h, n))
<1>. DEFINE g == pointFromBefore(h, n)
            b == h.prev[n]
<1>1. b \in Link
  BY DEF HeapT
<1>2. CASE b = Nothing
  BY <1>2, ListAssumption DEF pointFromBefore, NextSet
<1>3. CASE b # Nothing
  <2>1. g = [h EXCEPT !.next[b] = n] /\ b \in Node
    BY <1>1, <1>3 DEF pointFromBefore, Link
  <2>. HIDE DEF b, g
  <2>2. /\ g \in HeapT /\ g.prev = h.prev /\ g.container = h.container /\ g.size = h.size
        /\ g.head = h.head /\ g.tail = h.tail /\ g.next = [h.next EXCEPT ![b] = n]
    BY <2>1 DEF HeapT, Link
  <2>3. h.next \in [Node -> Link]
    BY DEF HeapT
  <2>. QED BY <2>2, <2>3 DEF b, g, NextSet
<1>. QED BY <1>2, <1>3

LEMMA BehindPoints ==
  ASSUME NEW h \in HeapT, NEW n \in Node
  PROVE  PrevSet(h, n, pointFromBehind(h, n))
<1>. DEFINE g == pointFromBehind(h, n)
            b == h.next[n]
<1>1. b \in Link
  BY DEF HeapT
<1>2. CASE b = Nothing
  BY <1>2, ListAssumption DEF pointFromBehind, PrevSet
<1>3. CASE b # Nothing
  <2>1. g = [h EXCEPT !.prev[b] = n] /\ b \in Node
    BY <1>1, <1>3 DEF pointFromBehind, Link
  <2>. HIDE DEF b, g
  <2>2. /\ g \in HeapT /\ g.next = h.next /\ g.container = h.container /\ g.size = h.size
        /\ g.head = h.head /\ g.tail = h.tail /\ g.prev = [h.prev EXCEPT ![b] = n]
    BY <2>1 DEF HeapT, Link
  <2>3. h.prev \in [Node -> Link]
    BY DEF HeapT
  <2>. QED BY <2>2, <2>3 DEF b, g, PrevSet
<1>. QED BY <1>2, <1>3

(* The swap of two nodes, the first of them not right behind the second.      *)
Crossed(h, l, n1, n2) ==
  LET inner == givenNodeSwapAdjacent(givenNodeSwapBoundaries(h, l, n1, n2), n1, n2)
  IN givenNodesUpdateOuterLinks([inner EXCEPT !.prev[n2] = h.prev[n1], !.next[n1] = h.next[n2]], n1, n2)

LEMMA CrossedDoes ==
  ASSUME NEW h \in HeapT, NEW l \in Lists, NEW s \in Seq(Node), Chained(h, l, s),
         NEW x \in 1 .. Len(s), NEW y \in 1 .. Len(s), x # y, x # y + 1
  PROVE  /\ SwapEffect(h, Crossed(h, l, s[x], s[y]), l, s, x, y)
         /\ Crossed(h, l, s[x], s[y]).tail[l] = Swapped(s, x, y)[Len(s)]
<1>. DEFINE n1 == s[x]
            n2 == s[y]
            q == IF y = x + 1 THEN s[y] ELSE Pred(s, y)
            r == IF y = x + 1 THEN s[x] ELSE Succ(s, x)
            bound == givenNodeSwapBoundaries(h, l, n1, n2)
            inner == givenNodeSwapAdjacent(bound, n1, n2)
            outer == [inner EXCEPT !.prev[n2] = h.prev[n1], !.next[n1] = h.next[n2]]
            g1 == pointFromBefore(outer, n1)
            g2 == pointFromBehind(g1, n1)
            g3 == pointFromBefore(g2, n2)
            g == pointFromBehind(g3, n2)
<1>0. Linked(h, l, s) /\ h.tail[l] = (IF Len(s) = 0 THEN Nothing ELSE s[Len(s)])
  BY DEF Chained
<1>1. /\ n1 \in Node /\ n2 \in Node /\ n1 # Nothing /\ n2 # Nothing
      /\ h.next[n1] = Succ(s, x) /\ h.prev[n1] = Pred(s, x)
      /\ h.next[n2] = Succ(s, y) /\ h.prev[n2] = Pred(s, y)
      /\ Pred(s, x) \in Link /\ Succ(s, y) \in Link /\ Pred(s, y) \in Link /\ Succ(s, x) \in Link
      /\ Pred(s, x) # n1 /\ Succ(s, x) # n1 /\ Pred(s, y) # n2 /\ Succ(s, y) # n2
      /\ Len(s) \in Nat
  BY <1>0, LinkedNeighbours
<1>2. \A i, j \in 1 .. Len(s) : s[i] = s[j] => i = j
  BY <1>0 DEF Linked, Follows, Once
<1>3. /\ n1 # n2 /\ Pred(s, x) # n2 /\ Succ(s, y) # n1
      /\ (Succ(s, x) = n2 <=> y = x + 1) /\ (Pred(s, y) = n1 <=> y = x + 1)
      /\ q \in Link /\ r \in Link
  <2>1. x > 1 => x - 1 \in 1 .. Len(s) /\ x - 1 # y
    BY <1>1
  <2>2. y < Len(s) => y + 1 \in 1 .. Len(s) /\ y + 1 # x
    BY <1>1
  <2>3. x < Len(s) => x + 1 \in 1 .. Len(s)
    BY <1>1
  <2>4. y > 1 => y - 1 \in 1 .. Len(s)
    BY <1>1
  <2>5. n1 # n2 /\ Pred(s, x) # n2 /\ Succ(s, y) # n1
    BY <1>1, <1>2, <2>1, <2>2 DEF Pred, Succ
  <2>6. Succ(s, x) = n2 <=> y = x + 1
    BY <1>1, <1>2, <2>3 DEF Succ
  <2>7. Pred(s, y) = n1 <=> y = x + 1
    BY <1>1, <1>2, <2>4 DEF Pred
  <2>8. q \in Link /\ r \in Link
    BY <1>1 DEF Link
  <2>. QED BY <2>5, <2>6, <2>7, <2>8
<1>4. Crossed(h, l, n1, n2) = g
  BY DEF Crossed, givenNodesUpdateOuterLinks
<1>. DEFINE other(n) == IF n = n1 THEN n2 ELSE IF n = n2 THEN n1 ELSE n
<1>. HIDE DEF n1, n2, q, r, g1, g2, g3, g, outer, inner, bound
<1>5. /\ bound \in HeapT /\ bound.next = h.next /\ bound.prev = h.prev /\ bound.container = h.container
      /\ bound.size = h.size /\ bound.head = [h.head EXCEPT ![l] = other(@)]
      /\ bound.tail = [h.tail EXCEPT ![l] = other(@)]
  <2>1. bound = [h EXCEPT !.head[l] = other(@), !.tail[l] = other(@)]
    BY DEF bound, givenNodeSwapBoundaries
  <2>. DEFINE hd == other(h.head[l])
              tl == other(h.tail[l])
  <2>2. hd \in Link /\ tl \in Link
    BY <1>1 DEF HeapT, Link
  <2>3. bound = [h EXCEPT !.head[l] = hd, !.tail[l] = tl]
    BY <2>1
  <2>. HIDE DEF hd, tl
  <2>4. /\ bound \in HeapT /\ bound.next = h.next /\ bound.prev = h.prev /\ bound.container = h.container
        /\ bound.size = h.size /\ bound.head = [h.head EXCEPT ![l] = hd]
        /\ bound.tail = [h.tail EXCEPT ![l] = tl]
    BY <2>2, <2>3 DEF HeapT
  <2>. QED BY <2>4 DEF hd, tl
<1>6. inner = [bound EXCEPT !.prev[n1] = q, !.next[n2] = r]
  <2>1. CASE y = x + 1
    <3>1. q = n2 /\ r = n1 /\ Succ(s, x) = n2 /\ Pred(s, y) = n1
      BY <1>3, <2>1 DEF q, r, n1, n2
    <3>. QED BY <1>1, <1>5, <3>1 DEF inner, givenNodeSwapAdjacent
  <2>2. CASE y # x + 1
    <3>1. q = Pred(s, y) /\ r = Succ(s, x) /\ Succ(s, x) # n2 /\ Pred(s, x) # n2
      BY <1>3, <2>2 DEF q, r
    <3>. QED BY <1>1, <1>5, <3>1 DEF inner, givenNodeSwapAdjacent
  <2>. QED BY <2>1, <2>2
<1>7. /\ outer \in HeapT /\ outer.container = h.container /\ outer.size = h.size
      /\ outer.head = bound.head /\ outer.tail = bound.tail
      /\ outer.prev = [h.prev EXCEPT ![n1] = q, ![n2] = Pred(s, x)]
      /\ outer.next = [h.next EXCEPT ![n2] = r, ![n1] = Succ(s, y)]
  <2>1. /\ inner \in HeapT /\ inner.container = h.container /\ inner.size = h.size
        /\ inner.head = bound.head /\ inner.tail = bound.tail
        /\ inner.prev = [h.prev EXCEPT ![n1] = q]
        /\ inner.next = [h.next EXCEPT ![n2] = r]
    BY <1>1, <1>3, <1>5, <1>6 DEF HeapT
  <2>2. outer = [inner EXCEPT !.prev[n2] = Pred(s, x), !.next[n1] = Succ(s, y)]
    BY <1>1 DEF outer
  <2>. QED BY <1>1, <2>1, <2>2 DEF HeapT
<1>8. /\ g1 \in HeapT /\ g1.prev = outer.prev /\ g1.container = outer.container /\ g1.size = outer.size
      /\ g1.head = outer.head /\ g1.tail = outer.tail
      /\ \A m \in Node : g1.next[m] = IF m = outer.prev[n1] THEN n1 ELSE outer.next[m]
  <2>1. g1 = pointFromBefore(outer, n1)
    BY DEF g1
  <2>2. NextSet(outer, n1, g1)
    BY <1>1, <1>7, <2>1, BeforePoints
  <2>. QED BY <2>2 DEF NextSet
<1>9. /\ g2 \in HeapT /\ g2.next = g1.next /\ g2.container = g1.container /\ g2.size = g1.size
      /\ g2.head = g1.head /\ g2.tail = g1.tail
      /\ \A m \in Node : g2.prev[m] = IF m = g1.next[n1] THEN n1 ELSE g1.prev[m]
  <2>1. g2 = pointFromBehind(g1, n1)
    BY DEF g2
  <2>2. PrevSet(g1, n1, g2)
    BY <1>1, <1>8, <2>1, BehindPoints
  <2>. QED BY <2>2 DEF PrevSet
<1>10. /\ g3 \in HeapT /\ g3.prev = g2.prev /\ g3.container = g2.container /\ g3.size = g2.size
      /\ g3.head = g2.head /\ g3.tail = g2.tail
      /\ \A m \in Node : g3.next[m] = IF m = g2.prev[n2] THEN n2 ELSE g2.next[m]
  <2>1. g3 = pointFromBefore(g2, n2)
    BY DEF g3
  <2>2. NextSet(g2, n2, g3)
    BY <1>1, <1>9, <2>1, BeforePoints
  <2>. QED BY <2>2 DEF NextSet
<1>11. /\ g \in HeapT /\ g.next = g3.next /\ g.container = g3.container /\ g.size = g3.size
      /\ g.head = g3.head /\ g.tail = g3.tail
      /\ \A m \in Node : g.prev[m] = IF m = g3.next[n2] THEN n2 ELSE g3.prev[m]
  <2>1. g = pointFromBehind(g3, n2)
    BY DEF g
  <2>2. PrevSet(g3, n2, g)
    BY <1>1, <1>10, <2>1, BehindPoints
  <2>. QED BY <2>2 DEF PrevSet
<1>12. h.next \in [Node -> Link] /\ h.prev \in [Node -> Link] /\ h.head \in [Lists -> Link] /\ h.tail \in [Lists -> Link]
  BY DEF HeapT
<1>13. /\ outer.prev[n1] = q /\ outer.prev[n2] = Pred(s, x)
       /\ outer.next[n1] = Succ(s, y) /\ outer.next[n2] = r
  BY <1>1, <1>3, <1>7, <1>12
<1>14. q # n1 /\ r # n2 /\ (q = n2 <=> y = x + 1) /\ (y = x + 1 => r = n1)
  BY <1>1, <1>3 DEF q, r, n1, n2
<1>15. g1.next[n1] = Succ(s, y) /\ g2.prev[n2] = Pred(s, x)
  BY <1>1, <1>3, <1>8, <1>9, <1>13, <1>14
<1>16. g3.next[n2] = r
  BY <1>1, <1>3, <1>8, <1>9, <1>10, <1>13, <1>14, <1>15
<1>17. \A m \in Node : g.next[m] = IF m = Pred(s, x) THEN n2 ELSE IF m = q THEN n1
                                   ELSE IF m = n1 THEN Succ(s, y) ELSE IF m = n2 THEN r ELSE h.next[m]
  <2>1. \A m \in Node : outer.next[m] = IF m = n1 THEN Succ(s, y) ELSE IF m = n2 THEN r ELSE h.next[m]
    BY <1>1, <1>3, <1>7, <1>12
  <2>. QED BY <1>8, <1>9, <1>10, <1>11, <1>13, <1>15, <2>1
<1>18. \A m \in Node : g.prev[m] = IF m = r THEN n2 ELSE IF m = Succ(s, y) THEN n1
                                   ELSE IF m = n2 THEN Pred(s, x) ELSE IF m = n1 THEN q ELSE h.prev[m]
  <2>1. \A m \in Node : outer.prev[m] = IF m = n2 THEN Pred(s, x) ELSE IF m = n1 THEN q ELSE h.prev[m]
    BY <1>1, <1>3, <1>7, <1>12
  <2>. QED BY <1>8, <1>9, <1>10, <1>11, <1>15, <1>16, <2>1
<1>19. g.container = h.container /\ g.size = h.size
  BY <1>7, <1>8, <1>9, <1>10, <1>11
<1>20. g.head = [h.head EXCEPT ![l] = other(@)] /\ g.tail = [h.tail EXCEPT ![l] = other(@)]
  BY <1>5, <1>7, <1>8, <1>9, <1>10, <1>11
<1>21. h.head[l] = s[1] /\ h.tail[l] = s[Len(s)] /\ 1 \in 1 .. Len(s) /\ Len(s) \in 1 .. Len(s)
  <2>1. 1 \in 1 .. Len(s) /\ Len(s) \in 1 .. Len(s) /\ Len(s) # 0
    BY <1>1
  <2>. QED BY <1>0, <2>1 DEF Linked, Follows
<1>22. \A m \in Lists : g.head[m] = IF m # l THEN h.head[m] ELSE IF x = 1 THEN n2
                                     ELSE IF y = 1 THEN n1 ELSE h.head[m]
  <2>1. (s[1] = n1 <=> x = 1) /\ (s[1] = n2 <=> y = 1)
    BY <1>2, <1>21 DEF n1, n2
  <2>2. g.head[l] = other(s[1])
    BY <1>12, <1>20, <1>21
  <2>3. \A m \in Lists \ {l} : g.head[m] = h.head[m]
    BY <1>12, <1>20
  <2>. QED BY <2>1, <2>2, <2>3, <1>21
<1>23. g.tail[l] = other(s[Len(s)]) /\ \A m \in Lists \ {l} : g.tail[m] = h.tail[m]
  BY <1>12, <1>20, <1>21
<1>24. SwapEffect(h, g, l, s, x, y)
  BY <1>11, <1>17, <1>18, <1>19, <1>22, <1>23 DEF SwapEffect, n1, n2, q, r
<1>25. g.tail[l] = Swapped(s, x, y)[Len(s)]
  <2>1. (s[Len(s)] = n1 <=> x = Len(s)) /\ (s[Len(s)] = n2 <=> y = Len(s))
    BY <1>2, <1>21 DEF n1, n2
  <2>2. Swapped(s, x, y)[Len(s)] = IF Len(s) = x THEN n2 ELSE IF Len(s) = y THEN n1 ELSE s[Len(s)]
    BY <1>21 DEF Swapped, n1, n2
  <2>. QED BY <1>23, <2>1, <2>2
<1>. QED BY <1>4, <1>24, <1>25 DEF n1, n2

-----------------------------------------------------------------------------
(* Two lists joined.                                                          *)

(* The list of x, of a, and the list of y, of b, become one, of l.            *)
JoinEffect(h, g, l, src, x, y) ==
  /\ g \in HeapT
  /\ \A m \in Node : g.next[m] = IF m = x[Len(x)] THEN y[1] ELSE h.next[m]
  /\ \A m \in Node : g.prev[m] = IF m = y[1] THEN x[Len(x)] ELSE h.prev[m]
  /\ \A m \in Node : g.container[m] = IF h.container[m] = src THEN l ELSE h.container[m]
  /\ \A m \in Lists : g.head[m] = IF m = l THEN x[1] ELSE IF m = src THEN Nothing ELSE h.head[m]
  /\ \A m \in Lists : g.tail[m] = IF m = l THEN y[Len(y)] ELSE IF m = src THEN Nothing ELSE h.tail[m]
  /\ \A m \in Lists : g.size[m] = IF m = l THEN Len(x) + Len(y) ELSE IF m = src THEN 0 ELSE h.size[m]

LEMMA JoinChained ==
  ASSUME NEW h \in HeapT, NEW g, NEW l \in Lists, NEW src \in Lists, l # src,
         NEW a \in {l, src}, NEW b \in {l, src}, a # b,
         NEW x \in Seq(Node), Chained(h, a, x), Len(x) > 0,
         NEW y \in Seq(Node), Chained(h, b, y), Len(y) > 0,
         JoinEffect(h, g, l, src, x, y)
  PROVE  Chained(g, l, x \o y) /\ Chained(g, src, <<>>) /\ Spares(h, g, {l, src})
<1>. DEFINE t == x \o y
<1>1. /\ Len(x) \in Nat /\ Len(y) \in Nat
      /\ Len(x) \in 1 .. Len(x) /\ 1 \in 1 .. Len(y) /\ 1 \in 1 .. Len(x)
      /\ \A i \in 1 .. Len(x) : x[i] \in Node /\ x[i] # Nothing
      /\ \A i \in 1 .. Len(y) : y[i] \in Node /\ y[i] # Nothing
  <2>1. Len(x) \in Nat /\ Len(y) \in Nat
    BY AsFunction
  <2>2. /\ \A i \in 1 .. Len(x) : x[i] \in Node /\ x[i] # Nothing
        /\ \A i \in 1 .. Len(y) : y[i] \in Node /\ y[i] # Nothing
    BY AsFunction
  <2>. QED BY <2>1, <2>2
<1>2. /\ t \in Seq(Node) /\ Len(t) = Len(x) + Len(y)
      /\ \A i \in 1 .. Len(t) : t[i] = IF i <= Len(x) THEN x[i] ELSE y[i - Len(x)]
  BY ConcatProperties
<1>. HIDE DEF t
<1>3. /\ \A i, j \in 1 .. Len(x) : x[i] = x[j] => i = j
      /\ \A i, j \in 1 .. Len(y) : y[i] = y[j] => i = j
      /\ \A i \in 1 .. Len(x) : h.next[x[i]] = Succ(x, i) /\ h.prev[x[i]] = Pred(x, i)
      /\ \A i \in 1 .. Len(y) : h.next[y[i]] = Succ(y, i) /\ h.prev[y[i]] = Pred(y, i)
  BY DEF Chained, Linked, Follows, Once, Pred, Succ
<1>4. /\ \A n \in Node : h.container[n] = a <=> \E i \in 1 .. Len(x) : x[i] = n
      /\ \A n \in Node : h.container[n] = b <=> \E i \in 1 .. Len(y) : y[i] = n
  BY DEF Chained, Linked
<1>5. \A i \in 1 .. Len(x), j \in 1 .. Len(y) : x[i] # y[j]
  BY <1>1, <1>4
<1>6. \A i, j \in 1 .. Len(t) : t[i] = t[j] => i = j
  <2>. SUFFICES ASSUME NEW i \in 1 .. Len(t), NEW j \in 1 .. Len(t), t[i] = t[j], i < j PROVE FALSE
    BY <1>1, <1>2
  <2>1. CASE j <= Len(x)
    BY <1>1, <1>2, <1>3, <2>1
  <2>2. CASE i <= Len(x) /\ j > Len(x)
    <3>1. j - Len(x) \in 1 .. Len(y) /\ i \in 1 .. Len(x)
      BY <1>1, <1>2, <2>2
    <3>. QED BY <1>1, <1>2, <1>5, <2>2, <3>1, SMTT(30)
  <2>3. CASE i > Len(x)
    <3>1. j - Len(x) \in 1 .. Len(y) /\ i - Len(x) \in 1 .. Len(y) /\ j - Len(x) # i - Len(x)
      BY <1>1, <1>2, <2>3
    <3>2. t[i] = y[i - Len(x)] /\ t[j] = y[j - Len(x)]
      BY <1>1, <1>2, <2>3
    <3>. QED BY <1>3, <3>1, <3>2
  <2>. QED BY <1>1, <1>2, <2>1, <2>2, <2>3
<1>7. ASSUME NEW i \in 1 .. Len(t) PROVE g.next[t[i]] = Succ(t, i) /\ g.prev[t[i]] = Pred(t, i)
  <2>0. /\ \A m \in Node : g.next[m] = IF m = x[Len(x)] THEN y[1] ELSE h.next[m]
        /\ \A m \in Node : g.prev[m] = IF m = y[1] THEN x[Len(x)] ELSE h.prev[m]
    BY DEF JoinEffect
  <2>1. CASE i < Len(x)
    <3>1. t[i] = x[i] /\ i \in 1 .. Len(x) /\ t[i + 1] = x[i + 1] /\ i < Len(t)
          /\ (i > 1 => t[i - 1] = x[i - 1])
      BY <1>1, <1>2, <2>1
    <3>2. x[i] # x[Len(x)] /\ x[i] # y[1] /\ x[i] \in Node
      BY <1>1, <1>3, <1>5, <2>1, <3>1
    <3>3. g.next[x[i]] = Succ(x, i) /\ g.prev[x[i]] = Pred(x, i)
      BY <1>3, <2>0, <3>1, <3>2
    <3>. QED BY <2>1, <3>1, <3>3 DEF Succ, Pred
  <2>2. CASE i = Len(x)
    <3>1. t[i] = x[Len(x)] /\ t[i + 1] = y[1] /\ i < Len(t) /\ (i > 1 => t[i - 1] = x[i - 1])
      <4>1. /\ Len(x) + 1 \in 1 .. Len(t) /\ ~(Len(x) + 1 <= Len(x)) /\ Len(x) + 1 - Len(x) = 1
            /\ Len(x) < Len(t) /\ i <= Len(x)
        BY <1>1, <1>2, <2>2
      <4>2. t[Len(x) + 1] = y[1]
        BY <1>2, <4>1
      <4>3. t[i] = x[Len(x)]
        BY <1>2, <2>2, <4>1
      <4>4. i > 1 => t[i - 1] = x[i - 1]
        <5>1. i > 1 => i - 1 \in 1 .. Len(t) /\ i - 1 <= Len(x)
          BY <1>1, <1>2, <2>2
        <5>. QED BY <1>2, <5>1
      <4>. QED BY <2>2, <4>1, <4>2, <4>3, <4>4
    <3>2. x[Len(x)] # y[1] /\ x[Len(x)] \in Node
      BY <1>1, <1>5
    <3>3. g.next[x[Len(x)]] = y[1] /\ g.prev[x[Len(x)]] = Pred(x, Len(x))
      BY <1>1, <1>3, <2>0, <3>2
    <3>. QED BY <2>2, <3>1, <3>3 DEF Succ, Pred
  <2>3. CASE i > Len(x)
    <3>. DEFINE j == i - Len(x)
    <3>1. t[i] = y[j] /\ j \in 1 .. Len(y) /\ j \in Int /\ (i < Len(t) <=> j < Len(y))
          /\ (j < Len(y) => t[i + 1] = y[j + 1])
          /\ (j > 1 => t[i - 1] = y[j - 1]) /\ (j = 1 => t[i - 1] = x[Len(x)]) /\ i > 1
      <4>1. j \in 1 .. Len(y) /\ j \in Int /\ (i < Len(t) <=> j < Len(y)) /\ ~(i <= Len(x)) /\ i > 1
        BY <1>1, <1>2, <2>3
      <4>2. t[i] = y[j]
        BY <1>2, <4>1
      <4>3. j < Len(y) => t[i + 1] = y[j + 1]
        <5>1. j < Len(y) => i + 1 \in 1 .. Len(t) /\ ~(i + 1 <= Len(x)) /\ i + 1 - Len(x) = j + 1
          BY <1>1, <1>2, <4>1
        <5>. QED BY <1>2, <5>1
      <4>4. j > 1 => t[i - 1] = y[j - 1]
        <5>1. j > 1 => i - 1 \in 1 .. Len(t) /\ ~(i - 1 <= Len(x)) /\ i - 1 - Len(x) = j - 1
          BY <1>1, <1>2, <4>1
        <5>. QED BY <1>2, <5>1
      <4>5. j = 1 => t[i - 1] = x[Len(x)]
        <5>1. j = 1 => i - 1 \in 1 .. Len(t) /\ i - 1 <= Len(x) /\ i - 1 = Len(x)
          BY <1>1, <1>2, <4>1
        <5>. QED BY <1>2, <5>1
      <4>. QED BY <4>1, <4>2, <4>3, <4>4, <4>5
    <3>2. y[j] # x[Len(x)] /\ y[j] \in Node /\ (y[j] = y[1] <=> j = 1)
      BY <1>1, <1>3, <1>5, <3>1
    <3>3. g.next[y[j]] = Succ(y, j) /\ g.prev[y[j]] = IF j = 1 THEN x[Len(x)] ELSE Pred(y, j)
      BY <1>3, <2>0, <3>1, <3>2
    <3>4. j > 1 \/ j = 1
      BY <3>1
    <3>. HIDE DEF j
    <3>. QED BY <3>1, <3>3, <3>4 DEF Succ, Pred
  <2>. QED BY <1>1, <1>2, <2>1, <2>2, <2>3
<1>8. Linked(g, l, t)
  <2>1. Len(t) \in Nat /\ Len(t) # 0 /\ t[1] = x[1] /\ t[Len(t)] = y[Len(y)]
    BY <1>1, <1>2
  <2>2. Follows(t, g.head[l], g.next)
    BY <1>2, <1>6, <1>7, <2>1 DEF Follows, Once, Succ, JoinEffect
  <2>3. \A i \in 1 .. Len(t) : g.prev[t[i]] = IF i > 1 THEN t[i - 1] ELSE Nothing
    BY <1>7 DEF Pred
  <2>4. ASSUME NEW n \in Node PROVE g.container[n] = l <=> \E i \in 1 .. Len(t) : t[i] = n
    <3>1. g.container[n] = l <=> h.container[n] \in {a, b}
      BY DEF JoinEffect
    <3>2. ASSUME NEW i \in 1 .. Len(x), x[i] = n PROVE \E k \in 1 .. Len(t) : t[k] = n
      <4>1. i \in 1 .. Len(t) /\ t[i] = n
        BY <1>1, <1>2, <3>2
      <4>. QED BY <4>1
    <3>3. ASSUME NEW i \in 1 .. Len(y), y[i] = n PROVE \E k \in 1 .. Len(t) : t[k] = n
      <4>1. i + Len(x) \in 1 .. Len(t) /\ t[i + Len(x)] = n
        <5>1. i + Len(x) \in 1 .. Len(t) /\ ~(i + Len(x) <= Len(x)) /\ i + Len(x) - Len(x) = i
          BY <1>1, <1>2
        <5>. QED BY <1>2, <3>3, <5>1
      <4>. QED BY <4>1
    <3>4. ASSUME NEW k \in 1 .. Len(t), t[k] = n
          PROVE  (\E i \in 1 .. Len(x) : x[i] = n) \/ (\E i \in 1 .. Len(y) : y[i] = n)
      <4>1. CASE k <= Len(x)
        BY <1>1, <1>2, <3>4, <4>1
      <4>2. CASE ~(k <= Len(x))
        <5>1. k - Len(x) \in 1 .. Len(y) /\ y[k - Len(x)] = n
          BY <1>1, <1>2, <3>4, <4>2
        <5>. QED BY <5>1
      <4>. QED BY <4>1, <4>2
    <3>. QED BY <1>4, <3>1, <3>2, <3>3, <3>4
  <2>5. g.size[l] = Len(t)
    BY <1>2 DEF JoinEffect
  <2>. QED BY <2>2, <2>3, <2>4, <2>5 DEF Linked
<1>9. Chained(g, l, t)
  <2>1. Len(t) # 0 /\ t[Len(t)] = y[Len(y)]
    BY <1>1, <1>2
  <2>2. g.tail[l] = y[Len(y)]
    BY DEF JoinEffect
  <2>. QED BY <1>8, <2>1, <2>2 DEF Chained
<1>10. Chained(g, src, <<>>)
  <2>1. g.head[src] = Nothing /\ g.tail[src] = Nothing /\ g.size[src] = 0
    BY DEF JoinEffect
  <2>2. \A n \in Node : g.container[n] # src
    BY DEF JoinEffect
  <2>3. <<>> \in Seq(Node) /\ Len(<<>>) = 0 /\ 1 .. 0 = {}
    OBVIOUS
  <2>. QED BY <2>1, <2>2, <2>3 DEF Chained, Linked, Follows, Once
<1>11. Spares(h, g, {l, src})
  <2>1. \A m \in Node : h.container[m] \in Lists \ {l, src} => m # x[Len(x)] /\ m # y[1]
    BY <1>1, <1>4
  <2>. QED BY <2>1 DEF Spares, JoinEffect
<1>. QED BY <1>9, <1>10, <1>11 DEF t

-----------------------------------------------------------------------------
(* What swap and move do.                                                     *)

LEMMA SwapDoes ==
  ASSUME NEW h \in HeapT, NEW l \in Lists, NEW s \in Seq(Node), Chained(h, l, s),
         NEW x \in 1 .. Len(s), NEW y \in 1 .. Len(s), x # y
  PROVE  LET g == swap(h, l, s[x], s[y])
         IN g \in HeapT /\ Chained(g, l, Swapped(s, x, y)) /\ Spares(h, g, {l})
<1>. DEFINE n1 == s[x]
            n2 == s[y]
<1>0. Linked(h, l, s)
  BY DEF Chained
<1>1. \A i, j \in 1 .. Len(s) : s[i] = s[j] => i = j
  BY <1>0 DEF Linked, Follows, Once
<1>2. /\ n1 \in Node /\ n2 \in Node /\ n1 # Nothing /\ n2 # Nothing /\ n1 # n2
      /\ h.container[n1] = l /\ h.container[n2] = l /\ h.next[n2] = Succ(s, y) /\ Len(s) \in Nat
  <2>1. n1 \in Node /\ n2 \in Node /\ h.next[n2] = Succ(s, y) /\ Len(s) \in Nat
    BY <1>0, LinkedNeighbours
  <2>2. h.container[n1] = l /\ h.container[n2] = l
    BY <2>1 DEF Chained, Linked
  <2>3. n1 # n2
    BY <1>1
  <2>. QED BY <2>1, <2>2, <2>3, ListAssumption
<1>3. Succ(s, y) = n1 <=> x = y + 1
  <2>1. y < Len(s) => y + 1 \in 1 .. Len(s)
    BY <1>2
  <2>. QED BY <1>1, <1>2, <2>1 DEF Succ
<1>4. swap(h, l, n1, n2) = IF x = y + 1 THEN Crossed(h, l, n2, n1) ELSE Crossed(h, l, n1, n2)
  <2>1. ~(n1 = n2 \/ ~isMember(h, l, n1) \/ ~isMember(h, l, n2))
    BY <1>2 DEF isMember
  <2>2. CASE x = y + 1
    <3>1. h.next[n2] = n1
      BY <1>2, <1>3, <2>2
    <3>2. swap(h, l, n1, n2) = Crossed(h, l, n2, n1)
      <4>. HIDE DEF n1, n2
      <4>. QED BY <2>1, <3>1 DEF swap, Crossed
    <3>. QED BY <2>2, <3>2
  <2>3. CASE x # y + 1
    <3>1. h.next[n2] # n1
      BY <1>2, <1>3, <2>3
    <3>2. swap(h, l, n1, n2) = Crossed(h, l, n1, n2)
      <4>. HIDE DEF n1, n2
      <4>. QED BY <2>1, <3>1 DEF swap, Crossed
    <3>. QED BY <2>3, <3>2
  <2>. QED BY <2>2, <2>3
<1>5. ASSUME NEW a \in 1 .. Len(s), NEW b \in 1 .. Len(s), a # b, a # b + 1
      PROVE  LET g == Crossed(h, l, s[a], s[b])
             IN g \in HeapT /\ Chained(g, l, Swapped(s, a, b)) /\ Spares(h, g, {l})
  <2>. DEFINE g == Crossed(h, l, s[a], s[b])
              t == Swapped(s, a, b)
  <2>1. SwapEffect(h, g, l, s, a, b) /\ g.tail[l] = t[Len(s)]
    BY <1>5, CrossedDoes
  <2>2. g \in HeapT
    BY <2>1 DEF SwapEffect
  <2>3. Linked(g, l, t) /\ Spares(h, g, {l})
    <3>. HIDE DEF g
    <3>. QED BY <1>0, <1>5, <2>1, SwapLinked
  <2>4. Len(t) = Len(s) /\ Len(s) # 0
    BY <1>0, <1>2, SwappedSeq DEF Linked, Follows
  <2>5. Chained(g, l, t)
    <3>. HIDE DEF g, t
    <3>. QED BY <2>1, <2>3, <2>4 DEF Chained
  <2>. QED BY <2>2, <2>3, <2>5
<1>6. CASE x = y + 1
  <2>1. y # x /\ y # x + 1
    BY <1>2, <1>6
  <2>2. Swapped(s, y, x) = Swapped(s, x, y)
    BY DEF Swapped
  <2>. QED BY <1>4, <1>5, <1>6, <2>1, <2>2
<1>7. CASE x # y + 1
  BY <1>4, <1>5, <1>7
<1>. QED BY <1>6, <1>7

(* What moving a list does.                                                   *)
LEMMA MoveDoes ==
  ASSUME NEW h \in HeapT, NEW l \in Lists, NEW src \in Lists, l # src,
         NEW s \in Seq(Node), Chained(h, l, s), NEW t \in Seq(Node), Chained(h, src, t), Len(t) > 0,
         NEW p \in Int, p \in {AT_FRONT, AT_BACK} \/ Len(s) = 0, p >= AT_BACK
  PROVE  LET g == move(h, l, src, p)
         IN /\ g \in HeapT /\ Chained(g, src, <<>>) /\ Spares(h, g, {l, src})
            /\ Chained(g, l, IF Len(s) = 0 THEN t ELSE IF p = AT_FRONT THEN t \o s ELSE s \o t)
<1>. DEFINE owned == [h EXCEPT !.container =
                  [n \in Node |-> IF n \in ToSet(ForwardChain(h, src)) THEN l ELSE @[n]]]
            i == getNodeAtIndex(h, l, p)
            linked ==
              CASE h.head[l] = Nothing ->
                     [owned EXCEPT !.head[l] = h.head[src], !.tail[l] = h.tail[src]]
                [] h.head[l] # Nothing /\ p = AT_FRONT ->
                     [owned EXCEPT !.next[h.tail[src]] = h.head[l],
                                   !.prev[h.head[l]] = h.tail[src], !.head[l] = h.head[src]]
                [] h.head[l] # Nothing /\ p = AT_BACK ->
                     [owned EXCEPT !.next[h.tail[l]] = h.head[src],
                                   !.prev[h.head[src]] = h.tail[l], !.tail[l] = h.tail[src]]
                [] OTHER ->
                     [owned EXCEPT !.next[h.tail[src]] = h.next[i],
                                   !.prev[h.head[src]] = i, !.next[i] = h.head[src]]
            g == clean([linked EXCEPT !.size[l] = @ + h.size[src]], src)
            a == t[1]
            b == t[Len(t)]
<1>1. /\ Len(t) \in Nat /\ Len(s) \in Nat /\ a \in Node /\ a # Nothing /\ b \in Node /\ b # Nothing
      /\ h.head[src] = a /\ h.tail[src] = b /\ h.size[src] = Len(t) /\ h.size[l] = Len(s)
  <2>1. Len(t) \in Nat /\ Len(s) \in Nat /\ 1 \in 1 .. Len(t) /\ Len(t) \in 1 .. Len(t) /\ Len(t) # 0
    BY AsFunction
  <2>2. a \in Node /\ a # Nothing /\ b \in Node /\ b # Nothing
    BY <2>1, AsFunction
  <2>3. h.head[src] = a /\ h.tail[src] = b /\ h.size[src] = Len(t) /\ h.size[l] = Len(s)
    BY <2>1 DEF Chained, Linked, Follows
  <2>. QED BY <2>1, <2>2, <2>3
<1>2. move(h, l, src, p) = g
  <2>1. ~(h.head[src] = Nothing \/ p < AT_BACK)
    BY <1>1 DEF AT_BACK
  <2>. QED BY <2>1 DEF move
<1>3. \A n \in Node : n \in ToSet(ForwardChain(h, src)) <=> h.container[n] = src
  <2>1. ForwardChain(h, src) = t
    BY ChainIs DEF ForwardChain, Chained, Linked
  <2>2. DOMAIN t = 1 .. Len(t)
    BY AsFunction
  <2>3. \A n \in Node : h.container[n] = src <=> \E j \in 1 .. Len(t) : t[j] = n
    BY DEF Chained, Linked
  <2>. QED BY <2>1, <2>2, <2>3 DEF ToSet
<1>4. /\ owned \in HeapT /\ owned.next = h.next /\ owned.prev = h.prev /\ owned.head = h.head
      /\ owned.tail = h.tail /\ owned.size = h.size
      /\ \A n \in Node : owned.container[n] = IF h.container[n] = src THEN l ELSE h.container[n]
  <2>. DEFINE c == [n \in Node |-> IF n \in ToSet(ForwardChain(h, src)) THEN l ELSE h.container[n]]
  <2>1. c \in [Node -> Lists \cup {Nothing}]
    BY DEF HeapT
  <2>2. \A n \in Node : c[n] = IF h.container[n] = src THEN l ELSE h.container[n]
    BY <1>3
  <2>3. owned = [h EXCEPT !.container = c]
    OBVIOUS
  <2>. HIDE DEF c, owned
  <2>4. /\ owned \in HeapT /\ owned.next = h.next /\ owned.prev = h.prev /\ owned.head = h.head
        /\ owned.tail = h.tail /\ owned.size = h.size /\ owned.container = c
    BY <2>1, <2>3 DEF HeapT
  <2>. QED BY <2>2, <2>4
<1>5. ASSUME linked \in HeapT, linked.size = h.size
      PROVE  /\ g \in HeapT /\ g.next = linked.next /\ g.prev = linked.prev
             /\ g.container = linked.container
             /\ g.head = [linked.head EXCEPT ![src] = Nothing]
             /\ g.tail = [linked.tail EXCEPT ![src] = Nothing]
             /\ \A m \in Lists : g.size[m] = IF m = l THEN Len(s) + Len(t)
                                             ELSE IF m = src THEN 0 ELSE h.size[m]
  <2>. HIDE DEF linked
  <2>. DEFINE k == [linked EXCEPT !.size[l] = @ + h.size[src]]
  <2>1. /\ k \in HeapT /\ k.next = linked.next /\ k.prev = linked.prev /\ k.container = linked.container
        /\ k.head = linked.head /\ k.tail = linked.tail
        /\ k.size = [h.size EXCEPT ![l] = Len(s) + Len(t)]
    <3>1. linked.size[l] + h.size[src] = Len(s) + Len(t) /\ Len(s) + Len(t) \in Nat
      BY <1>1, <1>5
    <3>2. k = [linked EXCEPT !.size[l] = Len(s) + Len(t)]
      BY <3>1
    <3>. HIDE DEF k
    <3>. QED BY <1>5, <3>1, <3>2 DEF HeapT
  <2>2. g = clean(k, src)
    OBVIOUS
  <2>. HIDE DEF k, g
  <2>3. g = [k EXCEPT !.head[src] = Nothing, !.tail[src] = Nothing, !.size[src] = 0]
    BY <2>2 DEF clean
  <2>4. /\ g \in HeapT /\ g.next = k.next /\ g.prev = k.prev /\ g.container = k.container
        /\ g.head = [k.head EXCEPT ![src] = Nothing] /\ g.tail = [k.tail EXCEPT ![src] = Nothing]
        /\ g.size = [k.size EXCEPT ![src] = 0]
    BY <2>1, <2>3 DEF HeapT, Link
  <2>5. h.size \in [Lists -> Nat]
    BY DEF HeapT
  <2>. QED BY <2>1, <2>4, <2>5
<1>6. h.next \in [Node -> Link] /\ h.prev \in [Node -> Link] /\ h.head \in [Lists -> Link] /\ h.tail \in [Lists -> Link]
  BY DEF HeapT
<1>7. CASE Len(s) = 0
  <2>1. h.head[l] = Nothing
    BY <1>7 DEF Chained, Linked, Follows
  <2>2. linked = [owned EXCEPT !.head[l] = a, !.tail[l] = b]
    BY <1>1, <2>1
  <2>. HIDE DEF a, b, owned
  <2>3. /\ linked \in HeapT /\ linked.size = h.size /\ linked.next = h.next /\ linked.prev = h.prev
        /\ linked.container = owned.container
        /\ linked.head = [h.head EXCEPT ![l] = a] /\ linked.tail = [h.tail EXCEPT ![l] = b]
    <3>. HIDE DEF linked
    <3>. QED BY <1>1, <1>4, <2>2 DEF HeapT, Link
  <2>4. /\ g \in HeapT /\ g.next = h.next /\ g.prev = h.prev
        /\ g.container = owned.container
        /\ g.head = [linked.head EXCEPT ![src] = Nothing]
        /\ g.tail = [linked.tail EXCEPT ![src] = Nothing]
        /\ \A m \in Lists : g.size[m] = IF m = l THEN Len(s) + Len(t) ELSE IF m = src THEN 0 ELSE h.size[m]
    BY <1>5, <2>3
  <2>. HIDE DEF linked, g
  <2>5. /\ \A m \in Lists : g.head[m] = IF m = l THEN a ELSE IF m = src THEN Nothing ELSE h.head[m]
        /\ \A m \in Lists : g.tail[m] = IF m = l THEN b ELSE IF m = src THEN Nothing ELSE h.tail[m]
    BY <1>6, <2>3, <2>4
  <2>6. \A n \in Node : g.container[n] = IF h.container[n] = src THEN l ELSE h.container[n]
    BY <1>4, <2>4
  <2>7. \A n \in Node : h.container[n] # l
    BY <1>7 DEF Chained, Linked
  <2>8. Chained(g, l, t)
    <3>1. Follows(t, g.head[l], g.next)
      BY <1>1, <2>4, <2>5 DEF Chained, Linked, Follows, a
    <3>2. g.tail[l] = IF Len(t) = 0 THEN Nothing ELSE t[Len(t)]
      BY <1>1, <2>5 DEF b
    <3>3. g.size[l] = Len(t)
      BY <1>1, <1>7, <2>4
    <3>4. \A n \in Node : g.container[n] = l <=> \E j \in 1 .. Len(t) : t[j] = n
      BY <2>6, <2>7 DEF Chained, Linked
    <3>. QED BY <2>4, <3>1, <3>2, <3>3, <3>4 DEF Chained, Linked
  <2>9. Chained(g, src, <<>>)
    <3>1. <<>> \in Seq(Node) /\ Len(<<>>) = 0 /\ 1 .. 0 = {}
      OBVIOUS
    <3>2. \A n \in Node : g.container[n] # src
      BY <2>6
    <3>. QED BY <2>4, <2>5, <3>1, <3>2 DEF Chained, Linked, Follows, Once
  <2>10. Spares(h, g, {l, src})
    BY <2>4, <2>5, <2>6 DEF Spares
  <2>. QED BY <1>2, <1>7, <2>4, <2>8, <2>9, <2>10
<1>8. CASE Len(s) # 0
  <2>. DEFINE c == s[1]
              d == s[Len(s)]
  <2>1. c \in Node /\ c # Nothing /\ d \in Node /\ d # Nothing /\ h.head[l] = c /\ h.tail[l] = d /\ Len(s) > 0
    <3>1. 1 \in 1 .. Len(s) /\ Len(s) \in 1 .. Len(s) /\ Len(s) > 0
      BY <1>1, <1>8
    <3>2. c \in Node /\ c # Nothing /\ d \in Node /\ d # Nothing
      BY <3>1, AsFunction
    <3>. QED BY <1>8, <3>1, <3>2 DEF Chained, Linked, Follows
  <2>2. CASE p = AT_FRONT
    <3>1. linked = [owned EXCEPT !.next[b] = c, !.prev[c] = b, !.head[l] = a]
      BY <1>1, <2>1, <2>2 DEF AT_FRONT, AT_BACK
    <3>. HIDE DEF a, b, c, d, owned
    <3>2. /\ linked \in HeapT /\ linked.size = h.size /\ linked.container = owned.container
          /\ linked.next = [h.next EXCEPT ![b] = c] /\ linked.prev = [h.prev EXCEPT ![c] = b]
          /\ linked.head = [h.head EXCEPT ![l] = a] /\ linked.tail = h.tail
      <4>. HIDE DEF linked
      <4>. QED BY <1>1, <1>4, <2>1, <3>1 DEF HeapT, Link
    <3>3. /\ g \in HeapT /\ g.next = linked.next /\ g.prev = linked.prev
          /\ g.container = owned.container
          /\ g.head = [linked.head EXCEPT ![src] = Nothing]
          /\ g.tail = [linked.tail EXCEPT ![src] = Nothing]
          /\ \A m \in Lists : g.size[m] = IF m = l THEN Len(s) + Len(t) ELSE IF m = src THEN 0 ELSE h.size[m]
      BY <1>5, <3>2
    <3>. HIDE DEF linked, g
    <3>4. JoinEffect(h, g, l, src, t, s)
      <4>1. \A m \in Node : g.next[m] = IF m = b THEN c ELSE h.next[m]
        BY <1>6, <3>2, <3>3
      <4>2. \A m \in Node : g.prev[m] = IF m = c THEN b ELSE h.prev[m]
        BY <1>6, <3>2, <3>3
      <4>3. \A m \in Lists : g.head[m] = IF m = l THEN a ELSE IF m = src THEN Nothing ELSE h.head[m]
        BY <1>6, <3>2, <3>3
      <4>4. \A m \in Lists : g.tail[m] = IF m = l THEN d ELSE IF m = src THEN Nothing ELSE h.tail[m]
        BY <1>6, <2>1, <3>2, <3>3
      <4>5. \A m \in Lists : g.size[m] = IF m = l THEN Len(t) + Len(s) ELSE IF m = src THEN 0 ELSE h.size[m]
        BY <1>1, <3>3
      <4>6. \A n \in Node : g.container[n] = IF h.container[n] = src THEN l ELSE h.container[n]
        BY <1>4, <3>3
      <4>. QED BY <3>3, <4>1, <4>2, <4>3, <4>4, <4>5, <4>6 DEF JoinEffect, a, b, c, d
    <3>5. Chained(g, l, t \o s) /\ Chained(g, src, <<>>) /\ Spares(h, g, {l, src})
      BY <2>1, <3>4, JoinChained
    <3>. QED BY <1>2, <1>8, <2>2, <3>3, <3>5
  <2>3. CASE p = AT_BACK
    <3>0. p # AT_FRONT
      BY <2>3 DEF AT_FRONT, AT_BACK
    <3>1. linked = [owned EXCEPT !.next[d] = a, !.prev[a] = d, !.tail[l] = b]
      BY <1>1, <2>1, <2>3, <3>0
    <3>. HIDE DEF a, b, c, d, owned
    <3>2. /\ linked \in HeapT /\ linked.size = h.size /\ linked.container = owned.container
          /\ linked.next = [h.next EXCEPT ![d] = a] /\ linked.prev = [h.prev EXCEPT ![a] = d]
          /\ linked.tail = [h.tail EXCEPT ![l] = b] /\ linked.head = h.head
      <4>. HIDE DEF linked
      <4>. QED BY <1>1, <1>4, <2>1, <3>1 DEF HeapT, Link
    <3>3. /\ g \in HeapT /\ g.next = linked.next /\ g.prev = linked.prev
          /\ g.container = owned.container
          /\ g.head = [linked.head EXCEPT ![src] = Nothing]
          /\ g.tail = [linked.tail EXCEPT ![src] = Nothing]
          /\ \A m \in Lists : g.size[m] = IF m = l THEN Len(s) + Len(t) ELSE IF m = src THEN 0 ELSE h.size[m]
      BY <1>5, <3>2
    <3>. HIDE DEF linked, g
    <3>4. JoinEffect(h, g, l, src, s, t)
      <4>1. \A m \in Node : g.next[m] = IF m = d THEN a ELSE h.next[m]
        BY <1>6, <3>2, <3>3
      <4>2. \A m \in Node : g.prev[m] = IF m = a THEN d ELSE h.prev[m]
        BY <1>6, <3>2, <3>3
      <4>3. \A m \in Lists : g.head[m] = IF m = l THEN c ELSE IF m = src THEN Nothing ELSE h.head[m]
        BY <1>6, <2>1, <3>2, <3>3
      <4>4. \A m \in Lists : g.tail[m] = IF m = l THEN b ELSE IF m = src THEN Nothing ELSE h.tail[m]
        BY <1>6, <3>2, <3>3
      <4>6. \A n \in Node : g.container[n] = IF h.container[n] = src THEN l ELSE h.container[n]
        BY <1>4, <3>3
      <4>. QED BY <3>3, <4>1, <4>2, <4>3, <4>4, <4>6 DEF JoinEffect, a, b, c, d
    <3>5. Chained(g, l, s \o t) /\ Chained(g, src, <<>>) /\ Spares(h, g, {l, src})
      BY <2>1, <3>4, JoinChained
    <3>. QED BY <1>2, <1>8, <3>0, <3>3, <3>5
  <2>. QED BY <1>8, <2>2, <2>3
<1>. QED BY <1>7, <1>8

-----------------------------------------------------------------------------
(* The same, said of sequences.                                               *)

(* Cutting a piece out of a sequence, and gluing two.                         *)
LEMMA PieceOf ==
  ASSUME NEW s \in Seq(Node), NEW a \in 1 .. Len(s) + 1, NEW b \in a - 1 .. Len(s)
  PROVE  /\ SubSeq(s, a, b) \in Seq(Node) /\ Len(SubSeq(s, a, b)) = b - a + 1
         /\ \A i \in 1 .. b - a + 1 : SubSeq(s, a, b)[i] = s[a + i - 1]
BY SubSeqProperties

LEMMA GluedOf ==
  ASSUME NEW s \in Seq(Node), NEW t \in Seq(Node)
  PROVE  /\ s \o t \in Seq(Node) /\ Len(s \o t) = Len(s) + Len(t)
         /\ \A i \in 1 .. Len(s) + Len(t) : (s \o t)[i] = IF i <= Len(s) THEN s[i] ELSE t[i - Len(s)]
BY ConcatProperties

LEMMA InToSet ==
  ASSUME NEW s \in Seq(Node), NEW n
  PROVE  n \in ToSet(s) <=> \E i \in 1 .. Len(s) : s[i] = n
BY AsFunction DEF ToSet

(* The sequence form of an insertion.                                         *)
LEMMA PlaceAtIs ==
  ASSUME NEW s, Once(s), NEW n \in Node, \A i \in 1 .. Len(s) : s[i] # n,
         NEW p \in Int, p >= AT_BACK,
         p \in {AT_FRONT, AT_BACK} \/ Len(s) = 0 \/ p + 1 \in 1 .. Len(s) - 1
  PROVE  PlaceAt(s, <<n>>, p) = Spliced(s, PlaceOf(s, p), n)
<1>. DEFINE k == PlaceOf(s, p)
            t == Spliced(s, k, n)
            u == <<n>>
<1>1. s \in Seq(Node) /\ Len(s) \in Nat /\ k \in 0 .. Len(s)
  BY AsFunction DEF Once, PlaceOf, AT_FRONT, AT_BACK
<1>2. u \in Seq(Node) /\ Len(u) = 1 /\ u[1] = n
  OBVIOUS
<1>3. /\ t \in Seq(Node) /\ Len(t) = Len(s) + 1
      /\ \A i \in 1 .. Len(s) + 1 : t[i] = IF i <= k THEN s[i] ELSE IF i = k + 1 THEN n ELSE s[i - 1]
  <2>. HIDE DEF k
  <2>. QED BY <1>1, SplicedSeq DEF Once
<1>4. s = <<>> <=> Len(s) = 0
  BY <1>1, EmptySeq
<1>. HIDE DEF t, u
<1>5. CASE Len(s) = 0 \/ p = AT_FRONT
  <2>1. k = 0 /\ PlaceAt(s, u, p) = u \o s
    BY <1>4, <1>5 DEF PlaceOf, PlaceAt, AT_FRONT, AT_BACK
  <2>. HIDE DEF k
  <2>2. /\ u \o s \in Seq(Node) /\ Len(u \o s) = 1 + Len(s)
        /\ \A i \in 1 .. 1 + Len(s) : (u \o s)[i] = IF i <= 1 THEN u[i] ELSE s[i - 1]
    <3>1. /\ u \o s \in Seq(Node) /\ Len(u \o s) = Len(u) + Len(s)
          /\ \A i \in 1 .. Len(u) + Len(s) : (u \o s)[i] = IF i <= Len(u) THEN u[i] ELSE s[i - Len(u)]
      BY ONLY <1>1, <1>2, GluedOf
    <3>. QED BY <1>2, <3>1
  <2>3. \A i \in 1 .. Len(s) + 1 : (u \o s)[i] = t[i]
    BY <1>1, <1>2, <1>3, <2>1, <2>2
  <2>4. u \o s = t
    BY <1>1, <1>3, <2>2, <2>3, SeqEqual
  <2>. QED BY <2>1, <2>4 DEF t, k, u
<1>6. CASE Len(s) # 0 /\ p = AT_BACK
  <2>1. k = Len(s) /\ PlaceAt(s, u, p) = s \o u
    BY <1>4, <1>6 DEF PlaceOf, PlaceAt, AT_FRONT, AT_BACK
  <2>. HIDE DEF k
  <2>2. /\ s \o u \in Seq(Node) /\ Len(s \o u) = Len(s) + 1
        /\ \A i \in 1 .. Len(s) + 1 : (s \o u)[i] = IF i <= Len(s) THEN s[i] ELSE u[i - Len(s)]
    <3>1. /\ s \o u \in Seq(Node) /\ Len(s \o u) = Len(s) + Len(u)
          /\ \A i \in 1 .. Len(s) + Len(u) : (s \o u)[i] = IF i <= Len(s) THEN s[i] ELSE u[i - Len(s)]
      BY ONLY <1>1, <1>2, GluedOf
    <3>. QED BY <1>2, <3>1
  <2>3. \A i \in 1 .. Len(s) + 1 : (s \o u)[i] = t[i]
    BY <1>1, <1>2, <1>3, <2>1, <2>2
  <2>4. s \o u = t
    BY <1>1, <1>3, <2>2, <2>3, SeqEqual
  <2>. QED BY <2>1, <2>4 DEF t, k, u
<1>7. CASE Len(s) # 0 /\ p \notin {AT_FRONT, AT_BACK}
  <2>0. p + 1 \in 1 .. Len(s) - 1
    BY <1>7
  <2>1. k = p + 1 /\ PlaceAt(s, u, p) = SubSeq(s, 1, p + 1) \o u \o SubSeq(s, p + 2, Len(s))
    BY <1>4, <1>7 DEF PlaceOf, PlaceAt
  <2>. DEFINE a == SubSeq(s, 1, k)
              b == SubSeq(s, k + 1, Len(s))
  <2>2. PlaceAt(s, u, p) = (a \o u) \o b /\ k \in Nat /\ k >= 1 /\ k < Len(s)
    BY <1>1, <2>0, <2>1
  <2>. HIDE DEF k
  <2>3. /\ a \in Seq(Node) /\ Len(a) = k /\ \A i \in 1 .. k : a[i] = s[i]
    <3>1. 1 \in 1 .. Len(s) + 1 /\ k \in 1 - 1 .. Len(s) /\ k - 1 + 1 = k
      BY <1>1, <2>2
    <3>2. a \in Seq(Node) /\ Len(a) = k /\ \A i \in 1 .. k : a[i] = s[1 + i - 1]
      BY <1>1, <3>1, PieceOf
    <3>. QED BY <2>2, <3>2
  <2>4. /\ b \in Seq(Node) /\ Len(b) = Len(s) - k /\ \A i \in 1 .. Len(s) - k : b[i] = s[k + i]
    <3>1. k + 1 \in 1 .. Len(s) + 1 /\ Len(s) \in (k + 1) - 1 .. Len(s) /\ Len(s) - (k + 1) + 1 = Len(s) - k
      BY <1>1, <2>2
    <3>2. b \in Seq(Node) /\ Len(b) = Len(s) - k /\ \A i \in 1 .. Len(s) - k : b[i] = s[(k + 1) + i - 1]
      BY <1>1, <3>1, PieceOf
    <3>. QED BY <1>1, <2>2, <3>2
  <2>. HIDE DEF a, b
  <2>5. /\ a \o u \in Seq(Node) /\ Len(a \o u) = k + 1
        /\ \A i \in 1 .. k + 1 : (a \o u)[i] = IF i <= k THEN a[i] ELSE u[i - k]
    <3>1. /\ a \o u \in Seq(Node) /\ Len(a \o u) = Len(a) + Len(u)
          /\ \A i \in 1 .. Len(a) + Len(u) : (a \o u)[i] = IF i <= Len(a) THEN a[i] ELSE u[i - Len(a)]
      BY ONLY <1>2, <2>3, GluedOf
    <3>. QED BY <1>2, <2>3, <3>1
  <2>. DEFINE c == a \o u
  <2>. HIDE DEF c
  <2>6. /\ c \o b \in Seq(Node) /\ Len(c \o b) = Len(s) + 1
        /\ \A i \in 1 .. Len(s) + 1 : (c \o b)[i] = IF i <= k + 1 THEN c[i] ELSE b[i - (k + 1)]
    <3>1. c \in Seq(Node) /\ Len(c) = k + 1 /\ Len(c) + Len(b) = Len(s) + 1
      BY <1>1, <2>2, <2>4, <2>5 DEF c
    <3>2. /\ c \o b \in Seq(Node) /\ Len(c \o b) = Len(c) + Len(b)
          /\ \A i \in 1 .. Len(c) + Len(b) : (c \o b)[i] = IF i <= Len(c) THEN c[i] ELSE b[i - Len(c)]
      BY <2>4, <3>1, GluedOf
    <3>. QED BY <3>1, <3>2
  <2>7. ASSUME NEW i \in 1 .. Len(s) + 1 PROVE (c \o b)[i] = t[i]
    <3>1. CASE i <= k
      <4>1. c[i] = a[i] /\ a[i] = s[i]
        BY <2>2, <2>3, <2>5, <3>1 DEF c
      <4>. QED BY <1>3, <2>2, <2>6, <3>1, <4>1
    <3>2. CASE i = k + 1
      <4>1. c[i] = u[1]
        BY <2>2, <2>5, <3>2 DEF c
      <4>. QED BY <1>2, <1>3, <2>2, <2>6, <3>2, <4>1
    <3>3. CASE i > k + 1
      <4>1. i - (k + 1) \in 1 .. Len(s) - k /\ k + (i - (k + 1)) = i - 1
        BY <1>1, <2>2, <3>3
      <4>2. b[i - (k + 1)] = s[i - 1]
        BY <2>4, <4>1
      <4>. QED BY <1>1, <1>3, <2>2, <2>6, <3>3, <4>2
    <3>4. i <= k \/ i = k + 1 \/ i > k + 1
      BY <1>1, <2>2
    <3>. QED BY <3>1, <3>2, <3>3, <3>4
  <2>8. c \o b = t
    BY <1>1, <1>3, <2>6, <2>7, SeqEqual
  <2>. QED BY <2>2, <2>8 DEF c, t, k, u
<1>. QED BY <1>5, <1>6, <1>7

(* The sequence form of a removal.                                            *)
LEMMA RemoveAtIs ==
  ASSUME NEW s, Once(s), NEW k \in 1 .. Len(s)
  PROVE  RemoveAt(s, k) = Shortened(s, k)
<1>. DEFINE t == Shortened(s, k)
            a == SubSeq(s, 1, k - 1)
            b == SubSeq(s, k + 1, Len(s))
<1>1. s \in Seq(Node) /\ Len(s) \in Nat /\ k \in Nat /\ k >= 1 /\ k <= Len(s)
  BY AsFunction DEF Once
<1>2. /\ t \in Seq(Node) /\ Len(t) = Len(s) - 1
      /\ \A i \in 1 .. Len(s) - 1 : t[i] = IF i < k THEN s[i] ELSE s[i + 1]
  BY ShortenedSeq DEF Once
<1>3. /\ a \in Seq(Node) /\ Len(a) = k - 1 /\ \A i \in 1 .. k - 1 : a[i] = s[i]
  <2>1. 1 \in 1 .. Len(s) + 1 /\ k - 1 \in 1 - 1 .. Len(s) /\ (k - 1) - 1 + 1 = k - 1
    BY <1>1
  <2>2. a \in Seq(Node) /\ Len(a) = k - 1 /\ \A i \in 1 .. k - 1 : a[i] = s[1 + i - 1]
    BY <1>1, <2>1, PieceOf
  <2>. QED BY <1>1, <2>2
<1>4. /\ b \in Seq(Node) /\ Len(b) = Len(s) - k /\ \A i \in 1 .. Len(s) - k : b[i] = s[k + i]
  <2>1. k + 1 \in 1 .. Len(s) + 1 /\ Len(s) \in (k + 1) - 1 .. Len(s) /\ Len(s) - (k + 1) + 1 = Len(s) - k
    BY <1>1
  <2>2. b \in Seq(Node) /\ Len(b) = Len(s) - k /\ \A i \in 1 .. Len(s) - k : b[i] = s[(k + 1) + i - 1]
    BY <1>1, <2>1, PieceOf
  <2>. QED BY <1>1, <2>2
<1>5. RemoveAt(s, k) = a \o b
  BY DEF RemoveAt
<1>. HIDE DEF a, b, t
<1>6. /\ a \o b \in Seq(Node) /\ Len(a \o b) = Len(s) - 1
      /\ \A i \in 1 .. Len(s) - 1 : (a \o b)[i] = IF i <= k - 1 THEN a[i] ELSE b[i - (k - 1)]
  <2>1. Len(a) + Len(b) = Len(s) - 1
    BY <1>1, <1>3, <1>4
  <2>2. /\ a \o b \in Seq(Node) /\ Len(a \o b) = Len(a) + Len(b)
        /\ \A i \in 1 .. Len(a) + Len(b) : (a \o b)[i] = IF i <= Len(a) THEN a[i] ELSE b[i - Len(a)]
    BY <1>3, <1>4, GluedOf
  <2>. QED BY <1>3, <2>1, <2>2
<1>7. ASSUME NEW i \in 1 .. Len(s) - 1 PROVE (a \o b)[i] = t[i]
  <2>1. CASE i <= k - 1
    BY <1>1, <1>2, <1>3, <1>6, <2>1
  <2>2. CASE i > k - 1
    <3>1. i - (k - 1) \in 1 .. Len(s) - k /\ k + (i - (k - 1)) = i + 1
      BY <1>1, <2>2
    <3>2. b[i - (k - 1)] = s[i + 1]
      BY <1>4, <3>1
    <3>3. (a \o b)[i] = b[i - (k - 1)]
      BY <1>1, <1>6, <2>2
    <3>4. t[i] = s[i + 1]
      BY <1>1, <1>2, <2>2
    <3>. QED BY <3>2, <3>3, <3>4
  <2>3. i <= k - 1 \/ i > k - 1
    BY <1>1
  <2>. QED BY <2>1, <2>2, <2>3
<1>8. a \o b = t
  BY <1>1, <1>2, <1>6, <1>7, SeqEqual
<1>. QED BY <1>5, <1>8 DEF t

LEMMA WithoutIs ==
  ASSUME NEW s, Once(s), NEW k \in 1 .. Len(s)
  PROVE  Without(s, s[k]) = Shortened(s, k)
<1>1. s \in Seq(Node) /\ DOMAIN s = 1 .. Len(s)
  BY AsFunction DEF Once
<1>. DEFINE c == CHOOSE i \in DOMAIN s : s[i] = s[k]
<1>2. c \in 1 .. Len(s) /\ s[c] = s[k]
  BY <1>1
<1>3. c = k
  BY <1>2 DEF Once
<1>4. s[k] \in ToSet(s)
  BY <1>1, InToSet
<1>5. Without(s, s[k]) = RemoveAt(s, c)
  BY <1>4 DEF Without
<1>. HIDE DEF c
<1>. QED BY <1>3, <1>5, RemoveAtIs

LEMMA WithoutAtIs ==
  ASSUME NEW s, Once(s), Len(s) > 0, NEW p \in Int,
         p \in {AT_FRONT, AT_BACK} \/ p \in 1 .. Len(s) - 2
  PROVE  WithoutAt(s, p) = Shortened(s, PlaceToCut(s, p))
<1>1. s \in Seq(Node) /\ Len(s) \in Nat /\ s # <<>>
  BY AsFunction, EmptySeq DEF Once
<1>2. CASE p = AT_FRONT
  <2>. DEFINE t == Shortened(s, 1)
  <2>1. WithoutAt(s, p) = Tail(s) /\ PlaceToCut(s, p) = 1
    BY <1>1, <1>2 DEF WithoutAt, PlaceToCut, AT_FRONT, AT_BACK
  <2>2. 1 \in 1 .. Len(s)
    BY <1>1
  <2>3. /\ t \in Seq(Node) /\ Len(t) = Len(s) - 1
        /\ \A i \in 1 .. Len(s) - 1 : t[i] = IF i < 1 THEN s[i] ELSE s[i + 1]
    BY <2>2, ShortenedSeq DEF Once
  <2>4. Tail(s) \in Seq(Node) /\ Len(Tail(s)) = Len(s) - 1
        /\ \A i \in 1 .. Len(s) - 1 : Tail(s)[i] = s[i + 1]
    BY <1>1, HeadTailProperties
  <2>. HIDE DEF t
  <2>5. Tail(s) = t
    BY <1>1, <2>3, <2>4, SeqEqual
  <2>. QED BY <2>1, <2>5 DEF t
<1>3. CASE p = AT_BACK
  <2>. DEFINE t == Shortened(s, Len(s))
              u == SubSeq(s, 1, Len(s) - 1)
  <2>1. WithoutAt(s, p) = u /\ PlaceToCut(s, p) = Len(s)
    BY <1>1, <1>3 DEF WithoutAt, PlaceToCut, AT_FRONT, AT_BACK, Front
  <2>2. Len(s) \in 1 .. Len(s)
    BY <1>1
  <2>3. /\ t \in Seq(Node) /\ Len(t) = Len(s) - 1
        /\ \A i \in 1 .. Len(s) - 1 : t[i] = IF i < Len(s) THEN s[i] ELSE s[i + 1]
    BY <2>2, ShortenedSeq DEF Once
  <2>4. /\ u \in Seq(Node) /\ Len(u) = Len(s) - 1 /\ \A i \in 1 .. Len(s) - 1 : u[i] = s[i]
    <3>1. 1 \in 1 .. Len(s) + 1 /\ Len(s) - 1 \in 1 - 1 .. Len(s) /\ (Len(s) - 1) - 1 + 1 = Len(s) - 1
      BY <1>1
    <3>2. u \in Seq(Node) /\ Len(u) = Len(s) - 1 /\ \A i \in 1 .. Len(s) - 1 : u[i] = s[1 + i - 1]
      BY <1>1, <3>1, PieceOf
    <3>. QED BY <1>1, <3>2
  <2>. HIDE DEF t, u
  <2>5. u = t
    BY <1>1, <2>3, <2>4, SeqEqual
  <2>. QED BY <2>1, <2>5 DEF t
<1>4. CASE p \notin {AT_FRONT, AT_BACK}
  <2>1. p + 1 \in 1 .. Len(s)
    BY <1>1, <1>4
  <2>2. WithoutAt(s, p) = RemoveAt(s, p + 1) /\ PlaceToCut(s, p) = p + 1
    BY <1>1, <1>4 DEF WithoutAt, PlaceToCut
  <2>. QED BY <2>1, <2>2, RemoveAtIs
<1>. QED BY <1>2, <1>3, <1>4

(* The sequence form of an exchange.                                          *)
LEMMA ExchangedIs ==
  ASSUME NEW s, Once(s), NEW x \in 1 .. Len(s), NEW y \in 1 .. Len(s)
  PROVE  Exchanged(s, s[x], s[y]) = Swapped(s, x, y)
<1>1. s \in Seq(Node) /\ DOMAIN s = 1 .. Len(s)
  BY AsFunction DEF Once
<1>2. s[x] \in ToSet(s) /\ s[y] \in ToSet(s)
  BY <1>1, InToSet
<1>3. \A i, j \in 1 .. Len(s) : s[i] = s[j] => i = j
  BY DEF Once
<1>4. \A i \in 1 .. Len(s) : (s[i] = s[x] <=> i = x) /\ (s[i] = s[y] <=> i = y)
  BY <1>3
<1>. QED BY <1>1, <1>2, <1>4 DEF Exchanged, Swapped

-----------------------------------------------------------------------------
(* The sort: order and stability.                                             *)

LEMMA SparesChain ==
  ASSUME NEW h, NEW g, NEW k, NEW L, Spares(h, g, L), Spares(g, k, L)
  PROVE  Spares(h, k, L)
<1>1. \A m \in Lists \ L : k.head[m] = h.head[m] /\ k.tail[m] = h.tail[m] /\ k.size[m] = h.size[m]
  BY DEF Spares
<1>2. \A n \in Node, m \in Lists \ L : k.container[n] = m <=> h.container[n] = m
  BY DEF Spares
<1>3. ASSUME NEW n \in Node, h.container[n] \in Lists \ L
      PROVE  k.next[n] = h.next[n] /\ k.prev[n] = h.prev[n]
  <2>1. g.container[n] = h.container[n]
    BY <1>3 DEF Spares
  <2>. QED BY <1>3, <2>1 DEF Spares
<1>. QED BY <1>1, <1>2, <1>3 DEF Spares

(* t is s in another order that leaves equal nodes in theirs.                 *)
Arranges(s, t) ==
  /\ Once(t) /\ Len(t) = Len(s)
  /\ \A i \in 1 .. Len(s) : \E a \in 1 .. Len(s) : s[a] = t[i]
  /\ \A i, j \in 1 .. Len(s) :
       i < j /\ Key[t[i]] = Key[t[j]]
         => \E a, b \in 1 .. Len(s) : a < b /\ s[a] = t[i] /\ s[b] = t[j]

LEMMA ArrangesItself ==
  ASSUME NEW s, Once(s)
  PROVE  Arranges(s, s)
BY DEF Arranges

LEMMA SwapArranges ==
  ASSUME NEW s \in Seq(Node), NEW t \in Seq(Node), Arranges(s, t), NEW k \in 1 .. Len(t), k < Len(t),
         goesAfter(t[k], t[k + 1])
  PROVE  Arranges(s, Swapped(t, k, k + 1))
<1>. DEFINE u == Swapped(t, k, k + 1)
<1>1. Once(t) /\ Len(t) = Len(s) /\ Len(s) \in Nat /\ k + 1 \in 1 .. Len(t) /\ k \in Nat
  BY AsFunction DEF Arranges
<1>2. /\ Once(u) /\ Len(u) = Len(t)
      /\ \A i \in 1 .. Len(t) : u[i] = IF i = k THEN t[k + 1] ELSE IF i = k + 1 THEN t[k] ELSE t[i]
  <2>. HIDE DEF u
  <2>. QED BY <1>1, SwappedSeq DEF u
<1>. HIDE DEF u
<1>. DEFINE back(m) == IF m = k THEN k + 1 ELSE IF m = k + 1 THEN k ELSE m
<1>6. \A m \in 1 .. Len(s) : back(m) \in 1 .. Len(s) /\ u[m] = t[back(m)]
  BY <1>1, <1>2
<1>3. ASSUME NEW i \in 1 .. Len(s) PROVE \E a \in 1 .. Len(s) : s[a] = u[i]
  <2>1. back(i) \in 1 .. Len(s) /\ u[i] = t[back(i)]
    BY <1>6
  <2>2. \A m \in 1 .. Len(s) : \E a \in 1 .. Len(s) : s[a] = t[m]
    BY DEF Arranges
  <2>. HIDE DEF back
  <2>3. \E a \in 1 .. Len(s) : s[a] = t[back(i)]
    BY <2>1, <2>2
  <2>. QED BY <2>1, <2>3
<1>4. ASSUME NEW i \in 1 .. Len(s), NEW j \in 1 .. Len(s), i < j, Key[u[i]] = Key[u[j]]
      PROVE  \E a, b \in 1 .. Len(s) : a < b /\ s[a] = u[i] /\ s[b] = u[j]
  <2>1. back(i) \in 1 .. Len(s) /\ back(j) \in 1 .. Len(s) /\ u[i] = t[back(i)] /\ u[j] = t[back(j)]
    BY <1>6
  <2>2. t[k] \in Node /\ t[k + 1] \in Node /\ Key[t[k]] # Key[t[k + 1]]
    <3>1. t[k] \in Node /\ t[k + 1] \in Node
      BY <1>1, AsFunction
    <3>2. Key[t[k]] \in Int /\ Key[t[k + 1]] \in Int /\ Key[t[k]] > Key[t[k + 1]]
      BY <3>1, ListAssumption DEF goesAfter
    <3>. QED BY <3>1, <3>2
  <2>3. ~(i = k /\ j = k + 1)
    BY <1>2, <1>1, <1>4, <2>2
  <2>4. back(i) < back(j)
    BY <1>1, <1>4, <2>3
  <2>. HIDE DEF back
  <2>5. Key[t[back(i)]] = Key[t[back(j)]]
    BY <1>4, <2>1
  <2>6. \E a, b \in 1 .. Len(s) : a < b /\ s[a] = t[back(i)] /\ s[b] = t[back(j)]
    BY <2>1, <2>4, <2>5 DEF Arranges
  <2>. QED BY <2>1, <2>6
<1>5. Len(u) = Len(s)
  BY <1>1, <1>2
<1>. QED BY <1>2, <1>3, <1>4, <1>5 DEF Arranges, u

(* From place n + 1 on, nothing before a place belongs behind it.             *)
Settled(t, n) == \A a, b \in 1 .. Len(t) : a < b /\ b > n => Key[t[a]] <= Key[t[b]]

LEMMA SwapSettled ==
  ASSUME NEW t \in Seq(Node), Once(t), NEW n \in Nat, Settled(t, n), NEW k \in 1 .. Len(t), k < Len(t), k < n
  PROVE  Settled(Swapped(t, k, k + 1), n)
<1>. DEFINE u == Swapped(t, k, k + 1)
<1>1. Len(t) \in Nat /\ k + 1 \in 1 .. Len(t) /\ k \in Nat
  BY AsFunction
<1>2. /\ Len(u) = Len(t)
      /\ \A i \in 1 .. Len(t) : u[i] = IF i = k THEN t[k + 1] ELSE IF i = k + 1 THEN t[k] ELSE t[i]
  <2>. HIDE DEF u
  <2>. QED BY <1>1, SwappedSeq DEF u
<1>. HIDE DEF u
<1>3. ASSUME NEW a \in 1 .. Len(t), NEW b \in 1 .. Len(t), a < b, b > n
      PROVE  Key[u[a]] <= Key[u[b]]
  <2>. DEFINE c == IF a = k THEN k + 1 ELSE IF a = k + 1 THEN k ELSE a
  <2>1. c \in 1 .. Len(t) /\ u[a] = t[c] /\ u[b] = t[b] /\ c < b
    BY <1>1, <1>2, <1>3
  <2>. QED BY <1>3, <2>1 DEF Settled
<1>. QED BY <1>2, <1>3 DEF Settled, u

(* In a pass over n pairs of a list that was s in h, after j comparisons.     *)
InPass(h, l, s, n, j, r) ==
  \E t \in Seq(Node) :
    /\ r.h \in HeapT /\ Linked(r.h, l, t) /\ Spares(h, r.h, {l})
    /\ Arranges(s, t) /\ Settled(t, n + 1)
    /\ r.current = t[j + 1] /\ \A a \in 1 .. j : Key[t[a]] <= Key[t[j + 1]]

LEMMA PassStep ==
  ASSUME NEW h \in HeapT, NEW l \in Lists, NEW s \in Seq(Node), NEW n \in Nat, n < Len(s),
         NEW j \in Nat, j < n, NEW r, InPass(h, l, s, n, j, r)
  PROVE  InPass(h, l, s, n, j + 1, compareAndSwap(r.h, l, r.current))
<1>1. PICK t \in Seq(Node) :
        /\ r.h \in HeapT /\ Linked(r.h, l, t) /\ Spares(h, r.h, {l})
        /\ Arranges(s, t) /\ Settled(t, n + 1)
        /\ r.current = t[j + 1] /\ \A a \in 1 .. j : Key[t[a]] <= Key[t[j + 1]]
  BY DEF InPass
<1>. DEFINE k == j + 1
            g == r.h
            q == compareAndSwap(g, l, t[k])
            u == IF goesAfter(t[k], t[k + 1]) THEN Swapped(t, k, k + 1) ELSE t
<1>2. Once(t) /\ Len(t) = Len(s) /\ Len(t) \in Nat /\ k \in 1 .. Len(t) /\ k < Len(t) /\ k + 1 \in 1 .. Len(t)
  BY <1>1, AsFunction DEF Arranges
<1>3. q.h \in HeapT /\ Linked(q.h, l, u) /\ Spares(g, q.h, {l}) /\ q.current = u[k + 1]
  <2>1. g \in HeapT /\ Linked(g, l, t)
    BY <1>1
  <2>. HIDE DEF g, k
  <2>. QED BY <1>2, <2>1, CompareDoes
<1>4. compareAndSwap(r.h, l, r.current) = q
  BY <1>1
<1>5. Spares(h, q.h, {l})
  BY <1>1, <1>3, SparesChain
<1>6. \A i \in 1 .. Len(t) : t[i] \in Node /\ Key[t[i]] \in Int
  BY <1>2, AsFunction, ListAssumption
<1>7. u \in Seq(Node) /\ Arranges(s, u) /\ Settled(u, n + 1) /\ \A a \in 1 .. k : Key[u[a]] <= Key[u[k + 1]]
  <2>1. CASE goesAfter(t[k], t[k + 1])
    <3>1. u = Swapped(t, k, k + 1)
      BY <2>1
    <3>2. /\ Once(u) /\ \A i \in 1 .. Len(t) : u[i] = IF i = k THEN t[k + 1] ELSE IF i = k + 1 THEN t[k] ELSE t[i]
      <4>. HIDE DEF u, k
      <4>. QED BY <1>2, <3>1, SwappedSeq
    <3>3. Arranges(s, u)
      <4>. HIDE DEF u, k
      <4>. QED BY <1>1, <1>2, <2>1, <3>1, SwapArranges
    <3>4. Settled(u, n + 1)
      <4>1. n + 1 \in Nat /\ k < n + 1
        BY <1>2
      <4>. HIDE DEF u, k
      <4>. QED BY <1>1, <1>2, <3>1, <4>1, SwapSettled
    <3>. HIDE DEF u
    <3>5. ASSUME NEW a \in 1 .. k PROVE Key[u[a]] <= Key[u[k + 1]]
      <4>1. u[k + 1] = t[k] /\ k # k + 1
        BY <1>2, <3>2
      <4>2. Key[t[k]] > Key[t[k + 1]]
        BY <2>1 DEF goesAfter
      <4>3. CASE a = k
        <5>1. u[a] = t[k + 1]
          BY <1>2, <3>2, <4>3
        <5>. QED BY <1>2, <1>6, <4>1, <4>2, <5>1
      <4>4. CASE a < k
        <5>1. u[a] = t[a] /\ a \in 1 .. j
          BY <1>2, <3>2, <4>4
        <5>. QED BY <1>1, <4>1, <5>1
      <4>. QED BY <4>3, <4>4
    <3>. QED BY <3>2, <3>3, <3>4, <3>5 DEF Once
  <2>2. CASE ~goesAfter(t[k], t[k + 1])
    <3>1. u = t
      BY <2>2
    <3>2. Key[t[k]] <= Key[t[k + 1]]
      <4>1. ~(Key[t[k]] > Key[t[k + 1]])
        BY <2>2 DEF goesAfter
      <4>. QED BY <1>2, <1>6, <4>1
    <3>3. ASSUME NEW a \in 1 .. k PROVE Key[t[a]] <= Key[t[k + 1]]
      <4>1. a = k \/ (a \in 1 .. j /\ a \in 1 .. Len(t))
        BY <1>2
      <4>. QED BY <1>1, <1>2, <1>6, <3>2, <4>1
    <3>. QED BY <1>1, <3>1, <3>3
  <2>. QED BY <2>1, <2>2
<1>8. InPass(h, l, s, n, k, q)
  <2>. HIDE DEF u, q, g, k
  <2>. QED BY <1>3, <1>5, <1>7 DEF InPass
<1>. QED BY <1>4, <1>8

-----------------------------------------------------------------------------
(* The sort: a pass, and all of them.                                         *)

(* f[j] is the state of a pass after j comparisons, up to n of them.          *)
Comparisons(h, l, n, f) ==
  f = [j \in 0..n |-> IF j = 0 THEN [h |-> h, current |-> h.head[l]]
                      ELSE LET s == f[j - 1] IN compareAndSwap(s.h, l, s.current)]

LEMMA ComparisonsExist ==
  ASSUME NEW h, NEW l, NEW n \in Nat
  PROVE  \E f : Comparisons(h, l, n, f)
<1>. DEFINE Missing == {k \in Nat : ~ \E f : Comparisons(h, l, k, f)}
<1>1. SUFFICES ASSUME Missing # {} PROVE FALSE
  OBVIOUS
<1>2. PICK k \in Missing : \A j \in Missing : k <= j
  BY <1>1, LeastOf, Missing \in SUBSET Nat
<1>3. CASE k = 0
  <2>1. Comparisons(h, l, 0, [j \in 0..0 |-> [h |-> h, current |-> h.head[l]]])
    BY DEF Comparisons
  <2>. QED BY <1>2, <1>3, <2>1
<1>4. CASE k > 0
  <2>1. PICK f : Comparisons(h, l, k - 1, f)
    BY <1>2, <1>4
  <2>. DEFINE g == [j \in 0..k |-> IF j = 0 THEN [h |-> h, current |-> h.head[l]]
                                   ELSE compareAndSwap(f[j - 1].h, l, f[j - 1].current)]
  <2>2. \A j \in 0 .. k - 1 : g[j] = f[j]
    BY <1>4, <2>1 DEF Comparisons
  <2>3. \A j \in 0 .. k : j # 0 => j - 1 \in 0 .. k - 1
    BY <1>2, <1>4
  <2>4. Comparisons(h, l, k, g)
    BY <2>2, <2>3 DEF Comparisons
  <2>. QED BY <1>2, <2>4
<1>. QED BY <1>2, <1>3, <1>4

(* A pass over n pairs.                                                       *)
LEMMA PassDoes ==
  ASSUME NEW h \in HeapT, NEW l \in Lists, NEW s \in Seq(Node), NEW n \in Nat, n < Len(s),
         NEW g, InPass(h, l, s, n, 0, [h |-> g, current |-> g.head[l]])
  PROVE  InPass(h, l, s, n, n, sortPass(g, l, n))
<1>. DEFINE u == CHOOSE f : Comparisons(g, l, n, f)
<1>1. sortPass(g, l, n) = u[n]
  BY DEF sortPass, Comparisons
<1>2. Comparisons(g, l, n, u)
  BY ComparisonsExist
<1>. HIDE DEF u
<1>3. u[0] = [h |-> g, current |-> g.head[l]]
      /\ \A j \in 0..n : j # 0 => u[j] = compareAndSwap(u[j - 1].h, l, u[j - 1].current)
  BY <1>2 DEF Comparisons
<1>. DEFINE Bad == {j \in 0..n : ~InPass(h, l, s, n, j, u[j])}
<1>4. Bad = {}
  <2>. SUFFICES ASSUME Bad # {} PROVE FALSE
    OBVIOUS
  <2>1. PICK k \in Bad : \A j \in Bad : k <= j
    BY LeastOf, Bad \in SUBSET Nat
  <2>2. k # 0
    BY <1>3, <2>1
  <2>3. k \in 0..n /\ k - 1 \in 0..n /\ k - 1 \in Nat /\ k - 1 < n /\ (k - 1) + 1 = k
    BY <2>1, <2>2
  <2>4. InPass(h, l, s, n, k - 1, u[k - 1])
    BY <2>1, <2>3
  <2>5. InPass(h, l, s, n, (k - 1) + 1, compareAndSwap(u[k - 1].h, l, u[k - 1].current))
    BY <2>3, <2>4, PassStep
  <2>. QED BY <1>3, <2>1, <2>2, <2>3, <2>5
<1>. QED BY <1>1, <1>4

(* After i passes over a list that was s in h.                                *)
Passed(h, l, s, i, r) ==
  \E t \in Seq(Node) :
    /\ r.h \in HeapT /\ Linked(r.h, l, t) /\ Spares(h, r.h, {l})
    /\ Arranges(s, t) /\ Settled(t, Len(s) - i)
    /\ i > 0 => r.current = t[Len(s) - i + 1]

LEMMA PassPasses ==
  ASSUME NEW h \in HeapT, NEW l \in Lists, NEW s \in Seq(Node), NEW i \in Nat, i > 0, i < Len(s),
         NEW r, Passed(h, l, s, i - 1, r)
  PROVE  Passed(h, l, s, i, sortPass(r.h, l, Len(s) - i))
<1>. DEFINE n == Len(s) - i
            q == sortPass(r.h, l, n)
<1>1. n \in Nat /\ n < Len(s) /\ Len(s) - (i - 1) = n + 1 /\ n + 1 \in 1 .. Len(s) /\ Len(s) \in Nat /\ Len(s) > 0
  BY AsFunction
<1>2. PICK t \in Seq(Node) :
        /\ r.h \in HeapT /\ Linked(r.h, l, t) /\ Spares(h, r.h, {l})
        /\ Arranges(s, t) /\ Settled(t, Len(s) - (i - 1))
  BY DEF Passed
<1>3. InPass(h, l, s, n, 0, [h |-> r.h, current |-> r.h.head[l]])
  <2>1. r.h.head[l] = t[0 + 1] /\ Settled(t, n + 1)
    BY <1>1, <1>2 DEF Linked, Follows, Arranges
  <2>. HIDE DEF n
  <2>. QED BY <1>2, <2>1 DEF InPass
<1>4. InPass(h, l, s, n, n, q)
  <2>. HIDE DEF n
  <2>. QED BY <1>1, <1>3, PassDoes DEF q
<1>. HIDE DEF q
<1>5. PICK u \in Seq(Node) :
        /\ q.h \in HeapT /\ Linked(q.h, l, u) /\ Spares(h, q.h, {l})
        /\ Arranges(s, u) /\ Settled(u, n + 1)
        /\ q.current = u[n + 1] /\ \A a \in 1 .. n : Key[u[a]] <= Key[u[n + 1]]
  BY <1>4 DEF InPass
<1>6. Settled(u, n)
  <2>. SUFFICES ASSUME NEW a \in 1 .. Len(u), NEW b \in 1 .. Len(u), a < b, b > n
                PROVE  Key[u[a]] <= Key[u[b]]
    BY DEF Settled
  <2>. HIDE DEF n
  <2>1. b > n + 1 \/ (b = n + 1 /\ a \in 1 .. n)
    BY <1>1
  <2>. QED BY <1>5, <2>1 DEF Settled
<1>7. Passed(h, l, s, i, q)
  BY <1>5, <1>6 DEF Passed
<1>. QED BY <1>7 DEF q

(* f[i] is the state after i passes, up to n of them.                         *)
Passes(h, l, count, n, f) ==
  f = [i \in 0..n |-> IF i = 0 THEN [h |-> h, current |-> h.head[l]]
                      ELSE sortPass(f[i - 1].h, l, count - i)]

LEMMA PassesExist ==
  ASSUME NEW h, NEW l, NEW count, NEW n \in Nat
  PROVE  \E f : Passes(h, l, count, n, f)
<1>. DEFINE Missing == {k \in Nat : ~ \E f : Passes(h, l, count, k, f)}
<1>1. SUFFICES ASSUME Missing # {} PROVE FALSE
  OBVIOUS
<1>2. PICK k \in Missing : \A j \in Missing : k <= j
  BY <1>1, LeastOf, Missing \in SUBSET Nat
<1>3. CASE k = 0
  <2>1. Passes(h, l, count, 0, [i \in 0..0 |-> [h |-> h, current |-> h.head[l]]])
    BY DEF Passes
  <2>. QED BY <1>2, <1>3, <2>1
<1>4. CASE k > 0
  <2>1. PICK f : Passes(h, l, count, k - 1, f)
    BY <1>2, <1>4
  <2>. DEFINE g == [i \in 0..k |-> IF i = 0 THEN [h |-> h, current |-> h.head[l]]
                                   ELSE sortPass(f[i - 1].h, l, count - i)]
  <2>2. \A j \in 0 .. k - 1 : g[j] = f[j]
    BY <1>4, <2>1 DEF Passes
  <2>3. \A j \in 0 .. k : j # 0 => j - 1 \in 0 .. k - 1
    BY <1>2, <1>4
  <2>4. Passes(h, l, count, k, g)
    BY <2>2, <2>3 DEF Passes
  <2>. QED BY <1>2, <2>4
<1>. QED BY <1>2, <1>3, <1>4

(* What follows the place k of a list.                                        *)
LEMMA ChainFrom ==
  ASSUME NEW s \in Seq(Node), NEW first, NEW link, Follows(s, first, link), NEW k \in 1 .. Len(s)
  PROVE  /\ Chain(s[k], link) = SubSeq(s, k, Len(s))
         /\ Follows(SubSeq(s, k, Len(s)), s[k], link)
<1>. DEFINE u == SubSeq(s, k, Len(s))
<1>1. Len(s) \in Nat /\ Once(s) /\ k \in 1 .. Len(s) + 1 /\ Len(s) \in k - 1 .. Len(s)
  BY AsFunction DEF Follows
<1>2. u \in Seq(Node) /\ Len(u) = Len(s) - k + 1 /\ \A i \in 1 .. Len(s) - k + 1 : u[i] = s[k + i - 1]
  <2>1. /\ u \in Seq(Node) /\ Len(u) = Len(s) - k + 1
        /\ \A i \in 1 .. Len(s) - k + 1 : u[i] = s[k + i - 1]
    BY ONLY <1>1, PieceOf, s \in Seq(Node)
  <2>. QED BY <2>1
<1>. HIDE DEF u
<1>3. Once(u)
  <2>1. \A i, j \in 1 .. Len(s) : s[i] = s[j] => i = j
    BY <1>1 DEF Once
  <2>2. \A i \in 1 .. Len(u) : k + i - 1 \in 1 .. Len(s)
    BY <1>1, <1>2
  <2>3. ASSUME NEW i \in 1 .. Len(u), NEW j \in 1 .. Len(u), u[i] = u[j] PROVE i = j
    <3>1. k + i - 1 = k + j - 1
      BY <1>2, <2>1, <2>2, <2>3
    <3>. QED BY <3>1
  <2>. QED BY <1>2, <2>3 DEF Once
<1>4. Follows(u, s[k], link)
  <2>1. Len(u) # 0 /\ u[1] = s[k]
    BY <1>1, <1>2
  <2>2. ASSUME NEW i \in 1 .. Len(u) PROVE link[u[i]] = IF i < Len(u) THEN u[i + 1] ELSE Nothing
    <3>1. k + i - 1 \in 1 .. Len(s) /\ u[i] = s[k + i - 1]
      BY <1>1, <1>2
    <3>2. link[u[i]] = IF k + i - 1 < Len(s) THEN s[k + i - 1 + 1] ELSE Nothing
      BY <3>1 DEF Follows
    <3>3. k + i - 1 < Len(s) <=> i < Len(u)
      BY <1>1, <1>2
    <3>4. i < Len(u) => u[i + 1] = s[k + i - 1 + 1]
      BY <1>1, <1>2
    <3>. QED BY <3>2, <3>3, <3>4
  <2>. QED BY <1>3, <2>1, <2>2 DEF Follows
<1>. QED BY <1>4, ChainIs DEF u

-----------------------------------------------------------------------------
(* The sort: what it does.                                                    *)

(* Behind what arrangement sort chooses.                                      *)
LEMMA ArrangedSorted ==
  ASSUME NEW s \in Seq(Node), Once(s), NEW t \in Seq(Node), Arranges(s, t), Settled(t, 1)
  PROVE  t \in StablySorted(s)
<1>1. Len(s) \in Nat /\ DOMAIN s = 1 .. Len(s) /\ Len(t) = Len(s) /\ t \in [1 .. Len(s) -> Node]
  BY AsFunction DEF Arranges
<1>2. t \in [DOMAIN s -> ToSet(s)]
  <2>1. \A i \in 1 .. Len(s) : t[i] \in ToSet(s)
    BY InToSet DEF Arranges
  <2>. QED BY <1>1, <2>1
<1>3. ASSUME NEW i \in DOMAIN s, NEW j \in DOMAIN s, i < j
      PROVE  \/ Key[t[j]] > Key[t[i]]
             \/ Key[t[j]] = Key[t[i]] /\ \E a, b \in DOMAIN s : a > b /\ s[a] = t[j] /\ s[b] = t[i]
  <2>1. i \in 1 .. Len(s) /\ j \in 1 .. Len(s) /\ j > 1
    BY <1>1, <1>3
  <2>2. Key[t[i]] <= Key[t[j]]
    BY <1>1, <1>3, <2>1 DEF Settled
  <2>3. Key[t[i]] \in Int /\ Key[t[j]] \in Int
    BY <1>1, <2>1, ListAssumption
  <2>4. CASE Key[t[i]] = Key[t[j]]
    <3>1. PICK a, b \in 1 .. Len(s) : a < b /\ s[a] = t[i] /\ s[b] = t[j]
      BY <1>3, <2>1, <2>4 DEF Arranges
    <3>2. b > a
      BY <1>1, <3>1
    <3>. QED BY <1>1, <2>4, <3>1, <3>2
  <2>5. CASE Key[t[i]] # Key[t[j]]
    BY <2>2, <2>3, <2>5
  <2>. QED BY <2>4, <2>5
<1>. QED BY <1>2, <1>3 DEF StablySorted

(* The sort.                                                                  *)
LEMMA SortDoes ==
  ASSUME NEW h \in HeapT, NEW l \in Lists, NEW s \in Seq(Node), Chained(h, l, s)
  PROVE  /\ sort(h, l) \in HeapT /\ Spares(h, sort(h, l), {l})
         /\ \E t \in StablySorted(s) : t \in Seq(Node) /\ Chained(sort(h, l), l, t)
<1>. DEFINE count == h.size[l]
<1>1. count = Len(s) /\ count \in Nat /\ Linked(h, l, s) /\ Once(s)
  BY ChainedFacts DEF Chained
<1>2. Spares(h, h, {l}) /\ Arranges(s, s)
  BY <1>1, ArrangesItself DEF Spares
<1>3. CASE count < 2
  <2>1. sort(h, l) = h
    BY <1>3 DEF sort
  <2>2. Settled(s, 1)
    BY <1>1, <1>3 DEF Settled
  <2>3. s \in StablySorted(s)
    BY <1>1, <1>2, <2>2, ArrangedSorted
  <2>. QED BY <1>2, <2>1, <2>3
<1>4. CASE ~(count < 2)
  <2>. DEFINE u == CHOOSE f : Passes(h, l, count, count - 1, f)
              sorted == u[count - 1]
              g == [sorted.h EXCEPT !.tail[l] = Last(Chain(sorted.current, sorted.h.next))]
  <2>1. sort(h, l) = g
    BY <1>4 DEF sort, Passes
  <2>2. u = [i \in 0..(count - 1) |-> IF i = 0 THEN [h |-> h, current |-> h.head[l]]
                                      ELSE sortPass(u[i - 1].h, l, count - i)]
    <3>1. count - 1 \in Nat
      BY <1>1, <1>4
    <3>2. Passes(h, l, count, count - 1, u)
      <4>. HIDE DEF count
      <4>. QED BY <3>1, PassesExist
    <3>. QED BY <3>2 DEF Passes
  <2>. HIDE DEF u
  <2>3. /\ u[0] = [h |-> h, current |-> h.head[l]]
        /\ \A i \in 0..(count - 1) : i # 0 => u[i] = sortPass(u[i - 1].h, l, count - i)
    <3>1. 0 \in 0..(count - 1)
      BY <1>1, <1>4
    <3>. HIDE DEF count
    <3>2. u[0] = [h |-> h, current |-> h.head[l]]
      BY <2>2, <3>1
    <3>3. \A i \in 0..(count - 1) : i # 0 => u[i] = sortPass(u[i - 1].h, l, count - i)
      BY <2>2
    <3>. QED BY <3>2, <3>3
  <2>. HIDE DEF count
  <2>4. Passed(h, l, s, 0, u[0])
    <3>1. u[0].h = h
      BY <2>3
    <3>2. Settled(s, Len(s) - 0)
      BY <1>1 DEF Settled
    <3>. QED BY <1>1, <1>2, <3>1, <3>2 DEF Passed
  <2>. DEFINE Bad == {i \in 0..(count - 1) : ~Passed(h, l, s, i, u[i])}
  <2>5. Bad = {}
    <3>. SUFFICES ASSUME Bad # {} PROVE FALSE
      OBVIOUS
    <3>1. PICK k \in Bad : \A j \in Bad : k <= j
      BY LeastOf, Bad \in SUBSET Nat
    <3>2. k # 0
      BY <2>4, <3>1
    <3>3. k \in 0..(count - 1) /\ k \in Nat /\ k > 0 /\ k < Len(s) /\ k - 1 \in 0..(count - 1)
          /\ ~(k <= k - 1)
      BY <1>1, <1>4, <3>1, <3>2
    <3>4. Passed(h, l, s, k - 1, u[k - 1])
      BY <3>1, <3>3
    <3>5. Passed(h, l, s, k, sortPass(u[k - 1].h, l, Len(s) - k))
      BY <3>3, <3>4, PassPasses
    <3>6. u[k] = sortPass(u[k - 1].h, l, Len(s) - k)
      BY <1>1, <2>3, <3>2, <3>3
    <3>. QED BY <3>1, <3>5, <3>6
  <2>6. Passed(h, l, s, count - 1, sorted)
    <3>1. count - 1 \in 0..(count - 1)
      BY <1>1, <1>4
    <3>. QED BY <2>5, <3>1
  <2>. HIDE DEF sorted, Bad
  <2>7. PICK t \in Seq(Node) :
          /\ sorted.h \in HeapT /\ Linked(sorted.h, l, t) /\ Spares(h, sorted.h, {l})
          /\ Arranges(s, t) /\ Settled(t, 1) /\ sorted.current = t[2]
    <3>1. Len(s) - (count - 1) = 1 /\ Len(s) - (count - 1) + 1 = 2 /\ count - 1 > 0
      BY <1>1, <1>4
    <3>. QED BY <2>6, <3>1 DEF Passed
  <2>8. t \in StablySorted(s)
    BY <1>1, <2>7, ArrangedSorted
  <2>9. Len(t) = Len(s) /\ Len(t) \in Nat /\ 2 \in 1 .. Len(t) /\ Len(t) \in 1 .. Len(t)
        /\ \A i \in 1 .. Len(t) : t[i] \in Node
    BY <1>1, <1>4, <2>7, AsFunction DEF Arranges
  <2>10. Last(Chain(sorted.current, sorted.h.next)) = t[Len(t)]
    <3>. DEFINE v == SubSeq(t, 2, Len(t))
    <3>1. Chain(t[2], sorted.h.next) = v
      BY <2>7, <2>9, ChainFrom DEF Linked
    <3>2. v \in Seq(Node) /\ Len(v) = Len(t) - 2 + 1 /\ \A i \in 1 .. Len(t) - 2 + 1 : v[i] = t[2 + i - 1]
      <4>1. 2 \in 1 .. Len(t) + 1 /\ Len(t) \in 2 - 1 .. Len(t)
        BY <2>9
      <4>2. /\ v \in Seq(Node) /\ Len(v) = Len(t) - 2 + 1
            /\ \A i \in 1 .. Len(t) - 2 + 1 : v[i] = t[2 + i - 1]
        BY ONLY <4>1, PieceOf, t \in Seq(Node)
      <4>. QED BY <4>2
    <3>. HIDE DEF v
    <3>3. Last(v) = t[Len(t)]
      BY <2>9, <3>2 DEF Last
    <3>. QED BY <2>7, <3>1, <3>3
  <2>11. g = [sorted.h EXCEPT !.tail[l] = t[Len(t)]]
    BY <2>10
  <2>. HIDE DEF g
  <2>12. g \in HeapT /\ g.next = sorted.h.next /\ g.prev = sorted.h.prev /\ g.container = sorted.h.container
         /\ g.head = sorted.h.head /\ g.size = sorted.h.size /\ g.tail = [sorted.h.tail EXCEPT ![l] = t[Len(t)]]
    BY <2>7, <2>9, <2>11 DEF HeapT, Link
  <2>13. Chained(g, l, t)
    <3>1. Linked(g, l, t)
      BY <2>7, <2>12 DEF Linked
    <3>2. g.tail[l] = t[Len(t)] /\ Len(t) # 0
      BY <2>7, <2>9, <2>12 DEF HeapT
    <3>. QED BY <3>1, <3>2 DEF Chained
  <2>14. Spares(h, g, {l})
    <3>1. \A m \in Lists \ {l} : g.tail[m] = sorted.h.tail[m]
      BY <2>7, <2>12 DEF HeapT
    <3>. QED BY <2>7, <2>12, <3>1 DEF Spares
  <2>. QED BY <2>1, <2>8, <2>12, <2>13, <2>14
<1>. QED BY <1>3, <1>4

-----------------------------------------------------------------------------
(* Every call, as a step from one sequence to another.                        *)

(* The list l becomes t, and nothing happens to the others.                   *)
Turns(h, g, l, t) == t \in Seq(Node) /\ g \in HeapT /\ Chained(g, l, t) /\ Spares(h, g, {l})

HeapOK(h) == h \in HeapT /\ \A l \in Lists : \E s \in Seq(Node) : Chained(h, l, s)

LEMMA TurnsOK ==
  ASSUME NEW h, HeapOK(h), NEW g, NEW l \in Lists, NEW t, Turns(h, g, l, t)
  PROVE  HeapOK(g)
<1>1. ASSUME NEW m \in Lists, m # l PROVE \E s \in Seq(Node) : Chained(g, m, s)
  <2>1. PICK s \in Seq(Node) : Chained(h, m, s)
    BY DEF HeapOK
  <2>2. Spares(h, g, {l}) /\ m \in Lists \ {l}
    BY <1>1 DEF Turns
  <2>. QED BY <2>1, <2>2, SparedStays
<1>. QED BY <1>1 DEF HeapOK, Turns

LEMMA ForwardIs ==
  ASSUME NEW h, NEW l \in Lists, NEW s, Chained(h, l, s)
  PROVE  ForwardChain(h, l) = s
BY ChainIs DEF Chained, Linked, ForwardChain

(* A call's effect on the forward chains.                                     *)
TurnsTo(h, g, l, t) ==
  ForwardChain(g, l) = t /\ \A m \in Lists \ {l} : ForwardChain(g, m) = ForwardChain(h, m)

LEMMA TurnsBecomes ==
  ASSUME NEW h, HeapOK(h), NEW g, NEW l \in Lists, NEW t, Turns(h, g, l, t)
  PROVE  TurnsTo(h, g, l, t)
<1>1. ForwardChain(g, l) = t
  BY ForwardIs DEF Turns
<1>2. ASSUME NEW m \in Lists \ {l} PROVE ForwardChain(g, m) = ForwardChain(h, m)
  <2>1. PICK s \in Seq(Node) : Chained(h, m, s)
    BY DEF HeapOK
  <2>2. Chained(g, m, s)
    BY <2>1, SparedStays DEF Turns
  <2>. QED BY <2>1, <2>2, ForwardIs
<1>. QED BY <1>1, <1>2 DEF TurnsTo

LEMMA TurnsNot ==
  ASSUME NEW h \in HeapT, NEW l \in Lists, NEW s \in Seq(Node), Chained(h, l, s)
  PROVE  Turns(h, h, l, s)
BY DEF Turns, Spares

(* The nodes of a list are the ones that name it.                             *)
LEMMA MemberIs ==
  ASSUME NEW h, NEW l \in Lists, NEW s \in Seq(Node), Chained(h, l, s), NEW n \in Node
  PROVE  /\ isMember(h, l, n) <=> h.container[n] = l
         /\ isMember(h, l, n) <=> \E i \in 1 .. Len(s) : s[i] = n
         /\ isMember(h, l, n) <=> n \in ToSet(s)
<1>1. isMember(h, l, n) <=> h.container[n] = l
  BY ListAssumption DEF isMember
<1>2. h.container[n] = l <=> \E i \in 1 .. Len(s) : s[i] = n
  BY DEF Chained, Linked
<1>. QED BY <1>1, <1>2, InToSet

LEMMA InsertTurns ==
  ASSUME NEW h \in HeapT, NEW l \in Lists, NEW n \in Node, NEW s \in Seq(Node), Chained(h, l, s),
         h.container[n] \in {Nothing, l}, NEW p \in Int, p >= AT_BACK,
         p \in {AT_FRONT, AT_BACK} \/ Len(s) = 0 \/ p + 1 \in 1 .. Len(s) - 1
  PROVE  Turns(h, listInsert(h, l, n, p), l, Inserted(s, n, p))
<1>. DEFINE g == listInsert(h, l, n, p)
<1>1. Once(s) /\ l # Nothing
  BY ChainedFacts
<1>2. CASE h.container[n] = l
  <2>1. isMember(h, l, n) /\ n \in ToSet(s)
    BY <1>2, MemberIs
  <2>2. g = h /\ Inserted(s, n, p) = s
    BY <2>1 DEF listInsert, Inserted
  <2>. QED BY <2>2, TurnsNot
<1>3. CASE h.container[n] = Nothing
  <2>1. ~isMember(h, l, n)
    BY <1>1, <1>3, MemberIs
  <2>2. n \notin ToSet(s) /\ \A i \in 1 .. Len(s) : s[i] # n
    BY <2>1, MemberIs
  <2>. DEFINE k == PlaceOf(s, p)
              t == Spliced(s, k, n)
  <2>3. Inserted(s, n, p) = t
    BY <1>1, <2>2, PlaceAtIs DEF Inserted
  <2>4. k \in 0 .. Len(s) /\ InsertEffect(h, g, l, n, s, k)
    <3>. HIDE DEF g
    <3>1. h.container[n] # l
      BY <1>1, <1>3
    <3>. QED BY <3>1, InsertDoes DEF g
  <2>. HIDE DEF k, g
  <2>5. Chained(g, l, t) /\ Spares(h, g, {l})
    <3>. HIDE DEF t
    <3>1. h.container[n] # l
      BY <1>1, <1>3
    <3>2. Chained(g, l, t) /\ Spares(h, g, {l, Nothing})
      BY <1>3, <2>4, <3>1, InsertChained DEF t
    <3>3. Lists \ {l, Nothing} = Lists \ {l}
      BY ListAssumption
    <3>4. \A m : m \in Lists \ {l, Nothing} <=> m \in Lists \ {l}
      BY <3>3
    <3>. QED BY <3>2, <3>4 DEF Spares
  <2>6. Once(t)
    BY <1>1, <2>2, <2>4, SplicedSeq
  <2>. QED BY <2>3, <2>4, <2>5, <2>6 DEF Turns, InsertEffect, g, Once
<1>. QED BY <1>2, <1>3

(* A node put into l while m holds it: the links of m lead into l.            *)
LEMMA RunsIntoIs ==
  ASSUME NEW r, Once(r), NEW i \in 1 .. Len(r), NEW t, Once(t), NEW j \in 1 .. Len(t), t[j] = r[i]
  PROVE  /\ RunsInto(r, r[i], t) \in Seq(Node) /\ Len(RunsInto(r, r[i], t)) = i + (Len(t) - j)
         /\ \A x \in 1 .. i + (Len(t) - j) :
              RunsInto(r, r[i], t)[x] = IF x <= i THEN r[x] ELSE t[j + (x - i)]
<1>. DEFINE a == SubSeq(r, 1, i)
            b == SubSeq(t, j + 1, Len(t))
            place(u) == CHOOSE x \in DOMAIN u : u[x] = r[i]
<1>1. /\ r \in Seq(Node) /\ t \in Seq(Node) /\ Len(r) \in Nat /\ Len(t) \in Nat
      /\ DOMAIN r = 1 .. Len(r) /\ DOMAIN t = 1 .. Len(t)
      /\ \A x, y \in 1 .. Len(r) : r[x] = r[y] => x = y
      /\ \A x, y \in 1 .. Len(t) : t[x] = t[y] => x = y
  BY AsFunction DEF Once
<1>2. place(r) = i
  <2>1. place(r) \in 1 .. Len(r) /\ r[place(r)] = r[i]
    BY <1>1
  <2>. HIDE DEF place
  <2>. QED BY <1>1, <2>1
<1>3. place(t) = j
  <2>1. place(t) \in 1 .. Len(t) /\ t[place(t)] = t[j]
    BY <1>1
  <2>. HIDE DEF place
  <2>. QED BY <1>1, <2>1
<1>4. RunsInto(r, r[i], t) = a \o b
  BY <1>2, <1>3 DEF RunsInto
<1>5. a \in Seq(Node) /\ Len(a) = i /\ \A x \in 1 .. i : a[x] = r[x]
  <2>1. 1 \in 1 .. Len(r) + 1 /\ i \in 1 - 1 .. Len(r)
    BY <1>1
  <2>2. /\ a \in Seq(Node) /\ Len(a) = i - 1 + 1
        /\ \A x \in 1 .. i - 1 + 1 : a[x] = r[1 + x - 1]
    BY ONLY <1>1, <2>1, PieceOf
  <2>. HIDE DEF a
  <2>. QED BY <1>1, <2>2
<1>6. b \in Seq(Node) /\ Len(b) = Len(t) - j /\ \A x \in 1 .. Len(t) - j : b[x] = t[j + x]
  <2>. DEFINE c == j + 1
              d == SubSeq(t, c, Len(t))
  <2>1. c \in 1 .. Len(t) + 1 /\ Len(t) \in c - 1 .. Len(t) /\ b = d
    BY <1>1
  <2>. HIDE DEF c, b
  <2>2. /\ d \in Seq(Node) /\ Len(d) = Len(t) - c + 1
        /\ \A x \in 1 .. Len(t) - c + 1 : d[x] = t[c + x - 1]
    BY ONLY <1>1, <2>1, PieceOf
  <2>. HIDE DEF d
  <2>3. Len(t) - c + 1 = Len(t) - j /\ \A x \in 1 .. Len(t) - j : c + x - 1 = j + x
    BY <1>1 DEF c
  <2>. QED BY <2>1, <2>2, <2>3
<1>. HIDE DEF a, b
<1>7. /\ a \o b \in Seq(Node) /\ Len(a \o b) = Len(a) + Len(b)
      /\ \A x \in 1 .. Len(a) + Len(b) : (a \o b)[x] = IF x <= Len(a) THEN a[x] ELSE b[x - Len(a)]
  BY <1>5, <1>6, GluedOf
<1>8. ASSUME NEW x \in 1 .. i + (Len(t) - j)
      PROVE  (a \o b)[x] = IF x <= i THEN r[x] ELSE t[j + (x - i)]
  <2>1. x <= i => x \in 1 .. i
    BY <1>1
  <2>2. ~(x <= i) => x - i \in 1 .. Len(t) - j
    BY <1>1
  <2>. QED BY <1>5, <1>6, <1>7, <2>1, <2>2
<1>. QED BY <1>4, <1>5, <1>6, <1>7, <1>8

LEMMA RunsFollow ==
  ASSUME NEW h \in HeapT, NEW g, NEW l \in Lists, NEW s \in Seq(Node), Chained(h, l, s),
         NEW m \in Lists, m # l, NEW r \in Seq(Node), Chained(h, m, r), NEW i \in 1 .. Len(r),
         NEW k \in 0 .. Len(s), InsertEffect(h, g, l, r[i], s, k)
  PROVE  Follows(RunsInto(r, r[i], Spliced(s, k, r[i])), g.head[m], g.next)
<1>. DEFINE n == r[i]
            t == Spliced(s, k, n)
            v == RunsInto(r, n, t)
            N == i + (Len(s) - k)
<1>0. /\ Once(s) /\ Len(s) \in Nat
      /\ \A x \in 1 .. Len(s) : s[x] \in Node /\ h.container[s[x]] = l
      /\ \A x, y \in 1 .. Len(s) : s[x] = s[y] => x = y
      /\ \A x \in 1 .. Len(s) : h.next[s[x]] = IF x < Len(s) THEN s[x + 1] ELSE Nothing
  <2>. HIDE DEF n, t, v, N
  <2>0. Chained(h, l, s) /\ l \in Lists
    OBVIOUS
  <2>1. Once(s) /\ \A x, y \in 1 .. Len(s) : s[x] = s[y] => x = y
    BY <2>0 DEF Chained, Linked, Follows, Once
  <2>2. Len(s) \in Nat /\ \A x \in 1 .. Len(s) : s[x] \in Node
    BY AsFunction
  <2>3. h.head[l] = (IF Len(s) = 0 THEN Nothing ELSE s[1])
        /\ \A x \in 1 .. Len(s) : h.next[s[x]] = IF x < Len(s) THEN s[x + 1] ELSE Nothing
    BY <2>0 DEF Chained, Linked, Follows
  <2>4. \A x \in Node : h.container[x] = l <=> \E y \in 1 .. Len(s) : s[y] = x
    BY <2>0 DEF Chained, Linked
  <2>5. \A x \in 1 .. Len(s) : h.container[s[x]] = l
    BY <2>2, <2>4
  <2>. QED BY <2>1, <2>2, <2>3, <2>5
<1>15. /\ Once(r) /\ Len(r) \in Nat
       /\ \A x \in 1 .. Len(r) : r[x] \in Node /\ h.container[r[x]] = m
       /\ \A x, y \in 1 .. Len(r) : r[x] = r[y] => x = y
       /\ h.head[m] = (IF Len(r) = 0 THEN Nothing ELSE r[1])
       /\ \A x \in 1 .. Len(r) : h.next[r[x]] = IF x < Len(r) THEN r[x + 1] ELSE Nothing
  <2>. HIDE DEF n, t, v, N
  <2>0. Chained(h, m, r) /\ m \in Lists
    OBVIOUS
  <2>1. Once(r) /\ \A x, y \in 1 .. Len(r) : r[x] = r[y] => x = y
    BY <2>0 DEF Chained, Linked, Follows, Once
  <2>2. Len(r) \in Nat /\ \A x \in 1 .. Len(r) : r[x] \in Node
    BY AsFunction
  <2>3. h.head[m] = (IF Len(r) = 0 THEN Nothing ELSE r[1])
        /\ \A x \in 1 .. Len(r) : h.next[r[x]] = IF x < Len(r) THEN r[x + 1] ELSE Nothing
    BY <2>0 DEF Chained, Linked, Follows
  <2>4. \A x \in Node : h.container[x] = m <=> \E y \in 1 .. Len(r) : r[y] = x
    BY <2>0 DEF Chained, Linked
  <2>5. \A x \in 1 .. Len(r) : h.container[r[x]] = m
    BY <2>2, <2>4
  <2>. QED BY <2>1, <2>2, <2>3, <2>5
<1>1. /\ Once(s) /\ Len(s) \in Nat /\ Once(r) /\ Len(r) \in Nat
      /\ \A x \in 1 .. Len(s) : s[x] \in Node /\ h.container[s[x]] = l
      /\ \A x \in 1 .. Len(r) : r[x] \in Node /\ h.container[r[x]] = m
      /\ \A x, y \in 1 .. Len(s) : s[x] = s[y] => x = y
      /\ \A x, y \in 1 .. Len(r) : r[x] = r[y] => x = y
      /\ h.head[m] = (IF Len(r) = 0 THEN Nothing ELSE r[1])
      /\ \A x \in 1 .. Len(s) : h.next[s[x]] = IF x < Len(s) THEN s[x + 1] ELSE Nothing
      /\ \A x \in 1 .. Len(r) : h.next[r[x]] = IF x < Len(r) THEN r[x + 1] ELSE Nothing
  BY <1>0, <1>15
<1>2. n \in Node /\ \A x \in 1 .. Len(s) : s[x] # n
  BY <1>1
<1>3. /\ Once(t) /\ Len(t) = Len(s) + 1
      /\ \A x \in 1 .. Len(s) + 1 : t[x] = IF x <= k THEN s[x] ELSE IF x = k + 1 THEN n ELSE s[x - 1]
  <2>. HIDE DEF n
  <2>. QED BY <1>0, <1>2, SplicedSeq DEF t
<1>. HIDE DEF t
<1>4. k \in Int /\ 0 <= k /\ k <= Len(s) /\ i \in Int /\ 1 <= i /\ i <= Len(r) /\ N \in Nat /\ N >= 1
  BY <1>1
<1>5. k + 1 \in 1 .. Len(t) /\ t[k + 1] = r[i]
  BY <1>1, <1>3, <1>4
<1>6. /\ v \in Seq(Node) /\ Len(v) = i + (Len(t) - (k + 1))
      /\ \A x \in 1 .. i + (Len(t) - (k + 1)) : v[x] = IF x <= i THEN r[x] ELSE t[(k + 1) + (x - i)]
  <2>1. Once(r) /\ Once(t) /\ i \in 1 .. Len(r) /\ k + 1 \in 1 .. Len(t) /\ t[k + 1] = r[i]
    BY <1>1, <1>3, <1>5
  <2>. DEFINE j == k + 1
  <2>. HIDE DEF v, j
  <2>2. /\ RunsInto(r, r[i], t) \in Seq(Node) /\ Len(RunsInto(r, r[i], t)) = i + (Len(t) - j)
        /\ \A x \in 1 .. i + (Len(t) - j) :
             RunsInto(r, r[i], t)[x] = IF x <= i THEN r[x] ELSE t[j + (x - i)]
    <3>1. Once(r) /\ Once(t) /\ i \in 1 .. Len(r) /\ j \in 1 .. Len(t) /\ t[j] = r[i]
      BY <2>1 DEF j
    <3>. QED BY ONLY <3>1, RunsIntoIs
  <2>. QED BY <2>2 DEF v, j
<1>. HIDE DEF v
<1>7. Len(v) = N /\ i + (Len(t) - (k + 1)) = N
  BY <1>1, <1>3, <1>4, <1>6
<1>. HIDE DEF N
<1>8. ASSUME NEW x \in 1 .. N PROVE v[x] = IF x <= i THEN r[x] ELSE s[k + (x - i)]
  <2>1. CASE x <= i
    BY <1>6, <1>7, <2>1
  <2>2. CASE ~(x <= i)
    <3>1. (k + 1) + (x - i) \in 1 .. Len(s) + 1 /\ (k + 1) + (x - i) > k + 1
          /\ (k + 1) + (x - i) - 1 = k + (x - i)
      BY <1>1, <1>4, <2>2 DEF N
    <3>2. t[(k + 1) + (x - i)] = s[k + (x - i)]
      BY <1>3, <1>4, <3>1
    <3>. QED BY <1>6, <1>7, <2>2, <3>2
  <2>. QED BY <2>1, <2>2
<1>9. \A x \in 1 .. N : IF x <= i THEN x \in 1 .. Len(r) ELSE k + (x - i) \in 1 .. Len(s)
  BY <1>1, <1>4 DEF N
<1>10. Once(v)
  <2>2. ASSUME NEW x \in 1 .. N PROVE h.container[v[x]] = IF x <= i THEN m ELSE l
    <3>1. CASE x <= i
      BY <1>1, <1>8, <1>9, <3>1
    <3>2. CASE ~(x <= i)
      <4>. DEFINE a == k + (x - i)
      <4>1. v[x] = s[a] /\ a \in 1 .. Len(s)
        BY <1>8, <1>9, <3>2
      <4>. HIDE DEF a
      <4>. QED BY <1>1, <3>2, <4>1
    <3>. QED BY <3>1, <3>2
  <2>1. ASSUME NEW x \in 1 .. N, NEW y \in 1 .. N, v[x] = v[y] PROVE x = y
    <3>1. CASE x <= i /\ y <= i
      BY <1>1, <1>8, <1>9, <2>1, <3>1
    <3>2. CASE x <= i /\ ~(y <= i)
      <4>1. h.container[v[x]] = m /\ h.container[v[y]] = l
        BY <2>2, <3>2
      <4>. QED BY <2>1, <4>1
    <3>3. CASE ~(x <= i) /\ y <= i
      <4>1. h.container[v[x]] = l /\ h.container[v[y]] = m
        BY <2>2, <3>3
      <4>. QED BY <2>1, <4>1
    <3>4. CASE ~(x <= i) /\ ~(y <= i)
      <4>. DEFINE a == k + (x - i)
                  b == k + (y - i)
      <4>1. v[x] = s[a] /\ v[y] = s[b] /\ a \in 1 .. Len(s) /\ b \in 1 .. Len(s)
        BY <1>8, <1>9, <3>4
      <4>2. a = b
        <5>1. s[a] = s[b]
          BY <2>1, <4>1
        <5>. HIDE DEF a, b
        <5>. QED BY <1>0, <4>1, <5>1
      <4>3. x \in Int /\ y \in Int
        BY <1>4
      <4>. QED BY <1>4, <4>2, <4>3
    <3>. QED BY <3>1, <3>2, <3>3, <3>4
  <2>. QED BY <1>6, <1>7, <2>1 DEF Once
<1>11. \A x \in Node : g.next[x] = IF x = n THEN (IF k < Len(s) THEN s[k + 1] ELSE Nothing)
                                 ELSE IF k > 0 /\ x = s[k] THEN n ELSE h.next[x]
  BY DEF InsertEffect
<1>12. g.head[m] = v[1]
  <2>1. g.head[m] = h.head[m]
    BY DEF InsertEffect
  <2>2. v[1] = r[1]
    BY <1>4, <1>8
  <2>. QED BY <1>1, <1>4, <2>1, <2>2
<1>13. ASSUME NEW x \in 1 .. N PROVE g.next[v[x]] = IF x < N THEN v[x + 1] ELSE Nothing
  <2>0. k > 0 => k \in 1 .. Len(s)
    BY <1>4, <1>1
  <2>1. CASE x < i
    <3>1. x \in 1 .. Len(r) /\ x + 1 \in 1 .. N /\ x < N /\ x + 1 <= i /\ x < Len(r)
      BY <1>1, <1>4, <2>1 DEF N
    <3>2. v[x] = r[x] /\ v[x + 1] = r[x + 1]
      BY <1>8, <2>1, <3>1
    <3>3. r[x] # n
      BY <1>1, <1>4, <2>1, <3>1
    <3>4. k > 0 => r[x] # s[k]
      BY <1>1, <2>0, <3>1
    <3>5. g.next[r[x]] = h.next[r[x]] /\ h.next[r[x]] = r[x + 1]
      BY <1>1, <1>11, <3>1, <3>3, <3>4
    <3>. QED BY <3>1, <3>2, <3>5
  <2>2. CASE x = i
    <3>1. v[x] = n
      BY <1>8, <2>2
    <3>2. g.next[n] = IF k < Len(s) THEN s[k + 1] ELSE Nothing
      BY <1>2, <1>11
    <3>3. k < Len(s) <=> x < N
      BY <1>1, <1>4, <2>2 DEF N
    <3>4. ASSUME x < N PROVE v[x + 1] = s[k + 1]
      <4>. DEFINE z == x + 1
      <4>1. z \in 1 .. N /\ ~(z <= i) /\ k + (z - i) = k + 1
        BY <1>4, <2>2, <3>4
      <4>2. v[z] = s[k + (z - i)]
        <5>. HIDE DEF z
        <5>. QED BY <1>8, <4>1
      <4>. QED BY <4>1, <4>2
    <3>. QED BY <3>1, <3>2, <3>3, <3>4
  <2>3. CASE x > i
    <3>. DEFINE y == k + (x - i)
    <3>1. y \in 1 .. Len(s) /\ y > k /\ (y < Len(s) <=> x < N)
      BY <1>1, <1>4, <2>3 DEF N
    <3>2. v[x] = s[y]
      BY <1>8, <2>3
    <3>3. ASSUME x < N PROVE v[x + 1] = s[y + 1]
      <4>. DEFINE z == x + 1
      <4>1. z \in 1 .. N /\ ~(z <= i) /\ k + (z - i) = y + 1
        BY <1>4, <2>3, <3>3
      <4>2. v[z] = s[k + (z - i)]
        <5>. HIDE DEF z, y
        <5>. QED BY <1>8, <4>1
      <4>. QED BY <4>1, <4>2
    <3>. HIDE DEF y
    <3>4. k > 0 => s[y] # s[k]
      BY <1>1, <1>4, <2>0, <3>1
    <3>5. g.next[s[y]] = h.next[s[y]]
      BY <1>1, <1>2, <1>11, <3>1, <3>4
    <3>6. h.next[s[y]] = IF y < Len(s) THEN s[y + 1] ELSE Nothing
      BY <1>1, <3>1
    <3>. QED BY <3>1, <3>2, <3>3, <3>5, <3>6
  <2>. QED BY <1>4, <2>1, <2>2, <2>3
<1>14. Follows(v, g.head[m], g.next)
  BY <1>4, <1>7, <1>10, <1>12, <1>13 DEF Follows
<1>. QED BY <1>14 DEF v, n, t

(* The links l and m are left with, and those of the other lists.             *)
LeadsInto(h, g, l, t, n, m) ==
  /\ ForwardChain(g, l) = t
  /\ ForwardChain(g, m) = RunsInto(ForwardChain(h, m), n, t)
  /\ \A other \in Lists \ {l, m} : ForwardChain(g, other) = ForwardChain(h, other)

LEMMA InsertTears ==
  ASSUME NEW h, HeapOK(h), NEW l \in Lists, NEW n \in Node, NEW s \in Seq(Node), Chained(h, l, s),
         h.container[n] \notin {Nothing, l}, NEW p \in Int, p >= AT_BACK,
         p \in {AT_FRONT, AT_BACK} \/ Len(s) = 0 \/ p + 1 \in 1 .. Len(s) - 1
  PROVE  /\ LeadsInto(h, listInsert(h, l, n, p), l, Inserted(s, n, p), n, h.container[n])
         /\ LeavesNodes(h, listInsert(h, l, n, p), l, n)
<1>. DEFINE g == listInsert(h, l, n, p)
            k == PlaceOf(s, p)
            t == Spliced(s, k, n)
            m == h.container[n]
<1>1. h \in HeapT /\ Once(s) /\ m \in Lists /\ m # l
  <2>1. h \in HeapT
    BY DEF HeapOK
  <2>2. h.container \in [Node -> Lists \cup {Nothing}]
    BY <2>1 DEF HeapT
  <2>3. Once(s)
    BY ChainedFacts
  <2>. QED BY <2>1, <2>2, <2>3
<1>2. k \in 0 .. Len(s) /\ InsertEffect(h, g, l, n, s, k)
  <2>. HIDE DEF g
  <2>. QED BY <1>1, InsertDoes DEF g
<1>3. Inserted(s, n, p) = t
  <2>1. h.container[n] # l
    OBVIOUS
  <2>2. n \notin ToSet(s) /\ \A x \in 1 .. Len(s) : s[x] # n
    <3>. HIDE DEF g, k, t, m
    <3>1. h.container[n] = l <=> \E i \in 1 .. Len(s) : s[i] = n
      BY DEF Chained, Linked
    <3>2. n \in ToSet(s) <=> \E i \in 1 .. Len(s) : s[i] = n
      BY InToSet
    <3>. QED BY <2>1, <3>1, <3>2
  <2>. QED BY <1>1, <2>2, PlaceAtIs DEF Inserted
<1>. HIDE DEF g, k, t
<1>4. Chained(g, l, t) /\ Spares(h, g, {l, m}) /\ LeavesNodes(h, g, l, n)
  <2>1. h.container[n] # l /\ m = h.container[n]
    OBVIOUS
  <2>. HIDE DEF m
  <2>2. Chained(g, l, t) /\ Spares(h, g, {l, h.container[n]}) /\ LeavesNodes(h, g, l, n)
    BY ONLY <1>1, <1>2, <2>1, InsertChained, Chained(h, l, s), l \in Lists, n \in Node DEF t
  <2>. QED BY <2>1, <2>2
<1>5. PICK r \in Seq(Node) : Chained(h, m, r)
  BY <1>1 DEF HeapOK
<1>6. PICK i \in 1 .. Len(r) : r[i] = n
  BY <1>1, <1>5, MemberIs
<1>7. ForwardChain(g, l) = t
  BY <1>4, ForwardIs
<1>8. ForwardChain(g, m) = RunsInto(ForwardChain(h, m), n, t)
  <2>1. ForwardChain(h, m) = r
    BY <1>1, <1>5, ForwardIs
  <2>2. Follows(RunsInto(r, n, t), g.head[m], g.next)
    BY <1>1, <1>2, <1>5, <1>6, RunsFollow DEF t
  <2>. QED BY <2>1, <2>2, ChainIs DEF ForwardChain
<1>9. ASSUME NEW other \in Lists \ {l, m} PROVE ForwardChain(g, other) = ForwardChain(h, other)
  <2>1. PICK u \in Seq(Node) : Chained(h, other, u)
    BY DEF HeapOK
  <2>2. Chained(g, other, u)
    BY <1>4, <2>1, SparedStays
  <2>. QED BY <2>1, <2>2, ForwardIs
<1>10. LeadsInto(h, g, l, t, n, m)
  BY <1>7, <1>8, <1>9 DEF LeadsInto
<1>. QED BY <1>3, <1>4, <1>10 DEF g

LEMMA RemoveTurns ==
  ASSUME NEW h \in HeapT, NEW l \in Lists, NEW n \in Node, NEW s \in Seq(Node), Chained(h, l, s)
  PROVE  Turns(h, remove(h, l, n), l, Without(s, n))
<1>. DEFINE g == remove(h, l, n)
<1>1. Once(s)
  BY ChainedFacts
<1>2. CASE ~isMember(h, l, n)
  <2>1. n \notin ToSet(s)
    BY <1>2, MemberIs
  <2>2. g = h /\ Without(s, n) = s
    BY <1>2, <2>1 DEF remove, Without
  <2>. QED BY <2>2, TurnsNot
<1>3. CASE isMember(h, l, n)
  <2>1. PICK k \in 1 .. Len(s) : s[k] = n
    BY <1>3, MemberIs
  <2>. DEFINE t == Shortened(s, k)
  <2>2. Without(s, n) = t
    BY <1>1, <2>1, WithoutIs
  <2>3. RemoveEffect(h, g, l, s, k)
    BY <2>1, RemoveDoes
  <2>. HIDE DEF g
  <2>4. Chained(g, l, t) /\ Spares(h, g, {l})
    <3>. HIDE DEF t
    <3>. QED BY <2>3, RemoveChained DEF t
  <2>5. Once(t)
    BY <1>1, ShortenedSeq
  <2>. QED BY <2>2, <2>3, <2>4, <2>5 DEF Turns, RemoveEffect, g, Once
<1>. QED BY <1>2, <1>3

LEMMA RemoveAtTurns ==
  ASSUME NEW h \in HeapT, NEW l \in Lists, NEW s \in Seq(Node), Chained(h, l, s), NEW p \in Int,
         p \in {AT_FRONT, AT_BACK} \/ p \in 1 .. Len(s) - 2
  PROVE  Turns(h, removeAt(h, l, p), l, WithoutAt(s, p))
<1>. DEFINE g == removeAt(h, l, p)
<1>1. Once(s) /\ Len(s) \in Nat
  BY ChainedFacts
<1>2. CASE Len(s) = 0
  <2>1. s = <<>>
    BY <1>2, EmptySeq
  <2>2. h.head[l] = Nothing
    BY <1>2 DEF Chained, Linked, Follows
  <2>3. g = h /\ WithoutAt(s, p) = s
    BY <2>1, <2>2 DEF removeAt, WithoutAt
  <2>. QED BY <2>3, TurnsNot
<1>3. CASE Len(s) > 0
  <2>. DEFINE k == PlaceToCut(s, p)
              t == Shortened(s, k)
  <2>1. WithoutAt(s, p) = t
    BY <1>1, <1>3, WithoutAtIs
  <2>2. k \in 1 .. Len(s) /\ RemoveEffect(h, g, l, s, k)
    <3>. HIDE DEF g
    <3>. QED BY <1>3, RemoveAtDoes DEF g
  <2>. HIDE DEF k, g
  <2>3. Chained(g, l, t) /\ Spares(h, g, {l})
    <3>. HIDE DEF t
    <3>. QED BY <2>2, RemoveChained DEF t
  <2>4. Once(t)
    BY <1>1, <2>2, ShortenedSeq
  <2>. QED BY <2>1, <2>2, <2>3, <2>4 DEF Turns, RemoveEffect, g, Once
<1>. QED BY <1>1, <1>2, <1>3

LEMMA SortTurns ==
  ASSUME NEW h \in HeapT, NEW l \in Lists, NEW s \in Seq(Node), Chained(h, l, s)
  PROVE  \E t \in StablySorted(s) : Turns(h, sort(h, l), l, t)
BY SortDoes DEF Turns

LEMMA SwapTurns ==
  ASSUME NEW h \in HeapT, NEW l \in Lists, NEW s \in Seq(Node), Chained(h, l, s),
         NEW m \in Node, NEW n \in Node
  PROVE  Turns(h, swap(h, l, m, n), l, Exchanged(s, m, n))
<1>. DEFINE g == swap(h, l, m, n)
<1>1. Once(s) /\ Len(s) \in Nat
  BY ChainedFacts
<1>2. CASE ~isMember(h, l, m) \/ ~isMember(h, l, n)
  <2>1. ~({m, n} \subseteq ToSet(s))
    BY <1>2, MemberIs
  <2>2. g = h /\ Exchanged(s, m, n) = s
    BY <1>2, <2>1 DEF swap, Exchanged
  <2>. QED BY <2>2, TurnsNot
<1>3. CASE isMember(h, l, m) /\ isMember(h, l, n)
  <2>1. PICK x \in 1 .. Len(s) : s[x] = m
    BY <1>3, MemberIs
  <2>2. PICK y \in 1 .. Len(s) : s[y] = n
    BY <1>3, MemberIs
  <2>3. Exchanged(s, m, n) = Swapped(s, x, y)
    BY <1>1, <2>1, <2>2, ExchangedIs
  <2>4. CASE x = y
    <3>1. g = h
      BY <2>1, <2>2, <2>4 DEF swap
    <3>2. Swapped(s, x, y) = s
      <4>1. /\ Swapped(s, x, y) \in Seq(Node) /\ Len(Swapped(s, x, y)) = Len(s)
            /\ \A i \in 1 .. Len(s) : Swapped(s, x, y)[i] = s[i]
        BY <1>1, <2>4, SwappedSeq DEF Once
      <4>. QED BY <4>1, SeqEqual
    <3>. QED BY <2>3, <3>1, <3>2, TurnsNot
  <2>5. CASE x # y
    <3>1. LET q == swap(h, l, s[x], s[y])
          IN q \in HeapT /\ Chained(q, l, Swapped(s, x, y)) /\ Spares(h, q, {l})
      BY <2>5, SwapDoes
    <3>2. Once(Swapped(s, x, y))
      BY <1>1, SwappedSeq
    <3>. QED BY <2>1, <2>2, <2>3, <3>1, <3>2 DEF Turns, Once
  <2>. QED BY <2>4, <2>5
<1>. QED BY <1>2, <1>3

(* All of src goes into l.                                                    *)
Moves(h, g, l, src, u) ==
  /\ u \in Seq(Node) /\ g \in HeapT /\ Chained(g, l, u) /\ Chained(g, src, <<>>)
  /\ Spares(h, g, {l, src})

LEMMA MovesOK ==
  ASSUME NEW h, HeapOK(h), NEW g, NEW l \in Lists, NEW src \in Lists, NEW u, Moves(h, g, l, src, u)
  PROVE  HeapOK(g)
<1>1. ASSUME NEW m \in Lists, m # l, m # src PROVE \E s \in Seq(Node) : Chained(g, m, s)
  <2>1. PICK s \in Seq(Node) : Chained(h, m, s)
    BY DEF HeapOK
  <2>2. Spares(h, g, {l, src}) /\ m \in Lists \ {l, src}
    BY <1>1 DEF Moves
  <2>. QED BY <2>1, <2>2, SparedStays
<1>2. <<>> \in Seq(Node)
  BY EmptySeq
<1>. QED BY <1>1, <1>2 DEF HeapOK, Moves

LEMMA MoveMoves ==
  ASSUME NEW h \in HeapT, NEW l \in Lists, NEW src \in Lists, l # src,
         NEW s \in Seq(Node), Chained(h, l, s), NEW t \in Seq(Node), Chained(h, src, t),
         NEW p \in Int, p \in {AT_FRONT, AT_BACK} \/ Len(s) = 0, p >= AT_BACK
  PROVE  Moves(h, move(h, l, src, p), l, src, IF t = <<>> THEN s ELSE PlaceAt(s, t, p))
<1>. DEFINE g == move(h, l, src, p)
<1>1. Len(s) \in Nat /\ Len(t) \in Nat /\ Once(s) /\ Once(t)
  BY ChainedFacts
<1>2. (t = <<>> <=> Len(t) = 0) /\ (s = <<>> <=> Len(s) = 0)
  BY EmptySeq
<1>3. CASE Len(t) = 0
  <2>1. h.head[src] = Nothing
    BY <1>3 DEF Chained, Linked, Follows
  <2>2. g = h
    BY <2>1 DEF move
  <2>3. Chained(g, src, <<>>) /\ t = <<>>
    BY <1>2, <1>3, <2>2
  <2>4. Spares(h, h, {l, src})
    BY DEF Spares
  <2>. HIDE DEF g
  <2>5. Moves(h, g, l, src, s)
    BY <2>2, <2>3, <2>4 DEF Moves
  <2>. QED BY <2>3, <2>5 DEF g
<1>4. CASE Len(t) > 0
  <2>. DEFINE u == IF Len(s) = 0 THEN t ELSE IF p = AT_FRONT THEN t \o s ELSE s \o t
  <2>1. PlaceAt(s, t, p) = u
    <3>1. CASE Len(s) = 0
      <4>1. s = <<>> /\ t \o <<>> = t
        BY <1>2, <3>1, ConcatEmptySeq
      <4>. QED BY <3>1, <4>1 DEF PlaceAt
    <3>2. CASE Len(s) # 0 /\ p = AT_FRONT
      BY <1>2, <3>2 DEF PlaceAt, AT_FRONT, AT_BACK
    <3>3. CASE Len(s) # 0 /\ p = AT_BACK
      BY <1>2, <3>3 DEF PlaceAt, AT_FRONT, AT_BACK
    <3>. QED BY <3>1, <3>2, <3>3
  <2>2. u \in Seq(Node)
    <3>1. t \o s \in Seq(Node) /\ s \o t \in Seq(Node)
      BY GluedOf
    <3>. QED BY <3>1
  <2>3. /\ g \in HeapT /\ Chained(g, src, <<>>) /\ Spares(h, g, {l, src})
        /\ Chained(g, l, u)
    <3>1. LET q == move(h, l, src, p)
          IN /\ q \in HeapT /\ Chained(q, src, <<>>) /\ Spares(h, q, {l, src})
             /\ Chained(q, l, IF Len(s) = 0 THEN t ELSE IF p = AT_FRONT THEN t \o s ELSE s \o t)
      BY <1>4, MoveDoes
    <3>. QED BY <3>1
  <2>4. ~(t = <<>>)
    BY <1>2, <1>4
  <2>. HIDE DEF g, u
  <2>5. Moves(h, g, l, src, u)
    BY <2>2, <2>3 DEF Moves
  <2>. QED BY <2>1, <2>4, <2>5 DEF g
<1>. QED BY <1>1, <1>3, <1>4

LEMMA CleanTurns ==
  ASSUME NEW h \in HeapT, NEW l \in Lists, NEW s \in Seq(Node), Chained(h, l, s), h.size[l] = 0
  PROVE  Turns(h, clean(h, l), l, s)
<1>1. Len(s) = 0 /\ h.head[l] = Nothing /\ h.tail[l] = Nothing
  BY DEF Chained, Linked, Follows
<1>2. clean(h, l) = h
  BY <1>1 DEF clean, HeapT
<1>. QED BY <1>2, TurnsNot

-----------------------------------------------------------------------------
(* The properties, from what the lists are.                                   *)

(* The other way round.                                                       *)
LEMMA ReverseFollows ==
  ASSUME NEW h, NEW l \in Lists, NEW s \in Seq(Node), Chained(h, l, s)
  PROVE  Reverse(s) \in Seq(Node) /\ Follows(Reverse(s), h.tail[l], h.prev)
<1>. DEFINE u == Reverse(s)
<1>1. Len(s) \in Nat /\ \A i \in 1 .. Len(s) : s[i] \in Node
  BY AsFunction
<1>2. \A i, j \in 1 .. Len(s) : s[i] = s[j] => i = j
  BY DEF Chained, Linked, Follows, Once
<1>3. u = [i \in 1 .. Len(s) |-> s[(Len(s) - i) + 1]]
  BY DEF Reverse
<1>4. \A i \in 1 .. Len(s) : (Len(s) - i) + 1 \in 1 .. Len(s) /\ u[i] = s[(Len(s) - i) + 1]
  BY <1>1, <1>3
<1>. HIDE DEF u
<1>5. u \in [1 .. Len(s) -> Node]
  BY <1>1, <1>3, <1>4
<1>6. u \in Seq(Node) /\ Len(u) = Len(s)
  BY <1>1, <1>5, IsASeq, LenProperties
<1>7. ASSUME NEW i \in 1 .. Len(u), NEW j \in 1 .. Len(u), u[i] = u[j] PROVE i = j
  <2>1. (Len(s) - i) + 1 = (Len(s) - j) + 1
    BY <1>2, <1>4, <1>6, <1>7
  <2>. QED BY <1>1, <1>6, <2>1
<1>8. h.tail[l] = IF Len(u) = 0 THEN Nothing ELSE u[1]
  <2>1. Len(s) # 0 => u[1] = s[Len(s)]
    BY <1>1, <1>4
  <2>. QED BY <1>6, <2>1 DEF Chained
<1>9. ASSUME NEW i \in 1 .. Len(u) PROVE h.prev[u[i]] = IF i < Len(u) THEN u[i + 1] ELSE Nothing
  <2>. DEFINE k == (Len(s) - i) + 1
  <2>1. k \in 1 .. Len(s) /\ u[i] = s[k]
    BY <1>4, <1>6
  <2>2. h.prev[s[k]] = IF k > 1 THEN s[k - 1] ELSE Nothing
    <3>. HIDE DEF k
    <3>. QED BY <2>1 DEF Chained, Linked
  <2>3. k > 1 <=> i < Len(u)
    BY <1>1, <1>6
  <2>4. i < Len(u) => i + 1 \in 1 .. Len(s) /\ (Len(s) - (i + 1)) + 1 = k - 1
    BY <1>1, <1>6
  <2>5. i < Len(u) => u[i + 1] = s[k - 1]
    BY <1>4, <2>4
  <2>. HIDE DEF k
  <2>. QED BY <2>1, <2>2, <2>3, <2>5
<1>10. Follows(u, h.tail[l], h.prev)
  BY <1>6, <1>7, <1>8, <1>9 DEF Follows, Once
<1>. QED BY <1>6, <1>10 DEF u

LEMMA MirrorHolds ==
  ASSUME HeapOK(heap)
  PROVE  LinksMirror
<1>. SUFFICES ASSUME NEW l \in Lists
              PROVE  LET s == ForwardChain(heap, l)
                     IN /\ BackwardChain(heap, l) = Reverse(s)
                        /\ heap.size[l] = Len(s)
                        /\ ToSet(s) = {n \in Node : heap.container[n] = l}
  BY DEF LinksMirror
<1>1. PICK s \in Seq(Node) : Chained(heap, l, s)
  BY DEF HeapOK
<1>2. ForwardChain(heap, l) = s
  BY <1>1, ForwardIs
<1>3. BackwardChain(heap, l) = Reverse(s)
  BY <1>1, ReverseFollows, ChainIs DEF BackwardChain
<1>4. heap.size[l] = Len(s)
  BY <1>1, ChainedFacts
<1>5. ASSUME NEW n PROVE n \in ToSet(s) <=> n \in Node /\ heap.container[n] = l
  <2>1. n \in ToSet(s) <=> \E i \in 1 .. Len(s) : s[i] = n
    BY InToSet
  <2>2. \A i \in 1 .. Len(s) : s[i] \in Node
    BY AsFunction
  <2>3. n \in Node => (heap.container[n] = l <=> \E i \in 1 .. Len(s) : s[i] = n)
    BY <1>1 DEF Chained, Linked
  <2>. QED BY <2>1, <2>2, <2>3
<1>6. ToSet(s) = {n \in Node : heap.container[n] = l}
  BY <1>5
<1>. QED BY <1>2, <1>3, <1>4, <1>6

LEMMA PositionsAre ==
  ASSUME NEW p \in Positions
  PROVE  p \in Int /\ p >= AT_BACK
BY FS_CardinalityType, ListAssumption DEF Positions, AT_BACK

LEMMA HandlesIs ==
  ASSUME NEW l \in Lists, NEW s \in Seq(Node), Chained(heap, l, s), NEW p \in Positions
  PROVE  /\ Handles("insert", l, p) =>
              p \in {AT_FRONT, AT_BACK} \/ Len(s) = 0 \/ p + 1 \in 1 .. Len(s) - 1
         /\ Handles("remove", l, p) => p \in {AT_FRONT, AT_BACK} \/ p \in 1 .. Len(s) - 2
         /\ Handles("move", l, p) => p \in {AT_FRONT, AT_BACK} \/ Len(s) = 0
<1>1. heap.size[l] = Len(s)
  BY ChainedFacts
<1>. QED BY <1>1 DEF Handles

LEMMA CallsAct ==
  ASSUME HeapOK(heap)
  PROVE  CallsActOnSequences
<1>. SUFFICES ASSUME NEW l \in Lists
              PROVE  LET s == ForwardChain(heap, l)
                         Becomes(h, t) == /\ ForwardChain(h, l) = t
                                          /\ \A m \in Lists \ {l} : ForwardChain(h, m) = ForwardChain(heap, m)
                         Tears(h, t, n, m) ==
                           /\ ForwardChain(h, l) = t
                           /\ ForwardChain(h, m) = RunsInto(ForwardChain(heap, m), n, t)
                           /\ \A other \in Lists \ {l, m} : ForwardChain(h, other) = ForwardChain(heap, other)
                     IN /\ \A n \in Node, p \in Positions :
                             Handles("insert", l, p)
                               => LET h == listInsert(heap, l, n, p)
                                      t == Inserted(s, n, p)
                                  IN IF heap.container[n] \in {Nothing, l} THEN Becomes(h, t)
                                     ELSE Tears(h, t, n, heap.container[n])
                        /\ \A n \in Node : Becomes(remove(heap, l, n), Without(s, n))
                        /\ \A p \in Positions :
                             Handles("remove", l, p) => Becomes(removeAt(heap, l, p), WithoutAt(s, p))
                        /\ \E t \in StablySorted(s) : Becomes(sort(heap, l), t)
                        /\ \A m, n \in Node : Becomes(swap(heap, l, m, n), Exchanged(s, m, n))
                        /\ \A src \in Lists \ {l}, p \in Positions :
                             Handles("move", l, p)
                               => LET h == move(heap, l, src, p)
                                      t == ForwardChain(heap, src)
                                  IN /\ ForwardChain(h, l) = IF t = <<>> THEN s ELSE PlaceAt(s, t, p)
                                     /\ ForwardChain(h, src) = <<>>
  BY DEF CallsActOnSequences
<1>0. heap \in HeapT
  BY DEF HeapOK
<1>1. PICK s \in Seq(Node) : Chained(heap, l, s)
  BY DEF HeapOK
<1>2. ForwardChain(heap, l) = s
  BY <1>1, ForwardIs
<1>3. ASSUME NEW n \in Node, NEW p \in Positions,
             heap.container[n] \in {Nothing, l}, Handles("insert", l, p)
      PROVE  TurnsTo(heap, listInsert(heap, l, n, p), l, Inserted(s, n, p))
  <2>1. /\ p \in Int /\ p >= AT_BACK
        /\ p \in {AT_FRONT, AT_BACK} \/ Len(s) = 0 \/ p + 1 \in 1 .. Len(s) - 1
    BY <1>1, <1>3, PositionsAre, HandlesIs
  <2>. QED BY <1>0, <1>1, <1>3, <2>1, InsertTurns, TurnsBecomes
<1>11. ASSUME NEW n \in Node, NEW p \in Positions,
              heap.container[n] \notin {Nothing, l}, Handles("insert", l, p)
       PROVE  LeadsInto(heap, listInsert(heap, l, n, p), l, Inserted(s, n, p), n, heap.container[n])
  <2>1. /\ p \in Int /\ p >= AT_BACK
        /\ p \in {AT_FRONT, AT_BACK} \/ Len(s) = 0 \/ p + 1 \in 1 .. Len(s) - 1
    BY <1>1, <1>11, PositionsAre, HandlesIs
  <2>. QED BY <1>1, <1>11, <2>1, InsertTears
<1>4. ASSUME NEW n \in Node
      PROVE  TurnsTo(heap, remove(heap, l, n), l, Without(s, n))
  BY <1>0, <1>1, RemoveTurns, TurnsBecomes
<1>5. ASSUME NEW p \in Positions, Handles("remove", l, p)
      PROVE  TurnsTo(heap, removeAt(heap, l, p), l, WithoutAt(s, p))
  <2>1. p \in Int /\ (p \in {AT_FRONT, AT_BACK} \/ p \in 1 .. Len(s) - 2)
    BY <1>1, <1>5, PositionsAre, HandlesIs
  <2>. QED BY <1>0, <1>1, <2>1, RemoveAtTurns, TurnsBecomes
<1>6. \E t \in StablySorted(s) : TurnsTo(heap, sort(heap, l), l, t)
  BY <1>0, <1>1, SortTurns, TurnsBecomes
<1>7. ASSUME NEW m \in Node, NEW n \in Node
      PROVE  TurnsTo(heap, swap(heap, l, m, n), l, Exchanged(s, m, n))
  BY <1>0, <1>1, SwapTurns, TurnsBecomes
<1>8. ASSUME NEW src \in Lists \ {l}, NEW p \in Positions, Handles("move", l, p)
      PROVE  LET h == move(heap, l, src, p)
                 t == ForwardChain(heap, src)
             IN /\ ForwardChain(h, l) = IF t = <<>> THEN s ELSE PlaceAt(s, t, p)
                /\ ForwardChain(h, src) = <<>>
  <2>1. p \in Int /\ p >= AT_BACK /\ (p \in {AT_FRONT, AT_BACK} \/ Len(s) = 0)
    BY <1>1, <1>8, PositionsAre, HandlesIs
  <2>2. PICK t \in Seq(Node) : Chained(heap, src, t)
    BY DEF HeapOK
  <2>3. ForwardChain(heap, src) = t
    BY <2>2, ForwardIs
  <2>. DEFINE h == move(heap, l, src, p)
              u == IF t = <<>> THEN s ELSE PlaceAt(s, t, p)
  <2>4. Moves(heap, h, l, src, u)
    BY <1>0, <1>1, <2>1, <2>2, MoveMoves
  <2>. HIDE DEF h, u
  <2>5. ForwardChain(h, l) = u /\ ForwardChain(h, src) = <<>>
    BY <2>4, ForwardIs DEF Moves
  <2>. QED BY <2>3, <2>5 DEF h, u
<1>. DEFINE Becomes(h, t) == /\ ForwardChain(h, l) = t
                             /\ \A m \in Lists \ {l} : ForwardChain(h, m) = ForwardChain(heap, m)
            Tears(h, t, n, m) ==
              /\ ForwardChain(h, l) = t
              /\ ForwardChain(h, m) = RunsInto(ForwardChain(heap, m), n, t)
              /\ \A other \in Lists \ {l, m} : ForwardChain(h, other) = ForwardChain(heap, other)
<1>9. /\ \A h, t : TurnsTo(heap, h, l, t) <=> Becomes(h, t)
      /\ \A h, t, n, m : LeadsInto(heap, h, l, t, n, m) <=> Tears(h, t, n, m)
  BY DEF TurnsTo, LeadsInto
<1>. HIDE DEF Becomes, Tears
<1>10. /\ \A n \in Node, p \in Positions :
            Handles("insert", l, p)
              => IF heap.container[n] \in {Nothing, l}
                 THEN Becomes(listInsert(heap, l, n, p), Inserted(s, n, p))
                 ELSE Tears(listInsert(heap, l, n, p), Inserted(s, n, p), n, heap.container[n])
       /\ \A n \in Node : Becomes(remove(heap, l, n), Without(s, n))
       /\ \A p \in Positions :
            Handles("remove", l, p) => Becomes(removeAt(heap, l, p), WithoutAt(s, p))
       /\ \E t \in StablySorted(s) : Becomes(sort(heap, l), t)
       /\ \A m, n \in Node : Becomes(swap(heap, l, m, n), Exchanged(s, m, n))
  BY <1>3, <1>4, <1>5, <1>6, <1>7, <1>9, <1>11
<1>. QED BY <1>2, <1>8, <1>10 DEF Becomes, Tears

-----------------------------------------------------------------------------
(* The walk of a list.                                                        *)

Along(h, link) == IF link = "next" THEN h.next ELSE h.prev

LEMMA AlongIs ==
  ASSUME NEW h \in HeapT, NEW link \in {"next", "prev"}
  PROVE  h[link] = Along(h, link)
BY DEF HeapT, Along

(* The nodes still to come are linked as they were when the walk began.       *)
Ahead(h, w) ==
  /\ w.list \in Lists /\ Len(w.seen) >= 1
  /\ w.current = w.start[Len(w.seen)]
  /\ w.iter = IF Len(w.seen) < Len(w.start) THEN w.start[Len(w.seen) + 1] ELSE Nothing
  /\ \A i \in Len(w.seen) + 1 .. Len(w.start) :
       /\ h.container[w.start[i]] = w.list
       /\ Along(h, w.link)[w.start[i]] = IF i < Len(w.start) THEN w.start[i + 1] ELSE Nothing

WalkT == [list : Lists \cup {Nothing}, link : {"next", "prev"}, current : Link, iter : Link,
          start : Seq(Node), seen : Seq(Node)]

WalkOK(h, w) ==
  /\ w \in WalkT /\ Once(w.start)
  /\ Len(w.seen) <= Len(w.start) /\ \A i \in 1 .. Len(w.seen) : w.seen[i] = w.start[i]
  /\ IF w.current = Nothing THEN Len(w.seen) = Len(w.start) ELSE Ahead(h, w)

(* What a call must leave alone.                                              *)
LEMMA AheadStays ==
  ASSUME NEW h, NEW g, NEW w, WalkOK(h, w),
         w.current # Nothing =>
           \A i \in Len(w.seen) + 1 .. Len(w.start) :
             /\ g.container[w.start[i]] = h.container[w.start[i]]
             /\ Along(g, w.link)[w.start[i]] = Along(h, w.link)[w.start[i]]
  PROVE  WalkOK(g, w)
<1>1. CASE w.current = Nothing
  BY <1>1 DEF WalkOK
<1>2. CASE w.current # Nothing
  <2>1. Ahead(h, w)
    BY <1>2 DEF WalkOK
  <2>2. Ahead(g, w)
    BY <1>2, <2>1 DEF Ahead
  <2>. QED BY <1>2, <2>2 DEF WalkOK
<1>. QED BY <1>1, <1>2

LEMMA WalkShows ==
  ASSUME WalkOK(heap, walk)
  PROVE  WalkVisitsAll
<1>. DEFINE s == walk.seen
            t == walk.start
<1>1. /\ s \in Seq(Node) /\ t \in Seq(Node) /\ Len(s) <= Len(t)
      /\ \A i \in 1 .. Len(s) : s[i] = t[i]
      /\ walk.current = Nothing => Len(s) = Len(t)
  BY DEF WalkOK, WalkT
<1>. HIDE DEF s, t
<1>2. Len(s) \in Nat /\ Len(t) \in Nat
  BY <1>1, LenProperties
<1>3. SubSeq(s, 1, Len(s)) = SubSeq(t, 1, Len(s))
  <2>. DEFINE a == SubSeq(s, 1, Len(s))
              b == SubSeq(t, 1, Len(s))
  <2>1. /\ 1 \in 1 .. Len(s) + 1 /\ Len(s) \in 1 - 1 .. Len(s)
        /\ 1 \in 1 .. Len(t) + 1 /\ Len(s) \in 1 - 1 .. Len(t)
    BY <1>1, <1>2
  <2>2. /\ a \in Seq(Node) /\ Len(a) = Len(s) - 1 + 1
        /\ \A i \in 1 .. Len(s) - 1 + 1 : a[i] = s[1 + i - 1]
    BY ONLY <1>1, <2>1, PieceOf
  <2>3. /\ b \in Seq(Node) /\ Len(b) = Len(s) - 1 + 1
        /\ \A i \in 1 .. Len(s) - 1 + 1 : b[i] = t[1 + i - 1]
    BY ONLY <1>1, <2>1, PieceOf
  <2>. HIDE DEF a, b
  <2>4. Len(a) = Len(b) /\ \A i \in 1 .. Len(a) : a[i] = b[i]
    BY <1>1, <1>2, <2>2, <2>3
  <2>5. a = b
    BY <2>2, <2>3, <2>4, SeqEqual
  <2>. QED BY <2>5 DEF a, b
<1>4. walk.current = Nothing => s = t
  BY <1>1, SeqEqual
<1>. QED BY <1>1, <1>3, <1>4 DEF WalkVisitsAll, IsPrefix, s, t

(* A call on another list.                                                    *)
LEMMA TurnsAhead ==
  ASSUME NEW h, NEW g, NEW l \in Lists, NEW t, Turns(h, g, l, t), NEW w, WalkOK(h, w),
         w.current # Nothing => l # w.list
  PROVE  WalkOK(g, w)
<1>1. ASSUME w.current # Nothing, NEW i \in Len(w.seen) + 1 .. Len(w.start)
      PROVE  /\ g.container[w.start[i]] = h.container[w.start[i]]
             /\ Along(g, w.link)[w.start[i]] = Along(h, w.link)[w.start[i]]
  <2>1. w.list \in Lists \ {l} /\ h.container[w.start[i]] = w.list
    BY <1>1 DEF WalkOK, Ahead
  <2>2. w.start \in Seq(Node) /\ Len(w.seen) \in Nat
    BY LenProperties DEF WalkOK, WalkT
  <2>3. w.start[i] \in Node
    <3>1. i \in 1 .. Len(w.start)
      BY <1>1, <2>2
    <3>. QED BY <2>2, <3>1, AsFunction
  <2>4. g.container[w.start[i]] = w.list
    BY <2>1, <2>3 DEF Turns, Spares
  <2>5. g.next[w.start[i]] = h.next[w.start[i]] /\ g.prev[w.start[i]] = h.prev[w.start[i]]
    BY <2>1, <2>3 DEF Turns, Spares
  <2>. QED BY <2>1, <2>4, <2>5 DEF Along
<1>. QED BY <1>1, AheadStays

(* The current node taken out of the list that is walked.                     *)
LEMMA RemoveAhead ==
  ASSUME NEW h \in HeapT, NEW w, WalkOK(h, w), w.current # Nothing,
         NEW s \in Seq(Node), Chained(h, w.list, s)
  PROVE  WalkOK(remove(h, w.list, w.current), w)
<1>. DEFINE l == w.list
            n == w.current
            g == remove(h, l, n)
            k == Len(w.seen)
<1>1. Ahead(h, w) /\ l \in Lists /\ n \in Node /\ n = w.start[k] /\ w.start \in Seq(Node) /\ w.link \in {"next", "prev"}
      /\ k \in Nat /\ k \in 1 .. Len(w.start) /\ Len(w.start) \in Nat
  <2>1. w.seen \in Seq(Node) /\ w.start \in Seq(Node) /\ Len(w.seen) <= Len(w.start)
        /\ n \in Node /\ w.link \in {"next", "prev"} /\ Ahead(h, w)
    BY DEF WalkOK, WalkT, Link
  <2>2. Len(w.seen) \in Nat /\ Len(w.start) \in Nat
    BY <2>1, LenProperties
  <2>. QED BY <2>1, <2>2 DEF Ahead
<1>2. CASE ~isMember(h, l, n)
  BY <1>2 DEF remove
<1>3. CASE isMember(h, l, n)
  <2>1. PICK j \in 1 .. Len(s) : s[j] = n
    BY <1>1, <1>3, MemberIs, ZenonT(60)
  <2>2. RemoveEffect(h, g, l, s, j)
    <3>. HIDE DEF g, l, n
    <3>. QED BY <1>1, <2>1, RemoveDoes DEF g, l
  <2>. HIDE DEF g
  <2>3. ASSUME NEW i \in k + 1 .. Len(w.start)
        PROVE  /\ g.container[w.start[i]] = h.container[w.start[i]]
               /\ Along(g, w.link)[w.start[i]] = Along(h, w.link)[w.start[i]]
    <3>. DEFINE m == w.start[i]
    <3>1. i \in 1 .. Len(w.start) /\ i # k /\ i > k
      BY <1>1
    <3>2. \A a, b \in 1 .. Len(w.start) : w.start[a] = w.start[b] => a = b
      BY DEF WalkOK, Once
    <3>3. m \in Node /\ m # n
      BY <1>1, <3>1, <3>2, AsFunction
    <3>4. Along(h, w.link)[m] # n
      <4>1. Along(h, w.link)[m] = IF i < Len(w.start) THEN w.start[i + 1] ELSE Nothing
        BY <1>1 DEF Ahead
      <4>2. i < Len(w.start) => i + 1 \in 1 .. Len(w.start) /\ i + 1 # k
        BY <1>1, <3>1
      <4>. QED BY <1>1, <3>2, <4>1, <4>2, ListAssumption
    <3>. HIDE DEF m, n, l, k
    <3>5. g.container[m] = h.container[m]
      BY <2>1, <2>2, <3>3 DEF RemoveEffect
    <3>6. Len(s) \in Nat /\ j \in Nat
          /\ \A a \in 1 .. Len(s) : /\ h.next[s[a]] = IF a < Len(s) THEN s[a + 1] ELSE Nothing
                                    /\ h.prev[s[a]] = IF a > 1 THEN s[a - 1] ELSE Nothing
      BY AsFunction DEF Chained, Linked, Follows
    <3>7. CASE w.link = "next"
      <4>1. h.next[m] # n
        BY <3>4, <3>7 DEF Along
      <4>2. ~(j > 1 /\ m = s[j - 1])
        <5>1. j > 1 => j - 1 \in 1 .. Len(s) /\ j - 1 < Len(s) /\ j - 1 + 1 = j
          BY <3>6
        <5>. QED BY <2>1, <3>6, <4>1, <5>1
      <4>3. g.next[m] = h.next[m]
        BY <2>2, <3>3, <4>2 DEF RemoveEffect
      <4>. QED BY <3>5, <3>7, <4>3 DEF Along, m
    <3>8. CASE w.link # "next"
      <4>1. h.prev[m] # n
        BY <3>4, <3>8 DEF Along
      <4>2. ~(j < Len(s) /\ m = s[j + 1])
        <5>1. j < Len(s) => j + 1 \in 1 .. Len(s) /\ j + 1 > 1 /\ j + 1 - 1 = j
          BY <3>6
        <5>. QED BY <2>1, <3>6, <4>1, <5>1
      <4>3. g.prev[m] = h.prev[m]
        BY <2>2, <3>3, <4>2 DEF RemoveEffect
      <4>. QED BY <3>5, <3>8, <4>3 DEF Along, m
    <3>. QED BY <3>7, <3>8
  <2>. QED BY <2>3, AheadStays DEF g, k
<1>. QED BY <1>2, <1>3

-----------------------------------------------------------------------------
(* The inductive invariant: at the start, and when a walk begins.             *)

ListInv == (~torn => HeapOK(heap)) /\ WalkOK(heap, walk)

LEMMA InitOK == ListInit => ListInv
<1>. SUFFICES ASSUME ListInit PROVE ListInv
  OBVIOUS
<1>0. <<>> \in Seq(Node) /\ Len(<<>>) = 0
  BY EmptySeq
<1>1. heap \in HeapT
  BY DEF ListInit, HeapT, NoLinks, Link
<1>2. ASSUME NEW l \in Lists PROVE Chained(heap, l, <<>>)
  <2>1. heap.head[l] = Nothing /\ heap.tail[l] = Nothing /\ heap.size[l] = 0
        /\ \A n \in Node : heap.container[n] # l
    BY ListAssumption DEF ListInit, NoLinks
  <2>2. Once(<<>>)
    BY <1>0 DEF Once
  <2>. QED BY <1>0, <2>1, <2>2 DEF Chained, Linked, Follows
<1>3. WalkOK(heap, walk)
  <2>1. /\ walk.list = Nothing /\ walk.link = "next" /\ walk.current = Nothing /\ walk.iter = Nothing
        /\ walk.start = <<>> /\ walk.seen = <<>> /\ walk \in WalkT
    BY <1>0 DEF ListInit, NoWalk, WalkT, Link
  <2>. QED BY <1>0, <2>1 DEF WalkOK, Once
<1>. QED BY <1>0, <1>1, <1>2, <1>3 DEF ListInv, HeapOK

(* A walk begins at a node of the list, or there is none.                     *)
LEMMA StartOK ==
  ASSUME HeapOK(heap), NEW l \in Lists, NEW link \in {"next", "prev"}, NEW n \in Node \cup {Nothing},
         StartWalk(l, link, n)
  PROVE  WalkOK(heap, walk')
<1>. DEFINE first == IF isMember(heap, l, n) THEN n
                     ELSE IF link = "next" THEN heap.head[l] ELSE heap.tail[l]
            start == IF first = Nothing THEN <<>> ELSE Chain(first, heap[link])
            seen == IF first = Nothing THEN <<>> ELSE <<first>>
            w == [list |-> l, link |-> link, current |-> first, iter |-> NextOf(link, first),
                  start |-> start, seen |-> seen]
            along == Along(heap, link)
<1>1. walk' = w
  BY DEF StartWalk
<1>2. heap \in HeapT /\ heap[link] = along
  BY AlongIs DEF HeapOK
<1>3. PICK s \in Seq(Node) : Chained(heap, l, s)
  BY DEF HeapOK
<1>. DEFINE v == IF link = "next" THEN s ELSE Reverse(s)
            end == IF link = "next" THEN heap.head[l] ELSE heap.tail[l]
<1>4. v \in Seq(Node) /\ Follows(v, end, along)
  BY <1>3, ReverseFollows DEF Along, Chained, Linked
<1>5. Len(s) \in Nat /\ \A i \in 1 .. Len(s) : heap.container[s[i]] = l
  <2>1. ASSUME NEW i \in 1 .. Len(s) PROVE heap.container[s[i]] = l
    <3>1. s[i] \in Node
      BY AsFunction
    <3>2. Linked(heap, l, s)
      BY <1>3 DEF Chained
    <3>. QED BY <3>1, <3>2 DEF Linked
  <2>. QED BY <2>1, AsFunction
<1>6. Len(v) \in Nat /\ \A i \in 1 .. Len(v) : v[i] \in Node /\ v[i] # Nothing /\ heap.container[v[i]] = l
  <2>1. Len(v) \in Nat /\ \A i \in 1 .. Len(v) : v[i] \in Node /\ v[i] # Nothing
    BY <1>4, AsFunction
  <2>2. CASE link = "next"
    BY <1>5, <2>1, <2>2
  <2>3. CASE link # "next"
    <3>1. v = [i \in 1 .. Len(s) |-> s[(Len(s) - i) + 1]]
      BY <2>3 DEF Reverse
    <3>2. Len(v) = Len(s)
      <4>1. \A i \in 1 .. Len(s) : s[(Len(s) - i) + 1] \in Node
        <5>1. \A i \in 1 .. Len(s) : (Len(s) - i) + 1 \in 1 .. Len(s)
          BY <1>5
        <5>. QED BY <5>1, AsFunction
      <4>2. v \in [1 .. Len(s) -> Node]
        BY <3>1, <4>1
      <4>. HIDE DEF v
      <4>. QED BY <1>4, <1>5, <4>2, LenProperties
    <3>3. \A i \in 1 .. Len(s) : (Len(s) - i) + 1 \in 1 .. Len(s) /\ v[i] = s[(Len(s) - i) + 1]
      BY <1>5, <3>1
    <3>. HIDE DEF v
    <3>4. ASSUME NEW i \in 1 .. Len(v) PROVE heap.container[v[i]] = l
      <4>1. (Len(s) - i) + 1 \in 1 .. Len(s) /\ v[i] = s[(Len(s) - i) + 1]
        BY <3>2, <3>3
      <4>. QED BY <1>5, <4>1
    <3>. QED BY <2>1, <3>4
  <2>. QED BY <2>2, <2>3
<1>7. first = Nothing \/ \E k \in 1 .. Len(v) : first = v[k]
  <2>1. CASE isMember(heap, l, n)
    <3>1. n \in Node
      BY <2>1 DEF isMember
    <3>2. PICK i \in 1 .. Len(s) : s[i] = n
      BY <1>3, <2>1, <3>1, MemberIs
    <3>3. CASE link = "next"
      BY <2>1, <3>2, <3>3
    <3>4. CASE link # "next"
      <4>1. (Len(s) - i) + 1 \in 1 .. Len(s) /\ (Len(s) - ((Len(s) - i) + 1)) + 1 = i
        BY <1>5
      <4>2. v = [j \in 1 .. Len(s) |-> s[(Len(s) - j) + 1]]
        BY <3>4 DEF Reverse
      <4>3. v[(Len(s) - i) + 1] = s[i]
        BY <4>1, <4>2
      <4>4. heap.container[v[(Len(s) - i) + 1]] = l
        BY <1>5, <4>3
      <4>5. Len(v) = Len(s)
        <5>1. \A j \in 1 .. Len(s) : s[(Len(s) - j) + 1] \in Node
          <6>1. \A j \in 1 .. Len(s) : (Len(s) - j) + 1 \in 1 .. Len(s)
            BY <1>5
          <6>. QED BY <6>1, AsFunction
        <5>2. v \in [1 .. Len(s) -> Node]
          BY <4>2, <5>1
        <5>. HIDE DEF v
        <5>. QED BY <1>4, <1>5, <5>2, LenProperties
      <4>. HIDE DEF v
      <4>. QED BY <2>1, <3>2, <4>1, <4>3, <4>5
    <3>. QED BY <3>3, <3>4
  <2>2. CASE ~isMember(heap, l, n)
    <3>1. first = end
      BY <2>2
    <3>2. end = IF Len(v) = 0 THEN Nothing ELSE v[1]
      <4>. HIDE DEF end, v
      <4>. QED BY <1>4 DEF Follows
    <3>3. Len(v) # 0 => 1 \in 1 .. Len(v)
      BY <1>6
    <3>. HIDE DEF first, end, v
    <3>. QED BY <3>1, <3>2, <3>3
  <2>. QED BY <2>1, <2>2
<1>. HIDE DEF v, end, along
<1>8. CASE first = Nothing
  <2>1. w \in WalkT /\ w.current = Nothing /\ w.start = <<>> /\ w.seen = <<>>
    <3>1. NextOf(link, first) = Nothing
      BY <1>8 DEF NextOf
    <3>2. <<>> \in Seq(Node)
      BY EmptySeq
    <3>. HIDE DEF first
    <3>. QED BY <1>8, <3>1, <3>2 DEF WalkT, Link
  <2>2. <<>> \in Seq(Node) /\ Len(<<>>) = 0
    BY EmptySeq
  <2>. HIDE DEF w
  <2>. QED BY <1>1, <2>1, <2>2 DEF WalkOK, Once
<1>9. CASE first # Nothing
  <2>1. PICK k \in 1 .. Len(v) : first = v[k]
    BY <1>7, <1>9
  <2>. DEFINE u == SubSeq(v, k, Len(v))
  <2>. HIDE DEF first
  <2>2. Chain(first, along) = u /\ Follows(u, first, along)
    <3>. HIDE DEF u
    <3>. QED BY <1>4, <2>1, ChainFrom DEF u
  <2>3. Len(u) = Len(v) - k + 1 /\ u \in Seq(Node) /\ \A i \in 1 .. Len(v) - k + 1 : u[i] = v[k + i - 1]
    <3>1. k \in 1 .. Len(v) + 1 /\ Len(v) \in k - 1 .. Len(v)
      BY <1>6
    <3>2. /\ u \in Seq(Node) /\ Len(u) = Len(v) - k + 1
          /\ \A i \in 1 .. Len(v) - k + 1 : u[i] = v[k + i - 1]
      BY ONLY <1>4, <3>1, PieceOf
    <3>. QED BY <3>2
  <2>. HIDE DEF u
  <2>4. start = u /\ seen = <<first>> /\ first \in Node
    BY <1>2, <1>6, <1>9, <2>1, <2>2
  <2>. HIDE DEF start, seen
  <2>5. Len(u) \in Nat /\ Len(u) >= 1 /\ first = u[1]
    BY <1>6, <2>2, <2>3 DEF Follows
  <2>6. NextOf(link, first) = along[first]
    BY <1>9 DEF NextOf, Along, along
  <2>7. along[first] = IF 1 < Len(u) THEN u[2] ELSE Nothing
    <3>1. 1 \in 1 .. Len(u) /\ 1 + 1 = 2
      BY <2>5
    <3>. QED BY <2>2, <2>5, <3>1 DEF Follows
  <2>8. along[first] \in Link
    <3>1. 1 < Len(u) => 2 \in 1 .. Len(u)
      BY <2>5
    <3>. QED BY <2>3, <2>7, <3>1, AsFunction DEF Link
  <2>9. Len(seen) = 1 /\ seen[1] = first /\ seen \in Seq(Node)
    BY <2>4
  <2>10. /\ w \in WalkT /\ w.list = l /\ w.link = link /\ w.current = first /\ w.iter = along[first]
         /\ w.start = u /\ w.seen = seen
    BY <2>3, <2>4, <2>6, <2>8, <2>9 DEF WalkT, Link
  <2>. HIDE DEF w
  <2>11. ASSUME NEW i \in 2 .. Len(u)
         PROVE  heap.container[u[i]] = l /\ along[u[i]] = IF i < Len(u) THEN u[i + 1] ELSE Nothing
    <3>1. i \in 1 .. Len(u) /\ i \in 1 .. Len(v) - k + 1 /\ k + i - 1 \in 1 .. Len(v)
      BY <1>6, <2>3, <2>5
    <3>. QED BY <1>6, <2>2, <2>3, <3>1 DEF Follows
  <2>12. Ahead(heap, w)
    <3>0. Len(w.seen) = 1 /\ w.start = u
      BY <2>9, <2>10
    <3>1. Len(w.seen) + 1 = 2 /\ Len(w.seen) >= 1
      BY <3>0
    <3>2. Along(heap, w.link) = along
      BY <2>10 DEF along
    <3>. QED BY <2>5, <2>7, <2>10, <2>11, <3>0, <3>1, <3>2 DEF Ahead
  <2>13. Once(w.start)
    BY <2>2, <2>10 DEF Follows
  <2>14. Len(w.seen) <= Len(w.start) /\ \A i \in 1 .. Len(w.seen) : w.seen[i] = w.start[i]
    <3>1. w.seen = seen /\ w.start = u /\ Len(w.seen) = 1 /\ w.seen[1] = w.start[1]
      BY <2>5, <2>9, <2>10
    <3>2. \A i \in 1 .. Len(w.seen) : i = 1
      BY <3>1
    <3>3. Len(w.seen) <= Len(w.start)
      BY <2>5, <3>1
    <3>. QED BY <3>1, <3>2, <3>3
  <2>. QED BY <1>1, <1>9, <2>10, <2>12, <2>13, <2>14 DEF WalkOK
<1>. QED BY <1>8, <1>9

-----------------------------------------------------------------------------
(* The inductive invariant: every step, and what follows.                     *)

LEMMA StepOK ==
  ASSUME ListInv, StepWalk
  PROVE  WalkOK(heap, walk')
<1>. DEFINE w == walk
            k == Len(w.seen)
            n == Len(w.start)
            seen == IF w.iter = Nothing THEN w.seen ELSE Append(w.seen, w.iter)
            after == NextOf(w.link, w.iter)
            x == [w EXCEPT !.current = w.iter, !.iter = after, !.seen = seen]
<1>1. walk' = x /\ w.current # Nothing
  BY DEF StepWalk
<1>2. w \in WalkT /\ Once(w.start) /\ k <= n /\ (\A i \in 1 .. k : w.seen[i] = w.start[i]) /\ Ahead(heap, w)
  BY <1>1 DEF ListInv, WalkOK
<1>3. /\ w.seen \in Seq(Node) /\ w.start \in Seq(Node) /\ w.iter \in Link /\ w.link \in {"next", "prev"}
      /\ k \in Nat /\ n \in Nat /\ k >= 1
  <2>1. w.seen \in Seq(Node) /\ w.start \in Seq(Node) /\ w.iter \in Link /\ w.link \in {"next", "prev"}
    BY <1>2 DEF WalkT
  <2>. QED BY <1>2, <2>1, LenProperties DEF Ahead
<1>4. w.iter = IF k < n THEN w.start[k + 1] ELSE Nothing
  BY <1>2 DEF Ahead
<1>5. \A i \in k + 1 .. n : heap.container[w.start[i]] = w.list
                            /\ Along(heap, w.link)[w.start[i]] = IF i < n THEN w.start[i + 1] ELSE Nothing
  BY <1>2 DEF Ahead
<1>6. \A i \in 1 .. n : w.start[i] \in Node /\ w.start[i] # Nothing
  BY <1>3, AsFunction
<1>7. after = IF k + 1 < n THEN w.start[k + 2] ELSE Nothing
  <2>1. CASE k < n
    <3>1. k + 1 \in 1 .. n /\ k + 1 \in k + 1 .. n /\ k + 1 + 1 = k + 2
      BY <1>3, <2>1
    <3>2. w.iter # Nothing
      BY <1>4, <1>6, <2>1, <3>1
    <3>3. after = Along(heap, w.link)[w.iter]
      BY <3>2 DEF NextOf, Along
    <3>. QED BY <1>4, <1>5, <2>1, <3>1, <3>3
  <2>2. CASE ~(k < n)
    <3>1. w.iter = Nothing /\ ~(k + 1 < n)
      BY <1>3, <1>4, <2>2
    <3>. QED BY <3>1 DEF NextOf
  <2>. QED BY <2>1, <2>2
<1>8. after \in Link
  <2>1. k + 1 < n => k + 2 \in 1 .. n
    BY <1>3
  <2>. QED BY <1>6, <1>7, <2>1 DEF Link
<1>9. seen \in Seq(Node)
  <2>1. w.iter # Nothing => w.iter \in Node
    BY <1>3 DEF Link
  <2>. QED BY <1>3, <2>1, AppendProperties
<1>. HIDE DEF after, seen
<1>10. /\ x \in WalkT /\ x.list = w.list /\ x.link = w.link /\ x.start = w.start
       /\ x.current = w.iter /\ x.iter = after /\ x.seen = seen
  BY <1>2, <1>3, <1>8, <1>9 DEF WalkT
<1>. HIDE DEF x
<1>11. CASE k < n
  <2>1. k + 1 \in 1 .. n /\ w.iter = w.start[k + 1]
    BY <1>3, <1>4, <1>11
  <2>2. w.iter # Nothing /\ w.iter \in Node
    BY <1>6, <2>1
  <2>3. /\ seen = Append(w.seen, w.iter)
        /\ Len(seen) = k + 1 /\ \A i \in 1 .. k : seen[i] = w.seen[i]
        /\ seen[k + 1] = w.iter
    <3>1. seen = Append(w.seen, w.iter)
      BY <2>2 DEF seen
    <3>. QED BY <1>3, <2>2, <3>1, AppendProperties
  <2>4. Len(x.seen) = k + 1 /\ Len(x.start) = n
    BY <1>10, <2>3
  <2>5. \A i \in 1 .. k + 1 : seen[i] = w.start[i]
    <3>1. \A i \in 1 .. k + 1 : i \in 1 .. k \/ i = k + 1
      BY <1>3
    <3>. QED BY <1>2, <2>1, <2>3, <3>1
  <2>6. \A i \in 1 .. Len(x.seen) : x.seen[i] = x.start[i]
    BY <1>10, <2>4, <2>5
  <2>7. Ahead(heap, x)
    <3>. DEFINE j == k + 1
    <3>1. Len(x.seen) = j /\ j >= 1 /\ j + 1 = k + 2
      BY <1>3, <2>4
    <3>2. x.current = x.start[j]
      BY <1>10, <2>1
    <3>3. x.iter = IF j < n THEN x.start[j + 1] ELSE Nothing
      BY <1>7, <1>10, <3>1
    <3>4. \A i \in j + 1 .. n : i \in k + 1 .. n
      BY <1>3
    <3>5. x.list \in Lists
      BY <1>2, <1>10 DEF Ahead
    <3>. HIDE DEF j, k, n
    <3>. QED BY <1>5, <1>10, <2>4, <3>1, <3>2, <3>3, <3>4, <3>5 DEF Ahead
  <2>8. Len(x.seen) <= Len(x.start) /\ x.current # Nothing /\ Once(x.start)
    BY <1>2, <1>3, <1>10, <1>11, <2>2, <2>4
  <2>. QED BY <1>1, <1>10, <2>6, <2>7, <2>8 DEF WalkOK
<1>12. CASE ~(k < n)
  <2>1. w.iter = Nothing /\ k = n
    BY <1>2, <1>3, <1>4, <1>12
  <2>2. x.seen = w.seen /\ x.current = Nothing
    BY <1>10, <2>1 DEF seen
  <2>. QED BY <1>1, <1>2, <1>10, <2>1, <2>2 DEF WalkOK
<1>. QED BY <1>11, <1>12

LEMMA InsertOK ==
  ASSUME HeapOK(heap), WalkOK(heap, walk), NEW l \in Lists, NEW n \in Node, NEW p \in Positions,
         InsertNode(l, n, p)
  PROVE  ListInv'
<1>1. heap' = listInsert(heap, l, n, p) /\ walk' = walk /\ torn' = (heap.container[n] \notin {Nothing, l})
      /\ (walk.current = Nothing \/ (n = walk.current /\ l # walk.list)) /\ Handles("insert", l, p)
  BY DEF InsertNode, Idle
<1>2. PICK s \in Seq(Node) : Chained(heap, l, s)
  BY DEF HeapOK
<1>3. /\ p \in Int /\ p >= AT_BACK
      /\ p \in {AT_FRONT, AT_BACK} \/ Len(s) = 0 \/ p + 1 \in 1 .. Len(s) - 1
  BY <1>1, <1>2, PositionsAre, HandlesIs
<1>4. CASE heap.container[n] \in {Nothing, l}
  <2>1. Turns(heap, heap', l, Inserted(s, n, p))
    BY <1>1, <1>2, <1>3, <1>4, InsertTurns DEF HeapOK
  <2>2. HeapOK(heap')
    BY <2>1, TurnsOK
  <2>3. WalkOK(heap', walk)
    BY <1>1, <2>1, TurnsAhead
  <2>. QED BY <1>1, <2>2, <2>3 DEF ListInv
<1>5. CASE heap.container[n] \notin {Nothing, l}
  <2>0. LeavesNodes(heap, heap', l, n)
    BY <1>1, <1>2, <1>3, <1>5, InsertTears
  <2>1. \A x \in Node : x # n /\ heap.container[x] # l
          => /\ heap'.next[x] = heap.next[x] /\ heap'.prev[x] = heap.prev[x]
             /\ heap'.container[x] = heap.container[x]
    BY <2>0 DEF LeavesNodes
  <2>2. ASSUME walk.current # Nothing, NEW i \in Len(walk.seen) + 1 .. Len(walk.start)
        PROVE  /\ heap'.container[walk.start[i]] = heap.container[walk.start[i]]
               /\ Along(heap', walk.link)[walk.start[i]] = Along(heap, walk.link)[walk.start[i]]
    <3>1. /\ heap.container[walk.start[i]] = walk.list /\ walk.current = walk.start[Len(walk.seen)]
          /\ Len(walk.seen) >= 1
      BY <2>2 DEF WalkOK, Ahead
    <3>2. /\ walk.start \in Seq(Node) /\ Len(walk.seen) \in Nat /\ Len(walk.seen) <= Len(walk.start)
          /\ \A a, b \in 1 .. Len(walk.start) : walk.start[a] = walk.start[b] => a = b
      BY LenProperties DEF WalkOK, WalkT, Once
    <3>3. /\ i \in 1 .. Len(walk.start) /\ Len(walk.seen) \in 1 .. Len(walk.start)
          /\ i # Len(walk.seen)
      BY <2>2, <3>1, <3>2
    <3>4. walk.start[i] \in Node /\ walk.start[i] # n
      BY <1>1, <2>2, <3>1, <3>2, <3>3, AsFunction
    <3>5. walk.list # l
      BY <1>1, <2>2
    <3>. QED BY <2>1, <3>1, <3>4, <3>5 DEF Along
  <2>3. WalkOK(heap', walk)
    BY <2>2, AheadStays
  <2>. QED BY <1>1, <1>5, <2>3 DEF ListInv
<1>. QED BY <1>4, <1>5

LEMMA RemoveOK ==
  ASSUME HeapOK(heap), WalkOK(heap, walk), NEW l \in Lists, NEW n \in Node, RemoveNode(l, n)
  PROVE  ListInv'
<1>1. heap' = remove(heap, l, n) /\ walk' = walk /\ (walk.current = Nothing \/ n = walk.current)
  BY DEF RemoveNode, Idle
<1>2. PICK s \in Seq(Node) : Chained(heap, l, s)
  BY DEF HeapOK
<1>3. heap \in HeapT
  BY DEF HeapOK
<1>4. Turns(heap, heap', l, Without(s, n))
  BY <1>1, <1>2, <1>3, RemoveTurns
<1>5. HeapOK(heap')
  BY <1>4, TurnsOK
<1>6. WalkOK(heap', walk)
  <2>1. CASE walk.current # Nothing => l # walk.list
    BY <1>4, <2>1, TurnsAhead
  <2>2. CASE walk.current # Nothing /\ l = walk.list
    <3>1. heap' = remove(heap, walk.list, walk.current) /\ Chained(heap, walk.list, s)
      BY <1>1, <1>2, <2>2
    <3>. QED BY <1>3, <2>2, <3>1, RemoveAhead
  <2>. QED BY <2>1, <2>2
<1>. QED BY <1>1, <1>5, <1>6 DEF ListInv

(* What is called between walks.                                              *)
LEMMA IdleOK ==
  ASSUME HeapOK(heap), WalkOK(heap, walk), Idle, UNCHANGED walk,
         NEW l \in Lists, NEW t, Turns(heap, heap', l, t)
  PROVE  ListInv'
<1>1. HeapOK(heap')
  BY TurnsOK
<1>2. WalkOK(heap', walk)
  BY TurnsAhead DEF Idle
<1>. QED BY <1>1, <1>2 DEF ListInv

LEMMA CallOK ==
  ASSUME HeapOK(heap), WalkOK(heap, walk),
         \/ \E l \in Lists, n \in Node, p \in Positions : InsertNode(l, n, p)
         \/ \E l \in Lists, n \in Node : RemoveNode(l, n)
         \/ \E l \in Lists, p \in Positions : RemoveIndex(l, p)
         \/ \E l \in Lists : SortList(l)
         \/ \E l \in Lists, n1, n2 \in Node : SwapNodes(l, n1, n2)
         \/ \E l, src \in Lists, p \in Positions : MoveList(l, src, p)
         \/ \E l \in Lists : CleanList(l)
         \/ \E l \in Lists, link \in {"next", "prev"}, n \in Node \cup {Nothing} : StartWalk(l, link, n)
  PROVE  ListInv'
<1>0. heap \in HeapT /\ \A l \in Lists : \E s \in Seq(Node) : Chained(heap, l, s)
  BY DEF HeapOK
<1>1. ASSUME NEW l \in Lists, NEW n \in Node, NEW p \in Positions, InsertNode(l, n, p) PROVE ListInv'
  BY <1>1, InsertOK
<1>2. ASSUME NEW l \in Lists, NEW n \in Node, RemoveNode(l, n) PROVE ListInv'
  BY <1>2, RemoveOK
<1>3. ASSUME NEW l \in Lists, NEW p \in Positions, RemoveIndex(l, p) PROVE ListInv'
  <2>1. PICK s \in Seq(Node) : Chained(heap, l, s)
    BY <1>0
  <2>2. p \in Int /\ (p \in {AT_FRONT, AT_BACK} \/ p \in 1 .. Len(s) - 2)
    BY <1>3, <2>1, PositionsAre, HandlesIs DEF RemoveIndex
  <2>3. Turns(heap, heap', l, WithoutAt(s, p))
    BY <1>0, <1>3, <2>1, <2>2, RemoveAtTurns DEF RemoveIndex
  <2>. QED BY <1>3, <2>3, IdleOK DEF RemoveIndex
<1>4. ASSUME NEW l \in Lists, SortList(l) PROVE ListInv'
  <2>1. PICK s \in Seq(Node) : Chained(heap, l, s)
    BY <1>0
  <2>2. PICK t \in StablySorted(s) : Turns(heap, heap', l, t)
    BY <1>0, <1>4, <2>1, SortTurns DEF SortList
  <2>. QED BY <1>4, <2>2, IdleOK DEF SortList
<1>5. ASSUME NEW l \in Lists, NEW n1 \in Node, NEW n2 \in Node, SwapNodes(l, n1, n2) PROVE ListInv'
  <2>1. PICK s \in Seq(Node) : Chained(heap, l, s)
    BY <1>0
  <2>2. Turns(heap, heap', l, Exchanged(s, n1, n2))
    BY <1>0, <1>5, <2>1, SwapTurns DEF SwapNodes
  <2>. QED BY <1>5, <2>2, IdleOK DEF SwapNodes
<1>6. ASSUME NEW l \in Lists, NEW src \in Lists, NEW p \in Positions, MoveList(l, src, p) PROVE ListInv'
  <2>1. PICK s \in Seq(Node) : Chained(heap, l, s)
    BY <1>0
  <2>2. PICK t \in Seq(Node) : Chained(heap, src, t)
    BY <1>0
  <2>3. l # src /\ heap' = move(heap, l, src, p) /\ walk' = walk /\ Idle
        /\ p \in Int /\ p >= AT_BACK /\ (p \in {AT_FRONT, AT_BACK} \/ Len(s) = 0)
    BY <1>6, <2>1, PositionsAre, HandlesIs DEF MoveList
  <2>. DEFINE u == IF t = <<>> THEN s ELSE PlaceAt(s, t, p)
  <2>4. Moves(heap, heap', l, src, u)
    BY <1>0, <2>1, <2>2, <2>3, MoveMoves
  <2>. HIDE DEF u
  <2>5. HeapOK(heap')
    BY <2>4, MovesOK
  <2>6. WalkOK(heap', walk)
    BY <2>3, AheadStays DEF Idle
  <2>. QED BY <2>3, <2>5, <2>6 DEF ListInv
<1>7. ASSUME NEW l \in Lists, CleanList(l) PROVE ListInv'
  <2>1. PICK s \in Seq(Node) : Chained(heap, l, s)
    BY <1>0
  <2>2. Turns(heap, heap', l, s)
    BY <1>0, <1>7, <2>1, CleanTurns DEF CleanList
  <2>. QED BY <1>7, <2>2, IdleOK DEF CleanList
<1>8. ASSUME NEW l \in Lists, NEW link \in {"next", "prev"}, NEW n \in Node \cup {Nothing},
             StartWalk(l, link, n)
      PROVE  ListInv'
  <2>1. WalkOK(heap, walk') /\ heap' = heap
    BY <1>8, StartOK DEF StartWalk
  <2>. QED BY <2>1 DEF ListInv
<1>. QED BY <1>1, <1>2, <1>3, <1>4, <1>5, <1>6, <1>7, <1>8

(* A torn list is only walked on.                                             *)
LEMMA ListStep ==
  ASSUME ListInv, [ListNext]_listVars
  PROVE  ListInv'
<1>1. CASE UNCHANGED listVars
  BY <1>1 DEF listVars, ListInv
<1>2. CASE StepWalk /\ UNCHANGED torn
  <2>1. WalkOK(heap, walk') /\ heap' = heap
    BY <1>2, StepOK DEF StepWalk
  <2>. QED BY <1>2, <2>1 DEF ListInv
<1>3. CASE ListNext /\ ~(StepWalk /\ UNCHANGED torn)
  <2>1. HeapOK(heap) /\ WalkOK(heap, walk)
    BY <1>3 DEF ListNext, ListInv
  <2>. QED BY <1>3, <2>1, CallOK DEF ListNext
<1>. QED BY <1>1, <1>2, <1>3

LEMMA ListInvariant == ListSpec => []ListInv
<1>1. ListInit => ListInv
  BY InitOK
<1>2. ListInv /\ [ListNext]_listVars => ListInv'
  BY ListStep
<1>. QED BY <1>1, <1>2, PTL DEF ListSpec

(* As long as no node was put into a list while another one held it, the      *)
(* backward links mirror the forward ones, size, ends and containers agree    *)
(* with them, and every call does to the lists what the same call does to     *)
(* sequences; the sort is stable and leaves no pair out of order.  The        *)
(* insertion that tears a list makes it lead into the other one and harms no  *)
(* third (list.cpp 91-401).                                                   *)
THEOREM ListsHold == ListSpec => []ListsAreSequences
<1>1. ListInv => ListsAreSequences
  BY MirrorHolds, CallsAct DEF ListInv, ListsAreSequences
<1>. QED BY <1>1, ListInvariant, PTL

(* A loop whose body takes the current node out of its list, and maybe puts   *)
(* it into another, or puts it there without taking it out, visits the nodes  *)
(* that were there when it began, each once and in order (list.cpp 428-470).  *)
THEOREM WalksHold == ListSpec => []WalkVisitsAll
<1>1. ListInv => WalkVisitsAll
  BY WalkShows DEF ListInv
<1>. QED BY <1>1, ListInvariant, PTL
=============================================================================
