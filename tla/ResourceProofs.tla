--------------------------- MODULE ResourceProofs ---------------------------
(* The memory pool loses no byte and gives none twice, whatever the size and  *)
(* the place of the area and whatever is asked for; critical sections         *)
(* protect, however deep they nest and wherever a handler comes in; routines  *)
(* wait for what they asked for, whatever the application makes of them.      *)
EXTENDS Critical, MemoryPool, Coroutine, FiniteSetTheorems, SequenceTheorems, NaturalsInduction,
        WellFoundedInduction, TLAPS

(* Critical sections.                                                         *)

Mode == {"on", "off"}
Place == {"body", "disable", "store", "bump", "restore"}
Frame == [pc : Place, depth : Nat, reg : Mode, before : Mode]

TypeOK ==
  /\ hw \in Mode /\ flags \in Mode /\ installed \in BOOLEAN /\ active \in Context
  /\ frame \in [Context -> Frame]
  /\ nestingLevel = frame["task"].depth + frame["handler"].depth

(* The context that runs: what it saved, and when interrupts are off.         *)
RunningSafe ==
  /\ ~installed => mine.pc \in {"body", "bump"}
  /\ mine.depth > 0 => mine.pc \in {"body", "bump"}
  /\ installed /\ mine.pc = "disable" => mine.before = hw
  /\ installed /\ mine.pc = "store" => hw = "off" /\ mine.reg = mine.before
  /\ installed /\ (mine.pc \in {"bump", "restore"} \/ mine.depth > 0) => hw = "off" /\ flags = mine.before

(* A task is interrupted outside of its sections only, and finds interrupts   *)
(* as they were when it goes on; a handler leaves none of its scopes open.    *)
InterruptedSafe ==
  /\ active = "task" => frame["handler"].depth = 0 /\ frame["handler"].pc = "body"
  /\ active = "handler" /\ ~installed => hw = "on" /\ frame["task"].pc \in {"body", "bump"}
  /\ active = "handler" /\ installed =>
       /\ frame["task"].depth = 0 /\ frame["task"].pc \in {"body", "disable"}
       /\ frame["task"].pc = "disable" => frame["task"].before = "on"
       /\ IF mine.pc = "body" /\ mine.depth = 0 THEN hw = "on" ELSE mine.before = "on"

SectionInv == TypeOK /\ RunningSafe /\ InterruptedSafe

(* The invariant holds at the start.                                          *)
LEMMA SectionInit == CriticalInit => SectionInv
<1> SUFFICES ASSUME CriticalInit PROVE SectionInv
  OBVIOUS
<1>1. Start \in Frame /\ Start.pc = "body" /\ Start.depth = 0 /\ Start.before = "on"
  BY DEF Start, Frame, Place, Mode
<1>2. frame \in [Context -> Frame] /\ \A y \in Context : frame[y] = Start
  BY <1>1 DEF CriticalInit
<1>3. frame["task"] = Start /\ frame["handler"] = Start /\ mine = Start
  BY <1>2 DEF CriticalInit, Context, mine
<1>4. TypeOK
  <2>1. nestingLevel = frame["task"].depth + frame["handler"].depth
    BY <1>1, <1>3 DEF CriticalInit
  <2>2. hw \in Mode /\ flags \in Mode /\ installed \in BOOLEAN /\ active \in Context
    BY DEF CriticalInit, Mode, Context
  <2>3. QED
    BY <1>2, <2>1, <2>2 DEF TypeOK
<1>5. RunningSafe /\ InterruptedSafe
  BY <1>1, <1>3 DEF CriticalInit, RunningSafe, InterruptedSafe
<1>6. QED
  BY <1>4, <1>5 DEF SectionInv

(* It says of the running context what SectionsProtect says.                  *)
LEMMA SectionImplies == SectionInv => SectionsProtect
BY DEF SectionInv, TypeOK, RunningSafe, SectionsProtect, Mode, Place, Frame, Context, mine

(* A step of the running context changes its own frame only.                  *)
LEMMA SectionStep == SectionInv /\ [CriticalNext]_criticalVars => SectionInv'
<1> SUFFICES ASSUME SectionInv, [CriticalNext]_criticalVars PROVE SectionInv'
  OBVIOUS
<1> USE DEF SectionInv, TypeOK, RunningSafe, InterruptedSafe, Mode, Place, Frame, Context, mine
<1>1. CASE setInterruptsED
  BY <1>1 DEF setInterruptsED
<1>2. CASE \E m \in {"on", "off"} : SwitchInterrupts(m)
  BY <1>2 DEF SwitchInterrupts
<1>3. CASE Enter
  BY <1>3 DEF Enter
<1>4. CASE Disable
  BY <1>4 DEF Disable
<1>5. CASE Store
  BY <1>5 DEF Store, At
<1>6. CASE Bump
  BY <1>6 DEF Bump
<1>7. CASE Exit
  BY <1>7 DEF Exit, outermost
<1>8. CASE Restore
  BY <1>8 DEF Restore, At
<1>9. CASE Interrupt
  BY <1>9 DEF Interrupt, Start
<1>10. CASE Return
  BY <1>10 DEF Return
<1>11. CASE UNCHANGED criticalVars
  BY <1>11 DEF criticalVars
<1>12. QED
  BY <1>1, <1>2, <1>3, <1>4, <1>5, <1>6, <1>7, <1>8, <1>9, <1>10, <1>11 DEF CriticalNext

(* With any number of nested scopes interrupts are off in every one of them,  *)
(* and behind the outermost one they are as they were before it.              *)
THEOREM SectionsAlwaysProtect == CriticalSpec => []SectionsProtect
<1>1. CriticalSpec => []SectionInv
  BY SectionInit, SectionStep, PTL DEF CriticalSpec
<1>2. QED
  BY <1>1, SectionImplies, PTL

-----------------------------------------------------------------------------
(* Numbers.                                                                   *)

(* Every non-empty set of numbers has a least one.                            *)
LEMMA LeastOf ==
  ASSUME NEW S \in SUBSET Nat, S # {}
  PROVE  \E k \in S : \A j \in S : k <= j
<1>1. PICK k \in S : \A j \in S : ~(<<j, k>> \in OpToRel(<, Nat))
  BY NatLessThanWellFounded, WFMin
<1>2. \A j \in S : ~(j < k)
  BY <1>1 DEF OpToRel
<1>. QED BY <1>2

(* The least element the library chooses is one.                              *)
LEMMA MinOf ==
  ASSUME NEW S \in SUBSET Nat, S # {}
  PROVE  Min(S) \in S /\ \A j \in S : Min(S) <= j
BY LeastOf DEF Min

-----------------------------------------------------------------------------
(* The free list.                                                             *)

(* One more block of the list, unless it is complete.                         *)
Longer(h, s) == LET next == h[Last(s)].next IN IF next = NULL THEN s ELSE Append(s, next)

ListPrefixes(h, n, f) == f = [k \in 1 .. n |-> IF k = 1 THEN <<StartAddr>> ELSE Longer(h, f[k - 1])]

(* There is a function that gives the first n elements of the list, for every *)
(* n.                                                                         *)
LEMMA ListPrefixesExist ==
  ASSUME NEW h, NEW n \in Nat
  PROVE  \E f : ListPrefixes(h, n, f)
<1>. DEFINE Missing == {k \in Nat : ~ \E f : ListPrefixes(h, k, f)}
<1>1. SUFFICES ASSUME Missing # {} PROVE FALSE
  OBVIOUS
<1>2. PICK k \in Missing : \A j \in Missing : k <= j
  BY <1>1, LeastOf, Missing \in SUBSET Nat
<1>3. CASE k = 0
  <2>1. ListPrefixes(h, 0, [j \in 1 .. 0 |-> 0])
    BY DEF ListPrefixes
  <2>. QED BY <1>2, <1>3, <2>1
<1>4. CASE k > 0
  <2>1. PICK f : ListPrefixes(h, k - 1, f)
    BY <1>2, <1>4
  <2>. DEFINE g == [j \in 1 .. k |-> IF j = 1 THEN <<StartAddr>> ELSE Longer(h, f[j - 1])]
  <2>2. \A j \in 1 .. k - 1 : g[j] = f[j]
    BY <2>1 DEF ListPrefixes
  <2>3. \A j \in 1 .. k : j # 1 => j - 1 \in 1 .. k - 1
    BY <1>2, <1>4
  <2>4. ListPrefixes(h, k, g)
    BY <2>2, <2>3 DEF ListPrefixes
  <2>. QED BY <1>2, <2>4
<1>. QED BY <1>2, <1>3, <1>4

(* The free list over the blocks F of the headers h: from each block the      *)
(* link leads to the next block of F in address order, and end is the last.   *)
Linked(h, F, end) ==
  /\ F \subseteq DOMAIN h /\ F \subseteq Int /\ NULL \notin F
  /\ StartAddr \in F /\ end \in F /\ StartAddr # end
  /\ h[end].next = NULL
  /\ \A a \in F : StartAddr <= a /\ a <= end
  /\ \A a \in F \ {end} :
       /\ h[a].next \in F /\ a < h[a].next
       /\ \A b \in F : b <= a \/ h[a].next <= b

(* c is the free list up to a block of F.                                     *)
ChainTo(h, F, end, c) ==
  /\ c \in Seq(F) /\ Len(c) >= 1 /\ c[1] = StartAddr
  /\ \A i \in 1 .. Len(c) - 1 : c[i] # end /\ c[i + 1] = h[c[i]].next
  /\ \A i, j \in 1 .. Len(c) : i < j => c[i] < c[j]

(* Another element keeps it the list up to a block, or the list is complete.  *)
LEMMA ChainLonger ==
  ASSUME NEW h, NEW F, NEW end, Linked(h, F, end), NEW c, ChainTo(h, F, end, c)
  PROVE  /\ ChainTo(h, F, end, Longer(h, c))
         /\ IF c[Len(c)] = end THEN Longer(h, c) = c
            ELSE Len(Longer(h, c)) = Len(c) + 1
<1>. DEFINE l == c[Len(c)]
            d == Append(c, h[l].next)
<1>1. c \in Seq(F) /\ Len(c) \in Nat /\ Len(c) >= 1 /\ Last(c) = l /\ l \in F
  BY DEF ChainTo, Last
<1>2. CASE l = end
  BY <1>1, <1>2 DEF Linked, Longer
<1>3. CASE l # end
  <2>1. h[l].next \in F /\ l < h[l].next /\ h[l].next # NULL /\ F \subseteq Int
    BY <1>1, <1>3 DEF Linked
  <2>2. Longer(h, c) = d
    BY <1>1, <2>1 DEF Longer
  <2>3. d \in Seq(F) /\ Len(d) = Len(c) + 1 /\ d[Len(c) + 1] = h[l].next
    BY <1>1, <2>1
  <2>4. \A i \in 1 .. Len(c) : d[i] = c[i] /\ c[i] \in F
    BY <1>1
  <2>5. ASSUME NEW i \in 1 .. Len(c) PROVE c[i] <= l
    <3>1. c[i] \in Int /\ l \in Int /\ Len(c) \in 1 .. Len(c) /\ (i = Len(c) \/ i < Len(c))
      BY <1>1, <2>1, <2>4
    <3>2. i < Len(c) => c[i] < l
      BY <3>1 DEF ChainTo
    <3>. QED BY <3>1, <3>2
  <2>. HIDE DEF d
  <2>6. \A i \in 1 .. Len(d) - 1 : d[i] # end /\ d[i + 1] = h[d[i]].next
    <3>. TAKE i \in 1 .. Len(d) - 1
    <3>1. CASE i = Len(c)
      BY <1>1, <1>3, <2>3, <2>4, <3>1
    <3>2. CASE i # Len(c)
      BY <1>1, <2>3, <2>4, <3>2 DEF ChainTo
    <3>. QED BY <3>1, <3>2
  <2>7. \A i, j \in 1 .. Len(d) : i < j => d[i] < d[j]
    <3>. SUFFICES ASSUME NEW i \in 1 .. Len(d), NEW j \in 1 .. Len(d), i < j PROVE d[i] < d[j]
      OBVIOUS
    <3>1. CASE j = Len(d)
      <4>0. i \in 1 .. Len(c)
        BY <1>1, <2>3, <3>1
      <4>1. d[i] = c[i] /\ c[i] \in Int /\ c[i] <= l
        BY <4>0, <2>1, <2>4, <2>5
      <4>2. d[j] = h[l].next /\ h[l].next \in Int /\ l \in Int
        BY <1>1, <2>1, <2>3, <3>1
      <4>. QED BY <2>1, <4>1, <4>2
    <3>2. CASE j # Len(d)
      BY <1>1, <2>3, <2>4, <3>2 DEF ChainTo
    <3>. QED BY <3>1, <3>2
  <2>8. d[1] = StartAddr
    BY <1>1, <2>4 DEF ChainTo
  <2>9. ChainTo(h, F, end, d)
    BY <1>1, <2>3, <2>6, <2>7, <2>8 DEF ChainTo
  <2>. QED BY <1>3, <2>2, <2>3, <2>9
<1>. QED BY <1>2, <1>3

(* c is the whole free list, in address order.                                *)
WholeChain(h, F, end, c) ==
  ChainTo(h, F, end, c) /\ Len(c) \in Nat \ {0, 1} /\ c[Len(c)] = end /\ Range(c) = F

(* What FreeChain returns: every block of the list, whatever their number.    *)
LEMMA FreeChainWhole ==
  ASSUME NEW h, IsFiniteSet(DOMAIN h), NEW F, NEW end, Linked(h, F, end)
  PROVE  WholeChain(h, F, end, FreeChain(h))
<1>. DEFINE N == Cardinality(DOMAIN h)
<1>1. N \in Nat /\ N >= 1
  <2>1. DOMAIN h # {}
    BY DEF Linked
  <2>. QED BY <2>1, FS_CardinalityType, FS_EmptySet
<1>2. PICK f : ListPrefixes(h, N, f) /\ FreeChain(h) = f[N]
  <2>. DEFINE Eq(f) == f = [k \in 1..N |->
                              IF k = 1 THEN <<StartAddr>>
                              ELSE LET next == h[Last(f[k - 1])].next
                                   IN IF next = NULL THEN f[k - 1] ELSE Append(f[k - 1], next)]
              u == CHOOSE f : Eq(f)
  <2>1. FreeChain(h) = u[N]
    BY DEF FreeChain
  <2>2. \A f : Eq(f) <=> ListPrefixes(h, N, f)
    BY DEF ListPrefixes, Longer
  <2>3. \E f : Eq(f)
    BY <1>1, <2>2, ListPrefixesExist
  <2>. HIDE DEF Eq
  <2>4. Eq(u)
    BY <2>3
  <2>. QED BY <2>1, <2>2, <2>4
<1>. DEFINE Good(k) == ChainTo(h, F, end, f[k]) /\ (f[k][Len(f[k])] = end \/ Len(f[k]) = k)
            Bad == {k \in 1 .. N : ~Good(k)}
<1>3. Bad = {}
  <2>1. SUFFICES ASSUME Bad # {} PROVE FALSE
    OBVIOUS
  <2>2. PICK k \in Bad : \A j \in Bad : k <= j
    BY <2>1, LeastOf, Bad \in SUBSET Nat
  <2>3. CASE k = 1
    <3>1. f[1] = <<StartAddr>>
      BY <1>1, <1>2 DEF ListPrefixes
    <3>2. <<StartAddr>> \in Seq(F) /\ Len(<<StartAddr>>) = 1 /\ <<StartAddr>>[1] = StartAddr
      BY DEF Linked
    <3>3. ChainTo(h, F, end, <<StartAddr>>)
      BY <3>2 DEF ChainTo
    <3>. QED BY <2>2, <2>3, <3>1, <3>2, <3>3
  <2>4. CASE k > 1
    <3>1. Good(k - 1)
      BY <1>1, <2>2, <2>4
    <3>2. f[k] = Longer(h, f[k - 1])
      BY <1>1, <1>2, <2>2, <2>4 DEF ListPrefixes
    <3>3. Good(k)
      BY <3>1, <3>2, ChainLonger, <2>2, <2>4
    <3>. QED BY <2>2, <3>3
  <2>. QED BY <2>2, <2>3, <2>4
<1>. DEFINE c == f[N]
<1>4. Good(N)
  BY <1>1, <1>3
<1>. HIDE DEF Good
<1>5. ChainTo(h, F, end, c)
  BY <1>4 DEF Good
<1>6. c \in Seq(F) /\ Len(c) \in Nat /\ F \subseteq Int /\ F \subseteq DOMAIN h
  BY <1>5 DEF ChainTo, Linked
<1>7. c[Len(c)] = end
  <2>1. SUFFICES ASSUME c[Len(c)] # end PROVE FALSE
    OBVIOUS
  <2>2. Len(c) = N
    BY <1>4, <2>1 DEF Good
  <2>. DEFINE R == {c[i] : i \in 1 .. N}
  <2>3. c \in [1 .. N -> DOMAIN h]
    <3>1. c \in [1 .. Len(c) -> F]
      BY <1>6, LenProperties
    <3>. QED BY <3>1, <1>6, <2>2
  <2>4. \A i, j \in 1 .. N : c[i] = c[j] => i = j
    <3>. SUFFICES ASSUME NEW i \in 1 .. N, NEW j \in 1 .. N, c[i] = c[j], i # j PROVE FALSE
      OBVIOUS
    <3>1. c[i] \in Int /\ c[j] \in Int
      BY <1>6, <2>2, LenProperties
    <3>2. i < j \/ j < i
      BY <1>1
    <3>. QED BY <3>1, <3>2, <1>5, <2>2 DEF ChainTo
  <2>5. c \in Bijection(1 .. N, R)
    BY <2>3, <2>4 DEF Bijection, Injection, Surjection, IsInjective
  <2>6. IsFiniteSet(R) /\ Cardinality(R) = N
    <3>1. IsFiniteSet(1 .. N) /\ Cardinality(1 .. N) = N
      BY <1>1, FS_Interval
    <3>2. ExistsBijection(1 .. N, R)
      BY <2>5 DEF ExistsBijection
    <3>. QED BY <3>1, <3>2, FS_Bijection
  <2>7. R = DOMAIN h
    BY <1>1, <2>3, <2>6, FS_Subset
  <2>8. PICK i \in 1 .. N : c[i] = end
    BY <2>7 DEF Linked
  <2>9. i \in 1 .. Len(c) - 1
    BY <2>1, <2>2, <2>8, <1>1
  <2>. QED BY <1>5, <2>8, <2>9 DEF ChainTo
<1>8. Len(c) >= 2
  <2>1. Len(c) # 1
    BY <1>5, <1>7 DEF ChainTo, Linked
  <2>2. Len(c) >= 1
    BY <1>5 DEF ChainTo
  <2>3. Len(c) \in Nat
    BY <1>6
  <2>4. \A n \in Nat : n # 1 /\ n >= 1 => n >= 2
    OBVIOUS
  <2>. QED BY ONLY <2>1, <2>2, <2>3, <2>4
<1>9. Range(c) = F
  <2>1. Range(c) \subseteq F
    BY <1>6 DEF Range
  <2>2. ASSUME NEW a \in F PROVE a \in Range(c)
    <3>. DEFINE From == {i \in 1 .. Len(c) : c[i] >= a}
    <3>1. Len(c) \in From
      BY <1>5, <1>6, <1>7, <2>2 DEF ChainTo, Linked
    <3>2. PICK i \in From : \A j \in From : i <= j
      BY <3>1, <1>6, LeastOf, From \in SUBSET Nat
    <3>3. CASE i = 1
      BY <1>5, <1>6, <2>2, <3>2, <3>3 DEF ChainTo, Linked, Range
    <3>4. CASE i > 1
      <4>1. i - 1 \in 1 .. Len(c) - 1 /\ i - 1 \in 1 .. Len(c) /\ i - 1 \notin From
        BY <1>6, <3>2, <3>4
      <4>2. c[i - 1] \in F \ {end} /\ c[i] = h[c[i - 1]].next /\ c[i] \in F
        BY <1>5, <1>6, <4>1, <3>2 DEF ChainTo
      <4>3. a <= c[i - 1] \/ c[i] <= a
        BY <4>2, <2>2 DEF Linked
      <4>4. c[i] >= a /\ ~(c[i - 1] >= a) /\ a \in Int /\ c[i] \in Int /\ c[i - 1] \in Int
        BY <4>1, <4>2, <3>2, <1>6, <2>2
      <4>5. a = c[i]
        BY <4>3, <4>4
      <4>6. i \in DOMAIN c
        BY <3>2, <1>6
      <4>. QED BY <4>5, <4>6 DEF Range
    <3>. QED BY <3>2, <3>3, <3>4
  <2>. QED BY <2>1, <2>2
<1>. QED BY <1>2, <1>5, <1>6, <1>7, <1>8, <1>9 DEF WholeChain

-----------------------------------------------------------------------------
(* Sums over finite sets.                                                     *)

Some(s) == CHOOSE x \in s : TRUE

(* g gives the sum of f over each set of the family T.                        *)
Sums(f, T, g) ==
  g = [s \in T |-> IF s = {} THEN 0 ELSE f[Some(s)] + g[s \ {Some(s)}]]

SumOver(f, S, g) == Sums(f, SUBSET S, g)

Small(S, n) == {s \in SUBSET S : Cardinality(s) <= n}

(* A finite set loses one element when one is taken off.                      *)
LEMMA SmallerSubset ==
  ASSUME NEW S, IsFiniteSet(S), NEW s \in SUBSET S, s # {}
  PROVE  /\ IsFiniteSet(s) /\ Cardinality(s) \in Nat /\ Cardinality(s) >= 1
         /\ Some(s) \in s /\ s \ {Some(s)} \in SUBSET S
         /\ Cardinality(s \ {Some(s)}) = Cardinality(s) - 1
<1>1. IsFiniteSet(s) /\ Cardinality(s) \in Nat
  BY FS_Subset, FS_CardinalityType
<1>2. Some(s) \in s
  BY DEF Some
<1>3. Cardinality(s \ {Some(s)}) = Cardinality(s) - 1
  BY <1>1, <1>2, FS_RemoveElement
<1>4. Cardinality(s) # 0
  BY <1>1, FS_EmptySet
<1>. QED BY <1>1, <1>2, <1>3, <1>4

(* There is a function that gives the sum over every subset of a finite set.  *)
LEMMA SumsExist ==
  ASSUME NEW f, NEW S, IsFiniteSet(S)
  PROVE  \E g : SumOver(f, S, g)
<1>. DEFINE Missing == {n \in Nat : ~ \E g : Sums(f, Small(S, n), g)}
<1>1. Missing = {}
  <2>1. SUFFICES ASSUME Missing # {} PROVE FALSE
    OBVIOUS
  <2>2. PICK n \in Missing : \A j \in Missing : n <= j
    BY <2>1, LeastOf, Missing \in SUBSET Nat
  <2>3. CASE n = 0
    <3>1. ASSUME NEW s \in Small(S, 0), s # {} PROVE FALSE
      <4>1. s \in SUBSET S /\ Cardinality(s) <= 0
        BY DEF Small
      <4>2. Cardinality(s) \in Nat /\ Cardinality(s) >= 1
        BY <3>1, <4>1, SmallerSubset
      <4>. QED BY <4>1, <4>2
    <3>2. Sums(f, Small(S, 0), [s \in Small(S, 0) |-> 0])
      BY <3>1 DEF Sums
    <3>. QED BY <2>2, <2>3, <3>2
  <2>4. CASE n > 0
    <3>1. PICK h : Sums(f, Small(S, n - 1), h)
      BY <2>2, <2>4
    <3>. DEFINE g == [s \in Small(S, n) |-> IF s = {} THEN 0 ELSE f[Some(s)] + h[s \ {Some(s)}]]
    <3>2. \A s \in Small(S, n - 1) : s \in Small(S, n)
      <4>1. \A s \in SUBSET S : Cardinality(s) \in Nat
        BY FS_Subset, FS_CardinalityType
      <4>. QED BY <2>2, <4>1 DEF Small
    <3>3. \A s \in Small(S, n - 1) : g[s] = h[s]
      BY <3>1, <3>2 DEF Sums
    <3>4. \A s \in Small(S, n) : s # {} => s \ {Some(s)} \in Small(S, n - 1)
      <4>. SUFFICES ASSUME NEW s \in Small(S, n), s # {} PROVE s \ {Some(s)} \in Small(S, n - 1)
        OBVIOUS
      <4>1. s \in SUBSET S /\ Cardinality(s) <= n
        BY DEF Small
      <4>2. /\ Cardinality(s) \in Nat /\ s \ {Some(s)} \in SUBSET S
            /\ Cardinality(s \ {Some(s)}) = Cardinality(s) - 1
        BY <4>1, SmallerSubset
      <4>3. Cardinality(s) - 1 <= n - 1
        BY <2>2, <4>1, <4>2
      <4>. QED BY <4>2, <4>3 DEF Small
    <3>5. Sums(f, Small(S, n), g)
      BY <3>3, <3>4 DEF Sums
    <3>. QED BY <2>2, <3>5
  <2>. QED BY <2>2, <2>3, <2>4
<1>2. Small(S, Cardinality(S)) = SUBSET S
  BY FS_Subset DEF Small
<1>3. Cardinality(S) \in Nat
  BY FS_CardinalityType
<1>4. \E g : Sums(f, Small(S, Cardinality(S)), g)
  BY <1>1, <1>3
<1>. QED BY <1>2, <1>4 DEF SumOver

Common(s, S, T) == s \subseteq S /\ s \subseteq T

(* Two such functions agree where both are defined.                           *)
LEMMA SumsAgree ==
  ASSUME NEW f, NEW S, IsFiniteSet(S), NEW T, IsFiniteSet(T),
         NEW g, SumOver(f, S, g), NEW h, SumOver(f, T, h),
         NEW s, Common(s, S, T)
  PROVE  g[s] = h[s]
<1>. DEFINE Bad == {n \in Nat : \E r \in SUBSET (S \cap T) : Cardinality(r) = n /\ g[r] # h[r]}
<1>1. Bad = {}
  <2>1. SUFFICES ASSUME Bad # {} PROVE FALSE
    OBVIOUS
  <2>2. PICK n \in Bad : \A j \in Bad : n <= j
    BY <2>1, LeastOf, Bad \in SUBSET Nat
  <2>3. PICK t \in SUBSET (S \cap T) : Cardinality(t) = n /\ g[t] # h[t]
    BY <2>2
  <2>4. CASE t = {}
    BY <2>3, <2>4 DEF SumOver, Sums
  <2>5. CASE t # {}
    <3>. DEFINE r == t \ {Some(t)}
    <3>1. r \in SUBSET (S \cap T) /\ Cardinality(r) = n - 1 /\ n - 1 \in Nat
      <4>1. t \in SUBSET S /\ t \in SUBSET T
        OBVIOUS
      <4>2. Cardinality(t) >= 1 /\ Cardinality(r) = Cardinality(t) - 1
        BY <2>5, <4>1, SmallerSubset
      <4>. QED BY <2>2, <2>3, <4>1, <4>2
    <3>2. g[r] = h[r]
      <4>1. n - 1 \notin Bad
        BY <2>2, <3>1
      <4>. QED BY <3>1, <4>1
    <3>3. g[t] = f[Some(t)] + g[r] /\ h[t] = f[Some(t)] + h[r]
      BY <2>5 DEF SumOver, Sums
    <3>. QED BY <2>3, <3>2, <3>3
  <2>. QED BY <2>4, <2>5
<1>2. s \in SUBSET (S \cap T) /\ s \in SUBSET S
  BY DEF Common
<1>3. Cardinality(s) \in Nat
  BY <1>2, FS_Subset, FS_CardinalityType
<1>. QED BY <1>1, <1>2, <1>3

(* The sum, as the library defines it, takes the elements off one by one.     *)
LEMMA SumUnfolds ==
  ASSUME NEW f, NEW S, IsFiniteSet(S)
  PROVE  IF S = {} THEN SumFunctionOnSet(f, S) = 0
         ELSE SumFunctionOnSet(f, S) = f[Some(S)] + SumFunctionOnSet(f, S \ {Some(S)})
<1>1. ASSUME NEW R, IsFiniteSet(R)
      PROVE  \E g : SumOver(f, R, g) /\ SumFunctionOnSet(f, R) = g[R]
  <2>. DEFINE Eq(g) == g = [s \in SUBSET R |->
                             IF s = {} THEN 0
                             ELSE LET x == CHOOSE x \in s : TRUE IN f[x] + g[s \ {x}]]
              u == CHOOSE g : Eq(g)
  <2>1. SumFunctionOnSet(f, R) = u[R]
    BY DEF SumFunctionOnSet, FoldFunctionOnSet, MapThenFoldSet
  <2>2. \A g : Eq(g) <=> SumOver(f, R, g)
    BY DEF SumOver, Sums, Some
  <2>. HIDE DEF Eq
  <2>3. \E g : Eq(g)
    <3>1. \E g : SumOver(f, R, g)
      BY <1>1, SumsExist
    <3>. QED BY <2>2, <3>1
  <2>4. Eq(u)
    BY <2>3
  <2>. QED BY <2>1, <2>2, <2>4
<1>2. PICK g : SumOver(f, S, g) /\ SumFunctionOnSet(f, S) = g[S]
  BY <1>1
<1>3. CASE S = {}
  BY <1>2, <1>3 DEF SumOver, Sums
<1>4. CASE S # {}
  <2>. DEFINE R == S \ {Some(S)}
  <2>1. IsFiniteSet(R)
    BY FS_Subset
  <2>2. PICK h : SumOver(f, R, h) /\ SumFunctionOnSet(f, R) = h[R]
    BY <1>1, <2>1
  <2>3. g[R] = h[R]
    <3>1. Common(R, S, R)
      BY DEF Common
    <3>2. SumOver(f, S, g) /\ SumOver(f, R, h)
      BY <1>2, <2>2
    <3>. HIDE DEF R
    <3>. QED BY ONLY IsFiniteSet(S), <2>1, <3>1, <3>2, SumsAgree
  <2>4. g[S] = f[Some(S)] + g[R]
    BY <1>2, <1>4 DEF SumOver, Sums
  <2>. QED BY <1>2, <1>4, <2>2, <2>3, <2>4
<1>. QED BY <1>3, <1>4

(* Any element may be taken off.                                              *)
LEMMA SumTakesAny ==
  ASSUME NEW f, NEW S, IsFiniteSet(S), \A a \in S : f[a] \in Nat
  PROVE  /\ SumFunctionOnSet(f, S) \in Nat
         /\ \A x \in S : SumFunctionOnSet(f, S) = f[x] + SumFunctionOnSet(f, S \ {x})
<1>. DEFINE Sum(s) == SumFunctionOnSet(f, s)
            Holds(s) == Sum(s) \in Nat /\ \A x \in s : Sum(s) = f[x] + Sum(s \ {x})
            Bad == {n \in Nat : \E s \in SUBSET S : Cardinality(s) = n /\ ~Holds(s)}
<1>1. ASSUME NEW s \in SUBSET S
      PROVE  IF s = {} THEN Sum(s) = 0 ELSE Sum(s) = f[Some(s)] + Sum(s \ {Some(s)})
  BY SumUnfolds, FS_Subset
<1>. HIDE DEF Sum
<1>2. Bad = {}
  <2>1. SUFFICES ASSUME Bad # {} PROVE FALSE
    OBVIOUS
  <2>2. PICK n \in Bad : \A j \in Bad : n <= j
    BY <2>1, LeastOf, Bad \in SUBSET Nat
  <2>3. PICK s \in SUBSET S : Cardinality(s) = n /\ ~Holds(s)
    BY <2>2
  <2>4. ASSUME NEW t \in SUBSET S, Cardinality(t) \in Nat, Cardinality(t) < n
        PROVE  Holds(t)
    BY <2>2, <2>4
  <2>5. s # {}
    <3>1. s = {} => Holds(s)
      BY <1>1
    <3>. QED BY <2>3, <3>1
  <2>. DEFINE y == Some(s)
              r == s \ {y}
  <2>6. /\ IsFiniteSet(s) /\ n \in Nat /\ n >= 1 /\ y \in s /\ r \in SUBSET S
        /\ Cardinality(r) = n - 1
    BY <2>3, <2>5, SmallerSubset
  <2>. HIDE DEF y
  <2>7. Holds(r)
    <3>1. n - 1 \in Nat /\ n - 1 < n
      BY <2>6
    <3>. QED BY <2>4, <2>6, <3>1
  <2>8. Sum(s) = f[y] + Sum(r)
    BY <1>1, <2>5 DEF y
  <2>9. Sum(s) \in Nat
    BY <2>6, <2>7, <2>8
  <2>10. ASSUME NEW x \in s PROVE Sum(s) = f[x] + Sum(s \ {x})
    <3>1. CASE x = y
      BY <2>8, <3>1
    <3>2. CASE x # y
      <4>. DEFINE t == s \ {x}
                  u == r \ {x}
      <4>1. x \in r /\ y \in t /\ u = t \ {y}
        BY <2>6, <3>2
      <4>2. t \in SUBSET S /\ u \in SUBSET S /\ Cardinality(t) = n - 1
        BY <2>3, <2>6, FS_RemoveElement
      <4>3. Cardinality(u) = n - 2 /\ n - 2 \in Nat
        <5>1. IsFiniteSet(r) /\ Cardinality(u) = Cardinality(r) - 1
          BY <2>6, <4>1, FS_Subset, FS_RemoveElement
        <5>2. Cardinality(u) \in Nat
          BY <4>2, FS_Subset, FS_CardinalityType
        <5>. QED BY <2>6, <5>1, <5>2
      <4>4. Holds(t) /\ Holds(u)
        <5>1. n - 1 \in Nat /\ n - 1 < n /\ n - 2 < n
          BY <2>6
        <5>. QED BY <2>4, <4>2, <4>3, <5>1
      <4>. HIDE DEF t, u
      <4>5. Sum(t) = f[y] + Sum(u)
        BY <4>1, <4>4
      <4>6. Sum(r) = f[x] + Sum(u)
        BY <4>1, <2>7 DEF u
      <4>7. f[x] \in Nat /\ f[y] \in Nat /\ Sum(u) \in Nat
        BY <2>6, <4>4
      <4>8. Sum(s) = f[x] + Sum(t)
        BY <2>8, <4>5, <4>6, <4>7
      <4>. QED BY <4>8 DEF t
    <3>. QED BY <3>1, <3>2
  <2>. QED BY <2>3, <2>9, <2>10
<1>3. Cardinality(S) \in Nat
  BY FS_CardinalityType
<1>4. Holds(S)
  BY <1>2, <1>3
<1>. QED BY <1>4 DEF Sum

(* The sum without one of its terms.                                          *)
LEMMA SumWithout ==
  ASSUME NEW f, NEW S, IsFiniteSet(S), \A a \in S : f[a] \in Nat, NEW x \in S
  PROVE  SumFunctionOnSet(f, S) = f[x] + SumFunctionOnSet(f, S \ {x})
BY SumTakesAny

(* The sum with one more term.                                                *)
LEMMA SumAdds ==
  ASSUME NEW f, NEW S, IsFiniteSet(S), \A a \in S : f[a] \in Nat, NEW x, x \notin S, f[x] \in Nat
  PROVE  SumFunctionOnSet(f, S \cup {x}) = SumFunctionOnSet(f, S) + f[x]
<1>. DEFINE T == S \cup {x}
<1>1. IsFiniteSet(T) /\ \A a \in T : f[a] \in Nat
  BY FS_AddElement
<1>2. SumFunctionOnSet(f, T) = f[x] + SumFunctionOnSet(f, T \ {x})
  BY <1>1, SumTakesAny
<1>3. T \ {x} = S
  OBVIOUS
<1>4. SumFunctionOnSet(f, S) \in Nat
  BY SumTakesAny
<1>5. SumFunctionOnSet(f, T) = f[x] + SumFunctionOnSet(f, S)
  BY <1>2, <1>3
<1>. HIDE DEF T
<1>6. \A m, n \in Nat : m + n = n + m
  OBVIOUS
<1>. QED BY <1>4, <1>5, <1>6 DEF T

(* Only the values on the set count.                                          *)
LEMMA SumSame ==
  ASSUME NEW f, NEW g, NEW S, IsFiniteSet(S), \A a \in S : f[a] = g[a]
  PROVE  SumFunctionOnSet(f, S) = SumFunctionOnSet(g, S)
<1>. DEFINE Bad == {n \in Nat : \E s \in SUBSET S :
                      Cardinality(s) = n /\ SumFunctionOnSet(f, s) # SumFunctionOnSet(g, s)}
<1>1. Bad = {}
  <2>1. SUFFICES ASSUME Bad # {} PROVE FALSE
    OBVIOUS
  <2>2. PICK n \in Bad : \A j \in Bad : n <= j
    BY <2>1, LeastOf, Bad \in SUBSET Nat
  <2>3. PICK s \in SUBSET S : Cardinality(s) = n /\ SumFunctionOnSet(f, s) # SumFunctionOnSet(g, s)
    BY <2>2
  <2>4. IsFiniteSet(s)
    BY FS_Subset
  <2>5. CASE s = {}
    BY <2>3, <2>4, <2>5, SumUnfolds
  <2>6. CASE s # {}
    <3>. DEFINE r == s \ {Some(s)}
    <3>1. Some(s) \in s /\ r \in SUBSET S /\ Cardinality(r) = n - 1 /\ n - 1 \in Nat /\ n - 1 < n
      <4>1. /\ Some(s) \in s /\ r \in SUBSET S /\ Cardinality(r) = n - 1 /\ n >= 1
        BY <2>3, <2>6, SmallerSubset
      <4>. QED BY <2>2, <4>1
    <3>2. SumFunctionOnSet(f, r) = SumFunctionOnSet(g, r)
      BY <2>2, <3>1
    <3>3. /\ SumFunctionOnSet(f, s) = f[Some(s)] + SumFunctionOnSet(f, r)
          /\ SumFunctionOnSet(g, s) = g[Some(s)] + SumFunctionOnSet(g, r)
      BY <2>4, <2>6, SumUnfolds
    <3>. QED BY <2>3, <3>1, <3>2, <3>3
  <2>. QED BY <2>5, <2>6
<1>. QED BY <1>1, FS_CardinalityType

-----------------------------------------------------------------------------
(* The blocks.                                                                *)

(* The first aligned address and the end mark of the area.                    *)
Area(first, end) ==
  /\ first \in Nat /\ end \in Nat /\ 0 < first /\ first < end
  /\ end - first < BLOCK_ALLOCATED_BIT
  /\ first % Align = 0 /\ end % Align = 0

(* The blocks of the sizes s tile the area.                                   *)
Tiling(s, first, end) ==
  /\ first \in DOMAIN s
  /\ \A a \in DOMAIN s :
       /\ a \in Int /\ first <= a /\ a < end /\ a % Align = 0
       /\ s[a] \in Nat /\ s[a] >= HEAP_STRUCT_SIZE
       /\ a + s[a] \in DOMAIN s \cup {end}
       /\ \A b \in DOMAIN s \cup {end} : b <= a \/ a + s[a] <= b
       /\ a # first => \E b \in DOMAIN s : b + s[b] = a

Cells(h, end) == DOMAIN h \ {StartAddr, end}
Sizes(h, end) == [a \in Cells(h, end) |-> h[a].blockSize % BLOCK_ALLOCATED_BIT]
Freed(h, end) == {a \in Cells(h, end) : h[a].blockSize < BLOCK_ALLOCATED_BIT}

Headers(h, end) ==
  /\ IsFiniteSet(DOMAIN h) /\ StartAddr \in DOMAIN h /\ end \in DOMAIN h
  /\ h \in [DOMAIN h -> [next : Int, blockSize : Nat]]
  /\ h[StartAddr].blockSize = 0 /\ h[end] = Block(NULL, 0)
  /\ \A a \in Cells(h, end) :
       /\ h[a].blockSize < 2 * BLOCK_ALLOCATED_BIT
       /\ a \notin Freed(h, end) => h[a].next = NULL

(* What every call keeps, whether or not neighbours have been joined yet.     *)
Core(h, first, end, total) ==
  /\ Area(first, end)
  /\ Headers(h, end)
  /\ Tiling(Sizes(h, end), first, end)
  /\ Linked(h, Freed(h, end) \cup {StartAddr, end}, end)
  /\ total = SumFunctionOnSet(Sizes(h, end), Freed(h, end))

(* A header takes whole units of the alignment and holds a blockConnect_t.    *)
LEMMA HeapSize ==
  /\ HEAP_STRUCT_SIZE \in Nat /\ HEAP_STRUCT_SIZE >= SizeofBlock /\ HEAP_STRUCT_SIZE > 0
  /\ HEAP_STRUCT_SIZE % Align = 0 /\ Align \in Nat \ {0}
<1>. USE PoolAssumption DEF PoolAssumption
<1>1. CASE Align = 2
  BY <1>1 DEF HEAP_STRUCT_SIZE, AlignDown
<1>2. CASE Align = 4
  BY <1>2 DEF HEAP_STRUCT_SIZE, AlignDown
<1>3. CASE Align = 8
  BY <1>3 DEF HEAP_STRUCT_SIZE, AlignDown
<1>. QED BY <1>1, <1>2, <1>3

(* Sums and differences of aligned numbers are aligned.                       *)
LEMMA AlignedSum ==
  ASSUME NEW a \in Int, NEW b \in Int, a % Align = 0, b % Align = 0
  PROVE  (a + b) % Align = 0 /\ (a - b) % Align = 0
<1>. USE PoolAssumption DEF PoolAssumption
<1>1. CASE Align = 2
  BY <1>1
<1>2. CASE Align = 4
  BY <1>2
<1>3. CASE Align = 8
  BY <1>3
<1>. QED BY <1>1, <1>2, <1>3

(* The size of a block and the mark do not mix.                               *)
LEMMA SizeAndMark ==
  ASSUME NEW n \in Nat, n < BLOCK_ALLOCATED_BIT
  PROVE  n % BLOCK_ALLOCATED_BIT = n /\ (n + BLOCK_ALLOCATED_BIT) % BLOCK_ALLOCATED_BIT = n
BY PoolAssumption DEF PoolAssumption

(* What the size word of a block says: its size, with the mark when it is in  *)
(* use.                                                                       *)
LEMMA SizesOf ==
  ASSUME NEW h, NEW first, NEW end, NEW total, Core(h, first, end, total), NEW a \in Cells(h, end)
  PROVE  /\ a \in Int /\ a + Sizes(h, end)[a] <= end /\ Sizes(h, end)[a] \in Nat
         /\ Sizes(h, end)[a] < BLOCK_ALLOCATED_BIT /\ h[a].blockSize \in Nat
         /\ IF a \in Freed(h, end) THEN h[a].blockSize = Sizes(h, end)[a]
            ELSE h[a].blockSize = Sizes(h, end)[a] + BLOCK_ALLOCATED_BIT
<1>. DEFINE s == Sizes(h, end)
<1>1. /\ a \in Int /\ first <= a /\ a < end /\ s[a] \in Nat
      /\ end <= a \/ a + s[a] <= end
  BY DEF Core, Tiling, Sizes
<1>2. a + s[a] <= end /\ s[a] < BLOCK_ALLOCATED_BIT
  BY <1>1, PoolAssumption DEF Core, Area, PoolAssumption
<1>3. h[a].blockSize \in Nat /\ h[a].blockSize < 2 * BLOCK_ALLOCATED_BIT
  BY DEF Core, Headers, Cells
<1>4. s[a] = h[a].blockSize % BLOCK_ALLOCATED_BIT
  BY DEF Sizes
<1>5. CASE a \in Freed(h, end)
  BY <1>1, <1>2, <1>3, <1>4, <1>5, SizeAndMark DEF Freed
<1>6. CASE a \notin Freed(h, end)
  <2>. DEFINE n == h[a].blockSize - BLOCK_ALLOCATED_BIT
  <2>1. n \in Nat /\ n < BLOCK_ALLOCATED_BIT /\ h[a].blockSize = n + BLOCK_ALLOCATED_BIT
    BY <1>3, <1>6, PoolAssumption DEF Freed, PoolAssumption
  <2>2. s[a] = n
    <3>1. (n + BLOCK_ALLOCATED_BIT) % BLOCK_ALLOCATED_BIT = n
      BY <2>1, SizeAndMark
    <3>. QED BY <1>4, <2>1, <3>1
  <2>. QED BY <1>1, <1>2, <1>3, <1>6, <2>1, <2>2
<1>. QED BY <1>5, <1>6

-----------------------------------------------------------------------------
(* The free list when a block enters or leaves it.                            *)

(* h and g have the same links over F.                                        *)
SameLinks(h, g, F) == \A a \in F : g[a].next = h[a].next

(* A block put after the one it lies behind is in the list, in order.         *)
LEMMA LinkedInsert ==
  ASSUME NEW h, NEW F, NEW end, Linked(h, F, end),
         NEW it \in F \ {end}, NEW x \in Int, it < x, x < h[it].next, x # NULL,
         NEW g, x \in DOMAIN g, F \subseteq DOMAIN g, SameLinks(h, g, F \ {it}),
         g[it].next = x, g[x].next = h[it].next
  PROVE  Linked(g, F \cup {x}, end)
<1>. DEFINE G == F \cup {x}
<1>1. F \subseteq Int /\ h[it].next \in F /\ it # end /\ h[it].next # NULL
  BY DEF Linked
<1>2. \A b \in F : b <= it \/ h[it].next <= b
  BY DEF Linked
<1>3. StartAddr <= it /\ it <= end /\ h[it].next <= end /\ StartAddr \in Int /\ end \in Int
  BY <1>1 DEF Linked
<1>4. x # end /\ x \notin F /\ StartAddr <= x /\ x <= end
  BY <1>1, <1>2, <1>3
<1>5. g[end].next = NULL
  BY <1>1 DEF Linked, SameLinks
<1>6. ASSUME NEW a \in G \ {end}
      PROVE  g[a].next \in G /\ a < g[a].next /\ \A b \in G : b <= a \/ g[a].next <= b
  <2>1. CASE a = it
    BY <2>1, <1>1, <1>2
  <2>2. CASE a = x
    BY <2>2, <1>1, <1>2
  <2>3. CASE a # it /\ a # x
    <3>1. g[a].next = h[a].next /\ a \in F \ {end}
      BY <2>3, <1>6 DEF SameLinks
    <3>2. h[a].next \in F /\ a < h[a].next /\ \A b \in F : b <= a \/ h[a].next <= b
      BY <3>1 DEF Linked
    <3>3. a < it \/ h[it].next <= a
      BY <1>1, <1>2, <2>3, <3>1
    <3>4. a < it => h[a].next <= it
      BY <1>1, <3>1, <3>2
    <3>5. x <= a \/ h[a].next <= x
      BY <1>1, <3>1, <3>2, <3>3, <3>4
    <3>. QED BY <3>1, <3>2, <3>5
  <2>. QED BY <2>1, <2>2, <2>3
<1>. QED BY <1>1, <1>4, <1>5, <1>6 DEF Linked

(* The list without a block is a list, in order.                              *)
LEMMA LinkedRemove ==
  ASSUME NEW h, NEW F, NEW end, Linked(h, F, end),
         NEW it \in F \ {end}, NEW x, h[it].next = x, x # end,
         NEW g, F \ {x} \subseteq DOMAIN g, SameLinks(h, g, F \ {it, x}),
         g[it].next = h[x].next
  PROVE  Linked(g, F \ {x}, end)
<1>. DEFINE G == F \ {x}
<1>1. F \subseteq Int /\ x \in F /\ it < x /\ h[x].next \in F /\ x < h[x].next /\ it \in Int
  BY DEF Linked
<1>2. \A b \in F : (b <= it \/ x <= b) /\ (b <= x \/ h[x].next <= b)
  BY DEF Linked
<1>3. StartAddr # x
  BY <1>1 DEF Linked
<1>4. g[end].next = NULL
  BY <1>1 DEF Linked, SameLinks
<1>5. ASSUME NEW a \in G \ {end}
      PROVE  g[a].next \in G /\ a < g[a].next /\ \A b \in G : b <= a \/ g[a].next <= b
  <2>1. CASE a = it
    <3>1. \A b \in G : b \in Int /\ b # x /\ (b <= it \/ x <= b) /\ (b <= x \/ h[x].next <= b)
      BY <1>1, <1>2
    <3>0. h[x].next \in Int /\ x \in Int
      BY <1>1
    <3>2. h[x].next \in G /\ h[x].next \in Int /\ x \in Int
      <4>1. h[x].next # x
        BY ONLY <3>0, <1>1
      <4>. QED BY <1>1, <3>0, <4>1
    <3>. QED BY <2>1, <1>1, <3>1, <3>2
  <2>2. CASE a # it
    <3>1. g[a].next = h[a].next /\ a \in F \ {end}
      BY <2>2, <1>5 DEF SameLinks
    <3>2. h[a].next \in F /\ a < h[a].next /\ \A b \in F : b <= a \/ h[a].next <= b
      BY <3>1 DEF Linked
    <3>3. h[a].next # x
      <4>1. it <= a \/ h[a].next <= it
        BY <3>2
      <4>2. a <= it \/ x <= a
        BY <1>2, <3>1
      <4>. QED BY <1>1, <2>2, <3>1, <3>2, <4>1, <4>2
    <3>. QED BY <3>1, <3>2, <3>3
  <2>. QED BY <2>1, <2>2
<1>6. \A a \in G : StartAddr <= a /\ a <= end
  BY DEF Linked
<1>7. /\ G \subseteq DOMAIN g /\ G \subseteq Int /\ NULL \notin G /\ StartAddr \in G /\ end \in G
      /\ StartAddr # end
  BY <1>1, <1>3 DEF Linked
<1>. HIDE DEF G
<1>. QED BY <1>4, <1>5, <1>6, <1>7 DEF Linked, G

-----------------------------------------------------------------------------
(* The tiling when a block is cut in two, or two neighbours are joined.       *)

CutSizes(s, x, n) ==
  [a \in DOMAIN s \cup {x + n} |-> IF a = x THEN n ELSE IF a = x + n THEN s[x] - n ELSE s[a]]

JoinedSizes(s, x, y) == [a \in DOMAIN s \ {y} |-> IF a = x THEN s[x] + s[y] ELSE s[a]]

(* The two parts of a block tile what it was.                                 *)
LEMMA TilingCut ==
  ASSUME NEW s, NEW first, NEW end \in Int, Tiling(s, first, end), NEW x \in DOMAIN s,
         NEW n \in Nat, n >= HEAP_STRUCT_SIZE, s[x] - n >= HEAP_STRUCT_SIZE, n % Align = 0
  PROVE  Tiling(CutSizes(s, x, n), first, end) /\ x + n \notin DOMAIN s
<1>. DEFINE D == DOMAIN s
            y == x + n
            t == CutSizes(s, x, n)
<1>1. HEAP_STRUCT_SIZE \in Nat /\ HEAP_STRUCT_SIZE > 0
  BY HeapSize
<1>2. /\ x \in Int /\ first <= x /\ x < end /\ x % Align = 0 /\ s[x] \in Nat
      /\ x + s[x] \in D \cup {end} /\ \A b \in D \cup {end} : b <= x \/ x + s[x] <= b
  BY DEF Tiling
<1>3. \A a \in D : a \in Int /\ a < end
  BY DEF Tiling
<1>4. x < y /\ y < x + s[x] /\ y \in Int
  BY <1>1, <1>2
<1>5. y \notin D \cup {end}
  BY <1>2, <1>4
<1>6. DOMAIN t = D \cup {y} /\ t[x] = n /\ t[y] = s[x] - n
  BY <1>4 DEF CutSizes
<1>7. \A a \in D \ {x} : t[a] = s[a]
  BY <1>5 DEF CutSizes
<1>8. end <= x \/ x + s[x] <= end
  BY <1>2
<1>9. y < end /\ first <= y /\ end \in Int /\ first \in Int
  <2>1. x + s[x] \in Int /\ (x + s[x] \in D => x + s[x] < end)
    BY <1>2, <1>3
  <2>2. first \in D
    BY DEF Tiling
  <2>3. x + s[x] \in D \/ x + s[x] = end
    BY <1>2
  <2>. QED BY <1>2, <1>3, <1>4, <2>1, <2>2, <2>3
<1>10. y % Align = 0
  BY <1>2, AlignedSum
<1>. HIDE DEF t, y
<1>11. ASSUME NEW a \in D \cup {y}
       PROVE  /\ a \in Int /\ first <= a /\ a < end /\ a % Align = 0
              /\ t[a] \in Nat /\ t[a] >= HEAP_STRUCT_SIZE
              /\ a + t[a] \in D \cup {y, end}
              /\ \A b \in D \cup {y, end} : b <= a \/ a + t[a] <= b
  <2>1. CASE a = x
    <3>1. a + t[a] = y /\ t[a] \in Nat /\ t[a] >= HEAP_STRUCT_SIZE
      BY <2>1, <1>6 DEF y
    <3>2. \A b \in D \cup {y, end} : b <= x \/ y <= b
      BY <1>2, <1>3, <1>4
    <3>. QED BY <2>1, <1>2, <3>1, <3>2
  <2>2. CASE a = y
    <3>1. a + t[a] = x + s[x]
      BY <2>2, <1>2, <1>6 DEF y
    <3>2. t[a] \in Nat /\ t[a] >= HEAP_STRUCT_SIZE
      BY <2>2, <1>1, <1>2, <1>6
    <3>3. \A b \in D \cup {y, end} : b <= a \/ a + t[a] <= b
      BY <2>2, <3>1, <1>2, <1>3, <1>4, <1>9
    <3>. QED BY <2>2, <3>1, <3>2, <3>3, <1>2, <1>4, <1>9, <1>10
  <2>3. CASE a # x /\ a # y
    <3>1. a \in D /\ t[a] = s[a]
      BY <2>3, <1>7
    <3>2. /\ a \in Int /\ first <= a /\ a < end /\ a % Align = 0 /\ s[a] \in Nat
          /\ s[a] >= HEAP_STRUCT_SIZE /\ a + s[a] \in D \cup {end}
          /\ \A b \in D \cup {end} : b <= a \/ a + s[a] <= b
      BY <3>1 DEF Tiling
    <3>3. y <= a \/ a + s[a] <= y
      <4>1. x <= a \/ a + s[a] <= x
        BY <3>2
      <4>2. a <= x \/ x + s[x] <= a
        BY <1>2, <3>1
      <4>. QED BY <1>2, <1>4, <2>3, <3>2, <4>1, <4>2
    <3>. QED BY <3>1, <3>2, <3>3
  <2>. QED BY <2>1, <2>2, <2>3
<1>12. ASSUME NEW a \in D \cup {y}, a # first
       PROVE  \E b \in D \cup {y} : b + t[b] = a
  <2>1. CASE a = y
    BY <2>1, <1>6 DEF y
  <2>2. CASE a # y
    <3>1. PICK b \in D : b + s[b] = a
      BY <1>12, <2>2 DEF Tiling
    <3>2. CASE b = x
      BY <3>1, <3>2, <1>2, <1>6 DEF y
    <3>3. CASE b # x
      BY <3>1, <3>3, <1>7
    <3>. QED BY <3>2, <3>3
  <2>. QED BY <2>1, <2>2
<1>13. first \in D
  BY DEF Tiling
<1>14. Tiling(t, first, end)
  BY <1>6, <1>11, <1>12, <1>13 DEF Tiling
<1>. QED BY <1>5, <1>14 DEF t, y

(* Two neighbours as one block tile what they were.                           *)
LEMMA TilingJoin ==
  ASSUME NEW s, NEW first, NEW end \in Int, Tiling(s, first, end), NEW x \in DOMAIN s,
         NEW y \in DOMAIN s, y = x + s[x]
  PROVE  Tiling(JoinedSizes(s, x, y), first, end)
<1>. DEFINE D == DOMAIN s
            t == JoinedSizes(s, x, y)
<1>1. HEAP_STRUCT_SIZE \in Nat /\ HEAP_STRUCT_SIZE > 0
  BY HeapSize
<1>2. /\ x \in Int /\ first <= x /\ x < end /\ x % Align = 0 /\ s[x] \in Nat
      /\ s[x] >= HEAP_STRUCT_SIZE /\ \A b \in D \cup {end} : b <= x \/ y <= b
  BY DEF Tiling
<1>3. /\ y \in Int /\ s[y] \in Nat /\ s[y] >= HEAP_STRUCT_SIZE /\ y + s[y] \in D \cup {end}
      /\ \A b \in D \cup {end} : b <= y \/ y + s[y] <= b
  BY DEF Tiling
<1>4. \A a \in D : a \in Int /\ s[a] \in Nat
  BY DEF Tiling
<1>5. DOMAIN t = D \ {y} /\ t[x] = s[x] + s[y]
  BY <1>1, <1>2 DEF JoinedSizes
<1>6. \A a \in D \ {x, y} : t[a] = s[a]
  BY DEF JoinedSizes
<1>7. x < y /\ x + t[x] = y + s[y] /\ y # first /\ y + s[y] # y
  <2>1. first \in Int
    BY DEF Tiling
  <2>. QED BY <1>1, <1>2, <1>3, <1>5, <2>1
<1>. HIDE DEF t
<1>8. ASSUME NEW a \in D \ {y}
      PROVE  /\ a \in Int /\ first <= a /\ a < end /\ a % Align = 0
             /\ t[a] \in Nat /\ t[a] >= HEAP_STRUCT_SIZE
             /\ a + t[a] \in (D \ {y}) \cup {end}
             /\ \A b \in (D \ {y}) \cup {end} : b <= a \/ a + t[a] <= b
  <2>1. CASE a = x
    <3>1. t[a] \in Nat /\ t[a] >= HEAP_STRUCT_SIZE
      BY <2>1, <1>1, <1>2, <1>3, <1>5
    <3>2. a + t[a] \in (D \ {y}) \cup {end}
      BY <2>1, <1>3, <1>7
    <3>3. ASSUME NEW b \in (D \ {y}) \cup {end} PROVE b <= a \/ a + t[a] <= b
      <4>1. (b <= x \/ y <= b) /\ (b <= y \/ y + s[y] <= b)
        BY <1>2, <1>3
      <4>2. b = y => y = end /\ end \notin D
        BY DEF Tiling
      <4>3. b # y
        BY <4>2
      <4>4. b \in Int
        BY <1>4
      <4>. QED BY <2>1, <4>1, <4>3, <4>4, <1>3, <1>7
    <3>. QED BY <2>1, <3>1, <3>2, <3>3, <1>2
  <2>2. CASE a # x
    <3>1. t[a] = s[a]
      BY <2>2, <1>6
    <3>2. /\ a \in Int /\ first <= a /\ a < end /\ a % Align = 0 /\ s[a] \in Nat
          /\ s[a] >= HEAP_STRUCT_SIZE /\ a + s[a] \in D \cup {end}
          /\ \A b \in D \cup {end} : b <= a \/ a + s[a] <= b
      BY DEF Tiling
    <3>3. a + s[a] # y
      <4>1. x <= a \/ a + s[a] <= x
        BY <3>2
      <4>2. a <= x \/ y <= a
        BY <1>2
      <4>. QED BY <1>1, <1>2, <1>3, <1>7, <2>2, <3>2, <4>1, <4>2
    <3>. QED BY <3>1, <3>2, <3>3
  <2>. QED BY <2>1, <2>2
<1>9. ASSUME NEW a \in D \ {y}, a # first
      PROVE  \E b \in D \ {y} : b + t[b] = a
  <2>1. PICK b \in D : b + s[b] = a
    BY <1>9 DEF Tiling
  <2>2. CASE b = y
    BY <2>1, <2>2, <1>7
  <2>3. CASE b # y
    <3>1. b # x
      BY <2>1
    <3>. QED BY <2>1, <2>3, <3>1, <1>6
  <2>. QED BY <2>2, <2>3
<1>10. first \in D \ {y}
  BY <1>7 DEF Tiling
<1>11. Tiling(t, first, end)
  BY <1>5, <1>8, <1>9, <1>10 DEF Tiling
<1>. QED BY <1>11 DEF t

-----------------------------------------------------------------------------
(* The four things a call does to the headers.                                *)

Listed(h, end) == Freed(h, end) \cup {StartAddr, end}

(* The free block a, which it links to, is taken.                             *)
Taken(h, it, a) ==
  [c \in DOMAIN h |-> IF c = a THEN Block(NULL, h[a].blockSize + BLOCK_ALLOCATED_BIT)
                      ELSE IF c = it THEN Block(h[a].next, h[it].blockSize) ELSE h[c]]

(* The block x in use is free again, and listed after it.                     *)
Released(h, it, x) ==
  [c \in DOMAIN h |-> IF c = x THEN Block(h[it].next, h[x].blockSize - BLOCK_ALLOCATED_BIT)
                      ELSE IF c = it THEN Block(x, h[it].blockSize) ELSE h[c]]

(* The free neighbours a and b are one block.                                 *)
Joined(h, a, b) ==
  [c \in DOMAIN h \ {b} |-> IF c = a THEN Block(h[b].next, h[a].blockSize + h[b].blockSize)
                            ELSE h[c]]

(* The free block a is cut in two, n bytes and the rest.                      *)
Cut(h, a, n) ==
  [c \in DOMAIN h \cup {a + n} |->
     IF c = a THEN Block(a + n, n)
     ELSE IF c = a + n THEN Block(h[a].next, h[a].blockSize - n) ELSE h[c]]

(* The fields of a header.                                                    *)
LEMMA BlockRecord ==
  ASSUME NEW n, NEW b
  PROVE  /\ Block(n, b).next = n /\ Block(n, b).blockSize = b
         /\ n \in Int /\ b \in Nat => Block(n, b) \in [next : Int, blockSize : Nat]
BY DEF Block

(* What the invariant says of the blocks on the list.                         *)
LEMMA ListedFacts ==
  ASSUME NEW h, NEW first, NEW end, NEW total, Core(h, first, end, total)
  PROVE  /\ Listed(h, end) \subseteq DOMAIN h /\ Freed(h, end) \subseteq Cells(h, end)
         /\ IsFiniteSet(Freed(h, end)) /\ IsFiniteSet(Listed(h, end))
         /\ Linked(h, Listed(h, end), end)
         /\ \A a \in DOMAIN h : h[a].next \in Int /\ h[a].blockSize \in Nat
         /\ StartAddr # end /\ end \in Int /\ first \in Int
<1>1. Freed(h, end) \subseteq Cells(h, end) /\ Cells(h, end) \subseteq DOMAIN h
  BY DEF Freed, Cells
<1>2. Listed(h, end) \subseteq DOMAIN h
  BY <1>1 DEF Listed, Core, Headers
<1>3. IsFiniteSet(Freed(h, end)) /\ IsFiniteSet(Listed(h, end))
  <2>1. IsFiniteSet(DOMAIN h) /\ Freed(h, end) \subseteq DOMAIN h
    BY <1>1 DEF Core, Headers
  <2>. QED BY <1>2, <2>1, FS_Subset
<1>4. Linked(h, Listed(h, end), end)
  BY DEF Core, Listed
<1>5. \A a \in DOMAIN h : h[a].next \in Int /\ h[a].blockSize \in Nat
  BY DEF Core, Headers
<1>6. StartAddr # end /\ end \in Int /\ first \in Int
  BY DEF Core, Area, StartAddr
<1>. QED BY <1>1, <1>2, <1>3, <1>4, <1>5, <1>6

(* Taking a block from the list keeps the invariant.                          *)
LEMMA TakenCore ==
  ASSUME NEW h, NEW first, NEW end, NEW total, Core(h, first, end, total),
         NEW a \in Freed(h, end), NEW it \in Listed(h, end) \ {end}, h[it].next = a
  PROVE  /\ Core(Taken(h, it, a), first, end, total - h[a].blockSize)
         /\ Cells(Taken(h, it, a), end) = Cells(h, end)
         /\ Sizes(Taken(h, it, a), end) = Sizes(h, end)
         /\ Freed(Taken(h, it, a), end) = Freed(h, end) \ {a}
<1>. DEFINE g == Taken(h, it, a)
            s == Sizes(h, end)
            F == Listed(h, end)
<1>. USE PoolAssumption DEF PoolAssumption
<1>1. /\ a \in Cells(h, end) /\ a # end /\ a # StartAddr /\ a \in DOMAIN h /\ it \in DOMAIN h
      /\ Linked(h, F, end) /\ a \in F /\ F \subseteq DOMAIN h /\ it \in F \ {end}
  BY ListedFacts DEF Freed, Cells, Listed
<1>2. a # it
  BY <1>1 DEF Linked
<1>3. DOMAIN g = DOMAIN h /\ Cells(g, end) = Cells(h, end)
  BY DEF Taken, Cells
<1>4. /\ g[a] = Block(NULL, h[a].blockSize + BLOCK_ALLOCATED_BIT)
      /\ g[it] = Block(h[a].next, h[it].blockSize)
      /\ \A c \in DOMAIN h \ {a, it} : g[c] = h[c]
  BY <1>1, <1>2 DEF Taken
<1>5. h[a].blockSize = s[a] /\ s[a] \in Nat /\ s[a] < BLOCK_ALLOCATED_BIT
  BY <1>1, SizesOf
<1>. HIDE DEF g
<1>6. g[a].next = NULL /\ g[a].blockSize = s[a] + BLOCK_ALLOCATED_BIT
  BY <1>4, <1>5, BlockRecord
<1>7. g[it].next = h[a].next /\ \A c \in DOMAIN h \ {a} : g[c].blockSize = h[c].blockSize
  BY <1>4, BlockRecord
<1>8. Sizes(g, end) = s
  <2>1. ASSUME NEW c \in Cells(h, end)
        PROVE  g[c].blockSize % BLOCK_ALLOCATED_BIT = h[c].blockSize % BLOCK_ALLOCATED_BIT
    <3>1. CASE c = a
      <4>1. (s[a] + BLOCK_ALLOCATED_BIT) % BLOCK_ALLOCATED_BIT = s[a]
        BY <1>5, SizeAndMark
      <4>2. s[a] = h[a].blockSize % BLOCK_ALLOCATED_BIT
        BY <1>1 DEF Sizes
      <4>. QED BY <3>1, <1>6, <4>1, <4>2
    <3>2. CASE c # a
      BY <3>2, <1>7 DEF Cells
    <3>. QED BY <3>1, <3>2
  <2>. QED BY <1>3, <2>1 DEF Sizes
<1>9. Freed(g, end) = Freed(h, end) \ {a}
  <2>1. ~(s[a] + BLOCK_ALLOCATED_BIT < BLOCK_ALLOCATED_BIT)
    BY <1>5
  <2>. QED BY <1>3, <1>6, <1>7, <2>1 DEF Freed, Cells
<1>10. Headers(g, end)
  <2>1. \A c \in DOMAIN h : h[c].next \in Int /\ h[c].blockSize \in Nat
    BY ListedFacts
  <2>2. g \in [DOMAIN g -> [next : Int, blockSize : Nat]]
    <3>1. ASSUME NEW c \in DOMAIN h PROVE g[c] \in [next : Int, blockSize : Nat]
      <4>1. CASE c = a
        <5>1. NULL \in Int /\ h[a].blockSize + BLOCK_ALLOCATED_BIT \in Nat
          BY <1>5 DEF NULL
        <5>. QED BY <4>1, <1>4, <5>1, BlockRecord
      <4>2. CASE c = it
        BY <4>2, <1>1, <1>4, <2>1, BlockRecord
      <4>3. CASE c # a /\ c # it
        BY <4>3, <1>4 DEF Core, Headers
      <4>. QED BY <4>1, <4>2, <4>3
    <3>2. g = [c \in DOMAIN g |-> g[c]]
      BY DEF g, Taken
    <3>. QED BY <1>3, <3>1, <3>2
  <2>3. g[StartAddr].blockSize = 0 /\ g[end] = Block(NULL, 0)
    BY <1>1, <1>4, <1>7 DEF Core, Headers
  <2>4. ASSUME NEW c \in Cells(g, end)
        PROVE  /\ g[c].blockSize < 2 * BLOCK_ALLOCATED_BIT
               /\ c \notin Freed(g, end) => g[c].next = NULL
    <3>1. CASE c = a
      BY <3>1, <1>5, <1>6
    <3>2. CASE c # a
      <4>1. c \in DOMAIN h \ {a} /\ c \in Cells(h, end)
        BY <3>2, <1>3, <2>4 DEF Cells
      <4>2. g[c].blockSize < 2 * BLOCK_ALLOCATED_BIT
        BY <1>7, <4>1 DEF Core, Headers
      <4>3. c \notin Freed(h, end) => g[c].next = NULL /\ c # it
        BY <1>4, <4>1 DEF Core, Headers, Listed, Cells
      <4>. QED BY <3>2, <4>2, <4>3, <1>9
    <3>. QED BY <3>1, <3>2
  <2>. QED BY <1>3, <2>2, <2>3, <2>4 DEF Core, Headers
<1>11. Linked(g, Listed(g, end), end)
  <2>1. F \ {a} = Listed(g, end)
    BY <1>1, <1>9 DEF Listed
  <2>2. SameLinks(h, g, F \ {it, a})
    BY <1>1, <1>4 DEF SameLinks
  <2>3. F \ {a} \subseteq DOMAIN g
    BY <1>1, <1>3
  <2>4. Linked(g, F \ {a}, end)
    BY <1>1, <1>7, <2>2, <2>3, LinkedRemove
  <2>. QED BY <2>1, <2>4
<1>12. total - h[a].blockSize = SumFunctionOnSet(s, Freed(h, end) \ {a})
  <2>1. \A c \in Freed(h, end) : s[c] \in Nat
    BY SizesOf DEF Freed
  <2>2. IsFiniteSet(Freed(h, end)) /\ IsFiniteSet(Freed(h, end) \ {a})
    BY ListedFacts, FS_Subset
  <2>3. total = s[a] + SumFunctionOnSet(s, Freed(h, end) \ {a})
    BY <2>1, <2>2, SumTakesAny DEF Core
  <2>4. SumFunctionOnSet(s, Freed(h, end) \ {a}) \in Nat
    BY <2>1, <2>2, SumTakesAny
  <2>. HIDE DEF s
  <2>. QED BY <1>5, <2>3, <2>4
<1>13. Core(g, first, end, total - h[a].blockSize)
  BY <1>8, <1>9, <1>10, <1>11, <1>12 DEF Core, Listed
<1>. QED BY <1>3, <1>8, <1>9, <1>13 DEF g

(* Putting a block back on the list keeps the invariant.                      *)
LEMMA ReleasedCore ==
  ASSUME NEW h, NEW first, NEW end, NEW total, Core(h, first, end, total),
         NEW x \in Cells(h, end) \ Freed(h, end), NEW it \in Listed(h, end) \ {end},
         it < x, x < h[it].next
  PROVE  /\ Core(Released(h, it, x), first, end, total + (h[x].blockSize - BLOCK_ALLOCATED_BIT))
         /\ Cells(Released(h, it, x), end) = Cells(h, end)
         /\ Sizes(Released(h, it, x), end) = Sizes(h, end)
         /\ Freed(Released(h, it, x), end) = Freed(h, end) \cup {x}
<1>. DEFINE g == Released(h, it, x)
            s == Sizes(h, end)
            F == Listed(h, end)
            n == h[x].blockSize - BLOCK_ALLOCATED_BIT
<1>. USE PoolAssumption DEF PoolAssumption
<1>1. /\ x # end /\ x # StartAddr /\ x \in DOMAIN h /\ it \in DOMAIN h /\ x \in Int
      /\ Linked(h, F, end) /\ x \notin F /\ F \subseteq DOMAIN h /\ it \in F \ {end}
      /\ x \in Cells(h, end)
  BY ListedFacts, SizesOf DEF Freed, Cells, Listed
<1>2. x # it
  BY <1>1
<1>3. DOMAIN g = DOMAIN h /\ Cells(g, end) = Cells(h, end)
  BY DEF Released, Cells
<1>4. /\ g[x] = Block(h[it].next, n)
      /\ g[it] = Block(x, h[it].blockSize)
      /\ \A c \in DOMAIN h \ {x, it} : g[c] = h[c]
  BY <1>1, <1>2 DEF Released
<1>5. /\ h[x].blockSize = s[x] + BLOCK_ALLOCATED_BIT /\ s[x] \in Nat
      /\ s[x] < BLOCK_ALLOCATED_BIT /\ n = s[x]
  <2>1. /\ h[x].blockSize = s[x] + BLOCK_ALLOCATED_BIT /\ s[x] \in Nat
        /\ s[x] < BLOCK_ALLOCATED_BIT
    BY <1>1, SizesOf
  <2>. HIDE DEF s
  <2>. QED BY <2>1
<1>. HIDE DEF g, n
<1>6. g[x].next = h[it].next /\ g[x].blockSize = s[x]
  BY <1>4, <1>5, BlockRecord
<1>7. g[it].next = x /\ \A c \in DOMAIN h \ {x} : g[c].blockSize = h[c].blockSize
  BY <1>4, BlockRecord
<1>8. Sizes(g, end) = s
  <2>1. ASSUME NEW c \in Cells(h, end)
        PROVE  g[c].blockSize % BLOCK_ALLOCATED_BIT = h[c].blockSize % BLOCK_ALLOCATED_BIT
    <3>1. CASE c = x
      <4>1. s[x] % BLOCK_ALLOCATED_BIT = s[x]
        BY <1>5, SizeAndMark
      <4>2. s[x] = h[x].blockSize % BLOCK_ALLOCATED_BIT
        BY <1>1 DEF Sizes
      <4>. QED BY <3>1, <1>6, <4>1, <4>2
    <3>2. CASE c # x
      BY <3>2, <1>7 DEF Cells
    <3>. QED BY <3>1, <3>2
  <2>. QED BY <1>3, <2>1 DEF Sizes
<1>9. Freed(g, end) = Freed(h, end) \cup {x}
  BY <1>1, <1>3, <1>5, <1>6, <1>7 DEF Freed, Cells
<1>10. Headers(g, end)
  <2>1. \A c \in DOMAIN h : h[c].next \in Int /\ h[c].blockSize \in Nat
    BY ListedFacts
  <2>2. g \in [DOMAIN g -> [next : Int, blockSize : Nat]]
    <3>1. ASSUME NEW c \in DOMAIN h PROVE g[c] \in [next : Int, blockSize : Nat]
      <4>1. CASE c = x
        <5>1. h[it].next \in Int /\ n \in Nat
          BY <1>1, <1>5, <2>1
        <5>. QED BY <4>1, <1>4, <5>1, BlockRecord
      <4>2. CASE c = it
        BY <4>2, <1>1, <1>4, <2>1, BlockRecord
      <4>3. CASE c # x /\ c # it
        BY <4>3, <1>4 DEF Core, Headers
      <4>. QED BY <4>1, <4>2, <4>3
    <3>2. g = [c \in DOMAIN g |-> g[c]]
      BY DEF g, Released
    <3>. QED BY <1>3, <3>1, <3>2
  <2>3. g[StartAddr].blockSize = 0 /\ g[end] = Block(NULL, 0)
    BY <1>1, <1>4, <1>7 DEF Core, Headers
  <2>4. ASSUME NEW c \in Cells(g, end)
        PROVE  /\ g[c].blockSize < 2 * BLOCK_ALLOCATED_BIT
               /\ c \notin Freed(g, end) => g[c].next = NULL
    <3>1. CASE c = x
      BY <3>1, <1>5, <1>6, <1>9
    <3>2. CASE c # x
      <4>1. c \in DOMAIN h \ {x} /\ c \in Cells(h, end)
        BY <3>2, <1>3, <2>4 DEF Cells
      <4>2. g[c].blockSize < 2 * BLOCK_ALLOCATED_BIT
        BY <1>7, <4>1 DEF Core, Headers
      <4>3. c \notin Freed(h, end) => g[c].next = NULL /\ c # it
        BY <1>1, <1>4, <4>1 DEF Core, Headers, Listed, Cells
      <4>. QED BY <3>2, <4>2, <4>3, <1>9
    <3>. QED BY <3>1, <3>2
  <2>. QED BY <1>3, <2>2, <2>3, <2>4 DEF Core, Headers
<1>11. Linked(g, Listed(g, end), end)
  <2>1. F \cup {x} = Listed(g, end)
    BY <1>9 DEF Listed
  <2>2. SameLinks(h, g, F \ {it})
    BY <1>1, <1>4 DEF SameLinks
  <2>3. F \subseteq DOMAIN g /\ x \in DOMAIN g
    BY <1>1, <1>3
  <2>4. x # NULL
    BY <1>1 DEF Core, Tiling, Area, Sizes, NULL
  <2>5. Linked(g, F \cup {x}, end)
    BY <1>1, <1>6, <1>7, <2>2, <2>3, <2>4, LinkedInsert
  <2>. QED BY <2>1, <2>5
<1>12. total + n = SumFunctionOnSet(s, Freed(h, end) \cup {x})
  <2>1. \A c \in Freed(h, end) : s[c] \in Nat
    BY SizesOf DEF Freed
  <2>2. IsFiniteSet(Freed(h, end))
    BY ListedFacts
  <2>3. SumFunctionOnSet(s, Freed(h, end) \cup {x}) = total + s[x]
    BY <1>5, <2>1, <2>2, SumAdds DEF Core
  <2>. HIDE DEF s
  <2>. QED BY <1>5, <2>3
<1>13. Core(g, first, end, total + n)
  BY <1>8, <1>9, <1>10, <1>11, <1>12 DEF Core, Listed
<1>. QED BY <1>3, <1>8, <1>9, <1>13 DEF g, n

(* Joining two blocks of the sum leaves it as it is.                          *)
LEMMA SumJoined ==
  ASSUME NEW s, NEW E, IsFiniteSet(E), \A c \in E : s[c] \in Nat,
         NEW a \in E, NEW b \in E, a # b,
         NEW t, t[a] = s[a] + s[b], \A c \in E \ {a, b} : t[c] = s[c]
  PROVE  SumFunctionOnSet(s, E) = SumFunctionOnSet(t, E \ {b})
<1>. DEFINE D == E \ {a}
            R == E \ {a, b}
<1>1. IsFiniteSet(E) /\ IsFiniteSet(D) /\ IsFiniteSet(R)
  BY FS_Subset
<1>2. b \in D /\ (\A c \in D : s[c] \in Nat) /\ D \ {b} = R /\ R \cup {a} = E \ {b} /\ a \notin R
  OBVIOUS
<1>3. (\A c \in R : t[c] = s[c]) /\ (\A c \in R : t[c] \in Nat) /\ (\A c \in R : s[c] \in Nat)
      /\ t[a] \in Nat
  OBVIOUS
<1>4. SumFunctionOnSet(s, E) = s[a] + SumFunctionOnSet(s, D)
  BY SumWithout
<1>. HIDE DEF D, R
<1>5. SumFunctionOnSet(s, D) = s[b] + SumFunctionOnSet(s, D \ {b})
  BY <1>1, <1>2, SumWithout
<1>6. SumFunctionOnSet(s, R) \in Nat
  BY <1>1, <1>3, SumTakesAny
<1>7. SumFunctionOnSet(t, R) = SumFunctionOnSet(s, R)
  BY <1>1, <1>3, SumSame
<1>8. SumFunctionOnSet(t, R \cup {a}) = SumFunctionOnSet(t, R) + t[a]
  BY <1>1, <1>2, <1>3, SumAdds
<1>9. s[a] \in Nat /\ s[b] \in Nat
  OBVIOUS
<1>10. SumFunctionOnSet(t, E \ {b}) = SumFunctionOnSet(s, R) + (s[a] + s[b])
  BY <1>2, <1>7, <1>8
<1>11. SumFunctionOnSet(s, E) = s[a] + (s[b] + SumFunctionOnSet(s, R))
  BY <1>2, <1>4, <1>5
<1>. QED BY <1>6, <1>9, <1>10, <1>11

(* Joining two free neighbours keeps the invariant.                           *)
LEMMA JoinedCore ==
  ASSUME NEW h, NEW first, NEW end, NEW total, Core(h, first, end, total),
         NEW a \in Freed(h, end), NEW b \in Freed(h, end), b = a + Sizes(h, end)[a]
  PROVE  /\ Core(Joined(h, a, b), first, end, total)
         /\ Cells(Joined(h, a, b), end) = Cells(h, end) \ {b}
         /\ Sizes(Joined(h, a, b), end) = JoinedSizes(Sizes(h, end), a, b)
         /\ Freed(Joined(h, a, b), end) = Freed(h, end) \ {b}
<1>. DEFINE g == Joined(h, a, b)
            s == Sizes(h, end)
            t == JoinedSizes(s, a, b)
            F == Listed(h, end)
<1>. USE PoolAssumption DEF PoolAssumption
<1>1. /\ a \in Cells(h, end) /\ b \in Cells(h, end) /\ a \in DOMAIN h /\ b \in DOMAIN h
      /\ a # end /\ a # StartAddr /\ b # end /\ b # StartAddr
      /\ Linked(h, F, end) /\ a \in F \ {end} /\ b \in F /\ F \subseteq DOMAIN h
  BY ListedFacts DEF Freed, Cells, Listed
<1>2. /\ a \in Int /\ b \in Int /\ s[a] \in Nat /\ s[b] \in Nat /\ s[a] > 0
      /\ h[a].blockSize = s[a] /\ h[b].blockSize = s[b]
      /\ b + s[b] <= end /\ DOMAIN s = Cells(h, end) /\ end \in Int
      /\ Tiling(s, first, end)
  <2>1. s[a] \in Nat /\ s[a] >= HEAP_STRUCT_SIZE
    BY <1>1 DEF Core, Tiling, Sizes
  <2>2. s[a] > 0
    BY <2>1, HeapSize
  <2>3. DOMAIN s = Cells(h, end) /\ Tiling(s, first, end)
    BY DEF Core, Sizes
  <2>. HIDE DEF s
  <2>4. /\ a \in Int /\ b \in Int /\ s[a] \in Nat /\ s[b] \in Nat /\ b + s[b] <= end
        /\ h[a].blockSize = s[a] /\ h[b].blockSize = s[b]
    BY <1>1, SizesOf DEF s
  <2>. QED BY <2>2, <2>3, <2>4, ListedFacts
<1>3. a < b /\ a # b
  BY <1>2
<1>4. h[a].next = b
  <2>1. a < h[a].next /\ h[a].next \in F /\ h[a].next <= b
    BY <1>1, <1>2, <1>3 DEF Linked
  <2>2. h[a].next # StartAddr
    BY <1>1, <2>1, <1>2 DEF Linked
  <2>3. h[a].next \in Cells(h, end) \cup {end} /\ h[a].next \in Int
    BY <1>1, <2>1, <2>2, ListedFacts DEF Listed
  <2>4. h[a].next <= a \/ b <= h[a].next
    BY <1>1, <1>2, <2>3 DEF Tiling
  <2>. QED BY <1>2, <2>1, <2>3, <2>4
<1>5. DOMAIN g = DOMAIN h \ {b} /\ Cells(g, end) = Cells(h, end) \ {b}
  BY DEF Joined, Cells
<1>6. /\ g[a] = Block(h[b].next, s[a] + s[b])
      /\ \A c \in DOMAIN h \ {a, b} : g[c] = h[c]
  BY <1>1, <1>2, <1>3 DEF Joined
<1>. HIDE DEF g
<1>7. /\ g[a].next = h[b].next /\ g[a].blockSize = s[a] + s[b]
      /\ \A c \in DOMAIN h \ {a, b} : g[c].blockSize = h[c].blockSize
  BY <1>6, BlockRecord
<1>8. s[a] + s[b] \in Nat /\ s[a] + s[b] < BLOCK_ALLOCATED_BIT
  <2>1. first <= a /\ first \in Int
    BY <1>1, <1>2, ListedFacts DEF Tiling
  <2>2. end - first < BLOCK_ALLOCATED_BIT
    BY DEF Core, Area
  <2>3. b = a + s[a]
    OBVIOUS
  <2>. HIDE DEF s
  <2>. QED BY <1>2, <2>1, <2>2, <2>3
<1>9. Sizes(g, end) = t
  <2>1. ASSUME NEW c \in Cells(h, end) \ {b}
        PROVE  g[c].blockSize % BLOCK_ALLOCATED_BIT = IF c = a THEN s[a] + s[b] ELSE s[c]
    <3>1. CASE c = a
      BY <3>1, <1>7, <1>8, SizeAndMark
    <3>2. CASE c # a
      BY <3>2, <1>7 DEF Cells, Sizes
    <3>. QED BY <3>1, <3>2
  <2>. QED BY <1>2, <1>5, <2>1 DEF Sizes, JoinedSizes
<1>10. Freed(g, end) = Freed(h, end) \ {b}
  <2>1. \A c \in Cells(h, end) \ {b} : c \in DOMAIN h
    BY DEF Cells
  <2>2. \A c \in Cells(h, end) \ {b} :
          g[c].blockSize < BLOCK_ALLOCATED_BIT <=> h[c].blockSize < BLOCK_ALLOCATED_BIT
    BY <1>7, <1>8, <2>1 DEF Freed
  <2>. QED BY <1>5, <2>2 DEF Freed
<1>11. Headers(g, end)
  <2>1. \A c \in DOMAIN h : h[c].next \in Int /\ h[c].blockSize \in Nat
    BY ListedFacts
  <2>2. g \in [DOMAIN g -> [next : Int, blockSize : Nat]]
    <3>1. ASSUME NEW c \in DOMAIN g PROVE g[c] \in [next : Int, blockSize : Nat]
      <4>1. CASE c = a
        BY <4>1, <1>1, <1>6, <1>8, <2>1, BlockRecord
      <4>2. CASE c # a
        BY <4>2, <1>5, <1>6 DEF Core, Headers
      <4>. QED BY <4>1, <4>2
    <3>2. g = [c \in DOMAIN g |-> g[c]]
      BY DEF g, Joined
    <3>. QED BY <3>1, <3>2
  <2>3. g[StartAddr].blockSize = 0 /\ g[end] = Block(NULL, 0)
    BY <1>1, <1>6, <1>7 DEF Core, Headers
  <2>4. ASSUME NEW c \in Cells(g, end)
        PROVE  /\ g[c].blockSize < 2 * BLOCK_ALLOCATED_BIT
               /\ c \notin Freed(g, end) => g[c].next = NULL
    <3>1. CASE c = a
      BY <3>1, <1>1, <1>3, <1>7, <1>8, <1>10
    <3>2. CASE c # a
      <4>1. c \in DOMAIN h \ {a, b} /\ c \in Cells(h, end)
        BY <3>2, <1>5, <2>4 DEF Cells
      <4>. QED BY <4>1, <1>6, <1>10 DEF Core, Headers
    <3>. QED BY <3>1, <3>2
  <2>5. IsFiniteSet(DOMAIN g)
    BY <1>5, FS_Subset DEF Core, Headers
  <2>. QED BY <1>1, <1>5, <2>2, <2>3, <2>4, <2>5 DEF Core, Headers
<1>12. Linked(g, Listed(g, end), end)
  <2>1. F \ {b} = Listed(g, end)
    BY <1>1, <1>10 DEF Listed
  <2>2. SameLinks(h, g, F \ {a, b})
    BY <1>1, <1>6 DEF SameLinks
  <2>3. F \ {b} \subseteq DOMAIN g
    BY <1>1, <1>5
  <2>4. Linked(g, F \ {b}, end)
    BY <1>1, <1>4, <1>7, <2>2, <2>3, LinkedRemove
  <2>. QED BY <2>1, <2>4
<1>13. Tiling(t, first, end)
  <2>. HIDE DEF s
  <2>. QED BY <1>1, <1>2, TilingJoin DEF s
<1>14. total = SumFunctionOnSet(t, Freed(h, end) \ {b})
  <2>1. \A c \in Freed(h, end) : s[c] \in Nat
    BY SizesOf DEF Freed
  <2>2. t[a] = s[a] + s[b] /\ \A c \in Freed(h, end) \ {a, b} : t[c] = s[c]
    BY <1>1, <1>2, <1>3, ListedFacts DEF JoinedSizes
  <2>3. total = SumFunctionOnSet(s, Freed(h, end)) /\ IsFiniteSet(Freed(h, end))
    BY ListedFacts DEF Core
  <2>. HIDE DEF s, t
  <2>. QED BY ONLY a \in Freed(h, end), b \in Freed(h, end), <1>3, <2>1, <2>2, <2>3, SumJoined
<1>15. Core(g, first, end, total)
  BY <1>9, <1>10, <1>11, <1>12, <1>13, <1>14 DEF Core, Listed
<1>. QED BY <1>5, <1>9, <1>10, <1>15 DEF g

(* Cutting a free block in two keeps the invariant.                           *)
LEMMA CutCore ==
  ASSUME NEW h, NEW first, NEW end, NEW total, Core(h, first, end, total),
         NEW a \in Freed(h, end), NEW n \in Nat, n >= HEAP_STRUCT_SIZE, n % Align = 0,
         Sizes(h, end)[a] - n >= HEAP_STRUCT_SIZE
  PROVE  /\ Core(Cut(h, a, n), first, end, total)
         /\ Cells(Cut(h, a, n), end) = Cells(h, end) \cup {a + n}
         /\ Sizes(Cut(h, a, n), end) = CutSizes(Sizes(h, end), a, n)
         /\ Freed(Cut(h, a, n), end) = Freed(h, end) \cup {a + n}
         /\ a + n \notin DOMAIN h /\ a + n \in Int /\ a < a + n
<1>. DEFINE g == Cut(h, a, n)
            y == a + n
            s == Sizes(h, end)
            t == CutSizes(s, a, n)
            F == Listed(h, end)
<1>. USE PoolAssumption DEF PoolAssumption
<1>1. /\ a \in Cells(h, end) /\ a \in DOMAIN h /\ a # end /\ a # StartAddr
      /\ Linked(h, F, end) /\ a \in F \ {end} /\ F \subseteq DOMAIN h
      /\ end \in Int /\ first \in Int
  BY ListedFacts DEF Freed, Cells, Listed
<1>2. /\ a \in Int /\ s[a] \in Nat /\ h[a].blockSize = s[a] /\ s[a] < BLOCK_ALLOCATED_BIT
      /\ DOMAIN s = Cells(h, end) /\ Tiling(s, first, end) /\ a + s[a] <= end
      /\ s[a] - n >= HEAP_STRUCT_SIZE
  <2>1. DOMAIN s = Cells(h, end) /\ Tiling(s, first, end) /\ s[a] - n >= HEAP_STRUCT_SIZE
    BY DEF Core, Sizes
  <2>. HIDE DEF s
  <2>2. /\ a \in Int /\ s[a] \in Nat /\ a + s[a] <= end
        /\ h[a].blockSize = s[a] /\ s[a] < BLOCK_ALLOCATED_BIT
    BY <1>1, SizesOf DEF s
  <2>. QED BY <2>1, <2>2
<1>. HIDE DEF s
<1>3. Tiling(t, first, end) /\ y \notin DOMAIN s
  BY <1>1, <1>2, TilingCut
<1>4. HEAP_STRUCT_SIZE \in Nat /\ HEAP_STRUCT_SIZE > 0
  BY HeapSize
<1>5. y \in Int /\ a < y /\ y < a + s[a] /\ n < BLOCK_ALLOCATED_BIT /\ s[a] - n \in Nat
      /\ s[a] - n < BLOCK_ALLOCATED_BIT
  BY <1>2, <1>4
<1>6. y # end /\ y # StartAddr /\ y # NULL
  <2>1. first <= a
    BY <1>1, <1>2 DEF Tiling
  <2>2. 0 < first
    BY DEF Core, Area
  <2>. QED BY <1>1, <1>2, <1>5, <2>1, <2>2 DEF StartAddr, NULL
<1>7. y \notin DOMAIN h
  BY <1>2, <1>3, <1>6 DEF Cells
<1>. HIDE DEF y, t
<1>8. DOMAIN g = DOMAIN h \cup {y} /\ Cells(g, end) = Cells(h, end) \cup {y}
  BY <1>6 DEF Cut, Cells, y
<1>9. /\ g[a] = Block(y, n) /\ g[y] = Block(h[a].next, s[a] - n)
      /\ \A c \in DOMAIN h \ {a} : g[c] = h[c]
  BY <1>1, <1>2, <1>5, <1>7 DEF Cut, y
<1>. HIDE DEF g
<1>10. /\ g[a].next = y /\ g[a].blockSize = n
       /\ g[y].next = h[a].next /\ g[y].blockSize = s[a] - n
  BY <1>9, BlockRecord
<1>11. Sizes(g, end) = t
  <2>1. n % BLOCK_ALLOCATED_BIT = n /\ (s[a] - n) % BLOCK_ALLOCATED_BIT = s[a] - n
    BY <1>5, SizeAndMark
  <2>2. ASSUME NEW c \in Cells(h, end) \cup {y}
        PROVE  g[c].blockSize % BLOCK_ALLOCATED_BIT
                 = IF c = a THEN n ELSE IF c = y THEN s[a] - n ELSE s[c]
    <3>1. CASE c = a \/ c = y
      BY <3>1, <1>5, <1>10, <2>1
    <3>2. CASE c # a /\ c # y
      BY <3>2, <1>9 DEF Cells, Sizes, s
    <3>. QED BY <3>1, <3>2
  <2>. QED BY <1>2, <1>8, <2>2 DEF Sizes, CutSizes, t, y
<1>12. Freed(g, end) = Freed(h, end) \cup {y}
  <2>1. \A c \in Cells(h, end) \ {a} : c \in DOMAIN h \ {a} /\ c # y
    BY <1>7 DEF Cells
  <2>2. \A c \in Cells(h, end) \ {a} : g[c].blockSize = h[c].blockSize
    BY <1>9, <2>1
  <2>3. g[a].blockSize < BLOCK_ALLOCATED_BIT /\ g[y].blockSize < BLOCK_ALLOCATED_BIT
    BY <1>5, <1>10
  <2>. QED BY <1>1, <1>8, <2>2, <2>3 DEF Freed
<1>13. Headers(g, end)
  <2>1. \A c \in DOMAIN h : h[c].next \in Int /\ h[c].blockSize \in Nat
    BY ListedFacts
  <2>2. g \in [DOMAIN g -> [next : Int, blockSize : Nat]]
    <3>1. ASSUME NEW c \in DOMAIN g PROVE g[c] \in [next : Int, blockSize : Nat]
      <4>1. CASE c = a
        BY <4>1, <1>5, <1>9, BlockRecord
      <4>2. CASE c = y
        BY <4>2, <1>1, <1>5, <1>9, <2>1, BlockRecord
      <4>3. CASE c # a /\ c # y
        BY <4>3, <1>8, <1>9 DEF Core, Headers
      <4>. QED BY <4>1, <4>2, <4>3
    <3>2. g = [c \in DOMAIN g |-> g[c]]
      BY DEF g, Cut
    <3>. QED BY <3>1, <3>2
  <2>3. g[StartAddr].blockSize = 0 /\ g[end] = Block(NULL, 0)
    BY <1>1, <1>9 DEF Core, Headers
  <2>4. ASSUME NEW c \in Cells(g, end)
        PROVE  /\ g[c].blockSize < 2 * BLOCK_ALLOCATED_BIT
               /\ c \notin Freed(g, end) => g[c].next = NULL
    <3>1. CASE c = a \/ c = y
      BY <3>1, <1>1, <1>5, <1>10, <1>12
    <3>2. CASE c # a /\ c # y
      <4>1. c \in DOMAIN h \ {a} /\ c \in Cells(h, end)
        BY <3>2, <1>8, <2>4 DEF Cells
      <4>. QED BY <4>1, <1>9, <1>12 DEF Core, Headers
    <3>. QED BY <3>1, <3>2
  <2>5. IsFiniteSet(DOMAIN g)
    BY <1>8, FS_AddElement DEF Core, Headers
  <2>6. StartAddr \in DOMAIN g /\ end \in DOMAIN g
    BY <1>8 DEF Core, Headers
  <2>. QED BY <2>2, <2>3, <2>4, <2>5, <2>6 DEF Headers
<1>14. Linked(g, Listed(g, end), end)
  <2>1. F \cup {y} = Listed(g, end)
    BY <1>12 DEF Listed
  <2>2. SameLinks(h, g, F \ {a})
    BY <1>1, <1>9 DEF SameLinks
  <2>3. F \subseteq DOMAIN g /\ y \in DOMAIN g
    BY <1>1, <1>8
  <2>4. y < h[a].next
    <3>1. a < h[a].next /\ h[a].next \in F /\ F \subseteq Int /\ StartAddr <= a
      BY <1>1 DEF Linked
    <3>2. h[a].next # StartAddr
      BY <1>2, <3>1 DEF StartAddr
    <3>3. h[a].next \in Cells(h, end) \cup {end}
      BY <3>1, <3>2, ListedFacts DEF Listed
    <3>4. h[a].next <= a \/ a + s[a] <= h[a].next
      BY <1>1, <1>2, <3>3 DEF Tiling
    <3>5. h[a].next \in Int
      BY <3>1
    <3>. QED BY <1>2, <1>5, <3>1, <3>4, <3>5
  <2>5. Linked(g, F \cup {y}, end)
    BY <1>1, <1>5, <1>6, <1>10, <2>2, <2>3, <2>4, LinkedInsert
  <2>. QED BY <2>1, <2>5
<1>15. total = SumFunctionOnSet(t, Freed(h, end) \cup {y})
  <2>. DEFINE E == Freed(h, end) \cup {y}
  <2>1. \A c \in Freed(h, end) : s[c] \in Nat
    BY SizesOf DEF Freed, s
  <2>2. t[a] = n /\ t[y] = s[a] - n /\ \A c \in Freed(h, end) \ {a} : t[c] = s[c]
    <3>1. \A c \in Freed(h, end) : c \in DOMAIN s /\ c # y
      BY <1>2, <1>3, ListedFacts
    <3>. QED BY <1>1, <1>2, <1>5, <3>1 DEF CutSizes, t, y
  <2>3. total = SumFunctionOnSet(s, Freed(h, end)) /\ IsFiniteSet(Freed(h, end)) /\ y \notin Freed(h, end)
    BY <1>2, <1>3, ListedFacts DEF Core, s
  <2>4. IsFiniteSet(E) /\ E \ {y} = Freed(h, end) /\ a \in E /\ y \in E /\ a # y
    BY <1>5, <2>3, FS_AddElement
  <2>5. \A c \in E : t[c] \in Nat
    BY <1>5, <2>1, <2>2
  <2>6. s[a] = t[a] + t[y] /\ \A c \in E \ {a, y} : s[c] = t[c]
    BY <1>2, <1>5, <2>2
  <2>. HIDE DEF E
  <2>7. SumFunctionOnSet(t, E) = SumFunctionOnSet(s, E \ {y})
    BY ONLY <2>4, <2>5, <2>6, SumJoined
  <2>. QED BY <2>3, <2>4, <2>7 DEF E
<1>16. Core(g, first, end, total)
  BY <1>3, <1>11, <1>12, <1>13, <1>14, <1>15 DEF Core, Listed
<1>. QED BY <1>5, <1>7, <1>8, <1>11, <1>12, <1>16 DEF g, s, t, y

-----------------------------------------------------------------------------
(* Where a block is put, and what insertBlockIntoFreeList makes of it.        *)

(* The block of the free list after which x belongs.                          *)
Before(h, x) ==
  LET chain == FreeChain(h) IN chain[SelectInSeq(chain, LAMBDA a : h[a].next >= x)]

(* A block belongs after the last one of the list that lies before it.        *)
LEMMA BeforePlace ==
  ASSUME NEW h, IsFiniteSet(DOMAIN h), NEW F, NEW end, Linked(h, F, end),
         NEW x \in Int, x \notin F, StartAddr < x, x < end
  PROVE  /\ Before(h, x) \in F \ {end} /\ Before(h, x) < x /\ x < h[Before(h, x)].next
         /\ h[Before(h, x)].next \in F
<1>. DEFINE c == FreeChain(h)
            Behind == {i \in 1 .. Len(c) : h[c[i]].next >= x}
            m == Min(Behind)
<1>1. WholeChain(h, F, end, c)
  BY FreeChainWhole
<1>. HIDE DEF c
<1>2. /\ c \in Seq(F) /\ Len(c) \in Nat \ {0, 1} /\ c[1] = StartAddr /\ c[Len(c)] = end
      /\ \A i \in 1 .. Len(c) - 1 : c[i] # end /\ c[i + 1] = h[c[i]].next
      /\ F \subseteq Int /\ h[end].next = NULL /\ end \in F
  BY <1>1 DEF WholeChain, ChainTo, Linked
<1>3. Len(c) - 1 \in Behind
  <2>1. Len(c) - 1 \in 1 .. Len(c) - 1 /\ (Len(c) - 1) + 1 = Len(c) /\ Len(c) - 1 \in 1 .. Len(c)
    BY <1>2
  <2>2. h[c[Len(c) - 1]].next = end
    BY <1>2, <2>1
  <2>. QED BY <1>2, <2>1, <2>2
<1>4. m \in Behind /\ \A j \in Behind : m <= j
  BY <1>2, <1>3, MinOf, Behind \in SUBSET Nat
<1>5. Before(h, x) = c[m]
  <2>1. Before(h, x) = c[SelectInSeq(c, LAMBDA a : h[a].next >= x)]
    BY DEF Before, c
  <2>2. SelectInSeq(c, LAMBDA a : h[a].next >= x) = IF Behind # {} THEN Min(Behind) ELSE 0
    BY DEF SelectInSeq
  <2>. QED BY <1>3, <2>1, <2>2
<1>. HIDE DEF m
<1>6. m \in 1 .. Len(c) - 1 /\ m \in Nat
  BY <1>2, <1>3, <1>4
<1>7. c[m] \in F \ {end} /\ h[c[m]].next >= x
  BY <1>2, <1>4, <1>6
<1>8. h[c[m]].next \in F /\ h[c[m]].next # x /\ h[c[m]].next \in Int
  BY <1>2, <1>7 DEF Linked
<1>9. c[m] < x
  <2>1. CASE m = 1
    BY <2>1, <1>2
  <2>2. CASE m > 1
    <3>1. m - 1 \in 1 .. Len(c) - 1 /\ m - 1 \in 1 .. Len(c) /\ (m - 1) + 1 = m /\ m - 1 \notin Behind
      BY <1>2, <1>4, <1>6, <2>2
    <3>2. c[m] = h[c[m - 1]].next /\ ~(h[c[m - 1]].next >= x)
      BY <1>2, <3>1
    <3>3. c[m] \in Int /\ ~(c[m] >= x)
      BY <1>2, <1>7, <3>2
    <3>. QED BY <3>3
  <2>. QED BY <1>6, <2>1, <2>2
<1>. QED BY <1>5, <1>7, <1>8, <1>9

(* The list with x put in after it and joined with its neighbours.            *)
JoinsLeft(k, x, it) == it + k[it].blockSize = x
PlacedAt(k, x, it) == IF JoinsLeft(k, x, it) THEN it ELSE x
PlacedSize(k, x, it) == k[x].blockSize + IF JoinsLeft(k, x, it) THEN k[it].blockSize ELSE 0
JoinsRight(k, end, x, it) ==
  PlacedAt(k, x, it) + PlacedSize(k, x, it) = k[it].next /\ k[it].next # end
PlacedBlock(k, end, x, it) ==
  Block(IF JoinsRight(k, end, x, it) THEN k[k[it].next].next ELSE k[it].next,
        IF JoinsRight(k, end, x, it) THEN PlacedSize(k, x, it) + k[k[it].next].blockSize
        ELSE PlacedSize(k, x, it))
MergedAway(k, end, x, it) ==
  (IF JoinsLeft(k, x, it) THEN {x} ELSE {}) \cup (IF JoinsRight(k, end, x, it) THEN {k[it].next} ELSE {})

Placed(k, end, x, it) ==
  [c \in DOMAIN k \ MergedAway(k, end, x, it) |->
     IF c = PlacedAt(k, x, it) THEN PlacedBlock(k, end, x, it)
     ELSE IF c = it THEN Block(PlacedAt(k, x, it), k[it].blockSize) ELSE k[c]]

(* What insertBlockIntoFreeList leaves, written as a function on the headers. *)
LEMMA InsertForm ==
  ASSUME NEW k, k \in [DOMAIN k -> [next : Int, blockSize : Nat]], NEW x \in DOMAIN k, NEW end,
         Before(k, x) \in DOMAIN k
  PROVE  insertBlockIntoFreeList(k, end, x) = Placed(k, end, x, Before(k, x))
<1>. DEFINE it == Before(k, x)
            p == PlacedAt(k, x, it)
            merged == PlacedBlock(k, end, x, it)
            linked == [k EXCEPT ![it].next = p, ![p] = merged]
            gone == MergedAway(k, end, x, it)
<1>1. insertBlockIntoFreeList(k, end, x) = Restrict(linked, DOMAIN linked \ gone)
  BY DEF insertBlockIntoFreeList, Before, PlacedAt, PlacedSize, PlacedBlock, MergedAway, JoinsLeft, JoinsRight
<1>2. p \in DOMAIN k /\ it \in DOMAIN k
  BY DEF PlacedAt
<1>. HIDE DEF it, p, merged, gone
<1>3. DOMAIN linked = DOMAIN k
  OBVIOUS
<1>4. ASSUME NEW c \in DOMAIN k
      PROVE  linked[c] = IF c = p THEN merged ELSE IF c = it THEN Block(p, k[it].blockSize) ELSE k[c]
  <2>1. CASE c = p
    BY <1>2, <2>1
  <2>2. CASE c # p /\ c = it
    <3>1. linked[c] = [k[it] EXCEPT !.next = p]
      BY <1>2, <2>2
    <3>2. k[it] \in [next : Int, blockSize : Nat]
      BY <1>2
    <3>. QED BY <2>2, <3>1, <3>2 DEF Block
  <2>3. CASE c # p /\ c # it
    BY <1>2, <2>3
  <2>. QED BY <2>1, <2>2, <2>3
<1>5. Restrict(linked, DOMAIN linked \ gone) = [c \in DOMAIN k \ gone |-> linked[c]]
  BY <1>3 DEF Restrict
<1>. HIDE DEF linked
<1>. QED BY <1>1, <1>4, <1>5 DEF Placed, it, p, merged, gone

-----------------------------------------------------------------------------
(* free(): the block goes back to the list.                                   *)

Used(h, end) == Cells(h, end) \ Freed(h, end)

(* No two free blocks are neighbours.                                         *)
NoAdjacent(h, end) == \A a \in Freed(h, end) : a + Sizes(h, end)[a] \notin Freed(h, end)

(* Blocks in use stay as they are.                                            *)
UsedKept(h, g, end, U) == Used(g, end) = U /\ \A a \in U : Sizes(g, end)[a] = Sizes(h, end)[a]

(* Every block of the list is a free one, or one of the ends.                 *)
LEMMA ListedBetween ==
  ASSUME NEW h, NEW first, NEW end, NEW total, Core(h, first, end, total),
         NEW it \in Listed(h, end) \ {end}
  PROVE  /\ it \in Int /\ h[it].next \in Int /\ it < h[it].next
         /\ h[it].next \in Freed(h, end) \cup {end}
         /\ \A c \in Freed(h, end) : c <= it \/ h[it].next <= c
         /\ it # StartAddr => it \in Freed(h, end)
<1>1. Linked(h, Listed(h, end), end)
  BY ListedFacts
<1>2. /\ h[it].next \in Listed(h, end) /\ it < h[it].next /\ Listed(h, end) \subseteq Int
      /\ StartAddr <= it /\ \A c \in Listed(h, end) : c <= it \/ h[it].next <= c
  BY <1>1 DEF Linked
<1>3. it \in Int /\ h[it].next \in Int
  BY <1>2
<1>4. h[it].next # StartAddr
  BY <1>2, <1>3 DEF StartAddr
<1>. QED BY <1>2, <1>3, <1>4 DEF Listed

(* free() puts a block in use back and joins it with its free neighbours.     *)
LEMMA FreeKeeps ==
  ASSUME NEW h, NEW first, NEW end, NEW total, Core(h, first, end, total), NoAdjacent(h, end),
         NEW x \in Used(h, end),
         NEW n, n = h[x].blockSize - BLOCK_ALLOCATED_BIT,
         NEW k, k = [h EXCEPT ![x].blockSize = n],
         NEW g, g = insertBlockIntoFreeList(k, end, x)
  PROVE  /\ Core(g, first, end, total + n) /\ NoAdjacent(g, end)
         /\ UsedKept(h, g, end, Used(h, end) \ {x})
<1>. DEFINE s == Sizes(h, end)
            F == Listed(h, end)
            it == Before(k, x)
            b == h[it].next
            r == Released(h, it, x)
<1>. USE PoolAssumption DEF PoolAssumption
<1>1. /\ x \in Cells(h, end) /\ x \notin Freed(h, end) /\ x \in DOMAIN h /\ x # end /\ x # StartAddr
      /\ x \notin F /\ Linked(h, F, end) /\ F \subseteq DOMAIN h /\ end \in Int /\ first \in Int
      /\ end \in DOMAIN h
  BY ListedFacts DEF Used, Cells, Freed, Listed, Core, Headers
<1>2. /\ x \in Int /\ s[x] \in Nat /\ n = s[x] /\ n < BLOCK_ALLOCATED_BIT /\ x + n <= end
      /\ n > 0 /\ first <= x /\ x < end /\ 0 < first
  <2>1. /\ x \in Int /\ first <= x /\ x < end /\ s[x] \in Nat /\ s[x] >= HEAP_STRUCT_SIZE
    BY <1>1 DEF Core, Tiling, Sizes
  <2>2. HEAP_STRUCT_SIZE \in Nat /\ HEAP_STRUCT_SIZE > 0 /\ 0 < first
    BY HeapSize DEF Core, Area
  <2>. HIDE DEF s
  <2>3. h[x].blockSize = s[x] + BLOCK_ALLOCATED_BIT /\ s[x] < BLOCK_ALLOCATED_BIT /\ x + s[x] <= end
    BY <1>1, SizesOf DEF s
  <2>. QED BY <2>1, <2>2, <2>3
<1>3. k = [c \in DOMAIN h |-> IF c = x THEN Block(h[x].next, n) ELSE h[c]]
  <2>1. h[x] \in [next : Int, blockSize : Nat] /\ h = [c \in DOMAIN h |-> h[c]]
    BY <1>1 DEF Core, Headers
  <2>2. [h[x] EXCEPT !.blockSize = n] = Block(h[x].next, n)
    BY <2>1 DEF Block
  <2>3. /\ DOMAIN k = DOMAIN h
        /\ \A c \in DOMAIN h : k[c] = IF c = x THEN [h[x] EXCEPT !.blockSize = n] ELSE h[c]
    BY <1>1
  <2>. QED BY <2>2, <2>3
<1>4. k[x] = Block(h[x].next, n) /\ DOMAIN k = DOMAIN h /\ \A c \in DOMAIN h \ {x} : k[c] = h[c]
  BY <1>1, <1>3
<1>5. k \in [DOMAIN k -> [next : Int, blockSize : Nat]]
  <2>1. Block(h[x].next, n) \in [next : Int, blockSize : Nat]
    BY <1>1, <1>2, ListedFacts, BlockRecord
  <2>2. \A c \in DOMAIN h : k[c] \in [next : Int, blockSize : Nat]
    BY <1>4, <2>1 DEF Core, Headers
  <2>. QED BY <1>3, <1>4, <2>2
<1>. HIDE DEF it, s
<1>6. Linked(k, F, end) /\ IsFiniteSet(DOMAIN k)
  <2>1. \A a \in F : k[a] = h[a]
    BY <1>1, <1>4
  <2>2. end \in F
    BY DEF Listed
  <2>. QED BY <1>1, <1>4, <2>1, <2>2 DEF Linked, Core, Headers
<1>7. /\ it \in F \ {end} /\ it < x /\ x < b /\ b \in F
      /\ k[it] = h[it] /\ it \in DOMAIN h /\ k[b] = h[b] /\ b \in DOMAIN h
  <2>1. StartAddr < x
    BY <1>1, <1>2 DEF StartAddr
  <2>2. it \in F \ {end} /\ it < x /\ x < k[it].next /\ k[it].next \in F
    <3>1. x \in Int /\ x \notin F /\ x < end
      BY <1>1, <1>2
    <3>. HIDE DEF F
    <3>2. /\ Before(k, x) \in F \ {end} /\ Before(k, x) < x /\ x < k[Before(k, x)].next
          /\ k[Before(k, x)].next \in F
      BY ONLY <1>6, <2>1, <3>1, BeforePlace
    <3>. QED BY <3>2 DEF it
  <2>. QED BY <1>1, <1>4, <2>2
<1>8. /\ it \in Int /\ b \in Int /\ b \in Freed(h, end) \cup {end}
      /\ \A c \in Freed(h, end) : c <= it \/ b <= c
      /\ it # StartAddr => it \in Freed(h, end)
  BY <1>7, ListedBetween
<1>. HIDE DEF b
<1>9. g = Placed(k, end, x, it)
  BY <1>1, <1>4, <1>5, <1>7, InsertForm DEF it
<1>10. /\ Core(r, first, end, total + n) /\ Cells(r, end) = Cells(h, end)
       /\ Sizes(r, end) = s /\ Freed(r, end) = Freed(h, end) \cup {x}
  BY <1>1, <1>7, ReleasedCore DEF Used, s, b
<1>11. /\ DOMAIN r = DOMAIN h /\ r[x] = Block(b, n) /\ r[it] = Block(x, h[it].blockSize)
       /\ \A c \in DOMAIN h \ {x, it} : r[c] = h[c]
  BY <1>1, <1>7 DEF Released, b
<1>. HIDE DEF r
<1>12. /\ DOMAIN s = Cells(h, end) /\ Tiling(s, first, end) /\ Freed(h, end) \subseteq Cells(h, end)
       /\ \A c \in Freed(h, end) : c \in Int /\ s[c] \in Nat /\ s[c] > 0 /\ h[c].blockSize = s[c]
  <2>1. DOMAIN s = Cells(h, end) /\ Tiling(s, first, end) /\ Freed(h, end) \subseteq Cells(h, end)
    BY ListedFacts DEF Core, Sizes, s
  <2>2. \A c \in Freed(h, end) : c \in Int /\ s[c] \in Nat /\ h[c].blockSize = s[c]
    BY <2>1, SizesOf DEF s
  <2>3. \A c \in Freed(h, end) : s[c] >= HEAP_STRUCT_SIZE
    BY <2>1 DEF Tiling
  <2>. QED BY <2>1, <2>2, <2>3, HeapSize
<1>13. \A c \in Freed(h, end) : c + s[c] \notin Freed(h, end)
  BY DEF NoAdjacent, s
<1>14. x + n \in Freed(h, end) => x + n = b
  <2>1. b <= x \/ x + n <= b
    BY <1>1, <1>2, <1>8, <1>12 DEF Tiling
  <2>2. x + n \in Freed(h, end) => x + n <= it \/ b <= x + n
    BY <1>8
  <2>. QED BY <1>2, <1>7, <1>8, <2>1, <2>2
<1>15. ASSUME NEW c \in Freed(h, end), c + s[c] = x PROVE c = it
  <2>1. c \in Int /\ s[c] > 0 /\ s[c] \in Nat /\ first <= c
    BY <1>12 DEF Tiling
  <2>2. c <= it
    BY <1>2, <1>7, <1>8, <1>15, <2>1
  <2>3. it # StartAddr
    BY <1>1, <1>2, <2>1, <2>2 DEF StartAddr
  <2>4. it <= c \/ c + s[c] <= it
    BY <1>8, <1>12, <2>3 DEF Tiling
  <2>. QED BY <1>2, <1>7, <1>8, <1>15, <2>1, <2>2, <2>4
<1>16. JoinsLeft(k, x, it) => it \in Freed(h, end) /\ it + s[it] = x /\ k[it].blockSize = s[it]
  <2>1. it # StartAddr => k[it].blockSize = s[it] /\ it \in Freed(h, end)
    BY <1>7, <1>8, <1>12
  <2>2. it = StartAddr => k[it].blockSize = 0
    BY <1>7 DEF Core, Headers
  <2>. QED BY <1>2, <2>1, <2>2 DEF JoinsLeft, StartAddr
<1>17. ~JoinsLeft(k, x, it) => \A c \in Freed(h, end) : c + s[c] # x
  BY <1>7, <1>12, <1>15 DEF JoinsLeft
<1>18. k[x].blockSize = n /\ k[it].next = b
  BY <1>4, <1>7, BlockRecord DEF b
<1>19. JoinsRight(k, end, x, it) <=> x + n = b /\ b # end
  <2>1. CASE JoinsLeft(k, x, it)
    BY <2>1, <1>2, <1>8, <1>12, <1>16, <1>18 DEF JoinsRight, PlacedAt, PlacedSize
  <2>2. CASE ~JoinsLeft(k, x, it)
    BY <2>2, <1>2, <1>18 DEF JoinsRight, PlacedAt, PlacedSize
  <2>. QED BY <2>1, <2>2
<1>20. x # it /\ x # b /\ it # b /\ x \notin Freed(h, end) /\ Used(h, end) = Cells(h, end) \ Freed(h, end)
  BY <1>1, <1>2, <1>7, <1>8 DEF Used
<1>21. /\ r[x].next = b /\ r[x].blockSize = n
       /\ r[it].next = x /\ r[it].blockSize = h[it].blockSize
  BY <1>11, BlockRecord
<1>22. CASE ~JoinsLeft(k, x, it) /\ ~JoinsRight(k, end, x, it)
  <2>1. PlacedAt(k, x, it) = x /\ PlacedBlock(k, end, x, it) = Block(b, n) /\ MergedAway(k, end, x, it) = {}
    BY <1>22, <1>2, <1>18 DEF PlacedAt, PlacedBlock, PlacedSize, MergedAway
  <2>2. g = r
    <3>1. g = [c \in DOMAIN h |-> IF c = x THEN Block(b, n)
                                  ELSE IF c = it THEN Block(x, k[it].blockSize) ELSE k[c]]
      BY <1>4, <1>9, <2>1 DEF Placed
    <3>2. r = [c \in DOMAIN h |-> r[c]]
      BY <1>11 DEF r, Released
    <3>3. \A c \in DOMAIN h : r[c] = IF c = x THEN Block(b, n)
                                    ELSE IF c = it THEN Block(x, k[it].blockSize) ELSE k[c]
      BY <1>4, <1>7, <1>11
    <3>. QED BY <3>1, <3>2, <3>3
  <2>3. NoAdjacent(g, end)
    <3>1. x + n # x /\ x + n \notin Freed(h, end)
      <4>1. x + n = b => b = end
        BY <1>19, <1>22
      <4>2. end \notin Freed(h, end)
        BY DEF Freed, Cells
      <4>. QED BY <1>2, <1>14, <4>1, <4>2
    <3>. QED BY <1>2, <1>10, <1>13, <1>17, <1>22, <2>2, <3>1 DEF NoAdjacent
  <2>4. UsedKept(h, g, end, Used(h, end) \ {x})
    BY <1>10, <1>20, <2>2 DEF UsedKept, Used, s
  <2>. QED BY <1>10, <2>2, <2>3, <2>4
<1>23. ASSUME JoinsRight(k, end, x, it)
       PROVE  /\ b \in Freed(h, end) /\ x + n = b /\ k[b].next = h[b].next /\ k[b].blockSize = s[b]
              /\ r[b] = h[b]
              /\ Core(Joined(r, x, b), first, end, total + n)
              /\ Cells(Joined(r, x, b), end) = Cells(h, end) \ {b}
              /\ Sizes(Joined(r, x, b), end) = JoinedSizes(s, x, b)
              /\ Freed(Joined(r, x, b), end) = (Freed(h, end) \cup {x}) \ {b}
  <2>1. b \in Freed(h, end) /\ x + n = b
    BY <1>8, <1>19, <1>23
  <2>2. k[b].next = h[b].next /\ k[b].blockSize = s[b] /\ r[b] = h[b]
    BY <1>7, <1>11, <1>12, <1>20, <2>1
  <2>3. x \in Freed(r, end) /\ b \in Freed(r, end) /\ b = x + Sizes(r, end)[x]
    BY <1>2, <1>10, <2>1
  <2>. QED BY <1>10, <2>1, <2>2, <2>3, JoinedCore, SMTT(30)
<1>24. CASE ~JoinsLeft(k, x, it) /\ JoinsRight(k, end, x, it)
  <2>. DEFINE j == Joined(r, x, b)
  <2>1. /\ PlacedAt(k, x, it) = x /\ PlacedBlock(k, end, x, it) = Block(h[b].next, n + s[b])
        /\ MergedAway(k, end, x, it) = {b}
    BY <1>24, <1>2, <1>18, <1>23 DEF PlacedAt, PlacedBlock, PlacedSize, MergedAway
  <2>2. g = j
    <3>1. g = [c \in DOMAIN h \ {b} |-> IF c = x THEN Block(h[b].next, n + s[b])
                                        ELSE IF c = it THEN Block(x, k[it].blockSize) ELSE k[c]]
      BY <1>4, <1>9, <2>1 DEF Placed
    <3>2. j = [c \in DOMAIN h \ {b} |-> IF c = x THEN Block(h[b].next, n + s[b]) ELSE r[c]]
      BY <1>11, <1>12, <1>21, <1>23, <1>24 DEF Joined
    <3>3. \A c \in DOMAIN h \ {x} : r[c] = IF c = it THEN Block(x, k[it].blockSize) ELSE k[c]
      BY <1>4, <1>7, <1>11
    <3>. QED BY <3>1, <3>2, <3>3
  <2>. HIDE DEF j
  <2>3. /\ b \in Freed(h, end) /\ x + n = b /\ Core(j, first, end, total + n)
        /\ Cells(j, end) = Cells(h, end) \ {b} /\ Sizes(j, end) = JoinedSizes(s, x, b)
        /\ Freed(j, end) = (Freed(h, end) \cup {x}) \ {b}
    BY <1>23, <1>24 DEF j
  <2>4. /\ JoinedSizes(s, x, b)[x] = n + s[b]
        /\ \A c \in Cells(h, end) \ {x, b} : JoinedSizes(s, x, b)[c] = s[c]
    BY <1>1, <1>2, <1>12, <1>20 DEF JoinedSizes
  <2>5. NoAdjacent(g, end)
    <3>1. x + (n + s[b]) \notin Freed(h, end) /\ x + (n + s[b]) # x
      <4>1. b + s[b] \notin Freed(h, end) /\ s[b] \in Nat
        BY <1>12, <1>13, <2>3
      <4>2. x + (n + s[b]) = b + s[b]
        BY <1>2, <2>3, <4>1
      <4>. QED BY <1>2, <4>1, <4>2
    <3>2. ASSUME NEW c \in Freed(j, end) PROVE c + Sizes(j, end)[c] \notin Freed(j, end)
      <4>1. CASE c = x
        BY <4>1, <2>3, <2>4, <3>1
      <4>2. CASE c # x
        <5>1. c \in Freed(h, end) /\ c \in Cells(h, end) \ {x, b}
          BY <4>2, <1>12, <2>3
        <5>2. Sizes(j, end)[c] = s[c] /\ c + s[c] \notin Freed(h, end) /\ c + s[c] # x
          BY <1>13, <1>17, <1>24, <2>3, <2>4, <5>1
        <5>. QED BY <2>3, <5>2
      <4>. QED BY <4>1, <4>2
    <3>. QED BY <2>2, <3>2 DEF NoAdjacent
  <2>6. UsedKept(h, g, end, Used(h, end) \ {x})
    BY <1>20, <2>2, <2>3, <2>4 DEF UsedKept, Used, s
  <2>. QED BY <2>2, <2>3, <2>5, <2>6
<1>25. CASE JoinsLeft(k, x, it) /\ ~JoinsRight(k, end, x, it)
  <2>. DEFINE j == Joined(r, it, x)
  <2>1. /\ it \in Freed(h, end) /\ it + s[it] = x /\ k[it].blockSize = s[it]
        /\ h[it].blockSize = s[it] /\ s[it] \in Nat
    BY <1>12, <1>16, <1>25
  <2>2. /\ PlacedAt(k, x, it) = it /\ PlacedBlock(k, end, x, it) = Block(b, s[it] + n)
        /\ MergedAway(k, end, x, it) = {x}
    <3>1. n + s[it] = s[it] + n
      BY <1>2, <2>1
    <3>. QED BY <1>25, <1>18, <2>1, <3>1 DEF PlacedAt, PlacedBlock, PlacedSize, MergedAway
  <2>3. g = j
    <3>1. g = [c \in DOMAIN h \ {x} |-> IF c = it THEN Block(b, s[it] + n) ELSE k[c]]
      BY <1>4, <1>9, <2>2 DEF Placed
    <3>2. j = [c \in DOMAIN h \ {x} |-> IF c = it THEN Block(b, s[it] + n) ELSE r[c]]
      BY <1>11, <1>21, <2>1 DEF Joined
    <3>3. \A c \in DOMAIN h \ {x, it} : r[c] = k[c]
      BY <1>4, <1>11
    <3>. QED BY <3>1, <3>2, <3>3
  <2>. HIDE DEF j
  <2>4. /\ Core(j, first, end, total + n)
        /\ Cells(j, end) = Cells(h, end) \ {x} /\ Sizes(j, end) = JoinedSizes(s, it, x)
        /\ Freed(j, end) = Freed(h, end)
    <3>1. it \in Freed(r, end) /\ x \in Freed(r, end) /\ x = it + Sizes(r, end)[it]
      BY <1>10, <2>1
    <3>2. /\ Core(j, first, end, total + n)
          /\ Cells(j, end) = Cells(r, end) \ {x} /\ Sizes(j, end) = JoinedSizes(Sizes(r, end), it, x)
          /\ Freed(j, end) = Freed(r, end) \ {x}
      BY <1>10, <3>1, JoinedCore DEF j
    <3>. QED BY <1>10, <1>20, <3>2
  <2>5. /\ JoinedSizes(s, it, x)[it] = s[it] + n
        /\ \A c \in Cells(h, end) \ {it, x} : JoinedSizes(s, it, x)[c] = s[c]
    BY <1>2, <1>12, <1>20, <2>1 DEF JoinedSizes
  <2>6. NoAdjacent(g, end)
    <3>1. it + (s[it] + n) \notin Freed(h, end)
      <4>1. x + n = b => b = end
        BY <1>19, <1>25
      <4>2. end \notin Freed(h, end)
        BY DEF Freed, Cells
      <4>3. it + (s[it] + n) = x + n
        BY <1>2, <1>8, <2>1
      <4>. QED BY <1>14, <4>1, <4>2, <4>3
    <3>2. ASSUME NEW c \in Freed(h, end) PROVE c + Sizes(j, end)[c] \notin Freed(h, end)
      <4>1. CASE c = it
        BY <4>1, <2>4, <2>5, <3>1
      <4>2. CASE c # it
        BY <4>2, <1>12, <1>13, <1>20, <2>4, <2>5
      <4>. QED BY <4>1, <4>2
    <3>. QED BY <2>3, <2>4, <3>2 DEF NoAdjacent
  <2>7. UsedKept(h, g, end, Used(h, end) \ {x})
    BY <1>20, <2>1, <2>3, <2>4, <2>5 DEF UsedKept, Used, s
  <2>. QED BY <2>3, <2>4, <2>6, <2>7
<1>26. CASE JoinsLeft(k, x, it) /\ JoinsRight(k, end, x, it)
  <2>. DEFINE i == Joined(r, x, b)
              j == Joined(i, it, x)
              t == JoinedSizes(s, x, b)
  <2>1. /\ it \in Freed(h, end) /\ it + s[it] = x /\ k[it].blockSize = s[it]
        /\ h[it].blockSize = s[it] /\ s[it] \in Nat
    BY <1>12, <1>16, <1>26
  <2>2. /\ b \in Freed(h, end) /\ x + n = b /\ k[b].next = h[b].next /\ k[b].blockSize = s[b]
        /\ r[b] = h[b] /\ s[b] \in Nat /\ h[b].blockSize = s[b]
        /\ Core(i, first, end, total + n) /\ Cells(i, end) = Cells(h, end) \ {b}
        /\ Sizes(i, end) = t /\ Freed(i, end) = (Freed(h, end) \cup {x}) \ {b}
    BY <1>12, <1>23, <1>26
  <2>3. /\ PlacedAt(k, x, it) = it /\ PlacedBlock(k, end, x, it) = Block(h[b].next, s[it] + (n + s[b]))
        /\ MergedAway(k, end, x, it) = {x, b}
    <3>1. (n + s[it]) + s[b] = s[it] + (n + s[b])
      BY <1>2, <2>1, <2>2
    <3>. QED BY <1>26, <1>18, <2>1, <2>2, <3>1 DEF PlacedAt, PlacedBlock, PlacedSize, MergedAway
  <2>4. /\ DOMAIN i = DOMAIN h \ {b} /\ i[x] = Block(h[b].next, n + s[b])
        /\ i[it] = r[it] /\ \A c \in DOMAIN h \ {x, b} : i[c] = r[c]
    BY <1>1, <1>7, <1>11, <1>20, <1>21, <2>2 DEF Joined
  <2>. HIDE DEF i
  <2>5. i[x].next = h[b].next /\ i[x].blockSize = n + s[b] /\ i[it].blockSize = s[it]
    BY <1>21, <2>1, <2>4, BlockRecord
  <2>6. g = j
    <3>1. g = [c \in DOMAIN h \ {x, b} |->
                 IF c = it THEN Block(h[b].next, s[it] + (n + s[b])) ELSE k[c]]
      BY <1>4, <1>9, <2>3 DEF Placed
    <3>2. j = [c \in DOMAIN h \ {x, b} |->
                 IF c = it THEN Block(h[b].next, s[it] + (n + s[b])) ELSE i[c]]
      <4>1. (DOMAIN h \ {b}) \ {x} = DOMAIN h \ {x, b}
        OBVIOUS
      <4>. QED BY <2>4, <2>5, <4>1 DEF Joined
    <3>3. \A c \in DOMAIN h \ {x, b, it} : i[c] = k[c]
      BY <1>4, <1>11, <2>4
    <3>. QED BY <3>1, <3>2, <3>3
  <2>7. /\ t[it] = s[it] /\ t[x] = n + s[b] /\ DOMAIN t = Cells(h, end) \ {b}
        /\ \A c \in Cells(h, end) \ {x, b} : t[c] = s[c]
    BY <1>1, <1>2, <1>12, <1>20, <2>1 DEF JoinedSizes
  <2>. HIDE DEF j, t
  <2>8. /\ Core(j, first, end, total + n)
        /\ Cells(j, end) = Cells(h, end) \ {x, b} /\ Sizes(j, end) = JoinedSizes(t, it, x)
        /\ Freed(j, end) = Freed(h, end) \ {b}
    <3>1. it \in Freed(i, end) /\ x \in Freed(i, end) /\ x = it + Sizes(i, end)[it]
      BY <1>20, <2>1, <2>2, <2>7
    <3>2. /\ Core(j, first, end, total + n)
          /\ Cells(j, end) = Cells(i, end) \ {x} /\ Sizes(j, end) = JoinedSizes(t, it, x)
          /\ Freed(j, end) = Freed(i, end) \ {x}
      BY <2>2, <3>1, JoinedCore DEF j
    <3>. QED BY <1>20, <2>2, <3>2
  <2>9. /\ JoinedSizes(t, it, x)[it] = s[it] + (n + s[b])
        /\ \A c \in Cells(h, end) \ {it, x, b} : JoinedSizes(t, it, x)[c] = s[c]
    BY <1>12, <1>20, <2>1, <2>7 DEF JoinedSizes
  <2>10. NoAdjacent(g, end)
    <3>1. it + (s[it] + (n + s[b])) \notin Freed(h, end)
      <4>1. b + s[b] \notin Freed(h, end)
        BY <1>13, <2>2
      <4>2. it + (s[it] + (n + s[b])) = b + s[b]
        BY <1>2, <1>8, <2>1, <2>2
      <4>. QED BY <4>1, <4>2
    <3>2. ASSUME NEW c \in Freed(h, end) \ {b} PROVE c + Sizes(j, end)[c] \notin Freed(h, end)
      <4>1. CASE c = it
        BY <4>1, <2>8, <2>9, <3>1
      <4>2. CASE c # it
        BY <4>2, <1>12, <1>13, <1>20, <2>8, <2>9
      <4>. QED BY <4>1, <4>2
    <3>. QED BY <2>6, <2>8, <3>2 DEF NoAdjacent
  <2>11. UsedKept(h, g, end, Used(h, end) \ {x})
    <3>1. Used(g, end) = Used(h, end) \ {x}
      BY <1>20, <2>2, <2>6, <2>8 DEF Used
    <3>2. \A c \in Used(h, end) \ {x} : c \in Cells(h, end) \ {it, x, b}
      BY <1>20, <2>1, <2>2
    <3>3. \A c \in Used(h, end) \ {x} : Sizes(g, end)[c] = s[c]
      BY <2>6, <2>8, <2>9, <3>2
    <3>. QED BY <3>1, <3>3 DEF UsedKept, s
  <2>. QED BY <2>6, <2>8, <2>10, <2>11
<1>. QED BY <1>22, <1>24, <1>25, <1>26

-----------------------------------------------------------------------------
(* alloc(): the first block of the list that is large enough.                 *)

FirstFit(h, end, need) ==
  SelectInSeq(FreeChain(h), LAMBDA a : a = end \/ h[a].blockSize >= need)

(* A block the search finds is free, large enough and linked from the one     *)
(* before it.                                                                 *)
LEMMA FirstFitFree ==
  ASSUME NEW h, NEW first, NEW end, NEW total, Core(h, first, end, total),
         NEW need \in Nat, need > 0,
         NEW m, m = FirstFit(h, end, need),
         NEW x, x = FreeChain(h)[m], x # end
  PROVE  /\ x \in Freed(h, end) /\ h[x].blockSize >= need
         /\ FreeChain(h)[m - 1] \in Listed(h, end) \ {end} /\ h[FreeChain(h)[m - 1]].next = x
<1>. DEFINE c == FreeChain(h)
            F == Listed(h, end)
            Fits == {j \in 1 .. Len(c) : c[j] = end \/ h[c[j]].blockSize >= need}
<1>1. WholeChain(h, F, end, c)
  BY FreeChainWhole, ListedFacts DEF Core, Headers
<1>. HIDE DEF c
<1>2. /\ c \in Seq(F) /\ Len(c) \in Nat \ {0, 1} /\ c[1] = StartAddr /\ c[Len(c)] = end
      /\ \A j \in 1 .. Len(c) - 1 : c[j] # end /\ c[j + 1] = h[c[j]].next
  BY <1>1 DEF WholeChain, ChainTo
<1>3. Len(c) \in Fits
  BY <1>2
<1>4. m \in Fits /\ \A j \in Fits : m <= j
  <2>1. m = IF Fits # {} THEN Min(Fits) ELSE 0
    BY DEF FirstFit, SelectInSeq, c
  <2>. QED BY <1>3, <2>1, MinOf, Fits \in SUBSET Nat
<1>5. m \in 1 .. Len(c) /\ h[x].blockSize >= need /\ c[m] = x /\ x \in F
  BY <1>2, <1>4 DEF c
<1>6. x # StartAddr
  <2>1. h[StartAddr].blockSize = 0
    BY DEF Core, Headers
  <2>. QED BY <1>5, <2>1
<1>7. m - 1 \in 1 .. Len(c) - 1 /\ (m - 1) + 1 = m /\ m - 1 \in 1 .. Len(c)
  <2>1. m # 1 /\ m \in 1 .. Len(c) /\ Len(c) \in Nat
    BY <1>2, <1>5, <1>6
  <2>. QED BY ONLY <2>1
<1>8. c[m - 1] # end /\ c[m] = h[c[m - 1]].next /\ c[m - 1] \in F
  BY <1>2, <1>7
<1>9. x \in Freed(h, end)
  BY <1>5, <1>6 DEF Listed
<1>. QED BY <1>5, <1>8, <1>9 DEF c

(* The list goes on behind a free block.                                      *)
LEMMA NextAfter ==
  ASSUME NEW h, NEW first, NEW end, NEW total, Core(h, first, end, total), NEW x \in Freed(h, end)
  PROVE  /\ x \in Int /\ x + Sizes(h, end)[x] <= h[x].next /\ h[x].next \in Int
         /\ Sizes(h, end)[x] \in Nat /\ h[x].next \in Freed(h, end) \cup {end}
<1>. DEFINE s == Sizes(h, end)
<1>1. x \in Cells(h, end) /\ x \in Listed(h, end) \ {end} /\ DOMAIN s = Cells(h, end)
  BY DEF Freed, Cells, Listed, Sizes
<1>2. h[x].next \in Int /\ x < h[x].next /\ h[x].next \in Freed(h, end) \cup {end}
  BY <1>1, ListedBetween
<1>3. h[x].next \in DOMAIN s \cup {end}
  BY <1>1, <1>2, ListedFacts
<1>4. x \in Int /\ s[x] \in Nat /\ (h[x].next <= x \/ x + s[x] <= h[x].next)
  BY <1>1, <1>3 DEF Core, Tiling
<1>. HIDE DEF s
<1>. QED BY <1>2, <1>4 DEF s

(* The headers when x has left the list and n bytes at rest are a block.      *)
WithRest(h, pre, x, rest, n) ==
  [c \in DOMAIN h \cup {rest} |->
     IF c = rest THEN Block(NULL, n) ELSE [h EXCEPT ![pre].next = h[x].next][c]]

(* The block is cut: the rest goes to where the block was in the list.        *)
LEMMA CutTaken ==
  ASSUME NEW h, NEW first, NEW end, NEW total, Core(h, first, end, total), NoAdjacent(h, end),
         NEW x \in Freed(h, end), NEW pre \in Listed(h, end) \ {end}, h[pre].next = x,
         NEW need \in Nat, need >= HEAP_STRUCT_SIZE, need % Align = 0,
         NEW size, size = h[x].blockSize, size - need >= HEAP_STRUCT_SIZE,
         NEW rest, rest = x + need,
         NEW k, k = WithRest(h, pre, x, rest, size - need)
  PROVE  [insertBlockIntoFreeList(k, end, rest) EXCEPT ![x] = Block(NULL, need + BLOCK_ALLOCATED_BIT)]
           = Taken(Cut(h, x, need), pre, x)
<1>. DEFINE s == Sizes(h, end)
            F == Listed(h, end)
            nx == h[x].next
            it == Before(k, rest)
<1>. USE PoolAssumption DEF PoolAssumption
<1>1. /\ Linked(h, F, end) /\ x \in F /\ x # end /\ x # StartAddr /\ x \in DOMAIN h /\ pre \in DOMAIN h
      /\ pre \in F \ {end} /\ F \subseteq DOMAIN h /\ x \in Cells(h, end) /\ end \in Int
      /\ IsFiniteSet(DOMAIN h)
  BY ListedFacts DEF Freed, Cells, Listed, Core, Headers
<1>2. /\ x \in Int /\ s[x] \in Nat /\ size = s[x] /\ s[x] < BLOCK_ALLOCATED_BIT /\ x + s[x] <= end
      /\ x + s[x] <= nx /\ nx \in Int /\ nx \in Freed(h, end) \cup {end} /\ 0 < x
  <2>1. first <= x /\ 0 < first /\ first \in Int
    BY <1>1 DEF Core, Tiling, Sizes, Area
  <2>2. /\ x \in Int /\ s[x] \in Nat /\ size = s[x] /\ s[x] < BLOCK_ALLOCATED_BIT /\ x + s[x] <= end
        /\ x + s[x] <= nx /\ nx \in Int /\ nx \in Freed(h, end) \cup {end}
    BY <1>1, SizesOf, NextAfter
  <2>. HIDE DEF s, nx
  <2>. QED BY <2>1, <2>2
<1>. HIDE DEF s
<1>3. /\ pre \in Int /\ pre < x /\ pre # x
      /\ pre # StartAddr => pre \in Freed(h, end)
  BY <1>1, <1>2, ListedBetween
<1>4. HEAP_STRUCT_SIZE \in Nat /\ HEAP_STRUCT_SIZE > 0
  BY HeapSize
<1>5. rest \in Int /\ x < rest /\ rest < x + s[x] /\ rest < nx /\ rest < end /\ size - need \in Nat
  <2>. HIDE DEF nx
  <2>. QED BY <1>1, <1>2, <1>4
<1>6. rest \notin DOMAIN h
  <2>1. size - need = Sizes(h, end)[x] - need
    BY <1>2 DEF s
  <2>. QED BY <2>1, CutCore
<1>7. /\ DOMAIN k = DOMAIN h \cup {rest} /\ k[rest] = Block(NULL, size - need)
      /\ k[pre] = Block(nx, h[pre].blockSize)
      /\ \A c \in DOMAIN h \ {pre} : k[c] = h[c]
  <2>1. h[pre] \in [next : Int, blockSize : Nat]
    BY <1>1 DEF Core, Headers
  <2>2. [h[pre] EXCEPT !.next = nx] = Block(nx, h[pre].blockSize)
    BY <2>1 DEF Block
  <2>3. [h EXCEPT ![pre].next = h[x].next][pre] = [h[pre] EXCEPT !.next = nx]
    BY <1>1
  <2>. QED BY <1>1, <1>6, <2>2, <2>3 DEF WithRest
<1>8. k \in [DOMAIN k -> [next : Int, blockSize : Nat]]
  <2>1. \A c \in DOMAIN h : /\ h[c].next \in Int /\ h[c].blockSize \in Nat
                            /\ h[c] \in [next : Int, blockSize : Nat]
    BY ListedFacts DEF Core, Headers
  <2>2. Block(NULL, size - need) \in [next : Int, blockSize : Nat]
    BY <1>5, BlockRecord DEF NULL
  <2>3. Block(nx, h[pre].blockSize) \in [next : Int, blockSize : Nat]
    BY <1>1, <1>2, <2>1, BlockRecord
  <2>4. ASSUME NEW c \in DOMAIN k PROVE k[c] \in [next : Int, blockSize : Nat]
    BY <1>7, <2>1, <2>2, <2>3
  <2>5. k = [c \in DOMAIN k |-> k[c]]
    BY <1>7 DEF WithRest
  <2>. QED BY <2>4, <2>5
<1>9. Linked(k, F \ {x}, end)
  <2>1. SameLinks(h, k, F \ {pre, x}) /\ F \ {x} \subseteq DOMAIN k /\ k[pre].next = nx
    BY <1>1, <1>7, BlockRecord DEF SameLinks
  <2>. QED BY <1>1, <2>1, LinkedRemove
<1>10. /\ it \in (F \ {x}) \ {end} /\ it < rest /\ rest < k[it].next /\ k[it].next \in F \ {x}
  <2>1. IsFiniteSet(DOMAIN k)
    BY <1>1, <1>7, FS_AddElement
  <2>2. rest \notin F \ {x} /\ StartAddr < rest
    BY <1>1, <1>2, <1>5, <1>6 DEF StartAddr
  <2>. DEFINE G == F \ {x}
  <2>3. Linked(k, G, end) /\ rest \notin G
    BY <1>9, <2>2
  <2>. HIDE DEF G
  <2>4. /\ Before(k, rest) \in G \ {end} /\ Before(k, rest) < rest /\ rest < k[Before(k, rest)].next
        /\ k[Before(k, rest)].next \in G
    BY ONLY <1>5, <2>1, <2>2, <2>3, BeforePlace
  <2>. QED BY <2>4 DEF G
<1>13. k[rest].blockSize = size - need /\ k[pre].next = nx /\ k[pre].blockSize = h[pre].blockSize
  BY <1>7, BlockRecord
<1>. HIDE DEF it, nx
<1>11. it = pre
  <2>1. k[pre].next = nx
    BY <1>13
  <2>2. pre \in (F \ {x}) \ {end} /\ F \subseteq Int
    BY <1>1, <1>3 DEF Linked
  <2>3. (it <= pre \/ nx <= it) /\ (pre <= it \/ k[it].next <= pre)
    BY <1>9, <1>10, <2>1, <2>2 DEF Linked
  <2>4. it \in Int /\ k[it].next \in Int
    BY <1>10, <2>2
  <2>. QED BY <1>2, <1>3, <1>5, <1>10, <2>3, <2>4
<1>12. insertBlockIntoFreeList(k, end, rest) = Placed(k, end, rest, pre)
  <2>1. rest \in DOMAIN k /\ Before(k, rest) \in DOMAIN k
    BY <1>1, <1>7, <1>11 DEF it
  <2>. QED BY <1>8, <1>11, <2>1, InsertForm DEF it
<1>14. ~JoinsLeft(k, rest, pre)
  <2>1. CASE pre = StartAddr
    <3>1. h[pre].blockSize = 0
      BY <2>1 DEF Core, Headers
    <3>. QED BY <1>2, <1>5, <1>13, <2>1, <3>1 DEF JoinsLeft, StartAddr
  <2>2. CASE pre # StartAddr
    <3>1. pre \in Freed(h, end) /\ pre \in Cells(h, end) /\ DOMAIN s = Cells(h, end)
      BY <1>3, <2>2 DEF Freed, Sizes, s
    <3>2. h[pre].blockSize = s[pre] /\ s[pre] \in Nat
      BY <3>1, SizesOf DEF s
    <3>3. x <= pre \/ pre + s[pre] <= x
      BY <1>1, <3>1 DEF Core, Tiling, s
    <3>. QED BY <1>2, <1>3, <1>5, <1>13, <3>2, <3>3 DEF JoinsLeft
  <2>. QED BY <2>1, <2>2
<1>15. ~JoinsRight(k, end, rest, pre)
  <2>1. SUFFICES ASSUME rest + (size - need) = nx, nx # end PROVE FALSE
    BY <1>5, <1>13, <1>14 DEF JoinsRight, PlacedAt, PlacedSize
  <2>2. x + s[x] = nx /\ nx \in Freed(h, end)
    BY <1>2, <2>1
  <2>. QED BY <2>2 DEF NoAdjacent, s
<1>16. /\ PlacedAt(k, rest, pre) = rest /\ PlacedBlock(k, end, rest, pre) = Block(nx, size - need)
       /\ MergedAway(k, end, rest, pre) = {}
  BY <1>5, <1>13, <1>14, <1>15 DEF PlacedAt, PlacedBlock, PlacedSize, MergedAway
<1>17. Placed(k, end, rest, pre)
         = [c \in DOMAIN h \cup {rest} |->
              IF c = rest THEN Block(nx, size - need)
              ELSE IF c = pre THEN Block(rest, h[pre].blockSize) ELSE k[c]]
  <2>1. DOMAIN k \ {} = DOMAIN h \cup {rest}
    BY <1>7
  <2>2. Placed(k, end, rest, pre)
          = [c \in DOMAIN k \ {} |->
               IF c = rest THEN Block(nx, size - need)
               ELSE IF c = pre THEN Block(rest, k[pre].blockSize) ELSE k[c]]
    <3>. DEFINE pa == PlacedAt(k, rest, pre)
                pb == PlacedBlock(k, end, rest, pre)
                ma == MergedAway(k, end, rest, pre)
    <3>1. Placed(k, end, rest, pre)
            = [c \in DOMAIN k \ ma |-> IF c = pa THEN pb
                                       ELSE IF c = pre THEN Block(pa, k[pre].blockSize) ELSE k[c]]
      BY DEF Placed
    <3>2. pa = rest /\ pb = Block(nx, size - need) /\ ma = {}
      BY <1>16
    <3>. HIDE DEF pa, pb, ma
    <3>. QED BY <3>1, <3>2
  <2>. QED BY <1>13, <2>1, <2>2 DEF nx
<1>. DEFINE u == Cut(h, x, need)
<1>18. u = [c \in DOMAIN h \cup {rest} |->
              IF c = x THEN Block(rest, need) ELSE IF c = rest THEN Block(nx, size - need) ELSE h[c]]
  BY DEF Cut, nx
<1>. HIDE DEF u
<1>19. /\ DOMAIN u = DOMAIN h \cup {rest} /\ u[x].next = rest /\ u[x].blockSize = need
       /\ u[rest] = Block(nx, size - need) /\ \A c \in DOMAIN h \ {x} : u[c] = h[c]
  <2>1. x # rest
    BY <1>2, <1>5
  <2>. QED BY <1>1, <1>6, <1>18, <2>1, BlockRecord
<1>20. Taken(u, pre, x)
         = [c \in DOMAIN h \cup {rest} |->
              IF c = x THEN Block(NULL, need + BLOCK_ALLOCATED_BIT)
              ELSE IF c = pre THEN Block(rest, h[pre].blockSize) ELSE u[c]]
  BY <1>1, <1>3, <1>19 DEF Taken
<1>21. ASSUME NEW c \in DOMAIN h \cup {rest}, c # x, c # pre
       PROVE  (IF c = rest THEN Block(nx, size - need) ELSE k[c]) = u[c]
  BY <1>7, <1>19, <1>21
<1>22. pre # rest
  BY <1>1, <1>6
<1>. DEFINE v == insertBlockIntoFreeList(k, end, rest)
            w == [v EXCEPT ![x] = Block(NULL, need + BLOCK_ALLOCATED_BIT)]
<1>23. v = [c \in DOMAIN h \cup {rest} |->
              IF c = rest THEN Block(nx, size - need)
              ELSE IF c = pre THEN Block(rest, h[pre].blockSize) ELSE k[c]]
  BY <1>12, <1>17
<1>. HIDE DEF v
<1>24. w = [c \in DOMAIN h \cup {rest} |->
              IF c = x THEN Block(NULL, need + BLOCK_ALLOCATED_BIT)
              ELSE IF c = rest THEN Block(nx, size - need)
              ELSE IF c = pre THEN Block(rest, h[pre].blockSize) ELSE k[c]]
  BY <1>1, <1>23
<1>25. w = Taken(u, pre, x)
  BY <1>20, <1>21, <1>22, <1>24
<1>. QED BY <1>25 DEF u, v

-----------------------------------------------------------------------------
(* What a request needs with its header: room for both, in whole units.       *)
LEMMA NeededBytes ==
  ASSUME NEW pSize \in Nat, NEW need, need = needed(pSize), need # 0
  PROVE  /\ need \in Nat /\ need > 0 /\ need % Align = 0 /\ pSize > 0
         /\ need >= HEAP_STRUCT_SIZE /\ need >= pSize + HEAP_STRUCT_SIZE
<1>1. /\ pSize # 0 /\ need = pSize + (HEAP_STRUCT_SIZE + Align - (pSize % Align))
  BY DEF needed
<1>2. /\ HEAP_STRUCT_SIZE \in Nat /\ HEAP_STRUCT_SIZE % Align = 0 /\ HEAP_STRUCT_SIZE > 0
      /\ Align \in {2, 4, 8}
  BY HeapSize, PoolAssumption DEF PoolAssumption
<1>3. CASE Align = 2
  BY <1>1, <1>2, <1>3
<1>4. CASE Align = 4
  BY <1>1, <1>2, <1>4
<1>5. CASE Align = 8
  BY <1>1, <1>2, <1>5
<1>. QED BY <1>2, <1>3, <1>4, <1>5

(* The block x leaves the free list with n bytes; blocks in use stay.         *)
Granted(h, g, end, x, n) ==
  /\ Used(g, end) = Used(h, end) \cup {x}
  /\ \A a \in Used(h, end) : Sizes(g, end)[a] = Sizes(h, end)[a]
  /\ Sizes(g, end)[x] = n

(* The headers t with one more block, of n bytes at rest.                     *)
WithBlock(t, rest, n) ==
  [c \in DOMAIN t \cup {rest} |-> IF c = rest THEN Block(NULL, n) ELSE t[c]]

(* The bytes x is granted, and the headers then.                              *)
GrantedSize(h, x, need) ==
  IF h[x].blockSize - need > 2 * HEAP_STRUCT_SIZE THEN need ELSE h[x].blockSize

GrantedHeaders(h, end, x, pre, need) ==
  LET size == h[x].blockSize
      taken == [h EXCEPT ![pre].next = h[x].next]
      cut == IF size - need > 2 * HEAP_STRUCT_SIZE
             THEN insertBlockIntoFreeList(WithBlock(taken, x + need, size - need), end, x + need)
             ELSE taken
  IN [cut EXCEPT ![x] = Block(NULL, GrantedSize(h, x, need) + BLOCK_ALLOCATED_BIT)]

(* alloc() takes a free block off the list, or the first part of it.          *)
LEMMA AllocKeeps ==
  ASSUME NEW h, NEW first, NEW end, NEW total, Core(h, first, end, total), NoAdjacent(h, end),
         NEW x \in Freed(h, end), NEW pre \in Listed(h, end) \ {end}, h[pre].next = x,
         NEW need \in Nat, need >= HEAP_STRUCT_SIZE, need % Align = 0, h[x].blockSize >= need
  PROVE  /\ Core(GrantedHeaders(h, end, x, pre, need), first, end, total - GrantedSize(h, x, need))
         /\ NoAdjacent(GrantedHeaders(h, end, x, pre, need), end)
         /\ Granted(h, GrantedHeaders(h, end, x, pre, need), end, x, GrantedSize(h, x, need))
         /\ GrantedSize(h, x, need) >= need /\ GrantedSize(h, x, need) \in Nat
<1>. DEFINE s == Sizes(h, end)
            F == Listed(h, end)
            rest == x + need
            size == h[x].blockSize
            taken == [h EXCEPT ![pre].next = h[x].next]
            k == WithBlock(taken, x + need, size - need)
            splits == size - need > 2 * HEAP_STRUCT_SIZE
            cut == IF splits THEN insertBlockIntoFreeList(k, end, x + need) ELSE taken
            granted == GrantedSize(h, x, need)
            g == GrantedHeaders(h, end, x, pre, need)
<1>0. /\ size = h[x].blockSize /\ size >= need
      /\ taken = [h EXCEPT ![pre].next = h[x].next]
      /\ k = WithBlock(taken, x + need, size - need)
      /\ splits \in BOOLEAN /\ splits = (size - need > 2 * HEAP_STRUCT_SIZE)
      /\ cut = IF splits THEN insertBlockIntoFreeList(k, end, x + need) ELSE taken
      /\ granted = IF splits THEN need ELSE size
      /\ g = [cut EXCEPT ![x] = Block(NULL, granted + BLOCK_ALLOCATED_BIT)]
  BY DEF GrantedSize, GrantedHeaders
<1>. HIDE DEF size, taken, k, splits, cut, granted, g
<1>. USE <1>0
<1>1. /\ x \in Cells(h, end) /\ x \in DOMAIN h /\ x # end /\ x # StartAddr /\ pre \in DOMAIN h
      /\ Freed(h, end) \subseteq Cells(h, end) /\ DOMAIN s = Cells(h, end)
  BY ListedFacts DEF Freed, Cells, Sizes
<1>2. /\ x \in Int /\ s[x] \in Nat /\ size = s[x]
  BY <1>1, SizesOf
<1>3. pre # x
  BY <1>2, ListedBetween
<1>4. HEAP_STRUCT_SIZE \in Nat /\ HEAP_STRUCT_SIZE > 0
  BY HeapSize
<1>5. \A a \in Freed(h, end) : a + s[a] \notin Freed(h, end)
  BY DEF NoAdjacent
<1>6. DOMAIN taken = DOMAIN h
  OBVIOUS
<1>. HIDE DEF s
<1>7. CASE splits
  <2>1. /\ size - need >= HEAP_STRUCT_SIZE /\ s[x] - need >= HEAP_STRUCT_SIZE
        /\ size - need > 0 /\ rest \in Int /\ x < rest /\ granted = need
    <3>1. size - need > 2 * HEAP_STRUCT_SIZE
      BY <1>7
    <3>2. granted = need
      BY <1>7
    <3>. QED BY <1>2, <1>4, <3>1, <3>2
  <2>. DEFINE u == Cut(h, x, need)
  <2>2. /\ Core(u, first, end, total) /\ Cells(u, end) = Cells(h, end) \cup {rest}
        /\ Sizes(u, end) = CutSizes(s, x, need) /\ Freed(u, end) = Freed(h, end) \cup {rest}
        /\ rest \notin DOMAIN h
    <3>1. Sizes(h, end)[x] - need >= HEAP_STRUCT_SIZE
      BY <2>1 DEF s
    <3>. QED BY <3>1, CutCore DEF s
  <2>3. u[x] = Block(rest, need) /\ u[pre] = h[pre]
    BY <1>1, <1>3, <2>1, <2>2 DEF Cut
  <2>. HIDE DEF u
  <2>4. x \in Freed(u, end) /\ pre \in Listed(u, end) \ {end} /\ u[pre].next = x /\ u[x].blockSize = need
    BY <2>2, <2>3, BlockRecord DEF Listed
  <2>. DEFINE v == Taken(u, pre, x)
  <2>5. /\ Core(v, first, end, total - need) /\ Cells(v, end) = Cells(u, end)
        /\ Sizes(v, end) = Sizes(u, end) /\ Freed(v, end) = Freed(u, end) \ {x}
    BY <2>2, <2>4, TakenCore
  <2>6. g = v
    <3>1. k = WithRest(h, pre, x, rest, size - need)
      BY DEF WithRest, WithBlock
    <3>2. g = [insertBlockIntoFreeList(k, end, rest) EXCEPT ![x] = Block(NULL, need + BLOCK_ALLOCATED_BIT)]
      BY <1>7, <2>1
    <3>. HIDE DEF rest
    <3>3. rest = x + need
      BY DEF rest
    <3>4. size - need >= HEAP_STRUCT_SIZE
      BY <2>1
    <3>5. [insertBlockIntoFreeList(k, end, rest) EXCEPT ![x] = Block(NULL, need + BLOCK_ALLOCATED_BIT)]
            = Taken(Cut(h, x, need), pre, x)
      BY ONLY <3>1, <3>3, <3>4, CutTaken, Core(h, first, end, total), NoAdjacent(h, end), h[pre].next = x,
              need >= HEAP_STRUCT_SIZE, need % Align = 0, size = h[x].blockSize
    <3>. QED BY <3>2, <3>5 DEF u
  <2>. HIDE DEF v
  <2>7. /\ CutSizes(s, x, need)[x] = need /\ CutSizes(s, x, need)[rest] = size - need
        /\ \A c \in Cells(h, end) \ {x} : CutSizes(s, x, need)[c] = s[c]
    <3>1. x # rest /\ rest \notin Cells(h, end)
      BY <1>1, <2>1, <2>2 DEF Cells
    <3>. HIDE DEF rest
    <3>2. rest = x + need
      BY DEF rest
    <3>. QED BY <1>1, <1>2, <3>1, <3>2 DEF CutSizes
  <2>8. rest \notin Cells(h, end) /\ rest \notin Freed(h, end)
    BY <1>1, <2>2 DEF Cells
  <2>11. Sizes(g, end) = CutSizes(s, x, need) /\ Freed(g, end) = (Freed(h, end) \cup {rest}) \ {x}
    BY <2>2, <2>5, <2>6
  <2>9. NoAdjacent(g, end)
    <3>1. ASSUME NEW a \in Freed(g, end) PROVE a + Sizes(g, end)[a] \notin Freed(g, end)
      <4>1. a \in Freed(h, end) \cup {rest} /\ a # x
        BY <2>2, <2>5, <2>6
      <4>2. CASE a = rest
        <5>1. a + Sizes(g, end)[a] = x + s[x] /\ x + s[x] # rest
          <6>1. Sizes(g, end)[a] = size - need
            BY <2>7, <2>11, <4>2
          <6>. QED BY <1>2, <2>1, <4>2, <6>1
        <5>2. x + s[x] \notin Freed(h, end)
          BY <1>5
        <5>. QED BY <2>2, <2>5, <2>6, <5>1, <5>2
      <4>3. CASE a # rest
        <5>1. a \in Freed(h, end) /\ Sizes(g, end)[a] = s[a]
          <6>1. a \in Freed(h, end)
            BY <4>1, <4>3
          <6>. QED BY <1>1, <2>7, <2>11, <4>1, <6>1
        <5>2. a + s[a] \in Cells(h, end) \cup {end} /\ end \in DOMAIN h /\ Cells(h, end) \subseteq DOMAIN h
          BY <1>1, <5>1 DEF Core, Tiling, s, Headers, Cells
        <5>3. a + s[a] # rest /\ a + s[a] \notin Freed(h, end)
          BY <1>5, <2>2, <5>1, <5>2
        <5>. QED BY <2>2, <2>5, <2>6, <5>1, <5>3
      <4>. QED BY <4>2, <4>3
    <3>. QED BY <3>1 DEF NoAdjacent
  <2>10. Granted(h, g, end, x, granted)
    <3>1. Used(g, end) = Used(h, end) \cup {x}
      <4>1. Cells(g, end) = Cells(h, end) \cup {rest}
        BY <2>2, <2>5, <2>6
      <4>2. x # rest
        BY <2>1
      <4>. HIDE DEF rest
      <4>. QED BY ONLY <1>1, <2>8, <2>11, <4>1, <4>2 DEF Used
    <3>2. \A a \in Used(h, end) : Sizes(g, end)[a] = s[a]
      BY <2>2, <2>5, <2>6, <2>7 DEF Used
    <3>. QED BY <2>1, <2>2, <2>5, <2>6, <2>7, <3>1, <3>2 DEF Granted, s
  <2>. HIDE DEF u
  <2>12. granted = need /\ granted \in Nat /\ granted >= need
    BY <2>1
  <2>13. Core(g, first, end, total - granted)
    BY <2>5, <2>6, <2>12
  <2>. QED BY <2>9, <2>10, <2>12, <2>13 DEF g, granted
<1>8. CASE ~splits
  <2>1. granted = size /\ cut = taken
    BY <1>8
  <2>. DEFINE v == Taken(h, pre, x)
  <2>2. /\ Core(v, first, end, total - size) /\ Cells(v, end) = Cells(h, end)
        /\ Sizes(v, end) = s /\ Freed(v, end) = Freed(h, end) \ {x}
    BY TakenCore DEF s
  <2>3. g = v
    <3>1. h[pre] \in [next : Int, blockSize : Nat] /\ h = [c \in DOMAIN h |-> h[c]]
      BY <1>1 DEF Core, Headers
    <3>2. [h[pre] EXCEPT !.next = h[x].next] = Block(h[x].next, h[pre].blockSize)
      BY <3>1 DEF Block
    <3>3. taken = [c \in DOMAIN h |-> IF c = pre THEN Block(h[x].next, h[pre].blockSize) ELSE h[c]]
      <4>1. taken[pre] = [h[pre] EXCEPT !.next = h[x].next]
        BY <1>1
      <4>2. \A c \in DOMAIN h \ {pre} : taken[c] = h[c]
        OBVIOUS
      <4>3. taken = [c \in DOMAIN h |-> taken[c]]
        BY <3>1
      <4>. QED BY <3>2, <4>1, <4>2, <4>3
    <3>4. g = [c \in DOMAIN h |-> IF c = x THEN Block(NULL, size + BLOCK_ALLOCATED_BIT)
                                  ELSE IF c = pre THEN Block(h[x].next, h[pre].blockSize) ELSE h[c]]
      <4>1. g = [taken EXCEPT ![x] = Block(NULL, size + BLOCK_ALLOCATED_BIT)]
        BY <2>1
      <4>. QED BY <1>1, <3>3, <4>1
    <3>. QED BY <3>4 DEF Taken
  <2>. HIDE DEF v
  <2>4. NoAdjacent(g, end)
    BY <1>5, <2>2, <2>3 DEF NoAdjacent
  <2>5. Granted(h, g, end, x, granted)
    <3>1. Used(g, end) = Used(h, end) \cup {x}
      BY <1>1, <2>2, <2>3 DEF Used
    <3>. QED BY <1>2, <2>1, <2>2, <2>3, <3>1 DEF Granted, s
  <2>6. Core(g, first, end, total - granted) /\ granted >= need /\ granted \in Nat
    BY <1>2, <2>1, <2>2, <2>3
  <2>. QED BY <2>4, <2>5, <2>6 DEF g, granted
<1>. QED BY <1>7, <1>8

-----------------------------------------------------------------------------
(* The invariant.                                                             *)

PoolRecord(p) == p = [first |-> p.first, end |-> p.end,
                      freeBytesRemaining |-> p.freeBytesRemaining, header |-> p.header]

(* The headers tile the area, the free ones are the list in address order, no *)
(* two of them neighbours, and their sizes sum up to what is counted.         *)
Kept(p) ==
  /\ PoolRecord(p)
  /\ Core(p.header, p.first, p.end, p.freeBytesRemaining)
  /\ NoAdjacent(p.header, p.end)

(* The application holds the blocks in use, each with room for its request.   *)
Owned(p, held) ==
  /\ \A a \in Used(p.header, p.end) : a + HEAP_STRUCT_SIZE \in DOMAIN held
  /\ held = [q \in DOMAIN held |-> held[q]]
  /\ \A q \in DOMAIN held :
       /\ q - HEAP_STRUCT_SIZE \in Used(p.header, p.end) /\ q \in Int
       /\ held[q] \in Nat
       /\ held[q] + HEAP_STRUCT_SIZE <= Sizes(p.header, p.end)[q - HEAP_STRUCT_SIZE]

PoolInv == Kept(pool) /\ Owned(pool, live)

-----------------------------------------------------------------------------
(* init(): one free block.                                                    *)

(* The aligned area holds two headers at least.                               *)
LEMMA InitArea ==
  ASSUME NEW base \in Nat, base > 0,
         NEW first, first = base + (AlignDown(base + Align - 1) - base),
         NEW end,
         end = AlignDown(first + (PoolSize - (AlignDown(base + Align - 1) - base)) - HEAP_STRUCT_SIZE)
  PROVE  Area(first, end) /\ end - first >= HEAP_STRUCT_SIZE /\ end - first \in Nat
<1>. USE PoolAssumption DEF PoolAssumption
<1>1. HEAP_STRUCT_SIZE \in Nat /\ HEAP_STRUCT_SIZE > 0 /\ HEAP_STRUCT_SIZE % Align = 0
  BY HeapSize
<1>2. /\ PoolSize \in Nat /\ 2 * (HEAP_STRUCT_SIZE + Align) <= PoolSize /\ PoolSize < BLOCK_ALLOCATED_BIT
      /\ BLOCK_ALLOCATED_BIT \in Nat
  BY <1>1
<1>. HIDE DEF PoolAssumption
<1>3. CASE Align = 2
  BY <1>1, <1>2, <1>3 DEF AlignDown, Area
<1>4. CASE Align = 4
  BY <1>1, <1>2, <1>4 DEF AlignDown, Area
<1>5. CASE Align = 8
  BY <1>1, <1>2, <1>5 DEF AlignDown, Area
<1>. QED BY <1>3, <1>4, <1>5, PoolAssumption DEF PoolAssumption

(* init() leaves one free block.                                              *)
LEMMA InitKept ==
  ASSUME NEW base \in Nat, base > 0
  PROVE  /\ Kept(init(base, PoolSize))
         /\ Used(init(base, PoolSize).header, init(base, PoolSize).end) = {}
<1>. DEFINE first == base + (AlignDown(base + Align - 1) - base)
            end == AlignDown(first + (PoolSize - (AlignDown(base + Align - 1) - base)) - HEAP_STRUCT_SIZE)
            h == [a \in {StartAddr, first, end} |->
                    CASE a = StartAddr -> Block(first, 0)
                      [] a = first -> Block(end, end - first)
                      [] a = end -> Block(NULL, 0)]
            p == init(base, PoolSize)
<1>1. p = [first |-> first, end |-> end, freeBytesRemaining |-> end - first, header |-> h]
  BY DEF init
<1>2. Area(first, end) /\ end - first >= HEAP_STRUCT_SIZE /\ end - first \in Nat
  BY InitArea
<1>. HIDE DEF first, end, p
<1>3. /\ first \in Nat /\ end \in Nat /\ 0 < first /\ first < end /\ end - first < BLOCK_ALLOCATED_BIT
      /\ first % Align = 0 /\ HEAP_STRUCT_SIZE \in Nat /\ HEAP_STRUCT_SIZE > 0
      /\ BLOCK_ALLOCATED_BIT \in Nat
  BY <1>2, HeapSize, PoolAssumption DEF Area, PoolAssumption
<1>4. StartAddr # first /\ StartAddr # end /\ first # end /\ NULL # first /\ NULL # end
  BY <1>3 DEF StartAddr, NULL
<1>5. /\ DOMAIN h = {StartAddr, first, end}
      /\ h[StartAddr] = Block(first, 0) /\ h[first] = Block(end, end - first) /\ h[end] = Block(NULL, 0)
      /\ h = [a \in DOMAIN h |-> h[a]]
  BY <1>4
<1>. HIDE DEF h
<1>6. /\ h[StartAddr].next = first /\ h[StartAddr].blockSize = 0
      /\ h[first].next = end /\ h[first].blockSize = end - first
      /\ h[end].next = NULL /\ h[end].blockSize = 0
  BY <1>5, BlockRecord
<1>7. Cells(h, end) = {first}
  BY <1>4, <1>5 DEF Cells
<1>8. Freed(h, end) = {first}
  BY <1>3, <1>6, <1>7 DEF Freed
<1>9. Sizes(h, end) = [a \in {first} |-> end - first]
  BY <1>3, <1>2, <1>6, <1>7, SizeAndMark DEF Sizes
<1>10. Headers(h, end)
  <2>1. IsFiniteSet(DOMAIN h)
    <3>1. IsFiniteSet((({} \cup {StartAddr}) \cup {first}) \cup {end})
      BY FS_EmptySet, FS_AddElement
    <3>2. {StartAddr, first, end} = (({} \cup {StartAddr}) \cup {first}) \cup {end}
      OBVIOUS
    <3>. QED BY <1>5, <3>1, <3>2
  <2>2. \A a \in DOMAIN h : h[a] \in [next : Int, blockSize : Nat]
    <3>1. first \in Int /\ end \in Int /\ NULL \in Int /\ 0 \in Nat
      BY <1>3 DEF NULL
    <3>. QED BY <1>2, <1>5, <3>1, BlockRecord
  <2>3. h \in [DOMAIN h -> [next : Int, blockSize : Nat]]
    BY <1>5, <2>2
  <2>4. end - first < 2 * BLOCK_ALLOCATED_BIT
    BY <1>3
  <2>. QED BY <1>5, <1>6, <1>7, <1>8, <2>1, <2>3, <2>4 DEF Headers
<1>11. Tiling(Sizes(h, end), first, end)
  <2>. DEFINE s == [a \in {first} |-> end - first]
  <2>1. DOMAIN s = {first} /\ s[first] = end - first /\ first + s[first] = end
    BY <1>3
  <2>. HIDE DEF s
  <2>2. Tiling(s, first, end)
    BY <1>2, <1>3, <2>1 DEF Tiling
  <2>. QED BY <1>9, <2>2 DEF s
<1>12. Linked(h, {first} \cup {StartAddr, end}, end)
  <2>1. StartAddr < first /\ StartAddr \in Int /\ first \in Int /\ end \in Int /\ StartAddr # NULL
    BY <1>3 DEF StartAddr, NULL
  <2>. QED BY <1>3, <1>4, <1>5, <1>6, <2>1 DEF Linked
<1>13. end - first = SumFunctionOnSet(Sizes(h, end), Freed(h, end))
  <2>. DEFINE s == Sizes(h, end)
  <2>1. s[first] = end - first
    BY <1>9
  <2>. HIDE DEF s
  <2>2. SumFunctionOnSet(s, {}) = 0
    BY FS_EmptySet, SumUnfolds
  <2>3. SumFunctionOnSet(s, {} \cup {first}) = SumFunctionOnSet(s, {}) + s[first]
    BY <1>2, <2>1, FS_EmptySet, SumAdds
  <2>4. {} \cup {first} = {first}
    OBVIOUS
  <2>. QED BY <1>2, <1>8, <2>1, <2>2, <2>3, <2>4 DEF s
<1>14. NoAdjacent(h, end)
  BY <1>2, <1>3, <1>8, <1>9 DEF NoAdjacent
<1>15. Core(h, first, end, end - first)
  BY <1>2, <1>8, <1>10, <1>11, <1>12, <1>13 DEF Core
<1>16. Used(h, end) = {}
  BY <1>7, <1>8 DEF Used
<1>. QED BY <1>1, <1>14, <1>15, <1>16 DEF Kept, PoolRecord, p

-----------------------------------------------------------------------------
(* alloc() and free().                                                        *)

(* What alloc returns: nothing, and the pool as it was, or a block that was   *)
(* free, now in use with room for the request.                                *)
Serves(p, pSize, r) ==
  /\ Kept(r.pool) /\ r.pool.end = p.end /\ r.pool.first = p.first
  /\ \E x \in Freed(p.header, p.end), n \in Nat :
       /\ r.ptr = x + HEAP_STRUCT_SIZE /\ r.ptr # NULL
       /\ n >= pSize + HEAP_STRUCT_SIZE
       /\ Granted(p.header, r.pool.header, p.end, x, n)

(* A request is refused and changes nothing, or it is served.                 *)
LEMMA AllocServes ==
  ASSUME NEW p, Kept(p), NEW pSize \in Nat, NEW r, r = alloc(p, pSize)
  PROVE  (r.pool = p /\ r.ptr = NULL) \/ Serves(p, pSize, r)
<1>. DEFINE h == p.header
            end == p.end
            need == needed(pSize)
            m == FirstFit(h, end, need)
            x == FreeChain(h)[m]
            pre == FreeChain(h)[m - 1]
            size == h[x].blockSize
            granted == GrantedSize(h, x, need)
            g == GrantedHeaders(h, end, x, pre, need)
            refused == Allocated(need) \/ need = 0 \/ need >= p.freeBytesRemaining \/ x = end
<1>1. r = IF refused THEN [pool |-> p, ptr |-> NULL]
          ELSE [pool |-> [p EXCEPT !.freeBytesRemaining = @ - granted, !.header = g],
                ptr |-> x + HEAP_STRUCT_SIZE]
  BY DEF alloc, FirstFit, GrantedSize, GrantedHeaders, WithBlock
<1>2. CASE refused
  BY <1>1, <1>2
<1>3. CASE ~refused
  <2>1. r = [pool |-> [p EXCEPT !.freeBytesRemaining = @ - granted, !.header = g],
             ptr |-> x + HEAP_STRUCT_SIZE]
    BY <1>1, <1>3
  <2>2. need # 0 /\ x # end
    BY <1>3
  <2>3. /\ Core(h, p.first, end, p.freeBytesRemaining) /\ NoAdjacent(h, end) /\ PoolRecord(p)
    BY DEF Kept
  <2>. HIDE DEF need
  <2>4. /\ need \in Nat /\ need > 0 /\ need % Align = 0 /\ need >= HEAP_STRUCT_SIZE
        /\ need >= pSize + HEAP_STRUCT_SIZE
    BY <2>2, NeededBytes DEF need
  <2>. HIDE DEF h, m
  <2>5. /\ x \in Freed(h, end) /\ size >= need
        /\ pre \in Listed(h, end) \ {end} /\ h[pre].next = x
    BY <2>2, <2>3, <2>4, FirstFitFree DEF m
  <2>. HIDE DEF x, pre
  <2>7. /\ Core(g, p.first, end, p.freeBytesRemaining - granted) /\ NoAdjacent(g, end)
        /\ Granted(h, g, end, x, granted) /\ granted >= need /\ granted \in Nat
    <3>. HIDE DEF size
    <3>. QED BY <2>3, <2>4, <2>5, AllocKeeps DEF size
  <2>. HIDE DEF g, granted
  <2>8. x \in Int /\ 0 < x
    BY <2>3, <2>5, SizesOf DEF Freed, Core, Tiling, Sizes, Area
  <2>9. /\ r.ptr = x + HEAP_STRUCT_SIZE /\ r.pool.header = g /\ r.pool.end = end /\ r.pool.first = p.first
        /\ r.pool.freeBytesRemaining = p.freeBytesRemaining - granted /\ PoolRecord(r.pool)
    <3>1. p = [first |-> p.first, end |-> p.end,
               freeBytesRemaining |-> p.freeBytesRemaining, header |-> p.header]
      BY <2>3 DEF PoolRecord
    <3>2. r.pool = [p EXCEPT !.freeBytesRemaining = p.freeBytesRemaining - granted, !.header = g]
      BY <2>1
    <3>3. r.pool = [first |-> p.first, end |-> p.end,
                    freeBytesRemaining |-> p.freeBytesRemaining - granted, header |-> g]
      BY <3>1, <3>2
    <3>. QED BY ONLY <2>1, <3>3 DEF PoolRecord
  <2>10. granted >= pSize + HEAP_STRUCT_SIZE /\ r.ptr # NULL
    BY <2>4, <2>7, <2>8, <2>9, HeapSize DEF NULL
  <2>11. Kept(r.pool)
    BY <2>7, <2>9 DEF Kept
  <2>. QED BY <2>5, <2>7, <2>9, <2>10, <2>11 DEF Serves, h
<1>. QED BY <1>2, <1>3

-----------------------------------------------------------------------------
(* What free does with what the application holds.                            *)
LEMMA FreeReturns ==
  ASSUME NEW p, Kept(p), NEW held, Owned(p, held), NEW ptr \in DOMAIN held \cup {NULL}
  PROVE  Kept(free(p, ptr)) /\ Owned(free(p, ptr), Restrict(held, DOMAIN held \ {ptr}))
<1>. DEFINE h == p.header
            end == p.end
            x == ptr - HEAP_STRUCT_SIZE
            n == h[x].blockSize - BLOCK_ALLOCATED_BIT
            k == [h EXCEPT ![x].blockSize = n]
            g == insertBlockIntoFreeList(k, end, x)
            rest == Restrict(held, DOMAIN held \ {ptr})
<1>1. /\ Core(h, p.first, end, p.freeBytesRemaining) /\ NoAdjacent(h, end) /\ PoolRecord(p)
  BY DEF Kept
<1>2. DOMAIN rest = DOMAIN held \ {ptr} /\ \A q \in DOMAIN rest : rest[q] = held[q]
  BY DEF Restrict
<1>3. rest = [q \in DOMAIN rest |-> rest[q]]
  BY <1>2 DEF Restrict
<1>4. \A q \in DOMAIN held : /\ q - HEAP_STRUCT_SIZE \in Used(h, end) /\ q \in Int /\ held[q] \in Nat
                             /\ held[q] + HEAP_STRUCT_SIZE <= Sizes(h, end)[q - HEAP_STRUCT_SIZE]
  BY DEF Owned
<1>10. ASSUME NEW a \in Used(h, end)
       PROVE  a + HEAP_STRUCT_SIZE \in DOMAIN held /\ a \in Int /\ a + HEAP_STRUCT_SIZE # NULL
  <2>1. a \in DOMAIN Sizes(h, end) /\ a + HEAP_STRUCT_SIZE \in DOMAIN held
    BY DEF Owned, Used, Sizes
  <2>2. a \in Int /\ a > 0
    <3>1. Tiling(Sizes(h, end), p.first, end) /\ p.first \in Nat /\ 0 < p.first
      BY <1>1 DEF Core, Area
    <3>. HIDE DEF h, end
    <3>2. a \in Int /\ p.first <= a
      BY <2>1, <3>1 DEF Tiling
    <3>. QED BY <3>1, <3>2
  <2>. QED BY <2>1, <2>2, HeapSize DEF NULL
<1>. HIDE DEF rest
<1>5. CASE ptr = NULL
  <2>1. free(p, ptr) = p
    BY <1>5 DEF free
  <2>2. Owned(p, rest)
    BY <1>2, <1>3, <1>4, <1>5, <1>10 DEF Owned
  <2>. QED BY <2>1, <2>2 DEF rest
<1>6. CASE ptr # NULL
  <2>1. ptr \in DOMAIN held /\ x \in Used(h, end) /\ ptr \in Int
    BY <1>4, <1>6
  <2>. HIDE DEF x
  <2>2. /\ Allocated(h[x].blockSize) /\ h[x].next = NULL
    <3>1. x \in Cells(h, end) /\ x \notin Freed(h, end)
      BY <2>1 DEF Used
    <3>2. h[x].next = NULL /\ h[x].blockSize \in Nat
      BY <1>1, <3>1, SizesOf DEF Core, Headers
    <3>3. ~(h[x].blockSize < BLOCK_ALLOCATED_BIT)
      BY <3>1 DEF Freed
    <3>. QED BY <3>2, <3>3, PoolAssumption DEF Allocated, PoolAssumption
  <2>3. free(p, ptr) = [p EXCEPT !.freeBytesRemaining = @ + n, !.header = g]
    BY <1>6, <2>2 DEF free, x
  <2>. HIDE DEF h
  <2>4. /\ Core(g, p.first, end, p.freeBytesRemaining + n) /\ NoAdjacent(g, end)
        /\ UsedKept(h, g, end, Used(h, end) \ {x})
    BY <1>1, <2>1, FreeKeeps
  <2>. HIDE DEF g, n
  <2>5. /\ free(p, ptr).header = g /\ free(p, ptr).end = end /\ free(p, ptr).first = p.first
        /\ free(p, ptr).freeBytesRemaining = p.freeBytesRemaining + n /\ PoolRecord(free(p, ptr))
    <3>1. p = [first |-> p.first, end |-> p.end,
               freeBytesRemaining |-> p.freeBytesRemaining, header |-> p.header]
      BY <1>1 DEF PoolRecord
    <3>2. free(p, ptr) = [p EXCEPT !.freeBytesRemaining = p.freeBytesRemaining + n, !.header = g]
      BY <2>3
    <3>3. free(p, ptr) = [first |-> p.first, end |-> p.end,
                          freeBytesRemaining |-> p.freeBytesRemaining + n, header |-> g]
      BY <3>1, <3>2
    <3>. QED BY ONLY <3>3 DEF PoolRecord
  <2>6. Kept(free(p, ptr))
    BY <2>4, <2>5 DEF Kept
  <2>7. ASSUME NEW q \in DOMAIN rest
        PROVE  /\ q - HEAP_STRUCT_SIZE \in Used(g, end) /\ q \in Int /\ rest[q] \in Nat
               /\ rest[q] + HEAP_STRUCT_SIZE <= Sizes(g, end)[q - HEAP_STRUCT_SIZE]
    <3>1. q \in DOMAIN held /\ q # ptr /\ rest[q] = held[q]
      BY <1>2
    <3>2. q - HEAP_STRUCT_SIZE # x
      BY <1>4, <2>1, <3>1, HeapSize DEF x
    <3>3. q - HEAP_STRUCT_SIZE \in Used(h, end) \ {x}
      BY <1>4, <3>1, <3>2
    <3>. QED BY <1>4, <2>4, <3>1, <3>3 DEF UsedKept
  <2>9. ASSUME NEW a \in Used(g, end) PROVE a + HEAP_STRUCT_SIZE \in DOMAIN rest
    <3>1. a \in Used(h, end) /\ a # x
      BY <2>4 DEF UsedKept
    <3>2. a + HEAP_STRUCT_SIZE # ptr
      BY <1>10, <2>1, <3>1, HeapSize DEF x
    <3>. QED BY <1>2, <1>10, <3>1, <3>2
  <2>8. Owned(free(p, ptr), rest)
    BY <1>3, <2>5, <2>7, <2>9 DEF Owned
  <2>. QED BY <2>6, <2>8 DEF rest
<1>. QED BY <1>5, <1>6

(* What a served request adds to what the application holds.                  *)
LEMMA ServesOwned ==
  ASSUME NEW p, Kept(p), NEW held, Owned(p, held), NEW pSize \in Nat, NEW r, Serves(p, pSize, r)
  PROVE  Owned(r.pool, [q \in DOMAIN held \cup {r.ptr} |-> IF q = r.ptr THEN pSize ELSE held[q]])
<1>. DEFINE h == p.header
            end == p.end
            g == r.pool.header
            now == [q \in DOMAIN held \cup {r.ptr} |-> IF q = r.ptr THEN pSize ELSE held[q]]
<1>1. PICK x \in Freed(h, end), n \in Nat :
        /\ r.ptr = x + HEAP_STRUCT_SIZE /\ n >= pSize + HEAP_STRUCT_SIZE
        /\ Granted(h, g, end, x, n)
  BY DEF Serves
<1>2. r.pool.end = end
  BY DEF Serves
<1>3. \A q \in DOMAIN held : /\ q - HEAP_STRUCT_SIZE \in Used(h, end) /\ q \in Int /\ held[q] \in Nat
                             /\ held[q] + HEAP_STRUCT_SIZE <= Sizes(h, end)[q - HEAP_STRUCT_SIZE]
  BY DEF Owned
<1>4. x \in Int
  BY SizesOf DEF Kept, Freed
<1>10. \A a \in Used(h, end) : a + HEAP_STRUCT_SIZE \in DOMAIN held
  BY DEF Owned
<1>5. HEAP_STRUCT_SIZE \in Nat
  BY HeapSize
<1>. HIDE DEF h, g, end
<1>6. /\ Used(g, end) = Used(h, end) \cup {x} /\ Sizes(g, end)[x] = n
      /\ \A a \in Used(h, end) : Sizes(g, end)[a] = Sizes(h, end)[a]
  BY <1>1 DEF Granted
<1>7. ASSUME NEW q \in DOMAIN now
      PROVE  /\ q - HEAP_STRUCT_SIZE \in Used(g, end) /\ q \in Int /\ now[q] \in Nat
             /\ now[q] + HEAP_STRUCT_SIZE <= Sizes(g, end)[q - HEAP_STRUCT_SIZE]
  <2>1. CASE q = r.ptr
    <3>1. now[q] = pSize
      BY <2>1
    <3>2. q \in Int /\ q - HEAP_STRUCT_SIZE = x
      BY <1>1, <1>4, <1>5, <2>1
    <3>. QED BY <1>1, <1>6, <3>1, <3>2
  <2>2. CASE q # r.ptr
    <3>1. q \in DOMAIN held /\ now[q] = held[q]
      BY <2>2
    <3>. QED BY <1>3, <1>6, <3>1
  <2>. QED BY <2>1, <2>2
<1>8. now = [q \in DOMAIN now |-> now[q]]
  OBVIOUS
<1>11. \A a \in Used(g, end) : a + HEAP_STRUCT_SIZE \in DOMAIN now
  BY <1>1, <1>6, <1>10
<1>. HIDE DEF now
<1>9. Owned(r.pool, now)
  BY <1>2, <1>7, <1>8, <1>11 DEF Owned, g
<1>. QED BY <1>9 DEF now

-----------------------------------------------------------------------------
(* The invariant holds at the start.                                          *)
LEMMA PoolInitInv ==
  ASSUME PoolInit
  PROVE  PoolInv
<1>1. PICK base \in Bases : base # NULL /\ pool = init(base, PoolSize)
  BY DEF PoolInit, setup
<1>2. base \in Nat /\ base > 0
  BY <1>1, PoolAssumption DEF PoolAssumption, NULL
<1>3. Kept(pool) /\ Used(pool.header, pool.end) = {}
  BY <1>1, <1>2, InitKept
<1>4. live = <<>> /\ DOMAIN <<>> = {} /\ <<>> = [q \in {} |-> <<>>[q]]
  BY DEF PoolInit
<1>5. Owned(pool, live)
  BY <1>3, <1>4 DEF Owned
<1>. QED BY <1>3, <1>5 DEF PoolInv

(* Every step keeps the invariant.                                            *)
LEMMA PoolNextInv ==
  ASSUME PoolInv, [PoolNext]_poolVars
  PROVE  PoolInv'
<1>1. Kept(pool) /\ Owned(pool, live)
  BY DEF PoolInv
<1>2. SUFFICES Kept(pool') /\ Owned(pool', live')
  BY DEF PoolInv
<1>3. ASSUME NEW pSize \in Requests, Alloc(pSize)
      PROVE  Kept(pool') /\ Owned(pool', live')
  <2>. DEFINE r == alloc(pool, pSize)
  <2>1. /\ pool' = r.pool
        /\ live' = IF r.ptr = NULL THEN live
                   ELSE [q \in DOMAIN live \cup {r.ptr} |-> IF q = r.ptr THEN pSize ELSE live[q]]
    BY <1>3 DEF Alloc
  <2>2. pSize \in Nat
    BY PoolAssumption DEF PoolAssumption
  <2>3. (r.pool = pool /\ r.ptr = NULL) \/ Serves(pool, pSize, r)
    BY <1>1, <2>2, AllocServes
  <2>. HIDE DEF r
  <2>4. CASE r.pool = pool /\ r.ptr = NULL
    BY <1>1, <2>1, <2>4
  <2>5. CASE Serves(pool, pSize, r)
    <3>1. Kept(r.pool) /\ r.ptr # NULL
      BY <2>5 DEF Serves
    <3>. QED BY <1>1, <2>1, <2>2, <2>5, <3>1, ServesOwned
  <2>. QED BY <2>3, <2>4, <2>5
<1>4. ASSUME NEW ptr \in DOMAIN live \cup {NULL}, Free(ptr)
      PROVE  Kept(pool') /\ Owned(pool', live')
  BY <1>1, <1>4, FreeReturns DEF Free
<1>5. CASE UNCHANGED poolVars
  BY <1>1, <1>5 DEF poolVars
<1>. QED BY <1>3, <1>4, <1>5 DEF PoolNext

(* The invariant says that the blocks tile the area.                          *)
LEMMA InvBlocksTile ==
  ASSUME PoolInv
  PROVE  BlocksTile
<1>. DEFINE h == pool.header
            end == pool.end
            s == Sizes(h, end)
            F == Freed(h, end)
<1>1. /\ Core(h, pool.first, end, pool.freeBytesRemaining) /\ NoAdjacent(h, end)
  BY DEF PoolInv, Kept
<1>2. Blocks = Cells(h, end)
  BY DEF Blocks, Cells
<1>3. [a \in Blocks |-> BlockSize(a)] = s
  BY <1>2 DEF Sizes, BlockSize
<1>4. \A a \in Blocks : BlockSize(a) = s[a]
  BY <1>2 DEF Sizes, BlockSize
<1>5. {a \in Blocks : IsFree(a)} = F
  <2>1. ASSUME NEW a \in Cells(h, end)
        PROVE  IsFree(a) <=> h[a].blockSize < BLOCK_ALLOCATED_BIT
    <3>1. h[a].blockSize \in Nat
      BY <1>1, SizesOf
    <3>. QED BY <3>1, PoolAssumption DEF IsFree, Allocated, PoolAssumption
  <2>. QED BY <1>2, <2>1 DEF Freed
<1>6. WholeChain(h, Listed(h, end), end, FreeChain(h))
  BY <1>1, ListedFacts, FreeChainWhole DEF Core, Headers
<1>7. DOMAIN s = Blocks /\ Tiling(s, pool.first, end) /\ F \subseteq Blocks
  BY <1>1, <1>2 DEF Core, Sizes, Freed
<1>8. getFreeSize = SumFunctionOnSet(s, F)
  BY <1>1 DEF Core, getFreeSize
<1>9. \A a \in F : a + s[a] \notin F
  BY <1>1 DEF NoAdjacent
<1>. DEFINE list == FreeChain(h)
<1>10. /\ Range(list) = F \cup {StartAddr, end}
       /\ \A i, j \in DOMAIN list : i < j => list[i] < list[j]
  <2>. HIDE DEF list
  <2>1. WholeChain(h, Listed(h, end), end, list)
    BY <1>6 DEF list
  <2>2. DOMAIN list = 1 .. Len(list)
    BY <2>1 DEF WholeChain, ChainTo
  <2>. QED BY <2>1, <2>2 DEF WholeChain, ChainTo, Listed
<1>. HIDE DEF list, s, F
<1>11. /\ \A a \in Blocks : a + s[a] \in Blocks \cup {end}
       /\ pool.first \in Blocks
       /\ \A a \in Blocks \ {pool.first} : \E b \in Blocks : b + s[b] = a
  BY <1>7 DEF Tiling
<1>12. /\ \A a \in Blocks : a + BlockSize(a) \in Blocks \cup {end}
       /\ \A a \in Blocks \ {pool.first} : \E b \in Blocks : b + BlockSize(b) = a
       /\ \A a \in F : a + BlockSize(a) \notin F
  BY <1>4, <1>7, <1>9, <1>11
<1>. QED BY <1>3, <1>5, <1>8, <1>10, <1>11, <1>12 DEF BlocksTile, list

(* It says that what the application writes through one pointer is its own.   *)
LEMMA InvPayloadsApart ==
  ASSUME PoolInv
  PROVE  PayloadsApart
<1>. DEFINE h == pool.header
            end == pool.end
            s == Sizes(h, end)
            x(p) == p - HEAP_STRUCT_SIZE
<1>1. /\ Core(h, pool.first, end, pool.freeBytesRemaining) /\ Owned(pool, live)
  BY DEF PoolInv, Kept
<1>2. /\ HEAP_STRUCT_SIZE \in Nat /\ HEAP_STRUCT_SIZE >= SizeofBlock /\ HEAP_STRUCT_SIZE > 0
      /\ HEAP_STRUCT_SIZE % Align = 0 /\ SizeofBlock \in Nat /\ SizeofBlock > 0
  BY HeapSize, PoolAssumption DEF PoolAssumption
<1>3. /\ DOMAIN s = Cells(h, end) /\ Tiling(s, pool.first, end) /\ pool.first \in Int /\ end \in Int
  BY <1>1, ListedFacts DEF Core, Sizes
<1>. HIDE DEF s
<1>4. ASSUME NEW a \in DOMAIN s
      PROVE  /\ a \in Int /\ pool.first <= a /\ a < end /\ a % Align = 0
             /\ s[a] \in Nat /\ s[a] >= HEAP_STRUCT_SIZE /\ a + s[a] <= end
             /\ \A b \in DOMAIN s \cup {end} : b <= a \/ a + s[a] <= b
  BY <1>2, <1>3 DEF Tiling
<1>5. ASSUME NEW p \in DOMAIN live
      PROVE  /\ x(p) \in DOMAIN s /\ p \in Int /\ live[p] \in Nat
             /\ live[p] + HEAP_STRUCT_SIZE <= s[x(p)] /\ p = x(p) + HEAP_STRUCT_SIZE
  <2>1. /\ x(p) \in Used(h, end) /\ p \in Int /\ live[p] \in Nat
        /\ live[p] + HEAP_STRUCT_SIZE <= s[x(p)]
    BY <1>1 DEF Owned, s
  <2>. QED BY <1>2, <1>3, <2>1 DEF Used
<1>. HIDE DEF x
<1>6. ASSUME NEW p \in DOMAIN live
      PROVE  p % Align = 0 /\ p > pool.first /\ p + live[p] <= end
  <2>1. (x(p) + HEAP_STRUCT_SIZE) % Align = 0
    BY <1>2, <1>4, <1>5, AlignedSum
  <2>. QED BY <1>2, <1>3, <1>4, <1>5, <2>1
<1>7. ASSUME NEW p \in DOMAIN live, NEW q \in DOMAIN live \ {p}
      PROVE  (p .. (p + live[p] - 1)) \cap (q .. (q + live[q] - 1)) = {}
  <2>1. /\ x(q) <= x(p) \/ x(p) + s[x(p)] <= x(q)
        /\ x(p) <= x(q) \/ x(q) + s[x(q)] <= x(p)
    BY <1>4, <1>5
  <2>2. p + live[p] <= q \/ q + live[q] <= p
    BY <1>2, <1>4, <1>5, <2>1
  <2>. QED BY <1>5, <2>2
<1>8. ASSUME NEW p \in DOMAIN live, NEW a \in DOMAIN h \ {StartAddr}
      PROVE  (p .. (p + live[p] - 1)) \cap (a .. (a + SizeofBlock - 1)) = {}
  <2>1. a \in DOMAIN s \cup {end} /\ a \in Int
    BY <1>3, <1>4 DEF Cells
  <2>2. a <= x(p) \/ x(p) + s[x(p)] <= a
    BY <1>4, <1>5, <2>1
  <2>3. a < x(p) => a \in DOMAIN s
    BY <1>3, <1>4, <1>5, <2>1
  <2>4. a < x(p) => a + s[a] <= x(p) /\ s[a] \in Nat /\ s[a] >= HEAP_STRUCT_SIZE
    BY <1>4, <1>5, <2>1, <2>3
  <2>5. p + live[p] <= a \/ a + SizeofBlock <= p
    BY <1>2, <1>4, <1>5, <2>1, <2>2, <2>4
  <2>. QED BY <1>2, <1>5, <2>1, <2>5
<1>. QED BY <1>6, <1>7, <1>8 DEF PayloadsApart

(* It says that every block in use is within reach of free().                 *)
LEMMA InvNothingLost ==
  ASSUME PoolInv
  PROVE  NothingLost
<1>1. ASSUME NEW a \in Blocks, ~IsFree(a)
      PROVE  a \in Used(pool.header, pool.end)
  <2>1. a \in Cells(pool.header, pool.end)
    BY DEF Blocks, Cells
  <2>2. pool.header[a].blockSize \in Nat /\ ~(pool.header[a].blockSize < BLOCK_ALLOCATED_BIT)
    BY <1>1, <2>1, SizesOf, PoolAssumption DEF PoolInv, Kept, IsFree, Allocated, PoolAssumption
  <2>. QED BY <2>1, <2>2 DEF Used, Freed
<1>. QED BY <1>1 DEF NothingLost, PoolInv, Owned

(* The headers tile the area, the free ones are the list in address order     *)
(* with no two of them neighbours, their sizes sum up to what is counted, and *)
(* the others are what the application holds, each with room for its request. *)
THEOREM PoolTiled == PoolSpec => []PoolInv
<1>1. PoolInit => PoolInv
  BY PoolInitInv
<1>2. PoolInv /\ [PoolNext]_poolVars => PoolInv'
  BY PoolNextInv
<1>. QED BY <1>1, <1>2, PTL DEF PoolSpec

(* No byte of the area is lost, given twice or given where a header lies, for *)
(* every area, alignment and sequence of alloc() and free() (memory.cpp       *)
(* 31-171).                                                                   *)
THEOREM PoolIsSound == PoolSpec => []PoolSound
<1>1. PoolInv => PoolSound
  BY InvBlocksTile, InvPayloadsApart, InvNothingLost DEF PoolSound
<1>. QED BY <1>1, PoolTiled, PTL
-----------------------------------------------------------------------------
(* Coroutines: semaphores and delays.                                         *)

CoTypes ==
  /\ program \in Programs
  /\ label \in [Routine -> Int] /\ prev \in [Routine -> Int] /\ position \in [Routine -> Int]
  /\ running \in Routine \cup {NOBODY} /\ at \in Nat /\ (running # NOBODY => at > 0)
  /\ timer \in [Routine -> Int] /\ waited \in [Routine -> Nat] /\ delaying \in [Routine -> Nat]
  /\ count \in [DOMAIN InitialCount -> Nat] /\ buffer \in Int

(* While the last wait of a routine is a delay, its timer and the time gone   *)
(* make up what was asked for.                                                *)
DelayRuns(r) ==
  delaying[r] # BEGINNING =>
    /\ delaying[r] \in DOMAIN program[r] /\ program[r][delaying[r]].op = "delay"
    /\ program[r][delaying[r]].arg > 0 =>
         timer[r] \in Nat /\ waited[r] + timer[r] >= program[r][delaying[r]].arg

(* The places a routine can be entered at, and those it can be set back to.   *)
Noted(r) == {BEGINNING} \cup {i \in DOMAIN program[r] : program[r][i].op = "getPosition"}
Entries(r) == {UNDEFINED, SUSPENDED} \cup Noted(r) \cup {i \in DOMAIN program[r] : program[r][i].op \in Blocking}

(* A routine that has been entered by its label still has it; one that runs   *)
(* to an until has the label of its perform.                                  *)
LabelsKept ==
  /\ \A r \in Routine : label[r] \in Entries(r) /\ prev[r] \in Entries(r) /\ position[r] \in Noted(r)
  /\ running # NOBODY =>
       /\ at \in 1..(Len(program[running]) + 1)
       /\ resumed => at = label[running]
       /\ (at <= Len(program[running]) /\ Stmt.op = "until") =>
            (label[running] = at - 1 /\ at - 1 \in DOMAIN program[running] /\ program[running][at - 1].op = "perform")

(* A semaphore's count, with what the buffer holds of its kind, and the       *)
(* routines that own one, where they stand or where a handle may put them     *)
(* back, are never more than there were.                                      *)
Kind == {Lock(s) : s \in DOMAIN InitialCount} \cup {k \in {Space, Goods} : k.sem \in DOMAIN InitialCount}
Worth(k) == IF k = Space THEN buffer ELSE IF k = Goods THEN 0 - buffer ELSE 0
Spot(r) == IF running = r THEN at ELSE label[r]
Inside(k) == {r \in Routine : Owns(r, Spot(r), k)}
PutAside(k) == {r \in Routine : Owns(r, prev[r], k)}
Covered(k) == count[k.sem] + Worth(k) + Cardinality(Inside(k)) + Cardinality(PutAside(k)) <= InitialCount[k.sem]

Tame == FromHandlers => Handled \cap Routine = {}

CoInv ==
  /\ CoTypes
  /\ \A r \in Routine : DelayRuns(r)
  /\ Tame => (LabelsKept /\ \A k \in Kind : Balanced(k) => Covered(k))

(* What a program is made of.                                                 *)
LEMMA StatementsAre ==
  ASSUME CoTypes, NEW r \in Routine
  PROVE  /\ IsFiniteSet(Routine) /\ r # NOBODY /\ NOBODY \notin Routine
         /\ Len(program[r]) \in Nat /\ DOMAIN program[r] = 1..Len(program[r])
         /\ \A i \in DOMAIN program[r] : program[r][i] \in Statement
         /\ \A i \in DOMAIN program[r] :
              program[r][i].op = "until" => i > 1 /\ program[r][i - 1].op = "perform"
<1>1. IsFiniteSet(Routine) /\ NOBODY \notin Routine /\ WellFormed(program[r])
  BY CoAssumption DEF CoTypes, Routine
<1>2. program[r] \in Seq(Statement)
  BY <1>1 DEF WellFormed
<1>3. Len(program[r]) \in Nat /\ DOMAIN program[r] = 1..Len(program[r])
      /\ \A i \in DOMAIN program[r] : program[r][i] \in Statement
  BY <1>2
<1>. QED BY <1>1, <1>3 DEF WellFormed

(* Kinds differ in what they are taken and given by.                          *)
LEMMA KindIs ==
  ASSUME NEW k \in Kind
  PROVE  /\ k.sem \in DOMAIN InitialCount
         /\ k = Space \/ k = Goods \/ (k.takes = "none" /\ k.gives = "none" /\ k # Space /\ k # Goods)
         /\ Space.takes = "get" /\ Space.gives = "put" /\ Goods.takes = "put" /\ Goods.gives = "get"
         /\ Space # Goods
<1>1. Space.takes = "get" /\ Space.gives = "put" /\ Goods.takes = "put" /\ Goods.gives = "get"
  BY DEF Space, Goods
<1>2. CASE k \in {Space, Goods}
  BY <1>1, <1>2 DEF Kind, Lock
<1>3. ASSUME NEW s \in DOMAIN InitialCount, k = Lock(s) PROVE k.sem = s /\ k.takes = "none" /\ k.gives = "none"
  BY <1>3 DEF Lock
<1>. QED BY <1>1, <1>2, <1>3 DEF Kind

(* A routine owns at the next statement what it takes at this one, or owned   *)
(* before and does not give.                                                  *)
LEMMA OwnsNext ==
  ASSUME NEW r, NEW p \in Nat, p > 0, NEW k
  PROVE  Owns(r, p + 1, k) <=> (Takes(k, program[r][p]) \/ (Owns(r, p, k) /\ ~Gives(k, program[r][p])))
<1>1. 1..((p + 1) - 1) = (1..(p - 1)) \cup {p} /\ p \notin 1..(p - 1)
  OBVIOUS
<1>2. \A i \in 1..(p - 1) : (i + 1)..((p + 1) - 1) = ((i + 1)..(p - 1)) \cup {p}
  OBVIOUS
<1>3. (p + 1)..((p + 1) - 1) = {}
  OBVIOUS
<1>. QED BY <1>1, <1>2, <1>3, Zenon DEF Owns

LEMMA OwnsNothing ==
  ASSUME NEW r, NEW k, NEW p \in Int, p <= 1
  PROVE  ~Owns(r, p, k)
<1>1. 1..(p - 1) = {}
  OBVIOUS
<1>. QED BY <1>1 DEF Owns

(* Where a routine can be set back to, it owns nothing.                       *)
LEMMA NotedIsFree ==
  ASSUME NEW r \in Routine, NEW k, Balanced(k), NEW p \in Noted(r)
  PROVE  ~Owns(r, p, k)
<1>1. CASE p = BEGINNING
  BY <1>1, OwnsNothing DEF BEGINNING
<1>2. CASE p # BEGINNING
  BY <1>2 DEF Noted, Balanced
<1>. QED BY <1>1, <1>2

LEMMA CoStarts == CoInit => CoInv
<1>. SUFFICES ASSUME CoInit PROVE CoInv
  OBVIOUS
<1>1. CoTypes
  BY CoAssumption DEF CoInit, CoTypes, UNDEFINED, BEGINNING, DISARMED
<1>2. \A r \in Routine : DelayRuns(r)
  BY DEF CoInit, DelayRuns
<1>3. LabelsKept
  BY DEF CoInit, LabelsKept, Entries, Noted
<1>4. ASSUME NEW k \in Kind PROVE Covered(k)
  <2>1. Inside(k) = {} /\ PutAside(k) = {}
    <3>1. \A r \in Routine : Spot(r) = 0 /\ prev[r] = -2
      BY <1>1, StatementsAre DEF CoInit, Spot, BEGINNING, UNDEFINED
    <3>. QED BY <3>1, OwnsNothing DEF Inside, PutAside
  <2>2. Cardinality({}) = 0
    BY FS_EmptySet
  <2>3. k.sem \in DOMAIN InitialCount /\ InitialCount[k.sem] \in Nat
    BY KindIs, CoAssumption
  <2>4. count = InitialCount /\ Worth(k) = 0
    BY DEF CoInit, Worth
  <2>. QED BY <2>1, <2>2, <2>3, <2>4 DEF Covered
<1>. QED BY <1>1, <1>2, <1>3, <1>4 DEF CoInv

(* What the invariant means for the semaphores.                               *)
LEMMA SemaphoresCover == CoInv => SemaphoresGuard
<1>. SUFFICES ASSUME CoInv, Tame PROVE
        /\ \A s \in DOMAIN InitialCount :
             Balanced(Lock(s)) => Cardinality({r \in Routine : Owns(r, Standing(r), Lock(s))}) <= InitialCount[s]
        /\ ({"full", "empty"} \subseteq DOMAIN InitialCount /\ Balanced(Space) /\ Balanced(Goods)) =>
             buffer + InitialCount["empty"] \in 0..(InitialCount["full"] + InitialCount["empty"])
  BY DEF SemaphoresGuard, Tame
<1>0. IsFiniteSet(Routine) /\ CoTypes
  BY CoAssumption DEF CoInv, CoTypes, Routine
<1>1. ASSUME NEW k \in Kind
      PROVE  /\ IsFiniteSet(Inside(k)) /\ IsFiniteSet(PutAside(k))
             /\ Cardinality(Inside(k)) \in Nat /\ Cardinality(PutAside(k)) \in Nat
             /\ count[k.sem] \in Nat /\ InitialCount[k.sem] \in Nat
  <2>1. Inside(k) \subseteq Routine /\ PutAside(k) \subseteq Routine
    BY DEF Inside, PutAside
  <2>2. IsFiniteSet(Inside(k)) /\ IsFiniteSet(PutAside(k))
    BY <1>0, <2>1, FS_Subset
  <2>. QED BY <1>0, <2>2, FS_CardinalityType, KindIs, CoAssumption DEF CoTypes
<1>2. ASSUME NEW s \in DOMAIN InitialCount, Balanced(Lock(s))
      PROVE  Cardinality({r \in Routine : Owns(r, Standing(r), Lock(s))}) <= InitialCount[s]
  <2>. DEFINE k == Lock(s)
              In == {r \in Routine : Owns(r, Standing(r), k)}
  <2>1. k \in Kind /\ k.sem = s /\ Worth(k) = 0
    BY DEF Kind, Lock, Worth, Space, Goods
  <2>2. In \subseteq Inside(k) \cup PutAside(k)
    BY DEF Standing, Spot, Inside, PutAside
  <2>. HIDE DEF k
  <2>3. IsFiniteSet(Inside(k) \cup PutAside(k)) /\ Cardinality(Inside(k) \cup PutAside(k)) \in Nat
        /\ Cardinality(Inside(k) \cup PutAside(k)) <= Cardinality(Inside(k)) + Cardinality(PutAside(k))
    <3>1. IsFiniteSet(Inside(k)) /\ IsFiniteSet(PutAside(k))
          /\ Cardinality(Inside(k)) \in Nat /\ Cardinality(PutAside(k)) \in Nat
      BY <1>1, <2>1
    <3>2. /\ IsFiniteSet(Inside(k) \cup PutAside(k))
          /\ Cardinality(Inside(k) \cup PutAside(k)) =
               Cardinality(Inside(k)) + Cardinality(PutAside(k)) - Cardinality(Inside(k) \cap PutAside(k))
      BY <3>1, FS_Union
    <3>3. Cardinality(Inside(k) \cap PutAside(k)) \in Nat /\ Cardinality(Inside(k) \cup PutAside(k)) \in Nat
      BY <3>1, <3>2, FS_Intersection, FS_CardinalityType
    <3>. QED BY <3>1, <3>2, <3>3
  <2>4. Cardinality(In) \in Nat /\ Cardinality(In) <= Cardinality(Inside(k) \cup PutAside(k))
    BY <2>2, <2>3, FS_Subset, FS_CardinalityType
  <2>5. Covered(k)
    BY <1>2, <2>1 DEF CoInv, k
  <2>6. Cardinality(In) <= InitialCount[s]
    BY <1>1, <2>1, <2>3, <2>4, <2>5 DEF Covered
  <2>. QED BY <2>6 DEF k
<1>3. ASSUME {"full", "empty"} \subseteq DOMAIN InitialCount, Balanced(Space), Balanced(Goods)
      PROVE  buffer + InitialCount["empty"] \in 0..(InitialCount["full"] + InitialCount["empty"])
  <2>1. Space \in Kind /\ Goods \in Kind /\ Space.sem = "full" /\ Goods.sem = "empty" /\ Space # Goods
    BY <1>3 DEF Kind, Space, Goods
  <2>2. Covered(Space) /\ Covered(Goods) /\ Worth(Space) = buffer /\ Worth(Goods) = 0 - buffer
    BY <1>3, <2>1 DEF CoInv, Worth
  <2>3. buffer \in Int
    BY <1>0 DEF CoTypes
  <2>4. /\ count["full"] + buffer + Cardinality(Inside(Space)) + Cardinality(PutAside(Space)) <= InitialCount["full"]
        /\ count["empty"] + (0 - buffer) + Cardinality(Inside(Goods)) + Cardinality(PutAside(Goods)) <= InitialCount["empty"]
    BY <2>1, <2>2 DEF Covered
  <2>5. /\ Cardinality(Inside(Space)) \in Nat /\ Cardinality(PutAside(Space)) \in Nat
        /\ Cardinality(Inside(Goods)) \in Nat /\ Cardinality(PutAside(Goods)) \in Nat
        /\ count["full"] \in Nat /\ InitialCount["full"] \in Nat
        /\ count["empty"] \in Nat /\ InitialCount["empty"] \in Nat
    BY <1>1, <2>1
  <2>. QED BY <2>3, <2>4, <2>5
<1>. QED BY <1>2, <1>3

(* The statement that runs.                                                   *)
LEMMA StmtIs ==
  ASSUME CoTypes, running # NOBODY, at <= Len(program[running])
  PROVE  /\ running \in Routine /\ at \in DOMAIN program[running] /\ Stmt \in Statement
         /\ Stmt.op \in {"semWait", "semSignal"} => Stmt.arg \in DOMAIN InitialCount
         /\ Stmt.op \in {"delay", "perform"} => Stmt.arg \in 0..MaxTime
<1>1. running \in Routine /\ at \in DOMAIN program[running]
  BY StatementsAre DEF CoTypes
<1>2. Stmt \in Statement
  BY <1>1, StatementsAre DEF Stmt
<1>. HIDE DEF Stmt
<1>. QED BY <1>1, <1>2 DEF Statement

LEMMA CoTypesStep == CoTypes /\ [CoNext]_coVars => CoTypes' /\ program' = program
<1>. SUFFICES ASSUME CoTypes, [CoNext]_coVars PROVE CoTypes' /\ program' = program
  OBVIOUS
<1>0. /\ (running # NOBODY /\ at <= Len(program[running])) =>
           /\ running \in Routine /\ at \in Nat /\ at > 0
           /\ Stmt.op \in {"semWait", "semSignal"} => Stmt.arg \in DOMAIN InitialCount
           /\ Stmt.op \in {"delay", "perform"} => Stmt.arg \in Nat
      /\ running # NOBODY => running \in Routine
  BY StmtIs, CoAssumption DEF CoTypes
<1>. HIDE DEF Stmt
<1>. USE DEF CoTypes, Routine, world, handles, data, time
<1>1. ASSUME NEW r \in Routine, Reenter(r) PROVE CoTypes' /\ program' = program
  BY <1>1 DEF Reenter, BEGINNING, SUSPENDED
<1>2. ASSUME NEW r \in Routine, try_restart(r) \/ try_suspend(r) \/ try_resume(r)
      PROVE  CoTypes' /\ program' = program
  BY <1>2 DEF try_restart, try_suspend, try_resume, try_set, untouched, BEGINNING, SUSPENDED, UNDEFINED
<1>3. CASE Save
  <2>1. /\ running \in Routine /\ at \in Nat /\ Stmt.op \in Blocking /\ Leave /\ label' = [label EXCEPT ![running] = at]
        /\ delaying' = [delaying EXCEPT ![running] = IF Stmt.op = "delay" THEN at ELSE BEGINNING]
        /\ waited' = [waited EXCEPT ![running] = 0] /\ UNCHANGED <<world, handles, data>>
    BY <1>0, <1>3 DEF Save, LeaveAs
  <2>2. timer' \in [Routine -> Int]
    <3>1. \/ Stmt.arg \in Nat /\ TimerSet(Stmt.arg)
          \/ TimerDisarm
          \/ timer' = timer
      BY <1>0, <1>3 DEF Save
    <3>. QED BY <2>1, <3>1 DEF TimerSet, TimerDisarm, DISARMED
  <2>3. label' \in [Routine -> Int] /\ delaying' \in [Routine -> Nat] /\ waited' \in [Routine -> Nat]
    BY <2>1 DEF BEGINNING
  <2>. QED BY <2>1, <2>2, <2>3 DEF Leave
<1>4. CASE Resume
  <2>1. count' \in [DOMAIN InitialCount -> Nat]
    BY <1>0, <1>4 DEF Resume, Goes, tryLock
  <2>. QED BY <1>0, <1>4, <2>1 DEF Resume, Pass, Leave
<1>5. CASE until \/ restart \/ setPosition \/ getPosition \/ Finish
  <2>1. CASE until
    BY <1>0, <2>1 DEF until, Reaches, Pass, Leave
  <2>2. CASE restart
    BY <1>0, <2>2 DEF restart, Reaches, LeaveAs, Leave, BEGINNING
  <2>5. CASE Finish
    BY <1>0, <2>5 DEF Finish, LeaveAs, Leave, SUSPENDED
  <2>3. CASE setPosition
    BY <1>0, <2>3 DEF setPosition, Reaches, LeaveAs, Leave
  <2>4. CASE getPosition
    BY <1>0, <2>4 DEF getPosition, Reaches, Pass
  <2>. QED BY <1>5, <2>1, <2>2, <2>3, <2>4, <2>5
<1>6. CASE semSignal \/ PutItem \/ GetItem
  <2>1. CASE semSignal
    BY <1>0, <2>1 DEF semSignal, Reaches, Pass
  <2>2. CASE PutItem
    BY <1>0, <2>2 DEF PutItem, Reaches, Pass
  <2>3. CASE GetItem
    BY <1>0, <2>3 DEF GetItem, Reaches, Pass
  <2>. QED BY <1>6, <2>1, <2>2, <2>3
<1>7. CASE Tick
  BY <1>7 DEF Tick
<1>8. CASE Toggle \/ UNCHANGED coVars
  BY <1>8 DEF Toggle, coVars
<1>. QED BY <1>1, <1>2, <1>3, <1>4, <1>5, <1>6, <1>7, <1>8 DEF CoNext, Running

(* A delay is honoured: only a save touches the timer or begins a wait.       *)
LEMMA DelaysStep ==
  ASSUME CoTypes, \A r \in Routine : DelayRuns(r), [CoNext]_coVars
  PROVE  \A r \in Routine : DelayRuns(r)'
<1>0. program' = program /\ CoTypes'
  BY CoTypesStep
<1>1. CASE UNCHANGED time
  BY <1>0, <1>1 DEF DelayRuns, time, Routine
<1>2. CASE Save
  <2>. SUFFICES ASSUME NEW r \in Routine PROVE DelayRuns(r)'
    BY <1>0
  <2>1. /\ running \in Routine /\ at \in DOMAIN program[running] /\ Stmt.op \in Blocking
        /\ Stmt.op \in {"delay", "perform"} => Stmt.arg \in 0..MaxTime
        /\ delaying' = [delaying EXCEPT ![running] = IF Stmt.op = "delay" THEN at ELSE BEGINNING]
        /\ waited' = [waited EXCEPT ![running] = 0]
        /\ Stmt = program[running][at]
    BY <1>2, StmtIs DEF Save, Stmt
  <2>2. CASE r # running
    <3>1. timer'[r] = timer[r]
      BY <1>2, <2>2 DEF CoTypes, Save, TimerSet, TimerDisarm, Routine
    <3>2. delaying'[r] = delaying[r] /\ waited'[r] = waited[r]
      BY <2>1, <2>2 DEF CoTypes
    <3>. QED BY <1>0, <3>1, <3>2 DEF DelayRuns
  <2>3. CASE r = running /\ Stmt.op # "delay"
    <3>1. delaying'[r] = BEGINNING
      BY <2>1, <2>3 DEF CoTypes
    <3>. QED BY <3>1 DEF DelayRuns
  <2>4. CASE r = running /\ Stmt.op = "delay"
    <3>1. delaying'[r] = at /\ waited'[r] = 0
      BY <2>1, <2>4 DEF CoTypes
    <3>2. Stmt.arg > 0 => timer'[r] = Stmt.arg
      BY <1>2, <2>4 DEF CoTypes, Save, TimerSet
    <3>3. Stmt.arg \in Nat
      BY <2>1, <2>4, CoAssumption
    <3>. QED BY <1>0, <2>1, <2>4, <3>1, <3>2, <3>3 DEF DelayRuns
  <2>. QED BY <2>2, <2>3, <2>4
<1>3. CASE Tick
  <2>. SUFFICES ASSUME NEW r \in Routine, delaying[r] # BEGINNING PROVE DelayRuns(r)'
    <3>1. delaying' = delaying
      BY <1>3 DEF Tick
    <3>. QED BY <1>0, <3>1 DEF DelayRuns
  <2>. DEFINE d == delaying[r]
              t == program[r][d].arg
  <2>1. /\ delaying' = delaying /\ d \in DOMAIN program[r] /\ program[r][d].op = "delay"
        /\ timer'[r] = IF timer[r] > 0 THEN timer[r] - 1 ELSE timer[r]
        /\ waited'[r] = IF waited[r] < MaxTime THEN waited[r] + 1 ELSE waited[r]
        /\ t > 0 => (timer[r] \in Nat /\ waited[r] + timer[r] >= t)
    BY <1>3 DEF Tick, DelayRuns
  <2>2. t \in 0..MaxTime /\ MaxTime \in Nat
    <3>1. program[r][d] \in Statement /\ program[r][d].op = "delay"
      BY <2>1, StatementsAre
    <3>. QED BY <3>1, CoAssumption DEF Statement
  <2>3. waited[r] \in Nat /\ timer[r] \in Int
    BY DEF CoTypes
  <2>. HIDE DEF t, d
  <2>4. t > 0 => (timer'[r] \in Nat /\ waited'[r] + timer'[r] >= t)
    BY <2>1, <2>2, <2>3
  <2>. QED BY <1>0, <2>1, <2>4 DEF DelayRuns, d, t
<1>4. Save \/ Tick \/ UNCHANGED time
  BY DEF CoNext, Running, Reenter, try_restart, try_suspend, try_resume, untouched, Resume, until, restart,
         setPosition, getPosition, semSignal, PutItem, GetItem, Finish, Toggle, coVars, time
<1>. QED BY <1>1, <1>2, <1>3, <1>4

LEMMA DelaysHonoured ==
  ASSUME CoTypes, \A r \in Routine : DelayRuns(r), [CoNext]_coVars
  PROVE  DelayHonoured
<1>. SUFFICES ASSUME running # NOBODY, at <= Len(program[running]), resumed, Stmt.op = "delay", at' = at + 1,
                     delaying[running] = at
              PROVE  waited[running] >= Stmt.arg
  BY DEF DelayHonoured
<1>1. /\ running \in Routine /\ at \in Nat /\ at > 0 /\ Stmt = program[running][at]
      /\ Stmt.arg \in Nat /\ waited[running] \in Nat /\ timer[running] \in Int
  BY StmtIs, CoAssumption DEF CoTypes, Stmt
<1>2. at' # at
  BY <1>1
<1>3. Resume
  <2>1. at \in Nat /\ Len(program[running]) \in Nat /\ ~(at > Len(program[running]))
    BY <1>1, StatementsAre
  <2>. HIDE DEF Stmt
  <2>. QED
    BY <1>2, <2>1 DEF CoNext, Running, Reenter, try_restart, try_suspend, try_resume, untouched, Save, until, restart,
           setPosition, getPosition, semSignal, PutItem, GetItem, Reaches, Finish, Tick, Toggle, coVars
<1>4. timer[running] = 0
  <2>1. Goes
    BY <1>1, <1>3 DEF Resume, Leave
  <2>. QED BY <2>1 DEF Goes, timeout
<1>5. at # BEGINNING
  BY <1>1 DEF BEGINNING
<1>. QED BY <1>1, <1>4, <1>5 DEF DelayRuns

(* Labels: what a routine is set to, and what it runs into.                   *)
LEMMA LabelsStep ==
  ASSUME CoTypes, Tame, LabelsKept, [CoNext]_coVars
  PROVE  LabelsKept'
<1>0. program' = program /\ CoTypes'
  BY CoTypesStep
<1>. DEFINE Set == \A r \in Routine : label'[r] \in Entries(r) /\ prev'[r] \in Entries(r) /\ position'[r] \in Noted(r)
            Run == running' # NOBODY =>
                     /\ at' \in 1..(Len(program[running']) + 1)
                     /\ resumed' => at' = label'[running']
                     /\ (at' <= Len(program[running']) /\ program[running'][at'].op = "until") =>
                          (label'[running'] = at' - 1 /\ at' - 1 \in DOMAIN program[running']
                             /\ program[running'][at' - 1].op = "perform")
<1>1. SUFFICES Set /\ Run
  BY <1>0 DEF LabelsKept, Entries, Noted, Stmt, Routine
<1>2. \A r \in Routine :
        /\ label[r] \in Entries(r) /\ prev[r] \in Entries(r) /\ position[r] \in Noted(r)
        /\ Noted(r) \subseteq Entries(r) /\ BEGINNING \in Noted(r)
        /\ SUSPENDED \in Entries(r) /\ UNDEFINED \in Entries(r)
  BY DEF LabelsKept, Entries, Noted
<1>3. running # NOBODY =>
        /\ running \in Routine /\ at \in 1..(Len(program[running]) + 1) /\ Len(program[running]) \in Nat
        /\ DOMAIN program[running] = 1..Len(program[running])
        /\ resumed => at = label[running]
        /\ (at <= Len(program[running]) /\ Stmt.op = "until") =>
             (label[running] = at - 1 /\ at - 1 \in DOMAIN program[running] /\ program[running][at - 1].op = "perform")
  BY StatementsAre DEF CoTypes, LabelsKept
(* The next statement of a routine is no until, unless this one is a perform  *)
(* that has been resumed.                                                     *)
<1>4. ASSUME Pass, running # NOBODY, at <= Len(program[running]), label' = label,
             Stmt.op # "perform" \/ resumed
      PROVE  Run
  <2>1. running' = running /\ at' = at + 1 /\ ~resumed' /\ running \in Routine
    BY <1>3, <1>4 DEF Pass
  <2>2. at + 1 \in 1..(Len(program[running]) + 1) /\ (at + 1) - 1 = at /\ at \in DOMAIN program[running]
    BY <1>3, <1>4
  <2>3. ASSUME at + 1 <= Len(program[running]), program[running][at + 1].op = "until"
        PROVE  label[running] = at /\ program[running][at].op = "perform"
    <3>1. at + 1 \in DOMAIN program[running]
      BY <1>3, <2>2, <2>3
    <3>2. program[running][(at + 1) - 1].op = "perform"
      BY <2>1, <2>3, <3>1, StatementsAre
    <3>. QED BY <1>3, <1>4, <2>1, <2>2, <3>2 DEF Stmt
  <2>. QED BY <1>4, <2>1, <2>2, <2>3
<1>5. ASSUME running' = NOBODY PROVE Run
  BY <1>5
<1>6. ASSUME running' = running, at' = at, resumed' = resumed, label' = label PROVE Run
  BY <1>3, <1>6 DEF Stmt
<1>7. ASSUME label' = label, prev' = prev, position' = position PROVE Set
  BY <1>2, <1>7
<1>8. ASSUME NEW l, label' = [label EXCEPT ![running] = l], prev' = prev, position' = position,
             running \in Routine, l \in Entries(running)
      PROVE  Set
  BY <1>2, <1>8 DEF CoTypes
<1>. HIDE DEF Run, Set
<1>9. ASSUME NEW r \in Routine, Reenter(r) PROVE Set /\ Run
  <2>. USE DEF Set, Run
  <2>1. /\ running = NOBODY /\ prev' = prev /\ position' = position
        /\ IF label[r] >= BEGINNING
           THEN /\ running' = r /\ resumed' = (label[r] # BEGINNING)
                /\ at' = IF label[r] = BEGINNING THEN 1 ELSE label[r]
                /\ label' = label
           ELSE label' = [label EXCEPT ![r] = SUSPENDED] /\ running' = running
    BY <1>9 DEF Reenter, data
  <2>2. Set
    BY <1>2, <2>1 DEF CoTypes
  <2>3. Len(program[r]) \in Nat /\ DOMAIN program[r] = 1..Len(program[r]) /\ label[r] \in Entries(r)
        /\ \A i \in DOMAIN program[r] : program[r][i].op = "until" => i > 1
    BY <1>2, StatementsAre
  <2>4. CASE label[r] = BEGINNING
    <3>1. label[r] >= BEGINNING
      BY <2>4 DEF BEGINNING
    <3>2. running' = r /\ ~resumed' /\ at' = 1
      BY <2>1, <2>4, <3>1
    <3>3. 1 \in 1..(Len(program[r]) + 1) /\ ~(1 > 1)
      BY <2>3
    <3>4. 1 <= Len(program[r]) => program[r][1].op # "until"
      BY <2>3, <3>3
    <3>. QED BY <2>2, <3>2, <3>3, <3>4
  <2>5. CASE label[r] # BEGINNING /\ label[r] >= BEGINNING
    <3>1. label[r] \in DOMAIN program[r] /\ program[r][label[r]].op # "until"
      BY <2>3, <2>5 DEF Entries, Noted, Blocking, BEGINNING, UNDEFINED, SUSPENDED
    <3>. QED BY <2>1, <2>2, <2>3, <2>5, <3>1
  <2>6. CASE ~(label[r] >= BEGINNING)
    BY <2>1, <2>2, <2>6
  <2>. QED BY <2>2, <2>4, <2>5, <2>6
<1>10. ASSUME NEW r \in Routine, try_restart(r) \/ try_suspend(r) \/ try_resume(r) PROVE Set /\ Run
  <2>1. running = NOBODY /\ running' = NOBODY /\ position' = position
    BY <1>10 DEF Tame, try_restart, try_suspend, try_resume, Controls, untouched, data
  <2>2. Set
    BY <1>2, <1>10, <2>1 DEF CoTypes, try_restart, try_suspend, try_resume, try_set, Set
  <2>. QED BY <1>5, <2>1, <2>2
<1>11. CASE Save
  <2>1. /\ running' = NOBODY /\ label' = [label EXCEPT ![running] = at] /\ prev' = prev /\ position' = position
        /\ running # NOBODY /\ at <= Len(program[running]) /\ Stmt.op \in Blocking
    BY <1>11 DEF Save, LeaveAs, Leave, handles, data
  <2>2. running \in Routine /\ at \in Entries(running)
    BY <1>3, <2>1 DEF Entries, Stmt
  <2>. QED BY <1>5, <1>8, <2>1, <2>2
<1>12. CASE Resume
  <2>1. /\ running # NOBODY /\ at <= Len(program[running]) /\ resumed
        /\ label' = label /\ prev' = prev /\ position' = position /\ (Pass \/ running' = NOBODY)
    BY <1>12 DEF Resume, Leave, handles
  <2>. QED BY <1>4, <1>5, <1>7, <2>1
<1>13. CASE until
  <2>1. /\ running # NOBODY /\ at <= Len(program[running]) /\ Stmt.op # "perform"
        /\ label' = label /\ prev' = prev /\ position' = position /\ (Pass \/ running' = NOBODY)
    BY <1>13 DEF until, Reaches, Leave, handles, data
  <2>. QED BY <1>4, <1>5, <1>7, <2>1
<1>14. CASE restart \/ setPosition \/ Finish
  <2>1. PICK l \in {BEGINNING, SUSPENDED, position[running]} :
          /\ running # NOBODY /\ running' = NOBODY /\ label' = [label EXCEPT ![running] = l]
          /\ prev' = prev /\ position' = position
    BY <1>14 DEF restart, setPosition, Finish, Reaches, LeaveAs, Leave, handles, data
  <2>2. running \in Routine /\ l \in Entries(running)
    BY <1>2, <1>3, <2>1
  <2>. QED BY <1>5, <1>8, <2>1, <2>2
<1>15. CASE getPosition
  <2>1. /\ running # NOBODY /\ at <= Len(program[running]) /\ Stmt.op = "getPosition" /\ Pass
        /\ label' = label /\ prev' = prev
        /\ position' = position \/ position' = [position EXCEPT ![running] = at]
    BY <1>15 DEF getPosition, Reaches, handles
  <2>2. running \in Routine /\ at \in Noted(running)
    BY <1>3, <2>1 DEF Noted, Stmt
  <2>3. Set
    BY <1>2, <2>1, <2>2 DEF CoTypes, Set
  <2>. QED BY <1>4, <2>1, <2>3
<1>16. CASE semSignal \/ PutItem \/ GetItem
  <2>1. /\ running # NOBODY /\ at <= Len(program[running]) /\ Stmt.op # "perform" /\ Pass
        /\ label' = label /\ prev' = prev /\ position' = position
    BY <1>16 DEF semSignal, PutItem, GetItem, Reaches, handles
  <2>. QED BY <1>4, <1>7, <2>1
<1>17. CASE Tick \/ Toggle \/ UNCHANGED coVars
  BY <1>6, <1>7, <1>17 DEF Tick, Toggle, coVars, handles, data
<1>. QED BY <1>9, <1>10, <1>11, <1>12, <1>13, <1>14, <1>15, <1>16, <1>17 DEF CoNext, Running

LEMMA Amounts ==
  ASSUME CoTypes, NEW k \in Kind
  PROVE  /\ IsFiniteSet(Inside(k)) /\ IsFiniteSet(PutAside(k))
         /\ Cardinality(Inside(k)) \in Nat /\ Cardinality(PutAside(k)) \in Nat
         /\ count[k.sem] \in Nat /\ InitialCount[k.sem] \in Nat /\ Worth(k) \in Int
<1>1. IsFiniteSet(Routine)
  BY CoAssumption DEF CoTypes, Routine
<1>2. Inside(k) \subseteq Routine /\ PutAside(k) \subseteq Routine
  BY DEF Inside, PutAside
<1>3. IsFiniteSet(Inside(k)) /\ IsFiniteSet(PutAside(k))
  BY <1>1, <1>2, FS_Subset
<1>4. Worth(k) \in Int
  BY DEF Worth, CoTypes
<1>. QED BY <1>3, <1>4, FS_CardinalityType, KindIs, CoAssumption DEF CoTypes

LEMMA OwnersNext ==
  ASSUME program' = program, NEW k
  PROVE  /\ Inside(k)' = {q \in Routine : Owns(q, Spot(q)', k)}
         /\ PutAside(k)' = {q \in Routine : Owns(q, prev'[q], k)}
BY DEF Inside, PutAside, Owns, Routine

(* Nothing is taken, and nobody owns what it did not.                         *)
LEMMA Unspent ==
  ASSUME CoTypes, CoTypes', program' = program, NEW k \in Kind, Covered(k),
         count' = count, buffer' = buffer, Inside(k)' \subseteq Inside(k), PutAside(k)' \subseteq PutAside(k)
  PROVE  Covered(k)'
<1>1. Cardinality(Inside(k)') \in Nat /\ Cardinality(PutAside(k)') \in Nat
      /\ Cardinality(Inside(k)') <= Cardinality(Inside(k)) /\ Cardinality(PutAside(k)') <= Cardinality(PutAside(k))
  BY Amounts, FS_Subset, FS_CardinalityType
<1>2. Worth(k)' = Worth(k)
  BY DEF Worth
<1>3. count'[k.sem] + Worth(k)' + Cardinality(Inside(k)') + Cardinality(PutAside(k)') <= InitialCount[k.sem]
  BY <1>1, <1>2, Amounts DEF Covered
<1>. QED BY <1>3 DEF Covered

LEMMA OneMoreOrLess ==
  ASSUME NEW S, IsFiniteSet(S), NEW T, NEW x
  PROVE  /\ T \subseteq S \cup {x} => (Cardinality(T) \in Nat /\ Cardinality(T) <= Cardinality(S) + 1)
         /\ (x \in S /\ T \subseteq S \ {x}) => (Cardinality(T) \in Nat /\ Cardinality(T) <= Cardinality(S) - 1)
<1>1. Cardinality(S) \in Nat
  BY FS_CardinalityType
<1>2. ASSUME T \subseteq S \cup {x} PROVE Cardinality(T) \in Nat /\ Cardinality(T) <= Cardinality(S) + 1
  <2>1. IsFiniteSet(S \cup {x}) /\ Cardinality(S \cup {x}) = IF x \in S THEN Cardinality(S) ELSE Cardinality(S) + 1
    BY FS_AddElement
  <2>2. Cardinality(T) \in Nat /\ Cardinality(T) <= Cardinality(S \cup {x})
    BY <1>2, <2>1, FS_Subset, FS_CardinalityType
  <2>. QED BY <1>1, <2>1, <2>2
<1>3. ASSUME x \in S, T \subseteq S \ {x} PROVE Cardinality(T) \in Nat /\ Cardinality(T) <= Cardinality(S) - 1
  <2>1. IsFiniteSet(S \ {x}) /\ Cardinality(S \ {x}) = Cardinality(S) - 1
    BY <1>3, FS_RemoveElement
  <2>2. Cardinality(T) \in Nat /\ Cardinality(T) <= Cardinality(S \ {x})
    BY <1>3, <2>1, FS_Subset, FS_CardinalityType
  <2>. QED BY <1>1, <2>1, <2>2
<1>. QED BY <1>2, <1>3

(* What a routine owns where it stands is owned where it is set back to, or   *)
(* the other way round.                                                       *)
LEMMA Moved ==
  ASSUME CoTypes, CoTypes', program' = program, NEW k \in Kind, Covered(k), NEW r,
         count' = count, buffer' = buffer,
         \/ r \in Inside(k) /\ Inside(k)' \subseteq Inside(k) \ {r} /\ PutAside(k)' \subseteq PutAside(k) \cup {r}
         \/ r \in PutAside(k) /\ PutAside(k)' \subseteq PutAside(k) \ {r} /\ Inside(k)' \subseteq Inside(k) \cup {r}
  PROVE  Covered(k)'
<1>. DEFINE h == Cardinality(Inside(k))
            c == Cardinality(PutAside(k))
            hn == Cardinality(Inside(k)')
            cn == Cardinality(PutAside(k)')
<1>1. h \in Nat /\ c \in Nat /\ IsFiniteSet(Inside(k)) /\ IsFiniteSet(PutAside(k))
      /\ count[k.sem] \in Nat /\ InitialCount[k.sem] \in Nat /\ Worth(k) \in Int
  BY Amounts
<1>2. hn \in Nat /\ cn \in Nat
      /\ ((hn <= h - 1 /\ cn <= c + 1) \/ (cn <= c - 1 /\ hn <= h + 1))
  BY <1>1, OneMoreOrLess
<1>3. Worth(k)' = Worth(k)
  BY DEF Worth
<1>4. count[k.sem] + Worth(k) + h + c <= InitialCount[k.sem]
  BY DEF Covered
<1>. HIDE DEF h, c, hn, cn
<1>5. count[k.sem] + Worth(k) + hn + cn <= InitialCount[k.sem]
  BY <1>1, <1>2, <1>4
<1>. QED BY <1>3, <1>5 DEF Covered, hn, cn

(* A statement that is passed takes what the routine then owns, and gives     *)
(* back only what it owned.                                                   *)
LEMMA Passed ==
  ASSUME CoTypes, CoTypes', program' = program, NEW k \in Kind, Covered(k), Balanced(k),
         running # NOBODY, at <= Len(program[running]), Pass, label' = label, prev' = prev,
         NEW earned \in Int, count'[k.sem] + Worth(k)' = count[k.sem] + Worth(k) + earned,
         earned <= (IF Takes(k, Stmt) THEN 0 - 1 ELSE IF Gives(k, Stmt) THEN 1 ELSE 0)
  PROVE  Covered(k)'
<1>1. /\ running \in Routine /\ at \in DOMAIN program[running] /\ at \in Nat /\ at > 0
      /\ Stmt = program[running][at]
  BY StmtIs DEF CoTypes, Stmt
<1>2. /\ \A q \in Routine : Spot(q) = IF running = q THEN at ELSE label[q]
      /\ \A q \in Routine : Spot(q)' = IF running = q THEN at + 1 ELSE label[q]
  BY DEF Spot, Pass
<1>0. Inside(k) = {q \in Routine : Owns(q, Spot(q), k)}
  BY DEF Inside
<1>3. PutAside(k)' = PutAside(k)
  BY OwnersNext DEF PutAside
<1>4. Owns(running, at + 1, k) <=> (Takes(k, Stmt) \/ (Owns(running, at, k) /\ ~Gives(k, Stmt)))
  BY <1>1, OwnsNext
<1>5. Inside(k)' \subseteq Inside(k) \cup {running}
  BY <1>0, <1>2, OwnersNext
<1>6. ASSUME ~Takes(k, Stmt) PROVE Inside(k)' \subseteq Inside(k)
  BY <1>0, <1>2, <1>4, <1>6, OwnersNext
<1>7. ASSUME ~Takes(k, Stmt), Gives(k, Stmt) PROVE running \in Inside(k) /\ Inside(k)' \subseteq Inside(k) \ {running}
  <2>1. Owns(running, at, k)
    BY <1>1, <1>7 DEF Balanced
  <2>2. ~Owns(running, at + 1, k)
    BY <1>4, <1>7
  <2>3. running \notin Inside(k)'
    BY <1>2, <2>2, OwnersNext
  <2>. QED BY <1>1, <1>2, <1>6, <1>7, <2>1, <2>3 DEF Inside
<1>. DEFINE was == Cardinality(Inside(k))
            is == Cardinality(Inside(k)')
<1>8. was \in Nat /\ IsFiniteSet(Inside(k)) /\ Cardinality(PutAside(k)) \in Nat
      /\ count[k.sem] \in Nat /\ InitialCount[k.sem] \in Nat /\ Worth(k) \in Int
  BY Amounts
<1>9. is \in Nat /\ is <= was + (IF Takes(k, Stmt) THEN 1 ELSE IF Gives(k, Stmt) THEN 0 - 1 ELSE 0)
  <2>1. CASE Takes(k, Stmt)
    BY <1>5, <1>8, <2>1, OneMoreOrLess
  <2>2. CASE ~Takes(k, Stmt) /\ Gives(k, Stmt)
    BY <1>7, <1>8, <2>2, OneMoreOrLess
  <2>3. CASE ~Takes(k, Stmt) /\ ~Gives(k, Stmt)
    BY <1>6, <1>8, <2>3, FS_Subset, FS_CardinalityType
  <2>. QED BY <2>1, <2>2, <2>3
<1>10. count[k.sem] + Worth(k) + was + Cardinality(PutAside(k)) <= InitialCount[k.sem]
  BY DEF Covered
<1>. HIDE DEF was, is
<1>11. (count[k.sem] + Worth(k) + earned) + is + Cardinality(PutAside(k)) <= InitialCount[k.sem]
  <2>1. earned + is <= was
    BY <1>8, <1>9
  <2>. QED BY <1>8, <1>9, <1>10, <2>1
<1>. QED BY <1>3, <1>11 DEF Covered, is

(* What a kind is taken and given by.                                         *)
LEMMA DealsIn ==
  ASSUME NEW k \in Kind, NEW s
  PROVE  /\ s.op \notin {"get", "put"} =>
              (Takes(k, s) <=> (s.op = "none" /\ s.op = k.takes) \/ (s.op = "semWait" /\ s.arg = k.sem))
         /\ s.op \notin {"get", "put"} =>
              (Gives(k, s) <=> (s.op = "none" /\ s.op = k.gives) \/ (s.op = "semSignal" /\ s.arg = k.sem))
         /\ s.op = "put" => ((Takes(k, s) <=> k = Goods) /\ (Gives(k, s) <=> k = Space))
         /\ s.op = "get" => ((Takes(k, s) <=> k = Space) /\ (Gives(k, s) <=> k = Goods))
BY KindIs DEF Takes, Gives

(* What a step does to what is owned and to what there is.                    *)
LEMMA CoversStep ==
  ASSUME CoTypes, Tame, LabelsKept, [CoNext]_coVars, NEW k \in Kind, Balanced(k), Covered(k)
  PROVE  Covered(k)'
<1>0. program' = program /\ CoTypes' /\ CoTypes
  BY CoTypesStep
<1>1. /\ Inside(k) = {q \in Routine : Owns(q, Spot(q), k)} /\ PutAside(k) = {q \in Routine : Owns(q, prev[q], k)}
      /\ Inside(k)' = {q \in Routine : Owns(q, Spot(q)', k)} /\ PutAside(k)' = {q \in Routine : Owns(q, prev'[q], k)}
  <2>1. Inside(k) = {q \in Routine : Owns(q, Spot(q), k)} /\ PutAside(k) = {q \in Routine : Owns(q, prev[q], k)}
    BY DEF Inside, PutAside
  <2>. QED BY <1>0, <2>1, OwnersNext
<1>2. /\ \A q \in Routine : Spot(q) = IF running = q THEN at ELSE label[q]
      /\ \A q \in Routine : Spot(q)' = IF running' = q THEN at' ELSE label'[q]
  BY DEF Spot
<1>3. \A r \in Routine : \A p \in Noted(r) \cup {UNDEFINED, SUSPENDED, 1} : ~Owns(r, p, k)
  <2>1. UNDEFINED \in Int /\ SUSPENDED \in Int /\ UNDEFINED <= 1 /\ SUSPENDED <= 1
    BY DEF UNDEFINED, SUSPENDED
  <2>. QED BY <2>1, NotedIsFree, OwnsNothing
<1>4. \A r \in Routine : r # NOBODY /\ BEGINNING \in Noted(r) /\ position[r] \in Noted(r)
  BY StatementsAre DEF LabelsKept, Noted
(* Nothing moves, or a routine is set back to where it owns nothing.          *)
<1>5. ASSUME count' = count, buffer' = buffer, prev' = prev,
             \A q \in Routine : Spot(q)' = Spot(q) \/ ~Owns(q, Spot(q)', k)
      PROVE  Covered(k)'
  <2>1. Inside(k)' \subseteq Inside(k) /\ PutAside(k)' \subseteq PutAside(k)
    BY <1>1, <1>5
  <2>. QED BY <1>0, <1>5, <2>1, Unspent
<1>6. ASSUME count' = count, buffer' = buffer, prev' = prev, label' = label, running' = running, at' = at
      PROVE  Covered(k)'
  BY <1>2, <1>5, <1>6
<1>7. ASSUME NEW l, l \in Noted(running) \cup {UNDEFINED, SUSPENDED, at}, running \in Routine,
             running' = NOBODY, label' = [label EXCEPT ![running] = l],
             count' = count, buffer' = buffer, prev' = prev
      PROVE  Covered(k)'
  <2>1. \A q \in Routine : Spot(q)' = IF running = q THEN l ELSE label[q]
    BY <1>2, <1>4, <1>7 DEF CoTypes
  <2>. QED BY <1>2, <1>3, <1>5, <1>7, <2>1
(* A routine leaves a condition it does not meet; a perform takes nothing.    *)
<1>8. ASSUME running \in Routine, running' = NOBODY, label' = label, at = label[running] \/ (at - 1 = label[running]
                /\ at - 1 \in DOMAIN program[running] /\ program[running][at - 1].op = "perform"),
             count' = count, buffer' = buffer, prev' = prev
      PROVE  Covered(k)'
  <2>1. CASE at = label[running]
    BY <1>2, <1>4, <1>5, <1>8, <2>1
  <2>2. CASE at # label[running]
    <3>1. at - 1 \in Nat /\ at - 1 > 0 /\ (at - 1) + 1 = at
      BY <1>8, <2>2, StatementsAre DEF CoTypes
    <3>2. ~Takes(k, program[running][at - 1]) /\ ~Gives(k, program[running][at - 1])
      BY <1>8, <2>2, DealsIn
    <3>3. Owns(running, at, k) <=> Owns(running, at - 1, k)
      BY <3>1, <3>2, OwnsNext
    <3>4. \A q \in Routine : Owns(q, Spot(q)', k) <=> Owns(q, Spot(q), k)
      BY <1>2, <1>4, <1>8, <2>2, <3>3
    <3>5. Inside(k)' \subseteq Inside(k) /\ PutAside(k)' \subseteq PutAside(k)
      BY <1>1, <1>8, <3>4
    <3>. QED BY <1>0, <1>8, <3>5, Unspent
  <2>. QED BY <2>1, <2>2
<1>9. ASSUME NEW r \in Routine, Reenter(r) PROVE Covered(k)'
  <2>1. /\ running = NOBODY /\ prev' = prev /\ count' = count /\ buffer' = buffer
        /\ IF label[r] >= BEGINNING
           THEN running' = r /\ at' = (IF label[r] = BEGINNING THEN 1 ELSE label[r]) /\ label' = label
           ELSE label' = [label EXCEPT ![r] = SUSPENDED] /\ running' = running
    BY <1>9 DEF Reenter, data
  <2>2. \A q \in Routine : Spot(q)' = Spot(q) \/ Spot(q)' \in {1, SUSPENDED}
    BY <1>2, <1>4, <2>1 DEF CoTypes
  <2>. QED BY <1>3, <1>5, <2>1, <2>2
<1>10. ASSUME NEW r \in Routine, try_restart(r) PROVE Covered(k)'
  <2>1. /\ running = NOBODY /\ running' = NOBODY /\ prev' = prev /\ count' = count /\ buffer' = buffer
        /\ label' = [label EXCEPT ![r] = BEGINNING]
    BY <1>10 DEF Tame, try_restart, try_set, Controls, untouched, data
  <2>2. \A q \in Routine : Spot(q)' = Spot(q) \/ (q = r /\ Spot(q)' = BEGINNING)
    BY <1>2, <1>4, <2>1 DEF CoTypes
  <2>. QED BY <1>3, <1>4, <1>5, <2>1, <2>2
<1>11. ASSUME NEW r \in Routine, try_suspend(r) PROVE Covered(k)'
  <2>1. /\ running = NOBODY /\ running' = NOBODY /\ count' = count /\ buffer' = buffer
        /\ label' = [label EXCEPT ![r] = SUSPENDED] /\ prev' = [prev EXCEPT ![r] = label[r]]
    BY <1>11 DEF Tame, try_suspend, try_set, Controls, untouched, data
  <2>2. /\ Spot(r) = label[r] /\ Spot(r)' = SUSPENDED /\ prev'[r] = label[r]
        /\ \A q \in Routine : q # r => (Spot(q)' = Spot(q) /\ prev'[q] = prev[q])
    BY <1>2, <1>4, <2>1 DEF CoTypes
  <2>3. ~Owns(r, Spot(r)', k)
    BY <1>3, <2>2
  <2>4. CASE Owns(r, label[r], k)
    <3>1. r \in Inside(k) /\ Inside(k)' \subseteq Inside(k) \ {r} /\ PutAside(k)' \subseteq PutAside(k) \cup {r}
      BY <1>1, <2>2, <2>3, <2>4
    <3>. QED BY <1>0, <2>1, <3>1, Moved
  <2>5. CASE ~Owns(r, label[r], k)
    <3>1. Inside(k)' \subseteq Inside(k) /\ PutAside(k)' \subseteq PutAside(k)
      BY <1>1, <2>2, <2>3, <2>5
    <3>. QED BY <1>0, <2>1, <3>1, Unspent
  <2>. QED BY <2>4, <2>5
<1>12. ASSUME NEW r \in Routine, try_resume(r) PROVE Covered(k)'
  <2>. DEFINE l == IF prev[r] = SUSPENDED THEN BEGINNING ELSE prev[r]
  <2>1. /\ running = NOBODY /\ running' = NOBODY /\ count' = count /\ buffer' = buffer
        /\ label' = [label EXCEPT ![r] = l] /\ prev' = [prev EXCEPT ![r] = UNDEFINED]
    BY <1>12 DEF Tame, try_resume, try_set, Controls, untouched, data
  <2>2. /\ Spot(r)' = l /\ prev'[r] = UNDEFINED
        /\ \A q \in Routine : q # r => (Spot(q)' = Spot(q) /\ prev'[q] = prev[q])
    BY <1>2, <1>4, <2>1 DEF CoTypes
  <2>3. ~Owns(r, prev'[r], k) /\ (Owns(r, l, k) => Owns(r, prev[r], k))
    BY <1>3, <1>4, <2>2
  <2>4. CASE Owns(r, prev[r], k)
    <3>1. r \in PutAside(k) /\ PutAside(k)' \subseteq PutAside(k) \ {r} /\ Inside(k)' \subseteq Inside(k) \cup {r}
      BY <1>1, <2>2, <2>3, <2>4
    <3>. QED BY <1>0, <2>1, <3>1, Moved
  <2>5. CASE ~Owns(r, prev[r], k)
    <3>1. Inside(k)' \subseteq Inside(k) /\ PutAside(k)' \subseteq PutAside(k)
      BY <1>1, <2>2, <2>3, <2>5
    <3>. QED BY <1>0, <2>1, <3>1, Unspent
  <2>. QED BY <2>4, <2>5
<1>13. CASE Save
  <2>1. /\ running # NOBODY /\ running' = NOBODY /\ label' = [label EXCEPT ![running] = at]
        /\ prev' = prev /\ count' = count /\ buffer' = buffer
    BY <1>13 DEF Save, LeaveAs, Leave, handles, data
  <2>. QED BY <1>0, <1>7, <2>1 DEF CoTypes
<1>14. CASE restart \/ setPosition \/ Finish
  <2>1. PICK l \in {BEGINNING, SUSPENDED, position[running]} :
          /\ running # NOBODY /\ running' = NOBODY /\ label' = [label EXCEPT ![running] = l]
          /\ prev' = prev /\ count' = count /\ buffer' = buffer
    BY <1>14 DEF restart, setPosition, Finish, Reaches, LeaveAs, Leave, handles, data
  <2>2. running \in Routine /\ l \in Noted(running) \cup {UNDEFINED, SUSPENDED, at}
    BY <1>0, <1>4, <2>1 DEF CoTypes
  <2>. QED BY <1>7, <2>1, <2>2
(* A statement is passed: what it takes and gives is what the program says.   *)
<1>15. ASSUME running # NOBODY, at <= Len(program[running]), Pass, label' = label, prev' = prev,
              count' = count, buffer' = buffer, Stmt.op \notin {"get", "put", "none", "semWait", "semSignal"}
       PROVE  Covered(k)'
  <2>1. ~Takes(k, Stmt) /\ ~Gives(k, Stmt)
    BY <1>15, DealsIn
  <2>2. count'[k.sem] + Worth(k)' = count[k.sem] + Worth(k) + 0
    BY <1>15, Amounts DEF Worth
  <2>. QED BY <1>0, <1>15, <2>1, <2>2, Passed
<1>16. ASSUME running # NOBODY, at <= Len(program[running]), Pass, label' = label, prev' = prev, buffer' = buffer,
              NEW e \in {0 - 1, 1}, Stmt.op = (IF e = 1 THEN "semSignal" ELSE "semWait"),
              count' = [count EXCEPT ![Stmt.arg] = @ + e]
       PROVE  Covered(k)'
  <2>. DEFINE earned == IF Stmt.arg = k.sem THEN e ELSE 0
  <2>1. Stmt.arg \in DOMAIN InitialCount /\ k.sem \in DOMAIN InitialCount
    BY <1>16, StmtIs, KindIs
  <2>2. /\ Takes(k, Stmt) <=> (e # 1 /\ Stmt.arg = k.sem)
        /\ Gives(k, Stmt) <=> (e = 1 /\ Stmt.arg = k.sem)
    BY <1>16, DealsIn
  <2>3. count'[k.sem] = count[k.sem] + earned /\ count[k.sem] \in Int
    BY <1>16, <2>1 DEF CoTypes
  <2>4. Worth(k)' = Worth(k) /\ Worth(k) \in Int
    BY <1>16, Amounts DEF Worth
  <2>5. earned \in Int /\ earned <= (IF Takes(k, Stmt) THEN 0 - 1 ELSE IF Gives(k, Stmt) THEN 1 ELSE 0)
    BY <1>16, <2>2
  <2>. HIDE DEF earned
  <2>6. count'[k.sem] + Worth(k)' = count[k.sem] + Worth(k) + earned
    BY <2>3, <2>4, <2>5
  <2>. QED BY <1>0, <1>16, <2>5, <2>6, Passed
<1>17. CASE Resume
  <2>1. /\ running # NOBODY /\ running \in Routine /\ at <= Len(program[running]) /\ resumed /\ Stmt.op \in Blocking
        /\ label' = label /\ prev' = prev /\ buffer' = buffer /\ at = label[running]
        /\ IF Goes THEN Pass ELSE running' = NOBODY
        /\ count' = IF Goes /\ Stmt.op = "semWait" THEN [count EXCEPT ![Stmt.arg] = @ - 1] ELSE count
    BY <1>0, <1>17 DEF Resume, Leave, handles, LabelsKept, CoTypes
  <2>2. CASE ~Goes
    BY <1>8, <2>1, <2>2
  <2>3. CASE Goes /\ Stmt.op # "semWait"
    BY <1>15, <2>1, <2>3 DEF Blocking
  <2>4. CASE Goes /\ Stmt.op = "semWait"
    <3>1. Stmt.arg \in DOMAIN InitialCount
      BY <2>1, <2>4, StmtIs
    <3>2. count[Stmt.arg] - 1 = count[Stmt.arg] + (0 - 1)
      BY <3>1 DEF CoTypes
    <3>3. count' = [count EXCEPT ![Stmt.arg] = count[Stmt.arg] + (0 - 1)]
      BY <2>1, <2>4, <3>2, Zenon
    <3>4. (0 - 1) \in {0 - 1, 1} /\ 0 - 1 # 1
      OBVIOUS
    <3>. QED BY <1>16, <2>1, <2>4, <3>3, <3>4, Zenon
  <2>. QED BY <2>2, <2>3, <2>4
<1>18. CASE until
  <2>1. /\ running # NOBODY /\ running \in Routine /\ at <= Len(program[running]) /\ Stmt.op = "until"
        /\ label' = label /\ prev' = prev /\ count' = count /\ buffer' = buffer /\ (Pass \/ running' = NOBODY)
    BY <1>0, <1>18 DEF until, Reaches, Leave, handles, data, CoTypes
  <2>2. at - 1 = label[running] /\ at - 1 \in DOMAIN program[running] /\ program[running][at - 1].op = "perform"
    BY <2>1 DEF LabelsKept
  <2>. QED BY <1>8, <1>15, <2>1, <2>2
<1>19. CASE getPosition
  <2>1. /\ running # NOBODY /\ at <= Len(program[running]) /\ Stmt.op = "getPosition" /\ Pass
        /\ label' = label /\ prev' = prev /\ count' = count /\ buffer' = buffer
    BY <1>19 DEF getPosition, Reaches, handles
  <2>. QED BY <1>15, <2>1
<1>20. CASE semSignal
  <2>1. /\ running # NOBODY /\ at <= Len(program[running]) /\ Stmt.op = "semSignal" /\ Pass
        /\ label' = label /\ prev' = prev /\ buffer' = buffer /\ count' = [count EXCEPT ![Stmt.arg] = @ + 1]
    BY <1>20 DEF semSignal, Reaches, handles
  <2>. QED BY <1>16, <2>1
<1>21. CASE PutItem \/ GetItem
  <2>. DEFINE put == Stmt.op = "put"
              earned == IF k = Space THEN (IF put THEN 1 ELSE 0 - 1) ELSE IF k = Goods THEN (IF put THEN 0 - 1 ELSE 1) ELSE 0
  <2>1. /\ running # NOBODY /\ at <= Len(program[running]) /\ Stmt.op \in {"put", "get"} /\ Pass
        /\ label' = label /\ prev' = prev /\ count' = count /\ buffer' = IF put THEN buffer + 1 ELSE buffer - 1
    BY <1>21 DEF PutItem, GetItem, Reaches, handles
  <2>2. earned \in Int /\ earned <= (IF Takes(k, Stmt) THEN 0 - 1 ELSE IF Gives(k, Stmt) THEN 1 ELSE 0)
    BY <2>1, DealsIn, KindIs
  <2>3. Worth(k)' = Worth(k) + earned /\ Worth(k) \in Int /\ count[k.sem] \in Int
    <3>1. buffer \in Int
      BY DEF CoTypes
    <3>. QED BY <2>1, <3>1, KindIs, Amounts DEF Worth
  <2>. HIDE DEF earned, put
  <2>4. count'[k.sem] + Worth(k)' = count[k.sem] + Worth(k) + earned
    BY <2>1, <2>2, <2>3
  <2>. QED BY <1>0, <2>1, <2>2, <2>4, Passed
<1>22. CASE Tick \/ Toggle \/ UNCHANGED coVars
  BY <1>6, <1>22 DEF Tick, Toggle, coVars, handles, data
<1>. QED
  BY <1>9, <1>10, <1>11, <1>12, <1>13, <1>14, <1>17, <1>18, <1>19, <1>20, <1>21, <1>22 DEF CoNext, Running

LEMMA CoStep == CoInv /\ [CoNext]_coVars => CoInv'
<1>. SUFFICES ASSUME CoInv, [CoNext]_coVars PROVE CoInv'
  OBVIOUS
<1>1. CoTypes /\ CoTypes' /\ program' = program
  BY CoTypesStep DEF CoInv
<1>2. \A r \in Routine : DelayRuns(r)'
  BY DelaysStep DEF CoInv
<1>3. (Tame' <=> Tame) /\ Routine' = Routine /\ \A k : Balanced(k)' <=> Balanced(k)
  BY <1>1 DEF Tame, Routine, Balanced, Owns
<1>4. ASSUME Tame PROVE LabelsKept' /\ \A k \in Kind : Balanced(k) => Covered(k)'
  BY <1>1, <1>4, LabelsStep, CoversStep DEF CoInv
<1>. QED BY <1>1, <1>2, <1>3, <1>4 DEF CoInv, Kind

(* Routines wait for what they asked for: a delay lasts its time, and owners  *)
(* of a semaphore or of places in a buffer are never more than there are.     *)
THEOREM WaitsAreHonoured == CoSpec => WaitsHold
<1>1. CoInv /\ [CoNext]_coVars => [DelayHonoured /\ SemaphoresGuard']_coVars
  BY CoStep, SemaphoresCover, DelaysHonoured, PTL DEF CoInv
<1>. QED BY <1>1, CoStarts, CoStep, PTL DEF CoSpec, WaitsHold
=============================================================================
