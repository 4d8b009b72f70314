-------------------------------- MODULE List --------------------------------
(* Intrusive doubly linked list (list.cpp, list.hpp): the nodes carry the     *)
(* links and a pointer to the list that holds them, a list carries head, tail *)
(* and size.  All of it is one record, heap.  An iterator walks one list; while   *)
(* it does, callers do to the list what the loops of the kernel do: take the  *)
(* current node out and put it into another list.                             *)
EXTENDS Integers, Sequences, SequencesExt, FiniteSets, ListSequences

CONSTANTS Lists, Nothing

(* The comparison function compares numbers (any total order can be numbered) *)
(* and reads only what does not change while a list is sorted.                *)
ASSUME ListAssumption ==
  /\ IsFiniteSet(Node) /\ Nothing \notin Node \cup Lists
  /\ Key \in [Node -> Int]

(* torn: a node was put into a list while another one held it.  insert only   *)
(* refuses a node of the same list: the links of the new place overwrite those*)
(* of the old one, and what further calls then do to the two lists is not     *)
(* modelled.                                                                  *)
VARIABLES heap, walk, torn
listVars == <<heap, walk, torn>>

Positions == AT_BACK .. Cardinality(Node)
NoLinks == [n \in Node |-> Nothing]
NoWalk == [list |-> Nothing, link |-> "next", current |-> Nothing, iter |-> Nothing,
           start |-> <<>>, seen |-> <<>>]

(* The nodes reached from first along link.                                   *)
Chain(first, link) ==
  LET upTo[k \in 0..Cardinality(Node)] ==
        IF k = 0 THEN <<>>
        ELSE LET s == upTo[k - 1]
                 n == IF s = <<>> THEN first ELSE link[Last(s)]
             IN IF n = Nothing \/ Len(s) < k - 1 THEN s ELSE Append(s, n)
  IN upTo[Cardinality(Node)]

ForwardChain(h, l) == Chain(h.head[l], h.next)
BackwardChain(h, l) == Chain(h.tail[l], h.prev)

ListInit ==
  /\ heap = [next |-> NoLinks, prev |-> NoLinks, container |-> NoLinks,
             head |-> [l \in Lists |-> Nothing], tail |-> [l \in Lists |-> Nothing],
             size |-> [l \in Lists |-> 0]]
  /\ walk = NoWalk /\ torn = FALSE

isMember(h, l, n) == n # Nothing /\ h.container[n] = l

initNode(h, n) == [h EXCEPT !.next[n] = Nothing, !.prev[n] = Nothing, !.container[n] = Nothing]

clean(h, l) == [h EXCEPT !.head[l] = Nothing, !.tail[l] = Nothing, !.size[l] = 0]

insertAtFront(h, l, n) ==
  [h EXCEPT !.next[n] = h.head[l], !.prev[h.head[l]] = n, !.head[l] = n]

insertAtBack(h, l, n) ==
  [h EXCEPT !.next[h.tail[l]] = n, !.prev[n] = h.tail[l], !.tail[l] = n]

removeFront(h, l) ==
  LET second == h.next[h.head[l]] IN
  IF second = Nothing THEN [h EXCEPT !.head[l] = Nothing, !.tail[l] = Nothing]
                      ELSE [h EXCEPT !.head[l] = second, !.prev[second] = Nothing]

(* Mutant: the node before the removed one goes on pointing to it.            *)
removeBackHalf(h, l) ==
  LET before == h.prev[h.tail[l]] IN
  IF before = Nothing THEN [h EXCEPT !.head[l] = Nothing, !.tail[l] = Nothing]
                      ELSE [h EXCEPT !.tail[l] = before]

removeBack(h, l) ==
  LET before == h.prev[h.tail[l]] IN
  IF before = Nothing THEN [h EXCEPT !.head[l] = Nothing, !.tail[l] = Nothing]
                      ELSE [h EXCEPT !.tail[l] = before, !.next[before] = Nothing]

(* The node at index p, or the last one when the list is shorter; the first   *)
(* one for a negative p.                                                      *)
getNodeAtIndex(h, l, p) ==
  LET s == ForwardChain(h, l)
  IN s[IF p < 0 THEN 1 ELSE IF p < Len(s) THEN p + 1 ELSE Len(s)]

(* The branch of insert for an index dereferences the successor of the node   *)
(* at p: there must be one.                                                   *)
insertAfter(h, l, n, p) ==
  LET i == getNodeAtIndex(h, l, p)
      successor == h.next[i]
  IN [h EXCEPT !.next[n] = successor, !.prev[n] = i, !.prev[successor] = n, !.next[i] = n]

listInsert(h, l, n, p) ==
  IF p < AT_BACK \/ isMember(h, l, n) THEN h
  ELSE LET fresh == initNode(h, n)
           linked == CASE h.head[l] = Nothing -> [fresh EXCEPT !.head[l] = n, !.tail[l] = n]
                       [] h.head[l] # Nothing /\ p = AT_FRONT -> insertAtFront(fresh, l, n)
                       [] h.head[l] # Nothing /\ p = AT_BACK -> insertAtBack(fresh, l, n)
                       [] OTHER -> insertAfter(fresh, l, n, p)
       IN [linked EXCEPT !.size[l] = @ + 1, !.container[n] = l]

unlinkInner(h, n) ==
  LET before == h.prev[n]
      after == h.next[n]
      skipped == [h EXCEPT !.next[before] = after]
  IN IF after = Nothing THEN skipped ELSE [skipped EXCEPT !.prev[after] = before]

remove(h, l, n) ==
  IF ~isMember(h, l, n) THEN h
  ELSE LET unlinked == CASE n = h.head[l] -> removeFront(h, l)
                         [] n # h.head[l] /\ n = h.tail[l] -> removeBack(h, l)
                         [] OTHER -> unlinkInner(h, n)
       IN [unlinked EXCEPT !.size[l] = @ - 1, !.container[n] = Nothing]

(* remove by position, no node given: the two ends by name, an index by the   *)
(* successor of the node before it (tail is left alone).                      *)
victimAt(h, l, p) ==
  CASE p = AT_FRONT -> h.head[l]
    [] p = AT_BACK -> h.tail[l]
    [] OTHER -> h.next[getNodeAtIndex(h, l, p - 1)]

removeAt(h, l, p) ==
  LET n == victimAt(h, l, p) IN
  IF h.head[l] = Nothing \/ p < AT_BACK THEN h
  ELSE LET i == getNodeAtIndex(h, l, p - 1)
           after == h.next[n]
           skipped == [h EXCEPT !.next[i] = after]
           unlinked == CASE p = AT_FRONT -> removeFront(h, l)
                         [] p = AT_BACK -> removeBack(h, l)
                         [] p >= 0 /\ after = Nothing -> skipped
                         [] OTHER -> [skipped EXCEPT !.prev[after] = i]
       IN [unlinked EXCEPT !.size[l] = @ - 1, !.container[n] = Nothing]

goesAfter(a, b) == Key[a] > Key[b]

(* One comparison of the bubble sort: c is the node compared with the one     *)
(* behind it, and stays the current node when the two change places.          *)
compareAndSwap(h, l, c) ==
  LET before == h.prev[c]
      after == h.next[c]
      rest == h.next[after]
      front == IF before = Nothing THEN [h EXCEPT !.head[l] = after]
                                   ELSE [h EXCEPT !.next[before] = after]
      moved == [front EXCEPT !.next[c] = rest, !.prev[c] = after]
      back == IF rest = Nothing THEN moved ELSE [moved EXCEPT !.prev[rest] = c]
  IN IF goesAfter(c, after)
     THEN [h |-> [back EXCEPT !.next[after] = c, !.prev[after] = before], current |-> c]
     ELSE [h |-> h, current |-> after]

(* One pass over the first n pairs, from the head.                            *)
sortPass(h, l, n) ==
  LET at[j \in 0..n] ==
        IF j = 0 THEN [h |-> h, current |-> h.head[l]]
        ELSE LET s == at[j - 1] IN compareAndSwap(s.h, l, s.current)
  IN at[n]

sort(h, l) ==
  LET count == h.size[l]
      after[i \in 0..(count - 1)] ==
        IF i = 0 THEN [h |-> h, current |-> h.head[l]]
        ELSE LET s == after[i - 1] IN sortPass(s.h, l, count - i)
      sorted == after[count - 1]
  IN IF count < 2 THEN h
     ELSE [sorted.h EXCEPT !.tail[l] = Last(Chain(sorted.current, sorted.h.next))]

givenNodeSwapBoundaries(h, l, n1, n2) ==
  LET other(n) == IF n = n1 THEN n2 ELSE IF n = n2 THEN n1 ELSE n
  IN [h EXCEPT !.head[l] = other(@), !.tail[l] = other(@)]

givenNodeSwapAdjacent(h, n1, n2) ==
  IF \/ h.next[n1] = n2 /\ h.prev[n2] = n1
     \/ h.prev[n1] = n2 /\ h.next[n2] = n1
  THEN [h EXCEPT !.prev[n1] = h.next[n1], !.next[n2] = h.prev[n2]]
  ELSE [h EXCEPT !.prev[n1] = h.prev[n2], !.next[n2] = h.next[n1]]

pointFromBefore(h, n) == IF h.prev[n] = Nothing THEN h ELSE [h EXCEPT !.next[h.prev[n]] = n]
pointFromBehind(h, n) == IF h.next[n] = Nothing THEN h ELSE [h EXCEPT !.prev[h.next[n]] = n]

givenNodesUpdateOuterLinks(h, n1, n2) ==
  pointFromBehind(pointFromBefore(pointFromBehind(pointFromBefore(h, n1), n1), n2), n2)

swap(h, l, node1, node2) ==
  LET reversed == h.next[node2] = node1
      n1 == IF reversed THEN node2 ELSE node1
      n2 == IF reversed THEN node1 ELSE node2
      bound == givenNodeSwapBoundaries(h, l, n1, n2)
      inner == givenNodeSwapAdjacent(bound, n1, n2)
      outer == [inner EXCEPT !.prev[n2] = h.prev[n1], !.next[n1] = h.next[n2]]
  IN IF node1 = node2 \/ ~isMember(h, l, node1) \/ ~isMember(h, l, node2) THEN h
     ELSE givenNodesUpdateOuterLinks(outer, n1, n2)

move(h, l, src, p) ==
  LET owned == [h EXCEPT !.container =
                  [n \in Node |-> IF n \in ToSet(ForwardChain(h, src)) THEN l ELSE @[n]]]
      i == getNodeAtIndex(h, l, p)
      linked ==
        CASE h.head[l] = Nothing ->
               [owned EXCEPT !.head[l] = h.head[src], !.tail[l] = h.tail[src]]
          [] h.head[l] # Nothing /\ p = AT_FRONT ->
               [owned EXCEPT !.next[h.tail[src]] = h.head[l],
                             !.prev[h.head[l]] = h.tail[src], !.head[l] = h.head[src]]
          [] h.head[l] # Nothing /\ p = AT_BACK ->
               [owned EXCEPT !.next[h.tail[l]] = h.head[src],
                             !.prev[h.head[src]] = h.tail[l], !.tail[l] = h.tail[src]]
          [] OTHER ->
               [owned EXCEPT !.next[h.tail[src]] = h.next[i],
                             !.prev[h.head[src]] = i, !.next[i] = h.head[src]]
  IN IF h.head[src] = Nothing \/ p < AT_BACK THEN h
     ELSE clean([linked EXCEPT !.size[l] = @ + h.size[src]], src)
-----------------------------------------------------------------------------
(* The positions the code handles: an insertion by index has a successor to   *)
(* relink, a removal by index is neither of the first node nor of the last    *)
(* one, and only whole lists are joined at an end.                            *)
Handles(op, l, p) ==
  \/ p \in {AT_FRONT, AT_BACK}
  \/ op = "insert" /\ (heap.size[l] = 0 \/ p + 1 \in 1..(heap.size[l] - 1))
  \/ op = "remove" /\ p \in 1..(heap.size[l] - 2)
  \/ op = "move" /\ heap.size[l] = 0

Idle == walk.current = Nothing

InsertNode(l, n, p) ==
  /\ Handles("insert", l, p)
  /\ Idle \/ (n = walk.current /\ l # walk.list)
  /\ heap' = listInsert(heap, l, n, p) /\ torn' = (heap.container[n] \notin {Nothing, l})
  /\ UNCHANGED walk

RemoveNode(l, n) ==
  /\ Idle \/ n = walk.current
  /\ heap' = remove(heap, l, n) /\ UNCHANGED walk

RemoveIndex(l, p) ==
  /\ Idle /\ Handles("remove", l, p)
  /\ heap' = removeAt(heap, l, p) /\ UNCHANGED walk

SortList(l) == Idle /\ heap' = sort(heap, l) /\ UNCHANGED walk

SwapNodes(l, n1, n2) ==
  Idle /\ heap' = swap(heap, l, n1, n2) /\ UNCHANGED walk

MoveList(l, src, p) ==
  /\ Idle /\ l # src /\ Handles("move", l, p)
  /\ heap' = move(heap, l, src, p) /\ UNCHANGED walk

CleanList(l) ==    \* the nodes keep naming l as their container: only an empty list
  Idle /\ heap.size[l] = 0 /\ heap' = clean(heap, l) /\ UNCHANGED walk

(* listIterator: begin() and from() walk forward, end() backward; iter holds  *)
(* the node after the current one, fetched before the body of the loop runs.  *)
NextOf(link, n) ==
  IF n = Nothing THEN Nothing ELSE IF link = "next" THEN heap.next[n] ELSE heap.prev[n]

StartWalk(l, link, offset) ==
  LET first == IF isMember(heap, l, offset) THEN offset
               ELSE IF link = "next" THEN heap.head[l] ELSE heap.tail[l]
  IN /\ Idle
     /\ walk' = [list |-> l, link |-> link, current |-> first, iter |-> NextOf(link, first),
                 start |-> IF first = Nothing THEN <<>> ELSE Chain(first, heap[link]),
                 seen |-> IF first = Nothing THEN <<>> ELSE <<first>>]
     /\ UNCHANGED heap

(* Mutant: the successor is fetched after the body has run.                   *)
StepWalkLate ==
  LET after == NextOf(walk.link, walk.current) IN
  /\ walk.current # Nothing
  /\ walk' = [walk EXCEPT !.current = after,
                          !.seen = IF after = Nothing THEN @ ELSE Append(@, after)]
  /\ UNCHANGED heap

StepWalk ==
  /\ walk.current # Nothing
  /\ walk' = [walk EXCEPT !.current = walk.iter, !.iter = NextOf(walk.link, walk.iter),
                          !.seen = IF walk.iter = Nothing THEN @ ELSE Append(@, walk.iter)]
  /\ UNCHANGED heap

ListNext ==
  \/ /\ ~torn
     /\ \E l \in Lists, n \in Node, p \in Positions : InsertNode(l, n, p)
  \/ /\ ~torn /\ UNCHANGED torn
     /\ \/ \E l \in Lists, n \in Node : RemoveNode(l, n)
        \/ \E l \in Lists, p \in Positions : RemoveIndex(l, p)
        \/ \E l \in Lists : SortList(l)
        \/ \E l \in Lists, n1, n2 \in Node : SwapNodes(l, n1, n2)
        \/ \E l, src \in Lists, p \in Positions : MoveList(l, src, p)
        \/ \E l \in Lists : CleanList(l)
        \/ \E l \in Lists, link \in {"next", "prev"}, n \in Node \cup {Nothing} :
              StartWalk(l, link, n)
  \/ StepWalk /\ UNCHANGED torn

ListSpec == ListInit /\ [][ListNext]_listVars
-----------------------------------------------------------------------------
(* Every call does to the forward chains of the lists what the same call does *)
(* to a sequence, and leaves the other lists alone.  The one exception is a   *)
(* node put into l while m holds it: m then leads through its nodes up to that*)
(* one, and on into l.                                                        *)
CallsActOnSequences ==
  Idle =>
    \A l \in Lists :
      LET s == ForwardChain(heap, l)
          Becomes(h, t) == /\ ForwardChain(h, l) = t
                           /\ \A m \in Lists \ {l} : ForwardChain(h, m) = ForwardChain(heap, m)
          Tears(h, t, n, m) ==
            /\ ForwardChain(h, l) = t
            /\ ForwardChain(h, m) = RunsInto(ForwardChain(heap, m), n, t)
            /\ \A other \in Lists \ {l, m} : ForwardChain(h, other) = ForwardChain(heap, other)
      IN /\ \A n \in Node, p \in Positions :
              Handles("insert", l, p)
                => LET h == listInsert(heap, l, n, p)
                       t == Inserted(s, n, p)
                   IN IF heap.container[n] \in {Nothing, l} THEN Becomes(h, t)
                      ELSE Tears(h, t, n, heap.container[n])
         /\ \A n \in Node : Becomes(remove(heap, l, n), Without(s, n))
         /\ \A p \in Positions :
              Handles("remove", l, p) => Becomes(removeAt(heap, l, p), WithoutAt(s, p))
         /\ \E t \in StablySorted(s) : Becomes(sort(heap, l), t)
         /\ \A m, n \in Node : Becomes(swap(heap, l, m, n), Exchanged(s, m, n))
         /\ \A src \in Lists \ {l}, p \in Positions :
              Handles("move", l, p)
                => LET h == move(heap, l, src, p)
                       t == ForwardChain(heap, src)
                   IN /\ ForwardChain(h, l) = IF t = <<>> THEN s ELSE PlaceAt(s, t, p)
                      /\ ForwardChain(h, src) = <<>>

(* The backward chain is the forward one reversed, head and tail are its ends,*)
(* size is its length, and a node names the list it is chained in.            *)
LinksMirror ==
  \A l \in Lists :
    LET s == ForwardChain(heap, l) IN
    /\ BackwardChain(heap, l) = Reverse(s)
    /\ heap.size[l] = Len(s)
    /\ ToSet(s) = {n \in Node : heap.container[n] = l}

(* As long as no node was put into a list while another one held it, the two  *)
(* chains of links mirror each other, and every further call acts on the lists*)
(* as on sequences; the insertion that tears a list leads it into the other   *)
(* one and harms no third (list.cpp 91-401).                                  *)
ListsAreSequences == ~torn => LinksMirror /\ CallsActOnSequences

(* A loop whose body takes the current node out of the list, and maybe into   *)
(* another one, or puts it into another one without taking it out, still      *)
(* visits each node of the list once, in order: the successor is fetched      *)
(* before the body runs (list.cpp 428-470).                                   *)
WalkVisitsAll ==
  /\ IsPrefix(walk.seen, walk.start)
  /\ walk.current = Nothing => walk.seen = walk.start

=============================================================================
