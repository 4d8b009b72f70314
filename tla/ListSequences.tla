--------------------------- MODULE ListSequences ----------------------------
(* What the calls on a list promise (list.hpp), said of a sequence of nodes.  *)
EXTENDS Integers, Sequences, SequencesExt, FiniteSets

CONSTANTS Node,
          Key      \* what the comparison function handed to sort reads

AT_FRONT == -1
AT_BACK == -2

PlaceAt(s, t, p) ==    \* t put into s at its front, its back or behind index p
  CASE p = AT_FRONT \/ s = <<>> -> t \o s
    [] p = AT_BACK /\ s # <<>> -> s \o t
    [] OTHER -> SubSeq(s, 1, p + 1) \o t \o SubSeq(s, p + 2, Len(s))

Inserted(s, n, p) == IF n \in ToSet(s) THEN s ELSE PlaceAt(s, <<n>>, p)

RunsInto(s, n, t) ==    \* s up to n, then what follows n in t
  LET place(u) == CHOOSE i \in DOMAIN u : u[i] = n
  IN SubSeq(s, 1, place(s)) \o SubSeq(t, place(t) + 1, Len(t))

Without(s, n) == IF n \in ToSet(s) THEN RemoveAt(s, CHOOSE i \in DOMAIN s : s[i] = n) ELSE s

WithoutAt(s, p) ==
  CASE s = <<>> -> s
    [] s # <<>> /\ p = AT_FRONT -> Tail(s)
    [] s # <<>> /\ p = AT_BACK -> Front(s)
    [] OTHER -> RemoveAt(s, p + 1)

Exchanged(s, a, b) ==
  IF {a, b} \subseteq ToSet(s)
  THEN [i \in DOMAIN s |-> IF s[i] = a THEN b ELSE IF s[i] = b THEN a ELSE s[i]]
  ELSE s

(* The order of Key, ties as they were: the one arrangement of s in it.       *)
StablySorted(s) ==
  LET Behind(a, b) == \/ Key[a] > Key[b]
                      \/ Key[a] = Key[b] /\ \E i, j \in DOMAIN s : i > j /\ s[i] = a /\ s[j] = b
  IN {t \in [DOMAIN s -> ToSet(s)] : \A i, j \in DOMAIN s : i < j => Behind(t[j], t[i])}
=============================================================================
