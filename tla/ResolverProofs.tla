--------------------------- MODULE ResolverProofs ---------------------------
(***************************************************************************)
(* Proofs about Resolver, for any set of lookups, names and addresses, any *)
(* aliases, any limit of the recursion and any number of failures.         *)
(*                                                                         *)
(* The invariant says of each kind of data what the next one relies on: a  *)
(* node is in the queue that its state calls for, the nodes that are old   *)
(* are at the end of their queue, and a list of waiting contexts has the   *)
(* contexts that point to its node, but for those that a loop has taken.   *)
(* An event that takes a list of contexts is described by the trees and    *)
(* queues it leaves behind; each context that then ends expires nodes.     *)
(***************************************************************************)
EXTENDS Resolver, FiniteSetTheorems, WellFoundedInduction, TLAPS

-----------------------------------------------------------------------------
(***************************************************************************)
(* Queues and lists: sequences in which nothing is twice.                  *)
(***************************************************************************)
NoTwice(q) == \A j, k \in DOMAIN q : q[j] = q[k] => j = k

(* What comes later in r comes later in q. *)
Follows(r, q) ==
    \A i, j \in DOMAIN r : i < j =>
        \E a, b \in DOMAIN q : a < b /\ q[a] = r[i] /\ q[b] = r[j]

LEMMA LeastExists ==
    ASSUME NEW S \in SUBSET Nat, S # {}
    PROVE  \E x \in S : \A y \in S : x <= y
  <1>1. PICK x \in S : \A y \in S : ~(<<y, x>> \in OpToRel(<, Nat))
    BY NatLessThanWellFounded, WFMin, Zenon
  <1>2. \A y \in S : ~(y < x)
    BY <1>1 DEF OpToRel
  <1>3. QED
    BY <1>2

LEMMA MinIsMember ==
    ASSUME NEW S \in SUBSET Nat, S # {}
    PROVE  Min(S) \in S
  BY LeastExists DEF Min

LEMMA RemoveAtFacts ==
    ASSUME NEW T, NEW s \in Seq(T), NEW i \in DOMAIN s
    PROVE  /\ RemoveAt(s, i) \in Seq(T)
           /\ DOMAIN RemoveAt(s, i) = 1 .. Len(s) - 1
           /\ \A j \in 1 .. Len(s) - 1 :
                  RemoveAt(s, i)[j] = IF j < i THEN s[j] ELSE s[j + 1]
  <1>1. i \in 1 .. Len(s) /\ Len(s) \in Nat
    OBVIOUS
  <1> DEFINE a == SubSeq(s, 1, i - 1)
             b == SubSeq(s, i + 1, Len(s))
  <1>2. a \in Seq(T) /\ Len(a) = i - 1 /\ \A j \in 1 .. i - 1 : a[j] = s[j]
    BY <1>1
  <1>3. /\ b \in Seq(T) /\ Len(b) = Len(s) - i
        /\ \A j \in 1 .. Len(s) - i : b[j] = s[j + i]
    BY <1>1
  <1> HIDE DEF a, b
  <1>4. PICK c : c = a \o b
    OBVIOUS
  <1>5. c \in Seq(T) /\ Len(c) = Len(s) - 1 /\ DOMAIN c = 1 .. Len(s) - 1
    BY SMTT(40), <1>1, <1>2, <1>3, <1>4
  <1>6. \A j \in 1 .. Len(s) - 1 :
            c[j] = IF j <= i - 1 THEN a[j] ELSE b[j - (i - 1)]
    BY SMTT(40), <1>1, <1>2, <1>3, <1>4
  <1>7. ASSUME NEW j \in 1 .. Len(s) - 1
        PROVE  c[j] = IF j < i THEN s[j] ELSE s[j + 1]
    <2>1. j \in Int /\ i \in Int /\ Len(s) \in Int /\ j >= 1 /\ j <= Len(s) - 1
      BY <1>1
    <2>2. CASE j < i
      <3>1. j \in 1 .. i - 1 /\ j <= i - 1
        BY <2>1, <2>2
      <3>2. c[j] = a[j] /\ a[j] = s[j]
        BY <1>2, <1>6, <3>1
      <3>3. QED
        BY <2>2, <3>2, Zenon
    <2>3. CASE ~(j < i)
      <3>1. PICK m \in 1 .. Len(s) - i : m = j - (i - 1) /\ m + i = j + 1
        BY <2>1, <2>3
      <3>2. b[m] = s[m + i]
        BY <1>3
      <3>3. ~(j <= i - 1)
        BY <2>1, <2>3
      <3>4. c[j] = b[m]
        BY <1>6, <3>1, <3>3, Zenon
      <3>5. QED
        BY <2>3, <3>1, <3>2, <3>4, Zenon
    <2>4. QED
      BY <2>2, <2>3, Zenon
  <1>8. RemoveAt(s, i) = c
    BY <1>4 DEF RemoveAt, a, b
  <1>9. QED
    BY <1>5, <1>7, <1>8, Zenon

LEMMA WithoutFacts ==
    ASSUME NEW T, NEW q \in Seq(T), NEW x, NoTwice(q)
    PROVE  /\ Without(q, x) \in Seq(T)
           /\ NoTwice(Without(q, x))
           /\ ToSet(Without(q, x)) = ToSet(q) \ {x}
           /\ x \notin ToSet(q) => Without(q, x) = q
           /\ Follows(Without(q, x), q)
  <1>1. PICK n \in Nat : n = Len(q) /\ DOMAIN q = 1 .. n
    OBVIOUS
  <1>2. CASE x \notin ToSet(q)
    <2>1. Without(q, x) = q
      BY <1>2 DEF Without
    <2>2. QED
      BY <1>2, <2>1 DEF Follows
  <1>3. CASE x \in ToSet(q)
    <2>1. PICK i : i = CHOOSE j \in DOMAIN q : q[j] = x
      OBVIOUS
    <2>4. i \in 1 .. n /\ q[i] = x
      BY <1>1, <1>3, <2>1 DEF ToSet
    <2>5. Without(q, x) = RemoveAt(q, i)
      BY <1>3, <2>1 DEF Without
    <2>6. PICK t : t = RemoveAt(q, i)
      OBVIOUS
    <2>7. t \in Seq(T) /\ DOMAIN t = 1 .. n - 1
      BY <1>1, <2>4, <2>6, RemoveAtFacts
    <2>8. \A j \in 1 .. n - 1 : t[j] = IF j < i THEN q[j] ELSE q[j + 1]
      BY <1>1, <2>4, <2>6, RemoveAtFacts
    <2>9. \A j, k \in 1 .. n : q[j] = q[k] => j = k
      BY <1>1 DEF NoTwice
    <2>10. NoTwice(t)
      BY SMTT(40), <1>1, <2>4, <2>7, <2>8, <2>9 DEF NoTwice
    <2>11. ASSUME NEW y \in ToSet(t) PROVE y \in ToSet(q) \ {x}
      <3>1. PICK j \in 1 .. n - 1 : y = t[j]
        BY <2>7, <2>11 DEF ToSet
      <3>2. PICK k \in 1 .. n : k # i /\ y = q[k]
        BY SMTT(40), <1>1, <2>4, <2>8, <3>1
      <3>3. QED
        BY <1>1, <2>4, <2>9, <3>2 DEF ToSet
    <2>12. ASSUME NEW y \in ToSet(q) \ {x} PROVE y \in ToSet(t)
      <3>1. PICK k \in 1 .. n : y = q[k] /\ k # i
        BY <1>1, <2>4, <2>12 DEF ToSet
      <3>2. PICK j \in 1 .. n - 1 : t[j] = q[k]
        <4>1. CASE k < i
          BY <1>1, <2>4, <2>8, <3>1, <4>1
        <4>2. CASE k > i
          <5>1. k - 1 \in 1 .. n - 1 /\ ~(k - 1 < i) /\ (k - 1) + 1 = k
            BY <1>1, <2>4, <3>1, <4>2
          <5>2. QED
            BY <2>8, <5>1
        <4>3. QED
          BY <1>1, <2>4, <3>1, <4>1, <4>2
      <3>3. QED
        BY <2>7, <3>1, <3>2 DEF ToSet
    <2>13. Follows(t, q)
      <3>1. ASSUME NEW j \in 1 .. n - 1, NEW k \in 1 .. n - 1, j < k
            PROVE  \E a, b \in 1 .. n : a < b /\ q[a] = t[j] /\ q[b] = t[k]
        <4> DEFINE a == IF j < i THEN j ELSE j + 1
                   b == IF k < i THEN k ELSE k + 1
        <4>1. a \in 1 .. n /\ b \in 1 .. n /\ a < b
          BY <1>1, <2>4, <3>1
        <4>2. q[a] = t[j] /\ q[b] = t[k]
          BY <2>8
        <4> HIDE DEF a, b
        <4>3. QED
          BY <4>1, <4>2, Zenon
      <3>2. DOMAIN t = 1 .. n - 1 /\ DOMAIN q = 1 .. n
        BY <1>1, <2>7
      <3>3. ASSUME NEW j \in DOMAIN t, NEW k \in DOMAIN t, j < k
            PROVE  \E a, b \in DOMAIN q : a < b /\ q[a] = t[j] /\ q[b] = t[k]
        <4>1. j \in 1 .. n - 1 /\ k \in 1 .. n - 1
          BY <3>2
        <4>2. PICK a \in 1 .. n, b \in 1 .. n : a < b /\ q[a] = t[j] /\ q[b] = t[k]
          BY <3>1, <3>3, <4>1
        <4>3. QED
          BY <3>2, <4>2
      <3>4. QED
        BY <3>3, Zenon DEF Follows
    <2>14. QED
      BY <1>3, <2>5, <2>6, <2>7, <2>10, <2>11, <2>12, <2>13
  <1>4. QED
    BY <1>2, <1>3

LEMMA PushFacts ==
    ASSUME NEW T, NEW q \in Seq(T), NEW x \in T, NoTwice(q), x \notin ToSet(q)
    PROVE  /\ <<x>> \o q \in Seq(T)
           /\ NoTwice(<<x>> \o q)
           /\ ToSet(<<x>> \o q) = ToSet(q) \cup {x}
  <1>1. PICK t : t = <<x>> \o q
    OBVIOUS
  <1>2. PICK n \in Nat : n = Len(q) /\ DOMAIN q = 1 .. n
    OBVIOUS
  <1>3. t \in Seq(T) /\ DOMAIN t = 1 .. n + 1 /\ t[1] = x
    BY <1>1, <1>2
  <1>4. \A j \in 2 .. n + 1 : t[j] = q[j - 1]
    BY <1>1, <1>2
  <1>5. \A j, k \in 1 .. n : q[j] = q[k] => j = k
    BY <1>2 DEF NoTwice
  <1>6. \A j \in 1 .. n : q[j] # x
    BY <1>2 DEF ToSet
  <1>7. NoTwice(t)
    <2> SUFFICES ASSUME NEW j \in 1 .. n + 1, NEW k \in 1 .. n + 1, t[j] = t[k]
                 PROVE  j = k
      BY <1>3 DEF NoTwice
    <2>1. CASE j = 1 \/ k = 1
      BY <1>2, <1>3, <1>4, <1>6, <2>1
    <2>2. CASE j # 1 /\ k # 1
      <3>1. j - 1 \in 1 .. n /\ k - 1 \in 1 .. n
        BY <1>2, <2>2
      <3>2. t[j] = q[j - 1] /\ t[k] = q[k - 1]
        BY <1>2, <1>4, <2>2
      <3>3. j - 1 = k - 1
        BY <1>5, <3>1, <3>2
      <3>4. QED
        BY <1>2, <3>3
    <2>3. QED
      BY <2>1, <2>2
  <1>8. ASSUME NEW y \in ToSet(t) PROVE y \in ToSet(q) \cup {x}
    <2>1. PICK j \in 1 .. n + 1 : y = t[j]
      BY <1>3, <1>8 DEF ToSet
    <2>2. CASE j = 1
      BY <1>3, <2>1, <2>2
    <2>3. CASE j # 1
      <3>1. t[j] = q[j - 1] /\ j - 1 \in 1 .. n
        BY <1>2, <1>4, <2>3
      <3>2. QED
        BY <1>2, <2>1, <3>1 DEF ToSet
    <2>4. QED
      BY <2>2, <2>3
  <1>9. ASSUME NEW y \in ToSet(q) PROVE y \in ToSet(t)
    <2>1. PICK k \in 1 .. n : y = q[k]
      BY <1>2, <1>9 DEF ToSet
    <2>2. k + 1 \in 2 .. n + 1 /\ (k + 1) - 1 = k
      BY <1>2
    <2>3. t[k + 1] = q[k] /\ k + 1 \in DOMAIN t
      BY <1>2, <1>3, <1>4, <2>2
    <2>4. QED
      BY <2>1, <2>3 DEF ToSet
  <1>10. x \in ToSet(t)
    <2>1. 1 \in DOMAIN t
      BY <1>2, <1>3
    <2>2. QED
      BY <1>3, <2>1 DEF ToSet
  <1>11. QED
    BY <1>1, <1>3, <1>7, <1>8, <1>9, <1>10
(***************************************************************************)
(* The elements of q that are old are the last ones.                       *)
(***************************************************************************)
OldLast(q, o) == \A i, j \in DOMAIN q : i < j /\ q[i] \in o => q[j] \in o

LEMMA WithoutOld ==
    ASSUME NEW T, NEW q \in Seq(T), NEW x, NEW o, NoTwice(q), OldLast(q, o)
    PROVE  OldLast(Without(q, x), o \ {x})
  <1>1. PICK r : r = Without(q, x)
    OBVIOUS
  <1>2. ToSet(r) = ToSet(q) \ {x} /\ Follows(r, q)
    BY <1>1, WithoutFacts
  <1>3. ASSUME NEW i \in DOMAIN r, NEW j \in DOMAIN r, i < j, r[i] \in o \ {x}
        PROVE  r[j] \in o \ {x}
    <2>1. PICK a \in DOMAIN q, b \in DOMAIN q : a < b /\ q[a] = r[i] /\ q[b] = r[j]
      BY <1>2, <1>3 DEF Follows
    <2>2. r[j] \in o
      BY <1>3, <2>1 DEF OldLast
    <2>3. r[j] # x
      BY <1>2, <1>3 DEF ToSet
    <2>4. QED
      BY <2>2, <2>3
  <1>4. QED
    BY <1>1, <1>3 DEF OldLast

LEMMA PushOld ==
    ASSUME NEW T, NEW q \in Seq(T), NEW x \in T, NEW o, x \notin o, OldLast(q, o)
    PROVE  OldLast(<<x>> \o q, o)
  <1>1. PICK t : t = <<x>> \o q
    OBVIOUS
  <1>2. PICK n \in Nat : n = Len(q) /\ DOMAIN q = 1 .. n
    OBVIOUS
  <1>3. DOMAIN t = 1 .. n + 1 /\ t[1] = x
    BY <1>1, <1>2
  <1>4. \A j \in 2 .. n + 1 : t[j] = q[j - 1]
    BY <1>1, <1>2
  <1>5. ASSUME NEW i \in 1 .. n + 1, NEW j \in 1 .. n + 1, i < j, t[i] \in o
        PROVE  t[j] \in o
    <2>1. i # 1
      BY <1>3, <1>5
    <2>2. /\ i \in 2 .. n + 1 /\ j \in 2 .. n + 1
          /\ i - 1 \in 1 .. n /\ j - 1 \in 1 .. n /\ i - 1 < j - 1
      BY <1>2, <1>5, <2>1
    <2>3. t[i] = q[i - 1] /\ t[j] = q[j - 1]
      BY <1>4, <2>2
    <2>4. QED
      BY <1>2, <1>5, <2>2, <2>3 DEF OldLast
  <1>6. QED
    BY <1>1, <1>3, <1>5 DEF OldLast

(***************************************************************************)
(* ngx_resolver_expire(): the old ones among the last elements of a queue  *)
(* are its end, and a queue without its end is in order.                   *)
(***************************************************************************)
LEMMA EndOfQueue ==
    ASSUME NEW n \in Nat, NEW I \in SUBSET (1 .. n),
           \A i \in I : \A j \in 1 .. n : i < j => j \in I
    PROVE  /\ n - Cardinality(I) \in 0 .. n
           /\ I = {i \in 1 .. n : i > n - Cardinality(I)}
  <1>1. CASE I = {}
    BY <1>1, FS_EmptySet
  <1>2. CASE I # {}
    <2>1. PICK m \in I : \A i \in I : m <= i
      <3>1. I \in SUBSET Nat
        OBVIOUS
      <3>2. QED
        BY <1>2, <3>1, LeastExists
    <2>2. I = m .. n
      <3>1. m \in 1 .. n
        BY <2>1
      <3>2. ASSUME NEW i \in I PROVE i \in m .. n
        <4>1. i \in 1 .. n /\ m <= i
          BY <2>1
        <4>2. QED
          BY <3>1, <4>1
      <3>3. ASSUME NEW j \in m .. n PROVE j \in I
        <4>1. j \in 1 .. n /\ (j = m \/ m < j)
          BY <3>1
        <4>2. QED
          BY <2>1, <4>1
      <3>4. QED
        BY <3>2, <3>3
    <2>3. Cardinality(I) = n - m + 1
      BY <2>1, <2>2, FS_Interval
    <2>4. QED
      BY <2>1, <2>2, <2>3
  <1>3. QED
    BY <1>1, <1>2

PrefixRight(p, q, o, gone) ==
    /\ NoTwice(p)
    /\ ToSet(p) = ToSet(q) \ gone
    /\ OldLast(p, o \ gone)

(* The elements after the place m are gone. *)
EndsAt(q, m, gone) == \A i \in DOMAIN q : q[i] \in gone <=> i > m

LEMMA PrefixFacts ==
    ASSUME NEW T, NEW q \in Seq(T), NEW m \in 0 .. Len(q), NEW o, NEW gone,
           NoTwice(q), OldLast(q, o), EndsAt(q, m, gone)
    PROVE  SubSeq(q, 1, m) \in Seq(T) /\ PrefixRight(SubSeq(q, 1, m), q, o, gone)
  <1>1. PICK n \in Nat : n = Len(q) /\ DOMAIN q = 1 .. n
    OBVIOUS
  <1>2. PICK r : r = SubSeq(q, 1, m)
    OBVIOUS
  <1>3. m \in Nat /\ m <= n
    BY <1>1
  <1>4. r \in Seq(T) /\ DOMAIN r = 1 .. m /\ \A i \in 1 .. m : r[i] = q[i]
    BY <1>1, <1>2, <1>3
  <1>5. \A i, j \in 1 .. n : q[i] = q[j] => i = j
    BY <1>1 DEF NoTwice
  <1>6. NoTwice(r)
    BY <1>3, <1>4, <1>5 DEF NoTwice
  <1>7. \A i \in 1 .. m : i \in 1 .. n /\ q[i] \notin gone
    BY <1>1, <1>3 DEF EndsAt
  <1>8. \A i \in 1 .. n : q[i] \notin gone => i \in 1 .. m
    BY <1>1, <1>3 DEF EndsAt
  <1>9. ToSet(r) = ToSet(q) \ gone
    <2>1. ASSUME NEW y \in ToSet(r) PROVE y \in ToSet(q) \ gone
      <3>1. PICK i \in 1 .. m : y = r[i]
        BY <1>4, <2>1 DEF ToSet
      <3>2. QED
        BY <1>1, <1>4, <1>7, <3>1 DEF ToSet
    <2>2. ASSUME NEW y \in ToSet(q) \ gone PROVE y \in ToSet(r)
      <3>1. PICK i \in 1 .. n : y = q[i]
        BY <1>1, <2>2 DEF ToSet
      <3>2. i \in 1 .. m
        BY <1>8, <2>2, <3>1
      <3>3. QED
        BY <1>4, <3>1, <3>2 DEF ToSet
    <2>3. QED
      BY <2>1, <2>2
  <1>10. OldLast(r, o \ gone)
    <2> SUFFICES ASSUME NEW i \in 1 .. m, NEW j \in 1 .. m, i < j, r[i] \in o \ gone
                 PROVE  r[j] \in o \ gone
      BY <1>4 DEF OldLast
    <2>1. q[i] \in o /\ i \in 1 .. n /\ j \in 1 .. n
      BY <1>4, <1>7
    <2>2. q[j] \in o
      BY <1>1, <2>1 DEF OldLast
    <2>3. QED
      BY <1>4, <1>7, <2>2
  <1>11. QED
    BY <1>2, <1>4, <1>6, <1>9, <1>10 DEF PrefixRight

LEMMA ConcatFacts ==
    ASSUME NEW T, NEW p \in Seq(T), NEW q \in Seq(T)
    PROVE  /\ p \o q \in Seq(T)
           /\ ToSet(p \o q) = ToSet(p) \cup ToSet(q)
           /\ NoTwice(p) /\ NoTwice(q) /\ ToSet(p) \cap ToSet(q) = {} => NoTwice(p \o q)
  <1>1. PICK t : t = p \o q
    OBVIOUS
  <1>2. PICK m \in Nat : m = Len(p) /\ DOMAIN p = 1 .. m
    OBVIOUS
  <1>3. PICK n \in Nat : n = Len(q) /\ DOMAIN q = 1 .. n
    OBVIOUS
  <1>4. t \in Seq(T) /\ DOMAIN t = 1 .. m + n
    BY <1>1, <1>2, <1>3
  <1>5. \A j \in 1 .. m + n : t[j] = IF j <= m THEN p[j] ELSE q[j - m]
    BY <1>1, <1>2, <1>3
  <1>6. ASSUME NEW j \in 1 .. m
        PROVE  j \in 1 .. m + n /\ t[j] = p[j]
    <2>1. j \in 1 .. m + n /\ j <= m
      OBVIOUS
    <2>2. QED
      BY <1>5, <2>1, Zenon
  <1>7. ASSUME NEW j \in 1 .. n
        PROVE  j + m \in 1 .. m + n /\ t[j + m] = q[j]
    <2>1. j + m \in 1 .. m + n /\ ~(j + m <= m) /\ (j + m) - m = j
      OBVIOUS
    <2>2. t[j + m] = q[(j + m) - m]
      BY <1>5, <2>1, Zenon
    <2>3. QED
      BY <2>1, <2>2, Zenon
  <1>8. ASSUME NEW j \in 1 .. m + n
        PROVE  \/ j \in 1 .. m
               \/ \E i \in 1 .. n : j = i + m
    <2>1. CASE j <= m
      BY <2>1
    <2>2. CASE j > m
      <3>1. j - m \in 1 .. n /\ j = (j - m) + m
        BY <2>2
      <3>2. QED
        BY <3>1
    <2>3. QED
      BY <2>1, <2>2
  <1>9. ASSUME NEW y \in ToSet(t) PROVE y \in ToSet(p) \cup ToSet(q)
    <2>1. PICK j \in 1 .. m + n : y = t[j]
      BY <1>4, <1>9 DEF ToSet
    <2>2. CASE j \in 1 .. m
      BY <1>2, <1>6, <2>1, <2>2 DEF ToSet
    <2>3. CASE \E i \in 1 .. n : j = i + m
      BY <1>3, <1>7, <2>1, <2>3 DEF ToSet
    <2>4. QED
      BY <1>8, <2>2, <2>3
  <1>10. ToSet(p) \subseteq ToSet(t)
    BY <1>2, <1>4, <1>6 DEF ToSet
  <1>11. ToSet(q) \subseteq ToSet(t)
    BY <1>3, <1>4, <1>7 DEF ToSet
  <1>12. ASSUME NoTwice(p), NoTwice(q), ToSet(p) \cap ToSet(q) = {}
         PROVE  NoTwice(t)
    <2>1. \A i, j \in 1 .. m : p[i] = p[j] => i = j
      BY <1>2, <1>12 DEF NoTwice
    <2>2. \A i, j \in 1 .. n : q[i] = q[j] => i = j
      BY <1>3, <1>12 DEF NoTwice
    <2>3. \A i \in 1 .. m, j \in 1 .. n : p[i] # q[j]
      BY <1>2, <1>3, <1>12 DEF ToSet
    <2>4. ASSUME NEW a \in 1 .. m + n, NEW b \in 1 .. m + n, t[a] = t[b]
          PROVE  a = b
      <3>1. CASE a \in 1 .. m /\ b \in 1 .. m
        BY <1>6, <2>1, <2>4, <3>1
      <3>2. CASE a \in 1 .. m /\ \E i \in 1 .. n : b = i + m
        <4>1. PICK i \in 1 .. n : b = i + m
          BY <3>2
        <4>2. t[a] = p[a] /\ t[b] = q[i]
          BY <1>6, <1>7, <3>2, <4>1
        <4>3. QED
          BY <2>3, <2>4, <3>2, <4>2
      <3>3. CASE b \in 1 .. m /\ \E i \in 1 .. n : a = i + m
        <4>1. PICK i \in 1 .. n : a = i + m
          BY <3>3
        <4>2. t[b] = p[b] /\ t[a] = q[i]
          BY <1>6, <1>7, <3>3, <4>1
        <4>3. QED
          BY <2>3, <2>4, <3>3, <4>2
      <3>4. CASE (\E i \in 1 .. n : a = i + m) /\ (\E i \in 1 .. n : b = i + m)
        <4>1. PICK i \in 1 .. n : a = i + m
          BY <3>4
        <4>2. PICK j \in 1 .. n : b = j + m
          BY <3>4
        <4>3. q[i] = q[j]
          BY <1>7, <2>4, <4>1, <4>2
        <4>4. QED
          BY <2>2, <4>1, <4>2, <4>3
      <3>5. QED
        BY <1>8, <3>1, <3>2, <3>3, <3>4
    <2>5. QED
      BY <1>4, <2>4, Zenon DEF NoTwice
  <1>13. QED
    BY <1>1, <1>4, <1>9, <1>10, <1>11, <1>12

-----------------------------------------------------------------------------
(***************************************************************************)
(* The invariant.  The trees and queues are its parameters, because an     *)
(* event first changes them and then ends contexts, which expires nodes.   *)
(***************************************************************************)
Nodes == [Keys -> Node \cup {None}]
Queues == [Kinds -> Seq(Keys)]

IsAsked(v) == v # None /\ v.valid = "no"
IsKnown(v) == v # None /\ v.valid # "no"

(* The nodes that belong into the queues of kind d. *)
Asked(n, d) == {k \in Keys : Kind(k) = d /\ IsAsked(n[k])}
Known(n, d) == {k \in Keys : Kind(k) = d /\ IsKnown(n[k])}

(* w: resend queues, e: expire queues, o: nodes whose time is over *)
QueueRight(n, w, e, o) ==
    /\ \A d \in Kinds : NoTwice(w[d]) /\ ToSet(w[d]) = Asked(n, d)
    /\ \A d \in Kinds : NoTwice(e[d]) /\ ToSet(e[d]) = Known(n, d)
    /\ \A k \in o : k \in Keys /\ IsKnown(n[k])
    /\ \A d \in Kinds : OldLast(e[d], o)

(* What a node in the cache gives: addresses or an alias, never both. *)
Answers(v) == ~Open(v.fam) /\ (Found(v.fam) # (v.cname # None)) /\ ~v.code

NodeRight(v, k) ==
    /\ v.valid # "no" => v.waiting = <<>>
    /\ k \in Names /\ v.query => v.valid = "no"
    /\ k \in Names /\ v.valid = "fresh" => Answers(v)

NodesRight(n) == \A k \in Keys : n[k] # None => NodeRight(n[k], k)

TreesRight(n, w, e, o) ==
    /\ n \in Nodes /\ w \in Queues /\ e \in Queues /\ o \subseteq Keys
    /\ QueueRight(n, w, e, o)
    /\ NodesRight(n)

(* The list of a node has the contexts that point to it, each once. *)
ListsRight(n, x) ==
    /\ \A k \in Keys : n[k] # None =>
          /\ NoTwice(n[k].waiting)
          /\ ToSet(n[k].waiting) = {c \in Lookups : x[c].node = k}
    /\ \A c \in Lookups : x[c].node # None => x[c].live /\ n[x[c].node] # None

ContextsRight(n, x) == x \in [Lookups -> Context] /\ ListsRight(n, x)

Calling == [list : Seq(Lookups), key : Keys, top : BOOLEAN]

CallRight(v) ==
    v # None => /\ v \in Calling
                /\ v.list # <<>> /\ NoTwice(v.list)
                /\ \A c \in ToSet(v.list) : ctx[c].live /\ ctx[c].node = None

DataRight ==
    /\ TreesRight(node, resend, expire, old)
    /\ ContextsRight(node, ctx)
    /\ timer \in BOOLEAN
    /\ ResendArmed

(* Between events and in calls: no loop is answering contexts. *)
QInv == DataRight /\ CallRight(call) /\ errors \in 0 .. MaxErrors
NoLoop == answers = <<>> /\ handler = None

(* The contexts, those that a loop has still to answer without a node. *)
Seen(x, cs) ==
    [c \in Lookups |-> IF c \in ToSet(cs) THEN [x[c] EXCEPT !.node = None] ELSE x[c]]

LoopData ==
    /\ TreesRight(node, resend, expire, old)
    /\ ctx \in [Lookups -> Context]
    /\ ContextsRight(node, Seen(ctx, answers))
    /\ timer \in BOOLEAN
    /\ ResendArmed

(* A context of the loop is freed only by the handler of another one. *)
Sibling(c) == \E d \in Lookups \ {c} : Main[d] = Main[c]

LoopRight ==
    /\ answers \in Seq(Lookups) /\ NoTwice(answers)
    /\ answers # <<>> => call = None
    /\ \A c \in ToSet(answers) :
          ctx[c].live \/ (handler # None /\ Sibling(c) /\ ctx[c].node = None)
    /\ handler \in Lookups \cup {None}
    /\ handler # None => answers # <<>> /\ ~ctx[handler].live

IInv ==
    /\ LoopData
    /\ CallRight(call)
    /\ LoopRight
    /\ errors \in 0 .. MaxErrors

LEMMA SeenAll ==
    ASSUME NEW x \in [Lookups -> Context]
    PROVE  Seen(x, <<>>) = x
  BY DEF Seen, ToSet

LEMMA QuietInv ==
    ASSUME IInv, answers = <<>>
    PROVE  QInv /\ NoLoop
  BY SeenAll DEF IInv, QInv, NoLoop, LoopData, LoopRight, DataRight

LEMMA InCall ==
    ASSUME IInv, call # None
    PROVE  QInv /\ NoLoop
  <1>1. answers = <<>>
    BY DEF IInv, LoopRight
  <1>2. QED
    BY <1>1, QuietInv

LEMMA NoLoopInv == QInv /\ NoLoop => IInv
  <1> SUFFICES ASSUME QInv, NoLoop PROVE IInv
    OBVIOUS
  <1>1. /\ TreesRight(node, resend, expire, old) /\ ContextsRight(node, ctx)
        /\ timer \in BOOLEAN /\ ResendArmed
    BY DEF QInv, DataRight
  <1>2. ctx \in [Lookups -> Context]
    BY <1>1 DEF ContextsRight
  <1>3. Seen(ctx, answers) = ctx
    BY <1>2, SeenAll DEF NoLoop
  <1>4. LoopData
    BY <1>1, <1>2, <1>3 DEF LoopData
  <1>5. LoopRight
    BY DEF NoLoop, LoopRight, NoTwice, ToSet
  <1>6. QED
    BY <1>4, <1>5 DEF QInv, IInv

LEMMA NoLoopNext == (QInv /\ NoLoop => IInv)'
  BY NoLoopInv, PTL

LEMMA KindFacts ==
    ASSUME NEW k \in Keys
    PROVE  /\ Kind(k) \in Kinds
           /\ k \in Names => Kind(k) = "name"
           /\ k \in Addrs => Kind(k) = "addr"
           /\ k # None
  BY KeysAssumption DEF Kind, Kinds, Keys

(* Where k is after it was moved: at the head of its queue, or nowhere. *)
Put(queues, k, there) == IF there THEN AtHead(queues, k) ELSE Removed(queues, k)

PutRight(p, queues, k, there) ==
    /\ p \in Queues
    /\ \A d \in Kinds : NoTwice(p[d])
    /\ \A d \in Kinds : d # Kind(k) => p[d] = queues[d]
    /\ ToSet(p[Kind(k)]) =
         (ToSet(queues[Kind(k)]) \ {k}) \cup (IF there THEN {k} ELSE {})
    /\ \A o : OldLast(queues[Kind(k)], o) => OldLast(p[Kind(k)], o \ {k})

LEMMA PutFacts ==
    ASSUME NEW queues \in Queues, NEW k \in Keys, NEW there \in BOOLEAN,
           \A d \in Kinds : NoTwice(queues[d])
    PROVE  PutRight(Put(queues, k, there), queues, k, there)
  <1>1. PICK q \in Seq(Keys) : q = queues[Kind(k)] /\ NoTwice(q)
    BY KindFacts DEF Queues
  <1>2. PICK r : r = Without(q, k)
    OBVIOUS
  <1>3. r \in Seq(Keys) /\ NoTwice(r) /\ ToSet(r) = ToSet(q) \ {k}
    BY <1>1, <1>2, WithoutFacts
  <1>4. \A o : OldLast(q, o) => OldLast(r, o \ {k})
    BY <1>1, <1>2, WithoutOld
  <1>5. PICK s : s = IF there THEN <<k>> \o r ELSE r
    OBVIOUS
  <1>6. /\ s \in Seq(Keys) /\ NoTwice(s)
        /\ ToSet(s) = (ToSet(q) \ {k}) \cup (IF there THEN {k} ELSE {})
    <2>1. k \notin ToSet(r)
      BY <1>3
    <2>2. CASE there
      <3>1. s = <<k>> \o r
        BY <1>5, <2>2, Zenon
      <3>2. s \in Seq(Keys) /\ NoTwice(s) /\ ToSet(s) = ToSet(r) \cup {k}
        BY <1>3, <2>1, <3>1, PushFacts
      <3>3. QED
        BY <1>3, <2>2, <3>2, Zenon
    <2>3. CASE ~there
      <3>1. s = r
        BY <1>5, <2>3, Zenon
      <3>2. (ToSet(q) \ {k}) \cup (IF there THEN {k} ELSE {}) = ToSet(q) \ {k}
        BY <2>3
      <3>3. QED
        BY <1>3, <3>1, <3>2, Zenon
    <2>4. QED
      BY <2>2, <2>3, Zenon
  <1>7. ASSUME NEW o, OldLast(q, o) PROVE OldLast(s, o \ {k})
    <2>1. OldLast(r, o \ {k})
      BY <1>4, <1>7
    <2>2. OldLast(<<k>> \o r, o \ {k})
      BY <1>3, <2>1, PushOld
    <2>3. QED
      BY <1>5, <2>1, <2>2, Zenon
  <1>8. Put(queues, k, there) = [queues EXCEPT ![Kind(k)] = s]
    <2>1. CASE there
      <3>1. s = <<k>> \o Without(queues[Kind(k)], k)
        BY <1>1, <1>2, <1>5, <2>1, Zenon
      <3>2. Put(queues, k, there) = AtHead(queues, k)
        BY <2>1, Zenon DEF Put
      <3>3. QED
        BY <3>1, <3>2 DEF AtHead
    <2>2. CASE ~there
      <3>1. s = Without(queues[Kind(k)], k)
        BY <1>1, <1>2, <1>5, <2>2, Zenon
      <3>2. Put(queues, k, there) = Removed(queues, k)
        BY <2>2, Zenon DEF Put
      <3>3. QED
        BY <3>1, <3>2 DEF Removed
    <2>3. QED
      BY <2>1, <2>2, Zenon
  <1>9. PICK p : p = [queues EXCEPT ![Kind(k)] = s]
    OBVIOUS
  <1>10. /\ p \in Queues /\ p[Kind(k)] = s
         /\ \A d \in Kinds : d # Kind(k) => p[d] = queues[d]
    BY <1>6, <1>9, KindFacts DEF Queues
  <1>11. \A d \in Kinds : NoTwice(p[d])
    BY <1>6, <1>10, Zenon
  <1>12. QED
    BY <1>1, <1>6, <1>7, <1>8, <1>9, <1>10, <1>11, Zenon DEF PutRight

-----------------------------------------------------------------------------
(***************************************************************************)
(* Trees and queues after a node was moved, replaced or deleted.           *)
(***************************************************************************)
LEMMA Moved ==
    ASSUME NEW n \in Nodes, NEW w \in Queues, NEW e \in Queues, NEW o,
           NEW m \in Nodes, NEW k \in Keys,
           QueueRight(n, w, e, o), \A j \in Keys : j # k => m[j] = n[j]
    PROVE  /\ Put(w, k, IsAsked(m[k])) \in Queues
           /\ Put(e, k, IsKnown(m[k])) \in Queues
           /\ QueueRight(m, Put(w, k, IsAsked(m[k])), Put(e, k, IsKnown(m[k])), o \ {k})
  <1> DEFINE p == Put(w, k, IsAsked(m[k]))
             q == Put(e, k, IsKnown(m[k]))
  <1>1. IsAsked(m[k]) \in BOOLEAN /\ IsKnown(m[k]) \in BOOLEAN
    BY DEF IsAsked, IsKnown
  <1>2. Kind(k) \in Kinds
    BY KindFacts
  <1>3. /\ \A d \in Kinds : NoTwice(w[d]) /\ ToSet(w[d]) = Asked(n, d)
        /\ \A d \in Kinds : NoTwice(e[d]) /\ ToSet(e[d]) = Known(n, d)
        /\ \A j \in o : j \in Keys /\ IsKnown(n[j])
        /\ \A d \in Kinds : OldLast(e[d], o)
    BY DEF QueueRight
  <1>4. PutRight(p, w, k, IsAsked(m[k]))
    BY <1>1, <1>3, PutFacts
  <1>5. PutRight(q, e, k, IsKnown(m[k]))
    BY <1>1, <1>3, PutFacts
  <1> HIDE DEF p, q
  <1>6. \A d \in Kinds : d # Kind(k) => Asked(m, d) = Asked(n, d) /\ Known(m, d) = Known(n, d)
    BY DEF Asked, Known
  <1>7. Asked(m, Kind(k)) = (Asked(n, Kind(k)) \ {k}) \cup (IF IsAsked(m[k]) THEN {k} ELSE {})
    BY DEF Asked
  <1>8. Known(m, Kind(k)) = (Known(n, Kind(k)) \ {k}) \cup (IF IsKnown(m[k]) THEN {k} ELSE {})
    BY DEF Known
  <1>9. \A d \in Kinds : ToSet(p[d]) = Asked(m, d)
    <2>1. ToSet(p[Kind(k)]) = Asked(m, Kind(k))
      BY <1>2, <1>3, <1>4, <1>7, Zenon DEF PutRight
    <2>2. \A d \in Kinds : d # Kind(k) => ToSet(p[d]) = Asked(m, d)
      BY <1>3, <1>4, <1>6, Zenon DEF PutRight
    <2>3. QED
      BY <2>1, <2>2, Zenon DEF PutRight
  <1>10. \A d \in Kinds : ToSet(q[d]) = Known(m, d)
    <2>1. ToSet(q[Kind(k)]) = Known(m, Kind(k))
      BY <1>2, <1>3, <1>5, <1>8, Zenon DEF PutRight
    <2>2. \A d \in Kinds : d # Kind(k) => ToSet(q[d]) = Known(m, d)
      BY <1>3, <1>5, <1>6, Zenon DEF PutRight
    <2>3. QED
      BY <2>1, <2>2, Zenon DEF PutRight
  <1>11. \A j \in o \ {k} : j \in Keys /\ IsKnown(m[j])
    BY <1>3
  <1>12. ASSUME NEW d \in Kinds, d # Kind(k) PROVE OldLast(q[d], o \ {k})
    <2>1. q[d] = e[d] /\ OldLast(e[d], o)
      BY <1>3, <1>5, <1>12, Zenon DEF PutRight
    <2>2. \A i \in DOMAIN q[d] : q[d][i] # k
      <3>1. k \notin ToSet(q[d])
        BY <1>10, <1>12 DEF Known
      <3>2. QED
        BY <3>1 DEF ToSet
    <2>3. QED
      BY <2>1, <2>2 DEF OldLast
  <1>13. \A d \in Kinds : OldLast(q[d], o \ {k})
    BY <1>2, <1>3, <1>5, <1>12, Zenon DEF PutRight
  <1>14. QueueRight(m, p, q, o \ {k})
    BY <1>4, <1>5, <1>9, <1>10, <1>11, <1>13, Zenon DEF QueueRight, PutRight
  <1>15. QED
    BY <1>4, <1>5, <1>14, Zenon DEF PutRight, p, q

(* Nothing is taken out of a queue for a node that is not in it. *)
LEMMA NotQueued ==
    ASSUME NEW n \in Nodes, NEW w \in Queues, NEW e \in Queues, NEW o,
           NEW k \in Keys, QueueRight(n, w, e, o)
    PROVE  /\ ~IsAsked(n[k]) => Removed(w, k) = w
           /\ ~IsKnown(n[k]) => Removed(e, k) = e /\ o \ {k} = o
  <1>1. Kind(k) \in Kinds
    BY KindFacts
  <1>2. ASSUME NEW queues \in Queues, k \notin ToSet(queues[Kind(k)])
        PROVE  Removed(queues, k) = queues
    <2>1. Without(queues[Kind(k)], k) = queues[Kind(k)]
      BY <1>2, Zenon DEF Without
    <2>2. QED
      BY <1>1, <2>1 DEF Removed, Queues
  <1>3. ~IsAsked(n[k]) => k \notin ToSet(w[Kind(k)])
    BY <1>1 DEF QueueRight, Asked
  <1>4. ~IsKnown(n[k]) => k \notin ToSet(e[Kind(k)])
    BY <1>1 DEF QueueRight, Known
  <1>5. ~IsKnown(n[k]) => o \ {k} = o
    BY DEF QueueRight
  <1>6. QED
    BY <1>2, <1>3, <1>4, <1>5, Zenon

(* Changes of nodes that leave them in their queues. *)
LEMMA NotMoved ==
    ASSUME NEW n, NEW m, NEW w, NEW e, NEW o, QueueRight(n, w, e, o),
           \A k \in Keys : /\ IsAsked(m[k]) <=> IsAsked(n[k])
                           /\ IsKnown(m[k]) <=> IsKnown(n[k])
    PROVE  QueueRight(m, w, e, o)
  <1>1. \A d : Asked(m, d) = Asked(n, d) /\ Known(m, d) = Known(n, d)
    BY DEF Asked, Known
  <1>2. \A k \in o : k \in Keys /\ IsKnown(m[k])
    BY DEF QueueRight
  <1>3. QED
    BY <1>1, <1>2, Zenon DEF QueueRight

(* A queue that loses a node leaves the timer no more to do than before. *)
LEMMA RemovedEmpty ==
    ASSUME NEW queues \in Queues, NEW k \in Keys, ~ResendEmpty(Removed(queues, k))
    PROVE  ~ResendEmpty(queues)
  <1>1. Kind(k) \in Kinds
    BY KindFacts
  <1>2. SUFFICES ASSUME \A d \in Kinds : queues[d] = <<>>
                 PROVE  \A d \in Kinds : Removed(queues, k)[d] = <<>>
    BY DEF ResendEmpty
  <1>3. ToSet(queues[Kind(k)]) = {}
    BY <1>1, <1>2 DEF ToSet
  <1>4. Without(queues[Kind(k)], k) = queues[Kind(k)]
    BY <1>3 DEF Without
  <1>5. Removed(queues, k) = queues
    BY <1>1, <1>4 DEF Removed, Queues
  <1>6. QED
    BY <1>2, <1>5

-----------------------------------------------------------------------------
(***************************************************************************)
(* A context that ends: what ngx_resolver_expire() deletes is old, so that *)
(* it is known, has no contexts and is the end of its queue.               *)
(***************************************************************************)
LEMMA DoneTrees ==
    ASSUME NEW c, ctx[c].kind \in Kinds, NEW n, TreesRight(n, resend, expire, old), Done(c, n)
    PROVE  /\ TreesRight(node', resend', expire', old')
           /\ \A k \in Keys : \/ node'[k] = n[k]
                              \/ node'[k] = None /\ n[k] # None /\ n[k].waiting = <<>>
  <1> DEFINE w == resend
             e == expire
             o == old
             d == ctx[c].kind
  <1>0. d \in Kinds /\ TreesRight(n, w, e, o)
    OBVIOUS
  <1>1. /\ n \in Nodes /\ w \in Queues /\ e \in Queues /\ o \subseteq Keys
        /\ QueueRight(n, w, e, o) /\ NodesRight(n)
    BY DEF TreesRight
  <1>2. PICK q \in Seq(Keys) : q = e[d] /\ NoTwice(q) /\ ToSet(q) = Known(n, d) /\ OldLast(q, o)
    BY <1>1 DEF Queues, QueueRight
  <1>3. PICK N \in Nat : N = Len(q) /\ DOMAIN q = 1 .. N
    OBVIOUS
  <1> DEFINE over == {i \in DOMAIN q : i > N - 2 /\ q[i] \in o}
             r == N - Cardinality(over)
             gone == {q[i] : i \in over}
             p == SubSeq(q, 1, r)
  <1>5. /\ node' = [k \in Keys |-> IF k \in gone THEN None ELSE n[k]]
        /\ expire' = [e EXCEPT ![d] = p]
        /\ old' = o \ gone
        /\ resend' = w
    BY <1>2, <1>3, Zenon DEF Done
  <1> HIDE DEF w, e, o, d
  <1>6. r \in 0 .. N /\ over = {i \in 1 .. N : i > r}
    <2>1. over \in SUBSET (1 .. N)
      BY <1>3
    <2>2. ASSUME NEW i \in over, NEW j \in 1 .. N, i < j
          PROVE  j \in over
      <3>1. i \in 1 .. N /\ i > N - 2 /\ q[i] \in o
        BY <1>3
      <3>2. q[j] \in o
        BY <1>2, <1>3, <2>2, <3>1, Zenon DEF OldLast
      <3>3. j > N - 2
        BY <2>2, <3>1
      <3>4. QED
        BY <1>3, <3>2, <3>3
    <2> HIDE DEF over
    <2>3. QED
      BY <2>1, <2>2, EndOfQueue
  <1>7. EndsAt(q, r, gone)
    <2> HIDE DEF r
    <2>1. \A i \in DOMAIN q : i \in over <=> i > r
      BY <1>3, <1>6
    <2> HIDE DEF over
    <2>2. over \subseteq DOMAIN q
      BY <1>3, <1>6
    <2>3. QED
      BY <1>2, <2>1, <2>2 DEF NoTwice, EndsAt
  <1>8. gone \subseteq o /\ gone \subseteq ToSet(q)
    BY DEF ToSet
  <1> HIDE DEF over, r, gone
  <1>9. p \in Seq(Keys) /\ PrefixRight(p, q, o, gone)
    BY <1>2, <1>3, <1>6, <1>7, PrefixFacts
  <1> HIDE DEF p
  <1>10. expire' \in Queues /\ expire'[d] = p /\ \A b \in Kinds : b # d => expire'[b] = e[b]
    BY <1>0, <1>1, <1>5, <1>9 DEF Queues
  <1>11. node' \in Nodes /\ \A k \in Keys : node'[k] = IF k \in gone THEN None ELSE n[k]
    BY <1>1, <1>5 DEF Nodes
  <1>12. \A k \in gone : k \in Keys /\ Kind(k) = d /\ IsKnown(n[k])
    BY <1>2, <1>8 DEF Known
  <1>13. \A b : Asked(node', b) = Asked(n, b)
    BY <1>11, <1>12 DEF Asked, IsAsked, IsKnown
  <1>14. Known(node', d) = Known(n, d) \ gone
    BY <1>11 DEF Known, IsKnown
  <1>15. \A b : b # d => Known(node', b) = Known(n, b)
    BY <1>11, <1>12 DEF Known
  <1>16. QueueRight(node', resend', expire', old')
    <2>1. \A b \in Kinds : NoTwice(w[b]) /\ ToSet(w[b]) = Asked(node', b)
      BY <1>1, <1>13, Zenon DEF QueueRight
    <2>2. \A b \in Kinds : NoTwice(expire'[b]) /\ ToSet(expire'[b]) = Known(node', b)
      <3>1. NoTwice(expire'[d]) /\ ToSet(expire'[d]) = Known(node', d)
        BY <1>2, <1>9, <1>10, <1>14, Zenon DEF PrefixRight
      <3>2. ASSUME NEW b \in Kinds, b # d
            PROVE  NoTwice(expire'[b]) /\ ToSet(expire'[b]) = Known(node', b)
        <4>1. NoTwice(e[b]) /\ ToSet(e[b]) = Known(n, b)
          BY <1>1, Zenon DEF QueueRight
        <4>2. QED
          BY <1>10, <1>15, <3>2, <4>1, Zenon
      <3>3. QED
        BY <3>1, <3>2, Zenon
    <2>3. \A k \in old' : k \in Keys /\ IsKnown(node'[k])
      BY <1>1, <1>5, <1>11 DEF QueueRight
    <2>4. \A b \in Kinds : OldLast(expire'[b], old')
      <3>1. OldLast(expire'[d], old')
        BY <1>5, <1>9, <1>10, Zenon DEF PrefixRight
      <3>2. ASSUME NEW b \in Kinds, b # d
            PROVE  OldLast(expire'[b], old')
        <4>1. expire'[b] = e[b] /\ ToSet(e[b]) = Known(n, b) /\ OldLast(e[b], o)
          BY <1>1, <1>10, <3>2, Zenon DEF QueueRight
        <4>2. \A i \in DOMAIN e[b] : e[b][i] \notin gone
          <5>1. \A k \in ToSet(e[b]) : k \notin gone
            BY <1>12, <3>2, <4>1 DEF Known
          <5>2. QED
            BY <5>1 DEF ToSet
        <4>3. \A i, j \in DOMAIN e[b] : i < j /\ e[b][i] \in o \ gone => e[b][j] \in o \ gone
          BY <4>1, <4>2 DEF OldLast
        <4>4. OldLast(e[b], o \ gone)
          BY <4>3, Zenon DEF OldLast
        <4>5. QED
          BY <1>5, <4>1, <4>4, Zenon
      <3>3. QED
        BY <3>1, <3>2, Zenon
    <2>5. QED
      BY <1>5, <2>1, <2>2, <2>3, <2>4, Zenon DEF QueueRight
  <1>17. NodesRight(node')
    BY <1>1, <1>11 DEF NodesRight
  <1>18. \A k \in Keys : \/ node'[k] = n[k]
                         \/ node'[k] = None /\ n[k] # None /\ n[k].waiting = <<>>
    BY <1>1, <1>11, <1>12 DEF NodesRight, NodeRight, IsKnown
  <1>19. old' \subseteq Keys
    BY <1>1, <1>5
  <1>20. QED
    BY <1>1, <1>5, <1>10, <1>11, <1>16, <1>17, <1>18, <1>19, Zenon DEF TreesRight

(* The lists of m are those of n without the contexts of S. *)
Handed(n, m, S) ==
    \A k \in Keys :
        /\ m[k] # None => /\ n[k] # None /\ NoTwice(m[k].waiting)
                          /\ ToSet(m[k].waiting) = ToSet(n[k].waiting) \ S
        /\ m[k] = None /\ n[k] # None => ToSet(n[k].waiting) \subseteq S

(* The contexts of y are those of x, and those of S point to no node. *)
Left(x, y, S) ==
    \A c \in Lookups : /\ y[c].node = IF c \in S THEN None ELSE x[c].node
                       /\ c \notin S => y[c].live = x[c].live

LEMMA ListsLeft ==
    ASSUME NEW n, NEW m, NEW x, NEW y \in [Lookups -> Context], NEW S,
           ContextsRight(n, x), Handed(n, m, S), Left(x, y, S)
    PROVE  ContextsRight(m, y)
  <1>1. x \in [Lookups -> Context] /\ ListsRight(n, x)
    BY DEF ContextsRight
  <1>2. ASSUME NEW k \in Keys, m[k] # None
        PROVE  /\ NoTwice(m[k].waiting)
               /\ ToSet(m[k].waiting) = {c \in Lookups : y[c].node = k}
    <2>1. /\ n[k] # None /\ NoTwice(m[k].waiting)
          /\ ToSet(m[k].waiting) = ToSet(n[k].waiting) \ S
      BY <1>2 DEF Handed
    <2>2. ToSet(n[k].waiting) = {c \in Lookups : x[c].node = k}
      BY <1>1, <2>1 DEF ListsRight
    <2>3. k # None
      BY KindFacts
    <2>4. {c \in Lookups : y[c].node = k} = {c \in Lookups : x[c].node = k} \ S
      BY <2>3 DEF Left
    <2>5. QED
      BY <2>1, <2>2, <2>4
  <1>3. ASSUME NEW c \in Lookups, y[c].node # None
        PROVE  y[c].live /\ m[y[c].node] # None
    <2>1. c \notin S /\ y[c].node = x[c].node /\ y[c].live = x[c].live
      BY <1>3 DEF Left
    <2>2. PICK k : k = x[c].node
      OBVIOUS
    <2>3. k \in Keys
      BY <1>1, <1>3, <2>1, <2>2 DEF Context
    <2>4. x[c].live /\ n[k] # None
      BY <1>1, <1>3, <2>1, <2>2 DEF ListsRight
    <2>5. c \in ToSet(n[k].waiting)
      BY <1>1, <2>2, <2>3, <2>4 DEF ListsRight
    <2>6. m[k] # None
      BY <2>1, <2>3, <2>4, <2>5 DEF Handed
    <2>7. QED
      BY <2>1, <2>2, <2>4, <2>6
  <1>4. ListsRight(m, y)
    BY <1>2, <1>3, Zenon DEF ListsRight
  <1>5. QED
    BY <1>4, Zenon DEF ContextsRight

LEMMA IdleFacts == Idle \in Context /\ Idle.node = None
  BY BoundsAssumption DEF Idle, Context, Kinds

LEMMA ListsEnd ==
    ASSUME NEW n, NEW m, NEW x, NEW S, ContextsRight(n, x), Handed(n, m, S)
    PROVE  ContextsRight(m, [c \in Lookups |-> IF c \in S THEN Idle ELSE x[c]])
  <1> DEFINE y == [c \in Lookups |-> IF c \in S THEN Idle ELSE x[c]]
  <1>1. Idle \in Context /\ Idle.node = None
    BY IdleFacts
  <1>2. x \in [Lookups -> Context]
    BY DEF ContextsRight
  <1>3. \A c \in Lookups : y[c] = IF c \in S THEN Idle ELSE x[c]
    OBVIOUS
  <1>4. y \in [Lookups -> Context]
    BY <1>1, <1>2
  <1> HIDE DEF y
  <1>5. Left(x, y, S)
    BY <1>1, <1>3 DEF Left
  <1>6. QED
    BY <1>4, <1>5, ListsLeft DEF y

(* Nodes that nobody waits for may be gone as well. *)
LEMMA HandedExpired ==
    ASSUME NEW m, NEW S, Handed(node, m, S), NEW n,
           \A k \in Keys : \/ n[k] = m[k]
                           \/ n[k] = None /\ m[k] # None /\ m[k].waiting = <<>>
    PROVE  Handed(node, n, S)
  <1> SUFFICES ASSUME NEW k \in Keys
               PROVE  /\ n[k] # None => /\ node[k] # None /\ NoTwice(n[k].waiting)
                                        /\ ToSet(n[k].waiting) = ToSet(node[k].waiting) \ S
                      /\ n[k] = None /\ node[k] # None => ToSet(node[k].waiting) \subseteq S
    BY Zenon DEF Handed
  <1>1. /\ m[k] # None => /\ node[k] # None /\ NoTwice(m[k].waiting)
                          /\ ToSet(m[k].waiting) = ToSet(node[k].waiting) \ S
        /\ m[k] = None /\ node[k] # None => ToSet(node[k].waiting) \subseteq S
    BY Zenon DEF Handed
  <1>2. CASE n[k] = m[k]
    BY <1>1, <1>2, Zenon
  <1>3. CASE n[k] = None /\ m[k] # None /\ m[k].waiting = <<>>
    <2>1. ToSet(m[k].waiting) = {}
      BY <1>3 DEF ToSet
    <2>2. ToSet(node[k].waiting) \subseteq S
      BY <1>1, <1>3, <2>1
    <2>3. QED
      BY <1>3, <2>2, Zenon
  <1>4. QED
    BY <1>2, <1>3, Zenon

LEMMA SeenFacts ==
    ASSUME NEW x \in [Lookups -> Context], NEW q
    PROVE  /\ Seen(x, q) \in [Lookups -> Context]
           /\ \A c \in Lookups :
                 /\ Seen(x, q)[c].live = x[c].live
                 /\ Seen(x, q)[c].node = IF c \in ToSet(q) THEN None ELSE x[c].node
  <1> DEFINE W(c) == IF c \in ToSet(q) THEN [x[c] EXCEPT !.node = None] ELSE x[c]
  <1>1. Seen(x, q) = [c \in Lookups |-> W(c)]
    BY Zenon DEF Seen
  <1>2. ASSUME NEW c \in Lookups
        PROVE  /\ W(c) \in Context /\ W(c).live = x[c].live
               /\ W(c).node = IF c \in ToSet(q) THEN None ELSE x[c].node
    <2>1. PICK r \in Context : r = x[c]
      OBVIOUS
    <2>2. PICK s : s = [r EXCEPT !.node = None]
      OBVIOUS
    <2>3. s \in Context /\ s.live = r.live /\ s.node = None
      BY <2>2 DEF Context
    <2>4. W(c) = IF c \in ToSet(q) THEN s ELSE r
      BY <2>1, <2>2
    <2> HIDE DEF W
    <2>5. QED
      BY <2>1, <2>3, <2>4
  <1> HIDE DEF W
  <1>3. QED
    BY <1>1, <1>2

(***************************************************************************)
(* The contexts cs are taken from the trees m, w, e and o for a loop.      *)
(***************************************************************************)
Living(S) == \A c \in S : c \in Lookups /\ ctx[c].live

LEMMA HandOutKeeps ==
    ASSUME DataRight, NoLoop, NEW cs \in Seq(Lookups), NoTwice(cs), Living(ToSet(cs)),
           NEW m, NEW w, NEW e, NEW o, TreesRight(m, w, e, o),
           Handed(node, m, ToSet(cs)), ~ResendEmpty(w) => timer,
           HandOut(cs, m, w, e, o), call' = None, errors' \in 0 .. MaxErrors
    PROVE  IInv'
  <1>1. /\ ContextsRight(node, ctx) /\ ctx \in [Lookups -> Context]
        /\ timer \in BOOLEAN
    BY DEF DataRight, ContextsRight
  <1>2. /\ node' = m /\ resend' = w /\ expire' = e /\ old' = o /\ answers' = cs
        /\ ctx' = ctx /\ timer' = timer /\ handler' = handler
    BY DEF HandOut
  <1>3. PICK y : y = Seen(ctx, cs)
    OBVIOUS
  <1>4. /\ y \in [Lookups -> Context]
        /\ \A c \in Lookups : /\ y[c].live = ctx[c].live
                             /\ y[c].node = IF c \in ToSet(cs) THEN None ELSE ctx[c].node
    BY <1>1, <1>3, SeenFacts
  <1>5. Left(ctx, y, ToSet(cs))
    BY <1>4 DEF Left
  <1>6. ContextsRight(m, y)
    BY <1>1, <1>4, <1>5, ListsLeft
  <1>7. timer' \in BOOLEAN /\ ResendArmed'
    BY <1>1, <1>2 DEF ResendArmed
  <1>8. LoopData'
    <2>1. Seen(ctx', answers') = y
      BY <1>2, <1>3
    <2>2. TreesRight(node', resend', expire', old')
      BY <1>2
    <2>3. QED
      BY <1>1, <1>2, <1>6, <1>7, <2>1, <2>2 DEF LoopData
  <1>9. LoopRight'
    BY <1>2 DEF LoopRight, NoLoop, Living
  <1>10. CallRight(call)'
    BY DEF CallRight
  <1>11. QED
    BY <1>8, <1>9, <1>10, Zenon DEF IInv

(***************************************************************************)
(* The context c ends, in a loop or between events.                        *)
(***************************************************************************)
LEMMA DoneKeeps ==
    ASSUME LoopData, NEW c \in Lookups, NEW m, TreesRight(m, resend, expire, old),
           Handed(node, m, {c}), Done(c, m),
           \A b \in Lookups \ {c} : b \in ToSet(answers') <=> b \in ToSet(answers)
    PROVE  /\ LoopData'
           /\ ctx'[c] = Idle /\ \A b \in Lookups : b # c => ctx'[b] = ctx[b]
  <1>1. /\ ctx \in [Lookups -> Context] /\ ContextsRight(node, Seen(ctx, answers))
        /\ timer \in BOOLEAN /\ ResendArmed
    BY DEF LoopData
  <1>2. ctx[c].kind \in Kinds
    BY <1>1 DEF Context
  <1>3. TreesRight(node', resend', expire', old')
    BY <1>2, DoneTrees
  <1>4. \A k \in Keys : \/ node'[k] = m[k]
                        \/ node'[k] = None /\ m[k] # None /\ m[k].waiting = <<>>
    BY <1>2, DoneTrees
  <1>5. Handed(node, node', {c})
    BY <1>4, HandedExpired
  <1>6. ctx' = [ctx EXCEPT ![c] = Idle] /\ timer' = TimerLeft /\ resend' = resend
    BY Zenon DEF Done
  <1>7. Idle \in Context /\ Idle.node = None
    BY IdleFacts
  <1>8. /\ ctx' \in [Lookups -> Context] /\ ctx'[c] = Idle
        /\ \A b \in Lookups : b # c => ctx'[b] = ctx[b]
    BY <1>1, <1>6, <1>7
  <1>9. PICK x : x = Seen(ctx, answers)
    OBVIOUS
  <1>10. PICK y : y = Seen(ctx', answers')
    OBVIOUS
  <1>11. \A b \in Lookups :
            /\ x[b].live = ctx[b].live
            /\ x[b].node = IF b \in ToSet(answers) THEN None ELSE ctx[b].node
    BY <1>1, <1>9, SeenFacts
  <1>12. /\ y \in [Lookups -> Context]
         /\ \A b \in Lookups :
               /\ y[b].live = ctx'[b].live
               /\ y[b].node = IF b \in ToSet(answers') THEN None ELSE ctx'[b].node
    BY <1>8, <1>10, SeenFacts
  <1>13. Left(x, y, {c})
    BY <1>7, <1>8, <1>11, <1>12 DEF Left
  <1>14. ContextsRight(node', y)
    BY <1>1, <1>5, <1>9, <1>12, <1>13, ListsLeft
  <1>15. timer' \in BOOLEAN /\ ResendArmed'
    BY <1>1, <1>6 DEF TimerLeft, ResendArmed
  <1>16. QED
    BY <1>3, <1>8, <1>10, <1>14, <1>15, Zenon DEF LoopData

-----------------------------------------------------------------------------
(***************************************************************************)
(* One node replaced by v.                                                 *)
(***************************************************************************)
LEMMA ReplacedTrees ==
    ASSUME TreesRight(node, resend, expire, old), NEW k \in Keys,
           NEW v \in Node \cup {None}, v # None => NodeRight(v, k)
    PROVE  /\ v = None => TreesRight([node EXCEPT ![k] = v],
                              Removed(resend, k), Removed(expire, k), old \ {k})
           /\ IsAsked(v) => TreesRight([node EXCEPT ![k] = v],
                              AtHead(resend, k), Removed(expire, k), old \ {k})
           /\ IsKnown(v) => TreesRight([node EXCEPT ![k] = v],
                              Removed(resend, k), AtHead(expire, k), old \ {k})
           /\ (IsAsked(v) /\ IsAsked(node[k])) \/ (IsKnown(v) /\ IsKnown(node[k])) =>
                TreesRight([node EXCEPT ![k] = v], resend, expire, old)
  <1>1. /\ node \in Nodes /\ resend \in Queues /\ expire \in Queues /\ old \subseteq Keys
        /\ QueueRight(node, resend, expire, old) /\ NodesRight(node)
    BY DEF TreesRight
  <1>2. PICK m : m = [node EXCEPT ![k] = v]
    OBVIOUS
  <1>3. m \in Nodes /\ m[k] = v /\ \A j \in Keys : j # k => m[j] = node[j]
    BY <1>1, <1>2 DEF Nodes
  <1>4. NodesRight(m)
    BY <1>1, <1>3, Zenon DEF NodesRight
  <1> DEFINE w == Put(resend, k, IsAsked(v))
             e == Put(expire, k, IsKnown(v))
  <1>5. w \in Queues /\ e \in Queues /\ QueueRight(m, w, e, old \ {k})
    BY <1>1, <1>3, Moved
  <1>6. old \ {k} \subseteq Keys
    BY <1>1
  <1>7. TreesRight(m, w, e, old \ {k})
    BY <1>3, <1>4, <1>5, <1>6, Zenon DEF TreesRight
  <1>8. ASSUME v = None
        PROVE  w = Removed(resend, k) /\ e = Removed(expire, k)
    BY <1>8 DEF IsAsked, IsKnown, Put
  <1>9. ASSUME IsAsked(v)
        PROVE  w = AtHead(resend, k) /\ e = Removed(expire, k)
    BY <1>9 DEF IsAsked, IsKnown, Put
  <1>10. ASSUME IsKnown(v)
         PROVE  w = Removed(resend, k) /\ e = AtHead(expire, k)
    BY <1>10 DEF IsAsked, IsKnown, Put
  <1>11. ASSUME (IsAsked(v) /\ IsAsked(node[k])) \/ (IsKnown(v) /\ IsKnown(node[k]))
         PROVE  TreesRight(m, resend, expire, old)
    <2>1. \A j \in Keys : /\ IsAsked(m[j]) <=> IsAsked(node[j])
                          /\ IsKnown(m[j]) <=> IsKnown(node[j])
      BY <1>3, <1>11 DEF IsAsked, IsKnown
    <2>2. QueueRight(m, resend, expire, old)
      BY <1>1, <2>1, NotMoved
    <2>3. QED
      BY <1>1, <1>3, <1>4, <2>2, Zenon DEF TreesRight
  <1> HIDE DEF w, e
  <1>12. QED
    BY <1>2, <1>7, <1>8, <1>9, <1>10, <1>11, Zenon

LEMMA ReplacedInPlace ==
    ASSUME TreesRight(node, resend, expire, old), NEW k \in Keys, NEW v \in Node,
           NodeRight(v, k),
           (IsAsked(v) /\ IsAsked(node[k])) \/ (IsKnown(v) /\ IsKnown(node[k]))
    PROVE  TreesRight([node EXCEPT ![k] = v], resend, expire, old)
  BY ReplacedTrees, Zenon

(* The lists after a node was replaced. *)
LEMMA ReplacedListsOf ==
    ASSUME node \in Nodes, NEW x, ContextsRight(node, x),
           NEW k \in Keys, NEW v \in Node \cup {None}, NEW S,
           \A c \in S : c \in Lookups /\ x[c].node \in {None, k},
           v # None => /\ node[k] # None /\ NoTwice(v.waiting)
                       /\ ToSet(v.waiting) = ToSet(node[k].waiting) \ S,
           v = None /\ node[k] # None => ToSet(node[k].waiting) \subseteq S
    PROVE  Handed(node, [node EXCEPT ![k] = v], S)
  <1>1. ListsRight(node, x)
    BY DEF ContextsRight
  <1>2. PICK m : m = [node EXCEPT ![k] = v]
    OBVIOUS
  <1>3. m \in Nodes /\ m[k] = v /\ \A j \in Keys : j # k => m[j] = node[j]
    BY <1>2 DEF Nodes
  <1>4. ASSUME NEW j \in Keys, j # k, node[j] # None
        PROVE  NoTwice(node[j].waiting) /\ ToSet(node[j].waiting) \ S = ToSet(node[j].waiting)
    <2>1. NoTwice(node[j].waiting) /\ ToSet(node[j].waiting) = {c \in Lookups : x[c].node = j}
      BY <1>1, <1>4 DEF ListsRight
    <2>2. j # None
      BY KindFacts
    <2>3. QED
      BY <1>4, <2>1, <2>2
  <1>5. Handed(node, m, S)
    <2> SUFFICES ASSUME NEW j \in Keys
                 PROVE  /\ m[j] # None =>
                              /\ node[j] # None /\ NoTwice(m[j].waiting)
                              /\ ToSet(m[j].waiting) = ToSet(node[j].waiting) \ S
                        /\ m[j] = None /\ node[j] # None => ToSet(node[j].waiting) \subseteq S
      BY Zenon DEF Handed
    <2>1. CASE j = k
      BY <1>3, <2>1, Zenon
    <2>2. CASE j # k
      BY <1>3, <1>4, <2>2, Zenon
    <2>3. QED
      BY <2>1, <2>2
  <1>6. QED
    BY <1>2, <1>5

LEMMA ReplacedLists ==
    ASSUME DataRight, NEW k \in Keys, NEW v \in Node \cup {None}, NEW S,
           \A c \in S : c \in Lookups /\ ctx[c].node \in {None, k},
           v # None => /\ node[k] # None /\ NoTwice(v.waiting)
                       /\ ToSet(v.waiting) = ToSet(node[k].waiting) \ S,
           v = None /\ node[k] # None => ToSet(node[k].waiting) \subseteq S
    PROVE  Handed(node, [node EXCEPT ![k] = v], S)
  <1>1. node \in Nodes /\ ContextsRight(node, ctx)
    BY DEF DataRight, TreesRight
  <1>2. QED
    BY <1>1, ReplacedListsOf

(***************************************************************************)
(* The contexts of node k are handed out, and others that have no node.    *)
(***************************************************************************)
LEMMA HandOutAll ==
    ASSUME DataRight, NoLoop, NEW k \in Keys, NEW v \in Node \cup {None},
           NEW cs \in Seq(Lookups), NoTwice(cs), Living(ToSet(cs)), NEW w, NEW e, NEW o,
           \A c \in ToSet(cs) : ctx[c].node \in {None, k},
           node[k] # None => ToSet(node[k].waiting) \subseteq ToSet(cs),
           v # None => node[k] # None /\ v.waiting = <<>>,
           TreesRight([node EXCEPT ![k] = v], w, e, o),
           w = resend \/ w = Removed(resend, k),
           HandOut(cs, [node EXCEPT ![k] = v], w, e, o),
           call' = None, errors' \in 0 .. MaxErrors
    PROVE  IInv'
  <1>1. resend \in Queues /\ ResendArmed
    BY DEF DataRight, TreesRight
  <1>2. ~ResendEmpty(w) => timer
    BY <1>1, RemovedEmpty, Zenon DEF ResendArmed
  <1>3. NoTwice(<<>>) /\ ToSet(<<>>) = {}
    BY DEF NoTwice, ToSet
  <1>4. v # None => ToSet(v.waiting) = ToSet(node[k].waiting) \ ToSet(cs)
    BY <1>3
  <1>5. v # None => NoTwice(v.waiting)
    BY <1>3
  <1>6. \A c \in ToSet(cs) : c \in Lookups /\ ctx[c].node \in {None, k}
    BY DEF Living
  <1>7. Handed(node, [node EXCEPT ![k] = v], ToSet(cs))
    BY <1>4, <1>5, <1>6, ReplacedLists
  <1>8. QED
    BY <1>2, <1>7, HandOutKeeps

-----------------------------------------------------------------------------
(***************************************************************************)
(* ngx_resolve_name_locked() and ngx_resolve_addr().                       *)
(***************************************************************************)
LEMMA NodeFactsOf ==
    ASSUME TreesRight(node, resend, expire, old), NEW x, ContextsRight(node, x),
           NEW k \in Keys, node[k] # None
    PROVE  /\ node[k] \in Node /\ NodeRight(node[k], k)
           /\ node[k].waiting \in Seq(Lookups)
           /\ NoTwice(node[k].waiting)
           /\ \A c : c \in ToSet(node[k].waiting) <=> c \in Lookups /\ x[c].node = k
           /\ IsAsked(node[k]) <=> ~IsKnown(node[k])
  <1>1. node \in Nodes /\ NodesRight(node) /\ ListsRight(node, x)
    BY DEF TreesRight, ContextsRight
  <1>2. node[k] \in Node /\ node[k].waiting \in Seq(Lookups)
    BY <1>1 DEF Nodes, Node
  <1>3. NodeRight(node[k], k)
    BY <1>1 DEF NodesRight
  <1>4. NoTwice(node[k].waiting) /\ ToSet(node[k].waiting) = {c \in Lookups : x[c].node = k}
    BY <1>1 DEF ListsRight
  <1>5. QED
    BY <1>2, <1>3, <1>4 DEF IsAsked, IsKnown

LEMMA NodeFacts ==
    ASSUME DataRight, NEW k \in Keys, node[k] # None
    PROVE  /\ node[k] \in Node /\ NodeRight(node[k], k)
           /\ node[k].waiting \in Seq(Lookups)
           /\ NoTwice(node[k].waiting)
           /\ \A c : c \in ToSet(node[k].waiting) <=> c \in Lookups /\ ctx[c].node = k
           /\ IsAsked(node[k]) <=> ~IsKnown(node[k])
  <1>1. TreesRight(node, resend, expire, old) /\ ContextsRight(node, ctx)
    BY DEF DataRight
  <1>2. QED
    BY <1>1, NodeFactsOf

(* The contexts that wait for a node. *)
LEMMA WaitersLive ==
    ASSUME DataRight, NEW k \in Keys, node[k] # None
    PROVE  Living(ToSet(node[k].waiting))
  <1>1. \A c \in Lookups : ctx[c].node # None => ctx[c].live
    BY DEF DataRight, ContextsRight, ListsRight
  <1>2. k # None
    BY KindFacts
  <1>3. QED
    BY <1>1, <1>2, NodeFacts DEF Living

LEMMA CachedFacts ==
    ASSUME DataRight, NEW k \in Keys
    PROVE  /\ Cached(k) => node[k] # None /\ IsKnown(node[k]) /\ node[k].waiting = <<>>
           /\ Shared(k) => node[k] # None /\ IsAsked(node[k])
           /\ ~Cached(k) /\ ~Shared(k) => node[k] = None \/ node[k].waiting = <<>>
  BY NodeFacts DEF Cached, Shared, NodeRight, IsKnown, IsAsked

LEMMA CallFacts ==
    ASSUME CallRight(call), NEW k, Calls(k)
    PROVE  /\ call \in Calling /\ k = call.key
           /\ call.list \in Seq(Lookups) /\ call.list # <<>> /\ NoTwice(call.list)
           /\ Head(call.list) \in ToSet(call.list)
           /\ \A c \in ToSet(call.list) : c \in Lookups /\ ctx[c].live /\ ctx[c].node = None
  <1>1. /\ call \in Calling /\ call.list # <<>> /\ NoTwice(call.list)
        /\ \A c \in ToSet(call.list) : ctx[c].live /\ ctx[c].node = None
    BY DEF CallRight, Calls
  <1>2. PICK q \in Seq(Lookups) : q = call.list
    BY <1>1 DEF Calling
  <1>3. 1 \in DOMAIN q /\ Head(q) = q[1]
    BY <1>1, <1>2
  <1>4. Head(q) \in ToSet(q)
    BY <1>3 DEF ToSet
  <1>5. ToSet(q) \subseteq Lookups
    BY DEF ToSet
  <1>6. QED
    BY <1>1, <1>2, <1>4, <1>5, Zenon DEF Calls

LEMMA NoCall ==
    ASSUME call' = None
    PROVE  CallRight(call)'
  BY DEF CallRight

(* The answer of the cache, or none because the aliases are too many. *)
LEMMA CacheHandsOut ==
    ASSUME DataRight, NoLoop, CallRight(call), NEW k \in Keys, Calls(k), Cached(k),
           HandOut(call.list \o node[k].waiting, [node EXCEPT ![k].waiting = <<>>],
                   resend, AtHead(expire, k), old \ {k}),
           call' = None, errors' \in 0 .. MaxErrors
    PROVE  IInv'
  <1>1. node[k] # None /\ IsKnown(node[k]) /\ node[k].waiting = <<>>
    BY CachedFacts
  <1>2. node[k] \in Node /\ NodeRight(node[k], k)
    BY <1>1, NodeFacts
  <1>3. PICK v : v = node[k]
    OBVIOUS
  <1>4. [node EXCEPT ![k].waiting = <<>>] = [node EXCEPT ![k] = v]
    <2>1. [node[k] EXCEPT !.waiting = <<>>] = v
      BY <1>1, <1>2, <1>3 DEF Node
    <2>2. QED
      BY <2>1
  <1>5. PICK cs : cs = call.list
    OBVIOUS
  <1>6. /\ cs \in Seq(Lookups) /\ NoTwice(cs) /\ Living(ToSet(cs))
        /\ \A c \in ToSet(cs) : ctx[c].node \in {None, k}
    BY <1>5, CallFacts DEF Living
  <1>7. cs \o node[k].waiting = cs
    BY <1>1, <1>6
  <1>8. HandOut(cs, [node EXCEPT ![k] = v], resend, AtHead(expire, k), old \ {k})
    BY <1>4, <1>5, <1>7
  <1>9. TreesRight([node EXCEPT ![k] = v], resend, AtHead(expire, k), old \ {k})
    <2>1. TreesRight(node, resend, expire, old)
      BY DEF DataRight
    <2>2. Removed(resend, k) = resend
      BY <1>1, <2>1, NotQueued DEF TreesRight, IsAsked, IsKnown
    <2>3. TreesRight([node EXCEPT ![k] = v], Removed(resend, k), AtHead(expire, k), old \ {k})
      BY <1>1, <1>2, <1>3, <2>1, ReplacedTrees
    <2>4. QED
      BY <2>2, <2>3, Zenon
  <1>10. ToSet(node[k].waiting) = {}
    BY <1>1 DEF ToSet
  <1>11. v \in Node \cup {None} /\ v.waiting = <<>>
    BY <1>1, <1>2, <1>3
  <1>12. ToSet(node[k].waiting) \subseteq ToSet(cs)
    BY <1>10
  <1>13. QED
    BY <1>1, <1>6, <1>8, <1>9, <1>11, <1>12, HandOutAll

LEMMA ResolveCachedKeeps ==
    ASSUME QInv, NoLoop, NEW k \in Keys, ResolveCached(k)
    PROVE  IInv'
  BY CacheHandsOut DEF QInv, ResolveCached

LEMMA ResolveCnameKeeps ==
    ASSUME QInv, NoLoop, NEW k \in Keys, ResolveCname(k)
    PROVE  IInv'
  <1>1. DataRight /\ CallRight(call) /\ Calls(k) /\ Cached(k) /\ node[k].cname # None
    BY Zenon DEF QInv, ResolveCname
  <1>2. PICK c : c = Head(call.list)
    OBVIOUS
  <1>3. /\ call \in Calling /\ call.list \in Seq(Lookups) /\ call.list # <<>>
        /\ NoTwice(call.list) /\ c \in ToSet(call.list)
        /\ \A b \in ToSet(call.list) : b \in Lookups /\ ctx[b].live /\ ctx[b].node = None
    BY <1>1, <1>2, CallFacts, Zenon
  <1>4. errors' \in 0 .. MaxErrors
    BY DEF ResolveCname, QInv
  <1>5. ASSUME ctx[c].recursion < MaxRecursion,
               ctx' = [ctx EXCEPT ![c].recursion = @ + 1],
               call' = [call EXCEPT !.key = node[k].cname],
               expire' = AtHead(expire, k), old' = old \ {k},
               UNCHANGED <<node, resend, timer, loop>>
        PROVE  IInv'
    <2>1. TreesRight(node, resend, expire, old) /\ ContextsRight(node, ctx)
      BY <1>1 DEF DataRight
    <2>2. node[k] # None /\ IsKnown(node[k]) /\ node[k] \in Node /\ NodeRight(node[k], k)
      BY <1>1, CachedFacts, NodeFacts
    <2>3. [node EXCEPT ![k] = node[k]] = node
      BY <2>1 DEF TreesRight, Nodes
    <2>4. TreesRight(node, Removed(resend, k), AtHead(expire, k), old \ {k})
      BY <2>1, <2>2, <2>3, ReplacedTrees
    <2>5. Removed(resend, k) = resend
      BY <2>1, <2>2, NotQueued DEF TreesRight, IsAsked, IsKnown
    <2>6. TreesRight(node', resend', expire', old')
      BY <1>5, <2>4, <2>5, Zenon
    <2>7. ctx \in [Lookups -> Context] /\ c \in Lookups
      BY <1>3, <2>1 DEF ContextsRight
    <2>8. PICK r \in Context : r = ctx[c]
      BY <2>7
    <2>9. r.recursion + 1 \in 0 .. MaxRecursion
      BY <1>5, <2>8, BoundsAssumption DEF Context
    <2>10. PICK s : s = [r EXCEPT !.recursion = @ + 1]
      OBVIOUS
    <2>11. s \in Context /\ s.node = r.node /\ s.live = r.live
      BY <2>8, <2>9, <2>10 DEF Context
    <2>12. ctx' = [ctx EXCEPT ![c] = s]
      BY <1>5, <2>8, <2>10
    <2>13. ctx' \in [Lookups -> Context]
      BY <2>7, <2>11, <2>12
    <2>14. \A b \in Lookups : ctx'[b].node = ctx[b].node /\ ctx'[b].live = ctx[b].live
      BY <2>7, <2>8, <2>11, <2>12
    <2>15. Left(ctx, ctx', {})
      BY <2>14 DEF Left
    <2>16. Handed(node, node, {})
      BY <2>1 DEF Handed, ContextsRight, ListsRight
    <2>17. ContextsRight(node', ctx')
      BY <1>5, <2>1, <2>13, <2>15, <2>16, ListsLeft
    <2>18. timer' \in BOOLEAN /\ ResendArmed'
      BY <1>1, <1>5 DEF DataRight, ResendArmed, ResendEmpty
    <2>19. DataRight'
      BY <2>6, <2>17, <2>18, Zenon DEF DataRight
    <2>20. node[k].cname \in Keys
      BY <1>1, <2>2 DEF Node, Keys
    <2>21. call' \in Calling /\ call'.list = call.list
      BY <1>3, <1>5, <2>20 DEF Calling
    <2>22. CallRight(call)'
      BY <1>3, <2>14, <2>21 DEF CallRight
    <2>23. NoLoop'
      BY <1>5 DEF NoLoop, loop
    <2>24. QED
      BY <1>4, <2>19, <2>22, <2>23, NoLoopNext, Zenon DEF QInv
  <1>6. ASSUME HandOut(call.list \o node[k].waiting, [node EXCEPT ![k].waiting = <<>>],
                       resend, AtHead(expire, k), old \ {k}),
               call' = None
        PROVE  IInv'
    BY <1>1, <1>4, <1>6, CacheHandsOut
  <1>7. QED
    BY <1>2, <1>5, <1>6 DEF ResolveCname

(* Contexts without a node get to wait for node k. *)
Free(S) == \A c \in S : c \in Lookups /\ ctx[c].live /\ ctx[c].node = None

Joined(y, S, k) ==
    /\ y \in [Lookups -> Context]
    /\ \A c \in Lookups : /\ y[c].live = ctx[c].live
                          /\ y[c].node = IF c \in S THEN k ELSE ctx[c].node

LEMMA ListsJoin ==
    ASSUME DataRight, NEW k \in Keys, NEW v \in Node, NEW S,
           NEW y, Free(S), Joined(y, S, k), NoTwice(v.waiting),
           node[k] # None => ToSet(v.waiting) = S \cup ToSet(node[k].waiting),
           node[k] = None => ToSet(v.waiting) = S
    PROVE  ContextsRight([node EXCEPT ![k] = v], y)
  <1>1. /\ node \in Nodes /\ ListsRight(node, ctx)
        /\ ctx \in [Lookups -> Context]
    BY DEF DataRight, TreesRight, ContextsRight
  <1>2. PICK m : m = [node EXCEPT ![k] = v]
    OBVIOUS
  <1>3. m[k] = v /\ \A j \in Keys : j # k => m[j] = node[j]
    BY <1>1, <1>2 DEF Nodes
  <1>4. v # None
    BY NoneAssumption
  <1>5. \A j \in Keys : j # None
    BY KindFacts
  <1>6. ToSet(v.waiting) = S \cup {c \in Lookups : ctx[c].node = k}
    <2>1. CASE node[k] # None
      BY <1>1, <2>1 DEF ListsRight
    <2>2. CASE node[k] = None
      <3>1. {c \in Lookups : ctx[c].node = k} = {}
        BY <1>1, <1>5, <2>2 DEF ListsRight
      <3>2. QED
        BY <2>2, <3>1
    <2>3. QED
      BY <2>1, <2>2
  <1>7. ToSet(v.waiting) = {c \in Lookups : y[c].node = k}
    BY <1>6 DEF Free, Joined
  <1>8. ASSUME NEW j \in Keys, j # k, node[j] # None
        PROVE  /\ NoTwice(node[j].waiting)
               /\ ToSet(node[j].waiting) = {c \in Lookups : y[c].node = j}
    <2>1. /\ NoTwice(node[j].waiting)
          /\ ToSet(node[j].waiting) = {c \in Lookups : ctx[c].node = j}
      BY <1>1, <1>8 DEF ListsRight
    <2>2. {c \in Lookups : ctx[c].node = j} = {c \in Lookups : y[c].node = j}
      BY <1>5, <1>8 DEF Free, Joined
    <2>3. QED
      BY <2>1, <2>2
  <1>9. \A j \in Keys : m[j] # None =>
            /\ NoTwice(m[j].waiting)
            /\ ToSet(m[j].waiting) = {c \in Lookups : y[c].node = j}
    BY <1>3, <1>7, <1>8, Zenon
  <1>10. ASSUME NEW c \in Lookups, y[c].node # None
         PROVE  y[c].live /\ m[y[c].node] # None
    <2>1. CASE c \in S
      BY <1>3, <1>4, <2>1 DEF Free, Joined
    <2>2. CASE c \notin S
      <3>1. y[c].node = ctx[c].node /\ y[c].live = ctx[c].live
        BY <2>2 DEF Joined
      <3>2. PICK j : j = ctx[c].node
        OBVIOUS
      <3>3. j \in Keys /\ node[j] # None /\ ctx[c].live
        BY <1>1, <1>10, <3>1, <3>2 DEF ListsRight, Context
      <3>4. m[j] # None
        BY <1>3, <1>4, <3>3
      <3>5. QED
        BY <3>1, <3>2, <3>3, <3>4
    <2>3. QED
      BY <2>1, <2>2
  <1>11. ListsRight(m, y)
    BY <1>9, <1>10, Zenon DEF ListsRight
  <1>12. QED
    BY <1>2, <1>11, Zenon DEF ContextsRight, Joined

LEMMA WaitsFacts ==
    ASSUME ctx \in [Lookups -> Context], NEW cs, NEW k \in Keys, Waits(cs, k)
    PROVE  Joined(ctx', ToSet(cs), k)
  <1> DEFINE W(c) == IF c \notin ToSet(cs) THEN ctx[c]
                     ELSE [(IF c = Head(cs) THEN Timed(c) ELSE ctx[c]) EXCEPT !.node = k]
  <1>1. ctx' = [c \in Lookups |-> W(c)]
    BY Zenon DEF Waits
  <1>2. ASSUME NEW c \in Lookups
        PROVE  /\ W(c) \in Context /\ W(c).live = ctx[c].live
               /\ W(c).node = IF c \in ToSet(cs) THEN k ELSE ctx[c].node
    <2>1. PICK r \in Context : r = ctx[c]
      OBVIOUS
    <2>2. PICK t : t = IF c = Head(cs) THEN [r EXCEPT !.timed = c \notin Untimed] ELSE r
      OBVIOUS
    <2>3. t \in Context /\ t.live = r.live
      BY <2>2 DEF Context
    <2>4. [t EXCEPT !.node = k] \in Context /\ [t EXCEPT !.node = k].live = r.live
          /\ [t EXCEPT !.node = k].node = k
      BY <2>3 DEF Context
    <2>5. W(c) = IF c \notin ToSet(cs) THEN r ELSE [t EXCEPT !.node = k]
      BY <2>1, <2>2 DEF Timed
    <2> HIDE DEF W
    <2>6. QED
      BY <2>1, <2>4, <2>5
  <1> HIDE DEF W
  <1>3. QED
    BY <1>1, <1>2 DEF Joined

LEMMA ResolveJoinKeeps ==
    ASSUME QInv, NEW k \in Keys, ResolveJoin(k)
    PROVE  QInv'
  <1>1. DataRight /\ CallRight(call) /\ Calls(k) /\ Shared(k)
    BY Zenon DEF QInv, ResolveJoin
  <1>2. PICK cs : cs = call.list
    OBVIOUS
  <1>3. cs \in Seq(Lookups) /\ NoTwice(cs) /\ Free(ToSet(cs))
    BY <1>1, <1>2, CallFacts, Zenon DEF Free
  <1>4. /\ node[k] # None /\ IsAsked(node[k]) /\ node[k] \in Node
        /\ node[k].waiting \in Seq(Lookups) /\ NoTwice(node[k].waiting)
        /\ \A c : c \in ToSet(node[k].waiting) <=> c \in Lookups /\ ctx[c].node = k
    BY <1>1, CachedFacts, NodeFacts
  <1>5. PICK q : q = cs \o node[k].waiting
    OBVIOUS
  <1>6. k # None
    BY KindFacts
  <1>7. ToSet(cs) \cap ToSet(node[k].waiting) = {}
    BY <1>3, <1>4, <1>6 DEF Free
  <1>8. q \in Seq(Lookups) /\ NoTwice(q) /\ ToSet(q) = ToSet(cs) \cup ToSet(node[k].waiting)
    BY <1>3, <1>4, <1>5, <1>7, ConcatFacts
  <1>9. PICK v : v = [node[k] EXCEPT !.waiting = q]
    OBVIOUS
  <1>10. v \in Node /\ v.waiting = q /\ v.valid = "no"
    BY <1>4, <1>8, <1>9 DEF Node, IsAsked
  <1>11. v # None /\ IsAsked(v) /\ NodeRight(v, k)
    BY <1>10, NoneAssumption DEF IsAsked, NodeRight
  <1>12. node' = [node EXCEPT ![k] = v]
    BY <1>2, <1>5, <1>9 DEF ResolveJoin
  <1>13. TreesRight(node', resend', expire', old')
    <2>1. TreesRight(node, resend, expire, old)
      BY <1>1 DEF DataRight
    <2>2. TreesRight([node EXCEPT ![k] = v], resend, expire, old)
      <3>1. v \in Node /\ NodeRight(v, k) /\ IsAsked(v) /\ IsAsked(node[k])
        BY <1>4, <1>10, <1>11, Zenon
      <3>2. QED
        BY <2>1, <3>1, ReplacedInPlace
    <2>3. QED
      BY <1>12, <2>2, Zenon DEF ResolveJoin
  <1>14. ctx \in [Lookups -> Context] /\ Waits(cs, k)
    BY <1>1, <1>2, Zenon DEF DataRight, ContextsRight, ResolveJoin
  <1>15. ContextsRight(node', ctx')
    <2>1. PICK y : y = ctx'
      OBVIOUS
    <2>2. Joined(y, ToSet(cs), k)
      BY <1>14, <2>1, WaitsFacts, Zenon
    <2>3. NoTwice(v.waiting) /\ ToSet(v.waiting) = ToSet(cs) \cup ToSet(node[k].waiting)
      BY <1>8, <1>10, Zenon
    <2>4. ContextsRight([node EXCEPT ![k] = v], y)
      BY <1>1, <1>3, <1>4, <1>10, <2>2, <2>3, ListsJoin, Zenon
    <2>5. QED
      BY <1>12, <2>1, <2>4, Zenon
  <1>16. timer' \in BOOLEAN /\ ResendArmed'
    BY <1>1 DEF DataRight, ResendArmed, ResendEmpty, ResolveJoin
  <1>17. DataRight'
    BY <1>13, <1>15, <1>16, Zenon DEF DataRight
  <1>18. CallRight(call)' /\ errors' \in 0 .. MaxErrors
    BY NoCall DEF QInv, ResolveJoin
  <1>19. QED
    BY <1>17, <1>18, Zenon DEF QInv

LEMMA NewNodeFacts ==
    ASSUME NEW cs \in Seq(Lookups), NEW k
    PROVE  /\ NewNode(cs) \in Node /\ NewNode(cs).waiting = cs
           /\ IsAsked(NewNode(cs)) /\ NodeRight(NewNode(cs), k)
  <1>1. PICK v : v = NewNode(cs)
    OBVIOUS
  <1>2. v \in Node /\ v.waiting = cs /\ v.valid = "no"
    BY <1>1 DEF NewNode, Node
  <1>3. QED
    BY <1>1, <1>2, NoneAssumption DEF IsAsked, NodeRight

LEMMA ResolveQueryKeeps ==
    ASSUME QInv, NEW k \in Keys, ResolveQuery(k)
    PROVE  QInv'
  <1>1. DataRight /\ CallRight(call) /\ Calls(k) /\ ~Cached(k) /\ ~Shared(k)
    BY Zenon DEF QInv, ResolveQuery
  <1>2. PICK cs : cs = call.list
    OBVIOUS
  <1>3. cs \in Seq(Lookups) /\ NoTwice(cs) /\ Free(ToSet(cs))
    BY <1>1, <1>2, CallFacts, Zenon DEF Free
  <1>4. node[k] # None => ToSet(node[k].waiting) = {}
    BY <1>1, CachedFacts DEF ToSet
  <1>5. PICK v : v = NewNode(cs)
    OBVIOUS
  <1>6. v \in Node /\ v.waiting = cs /\ IsAsked(v) /\ NodeRight(v, k)
    BY <1>3, <1>5, NewNodeFacts
  <1>7. /\ node' = [node EXCEPT ![k] = v]
        /\ timer' = (timer \/ ResendEmpty(Removed(resend, k)))
        /\ resend' = AtHead(resend, k) /\ expire' = Removed(expire, k) /\ old' = old \ {k}
        /\ Waits(cs, k) /\ call' = None /\ errors' = errors
    BY <1>2, <1>5, Zenon DEF ResolveQuery
  <1>8. TreesRight(node', resend', expire', old')
    <2>1. TreesRight(node, resend, expire, old)
      BY <1>1 DEF DataRight
    <2>2. TreesRight([node EXCEPT ![k] = v], AtHead(resend, k), Removed(expire, k), old \ {k})
      BY <1>6, <2>1, ReplacedTrees
    <2>3. QED
      BY <1>7, <2>2, Zenon
  <1>9. ctx \in [Lookups -> Context]
    BY <1>1 DEF DataRight, ContextsRight
  <1>10. ContextsRight(node', ctx')
    <2>1. PICK y : y = ctx'
      OBVIOUS
    <2>2. Joined(y, ToSet(cs), k)
      BY <1>7, <1>9, <2>1, WaitsFacts, Zenon
    <2>3. NoTwice(v.waiting) /\ ToSet(v.waiting) = ToSet(cs)
      BY <1>3, <1>6, Zenon
    <2>4. node[k] # None => ToSet(v.waiting) = ToSet(cs) \cup ToSet(node[k].waiting)
      BY <1>4, <2>3
    <2>5. ContextsRight([node EXCEPT ![k] = v], y)
      BY <1>1, <1>3, <1>6, <2>2, <2>3, <2>4, ListsJoin, Zenon
    <2>6. QED
      BY <1>7, <2>1, <2>5, Zenon
  <1>11. timer' = TRUE
    <2>1. resend \in Queues /\ timer \in BOOLEAN /\ ResendArmed
      BY <1>1 DEF DataRight, TreesRight
    <2>2. QED
      BY <1>7, <2>1, RemovedEmpty DEF ResendArmed
  <1>12. DataRight'
    BY <1>8, <1>10, <1>11, Zenon DEF DataRight, ResendArmed
  <1>13. CallRight(call)' /\ errors' \in 0 .. MaxErrors
    BY <1>7, NoCall DEF QInv
  <1>14. QED
    BY <1>12, <1>13, Zenon DEF QInv

LEMMA ResolveMalformedKeeps ==
    ASSUME QInv, NoLoop, NEW k \in Keys, ResolveMalformed(k)
    PROVE  IInv'
  <1>1. DataRight /\ CallRight(call) /\ Calls(k) /\ ~Cached(k) /\ ~Shared(k)
    BY Zenon DEF QInv, ResolveMalformed
  <1>2. PICK cs : cs = call.list
    OBVIOUS
  <1>3. /\ cs \in Seq(Lookups) /\ NoTwice(cs) /\ Living(ToSet(cs))
        /\ \A c \in ToSet(cs) : ctx[c].node \in {None, k}
    BY <1>1, <1>2, CallFacts DEF Living
  <1>4. node[k] # None => ToSet(node[k].waiting) \subseteq ToSet(cs)
    BY <1>1, CachedFacts DEF ToSet
  <1>5. TreesRight([node EXCEPT ![k] = None], Removed(resend, k), Removed(expire, k), old \ {k})
    BY <1>1, ReplacedTrees DEF DataRight
  <1>6. None \in Node \cup {None}
    OBVIOUS
  <1>7. /\ HandOut(cs, [node EXCEPT ![k] = None],
                   Removed(resend, k), Removed(expire, k), old \ {k})
        /\ call' = None /\ errors' \in 0 .. MaxErrors
    BY <1>2 DEF ResolveMalformed, QInv
  <1>8. QED
    BY <1>1, <1>3, <1>4, <1>5, <1>6, <1>7, HandOutAll

(* The lists of nodes that do not change. *)
LEMMA HandedSameOf ==
    ASSUME TreesRight(node, resend, expire, old), NEW x, ContextsRight(node, x),
           NEW S, \A c \in S : c \in Lookups /\ x[c].node = None
    PROVE  Handed(node, node, S)
  <1>1. ASSUME NEW k \in Keys, node[k] # None
        PROVE  /\ NoTwice(node[k].waiting)
               /\ ToSet(node[k].waiting) = ToSet(node[k].waiting) \ S
    <2>1. k # None
      BY KindFacts
    <2>2. /\ NoTwice(node[k].waiting)
          /\ \A c : c \in ToSet(node[k].waiting) <=> c \in Lookups /\ x[c].node = k
      BY <1>1, NodeFactsOf
    <2>3. QED
      BY <2>1, <2>2
  <1>2. QED
    BY <1>1, Zenon DEF Handed

LEMMA HandedSame ==
    ASSUME DataRight, NEW S, \A c \in S : c \in Lookups /\ ctx[c].node = None
    PROVE  Handed(node, node, S)
  <1>1. TreesRight(node, resend, expire, old) /\ ContextsRight(node, ctx)
    BY DEF DataRight
  <1>2. QED
    BY <1>1, HandedSameOf

(* A node that nobody waits for is deleted. *)
LEMMA HandedGone ==
    ASSUME DataRight, NEW k \in Keys, node[k] = None \/ node[k].waiting = <<>>,
           NEW S, \A c \in S : c \in Lookups /\ ctx[c].node = None
    PROVE  Handed(node, [node EXCEPT ![k] = None], S)
  <1>1. node[k] # None => ToSet(node[k].waiting) \subseteq S
    BY DEF ToSet
  <1>2. None \in Node \cup {None} /\ \A c \in S : c \in Lookups /\ ctx[c].node \in {None, k}
    OBVIOUS
  <1>3. QED
    BY <1>1, <1>2, ReplacedLists

LEMMA ResolveFailsKeeps ==
    ASSUME QInv, NEW k \in Keys, ResolveFails(k)
    PROVE  QInv'
  <1>1. /\ DataRight /\ CallRight(call) /\ Calls(k)
        /\ errors < MaxErrors /\ errors' = errors + 1 /\ call' = None /\ timer' = timer
    BY Zenon DEF QInv, ResolveFails
  <1>2. PICK h : h = Head(call.list)
    OBVIOUS
  <1>3. h \in Lookups /\ ctx[h].node = None
    BY <1>1, <1>2, CallFacts
  <1>4. PICK S : S = IF call.top THEN {h} ELSE {}
    OBVIOUS
  <1>5. \A c \in S : c \in Lookups /\ ctx[c].node = None
    BY <1>3, <1>4
  <1>6. TreesRight(node, resend, expire, old) /\ ContextsRight(node, ctx)
    BY <1>1 DEF DataRight
  <1>7. ctx \in [Lookups -> Context]
    BY <1>6 DEF ContextsRight
  <1>8. ctx' = [c \in Lookups |-> IF c \in S THEN Idle ELSE ctx[c]]
    <2>1. ctx' = IF call.top THEN [ctx EXCEPT ![h] = Idle] ELSE ctx
      BY <1>2, Zenon DEF ResolveFails
    <2>2. CASE call.top
      BY <1>3, <1>4, <1>7, <2>1, <2>2
    <2>3. CASE ~call.top
      BY <1>4, <1>7, <2>1, <2>3
    <2>4. QED
      BY <2>2, <2>3
  <1>9. TreesRight(node', resend', expire', old') /\ Handed(node, node', S) /\ resend' \in {resend, Removed(resend, k)}
    <2>1. CASE Cached(k) /\ expire' = AtHead(expire, k) /\ old' = old \ {k} /\ UNCHANGED <<node, resend>>
      <3>1. node[k] # None /\ IsKnown(node[k]) /\ node[k] \in Node /\ NodeRight(node[k], k)
        BY <1>1, <2>1, CachedFacts, NodeFacts
      <3>2. [node EXCEPT ![k] = node[k]] = node
        BY <1>6 DEF TreesRight, Nodes
      <3>3. TreesRight(node, Removed(resend, k), AtHead(expire, k), old \ {k})
        BY <1>6, <3>1, <3>2, ReplacedTrees
      <3>4. Removed(resend, k) = resend
        BY <1>6, <3>1, NotQueued DEF TreesRight, IsAsked, IsKnown
      <3>5. Handed(node, node, S)
        BY <1>1, <1>5, HandedSame
      <3>6. QED
        BY <2>1, <3>3, <3>4, <3>5
    <2>2. CASE UNCHANGED <<node, resend, expire, old>>
      <3>1. Handed(node, node, S)
        BY <1>1, <1>5, HandedSame
      <3>2. QED
        BY <1>6, <2>2, <3>1
    <2>3. CASE /\ ~Cached(k) /\ ~Shared(k)
               /\ node' = [node EXCEPT ![k] = None]
               /\ resend' = Removed(resend, k)
               /\ expire' = Removed(expire, k)
               /\ old' = old \ {k}
      <3>1. TreesRight([node EXCEPT ![k] = None], Removed(resend, k), Removed(expire, k), old \ {k})
        BY <1>6, ReplacedTrees
      <3>2. Handed(node, [node EXCEPT ![k] = None], S)
        BY <1>1, <1>5, <2>3, CachedFacts, HandedGone
      <3>3. QED
        BY <2>3, <3>1, <3>2
    <2>4. QED
      BY <2>1, <2>2, <2>3 DEF ResolveFails
  <1>10. ContextsRight(node', ctx')
    BY <1>6, <1>8, <1>9, ListsEnd
  <1>11. timer' \in BOOLEAN /\ ResendArmed'
    <2>1. resend \in Queues /\ timer \in BOOLEAN /\ ResendArmed
      BY <1>1 DEF DataRight, TreesRight
    <2>2. PICK w : w = resend'
      OBVIOUS
    <2>3. ~ResendEmpty(w) => timer
      BY <1>9, <2>1, <2>2, RemovedEmpty DEF ResendArmed
    <2>4. QED
      BY <1>1, <2>1, <2>2, <2>3 DEF ResendArmed
  <1>12. DataRight'
    BY <1>9, <1>10, <1>11, Zenon DEF DataRight
  <1>13. errors' \in 0 .. MaxErrors
    BY <1>1, BoundsAssumption DEF QInv
  <1>14. QED
    BY <1>1, <1>12, <1>13, NoCall, Zenon DEF QInv

LEMMA StartKeeps ==
    ASSUME QInv, NEW c \in Lookups, NEW k \in Keys, Start(c, k)
    PROVE  QInv'
  <1>1. /\ DataRight /\ ~ctx[c].live
        /\ ctx' = [ctx EXCEPT ![c] = [Idle EXCEPT !.live = TRUE, !.kind = Kind(k)]]
        /\ call' = [list |-> <<c>>, key |-> k, top |-> TRUE]
        /\ UNCHANGED <<node, resend, expire, old, timer, errors>>
    BY Zenon DEF Start, QInv
  <1>2. /\ TreesRight(node, resend, expire, old) /\ ContextsRight(node, ctx)
        /\ ctx \in [Lookups -> Context] /\ ListsRight(node, ctx)
    BY <1>1 DEF DataRight, ContextsRight
  <1>3. ctx[c].node = None
    BY <1>1, <1>2 DEF ListsRight
  <1>4. PICK s : s = [Idle EXCEPT !.live = TRUE, !.kind = Kind(k)]
    OBVIOUS
  <1>5. s \in Context /\ s.node = None /\ s.live
    <2>1. PICK i \in Context : i = Idle /\ i.node = None
      BY IdleFacts
    <2>2. Kind(k) \in Kinds
      BY KindFacts
    <2>3. QED
      BY <1>4, <2>1, <2>2 DEF Context
  <1>6. /\ ctx' \in [Lookups -> Context] /\ ctx'[c] = s
        /\ \A b \in Lookups : b # c => ctx'[b] = ctx[b]
    BY <1>1, <1>2, <1>4, <1>5
  <1>7. Left(ctx, ctx', {c})
    BY <1>5, <1>6 DEF Left
  <1>8. Handed(node, node, {c})
    BY <1>1, <1>3, HandedSame
  <1>9. ContextsRight(node', ctx')
    BY <1>1, <1>2, <1>6, <1>7, <1>8, ListsLeft
  <1>10. TreesRight(node', resend', expire', old')
    BY <1>1, <1>2
  <1>11. timer' \in BOOLEAN /\ ResendArmed'
    BY <1>1 DEF DataRight, ResendArmed, ResendEmpty
  <1>12. DataRight'
    BY <1>9, <1>10, <1>11, Zenon DEF DataRight
  <1>13. call' \in Calling /\ call'.list = <<c>>
    BY <1>1 DEF Calling
  <1>14. PICK q : q = <<c>>
    OBVIOUS
  <1>15. q # <<>> /\ NoTwice(q) /\ ToSet(q) = {c}
    BY <1>14 DEF NoTwice, ToSet
  <1>16. CallRight(call)'
    BY <1>5, <1>6, <1>13, <1>14, <1>15 DEF CallRight
  <1>17. QED
    BY <1>1, <1>12, <1>16 DEF QInv

-----------------------------------------------------------------------------
(***************************************************************************)
(* Answers.                                                                *)
(***************************************************************************)

(* An event that leaves the queues, the contexts and the call alone. *)
LEMMA NodeChanged ==
    ASSUME DataRight, NEW k \in Keys, node[k] # None, NEW v \in Node, NodeRight(v, k),
           v.waiting = node[k].waiting,
           (IsAsked(v) /\ IsAsked(node[k])) \/ (IsKnown(v) /\ IsKnown(node[k])),
           node' = [node EXCEPT ![k] = v],
           UNCHANGED <<resend, expire, old, ctx, timer>>
    PROVE  DataRight'
  <1>1. /\ TreesRight(node, resend, expire, old) /\ ContextsRight(node, ctx)
        /\ timer \in BOOLEAN /\ ResendArmed
    BY DEF DataRight
  <1>2. TreesRight(node', resend', expire', old')
    BY <1>1, ReplacedInPlace
  <1>3. NoTwice(v.waiting) /\ ToSet(v.waiting) = ToSet(node[k].waiting) \ {}
    BY NodeFacts
  <1>4. v # None
    BY NoneAssumption
  <1>5. Handed(node, node', {})
    BY <1>3, <1>4, ReplacedLists
  <1>6. ctx' \in [Lookups -> Context] /\ Left(ctx, ctx', {})
    BY <1>1 DEF Left, ContextsRight
  <1>7. ContextsRight(node', ctx')
    BY <1>1, <1>5, <1>6, ListsLeft
  <1>8. timer' \in BOOLEAN /\ ResendArmed'
    BY <1>1 DEF ResendArmed, ResendEmpty
  <1>9. QED
    BY <1>2, <1>7, <1>8, Zenon DEF DataRight

LEMMA ExpectedFacts ==
    ASSUME QInv, NEW k \in Names, NEW f, Expected(k, f)
    PROVE  /\ DataRight /\ call = None /\ k \in Keys /\ node[k] # None
           /\ node[k] \in Node /\ NodeRight(node[k], k) /\ node[k].query
           /\ IsAsked(node[k]) /\ ~IsKnown(node[k]) /\ node[k].valid = "no"
           /\ Removed(expire, k) = expire /\ old \ {k} = old
  <1>1. DataRight /\ call = None /\ k \in Keys /\ node[k] # None /\ node[k].query
    BY DEF QInv, Expected, Quiet, Keys
  <1>2. node[k] \in Node /\ NodeRight(node[k], k)
    BY <1>1, NodeFacts
  <1>3. node[k].valid = "no" /\ IsAsked(node[k]) /\ ~IsKnown(node[k])
    BY <1>1, <1>2 DEF NodeRight, IsAsked, IsKnown
  <1>4. Removed(expire, k) = expire /\ old \ {k} = old
    BY <1>1, <1>3, NotQueued DEF DataRight, TreesRight
  <1>5. QED
    BY <1>1, <1>2, <1>3, <1>4

LEMMA CallSame ==
    ASSUME call = None, call' = call
    PROVE  CallRight(call)'
  BY NoCall

LEMMA NameTruncatedKeeps ==
    ASSUME QInv, NEW k \in Names, NEW f \in Families, NameTruncated(k, f)
    PROVE  QInv'
  <1>1. Expected(k, f) /\ UNCHANGED <<expire, old, ctx, timer, call, errors>>
    BY Zenon DEF NameTruncated
  <1>2. /\ DataRight /\ call = None /\ k \in Keys /\ node[k] # None
        /\ node[k] \in Node /\ NodeRight(node[k], k) /\ IsAsked(node[k])
        /\ node[k].valid = "no" /\ Removed(expire, k) = expire /\ old \ {k} = old
    BY <1>1, ExpectedFacts
  <1>3. /\ TreesRight(node, resend, expire, old) /\ ContextsRight(node, ctx)
        /\ timer \in BOOLEAN /\ ResendArmed /\ resend \in Queues
    BY <1>2 DEF DataRight, TreesRight
  <1>4. TreesRight(node', resend', expire', old') /\ Handed(node, node', {})
    <2>1. CASE /\ node[k].waiting = <<>>
               /\ node' = [node EXCEPT ![k] = None]
               /\ resend' = Removed(resend, k)
      <3>1. TreesRight([node EXCEPT ![k] = None], Removed(resend, k), Removed(expire, k), old \ {k})
        BY <1>2, <1>3, ReplacedTrees
      <3>2. Handed(node, [node EXCEPT ![k] = None], {})
        BY <1>2, <2>1, HandedGone
      <3>3. QED
        BY <1>1, <1>2, <2>1, <3>1, <3>2
    <2>2. CASE /\ node' = [node EXCEPT ![k].tcp = @ \cup {f}]
               /\ resend' = AtHead(resend, k)
      <3>1. PICK v : v = [node[k] EXCEPT !.tcp = @ \cup {f}]
        OBVIOUS
      <3>2. v \in Node /\ v.valid = "no" /\ v.waiting = node[k].waiting
        BY <1>2, <3>1, FamiliesAssumption DEF Node
      <3>3. v # None /\ IsAsked(v) /\ NodeRight(v, k)
        BY <3>2, NoneAssumption DEF IsAsked, NodeRight
      <3>4. node' = [node EXCEPT ![k] = v]
        BY <2>2, <3>1
      <3>5. TreesRight([node EXCEPT ![k] = v], AtHead(resend, k), Removed(expire, k), old \ {k})
        BY <1>2, <1>3, <3>2, <3>3, ReplacedTrees
      <3>6. NoTwice(v.waiting) /\ ToSet(v.waiting) = ToSet(node[k].waiting) \ {}
        BY <1>2, <3>2, NodeFacts
      <3>7. Handed(node, [node EXCEPT ![k] = v], {})
        BY <1>2, <3>2, <3>3, <3>6, ReplacedLists
      <3>8. QED
        BY <1>1, <1>2, <2>2, <3>4, <3>5, <3>7
    <2>3. QED
      BY <2>1, <2>2, Zenon DEF NameTruncated
  <1>5. ctx' \in [Lookups -> Context] /\ Left(ctx, ctx', {})
    BY <1>1, <1>3 DEF Left, ContextsRight
  <1>6. ContextsRight(node', ctx')
    BY <1>3, <1>4, <1>5, ListsLeft
  <1>7. timer
    <2>1. k \in ToSet(resend[Kind(k)]) /\ Kind(k) \in Kinds
      BY <1>2, <1>3, KindFacts DEF TreesRight, QueueRight, Asked
    <2>2. ~ResendEmpty(resend)
      BY <2>1 DEF ResendEmpty, ToSet
    <2>3. QED
      BY <1>3, <2>2 DEF ResendArmed
  <1>8. timer' \in BOOLEAN /\ ResendArmed'
    BY <1>1, <1>3, <1>7 DEF ResendArmed
  <1>9. DataRight'
    BY <1>4, <1>6, <1>8, Zenon DEF DataRight
  <1>10. QED
    BY <1>1, <1>2, <1>9, CallSame DEF QInv

LEMMA LearntFacts ==
    ASSUME NEW k, node[k] \in Node, NEW f \in Families, NEW reply
    PROVE  /\ Learnt(k, f, reply) \in [{"A", "AAAA"} -> {"pending", "none", "some"}]
           /\ Failed(k, reply) \in BOOLEAN
           /\ ~Failed(k, reply) => ~node[k].code
  <1>1. Failed(k, reply) \in BOOLEAN /\ (~Failed(k, reply) => ~node[k].code)
    BY DEF Failed, Node
  <1>2. PICK u : u = IF reply = "addresses" /\ ~Failed(k, reply) THEN "some" ELSE "none"
    OBVIOUS
  <1>3. u \in {"pending", "none", "some"}
    BY <1>2
  <1>4. node[k].fam \in [{"A", "AAAA"} -> {"pending", "none", "some"}]
    BY DEF Node
  <1>5. [node[k].fam EXCEPT ![f] = u] \in [{"A", "AAAA"} -> {"pending", "none", "some"}]
    BY <1>3, <1>4
  <1>6. QED
    BY <1>1, <1>2, <1>5 DEF Learnt

LEMMA StoredKeeps ==
    ASSUME QInv, NEW k \in Names, NEW f \in Families, Expected(k, f), NEW reply,
           Stored(k, f, reply), errors' \in 0 .. MaxErrors
    PROVE  QInv'
  <1>1. /\ DataRight /\ call = None /\ k \in Keys /\ node[k] # None
        /\ node[k] \in Node /\ IsAsked(node[k]) /\ node[k].valid = "no"
    BY ExpectedFacts
  <1>2. PICK fam \in [{"A", "AAAA"} -> {"pending", "none", "some"}], code \in BOOLEAN :
            fam = Learnt(k, f, reply) /\ code = Failed(k, reply)
    BY <1>1, LearntFacts
  <1>3. PICK v : v = [node[k] EXCEPT !.fam = fam, !.code = code, !.tcp = @ \ {f}]
    OBVIOUS
  <1>4. v \in Node /\ v.valid = "no" /\ v.waiting = node[k].waiting
    BY <1>1, <1>2, <1>3 DEF Node
  <1>5. v # None /\ IsAsked(v) /\ NodeRight(v, k)
    BY <1>4, NoneAssumption DEF IsAsked, NodeRight
  <1>6. node' = [node EXCEPT ![k] = v]
    BY <1>1, <1>2, <1>3 DEF Stored, DataRight, TreesRight, Nodes
  <1>7. UNCHANGED <<resend, expire, old, ctx, timer, call>>
    BY DEF Stored
  <1>8. DataRight'
    BY <1>1, <1>4, <1>5, <1>6, <1>7, NodeChanged
  <1>9. QED
    BY <1>1, <1>7, <1>8, CallSame DEF QInv

(* The contexts that wait for node k are to get its answer. *)
LEMMA AnswerHandsOut ==
    ASSUME DataRight, NoLoop, NEW k \in Keys, node[k] # None, NEW v \in Node \cup {None},
           v # None => v.waiting = <<>>, NEW e, NEW o,
           TreesRight([node EXCEPT ![k] = v], Removed(resend, k), e, o),
           HandOut(node[k].waiting, [node EXCEPT ![k] = v], Removed(resend, k), e, o),
           call' = None, errors' \in 0 .. MaxErrors
    PROVE  IInv'
  <1>1. PICK cs \in Seq(Lookups) : cs = node[k].waiting
    BY NodeFacts
  <1>2. NoTwice(cs) /\ Living(ToSet(cs)) /\ \A c \in ToSet(cs) : ctx[c].node \in {None, k}
    BY <1>1, NodeFacts, WaitersLive
  <1>3. ToSet(node[k].waiting) \subseteq ToSet(cs)
    BY <1>1
  <1>4. HandOut(cs, [node EXCEPT ![k] = v], Removed(resend, k), e, o)
    BY <1>1
  <1>5. QED
    BY <1>2, <1>3, <1>4, HandOutAll

LEMMA NameFailsKeeps ==
    ASSUME QInv, NoLoop, NEW k \in Names, NEW f \in Families, NEW reply, NameFails(k, f, reply)
    PROVE  IInv'
  <1>1. /\ Expected(k, f)
        /\ HandOut(node[k].waiting, [node EXCEPT ![k] = None],
                   Removed(resend, k), expire, old)
        /\ UNCHANGED <<call, errors>>
    BY Zenon DEF NameFails
  <1>2. /\ DataRight /\ call = None /\ k \in Keys /\ node[k] # None
        /\ Removed(expire, k) = expire /\ old \ {k} = old
    BY <1>1, ExpectedFacts
  <1>3. TreesRight([node EXCEPT ![k] = None], Removed(resend, k), Removed(expire, k), old \ {k})
    BY <1>2, ReplacedTrees DEF DataRight
  <1>4. TreesRight([node EXCEPT ![k] = None], Removed(resend, k), expire, old)
    BY <1>2, <1>3
  <1>5. None \in Node \cup {None} /\ call' = None /\ errors' \in 0 .. MaxErrors
    BY <1>1, <1>2 DEF QInv
  <1>6. QED
    BY <1>1, <1>2, <1>4, <1>5, AnswerHandsOut

LEMMA KeptFacts ==
    ASSUME NEW k \in Names, node[k] \in Node, ~node[k].code,
           NEW fam \in [{"A", "AAAA"} -> {"pending", "none", "some"}],
           NEW cname \in Names \cup {None},
           ~Open(fam), Found(fam) # (cname # None)
    PROVE  /\ Kept(k, fam, cname) \in Node /\ NodeRight(Kept(k, fam, cname), k)
           /\ IsKnown(Kept(k, fam, cname)) /\ Kept(k, fam, cname).waiting = <<>>
  <1>1. PICK v : v = Kept(k, fam, cname)
    OBVIOUS
  <1>2. <<>> \in Seq(Lookups)
    OBVIOUS
  <1>3. /\ v \in Node /\ v.fam = fam /\ v.cname = cname /\ v.query = FALSE
        /\ v.valid = "fresh" /\ v.waiting = <<>> /\ v.code = node[k].code
    BY <1>1, <1>2 DEF Kept, Node
  <1>4. Answers(v)
    BY <1>3, Zenon DEF Answers
  <1>5. NodeRight(v, k)
    BY <1>3, <1>4 DEF NodeRight
  <1>6. IsKnown(v)
    BY <1>3, NoneAssumption DEF IsKnown
  <1>7. QED
    BY <1>1, <1>3, <1>5, <1>6

(* The answer goes into the cache. *)
LEMMA KeptTrees ==
    ASSUME QInv, NEW k \in Names, NEW f \in Families, Expected(k, f), NEW v \in Node,
           NodeRight(v, k), IsKnown(v)
    PROVE  TreesRight([node EXCEPT ![k] = v], Removed(resend, k), AtHead(expire, k), old)
  <1>1. DataRight /\ k \in Keys /\ old \ {k} = old
    BY ExpectedFacts
  <1>2. TreesRight([node EXCEPT ![k] = v], Removed(resend, k), AtHead(expire, k), old \ {k})
    BY <1>1, ReplacedTrees DEF DataRight
  <1>3. QED
    BY <1>1, <1>2

LEMMA KeptHandsOut ==
    ASSUME QInv, NoLoop, NEW k \in Names, NEW f \in Families, Expected(k, f), NEW v \in Node,
           NodeRight(v, k), IsKnown(v), v.waiting = <<>>,
           HandOut(node[k].waiting, [node EXCEPT ![k] = v],
                   Removed(resend, k), AtHead(expire, k), old),
           UNCHANGED <<call, errors>>
    PROVE  IInv'
  <1>1. DataRight /\ call = None /\ k \in Keys /\ node[k] # None
    BY ExpectedFacts
  <1>2. TreesRight([node EXCEPT ![k] = v], Removed(resend, k), AtHead(expire, k), old)
    BY KeptTrees
  <1>3. v \in Node \cup {None} /\ call' = None /\ errors' \in 0 .. MaxErrors
    BY <1>1 DEF QInv
  <1>4. QED
    BY <1>1, <1>2, <1>3, AnswerHandsOut

LEMMA NameFoundKeeps ==
    ASSUME QInv, NoLoop, NEW k \in Names, NEW f \in Families, NEW reply, NameFound(k, f, reply)
    PROVE  IInv'
  <1>1. PICK fam : fam = Learnt(k, f, reply)
    OBVIOUS
  <1>2. /\ Expected(k, f) /\ ~Open(fam) /\ ~Failed(k, reply) /\ Found(fam)
        /\ \/ /\ HandOut(node[k].waiting, [node EXCEPT ![k] = Kept(k, fam, None)],
                      Removed(resend, k), AtHead(expire, k), old)
              /\ UNCHANGED <<call, errors>>
           \/ errors < MaxErrors /\ errors' = errors + 1 /\ Stored(k, f, reply)
    BY <1>1, Zenon DEF NameFound
  <1>3. node[k] \in Node
    BY <1>2, ExpectedFacts
  <1>4. /\ fam \in [{"A", "AAAA"} -> {"pending", "none", "some"}]
        /\ ~node[k].code
    BY <1>1, <1>2, <1>3, LearntFacts
  <1>5. CASE /\ HandOut(node[k].waiting, [node EXCEPT ![k] = Kept(k, fam, None)],
                     Removed(resend, k), AtHead(expire, k), old)
             /\ UNCHANGED <<call, errors>>
    <2>1. PICK v : v = Kept(k, fam, None)
      OBVIOUS
    <2>2. Found(fam) # (None # None) /\ None \in Names \cup {None}
      BY <1>2 DEF Found
    <2>3. v \in Node /\ NodeRight(v, k) /\ IsKnown(v) /\ v.waiting = <<>>
      BY <1>2, <1>3, <1>4, <2>1, <2>2, KeptFacts
    <2>4. QED
      BY <1>2, <1>5, <2>1, <2>3, KeptHandsOut
  <1>6. CASE errors < MaxErrors /\ errors' = errors + 1 /\ Stored(k, f, reply)
    <2>1. errors' \in 0 .. MaxErrors
      BY <1>6, BoundsAssumption DEF QInv
    <2>2. QInv'
      BY <1>2, <1>6, <2>1, StoredKeeps
    <2>3. NoLoop'
      BY <1>6 DEF Stored, NoLoop, loop
    <2>4. QED
      BY <2>2, <2>3, NoLoopNext, Zenon
  <1>7. QED
    BY <1>2, <1>5, <1>6

LEMMA NamePartKeeps ==
    ASSUME QInv, NEW k \in Names, NEW f \in Families, NEW reply, NamePart(k, f, reply)
    PROVE  QInv'
  BY StoredKeeps DEF NamePart, QInv

LEMMA NameUselessKeeps ==
    ASSUME QInv, NEW k \in Names, NEW f \in Families, NameUseless(k, f)
    PROVE  QInv'
  BY StoredKeeps DEF NameUseless, QInv

LEMMA DetachedFacts ==
    ASSUME ctx \in [Lookups -> Context], NEW cs, MayFollow(cs), Head(cs) \in Lookups
    PROVE  /\ Detached(cs) \in [Lookups -> Context]
           /\ Left(ctx, Detached(cs), ToSet(cs))
           /\ \A c \in Lookups : Detached(cs)[c].live = ctx[c].live
  <1> DEFINE D(c) == IF c \notin ToSet(cs) THEN ctx[c]
                     ELSE [ctx[c] EXCEPT !.node = None,
                              !.recursion = IF c = Head(cs) THEN @ + 1 ELSE @]
  <1>1. Detached(cs) = [c \in Lookups |-> D(c)]
    BY Zenon DEF Detached
  <1>2. ASSUME NEW c \in Lookups
        PROVE  /\ D(c) \in Context /\ D(c).live = ctx[c].live
               /\ D(c).node = IF c \in ToSet(cs) THEN None ELSE ctx[c].node
    <2>1. PICK r \in Context : r = ctx[c]
      OBVIOUS
    <2>2. PICK u : u = IF c = Head(cs) THEN r.recursion + 1 ELSE r.recursion
      OBVIOUS
    <2>3. u \in 0 .. MaxRecursion
      BY <2>1, <2>2, BoundsAssumption DEF Context, MayFollow
    <2>4. PICK s : s = [r EXCEPT !.node = None, !.recursion = u]
      OBVIOUS
    <2>5. s \in Context /\ s.live = r.live /\ s.node = None
      BY <2>1, <2>3, <2>4 DEF Context
    <2>6. D(c) = IF c \notin ToSet(cs) THEN r ELSE s
      BY <2>1, <2>2, <2>4
    <2> HIDE DEF D
    <2>7. QED
      BY <2>1, <2>5, <2>6
  <1> HIDE DEF D
  <1>3. QED
    BY <1>1, <1>2 DEF Left

LEMMA NameAliasKeeps ==
    ASSUME QInv, NoLoop, NEW k \in Names, NEW f \in Families, NameAlias(k, f)
    PROVE  IInv'
  <1>1. PICK fam : fam = Learnt(k, f, "alias")
    OBVIOUS
  <1>2. PICK cs : cs = node[k].waiting
    OBVIOUS
  <1>3. PICK v : v = Kept(k, fam, Target[k])
    OBVIOUS
  <1>4. /\ Expected(k, f) /\ ~Open(fam) /\ ~Failed(k, "alias") /\ ~Found(fam)
        /\ \/ /\ MayFollow(cs)
              /\ node' = [node EXCEPT ![k] = v]
              /\ resend' = Removed(resend, k)
              /\ expire' = AtHead(expire, k)
              /\ ctx' = Detached(cs)
              /\ call' = [list |-> cs, key |-> Target[k], top |-> FALSE]
              /\ UNCHANGED <<old, timer, loop>>
           \/ /\ HandOut(cs, [node EXCEPT ![k] = v],
                      Removed(resend, k), AtHead(expire, k), old)
              /\ UNCHANGED call
        /\ UNCHANGED errors
    BY <1>1, <1>2, <1>3, Zenon DEF NameAlias
  <1>5. DataRight /\ k \in Keys /\ node[k] # None /\ node[k] \in Node
    BY <1>4, ExpectedFacts
  <1>6. /\ fam \in [{"A", "AAAA"} -> {"pending", "none", "some"}]
        /\ ~node[k].code
    BY <1>1, <1>4, <1>5, LearntFacts
  <1>7. Target[k] \in Names /\ Target[k] # None
    BY KeysAssumption
  <1>8. Found(fam) # (Target[k] # None)
    BY <1>4, <1>7 DEF Found
  <1>9. v \in Node /\ NodeRight(v, k) /\ IsKnown(v) /\ v.waiting = <<>>
    BY <1>3, <1>4, <1>5, <1>6, <1>7, <1>8, KeptFacts
  <1>10. CASE /\ MayFollow(cs)
              /\ node' = [node EXCEPT ![k] = v]
              /\ resend' = Removed(resend, k)
              /\ expire' = AtHead(expire, k)
              /\ ctx' = Detached(cs)
              /\ call' = [list |-> cs, key |-> Target[k], top |-> FALSE]
              /\ UNCHANGED <<old, timer, loop>>
    <2>1. /\ cs \in Seq(Lookups) /\ NoTwice(cs)
          /\ \A c : c \in ToSet(cs) <=> c \in Lookups /\ ctx[c].node = k
      BY <1>2, <1>5, NodeFacts
    <2>2. cs # <<>> /\ Head(cs) \in Lookups
      BY <1>10, <2>1 DEF MayFollow
    <2>3. /\ ContextsRight(node, ctx) /\ ctx \in [Lookups -> Context]
          /\ \A c \in Lookups : ctx[c].node # None => ctx[c].live
          /\ resend \in Queues /\ timer \in BOOLEAN /\ ResendArmed
      BY <1>5 DEF DataRight, ContextsRight, ListsRight, TreesRight
    <2>4. PICK y : y = ctx'
      OBVIOUS
    <2>5. /\ y \in [Lookups -> Context] /\ Left(ctx, y, ToSet(cs))
          /\ \A c \in Lookups : y[c].live = ctx[c].live
      BY <1>10, <2>2, <2>3, <2>4, DetachedFacts
    <2>6. TreesRight(node', resend', expire', old')
      BY <1>4, <1>9, <1>10, KeptTrees
    <2>7. /\ NoTwice(v.waiting) /\ ToSet(v.waiting) = ToSet(node[k].waiting) \ ToSet(cs)
          /\ v \in Node \cup {None}
      BY <1>2, <1>9 DEF NoTwice, ToSet
    <2>8. v # None
      BY <1>9, NoneAssumption
    <2>9. \A c \in ToSet(cs) : c \in Lookups /\ ctx[c].node \in {None, k}
      BY <2>1
    <2>10. Handed(node, [node EXCEPT ![k] = v], ToSet(cs))
      BY <1>5, <2>7, <2>8, <2>9, ReplacedLists
    <2>11. ContextsRight(node', y)
      BY <1>10, <2>3, <2>5, <2>10, ListsLeft
    <2>12. timer' \in BOOLEAN /\ ResendArmed'
      BY <1>5, <1>10, <2>3, RemovedEmpty DEF ResendArmed
    <2>13. DataRight'
      BY <2>4, <2>6, <2>11, <2>12, Zenon DEF DataRight
    <2>14. call' \in Calling /\ call'.list = cs
      BY <1>7, <1>10, <2>1 DEF Calling, Keys
    <2>15. \A c \in ToSet(cs) : y[c].live /\ y[c].node = None
      <3>1. k # None
        BY <1>5, KindFacts
      <3>2. QED
        BY <2>1, <2>3, <2>5, <3>1 DEF Left
    <2>16. CallRight(call)'
      BY <2>1, <2>2, <2>4, <2>14, <2>15 DEF CallRight
    <2>17. QInv' /\ NoLoop'
      BY <1>4, <1>10, <2>13, <2>16 DEF QInv, NoLoop, loop
    <2>18. QED
      BY <2>17, NoLoopNext, Zenon
  <1>11. CASE /\ HandOut(cs, [node EXCEPT ![k] = v],
                      Removed(resend, k), AtHead(expire, k), old)
              /\ UNCHANGED call
    <2>1. HandOut(node[k].waiting, [node EXCEPT ![k] = v],
               Removed(resend, k), AtHead(expire, k), old)
      BY <1>2, <1>11
    <2>2. QED
      BY <1>4, <1>9, <1>11, <2>1, KeptHandsOut
  <1>12. QED
    BY <1>4, <1>10, <1>11, Zenon

LEMMA AddrFoundKeeps ==
    ASSUME QInv, NoLoop, NEW k \in Addrs, AddrFound(k)
    PROVE  IInv'
  <1>1. /\ DataRight /\ call = None /\ node[k] # None /\ k \in Keys
        /\ HandOut(node[k].waiting,
                [node EXCEPT ![k].valid = "fresh", ![k].waiting = <<>>],
                Removed(resend, k), AtHead(expire, k), old \ {k})
        /\ UNCHANGED <<call, errors>>
    BY Zenon DEF QInv, AddrFound, AddrExpected, Quiet, Keys
  <1>2. node \in Nodes /\ node[k] \in Node
    BY <1>1, NodeFacts DEF DataRight, TreesRight
  <1>3. PICK v : v = [node[k] EXCEPT !.valid = "fresh", !.waiting = <<>>]
    OBVIOUS
  <1>4. <<>> \in Seq(Lookups)
    OBVIOUS
  <1>5. v \in Node /\ v.valid = "fresh" /\ v.waiting = <<>>
    BY <1>2, <1>3, <1>4 DEF Node
  <1>6. k \notin Names
    BY KeysAssumption
  <1>7. IsKnown(v) /\ NodeRight(v, k)
    BY <1>5, <1>6, NoneAssumption DEF IsKnown, NodeRight
  <1>8. [node EXCEPT ![k].valid = "fresh", ![k].waiting = <<>>] = [node EXCEPT ![k] = v]
    BY <1>1, <1>2, <1>3 DEF Nodes
  <1>9. TreesRight([node EXCEPT ![k] = v], Removed(resend, k), AtHead(expire, k), old \ {k})
    BY <1>1, <1>5, <1>7, ReplacedTrees DEF DataRight
  <1>10. v \in Node \cup {None} /\ call' = None /\ errors' \in 0 .. MaxErrors
    BY <1>1, <1>5 DEF QInv
  <1>11. QED
    BY <1>1, <1>5, <1>8, <1>9, <1>10, AnswerHandsOut

LEMMA AddrFailsKeeps ==
    ASSUME QInv, NoLoop, NEW k \in Addrs, AddrFails(k)
    PROVE  IInv'
  <1>1. /\ DataRight /\ call = None /\ node[k] # None /\ k \in Keys
        /\ HandOut(node[k].waiting, [node EXCEPT ![k] = None],
                Removed(resend, k), Removed(expire, k), old \ {k})
        /\ UNCHANGED <<call, errors>>
    BY Zenon DEF QInv, AddrFails, AddrExpected, Quiet, Keys
  <1>2. TreesRight([node EXCEPT ![k] = None], Removed(resend, k), Removed(expire, k), old \ {k})
    BY <1>1, ReplacedTrees DEF DataRight
  <1>3. None \in Node \cup {None} /\ call' = None /\ errors' \in 0 .. MaxErrors
    BY <1>1 DEF QInv
  <1>4. QED
    BY <1>1, <1>2, <1>3, AnswerHandsOut

-----------------------------------------------------------------------------
(***************************************************************************)
(* Timers and callers.                                                     *)
(***************************************************************************)
LEMMA LeavesKeeps ==
    ASSUME IInv, NEW c \in Lookups, call = None, Leaves(c),
           c \in ToSet(answers) => handler # None /\ Sibling(c)
    PROVE  IInv'
  <1>1. /\ TreesRight(node, resend, expire, old) /\ node \in Nodes
        /\ ctx \in [Lookups -> Context] /\ ContextsRight(node, Seen(ctx, answers))
    BY DEF IInv, LoopData, TreesRight
  <1>2. PICK k : k = ctx[c].node
    OBVIOUS
  <1>3. PICK m : m = IF k = None \/ c \in ToSet(answers) THEN node
                     ELSE [node EXCEPT ![k].waiting = Without(@, c)]
    OBVIOUS
  <1>4. Done(c, m) /\ UNCHANGED <<call, answers, handler, errors>>
    BY <1>2, <1>3 DEF Leaves, loop
  <1>5. PICK x : x = Seen(ctx, answers)
    OBVIOUS
  <1>6. x[c].node = IF c \in ToSet(answers) THEN None ELSE k
    BY <1>1, <1>2, <1>5, SeenFacts
  <1>7. TreesRight(m, resend, expire, old) /\ Handed(node, m, {c})
    <2>1. CASE k = None \/ c \in ToSet(answers)
      <3>1. m = node /\ x[c].node = None
        BY <1>3, <1>6, <2>1
      <3>2. Handed(node, node, {c})
        BY <1>1, <1>5, <3>1, HandedSameOf
      <3>3. QED
        BY <1>1, <3>1, <3>2
    <2>2. CASE ~(k = None \/ c \in ToSet(answers))
      <3>1. x[c].node = k /\ k # None
        BY <1>6, <2>2
      <3>2. k \in Keys /\ node[k] # None
        <4>1. ListsRight(node, x)
          BY <1>1, <1>5 DEF ContextsRight
        <4>2. QED
          BY <1>1, <1>2, <3>1, <4>1 DEF ListsRight, Context
      <3>3. /\ node[k] \in Node /\ NodeRight(node[k], k)
            /\ node[k].waiting \in Seq(Lookups) /\ NoTwice(node[k].waiting)
            /\ c \in ToSet(node[k].waiting)
        BY <1>1, <1>5, <3>1, <3>2, NodeFactsOf
      <3>4. PICK q : q = Without(node[k].waiting, c)
        OBVIOUS
      <3>5. q \in Seq(Lookups) /\ NoTwice(q) /\ ToSet(q) = ToSet(node[k].waiting) \ {c}
        BY <3>3, <3>4, WithoutFacts
      <3>6. node[k].valid = "no"
        <4>1. node[k].waiting # <<>>
          BY <3>3 DEF ToSet
        <4>2. QED
          BY <3>3, <4>1 DEF NodeRight
      <3>7. PICK v : v = [node[k] EXCEPT !.waiting = q]
        OBVIOUS
      <3>8. v \in Node /\ v.waiting = q /\ v.valid = "no"
        BY <3>3, <3>5, <3>6, <3>7 DEF Node
      <3>9. v # None /\ NodeRight(v, k) /\ IsAsked(v) /\ IsAsked(node[k])
        BY <3>2, <3>6, <3>8, NoneAssumption DEF NodeRight, IsAsked
      <3>10. m = [node EXCEPT ![k] = v]
        BY <1>3, <2>2, <3>4, <3>7
      <3>11. TreesRight(m, resend, expire, old)
        BY <1>1, <3>2, <3>8, <3>9, <3>10, ReplacedInPlace
      <3>12. v \in Node \cup {None} /\ NoTwice(v.waiting)
             /\ ToSet(v.waiting) = ToSet(node[k].waiting) \ {c}
        BY <3>5, <3>8
      <3>13. \A b \in {c} : b \in Lookups /\ x[b].node \in {None, k}
        BY <3>1
      <3>14. Handed(node, m, {c})
        BY <1>1, <1>5, <3>2, <3>9, <3>10, <3>12, <3>13, ReplacedListsOf
      <3>15. QED
        BY <3>11, <3>14
    <2>3. QED
      BY <2>1, <2>2
  <1>8. LoopData /\ LoopRight /\ errors \in 0 .. MaxErrors
    BY DEF IInv
  <1>9. /\ LoopData' /\ ctx'[c] = Idle
        /\ \A b \in Lookups : b # c => ctx'[b] = ctx[b]
    BY <1>4, <1>7, <1>8, DoneKeeps
  <1>10. LoopRight'
    <2>1. /\ answers \in Seq(Lookups) /\ NoTwice(answers) /\ handler \in Lookups \cup {None}
          /\ \A b \in ToSet(answers) :
                ctx[b].live \/ (handler # None /\ Sibling(b) /\ ctx[b].node = None)
          /\ handler # None => answers # <<>> /\ ~ctx[handler].live
      BY <1>8 DEF LoopRight
    <2>2. ToSet(answers) \subseteq Lookups
      BY <2>1 DEF ToSet
    <2>3. \A b \in ToSet(answers) :
             ctx'[b].live \/ (handler # None /\ Sibling(b) /\ ctx'[b].node = None)
      BY <1>9, <2>1, <2>2 DEF Idle
    <2>4. handler # None => ~ctx'[handler].live
      BY <1>9, <2>1 DEF Idle
    <2>5. QED
      BY <1>4, <2>1, <2>3, <2>4 DEF LoopRight, Sibling
  <1>11. QED
    BY <1>4, <1>8, <1>9, <1>10, CallSame DEF IInv

LEMMA HandlerCancelsKeeps ==
    ASSUME IInv, NEW c \in Lookups, HandlerCancels(c)
    PROVE  IInv'
  <1>1. call = None /\ handler \in Lookups \cup {None} /\ ~ctx[handler].live
    BY DEF IInv, LoopRight, HandlerCancels
  <1>2. Sibling(c)
    BY <1>1 DEF HandlerCancels, Sibling
  <1>3. QED
    BY <1>1, <1>2, LeavesKeeps DEF HandlerCancels

(* ctx = next: what is left of a list in which nothing is twice. *)
LEMMA TailFacts ==
    ASSUME NEW T, NEW q \in Seq(T), q # <<>>, NoTwice(q)
    PROVE  /\ Tail(q) \in Seq(T) /\ NoTwice(Tail(q)) /\ Head(q) \in ToSet(q)
           /\ ToSet(Tail(q)) = ToSet(q) \ {Head(q)}
           /\ Len(q) = 1 <=> Tail(q) = <<>>
  <1>1. PICK n \in Nat : n = Len(q) /\ DOMAIN q = 1 .. n /\ n >= 1 /\ Head(q) = q[1]
    OBVIOUS
  <1>2. PICK t : t = Tail(q)
    OBVIOUS
  <1>3. /\ t \in Seq(T) /\ DOMAIN t = 1 .. n - 1 /\ Len(t) = n - 1
        /\ \A i \in 1 .. n - 1 : t[i] = q[i + 1]
    BY <1>1, <1>2
  <1>4. \A i, j \in 1 .. n : q[i] = q[j] => i = j
    BY <1>1 DEF NoTwice
  <1>5. NoTwice(t)
    BY <1>1, <1>3, <1>4 DEF NoTwice
  <1>6. ASSUME NEW y \in ToSet(t) PROVE y \in ToSet(q) \ {q[1]}
    <2>1. PICK i \in 1 .. n - 1 : y = q[i + 1]
      BY <1>3, <1>6 DEF ToSet
    <2>2. i + 1 \in 1 .. n /\ i + 1 # 1 /\ 1 \in 1 .. n
      BY <1>1
    <2>3. QED
      BY <1>1, <1>4, <2>1, <2>2 DEF ToSet
  <1>7. ASSUME NEW y \in ToSet(q) \ {q[1]} PROVE y \in ToSet(t)
    <2>1. PICK j \in 1 .. n : y = q[j]
      BY <1>1, <1>7 DEF ToSet
    <2>2. j - 1 \in 1 .. n - 1 /\ (j - 1) + 1 = j
      BY <1>1, <1>7, <2>1
    <2>3. t[j - 1] = y
      BY <1>3, <2>1, <2>2
    <2>4. QED
      BY <1>3, <2>2, <2>3 DEF ToSet
  <1>8. q[1] \in ToSet(q)
    BY <1>1 DEF ToSet
  <1>9. n = 1 <=> t = <<>>
    BY <1>1, <1>3
  <1>10. QED
    BY <1>1, <1>2, <1>3, <1>5, <1>6, <1>7, <1>8, <1>9

(* The loop goes on after the context h, which is not live any more. *)
LEMMA AdvanceKeeps ==
    ASSUME LoopRight, Advance, NEW h, h = Head(answers), answers # <<>>, call' = None,
           ~ctx'[h].live, \A b \in Lookups : b # h => ctx'[b] = ctx[b]
    PROVE  /\ LoopRight' /\ h \in Lookups /\ h \in ToSet(answers)
           /\ \A b \in Lookups \ {h} : b \in ToSet(answers') <=> b \in ToSet(answers)
  <1>1. /\ answers \in Seq(Lookups) /\ NoTwice(answers)
        /\ \A b \in ToSet(answers) :
                ctx[b].live \/ (handler # None /\ Sibling(b) /\ ctx[b].node = None)
    BY DEF LoopRight
  <1>2. PICK q : q = Tail(answers)
    OBVIOUS
  <1>3. /\ q \in Seq(Lookups) /\ NoTwice(q) /\ h \in ToSet(answers)
        /\ ToSet(q) = ToSet(answers) \ {h} /\ (Len(answers) = 1 <=> q = <<>>)
    BY <1>1, <1>2, TailFacts
  <1>4. answers' = q /\ handler' = IF Len(answers) = 1 THEN None ELSE h
    BY <1>2 DEF Advance
  <1>5. ToSet(answers) \subseteq Lookups
    BY <1>1 DEF ToSet
  <1>6. h # None /\ h \in Lookups
    BY <1>3, <1>5, LookupsAssumption
  <1>7. \A b \in ToSet(q) :
            ctx'[b].live \/ (handler' # None /\ Sibling(b) /\ ctx'[b].node = None)
    <2> SUFFICES ASSUME NEW b \in ToSet(q)
                 PROVE  ctx'[b].live \/ (handler' # None /\ Sibling(b) /\ ctx'[b].node = None)
      OBVIOUS
    <2>1. q # <<>>
      BY DEF ToSet
    <2>2. handler' # None
      BY <1>3, <1>4, <1>6, <2>1
    <2>3. ctx'[b] = ctx[b] /\ b \in ToSet(answers)
      BY <1>3, <1>5
    <2>4. QED
      BY <1>1, <2>2, <2>3
  <1>8. handler' # None => q # <<>> /\ ~ctx'[handler'].live
    BY <1>3, <1>4
  <1>9. handler' \in Lookups \cup {None}
    BY <1>4, <1>6
  <1>10. LoopRight'
    BY <1>3, <1>4, <1>7, <1>8, <1>9 DEF LoopRight, Sibling
  <1>11. QED
    BY <1>3, <1>4, <1>6, <1>10

LEMMA AnswerKeeps ==
    ASSUME IInv, Answer
    PROVE  IInv'
  <1>1. LoopData /\ LoopRight /\ errors \in 0 .. MaxErrors
    BY DEF IInv
  <1>2. PICK h : h = Head(answers)
    OBVIOUS
  <1>3. answers # <<>> /\ Done(h, node) /\ Advance /\ UNCHANGED <<call, errors>>
    BY <1>2 DEF Answer
  <1>4. call = None
    BY <1>1, <1>3 DEF LoopRight
  <1>5. ctx \in [Lookups -> Context] /\ ctx' = [ctx EXCEPT ![h] = Idle]
    BY <1>1, <1>3, Zenon DEF LoopData, Done
  <1>6. h \in Lookups /\ h \in ToSet(answers)
    <2>1. answers \in Seq(Lookups) /\ NoTwice(answers)
      BY <1>1 DEF LoopRight
    <2>2. h \in ToSet(answers)
      BY <1>2, <1>3, <2>1, TailFacts
    <2>3. QED
      BY <2>1, <2>2 DEF ToSet
  <1>7. ~ctx'[h].live /\ \A b \in Lookups : b # h => ctx'[b] = ctx[b]
    BY <1>5, <1>6 DEF Idle
  <1>8. /\ LoopRight'
        /\ \A b \in Lookups \ {h} : b \in ToSet(answers') <=> b \in ToSet(answers)
    BY <1>1, <1>2, <1>3, <1>4, <1>7, AdvanceKeeps
  <1>9. TreesRight(node, resend, expire, old) /\ ContextsRight(node, Seen(ctx, answers))
    BY <1>1 DEF LoopData
  <1>10. Handed(node, node, {h})
    <2>1. PICK x : x = Seen(ctx, answers)
      OBVIOUS
    <2>2. x[h].node = None
      BY <1>5, <1>6, <2>1, SeenFacts
    <2>3. QED
      BY <1>6, <1>9, <2>1, <2>2, HandedSameOf
  <1>11. LoopData'
    BY <1>1, <1>3, <1>6, <1>8, <1>9, <1>10, DoneKeeps
  <1>12. QED
    BY <1>1, <1>3, <1>4, <1>8, <1>11, CallSame DEF IInv

(* The process that replaces one that died. *)
LEMMA EmptyRight ==
    /\ TreesRight([k \in Keys |-> None], [d \in Kinds |-> <<>>], [d \in Kinds |-> <<>>], {})
    /\ ContextsRight([k \in Keys |-> None], [c \in Lookups |-> Idle])
    /\ [c \in Lookups |-> Idle] \in [Lookups -> Context]
    /\ ResendEmpty([d \in Kinds |-> <<>>])
  <1>1. PICK n : n = [k \in Keys |-> None]
    OBVIOUS
  <1>2. PICK q : q = [d \in Kinds |-> <<>>]
    OBVIOUS
  <1>3. PICK x : x = [c \in Lookups |-> Idle]
    OBVIOUS
  <1>4. NoTwice(<<>>) /\ ToSet(<<>>) = {} /\ \A o : OldLast(<<>>, o)
    BY DEF NoTwice, ToSet, OldLast
  <1>5. \A d : Asked(n, d) = {} /\ Known(n, d) = {}
    BY <1>1 DEF Asked, Known, IsAsked, IsKnown
  <1>6. QueueRight(n, q, q, {})
    BY <1>2, <1>4, <1>5 DEF QueueRight
  <1>7. NodesRight(n)
    BY <1>1 DEF NodesRight
  <1>8. n \in Nodes /\ q \in Queues
    BY <1>1, <1>2 DEF Nodes, Queues
  <1>9. TreesRight(n, q, q, {})
    BY <1>6, <1>7, <1>8 DEF TreesRight
  <1>10. ContextsRight(n, x) /\ x \in [Lookups -> Context]
    BY <1>1, <1>3, IdleFacts DEF ContextsRight, ListsRight
  <1>11. ResendEmpty(q)
    BY <1>2 DEF ResendEmpty
  <1>12. QED
    BY <1>1, <1>2, <1>3, <1>9, <1>10, <1>11

LEMMA AnswerFreedKeeps ==
    ASSUME IInv, AnswerFreed
    PROVE  IInv'
  <1>1. /\ LoopData /\ LoopRight /\ errors' \in 0 .. MaxErrors
        /\ answers # <<>> /\ ~ctx[Head(answers)].live
    BY DEF IInv, AnswerFreed
  <1>2. call = None
    BY <1>1 DEF LoopRight
  <1>3. CASE Advance /\ UNCHANGED <<node, resend, expire, old, ctx, timer, call>>
    <2>1. PICK h : h = Head(answers)
      OBVIOUS
    <2>2. /\ LoopRight' /\ h \in Lookups /\ h \in ToSet(answers)
          /\ \A b \in Lookups \ {h} : b \in ToSet(answers') <=> b \in ToSet(answers)
      BY <1>1, <1>2, <1>3, <2>1, AdvanceKeeps
    <2>3. /\ TreesRight(node, resend, expire, old) /\ ctx \in [Lookups -> Context]
          /\ ContextsRight(node, Seen(ctx, answers)) /\ timer \in BOOLEAN /\ ResendArmed
      BY <1>1 DEF LoopData
    <2>4. PICK x : x = Seen(ctx, answers)
      OBVIOUS
    <2>5. PICK y : y = Seen(ctx, answers')
      OBVIOUS
    <2>6. \A b \in Lookups : /\ x[b].live = ctx[b].live
                             /\ x[b].node = IF b \in ToSet(answers) THEN None ELSE ctx[b].node
      BY <2>3, <2>4, SeenFacts
    <2>7. /\ y \in [Lookups -> Context]
          /\ \A b \in Lookups : /\ y[b].live = ctx[b].live
                                /\ y[b].node = IF b \in ToSet(answers') THEN None ELSE ctx[b].node
      BY <2>3, <2>5, SeenFacts
    <2>8. ctx[h].node = None
      BY <1>1, <2>1, <2>2 DEF LoopRight
    <2>9. Left(x, y, {h})
      BY <2>2, <2>6, <2>7, <2>8 DEF Left
    <2>10. Handed(node, node, {h})
      BY <2>2, <2>3, <2>4, <2>6, HandedSameOf
    <2>11. ContextsRight(node, y)
      BY <2>3, <2>4, <2>7, <2>9, <2>10, ListsLeft
    <2>12. LoopData'
      BY <1>3, <2>3, <2>5, <2>11 DEF LoopData, ResendArmed, ResendEmpty
    <2>13. QED
      BY <1>1, <1>2, <1>3, <2>2, <2>12, CallSame DEF IInv
  <1>4. CASE /\ node' = [k \in Keys |-> None]
             /\ resend' = [d \in Kinds |-> <<>>]
             /\ expire' = [d \in Kinds |-> <<>>]
             /\ old' = {}
             /\ ctx' = [c \in Lookups |-> Idle]
             /\ timer' = FALSE
             /\ call' = None
             /\ answers' = <<>>
             /\ handler' = None
    <2>1. TreesRight(node', resend', expire', old') /\ ContextsRight(node', ctx')
      BY <1>4, EmptyRight
    <2>2. timer' \in BOOLEAN /\ ResendArmed'
      BY <1>4, EmptyRight DEF ResendArmed
    <2>3. QInv'
      BY <1>1, <1>4, <2>1, <2>2, NoCall, Zenon DEF QInv, DataRight
    <2>4. NoLoop'
      BY <1>4 DEF NoLoop
    <2>5. QED
      BY <2>3, <2>4, NoLoopNext, Zenon
  <1>5. QED
    BY <1>3, <1>4 DEF AnswerFreed

LEMMA ValidPassesKeeps ==
    ASSUME QInv, NEW k \in Keys, ValidPasses(k)
    PROVE  QInv'
  <1>1. /\ DataRight /\ call = None /\ Cached(k)
        /\ node' = [node EXCEPT ![k].valid = "stale", ![k].cname = None,
                                ![k].fam = [f \in DOMAIN @ |-> "none"]]
        /\ UNCHANGED <<resend, expire, old, ctx, timer, call, errors>>
    BY DEF ValidPasses, QInv, Quiet
  <1>2. /\ node[k] # None /\ IsKnown(node[k]) /\ node[k].waiting = <<>>
        /\ node[k] \in Node /\ NodeRight(node[k], k) /\ node[k].valid = "fresh"
    BY <1>1, CachedFacts, NodeFacts DEF Cached
  <1>3. PICK fam \in [{"A", "AAAA"} -> {"pending", "none", "some"}] :
            fam = [f \in DOMAIN node[k].fam |-> "none"]
    BY <1>2 DEF Node
  <1>4. PICK v : v = [node[k] EXCEPT !.valid = "stale", !.cname = None, !.fam = fam]
    OBVIOUS
  <1>5. /\ v \in Node /\ v.valid = "stale" /\ v.waiting = node[k].waiting
        /\ v.query = node[k].query
    BY <1>2, <1>3, <1>4 DEF Node
  <1>6. v # None /\ IsKnown(v) /\ NodeRight(v, k)
    BY <1>2, <1>5, NoneAssumption DEF IsKnown, NodeRight
  <1>7. node' = [node EXCEPT ![k] = v]
    BY <1>1, <1>3, <1>4 DEF DataRight, TreesRight, Nodes
  <1>8. DataRight'
    BY <1>1, <1>2, <1>5, <1>6, <1>7, NodeChanged
  <1>9. QED
    BY <1>1, <1>8, CallSame DEF QInv

LEMMA ExpirePassesKeeps ==
    ASSUME QInv, NEW d \in Kinds, ExpirePasses(d)
    PROVE  QInv'
  <1>1. DataRight /\ call = None /\ UNCHANGED <<node, resend, expire, ctx, timer, call, errors>>
    BY DEF ExpirePasses, QInv, Quiet
  <1>2. PICK i \in DOMAIN expire[d] :
            /\ \A j \in DOMAIN expire[d] : j > i => expire[d][j] \in old
            /\ old' = old \cup {expire[d][i]}
    BY Zenon DEF ExpirePasses
  <1>3. /\ TreesRight(node, resend, expire, old) /\ ContextsRight(node, ctx)
        /\ timer \in BOOLEAN /\ ResendArmed
    BY <1>1 DEF DataRight
  <1>4. /\ node \in Nodes /\ resend \in Queues /\ expire \in Queues /\ old \subseteq Keys
        /\ QueueRight(node, resend, expire, old) /\ NodesRight(node)
    BY <1>3 DEF TreesRight
  <1>5. PICK q \in Seq(Keys) : q = expire[d] /\ NoTwice(q) /\ ToSet(q) = Known(node, d) /\ OldLast(q, old)
    BY <1>4 DEF Queues, QueueRight
  <1>6. PICK x : x = q[i]
    OBVIOUS
  <1>7. x \in ToSet(q) /\ x \in Keys /\ Kind(x) = d /\ IsKnown(node[x])
    <2>1. x \in ToSet(q)
      BY <1>2, <1>5, <1>6 DEF ToSet
    <2>2. QED
      BY <1>5, <2>1 DEF Known
  <1>8. old' = old \cup {x}
    BY <1>2, <1>5, <1>6
  <1>9. OldLast(q, old \cup {x})
    <2>1. PICK n \in Nat : DOMAIN q = 1 .. n
      OBVIOUS
    <2>2. ASSUME NEW a \in 1 .. n, NEW b \in 1 .. n, a < b, q[a] \in old \cup {x}
          PROVE  q[b] \in old
      <3>1. CASE q[a] \in old
        BY <1>5, <2>1, <2>2, <3>1 DEF OldLast
      <3>2. CASE q[a] = x
        <4>1. a = i
          BY <1>2, <1>5, <1>6, <2>1, <3>2 DEF NoTwice
        <4>2. b > i
          BY <2>2, <4>1
        <4>3. QED
          BY <1>2, <1>5, <2>1, <4>2
      <3>3. QED
        BY <2>2, <3>1, <3>2
    <2>3. QED
      BY <2>1, <2>2 DEF OldLast
  <1>10. ASSUME NEW b \in Kinds, b # d PROVE OldLast(expire[b], old \cup {x})
    <2>1. ToSet(expire[b]) = Known(node, b) /\ OldLast(expire[b], old)
      BY <1>4 DEF QueueRight
    <2>2. x \notin ToSet(expire[b])
      BY <1>7, <1>10, <2>1 DEF Known
    <2>3. QED
      BY <2>1, <2>2 DEF OldLast, ToSet
  <1>11. \A b \in Kinds : OldLast(expire[b], old \cup {x})
    BY <1>5, <1>9, <1>10, Zenon
  <1>12. \A k \in old \cup {x} : k \in Keys /\ IsKnown(node[k])
    BY <1>4, <1>7 DEF QueueRight
  <1>13. QueueRight(node, resend, expire, old \cup {x})
    BY <1>4, <1>11, <1>12, Zenon DEF QueueRight
  <1>14. TreesRight(node, resend, expire, old \cup {x})
    BY <1>4, <1>7, <1>13 DEF TreesRight
  <1>15. TreesRight(node', resend', expire', old')
    BY <1>1, <1>8, <1>14
  <1>16. ContextsRight(node', ctx') /\ timer' \in BOOLEAN /\ ResendArmed'
    BY <1>1, <1>3 DEF ResendArmed, ResendEmpty
  <1>17. DataRight'
    BY <1>15, <1>16, Zenon DEF DataRight
  <1>18. QED
    BY <1>1, <1>17, CallSame DEF QInv

-----------------------------------------------------------------------------
(***************************************************************************)
(* ngx_resolver_resend_handler(): the fold over the nodes that are due.    *)
(* A family of subsets of a finite set has a smallest member, which is how *)
(* the fold over all of them is reasoned about.                            *)
(***************************************************************************)
LEMMA SmallestSubset ==
    ASSUME NEW S, IsFiniteSet(S), NEW T \in SUBSET (SUBSET S), T # {}
    PROVE  \E U \in T : \A V \in T : V \subseteq U => V = U
  <1>1. IsWellFoundedOn(StrictSubsetOrdering(S), SUBSET S)
    BY FS_StrictSubsetOrderingWellFounded, FS_FiniteSubsetsOfFinite
  <1>2. PICK U \in T : \A V \in T : ~(<<V, U>> \in StrictSubsetOrdering(S))
    BY <1>1, WFMin, Zenon
  <1>3. \A V \in T : V \subseteq U => V = U
    BY <1>2 DEF StrictSubsetOrdering
  <1>4. QED
    BY <1>3

(* Node k, taken from the end, goes to the head of q or is deleted. *)
Sent(n, k, q) == IF n[k].waiting # <<>> THEN <<k>> \o q ELSE q

(* f gives the queue q after the nodes at the places u of s were taken. *)
Takes(f, n, s, q, G) ==
    f = [u \in SUBSET G |-> IF u = {} THEN q
                            ELSE Sent(n, s[Min(u)], f[u \ {Min(u)}])]

Taken(n, s, q) == (CHOOSE f : Takes(f, n, s, q, DOMAIN s))[DOMAIN s]

(* A finite set of places in a sequence. *)
Places(G) == IsFiniteSet(G) /\ G \subseteq Nat

LEMMA TakesAgree ==
    ASSUME NEW n, NEW s, NEW q, NEW G, NEW H, Places(G),
           NEW f, Takes(f, n, s, q, G), NEW g, Takes(g, n, s, q, H)
    PROVE  \A u \in SUBSET G : u \subseteq H => f[u] = g[u]
  <1> DEFINE Bad == {u \in SUBSET G : u \subseteq H /\ f[u] # g[u]}
  <1> SUFFICES ASSUME Bad # {} PROVE FALSE
    OBVIOUS
  <1>1. PICK u \in Bad : \A v \in Bad : v \subseteq u => v = u
    <2>1. Bad \in SUBSET (SUBSET G)
      OBVIOUS
    <2>2. IsFiniteSet(G)
      BY DEF Places
    <2> HIDE DEF Bad
    <2>3. QED
      BY <2>1, <2>2, SmallestSubset
  <1>2. u # {}
    BY DEF Takes
  <1> DEFINE t == u \ {Min(u)}
  <1>3. t \in SUBSET G /\ t \subseteq H /\ t # u /\ t \subseteq u
    <2>1. u \in SUBSET Nat
      BY DEF Places
    <2>2. QED
      BY <1>2, <2>1, MinIsMember
  <1>4. f[t] = g[t]
    BY <1>1, <1>3
  <1>5. f[u] = Sent(n, s[Min(u)], f[t]) /\ g[u] = Sent(n, s[Min(u)], g[t])
    BY <1>2 DEF Takes
  <1>6. QED
    BY <1>4, <1>5

LEMMA TakesExist ==
    ASSUME NEW n, NEW s, NEW q, NEW G, Places(G)
    PROVE  \E f : Takes(f, n, s, q, G)
  <1> DEFINE Bad == {u \in SUBSET G : ~\E f : Takes(f, n, s, q, u)}
  <1> SUFFICES ASSUME Bad # {} PROVE FALSE
    OBVIOUS
  <1>1. PICK U \in Bad : \A V \in Bad : V \subseteq U => V = U
    <2>1. Bad \in SUBSET (SUBSET G)
      OBVIOUS
    <2>2. IsFiniteSet(G)
      BY DEF Places
    <2> HIDE DEF Bad
    <2>3. QED
      BY <2>1, <2>2, SmallestSubset
  <1> DEFINE F(v) == CHOOSE f : Takes(f, n, s, q, v)
             f == [u \in SUBSET U |->
                      IF u = {} THEN q
                      ELSE Sent(n, s[Min(u)], F(u \ {Min(u)})[u \ {Min(u)}])]
  <1>2. \A v \in SUBSET U : v # U => Takes(F(v), n, s, q, v)
    BY <1>1
  <1>3. \A u \in SUBSET U : Places(u) /\ u \in SUBSET Nat
    BY FS_Subset DEF Places
  <1> HIDE DEF F
  <1>4. ASSUME NEW v \in SUBSET U, v # U PROVE F(v)[v] = f[v]
    <2>1. CASE v = {}
      BY <1>2, <2>1 DEF Takes
    <2>2. CASE v # {}
      <3> DEFINE t == v \ {Min(v)}
      <3>1. t \in SUBSET U /\ t \subseteq v /\ t # U
        BY <1>3, <1>4, <2>2, MinIsMember
      <3>2. Takes(F(v), n, s, q, v) /\ Takes(F(t), n, s, q, t)
        BY <1>2, <1>4, <3>1
      <3>3. F(t)[t] = F(v)[t]
        BY <1>3, <3>1, <3>2, TakesAgree
      <3>4. F(v)[v] = Sent(n, s[Min(v)], F(v)[t])
        BY <2>2, <3>2 DEF Takes
      <3>5. QED
        BY <2>2, <3>3, <3>4
    <2>3. QED
      BY <2>1, <2>2
  <1>5. \A u \in SUBSET U : u # {} => F(u \ {Min(u)})[u \ {Min(u)}] = f[u \ {Min(u)}]
    <2> SUFFICES ASSUME NEW u \in SUBSET U, u # {}
                 PROVE  F(u \ {Min(u)})[u \ {Min(u)}] = f[u \ {Min(u)}]
      OBVIOUS
    <2>1. u \ {Min(u)} \in SUBSET U /\ u \ {Min(u)} # U
      BY <1>3, MinIsMember
    <2>2. QED
      BY <1>4, <2>1
  <1>6. f = [u \in SUBSET U |->
                IF u = {} THEN q ELSE Sent(n, s[Min(u)], f[u \ {Min(u)}])]
    BY <1>5
  <1>7. Takes(f, n, s, q, U)
    BY <1>6 DEF Takes
  <1> HIDE DEF f
  <1>8. QED
    BY <1>1, <1>7

(* The nodes at the places u of s that are sent again. *)
Again(n, s, u) == {k \in Keys : n[k].waiting # <<>> /\ \E i \in u : s[i] = k}

TakenRight(p, n, s, q, u) ==
    p \in Seq(Keys) /\ NoTwice(p) /\ ToSet(p) = ToSet(q) \cup Again(n, s, u)

LEMMA TakesFacts ==
    ASSUME NEW n, NEW s \in Seq(Keys), NoTwice(s), NEW q \in Seq(Keys), NoTwice(q),
           ToSet(s) \cap ToSet(q) = {}, NEW G \in SUBSET DOMAIN s, Places(G),
           NEW f, Takes(f, n, s, q, G)
    PROVE  TakenRight(f[G], n, s, q, G)
  <1> DEFINE Bad == {u \in SUBSET G : ~TakenRight(f[u], n, s, q, u)}
  <1> SUFFICES ASSUME Bad # {} PROVE FALSE
    OBVIOUS
  <1>1. PICK u \in Bad : \A v \in Bad : v \subseteq u => v = u
    <2>1. Bad \in SUBSET (SUBSET G)
      OBVIOUS
    <2>2. IsFiniteSet(G)
      BY DEF Places
    <2> HIDE DEF Bad
    <2>3. QED
      BY <2>1, <2>2, SmallestSubset
  <1>2. u # {}
    <2>1. ASSUME u = {} PROVE FALSE
      <3>1. f[u] = q
        BY <2>1 DEF Takes
      <3>2. Again(n, s, u) = {}
        BY <2>1 DEF Again
      <3>3. TakenRight(f[u], n, s, q, u)
        BY <3>1, <3>2 DEF TakenRight
      <3>4. QED
        BY <3>3
    <2>2. QED
      BY <2>1
  <1>3. PICK m : m = Min(u)
    OBVIOUS
  <1>4. m \in u
    <2>1. u \in SUBSET Nat
      BY DEF Places
    <2>2. QED
      BY <1>2, <1>3, <2>1, MinIsMember
  <1>5. PICK t : t = u \ {m}
    OBVIOUS
  <1>6. t \in SUBSET G /\ t # u /\ t \subseteq u
    BY <1>4, <1>5
  <1>7. PICK p : p = f[t]
    OBVIOUS
  <1>8. TakenRight(p, n, s, q, t)
    BY <1>1, <1>6, <1>7
  <1>9. f[u] = Sent(n, s[m], p)
    BY <1>2, <1>3, <1>5, <1>7 DEF Takes
  <1>10. PICK k \in Keys : k = s[m] /\ m \in DOMAIN s /\ k \in ToSet(s)
    BY <1>4 DEF ToSet
  <1>11. \A i \in t : s[i] # k
    BY <1>4, <1>5, <1>6, <1>10 DEF NoTwice
  <1>12. k \notin ToSet(p)
    BY <1>8, <1>10, <1>11 DEF TakenRight, Again
  <1>13. CASE n[k].waiting # <<>>
    <2>1. f[u] = <<k>> \o p
      BY <1>9, <1>10, <1>13 DEF Sent
    <2>2. f[u] \in Seq(Keys) /\ NoTwice(f[u]) /\ ToSet(f[u]) = ToSet(p) \cup {k}
      BY <1>8, <1>12, <2>1, PushFacts DEF TakenRight
    <2>3. Again(n, s, u) = Again(n, s, t) \cup {k}
      BY <1>4, <1>5, <1>10, <1>13 DEF Again
    <2>4. TakenRight(f[u], n, s, q, u)
      BY <1>8, <2>2, <2>3 DEF TakenRight
    <2>5. QED
      BY <2>4
  <1>14. CASE ~(n[k].waiting # <<>>)
    <2>1. f[u] = p
      BY <1>9, <1>10, <1>14 DEF Sent
    <2>2. Again(n, s, u) = Again(n, s, t)
      BY <1>4, <1>5, <1>10, <1>14 DEF Again
    <2>3. TakenRight(f[u], n, s, q, u)
      BY <1>8, <2>1, <2>2 DEF TakenRight
    <2>4. QED
      BY <2>3
  <1>15. QED
    BY <1>13, <1>14

LEMMA TakenFacts ==
    ASSUME NEW n, NEW s \in Seq(Keys), NoTwice(s), NEW q \in Seq(Keys), NoTwice(q),
           ToSet(s) \cap ToSet(q) = {}
    PROVE  TakenRight(Taken(n, s, q), n, s, q, DOMAIN s)
  <1>1. PICK G : G = DOMAIN s
    OBVIOUS
  <1>2. Places(G) /\ G \in SUBSET DOMAIN s
    BY <1>1, FS_Interval DEF Places
  <1>3. PICK f : f = CHOOSE g : Takes(g, n, s, q, G)
    OBVIOUS
  <1>4. Takes(f, n, s, q, G)
    BY <1>2, <1>3, TakesExist
  <1>5. TakenRight(f[G], n, s, q, G)
    BY <1>2, <1>4, TakesFacts
  <1>6. QED
    BY <1>1, <1>3, <1>5 DEF Taken

(* A queue cut in two: m elements at its head, and those that are due. *)
LEMMA CutFacts ==
    ASSUME NEW q \in Seq(Keys), NoTwice(q), NEW m \in 0 .. Len(q)
    PROVE  /\ SubSeq(q, 1, m) \in Seq(Keys) /\ NoTwice(SubSeq(q, 1, m))
           /\ SubSeq(q, m + 1, Len(q)) \in Seq(Keys) /\ NoTwice(SubSeq(q, m + 1, Len(q)))
           /\ ToSet(SubSeq(q, m + 1, Len(q))) \cap ToSet(SubSeq(q, 1, m)) = {}
           /\ ToSet(SubSeq(q, 1, m)) \cup ToSet(SubSeq(q, m + 1, Len(q))) = ToSet(q)
  <1>1. PICK n \in Nat : n = Len(q) /\ DOMAIN q = 1 .. n
    OBVIOUS
  <1>2. m \in Nat /\ m <= n
    BY <1>1
  <1>3. PICK a : a = SubSeq(q, 1, m)
    OBVIOUS
  <1>4. PICK b : b = SubSeq(q, m + 1, n)
    OBVIOUS
  <1>5. a \in Seq(Keys) /\ DOMAIN a = 1 .. m /\ \A i \in 1 .. m : a[i] = q[i]
    BY <1>1, <1>2, <1>3
  <1>6. b \in Seq(Keys) /\ DOMAIN b = 1 .. n - m /\ \A i \in 1 .. n - m : b[i] = q[i + m]
    BY <1>1, <1>2, <1>4
  <1>7. \A i, j \in 1 .. n : q[i] = q[j] => i = j
    BY <1>1 DEF NoTwice
  <1>8. /\ \A i \in 1 .. m : i \in 1 .. n
        /\ \A i \in 1 .. n - m : i + m \in 1 .. n
        /\ \A i \in 1 .. n : i \in 1 .. m \/ (i - m \in 1 .. n - m /\ (i - m) + m = i)
    BY <1>2
  <1>9. NoTwice(a)
    BY <1>5, <1>7, <1>8 DEF NoTwice
  <1>10. NoTwice(b)
    <2>1. ASSUME NEW i \in 1 .. n - m, NEW j \in 1 .. n - m, b[i] = b[j] PROVE i = j
      <3>1. i + m = j + m
        BY <1>6, <1>7, <1>8, <2>1
      <3>2. QED
        BY <1>2, <3>1
    <2>2. QED
      BY <1>6, <2>1, Zenon DEF NoTwice
  <1>11. ToSet(b) \cap ToSet(a) = {}
    <2>1. ASSUME NEW i \in 1 .. n - m, NEW j \in 1 .. m, b[i] = a[j] PROVE FALSE
      <3>1. i + m = j
        BY <1>5, <1>6, <1>7, <1>8, <2>1
      <3>2. QED
        BY <1>2, <3>1
    <2>2. QED
      BY <1>5, <1>6, <2>1 DEF ToSet
  <1>12. ASSUME NEW y \in ToSet(q) PROVE y \in ToSet(a) \cup ToSet(b)
    <2>1. PICK i \in 1 .. n : y = q[i]
      BY <1>1, <1>12 DEF ToSet
    <2>2. CASE i \in 1 .. m
      BY <1>5, <2>1, <2>2 DEF ToSet
    <2>3. CASE i - m \in 1 .. n - m /\ (i - m) + m = i
      <3>1. PICK j \in 1 .. n - m : j + m = i
        BY <2>3
      <3>2. b[j] = y
        BY <1>6, <2>1, <3>1
      <3>3. QED
        BY <1>6, <3>2 DEF ToSet
    <2>4. QED
      BY <1>8, <2>2, <2>3
  <1>13. ToSet(a) \subseteq ToSet(q)
    BY <1>1, <1>5, <1>8 DEF ToSet
  <1>14. ToSet(b) \subseteq ToSet(q)
    BY SMTT(40), <1>1, <1>6, <1>8 DEF ToSet
  <1>15. QED
    BY <1>1, <1>3, <1>4, <1>5, <1>6, <1>9, <1>10, <1>11, <1>12, <1>13, <1>14

LEMMA ResendKeeps ==
    ASSUME QInv, ResendHandler
    PROVE  QInv'
  <1>1. /\ DataRight /\ TreesRight(node, resend, expire, old) /\ ContextsRight(node, ctx)
        /\ node \in Nodes /\ resend \in Queues /\ expire \in Queues /\ old \subseteq Keys
        /\ QueueRight(node, resend, expire, old) /\ NodesRight(node)
    BY DEF QInv, DataRight, TreesRight
  <1>2. PICK due : Resend(due) /\ \A d \in Kinds : due[d] \in 0 .. Len(resend[d])
    <2>1. PICK n \in 0 .. Len(resend["name"]), a \in 0 .. Len(resend["addr"]) :
              Resend([name |-> n, addr |-> a])
      BY Zenon DEF ResendHandler
    <2>2. PICK due : due = [name |-> n, addr |-> a]
      OBVIOUS
    <2>3. \A d \in Kinds : due[d] \in 0 .. Len(resend[d])
      BY <2>2 DEF Kinds
    <2>4. QED
      BY <2>1, <2>2, <2>3
  <1> DEFINE Early(d) == SubSeq(resend[d], 1, Len(resend[d]) - due[d])
             Late(d) == SubSeq(resend[d], Len(resend[d]) - due[d] + 1, Len(resend[d]))
  <1>3. /\ call = None /\ UNCHANGED <<expire, old, ctx, call, errors>>
        /\ timer' = ~ResendEmpty(resend')
    BY <1>2 DEF Resend, Quiet
  <1>4. resend' = [d \in Kinds |-> Taken(node, Late(d), Early(d))]
    BY <1>2 DEF Resend, FoldRight, MapThenFoldSet, Taken, Takes, Sent
  <1>5. node' = [k \in Keys |-> IF k \in ToSet(Late(Kind(k))) /\ node[k].waiting = <<>>
                                THEN None ELSE node[k]]
    BY <1>2 DEF Resend
  <1>6. ASSUME NEW d \in Kinds
        PROVE  /\ Early(d) \in Seq(Keys) /\ NoTwice(Early(d))
               /\ Late(d) \in Seq(Keys) /\ NoTwice(Late(d))
               /\ ToSet(Late(d)) \cap ToSet(Early(d)) = {}
               /\ ToSet(Early(d)) \cup ToSet(Late(d)) = Asked(node, d)
    <2>1. PICK q \in Seq(Keys) : q = resend[d] /\ NoTwice(q) /\ ToSet(q) = Asked(node, d)
      BY <1>1 DEF Queues, QueueRight
    <2>2. PICK m \in 0 .. Len(q) : m = Len(resend[d]) - due[d]
      BY <1>2, <2>1
    <2>3. Early(d) = SubSeq(q, 1, m) /\ Late(d) = SubSeq(q, m + 1, Len(q))
      BY <2>1, <2>2
    <2> HIDE DEF Early, Late
    <2>4. QED
      BY <2>1, <2>2, <2>3, CutFacts
  <1> HIDE DEF Early, Late
  <1>7. ASSUME NEW d \in Kinds
        PROVE  TakenRight(resend'[d], node, Late(d), Early(d), DOMAIN Late(d))
    <2>1. resend'[d] = Taken(node, Late(d), Early(d))
      BY <1>4
    <2>2. QED
      BY <1>6, <2>1, TakenFacts
  <1>8. resend' \in Queues
    BY <1>4, <1>7 DEF Queues, TakenRight
  <1>9. /\ node' \in Nodes
        /\ \A k \in Keys : node'[k] = IF k \in ToSet(Late(Kind(k))) /\ node[k].waiting = <<>>
                                      THEN None ELSE node[k]
    BY <1>1, <1>5 DEF Nodes
  <1>10. ASSUME NEW d \in Kinds, NEW k \in ToSet(Late(d))
         PROVE  k \in Keys /\ Kind(k) = d /\ IsAsked(node[k])
    BY <1>6 DEF Asked
  <1>11. ASSUME NEW d \in Kinds
         PROVE  ToSet(resend'[d]) = Asked(node', d)
    <2>1. ToSet(resend'[d]) = ToSet(Early(d)) \cup Again(node, Late(d), DOMAIN Late(d))
      BY <1>7 DEF TakenRight
    <2>2. Again(node, Late(d), DOMAIN Late(d)) = {k \in ToSet(Late(d)) : node[k].waiting # <<>>}
      <3>1. ToSet(Late(d)) \subseteq Keys
        BY <1>10
      <3>2. QED
        BY <3>1 DEF Again, ToSet
    <2>3. ASSUME NEW k \in Asked(node', d)
          PROVE  k \in ToSet(resend'[d])
      <3>1. k \in Keys /\ Kind(k) = d /\ node'[k] = node[k] /\ IsAsked(node[k])
        BY <1>9, <2>3 DEF Asked, IsAsked
      <3>2. k \in ToSet(Early(d)) \cup ToSet(Late(d))
        BY <1>6, <3>1 DEF Asked
      <3>3. ~(k \in ToSet(Late(d)) /\ node[k].waiting = <<>>)
        BY <1>9, <3>1 DEF IsAsked
      <3>4. QED
        BY <2>1, <2>2, <3>2, <3>3
    <2>4. ASSUME NEW k \in ToSet(resend'[d])
          PROVE  k \in Asked(node', d)
      <3>1. k \in Asked(node, d) /\ ~(k \in ToSet(Late(d)) /\ node[k].waiting = <<>>)
        BY <1>6, <2>1, <2>2, <2>4
      <3>2. k \in Keys /\ Kind(k) = d /\ node'[k] = node[k]
        BY <1>9, <3>1 DEF Asked
      <3>3. QED
        BY <3>1, <3>2 DEF Asked
    <2>5. QED
      BY <2>3, <2>4
  <1>12. \A k \in Keys : \/ node'[k] = node[k]
                         \/ node'[k] = None /\ IsAsked(node[k]) /\ node[k].waiting = <<>>
    BY <1>9, <1>10, KindFacts
  <1>13. \A d : Known(node', d) = Known(node, d)
    BY <1>12 DEF Known, IsKnown, IsAsked
  <1>14. QueueRight(node', resend', expire', old')
    <2>1. \A d \in Kinds : NoTwice(resend'[d]) /\ ToSet(resend'[d]) = Asked(node', d)
      BY <1>7, <1>11 DEF TakenRight
    <2>2. \A k \in old : k \in Keys /\ IsKnown(node'[k])
      BY <1>1, <1>12 DEF QueueRight, IsKnown, IsAsked
    <2>3. QED
      BY <1>1, <1>3, <1>13, <2>1, <2>2, Zenon DEF QueueRight
  <1>15. NodesRight(node')
    BY <1>1, <1>12 DEF NodesRight
  <1>16. TreesRight(node', resend', expire', old')
    BY <1>1, <1>3, <1>8, <1>9, <1>14, <1>15, Zenon DEF TreesRight
  <1>17. Handed(node, node', {})
    <2>1. Handed(node, node, {})
      BY <1>1, HandedSame
    <2>2. \A k \in Keys : node[k] # None /\ node[k].waiting = <<>> => ToSet(node[k].waiting) \subseteq {}
      BY DEF ToSet
    <2>3. QED
      BY <1>12, <2>1, <2>2 DEF Handed, IsAsked
  <1>18. ctx' \in [Lookups -> Context] /\ Left(ctx, ctx', {})
    BY <1>1, <1>3 DEF Left, ContextsRight
  <1>19. ContextsRight(node', ctx')
    BY <1>1, <1>17, <1>18, ListsLeft
  <1>20. timer' \in BOOLEAN /\ ResendArmed'
    BY <1>3 DEF ResendArmed, ResendEmpty
  <1>21. DataRight'
    BY <1>16, <1>19, <1>20, Zenon DEF DataRight
  <1>22. QED
    BY <1>3, <1>21, CallSame DEF QInv

-----------------------------------------------------------------------------
(***************************************************************************)
(* The theorems.                                                           *)
(***************************************************************************)
LEMMA InitIInv == Init => IInv
  <1> SUFFICES ASSUME Init PROVE IInv
    OBVIOUS
  <1>1. /\ node = [k \in Keys |-> None] /\ resend = [d \in Kinds |-> <<>>]
        /\ expire = [d \in Kinds |-> <<>>] /\ old = {} /\ ctx = [c \in Lookups |-> Idle]
        /\ timer = FALSE /\ call = None /\ errors = 0
    BY DEF Init
  <1>2. TreesRight(node, resend, expire, old) /\ ContextsRight(node, ctx)
    BY <1>1, EmptyRight
  <1>3. timer \in BOOLEAN /\ ResendArmed
    BY <1>1, EmptyRight DEF ResendArmed
  <1>4. CallRight(call) /\ errors \in 0 .. MaxErrors
    BY <1>1, BoundsAssumption DEF CallRight
  <1>5. QInv /\ NoLoop
    BY <1>2, <1>3, <1>4 DEF QInv, DataRight, NoLoop, Init
  <1>6. QED
    BY <1>5, NoLoopInv

LEMMA StutterKeeps == ASSUME IInv, UNCHANGED vars PROVE IInv'
  <1>1. /\ node' = node /\ resend' = resend /\ expire' = expire /\ old' = old
        /\ ctx' = ctx /\ timer' = timer /\ call' = call /\ errors' = errors
        /\ answers' = answers /\ handler' = handler
    BY DEF vars
  <1>2. LoopData'
    BY <1>1 DEF IInv, LoopData, ResendArmed, ResendEmpty
  <1>3. LoopRight'
    BY <1>1 DEF IInv, LoopRight, Sibling
  <1>4. CallRight(call)'
    BY <1>1 DEF IInv, CallRight
  <1>5. QED
    BY <1>1, <1>2, <1>3, <1>4 DEF IInv

LEMMA NameAnswerKeeps ==
    ASSUME QInv, NoLoop, NEW k \in Names, NameAnswer(k)
    PROVE  IInv'
  <1>1. PICK f \in Families :
            \/ NameTruncated(k, f)
            \/ \E reply \in Replies : \/ NamePart(k, f, reply)
                                      \/ NameFails(k, f, reply)
                                      \/ NameFound(k, f, reply)
            \/ NameUseless(k, f)
            \/ NameAlias(k, f)
    BY Zenon DEF NameAnswer
  <1>2. ASSUME NameTruncated(k, f) PROVE QInv' /\ NoLoop'
    BY <1>2, NameTruncatedKeeps DEF NameTruncated, NoLoop, loop
  <1>3. ASSUME NEW reply, NamePart(k, f, reply) PROVE QInv' /\ NoLoop'
    BY <1>3, NamePartKeeps DEF NamePart, Stored, NoLoop, loop
  <1>4. ASSUME NameUseless(k, f) PROVE QInv' /\ NoLoop'
    BY <1>4, NameUselessKeeps DEF NameUseless, Stored, NoLoop, loop
  <1>5. QED
    BY <1>1, <1>2, <1>3, <1>4, NameFailsKeeps, NameFoundKeeps, NameAliasKeeps,
       NoLoopNext, Zenon

LEMMA ResolveKeeps ==
    ASSUME QInv, NoLoop, NEW k \in Keys, Resolve(k)
    PROVE  IInv'
  <1>1. ASSUME ResolveJoin(k) PROVE QInv' /\ NoLoop'
    BY <1>1, ResolveJoinKeeps DEF ResolveJoin, NoLoop, loop
  <1>2. ASSUME ResolveQuery(k) PROVE QInv' /\ NoLoop'
    BY <1>2, ResolveQueryKeeps DEF ResolveQuery, NoLoop, loop
  <1>3. ASSUME ResolveFails(k) PROVE QInv' /\ NoLoop'
    BY <1>3, ResolveFailsKeeps DEF ResolveFails, NoLoop, loop
  <1>4. QED
    BY <1>1, <1>2, <1>3, ResolveCachedKeeps, ResolveCnameKeeps, ResolveMalformedKeeps,
       NoLoopNext, Zenon DEF Resolve

LEMMA NextKeeps == IInv /\ [Next]_vars => IInv'
  <1> SUFFICES ASSUME IInv, [Next]_vars PROVE IInv'
    OBVIOUS
  <1>1. ASSUME NEW c \in Lookups, Timeout(c) \/ Cancel(c) PROVE IInv'
    <2>1. call = None /\ answers = <<>> /\ Leaves(c)
      BY <1>1 DEF Timeout, Cancel, Quiet
    <2>2. c \notin ToSet(answers)
      BY <2>1 DEF ToSet
    <2>3. QED
      BY <2>1, <2>2, LeavesKeeps
  <1>2. ASSUME NEW c \in Lookups, HandlerCancels(c) PROVE IInv'
    BY <1>2, HandlerCancelsKeeps
  <1>3. ASSUME NEW c \in Lookups, NEW k \in Keys, Start(c, k) PROVE IInv'
    <2>1. QInv /\ NoLoop
      BY <1>3, QuietInv DEF Start, Quiet
    <2>2. QInv' /\ NoLoop'
      BY <1>3, <2>1, StartKeeps DEF Start, NoLoop, loop
    <2>3. QED
      BY <2>2, NoLoopNext, Zenon
  <1>4. ASSUME NEW k \in Keys, Resolve(k) PROVE IInv'
    <2>1. call # None
      BY <1>4 DEF Resolve, ResolveCached, ResolveCname, ResolveJoin, ResolveQuery,
                  ResolveMalformed, ResolveFails, Calls
    <2>2. QED
      BY <1>4, <2>1, InCall, ResolveKeeps
  <1>5. ASSUME NEW k \in Keys, ValidPasses(k) PROVE IInv'
    <2>1. QInv /\ NoLoop
      BY <1>5, QuietInv DEF ValidPasses, Quiet
    <2>2. QInv' /\ NoLoop'
      BY <1>5, <2>1, ValidPassesKeeps DEF ValidPasses, NoLoop, loop
    <2>3. QED
      BY <2>2, NoLoopNext, Zenon
  <1>6. ASSUME NEW k \in Names, NameAnswer(k) PROVE IInv'
    <2>1. answers = <<>>
      BY <1>6 DEF NameAnswer, NameTruncated, NamePart, NameFails, NameFound, NameUseless,
                  NameAlias, Expected, Quiet
    <2>2. QED
      BY <1>6, <2>1, QuietInv, NameAnswerKeeps
  <1>7. ASSUME NEW k \in Addrs, AddrFound(k) \/ AddrFails(k) PROVE IInv'
    <2>1. QInv /\ NoLoop
      BY <1>7, QuietInv DEF AddrFound, AddrFails, AddrExpected, Quiet
    <2>2. QED
      BY <1>7, <2>1, AddrFoundKeeps, AddrFailsKeeps
  <1>8. ASSUME ResendHandler PROVE IInv'
    <2>1. PICK due : Resend(due)
      BY <1>8 DEF ResendHandler
    <2>2. QInv /\ NoLoop /\ UNCHANGED loop
      BY <2>1, QuietInv DEF Resend, Quiet
    <2>3. QInv' /\ NoLoop'
      BY <1>8, <2>2, ResendKeeps DEF NoLoop, loop
    <2>4. QED
      BY <2>3, NoLoopNext, Zenon
  <1>9. ASSUME NEW d \in Kinds, ExpirePasses(d) PROVE IInv'
    <2>1. QInv /\ NoLoop
      BY <1>9, QuietInv DEF ExpirePasses, Quiet
    <2>2. QInv' /\ NoLoop'
      BY <1>9, <2>1, ExpirePassesKeeps DEF ExpirePasses, NoLoop, loop
    <2>3. QED
      BY <2>2, NoLoopNext, Zenon
  <1>10. ASSUME Answer PROVE IInv'
    BY <1>10, AnswerKeeps
  <1>11. ASSUME AnswerFreed PROVE IInv'
    BY <1>11, AnswerFreedKeeps
  <1>12. ASSUME UNCHANGED vars PROVE IInv'
    BY <1>12, StutterKeeps
  <1>13. QED
    BY <1>1, <1>2, <1>3, <1>4, <1>5, <1>6, <1>7, <1>8, <1>9, <1>10, <1>11, <1>12,
       Zenon DEF Next

LEMMA Invariance == Spec => []IInv
  BY InitIInv, NextKeeps, PTL DEF Spec

(* Every variable keeps its type: a node is made of what an answer may     *)
(* leave in it, the queues hold names and addresses, and the recursion of  *)
(* a context never exceeds NGX_RESOLVER_MAX_RECURSION.                     *)
THEOREM TypeCorrect == Spec => []TypeOK
  <1>1. IInv => TypeOK
    BY DEF IInv, LoopData, LoopRight, TreesRight, CallRight, Calling, Nodes, Queues, TypeOK
  <1>2. QED
    BY <1>1, Invariance, PTL

(* In a sequence in which nothing is twice an element has one place. *)
LEMMA OnePlace ==
    ASSUME NEW T, NEW q \in Seq(T), NoTwice(q), NEW x
    PROVE  Cardinality({i \in DOMAIN q : q[i] = x}) = IF x \in ToSet(q) THEN 1 ELSE 0
  <1>1. CASE x \in ToSet(q)
    <2>1. PICK i \in DOMAIN q : q[i] = x
      BY <1>1 DEF ToSet
    <2>2. {j \in DOMAIN q : q[j] = x} = {i}
      BY <2>1 DEF NoTwice
    <2>3. QED
      BY <1>1, <2>2, FS_Singleton
  <1>2. CASE x \notin ToSet(q)
    <2>1. {j \in DOMAIN q : q[j] = x} = {}
      BY <1>2 DEF ToSet
    <2>2. QED
      BY <1>2, <2>1, FS_EmptySet
  <1>3. QED
    BY <1>1, <1>2

(* A context that points to a node is in the list of the node, once, or in *)
(* the list of a loop, and ngx_resolve_name_done() finds it.  A loop hands *)
(* its answer to a context that was given up only if the lookup shares its *)
(* main request with another one.                                          *)
THEOREM ContextsListed == Spec => []WaitersListed
  <1>1. ASSUME IInv PROVE WaitersListed
    <2>1. LoopData /\ LoopRight
      BY <1>1 DEF IInv
    <2>2. /\ TreesRight(node, resend, expire, old) /\ ctx \in [Lookups -> Context]
          /\ ContextsRight(node, Seen(ctx, answers))
      BY <2>1 DEF LoopData
    <2>3. PICK x : x = Seen(ctx, answers)
      OBVIOUS
    <2>4. \A c \in Lookups : /\ x[c].live = ctx[c].live
                             /\ x[c].node = IF c \in ToSet(answers) THEN None ELSE ctx[c].node
      BY <2>2, <2>3, SeenFacts
    <2>5. ASSUME NEW c \in Lookups, NEW k \in Keys
          PROVE  Cardinality(IF node[k] = None THEN {}
                             ELSE {i \in DOMAIN node[k].waiting : node[k].waiting[i] = c})
                 = IF ctx[c].live /\ ctx[c].node = k /\ c \notin ToSet(answers) THEN 1 ELSE 0
      <3>1. k # None
        BY KindFacts
      <3>2. x[c].node = k <=> ctx[c].node = k /\ c \notin ToSet(answers)
        BY <2>4, <3>1
      <3>3. x[c].node = k => ctx[c].live /\ node[k] # None
        BY <2>2, <2>3, <2>4, <3>1 DEF ContextsRight, ListsRight
      <3>4. CASE node[k] = None
        BY <3>2, <3>3, <3>4, FS_EmptySet
      <3>5. CASE node[k] # None
        <4>1. PICK q \in Seq(Lookups) : q = node[k].waiting
          BY <2>2, <2>3, <3>5, NodeFactsOf
        <4>2. NoTwice(q) /\ (c \in ToSet(q) <=> x[c].node = k)
          BY <2>2, <2>3, <3>5, <4>1, NodeFactsOf
        <4>3. Cardinality({i \in DOMAIN q : q[i] = c}) = IF c \in ToSet(q) THEN 1 ELSE 0
          BY <4>2, OnePlace
        <4>4. QED
          BY <3>2, <3>3, <3>5, <4>1, <4>2, <4>3, Zenon
      <3>6. QED
        BY <3>4, <3>5
    <2>6. IsInjective(answers)
      BY <2>1 DEF LoopRight, NoTwice, IsInjective
    <2>7. \A c \in ToSet(answers) :
             \/ ctx[c].live
             \/ handler # None /\ \E d \in Lookups \ {c} : Main[d] = Main[c]
      BY <2>1 DEF LoopRight, Sibling
    <2>8. QED
      BY <2>5, <2>6, <2>7, Zenon DEF WaitersListed
  <1>2. QED
    BY <1>1, Invariance, PTL

(* A node is in the resend queue until its answer is complete and in the   *)
(* expire queue afterwards, once, with all that the cache gives from it;   *)
(* ngx_resolver_free_node() leaves no entry of it in a queue.              *)
THEOREM NodesQueued == Spec => []QueuesMatch
  <1> DEFINE PlacesIn(q, k) == Cardinality({i \in DOMAIN q[Kind(k)] : q[Kind(k)][i] = k})
  <1>1. ASSUME IInv PROVE QueuesMatch
    <2>1. /\ resend \in Queues /\ expire \in Queues /\ old \subseteq Keys
          /\ QueueRight(node, resend, expire, old) /\ NodesRight(node)
      BY <1>1 DEF IInv, LoopData, TreesRight
    <2>2. ASSUME NEW k \in Keys
          PROVE  /\ PlacesIn(resend, k) = IF IsAsked(node[k]) THEN 1 ELSE 0
                 /\ PlacesIn(expire, k) = IF IsKnown(node[k]) THEN 1 ELSE 0
      <3>1. Kind(k) \in Kinds
        BY KindFacts
      <3>2. PICK q \in Seq(Keys), r \in Seq(Keys) :
                /\ q = resend[Kind(k)] /\ NoTwice(q) /\ ToSet(q) = Asked(node, Kind(k))
                /\ r = expire[Kind(k)] /\ NoTwice(r) /\ ToSet(r) = Known(node, Kind(k))
        BY <2>1, <3>1 DEF Queues, QueueRight
      <3>3. (k \in ToSet(q) <=> IsAsked(node[k])) /\ (k \in ToSet(r) <=> IsKnown(node[k]))
        BY <3>2 DEF Asked, Known
      <3>4. /\ Cardinality({i \in DOMAIN q : q[i] = k}) = IF k \in ToSet(q) THEN 1 ELSE 0
            /\ Cardinality({i \in DOMAIN r : r[i] = k}) = IF k \in ToSet(r) THEN 1 ELSE 0
        BY <3>2, OnePlace
      <3>5. QED
        BY <3>2, <3>3, <3>4, Zenon
    <2> HIDE DEF PlacesIn
    <2>3. ASSUME NEW k \in Keys
          PROVE  IF node[k] = None THEN PlacesIn(resend, k) = 0 /\ PlacesIn(expire, k) = 0
                 ELSE /\ PlacesIn(resend, k) = IF node[k].valid = "no" THEN 1 ELSE 0
                      /\ PlacesIn(expire, k) = IF node[k].valid = "no" THEN 0 ELSE 1
                      /\ node[k].valid # "no" => node[k].waiting = <<>>
                      /\ node[k].valid = "fresh" /\ k \in Names =>
                           /\ ~Open(node[k].fam)
                           /\ Found(node[k].fam) # (node[k].cname # None)
                           /\ ~node[k].code
      <3>1. CASE node[k] = None
        BY <2>2, <3>1 DEF IsAsked, IsKnown
      <3>2. CASE node[k] # None
        <4>1. NodeRight(node[k], k)
          BY <2>1, <3>2 DEF NodesRight
        <4>2. /\ PlacesIn(resend, k) = IF node[k].valid = "no" THEN 1 ELSE 0
              /\ PlacesIn(expire, k) = IF node[k].valid = "no" THEN 0 ELSE 1
          BY <2>2, <3>2 DEF IsAsked, IsKnown
        <4>3. QED
          BY <3>2, <4>1, <4>2, Zenon DEF NodeRight, Answers
      <3>3. QED
        BY <3>1, <3>2
    <2>4. old \subseteq {k \in Keys : node[k] # None /\ node[k].valid # "no"}
      BY <2>1 DEF QueueRight, IsKnown
    <2>5. QED
      BY <2>3, <2>4, Zenon DEF QueuesMatch, PlacesIn
  <1>2. QED
    BY <1>1, Invariance, PTL

(* The resend timer runs as long as a query of either kind may have to be  *)
(* sent again: ngx_resolve_name_done() and ngx_resolve_addr_done() stop it *)
(* only when both resend queues are empty.                                 *)
THEOREM TimerArmed == Spec => []ResendArmed
  <1>1. IInv => ResendArmed
    BY DEF IInv, LoopData
  <1>2. QED
    BY <1>1, Invariance, PTL
=============================================================================
