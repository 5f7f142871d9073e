-------------------------- MODULE FileCacheProofs --------------------------
(***************************************************************************)
(* Proofs about FileCache: every variable keeps its range, a node is       *)
(* freed only when nobody has it, the mark of an update has an owner, and  *)
(* the size of the cache is that of its files, for any number of requests, *)
(* keys, nodes and deaths.                                                 *)
(***************************************************************************)
EXTENDS FileCache, FiniteSetTheorems, WellFoundedInduction, TLAPS

(***************************************************************************)
(* The queue: elements of a sequence in which nothing is twice.            *)
(***************************************************************************)
Elements(q) == {q[j] : j \in DOMAIN q}

NoTwice(q) == \A j, k \in DOMAIN q : q[j] = q[k] => j = k

LEMMA LeastExists ==
    ASSUME NEW S \in SUBSET Nat, S # {}
    PROVE  \E x \in S : \A y \in S : x <= y
  <1>1. PICK x \in S : \A y \in S : ~(<<y, x>> \in OpToRel(<, Nat))
    BY NatLessThanWellFounded, WFMin, Zenon
  <1>2. \A y \in S : ~(y < x)
    BY <1>1 DEF OpToRel
  <1>3. QED
    BY <1>2

LEMMA MinIsMember ==
    ASSUME NEW S \in SUBSET Nat, S # {}
    PROVE  Min(S) \in S
  BY LeastExists DEF Min

LEMMA RemoveAtFacts ==
    ASSUME NEW T, NEW s \in Seq(T), NEW i \in DOMAIN s
    PROVE  /\ RemoveAt(s, i) \in Seq(T)
           /\ DOMAIN RemoveAt(s, i) = 1 .. Len(s) - 1
           /\ \A j \in 1 .. Len(s) - 1 :
                  RemoveAt(s, i)[j] = IF j < i THEN s[j] ELSE s[j + 1]
  <1>1. i \in 1 .. Len(s) /\ Len(s) \in Nat
    OBVIOUS
  <1> DEFINE a == SubSeq(s, 1, i - 1)
             b == SubSeq(s, i + 1, Len(s))
  <1>2. a \in Seq(T) /\ Len(a) = i - 1 /\ \A j \in 1 .. i - 1 : a[j] = s[j]
    BY <1>1
  <1>3. /\ b \in Seq(T) /\ Len(b) = Len(s) - i
        /\ \A j \in 1 .. Len(s) - i : b[j] = s[j + i]
    BY <1>1
  <1> HIDE DEF a, b
  <1>4. PICK c : c = a \o b
    OBVIOUS
  <1>5. c \in Seq(T) /\ Len(c) = Len(s) - 1 /\ DOMAIN c = 1 .. Len(s) - 1
    BY <1>1, <1>2, <1>3, <1>4
  <1>6. \A j \in 1 .. Len(s) - 1 :
            c[j] = IF j <= i - 1 THEN a[j] ELSE b[j - (i - 1)]
    BY SMTT(40), <1>1, <1>2, <1>3, <1>4
  <1>7. ASSUME NEW j \in 1 .. Len(s) - 1
        PROVE  c[j] = IF j < i THEN s[j] ELSE s[j + 1]
    <2>1. j \in Int /\ i \in Int /\ Len(s) \in Int /\ j >= 1 /\ j <= Len(s) - 1
      BY <1>1
    <2>2. CASE j < i
      <3>1. j \in 1 .. i - 1 /\ j <= i - 1
        BY <2>1, <2>2
      <3>2. c[j] = a[j] /\ a[j] = s[j]
        BY <1>2, <1>6, <3>1
      <3>3. QED
        BY <2>2, <3>2, Zenon
    <2>3. CASE ~(j < i)
      <3>1. PICK m \in 1 .. Len(s) - i : m = j - (i - 1) /\ m + i = j + 1
        BY <2>1, <2>3
      <3>2. b[m] = s[m + i]
        BY <1>3
      <3>3. ~(j <= i - 1)
        BY <2>1, <2>3
      <3>4. c[j] = b[m]
        BY <1>6, <3>1, <3>3, Zenon
      <3>5. QED
        BY <2>3, <3>1, <3>2, <3>4, Zenon
    <2>4. QED
      BY <2>2, <2>3, Zenon
  <1>8. RemoveAt(s, i) = c
    BY <1>4 DEF RemoveAt, a, b
  <1>9. QED
    BY <1>5, <1>7, <1>8, Zenon

LEMMA RemoveFirstFacts ==
    ASSUME NEW T, NEW q \in Seq(T), NEW x, NoTwice(q)
    PROVE  /\ RemoveFirst(q, x) \in Seq(T)
           /\ NoTwice(RemoveFirst(q, x))
           /\ Elements(RemoveFirst(q, x)) = Elements(q) \ {x}
  <1>1. PICK n \in Nat : n = Len(q) /\ DOMAIN q = 1 .. n
    OBVIOUS
  <1>2. CASE ~\E i \in 1 .. n : q[i] = x
    <2>1. RemoveFirst(q, x) = q
      BY <1>1, <1>2 DEF RemoveFirst
    <2>2. QED
      BY <1>1, <1>2, <2>1 DEF Elements
  <1>3. CASE \E i \in 1 .. n : q[i] = x
    <2>1. PICK I : I = {i \in 1 .. n : q[i] = x}
      OBVIOUS
    <2>2. I \in SUBSET Nat /\ I # {}
      BY <1>1, <1>3, <2>1
    <2>3. PICK i : i = Min(I)
      OBVIOUS
    <2>4. i \in 1 .. n /\ q[i] = x
      BY <2>1, <2>2, <2>3, MinIsMember
    <2>5. RemoveFirst(q, x) = RemoveAt(q, i)
      BY <1>1, <1>3, <2>1, <2>2, <2>3 DEF RemoveFirst, SelectInSeq
    <2>6. PICK t : t = RemoveAt(q, i)
      OBVIOUS
    <2>7. t \in Seq(T) /\ DOMAIN t = 1 .. n - 1
      BY <1>1, <2>4, <2>6, RemoveAtFacts
    <2>8. \A j \in 1 .. n - 1 : t[j] = IF j < i THEN q[j] ELSE q[j + 1]
      BY <1>1, <2>4, <2>6, RemoveAtFacts
    <2>9. \A j, k \in 1 .. n : q[j] = q[k] => j = k
      BY <1>1 DEF NoTwice
    <2>10. NoTwice(t)
      BY SMTT(40), <1>1, <2>4, <2>7, <2>8, <2>9 DEF NoTwice
    <2>11. ASSUME NEW y \in Elements(t) PROVE y \in Elements(q) \ {x}
      <3>1. PICK j \in 1 .. n - 1 : y = t[j]
        BY <2>7, <2>11 DEF Elements
      <3>2. PICK k \in 1 .. n : k # i /\ y = q[k]
        BY SMTT(40), <1>1, <2>4, <2>8, <3>1
      <3>3. QED
        BY <1>1, <2>4, <2>9, <3>2 DEF Elements
    <2>12. ASSUME NEW y \in Elements(q) \ {x} PROVE y \in Elements(t)
      <3>1. PICK k \in 1 .. n : y = q[k] /\ k # i
        BY <1>1, <2>4, <2>12 DEF Elements
      <3>2. PICK j \in 1 .. n - 1 : t[j] = q[k]
        <4>1. CASE k < i
          BY <1>1, <2>4, <2>8, <3>1, <4>1
        <4>2. CASE k > i
          <5>1. k - 1 \in 1 .. n - 1 /\ ~(k - 1 < i) /\ (k - 1) + 1 = k
            BY <1>1, <2>4, <3>1, <4>2
          <5>2. QED
            BY <2>8, <5>1
        <4>3. QED
          BY <1>1, <2>4, <3>1, <4>1, <4>2
      <3>3. QED
        BY <2>7, <3>1, <3>2 DEF Elements
    <2>13. QED
      BY <2>5, <2>6, <2>7, <2>10, <2>11, <2>12
  <1>4. QED
    BY <1>2, <1>3

LEMMA PushFacts ==
    ASSUME NEW T, NEW q \in Seq(T), NEW x \in T, NoTwice(q), x \notin Elements(q)
    PROVE  /\ <<x>> \o q \in Seq(T)
           /\ NoTwice(<<x>> \o q)
           /\ Elements(<<x>> \o q) = Elements(q) \cup {x}
  <1>1. PICK t : t = <<x>> \o q
    OBVIOUS
  <1>2. PICK n \in Nat : n = Len(q) /\ DOMAIN q = 1 .. n
    OBVIOUS
  <1>3. t \in Seq(T) /\ DOMAIN t = 1 .. n + 1 /\ t[1] = x
    BY <1>1, <1>2
  <1>4. \A j \in 2 .. n + 1 : t[j] = q[j - 1]
    BY <1>1, <1>2
  <1>5. \A j, k \in 1 .. n : q[j] = q[k] => j = k
    BY <1>2 DEF NoTwice
  <1>6. \A j \in 1 .. n : q[j] # x
    BY <1>2 DEF Elements
  <1>7. NoTwice(t)
    <2> SUFFICES ASSUME NEW j \in 1 .. n + 1, NEW k \in 1 .. n + 1, t[j] = t[k]
                 PROVE  j = k
      BY <1>3 DEF NoTwice
    <2>1. CASE j = 1 \/ k = 1
      BY <1>2, <1>3, <1>4, <1>6, <2>1
    <2>2. CASE j # 1 /\ k # 1
      <3>1. j - 1 \in 1 .. n /\ k - 1 \in 1 .. n
        BY <1>2, <2>2
      <3>2. t[j] = q[j - 1] /\ t[k] = q[k - 1]
        BY <1>2, <1>4, <2>2
      <3>3. j - 1 = k - 1
        BY <1>5, <3>1, <3>2
      <3>4. QED
        BY <1>2, <3>3
    <2>3. QED
      BY <2>1, <2>2
  <1>8. ASSUME NEW y \in Elements(t) PROVE y \in Elements(q) \cup {x}
    <2>1. PICK j \in 1 .. n + 1 : y = t[j]
      BY <1>3, <1>8 DEF Elements
    <2>2. CASE j = 1
      BY <1>3, <2>1, <2>2
    <2>3. CASE j # 1
      <3>1. t[j] = q[j - 1] /\ j - 1 \in 1 .. n
        BY <1>2, <1>4, <2>3
      <3>2. QED
        BY <1>2, <2>1, <3>1 DEF Elements
    <2>4. QED
      BY <2>2, <2>3
  <1>9. ASSUME NEW y \in Elements(q) PROVE y \in Elements(t)
    <2>1. PICK k \in 1 .. n : y = q[k]
      BY <1>2, <1>9 DEF Elements
    <2>2. k + 1 \in 2 .. n + 1 /\ (k + 1) - 1 = k
      BY <1>2
    <2>3. t[k + 1] = q[k] /\ k + 1 \in DOMAIN t
      BY <1>2, <1>3, <1>4, <2>2
    <2>4. QED
      BY <2>1, <2>3 DEF Elements
  <1>10. x \in Elements(t)
    <2>1. 1 \in DOMAIN t
      BY <1>2, <1>3
    <2>2. QED
      BY <1>3, <2>1 DEF Elements
  <1>11. QED
    BY <1>1, <1>3, <1>7, <1>8, <1>9, <1>10

(* ngx_queue_remove() and ngx_queue_insert_head() of one element. *)
LEMMA ToHeadFacts ==
    ASSUME NEW T, NEW q \in Seq(T), NEW x \in T, NoTwice(q)
    PROVE  /\ <<x>> \o RemoveFirst(q, x) \in Seq(T)
           /\ NoTwice(<<x>> \o RemoveFirst(q, x))
           /\ Elements(<<x>> \o RemoveFirst(q, x)) = Elements(q) \cup {x}
  <1>1. PICK t : t = RemoveFirst(q, x)
    OBVIOUS
  <1>2. t \in Seq(T) /\ NoTwice(t) /\ Elements(t) = Elements(q) \ {x}
    BY <1>1, RemoveFirstFacts
  <1>3. x \notin Elements(t)
    BY <1>2
  <1>4. /\ <<x>> \o t \in Seq(T) /\ NoTwice(<<x>> \o t)
        /\ Elements(<<x>> \o t) = Elements(t) \cup {x}
    BY <1>2, <1>3, PushFacts
  <1>5. QED
    BY <1>1, <1>2, <1>4

(* The elements behind place j come in front of the others. *)
LEMMA RotatedFacts ==
    ASSUME NEW T, NEW q \in Seq(T), NEW j \in 0 .. Len(q), NoTwice(q)
    PROVE  /\ SubSeq(q, j + 1, Len(q)) \o SubSeq(q, 1, j) \in Seq(T)
           /\ NoTwice(SubSeq(q, j + 1, Len(q)) \o SubSeq(q, 1, j))
           /\ Elements(SubSeq(q, j + 1, Len(q)) \o SubSeq(q, 1, j)) = Elements(q)
  <1>1. PICK n \in Nat : n = Len(q) /\ DOMAIN q = 1 .. n
    OBVIOUS
  <1>2. j \in 0 .. n
    BY <1>1
  <1>3. PICK a : a = SubSeq(q, j + 1, n)
    OBVIOUS
  <1>4. a \in Seq(T) /\ Len(a) = n - j /\ \A k \in 1 .. n - j : a[k] = q[k + j]
    BY <1>1, <1>2, <1>3
  <1>5. PICK b : b = SubSeq(q, 1, j)
    OBVIOUS
  <1>6. b \in Seq(T) /\ Len(b) = j /\ \A k \in 1 .. j : b[k] = q[k]
    BY <1>1, <1>2, <1>5
  <1>7. PICK t : t = a \o b
    OBVIOUS
  <1>8. t \in Seq(T) /\ DOMAIN t = 1 .. n
    BY <1>1, <1>2, <1>4, <1>6, <1>7
  <1>9. \A k \in 1 .. n : t[k] = IF k <= n - j THEN q[k + j] ELSE q[k - (n - j)]
    BY <1>1, <1>2, <1>4, <1>6, <1>7
  <1>10. \A k, l \in 1 .. n : q[k] = q[l] => k = l
    BY <1>1 DEF NoTwice
  <1>11. NoTwice(t)
    <2> SUFFICES ASSUME NEW k \in 1 .. n, NEW l \in 1 .. n, t[k] = t[l]
                 PROVE  k = l
      BY <1>8 DEF NoTwice
    <2> DEFINE from(m) == IF m <= n - j THEN m + j ELSE m - (n - j)
    <2>1. from(k) \in 1 .. n /\ from(l) \in 1 .. n
      BY <1>1, <1>2
    <2>2. t[k] = q[from(k)] /\ t[l] = q[from(l)]
      BY <1>1, <1>2, <1>9
    <2>3. from(k) = from(l)
      BY <1>10, <2>1, <2>2
    <2>4. QED
      BY <1>1, <1>2, <2>3
  <1>12. ASSUME NEW y \in Elements(t) PROVE y \in Elements(q)
    <2>1. PICK k \in 1 .. n : y = t[k]
      BY <1>8, <1>12 DEF Elements
    <2>2. PICK l \in 1 .. n : y = q[l]
      <3>1. CASE k <= n - j
        <4>1. k + j \in 1 .. n /\ t[k] = q[k + j]
          BY <1>1, <1>2, <1>9, <3>1
        <4>2. QED
          BY <2>1, <4>1
      <3>2. CASE ~(k <= n - j)
        <4>1. k - (n - j) \in 1 .. n /\ t[k] = q[k - (n - j)]
          BY <1>1, <1>2, <1>9, <3>2
        <4>2. QED
          BY <2>1, <4>1
      <3>3. QED
        BY <3>1, <3>2
    <2>3. QED
      BY <1>1, <2>2 DEF Elements
  <1>13. ASSUME NEW y \in Elements(q) PROVE y \in Elements(t)
    <2>1. PICK l \in 1 .. n : y = q[l]
      BY <1>1, <1>13 DEF Elements
    <2>2. PICK k \in 1 .. n : t[k] = q[l]
      <3>1. CASE l > j
        <4>1. l - j \in 1 .. n /\ l - j <= n - j /\ (l - j) + j = l
          BY <1>1, <1>2, <3>1
        <4>2. QED
          BY <1>9, <4>1
      <3>2. CASE l <= j
        <4>1. l + (n - j) \in 1 .. n /\ ~(l + (n - j) <= n - j)
              /\ (l + (n - j)) - (n - j) = l
          BY <1>1, <1>2, <3>2
        <4>2. QED
          BY <1>9, <4>1
      <3>3. QED
        BY <1>1, <1>2, <3>1, <3>2
    <2>3. QED
      BY <1>8, <2>1, <2>2 DEF Elements
  <1>14. QED
    BY <1>1, <1>3, <1>5, <1>7, <1>8, <1>11, <1>12, <1>13

-----------------------------------------------------------------------------
(***************************************************************************)
(* The inductive invariant.  Where a request is decides whether it has a   *)
(* node, whether it may be deleting another one, and whether it may be the *)
(* updater of its node.                                                    *)
(***************************************************************************)
Within == {"file", "read", "judge", "lock", "waiting", "fetch", "switch",
           "rename", "store", "unstored", "free"}

PlacedAt(r) ==
    /\ at[r] \in {"expel", "again", "done"} => req[r].node = None
    /\ at[r] \in Within => req[r].node # None
    /\ at[r] # "again" => del[r] = Nowhere
    /\ req[r].switched => at[r] \in {"open", "expel", "again", "rename", "store",
                                     "unstored", "free"}
    /\ req[r].updating => \/ req[r].switched
                          \/ at[r] \in {"fetch", "switch", "rename", "store",
                                        "unstored", "free"}

Placed == \A r \in Requests : PlacedAt(r)

(* The requests and the deletions that have place i. *)
Users(i) == {r \in Requests : req[r].node = i}
Dels(i) == {p \in Deleters : del[p].node = i}

CountRight(i) ==
    node[i].count = lost[i] + Cardinality(Users(i)) + Cardinality(Dels(i))

KeysMatch(i) == \A r \in Users(i) : req[r].key = node[i].key

(* At most one process deletes a node, and the node says so. *)
DeletingRight(i) ==
    /\ node[i].deleting => lost[i] > 0 \/ Dels(i) # {}
    /\ Dels(i) # {} => node[i].deleting
    /\ \A p, q \in Dels(i) : p = q

SizeRight(i) == ~node[i].exists => node[i].size = 0

HasOwner(i) ==
    node[i].updating =>
        \/ lost[i] > 0
        \/ \E r \in Users(i) : req[r].updating /\ req[r].lockGen = node[i].lockGen

Sound(i) ==
    CountRight(i) /\ KeysMatch(i) /\ DeletingRight(i) /\ SizeRight(i) /\ HasOwner(i)

(* Nobody has a place that is free, and no process died with it. *)
Vacant(i) == lost[i] = 0 /\ Users(i) = {} /\ Dels(i) = {}

Place(i) == IF i \in Present THEN Sound(i) ELSE Vacant(i)

Places == \A i \in Slots : Place(i)

QueueRight == NoTwice(queue) /\ Elements(queue) \subseteq Present

IInv == TypeOK /\ Placed /\ Places /\ QueueRight /\ SizeIsFiles

-----------------------------------------------------------------------------
LEMMA Constants ==
    /\ IsFiniteSet(Requests) /\ IsFiniteSet(Deleters) /\ IsFiniteSet(Slots)
    /\ Slots \subseteq Nat /\ None \notin Slots
    /\ Requests \subseteq Deleters /\ Manager \in Deleters /\ Manager \notin Requests
    /\ KeyOf \in [Requests -> Keys] /\ Variant \in [Keys -> Keys]
    /\ MinUses \in [Requests -> Nat \ {0}] /\ MaxNodes \in Nat \ {0}
    /\ MaxCrashes \in Nat /\ Stored \subseteq Keys
  <1>1. IsFiniteSet(Deleters)
    BY FileCacheAssumption, FS_AddElement DEF Deleters
  <1>2. IsFiniteSet(Slots)
    <2>1. 1 \in Int /\ MaxNodes \in Int
      BY FileCacheAssumption
    <2>2. QED
      BY <2>1, FS_Interval DEF Slots
  <1>3. Slots \subseteq Nat /\ None \notin Slots
    BY FileCacheAssumption DEF Slots, None
  <1>4. QED
    BY <1>1, <1>2, <1>3, FileCacheAssumption DEF Deleters

LEMMA UsersAreFinite ==
    ASSUME NEW i
    PROVE  /\ IsFiniteSet(Users(i)) /\ IsFiniteSet(Dels(i))
           /\ Cardinality(Users(i)) \in Nat /\ Cardinality(Dels(i)) \in Nat
           /\ IsFiniteSet(Users(i)') /\ IsFiniteSet(Dels(i)')
           /\ Cardinality(Users(i)') \in Nat /\ Cardinality(Dels(i)') \in Nat
  <1>1. /\ Users(i) \subseteq Requests /\ Users(i)' \subseteq Requests
        /\ Dels(i) \subseteq Deleters /\ Dels(i)' \subseteq Deleters
    BY DEF Users, Dels
  <1>2. /\ IsFiniteSet(Users(i)) /\ IsFiniteSet(Dels(i))
        /\ IsFiniteSet(Users(i)') /\ IsFiniteSet(Dels(i)')
    BY <1>1, Constants, FS_Subset
  <1>3. QED
    BY <1>2, FS_CardinalityType

(* A node that a request or a deletion has is in the tree and is counted. *)
LEMMA HeldNodes ==
    ASSUME TypeOK, Places
    PROVE  /\ \A r \in Requests : req[r].node # None =>
                  /\ req[r].node \in Present
                  /\ node[req[r].node].count > 0
           /\ \A p \in Deleters : del[p] # Nowhere =>
                  /\ del[p].node \in Present
                  /\ node[del[p].node].count > 0
  <1>1. ASSUME NEW r \in Requests, req[r].node # None
        PROVE  req[r].node \in Present /\ node[req[r].node].count > 0
    <2>1. PICK i \in Slots : i = req[r].node
      BY <1>1 DEF TypeOK, ReqType
    <2>2. r \in Users(i) /\ Place(i)
      BY <2>1 DEF Users, Places
    <2>3. i \in Present /\ CountRight(i)
      BY <2>2 DEF Place, Vacant, Sound
    <2>4. Cardinality(Users(i)) # 0
      BY <2>2, UsersAreFinite, FS_EmptySet
    <2>5. lost[i] \in Nat /\ node[i].count \in Nat
      BY <2>3 DEF TypeOK, NodeType
    <2>6. node[i].count > 0
      BY <2>3, <2>4, <2>5, UsersAreFinite DEF CountRight
    <2>7. QED
      BY <2>1, <2>3, <2>6
  <1>2. ASSUME NEW p \in Deleters, del[p] # Nowhere
        PROVE  del[p].node \in Present /\ node[del[p].node].count > 0
    <2>1. PICK i \in Slots : i = del[p].node
      BY <1>2 DEF TypeOK
    <2>2. p \in Dels(i) /\ Place(i)
      BY <2>1 DEF Dels, Places
    <2>3. i \in Present /\ CountRight(i)
      BY <2>2 DEF Place, Vacant, Sound
    <2>4. Cardinality(Dels(i)) # 0
      BY <2>2, UsersAreFinite, FS_EmptySet
    <2>5. lost[i] \in Nat /\ node[i].count \in Nat
      BY <2>3 DEF TypeOK, NodeType
    <2>6. node[i].count > 0
      BY <2>3, <2>4, <2>5, UsersAreFinite DEF CountRight
    <2>7. QED
      BY <2>1, <2>3, <2>6
  <1>3. QED
    BY <1>1, <1>2

(* A place that a step does not touch. *)
LEMMA PlaceKept ==
    ASSUME NEW i \in Slots, Place(i),
           i \in DOMAIN node' <=> i \in DOMAIN node,
           i \in DOMAIN node => node'[i] = node[i],
           lost'[i] = lost[i], Users(i)' = Users(i), Dels(i)' = Dels(i),
           \A r \in Users(i) : /\ req'[r].key = req[r].key
                               /\ req'[r].updating = req[r].updating
                               /\ req'[r].lockGen = req[r].lockGen
    PROVE  Place(i)'
  <1>1. CASE i \notin DOMAIN node
    BY <1>1 DEF Place, Present, Vacant
  <1>2. CASE i \in DOMAIN node
    <2>1. Sound(i)
      BY <1>2 DEF Place, Present
    <2>2. CountRight(i)' /\ KeysMatch(i)'
      BY <1>2, <2>1 DEF Sound, CountRight, KeysMatch
    <2>3. DeletingRight(i)' /\ SizeRight(i)'
      BY <1>2, <2>1 DEF Sound, DeletingRight, SizeRight
    <2>4. HasOwner(i)'
      BY <1>2, <2>1 DEF Sound, HasOwner
    <2>5. QED
      BY <1>2, <2>2, <2>3, <2>4 DEF Place, Present, Sound
  <1>3. QED
    BY <1>1, <1>2

(* The places that a step of request r at node i does not touch. *)
LEMMA OtherPlaces ==
    ASSUME Places, NEW r \in Requests, NEW i,
           \A q \in Requests \ {r} : req'[q] = req[q],
           req[r].node \in {i, None}, req'[r].node \in {i, None},
           \A j \in Slots \ {i} :
               /\ j \in DOMAIN node' <=> j \in DOMAIN node
               /\ j \in DOMAIN node => node'[j] = node[j]
               /\ Dels(j)' = Dels(j) /\ lost'[j] = lost[j]
    PROVE  \A j \in Slots \ {i} : Place(j)'
  <1> SUFFICES ASSUME NEW j \in Slots, j # i PROVE Place(j)'
    OBVIOUS
  <1>1. j # None /\ Place(j)
    BY Constants DEF Places
  <1>2. Users(j)' = Users(j) /\ r \notin Users(j)
    BY <1>1 DEF Users
  <1>3. \A q \in Users(j) : req'[q] = req[q]
    BY <1>2 DEF Users
  <1>4. QED
    BY <1>1, <1>2, <1>3, PlaceKept

(***************************************************************************)
(* How steps change the places.  First, steps that leave them alone.       *)
(***************************************************************************)
SameNode(q) ==
    /\ req'[q].node = req[q].node
    /\ req[q].node # None => /\ req'[q].key = req[q].key
                             /\ req'[q].updating = req[q].updating
                             /\ req'[q].lockGen = req[q].lockGen

LEMMA QuietKeepsPlaces ==
    ASSUME Places, UNCHANGED <<node, lost>>,
           \A q \in Requests : SameNode(q),
           \A p \in Deleters : del'[p].node = del[p].node
    PROVE  Places'
  <1> SUFFICES ASSUME NEW i \in Slots PROVE Place(i)'
    BY DEF Places
  <1>1. Place(i) /\ i # None
    BY Constants DEF Places
  <1>2. Users(i)' = Users(i) /\ Dels(i)' = Dels(i)
    BY DEF Users, Dels, SameNode
  <1>3. \A q \in Users(i) : /\ req'[q].key = req[q].key
                            /\ req'[q].updating = req[q].updating
                            /\ req'[q].lockGen = req[q].lockGen
    BY <1>1 DEF Users, SameNode
  <1>4. QED
    BY <1>1, <1>2, <1>3, PlaceKept

(* What a step of r does to the others if it only changes node i. *)
OnlyAt(r, i) ==
    /\ \A q \in Requests \ {r} : req'[q] = req[q]
    /\ \A j \in Slots \ {i} : /\ j \in DOMAIN node' <=> j \in DOMAIN node
                              /\ j \in DOMAIN node => node'[j] = node[j]
    /\ UNCHANGED <<del, lost>>

(* Request r gives its node i back: reopen(), update_variant(), update(),  *)
(* free().  If it is the updater, the mark goes with it.                   *)
LEMMA ReleaseKeepsPlaces ==
    ASSUME TypeOK, Places, NEW r \in Requests, NEW i, i = req[r].node, i # None,
           OnlyAt(r, i), req'[r].node = None, i \in DOMAIN node',
           node'[i].count = node[i].count - 1,
           node'[i].key = node[i].key,
           node'[i].deleting = node[i].deleting,
           node'[i].lockGen = node[i].lockGen,
           ~node'[i].exists => node'[i].size = 0,
           node'[i].updating =>
               /\ node[i].updating
               /\ ~(req[r].updating /\ req[r].lockGen = node[i].lockGen)
    PROVE  Places'
  <1>1. i \in Present /\ i \in Slots /\ Sound(i) /\ node[i].count > 0
    BY HeldNodes DEF TypeOK, Places, Place
  <1>2. \A j \in Slots : Dels(j)' = Dels(j) /\ lost'[j] = lost[j]
    BY DEF OnlyAt, Dels
  <1>3. \A j \in Slots \ {i} : Place(j)'
    BY <1>2, OtherPlaces DEF OnlyAt
  <1>4. Users(i)' = Users(i) \ {r} /\ r \in Users(i)
    BY <1>1 DEF Users, OnlyAt
  <1>5. \A q \in Users(i)' : q \in Users(i) /\ req'[q] = req[q]
    BY <1>4 DEF OnlyAt, Users
  <1>6. CountRight(i)'
    <2>1. Cardinality(Users(i)') = Cardinality(Users(i)) - 1
      BY <1>4, UsersAreFinite, FS_RemoveElement
    <2>2. node[i].count = lost[i] + Cardinality(Users(i)) + Cardinality(Dels(i))
      BY <1>1 DEF Sound, CountRight
    <2>3. lost[i] \in Nat /\ node[i].count \in Nat
      BY <1>1 DEF TypeOK, NodeType
    <2>4. Cardinality(Dels(i)') = Cardinality(Dels(i)) /\ lost'[i] = lost[i]
      BY <1>1, <1>2
    <2>5. node'[i].count = lost'[i] + Cardinality(Users(i)') + Cardinality(Dels(i)')
      BY <2>1, <2>2, <2>3, <2>4, UsersAreFinite
    <2>6. QED
      BY <2>5 DEF CountRight
  <1>7. KeysMatch(i)'
    BY <1>1, <1>5 DEF Sound, KeysMatch
  <1>8. DeletingRight(i)'
    BY <1>1, <1>2 DEF Sound, DeletingRight
  <1>9. SizeRight(i)'
    BY DEF SizeRight
  <1>10. HasOwner(i)'
    BY <1>1, <1>2, <1>4, <1>5 DEF Sound, HasOwner
  <1>11. Place(i)'
    BY <1>6, <1>7, <1>8, <1>9, <1>10 DEF Sound, Place, Present
  <1>12. QED
    BY <1>3, <1>11 DEF Places

(* The last request of a node without a file frees it. *)
LEMMA RemovalKeepsPlaces ==
    ASSUME TypeOK, Places, NEW r \in Requests, NEW i, i = req[r].node, i # None,
           OnlyAt(r, i), req'[r].node = None, i \notin DOMAIN node',
           node[i].count = 1
    PROVE  Places'
  <1>1. i \in Present /\ i \in Slots /\ Sound(i)
    BY HeldNodes DEF TypeOK, Places, Place
  <1>2. \A j \in Slots : Dels(j)' = Dels(j) /\ lost'[j] = lost[j]
    BY DEF OnlyAt, Dels
  <1>3. \A j \in Slots \ {i} : Place(j)'
    BY <1>2, OtherPlaces DEF OnlyAt
  <1>4. Users(i)' = Users(i) \ {r} /\ r \in Users(i)
    BY <1>1 DEF Users, OnlyAt
  <1>5. Cardinality(Users(i)') = Cardinality(Users(i)) - 1
    BY <1>4, UsersAreFinite, FS_RemoveElement
  <1>6. 1 = lost[i] + Cardinality(Users(i)) + Cardinality(Dels(i))
    BY <1>1 DEF Sound, CountRight
  <1>7. lost[i] \in Nat
    BY <1>1 DEF TypeOK
  <1>8. lost[i] = 0 /\ Cardinality(Users(i)') = 0 /\ Cardinality(Dels(i)) = 0
    BY <1>5, <1>6, <1>7, UsersAreFinite
  <1>9. Users(i)' = {} /\ Dels(i) = {}
    BY <1>8, UsersAreFinite, FS_EmptySet
  <1>10. Place(i)'
    BY <1>1, <1>2, <1>8, <1>9 DEF Place, Present, Vacant
  <1>11. QED
    BY <1>3, <1>10 DEF Places

(* Request r, which has no node, comes to node i, counted for it. *)
LEMMA EnterKeepsPlaces ==
    ASSUME TypeOK, Places, NEW r \in Requests, NEW i \in Slots, req[r].node = None,
           OnlyAt(r, i), req'[r].node = i, i \in DOMAIN node',
           req'[r].key = node'[i].key,
           ~node'[i].exists => node'[i].size = 0,
           i \in Present =>
               /\ node'[i].count = node[i].count + 1
               /\ node'[i].key = node[i].key
               /\ node'[i].deleting = node[i].deleting
               /\ node'[i].updating = node[i].updating
               /\ node'[i].lockGen = node[i].lockGen,
           i \notin Present =>
               node'[i].count = 1 /\ ~node'[i].deleting /\ ~node'[i].updating
    PROVE  Places'
  <1>1. \A j \in Slots : Dels(j)' = Dels(j) /\ lost'[j] = lost[j]
    BY DEF OnlyAt, Dels
  <1>2. \A j \in Slots \ {i} : Place(j)'
    BY <1>1, OtherPlaces DEF OnlyAt
  <1>3. i # None /\ Place(i)
    BY Constants DEF Places
  <1>4. Users(i)' = Users(i) \cup {r} /\ r \notin Users(i)
    BY <1>3 DEF Users, OnlyAt
  <1>5. \A q \in Users(i) : req'[q] = req[q]
    BY <1>4 DEF OnlyAt, Users
  <1>6. Cardinality(Users(i)') = Cardinality(Users(i)) + 1
    BY <1>4, UsersAreFinite, FS_AddElement
  <1>7. lost[i] \in Nat /\ Dels(i)' = Dels(i) /\ lost'[i] = lost[i]
    BY <1>1 DEF TypeOK
  <1>8. SizeRight(i)'
    BY DEF SizeRight
  <1>9. CASE i \in Present
    <2>1. Sound(i) /\ node[i].count \in Nat
      BY <1>3, <1>9 DEF Place, TypeOK, NodeType
    <2>2. node[i].count = lost[i] + Cardinality(Users(i)) + Cardinality(Dels(i))
      BY <2>1 DEF Sound, CountRight
    <2>3. node'[i].count = lost'[i] + Cardinality(Users(i)') + Cardinality(Dels(i)')
      BY <1>6, <1>7, <1>9, <2>2, UsersAreFinite
    <2>4. CountRight(i)'
      BY <2>3 DEF CountRight
    <2>5. KeysMatch(i)'
      BY <1>4, <1>5, <1>9, <2>1 DEF Sound, KeysMatch
    <2>6. DeletingRight(i)'
      BY <1>7, <1>9, <2>1 DEF Sound, DeletingRight
    <2>7. HasOwner(i)'
      BY <1>4, <1>5, <1>7, <1>9, <2>1 DEF Sound, HasOwner
    <2>8. QED
      BY <1>2, <1>8, <2>4, <2>5, <2>6, <2>7 DEF Sound, Place, Present, Places
  <1>10. CASE i \notin Present
    <2>1. lost[i] = 0 /\ Users(i) = {} /\ Dels(i) = {}
      BY <1>3, <1>10 DEF Place, Vacant
    <2>2. Cardinality(Users(i)) = 0 /\ Cardinality(Dels(i)') = 0
      BY <1>7, <2>1, FS_EmptySet
    <2>3. node'[i].count = lost'[i] + Cardinality(Users(i)') + Cardinality(Dels(i)')
      BY <1>6, <1>7, <1>10, <2>1, <2>2
    <2>4. CountRight(i)'
      BY <2>3 DEF CountRight
    <2>5. KeysMatch(i)' /\ DeletingRight(i)' /\ HasOwner(i)'
      BY <1>4, <1>7, <1>10, <2>1 DEF KeysMatch, DeletingRight, HasOwner
    <2>6. QED
      BY <1>2, <1>8, <2>4, <2>5 DEF Sound, Place, Present, Places
  <1>11. QED
    BY <1>9, <1>10

(* Node i changes, and requests keep their nodes. *)
LEMMA EditKeepsPlaces ==
    ASSUME TypeOK, Places, NEW i \in Present,
           \A q \in Requests : /\ req'[q].node = req[q].node
                               /\ req[q].node # None => req'[q].key = req[q].key
                               /\ req[q].node # i => SameNode(q),
           DOMAIN node' = DOMAIN node,
           \A j \in Present \ {i} : node'[j] = node[j],
           UNCHANGED <<del, lost>>,
           node'[i].count = node[i].count,
           node'[i].key = node[i].key,
           node'[i].deleting = node[i].deleting,
           ~node'[i].exists => node'[i].size = 0,
           HasOwner(i)'
    PROVE  Places'
  <1>1. i \in Slots /\ Sound(i)
    BY DEF TypeOK, Places, Place
  <1>2. \A j \in Slots : /\ Dels(j)' = Dels(j) /\ lost'[j] = lost[j]
                         /\ Users(j)' = Users(j)
    BY DEF Dels, Users
  <1>3. ASSUME NEW j \in Slots, j # i PROVE Place(j)'
    <2>1. Place(j) /\ j # None
      BY <1>3, Constants DEF Places
    <2>2. \A q \in Users(j) : /\ req'[q].key = req[q].key
                              /\ req'[q].updating = req[q].updating
                              /\ req'[q].lockGen = req[q].lockGen
      BY <1>3, <2>1 DEF Users, SameNode
    <2>3. j \in DOMAIN node => node'[j] = node[j]
      BY <1>3 DEF Present
    <2>4. QED
      BY <1>2, <1>3, <2>1, <2>2, <2>3, PlaceKept
  <1>4. CountRight(i)'
    BY <1>1, <1>2 DEF Sound, CountRight
  <1>5. KeysMatch(i)'
    <2>1. \A q \in Users(i) : req'[q].key = req[q].key
      BY <1>1, Constants DEF Users
    <2>2. QED
      BY <1>1, <1>2, <2>1 DEF Sound, KeysMatch
  <1>6. DeletingRight(i)' /\ SizeRight(i)'
    BY <1>1, <1>2 DEF Sound, DeletingRight, SizeRight
  <1>7. Place(i)'
    BY <1>4, <1>5, <1>6 DEF Sound, Place, Present
  <1>8. QED
    BY <1>3, <1>7 DEF Places

(* The places that a deletion of node i by p does not touch. *)
LEMMA OtherPlacesDeleting ==
    ASSUME Places, UNCHANGED <<req, lost>>, NEW p \in Deleters, NEW i,
           \A q \in Deleters \ {p} : del'[q] = del[q],
           del[p].node \in {i, None}, del'[p].node \in {i, None},
           \A j \in Slots \ {i} :
               /\ j \in DOMAIN node' <=> j \in DOMAIN node
               /\ j \in DOMAIN node => node'[j] = node[j]
    PROVE  \A j \in Slots \ {i} : Place(j)'
  <1> SUFFICES ASSUME NEW j \in Slots, j # i PROVE Place(j)'
    OBVIOUS
  <1>1. j # None /\ Place(j)
    BY Constants DEF Places
  <1>2. Users(j)' = Users(j)
    BY DEF Users
  <1>3. Dels(j)' = Dels(j)
    BY <1>1 DEF Dels
  <1>4. QED
    BY <1>1, <1>2, <1>3, PlaceKept

(* ngx_http_file_cache_delete(), up to the unlock. *)
LEMMA DeleteKeepsPlaces ==
    ASSUME TypeOK, Places, UNCHANGED <<req, lost>>, NEW p \in Deleters,
           del[p] = Nowhere, NEW i \in Present, node[i].count = 0,
           \A q \in Deleters \ {p} : del'[q] = del[q],
           del'[p].node = i,
           DOMAIN node' = DOMAIN node,
           \A j \in Present \ {i} : node'[j] = node[j],
           node'[i].count = node[i].count + 1, node'[i].deleting,
           node'[i].key = node[i].key,
           node'[i].updating = node[i].updating,
           node'[i].lockGen = node[i].lockGen,
           node'[i].exists = node[i].exists, node'[i].size = node[i].size
    PROVE  Places'
  <1>1. i \in Slots /\ Sound(i) /\ del[p].node = None
    BY DEF TypeOK, Places, Place, Nowhere
  <1>2. \A j \in Slots \ {i} : Place(j)'
    BY <1>1, OtherPlacesDeleting DEF Present
  <1>3. Users(i)' = Users(i)
    BY DEF Users
  <1>4. Dels(i)' = Dels(i) \cup {p} /\ p \notin Dels(i)
    BY <1>1, Constants DEF Dels
  <1>5. Cardinality(Dels(i)') = Cardinality(Dels(i)) + 1
    BY ZenonT(60), <1>4, UsersAreFinite, FS_AddElement
  <1>6. lost[i] \in Nat
    BY <1>1 DEF TypeOK
  <1>7. node[i].count = lost[i] + Cardinality(Users(i)) + Cardinality(Dels(i))
    BY <1>1 DEF Sound, CountRight
  <1>8. CountRight(i)'
    <2>1. node'[i].count = lost'[i] + Cardinality(Users(i)') + Cardinality(Dels(i)')
      BY <1>3, <1>5, <1>6, <1>7, UsersAreFinite
    <2>2. QED
      BY <2>1 DEF CountRight
  <1>9. Dels(i) = {}
    <2>1. Cardinality(Dels(i)) = 0
      BY <1>6, <1>7, UsersAreFinite
    <2>2. QED
      BY <2>1, UsersAreFinite, FS_EmptySet
  <1>10. DeletingRight(i)'
    BY <1>4, <1>9 DEF DeletingRight
  <1>11. KeysMatch(i)' /\ SizeRight(i)'
    BY <1>1, <1>3 DEF Sound, KeysMatch, SizeRight
  <1>12. HasOwner(i)'
    BY <1>1, <1>3 DEF Sound, HasOwner
  <1>13. QED
    BY <1>2, <1>8, <1>10, <1>11, <1>12 DEF Sound, Place, Present, Places

(* A node that nobody uses leaves the tree, by p, which may be deleting it. *)
LEMMA DeletedKeepsPlaces ==
    ASSUME TypeOK, Places, UNCHANGED <<req, lost>>, NEW p \in Deleters,
           NEW i \in Present, i \notin DOMAIN node',
           \/ node[i].count = 0 /\ UNCHANGED del
           \/ /\ node[i].count = 1 /\ del[p].node = i /\ del'[p] = Nowhere
              /\ \A q \in Deleters \ {p} : del'[q] = del[q],
           \A j \in Present \ {i} : j \in DOMAIN node' /\ node'[j] = node[j],
           DOMAIN node' \subseteq Present
    PROVE  Places'
  <1>1. i \in Slots /\ Sound(i) /\ lost[i] \in Nat
    BY DEF TypeOK, Places, Place
  <1>2. Users(i)' = Users(i)
    BY DEF Users
  <1>3. node[i].count = lost[i] + Cardinality(Users(i)) + Cardinality(Dels(i))
    BY <1>1 DEF Sound, CountRight
  <1>4. \A j \in Slots \ {i} : /\ j \in DOMAIN node' <=> j \in DOMAIN node
                               /\ j \in DOMAIN node => node'[j] = node[j]
    BY DEF Present
  <1>5. CASE node[i].count = 0 /\ UNCHANGED del
    <2>1. lost[i] = 0 /\ Cardinality(Users(i)) = 0 /\ Cardinality(Dels(i)) = 0
      BY <1>1, <1>3, <1>5, UsersAreFinite
    <2>2. Users(i) = {} /\ Dels(i) = {}
      BY <2>1, UsersAreFinite, FS_EmptySet
    <2>3. Dels(i)' = Dels(i)
      BY <1>5 DEF Dels
    <2>4. Place(i)'
      BY <1>2, <2>1, <2>2, <2>3 DEF Place, Present, Vacant
    <2>5. ASSUME NEW j \in Slots, j # i PROVE Place(j)'
      <3>1. Users(j)' = Users(j) /\ Dels(j)' = Dels(j) /\ Place(j)
        BY <1>5 DEF Users, Dels, Places
      <3>2. QED
        BY <1>4, <2>5, <3>1, PlaceKept
    <2>6. QED
      BY <2>4, <2>5 DEF Places
  <1>6. CASE /\ node[i].count = 1 /\ del[p].node = i /\ del'[p] = Nowhere
             /\ \A q \in Deleters \ {p} : del'[q] = del[q]
    <2>1. Dels(i)' = Dels(i) \ {p} /\ p \in Dels(i)
      BY <1>1, <1>6, Constants DEF Dels, Nowhere
    <2>2. Cardinality(Dels(i)') = Cardinality(Dels(i)) - 1
      BY <2>1, UsersAreFinite, FS_RemoveElement
    <2>3. lost[i] = 0 /\ Cardinality(Users(i)) = 0 /\ Cardinality(Dels(i)') = 0
      BY <1>1, <1>3, <1>6, <2>2, UsersAreFinite
    <2>4. Users(i) = {} /\ Dels(i)' = {}
      BY <2>3, UsersAreFinite, FS_EmptySet
    <2>5. Place(i)'
      BY <1>2, <2>3, <2>4 DEF Place, Present, Vacant
    <2>6. del'[p].node = None
      BY <1>6 DEF Nowhere
    <2>7. \A j \in Slots \ {i} : Place(j)'
      BY <1>4, <1>6, <2>6, OtherPlacesDeleting
    <2>8. QED
      BY <2>5, <2>7 DEF Places
  <1>7. QED
    BY <1>5, <1>6

(* The deletion of a node that is used by now is over. *)
LEMMA DeleteEndKeepsPlaces ==
    ASSUME TypeOK, Places, UNCHANGED <<req, lost>>, NEW p \in Deleters,
           NEW i \in Present, del[p].node = i, del'[p] = Nowhere,
           \A q \in Deleters \ {p} : del'[q] = del[q],
           DOMAIN node' = DOMAIN node,
           \A j \in Present \ {i} : node'[j] = node[j],
           node'[i].count = node[i].count - 1, ~node'[i].deleting,
           node'[i].key = node[i].key,
           node'[i].updating = node[i].updating,
           node'[i].lockGen = node[i].lockGen,
           node'[i].exists = node[i].exists, node'[i].size = node[i].size
    PROVE  Places'
  <1>1. i \in Slots /\ Sound(i) /\ del'[p].node = None
    BY DEF TypeOK, Places, Place, Nowhere
  <1>2. \A j \in Slots \ {i} : Place(j)'
    BY <1>1, OtherPlacesDeleting DEF Present
  <1>3. Users(i)' = Users(i)
    BY DEF Users
  <1>4. Dels(i)' = Dels(i) \ {p} /\ p \in Dels(i)
    BY <1>1, Constants DEF Dels
  <1>5. Cardinality(Dels(i)') = Cardinality(Dels(i)) - 1
    BY <1>4, UsersAreFinite, FS_RemoveElement
  <1>6. lost[i] \in Nat
    BY <1>1 DEF TypeOK
  <1>7. node[i].count = lost[i] + Cardinality(Users(i)) + Cardinality(Dels(i))
    BY <1>1 DEF Sound, CountRight
  <1>8. CountRight(i)'
    <2>1. node'[i].count = lost'[i] + Cardinality(Users(i)') + Cardinality(Dels(i)')
      BY <1>3, <1>5, <1>6, <1>7, UsersAreFinite
    <2>2. QED
      BY <2>1 DEF CountRight
  <1>9. Dels(i)' = {}
    BY <1>1, <1>4 DEF Sound, DeletingRight
  <1>10. DeletingRight(i)'
    BY <1>9 DEF DeletingRight
  <1>11. KeysMatch(i)' /\ SizeRight(i)'
    BY <1>1, <1>3 DEF Sound, KeysMatch, SizeRight
  <1>12. HasOwner(i)'
    BY <1>1, <1>3 DEF Sound, HasOwner
  <1>13. QED
    BY <1>2, <1>8, <1>10, <1>11, <1>12 DEF Sound, Place, Present, Places

(* ngx_http_file_cache_add(): the loader makes a node that nobody has yet. *)
LEMMA AddKeepsPlaces ==
    ASSUME TypeOK, Places, UNCHANGED <<req, del, lost>>,
           NEW i \in Slots, i \notin Present,
           DOMAIN node' = Present \cup {i},
           \A j \in Present : node'[j] = node[j],
           node'[i].count = 0, ~node'[i].deleting, ~node'[i].updating,
           node'[i].exists
    PROVE  Places'
  <1>1. \A j \in Slots : Users(j)' = Users(j) /\ Dels(j)' = Dels(j) /\ Place(j)
    BY DEF Users, Dels, Places
  <1>2. ASSUME NEW j \in Slots, j # i PROVE Place(j)'
    <2>1. /\ j \in DOMAIN node' <=> j \in DOMAIN node
          /\ j \in DOMAIN node => node'[j] = node[j]
      BY <1>2 DEF Present
    <2>2. QED
      BY <1>1, <2>1, PlaceKept
  <1>3. lost[i] = 0 /\ Users(i) = {} /\ Dels(i) = {}
    BY <1>1 DEF Place, Vacant
  <1>4. CountRight(i)'
    BY <1>1, <1>3, FS_EmptySet DEF CountRight
  <1>5. KeysMatch(i)' /\ DeletingRight(i)' /\ SizeRight(i)' /\ HasOwner(i)'
    BY <1>1, <1>3 DEF KeysMatch, DeletingRight, SizeRight, HasOwner
  <1>6. QED
    BY <1>2, <1>4, <1>5 DEF Sound, Place, Present, Places

-----------------------------------------------------------------------------
(* A process dies: what it has is counted as lost from then on. *)
LEMMA CrashKeepsPlaces ==
    ASSUME TypeOK, Placed, Places, NEW p \in Deleters, Crash(p)
    PROVE  Places'
  <1> SUFFICES ASSUME NEW i \in Slots PROVE Place(i)'
    BY DEF Places
  <1>1. Place(i) /\ i # None
    BY Constants DEF Places
  <1>2. lost[i] \in Nat /\ lost'[i] = lost[i] + Counts(p, i) /\ UNCHANGED node
    BY DEF TypeOK, Crash, zone
  <1>3. Dels(i)' = Dels(i) \ {p}
    BY <1>1 DEF Crash, Dels, Nowhere, TypeOK
  <1>4. Users(i)' = Users(i) \ {p}
    <2>1. CASE p \in Requests
      BY <1>1, <2>1 DEF Crash, Over, NewReq, Users, TypeOK
    <2>2. CASE p \notin Requests
      BY <2>2 DEF Crash, Users
    <2>3. QED
      BY <2>1, <2>2
  <1>5. \A q \in Users(i)' : req'[q] = req[q]
    BY <1>4 DEF Crash, Over, Users, TypeOK
  <1>6. PICK u \in 0 .. 1 : /\ u = IF p \in Users(i) THEN 1 ELSE 0
                            /\ Cardinality(Users(i)') = Cardinality(Users(i)) - u
    <2>1. CASE p \in Users(i)
      <3>1. Cardinality(Users(i)') = Cardinality(Users(i)) - 1
        BY <1>4, <2>1, UsersAreFinite, FS_RemoveElement
      <3>2. QED
        BY <2>1, <3>1
    <2>2. CASE p \notin Users(i)
      <3>1. Users(i)' = Users(i)
        BY <1>4, <2>2
      <3>2. QED
        BY <2>2, <3>1, UsersAreFinite
    <2>3. QED
      BY <2>1, <2>2
  <1>7. PICK d \in 0 .. 1 : /\ d = IF p \in Dels(i) THEN 1 ELSE 0
                            /\ Cardinality(Dels(i)') = Cardinality(Dels(i)) - d
    <2>1. CASE p \in Dels(i)
      <3>1. Cardinality(Dels(i)') = Cardinality(Dels(i)) - 1
        BY <1>3, <2>1, UsersAreFinite, FS_RemoveElement
      <3>2. QED
        BY <2>1, <3>1
    <2>2. CASE p \notin Dels(i)
      <3>1. Dels(i)' = Dels(i)
        BY <1>3, <2>2
      <3>2. QED
        BY <2>2, <3>1, UsersAreFinite
    <2>3. QED
      BY <2>1, <2>2
  <1>8. Counts(p, i) = u + d
    <2>1. p \in Users(i) <=> (p \in Requests /\ req[p].node = i)
      BY DEF Users
    <2>2. p \in Dels(i) <=> del[p].node = i
      BY DEF Dels
    <2>3. QED
      BY <1>6, <1>7, <2>1, <2>2 DEF Counts
  <1>9. CASE i \in Present
    <2>1. Sound(i) /\ node[i].count \in Nat
      BY <1>1, <1>9 DEF Place, TypeOK, NodeType
    <2>2. node[i].count = lost[i] + Cardinality(Users(i)) + Cardinality(Dels(i))
      BY <2>1 DEF Sound, CountRight
    <2>3. node'[i].count = lost'[i] + Cardinality(Users(i)') + Cardinality(Dels(i)')
      BY <1>2, <1>6, <1>7, <1>8, <2>2, UsersAreFinite
    <2>4. CountRight(i)'
      BY <2>3 DEF CountRight
    <2>5. KeysMatch(i)' /\ SizeRight(i)'
      BY <1>2, <1>4, <1>5, <2>1 DEF Sound, KeysMatch, SizeRight
    <2>6. lost[i] > 0 => lost'[i] > 0
      BY <1>2, <1>6, <1>7, <1>8
    <2>7. p \in Users(i) \/ p \in Dels(i) => lost'[i] > 0
      BY <1>2, <1>6, <1>7, <1>8
    <2>8. DeletingRight(i)'
      BY <1>2, <1>3, <2>1, <2>6, <2>7 DEF Sound, DeletingRight
    <2>9. HasOwner(i)'
      BY <1>2, <1>4, <1>5, <2>1, <2>6, <2>7 DEF Sound, HasOwner
    <2>10. QED
      BY <1>2, <1>9, <2>4, <2>5, <2>8, <2>9 DEF Sound, Place, Present
  <1>10. CASE i \notin Present
    <2>1. lost[i] = 0 /\ Users(i) = {} /\ Dels(i) = {}
      BY <1>1, <1>10 DEF Place, Vacant
    <2>2. lost'[i] = 0
      BY <1>2, <1>6, <1>7, <1>8, <2>1
    <2>3. QED
      BY <1>2, <1>3, <1>4, <1>10, <2>1, <2>2 DEF Place, Present, Vacant
  <1>11. QED
    BY <1>9, <1>10

-----------------------------------------------------------------------------
(***************************************************************************)
(* A finite set of numbers has a largest one.                              *)
(***************************************************************************)
LEMMA LargestExists ==
    ASSUME NEW S \in SUBSET Nat, IsFiniteSet(S), S # {}
    PROVE  \E x \in S : \A y \in S : x >= y
  <1> DEFINE Bad == {T \in SUBSET S : T # {} /\ ~\E x \in T : \A y \in T : x >= y}
  <1> SUFFICES ASSUME Bad # {} PROVE FALSE
    OBVIOUS
  <1>1. IsWellFoundedOn(StrictSubsetOrdering(S), SUBSET S)
    BY FS_StrictSubsetOrderingWellFounded, FS_FiniteSubsetsOfFinite
  <1>2. Bad \in SUBSET (SUBSET S)
    OBVIOUS
  <1>3. PICK T \in Bad : \A U \in Bad : ~(<<U, T>> \in StrictSubsetOrdering(S))
    <2> HIDE DEF Bad
    <2>1. QED
      BY <1>1, <1>2, WFMin, Zenon
  <1>4. PICK x : x \in T
    OBVIOUS
  <1>5. T \ {x} \notin Bad
    BY <1>3, <1>4 DEF StrictSubsetOrdering
  <1>6. CASE T = {x}
    BY <1>4, <1>6
  <1>7. CASE T # {x}
    <2>1. PICK m \in T \ {x} : \A y \in T \ {x} : m >= y
      BY <1>4, <1>5, <1>7
    <2>2. x \in Nat /\ m \in Nat /\ \A y \in T : y \in Nat
      BY <1>4, <2>1
    <2>3. \E z \in T : \A y \in T : z >= y
      <3>1. CASE x >= m
        BY <1>4, <2>1, <2>2, <3>1
      <3>2. CASE m >= x
        BY <1>4, <2>1, <2>2, <3>2
      <3>3. QED
        BY <2>2, <3>1, <3>2
    <2>4. QED
      BY <2>3
  <1>8. QED
    BY <1>6, <1>7

LEMMA MaxIsMember ==
    ASSUME NEW S \in SUBSET Nat, IsFiniteSet(S), S # {}
    PROVE  Max(S) \in S
  BY LargestExists DEF Max

LEMMA MostUsesType ==
    ASSUME NEW r \in Requests
    PROVE  MostUses \in Nat
  <1>1. MinUses \in [Requests -> Nat \ {0}] /\ IsFiniteSet(Requests)
    BY Constants
  <1>2. PICK S : S = Range(MinUses)
    OBVIOUS
  <1>3. S \in SUBSET Nat /\ S # {}
    BY <1>1, <1>2 DEF Range
  <1>4. MinUses \in Surjection(Requests, S)
    BY <1>1, <1>2 DEF Range, Surjection
  <1>5. IsFiniteSet(S)
    BY <1>1, <1>4, FS_Surjection
  <1>6. Max(S) \in Nat
    BY <1>3, <1>5, MaxIsMember
  <1>7. QED
    BY <1>2, <1>6 DEF MostUses

(* Counting an entry keeps it an entry. *)
LEMMA CountedType ==
    ASSUME NEW r \in Requests, NEW n \in NodeType
    PROVE  Counted(r, n) \in NodeType
  <1>1. CASE req[r].node # None
    BY <1>1 DEF Counted
  <1>2. CASE req[r].node = None
    <2>1. n.count + 1 \in Nat /\ n.uses + 1 \in Nat
      BY DEF NodeType
    <2>2. {n.uses + 1, MostUses} \in SUBSET Nat
      BY <2>1, MostUsesType
    <2>3. PICK u \in Nat : u = Min({n.uses + 1, MostUses})
      BY <2>2, MinIsMember
    <2>4. Counted(r, n) = [n EXCEPT !.count = @ + 1, !.uses = u]
      BY <1>2, <2>3 DEF Counted
    <2>5. [n EXCEPT !.count = @ + 1, !.uses = u] \in NodeType
      BY <2>1 DEF NodeType
    <2>6. QED
      BY <2>4, <2>5
  <1>3. QED
    BY <1>1, <1>2

-----------------------------------------------------------------------------
(***************************************************************************)
(* The size of the cache.  A step that changes one node changes the set of *)
(* the nodes whose file sh->size contains by this node at most.            *)
(***************************************************************************)
Files == {i \in Present : node[i].size = 1 /\ ~node[i].deleting}

Weight(i) == IF i \in Files THEN 1 ELSE 0

(* Only node i changes, comes or goes. *)
NodesBut(i) ==
    /\ DOMAIN node' \ {i} = DOMAIN node \ {i}
    /\ \A j \in DOMAIN node \ {i} : node'[j] = node[j]

LEMMA WeightOut ==
    ASSUME NEW S, IsFiniteSet(S), NEW i
    PROVE  /\ Cardinality(S) \in Nat
           /\ Cardinality(S \ {i}) = Cardinality(S) - (IF i \in S THEN 1 ELSE 0)
  <1>1. CASE i \in S
    BY <1>1, FS_RemoveElement, FS_CardinalityType
  <1>2. CASE i \notin S
    <2>1. S \ {i} = S
      BY <1>2
    <2>2. Cardinality(S) \in Nat
      BY FS_CardinalityType
    <2>3. QED
      BY <1>2, <2>1, <2>2
  <1>3. QED
    BY <1>1, <1>2

LEMMA FilesChange ==
    ASSUME Present \subseteq Slots, Present' \subseteq Slots, NEW i, NodesBut(i)
    PROVE  /\ Cardinality(Files) \in Nat /\ Cardinality(Files') \in Nat
           /\ Cardinality(Files') = Cardinality(Files) + Weight(i)' - Weight(i)
  <1>1. IsFiniteSet(Files) /\ IsFiniteSet(Files')
    <2>1. Files \subseteq Slots /\ Files' \subseteq Slots
      BY DEF Files
    <2>2. QED
      BY <2>1, Constants, FS_Subset
  <1>2. Files' \ {i} = Files \ {i}
    BY DEF Files, Present, NodesBut
  <1>3. /\ Cardinality(Files) \in Nat
        /\ Cardinality(Files \ {i}) = Cardinality(Files) - Weight(i)
    BY <1>1, WeightOut DEF Weight
  <1>4. /\ Cardinality(Files') \in Nat
        /\ Cardinality(Files' \ {i}) = Cardinality(Files') - Weight(i)'
    BY <1>1, WeightOut DEF Weight
  <1>5. Weight(i) \in 0 .. 1 /\ Weight(i)' \in 0 .. 1
    BY DEF Weight
  <1>6. PICK a, b, v, w : /\ a = Cardinality(Files) /\ b = Cardinality(Files')
                          /\ v = Weight(i) /\ w = Weight(i)'
    OBVIOUS
  <1>7. a - v = b - w
    BY <1>2, <1>3, <1>4, <1>6
  <1>8. a \in Nat /\ b \in Nat /\ v \in 0 .. 1 /\ w \in 0 .. 1
    BY <1>3, <1>4, <1>5, <1>6
  <1>9. b = a + w - v
    BY <1>7, <1>8
  <1>10. QED
    BY <1>6, <1>8, <1>9

(* The size is set to what the change at node i makes of it. *)
LEMMA SizeStep ==
    ASSUME TypeOK, SizeIsFiles, Present' \subseteq Slots,
           NEW i, NodesBut(i), NEW s \in Int, NEW d \in BOOLEAN, SetSize(s, d),
           ~drifted' => s = size + Weight(i)' - Weight(i)
    PROVE  /\ SizeIsFiles'
           /\ size' \in Int /\ drifted' \in BOOLEAN
  <1>1. drifted \in BOOLEAN /\ size \in Int
    BY DEF TypeOK
  <1>2. drifted' \in BOOLEAN
    BY <1>1, Zenon DEF SetSize
  <1>3. size' \in Int
    BY DEF SetSize
  <1>4. CASE drifted'
    BY <1>2, <1>3, <1>4 DEF SizeIsFiles
  <1>5. CASE ~drifted'
    <2>1. ~drifted /\ size' = s
      BY <1>1, <1>5 DEF SetSize
    <2>2. size = Cardinality(Files)
      BY <2>1 DEF SizeIsFiles, Files
    <2>3. Cardinality(Files') = Cardinality(Files) + Weight(i)' - Weight(i)
      BY FilesChange DEF TypeOK
    <2>4. size' = Cardinality(Files')
      BY <1>5, <2>1, <2>2, <2>3
    <2>5. QED
      BY <1>2, <1>3, <2>4 DEF SizeIsFiles, Files
  <1>6. QED
    BY <1>4, <1>5

(* The size is left alone, as the file of node i is where it was. *)
LEMMA SizeKept ==
    ASSUME TypeOK, SizeIsFiles, Present' \subseteq Slots,
           NEW i, NodesBut(i), UNCHANGED <<size, drifted>>,
           Weight(i)' = Weight(i)
    PROVE  SizeIsFiles'
  <1>1. CASE drifted
    BY <1>1 DEF SizeIsFiles
  <1>2. CASE ~drifted
    <2>1. size = Cardinality(Files)
      BY <1>2 DEF SizeIsFiles, Files
    <2>2. Weight(i) \in 0 .. 1
      BY DEF Weight
    <2>3. Cardinality(Files') = Cardinality(Files)
      BY <2>2, FilesChange DEF TypeOK
    <2>4. QED
      BY <2>1, <2>3 DEF SizeIsFiles, Files
  <1>3. QED
    BY <1>1, <1>2

-----------------------------------------------------------------------------
(***************************************************************************)
(* What steps of one process leave alone.                                  *)
(***************************************************************************)
LEMMA QuietKeeps ==
    ASSUME IInv, UNCHANGED <<node, queue, size, drifted, lost>>,
           \A q \in Requests : SameNode(q),
           \A p \in Deleters : del'[p].node = del[p].node
    PROVE  Places' /\ QueueRight' /\ SizeIsFiles'
  <1>1. Places'
    BY QuietKeepsPlaces DEF IInv
  <1>2. QueueRight' /\ SizeIsFiles'
    BY DEF IInv, QueueRight, SizeIsFiles, Present
  <1>3. QED
    BY <1>1, <1>2

LEMMA PlacedStep ==
    ASSUME Placed, NEW r, PlacedAt(r)',
           \A q \in Requests \ {r} :
               at'[q] = at[q] /\ req'[q] = req[q] /\ del'[q] = del[q]
    PROVE  Placed'
  BY DEF Placed, PlacedAt

(* The zone has room for a count of its nodes. *)
LEMMA WatermarkType ==
    ASSUME TypeOK
    PROVE  Watermark \in Nat
  <1>1. IsFiniteSet(Present)
    BY Constants, FS_Subset DEF TypeOK
  <1>2. PICK n \in Nat : n = Cardinality(Present)
    BY <1>1, FS_CardinalityType
  <1>3. n - n \div 8 \in Nat
    OBVIOUS
  <1>4. QED
    BY <1>2, <1>3 DEF Watermark

(***************************************************************************)
(* Steps of a request that touch no node.                                  *)
(***************************************************************************)
LEMMA ImpatientType ==
    ASSUME NEW x \in ReqType
    PROVE  [x EXCEPT !.impatient = TRUE] \in ReqType
  BY DEF ReqType

LEMMA OpenFullKeeps ==
    ASSUME IInv, NEW r \in Requests, OpenFull(r)
    PROVE  IInv'
  <1> USE DEF OpenFull, Goto, zone, loader, history
  <1>1. TypeOK
    BY DEF IInv
  <1>2. at' \in [Requests -> Points] /\ watermark' \in Nat
    BY <1>1, WatermarkType DEF TypeOK, Points
  <1>3. TypeOK'
    BY <1>1, <1>2 DEF TypeOK, Present
  <1>4. PlacedAt(r)'
    BY <1>1 DEF IInv, Placed, PlacedAt, Within, TypeOK, Candidates
  <1>5. Placed'
    BY <1>1, <1>4, PlacedStep DEF IInv, TypeOK
  <1>6. Places' /\ QueueRight' /\ SizeIsFiles'
    BY <1>1, QuietKeeps DEF SameNode, TypeOK
  <1>7. QED
    BY <1>3, <1>5, <1>6 DEF IInv

LEMMA OpenFileKeeps ==
    ASSUME IInv, NEW r \in Requests, OpenFile(r)
    PROVE  IInv'
  <1> USE DEF OpenFile, Goto, zone, loader, history
  <1>1. TypeOK
    BY DEF IInv
  <1>2. req[r] \in ReqType /\ at[r] \in Points /\ PlacedAt(r)
    BY <1>1 DEF TypeOK, IInv, Placed
  <1>3. req'[r] \in {req[r], [req[r] EXCEPT !.scarce = FALSE]}
    BY <1>1 DEF TypeOK
  <1>4. req'[r] \in ReqType
    BY <1>2, <1>3 DEF ReqType
  <1>5. /\ req'[r].node = req[r].node /\ req'[r].key = req[r].key
        /\ req'[r].updating = req[r].updating /\ req'[r].lockGen = req[r].lockGen
        /\ req'[r].switched = req[r].switched
    BY <1>2, <1>3 DEF ReqType
  <1>6. \A q \in Requests \ {r} : req'[q] = req[q] /\ at'[q] = at[q]
    BY <1>1 DEF TypeOK
  <1>7. at' \in [Requests -> Points]
    BY <1>1 DEF TypeOK, Points
  <1>8. req' \in [Requests -> ReqType]
    BY <1>1, <1>4, <1>6 DEF TypeOK
  <1>9. TypeOK'
    BY <1>1, <1>7, <1>8 DEF TypeOK, Present
  <1>10. PlacedAt(r)'
    BY <1>1, <1>2, <1>5 DEF PlacedAt, Within, TypeOK
  <1>11. Placed'
    BY <1>6, <1>10, PlacedStep DEF IInv
  <1>12. \A q \in Requests : SameNode(q)
    BY <1>5, <1>6 DEF SameNode
  <1>13. Places' /\ QueueRight' /\ SizeIsFiles'
    BY <1>12, QuietKeeps
  <1>14. QED
    BY <1>9, <1>11, <1>13 DEF IInv

LEMMA WaitTimesOutKeeps ==
    ASSUME IInv, NEW r \in Requests, WaitTimesOut(r)
    PROVE  IInv'
  <1> USE DEF WaitTimesOut, Goto, zone, loader, history
  <1>1. TypeOK
    BY DEF IInv
  <1>2. req[r] \in ReqType /\ at[r] \in Points /\ PlacedAt(r)
    BY <1>1 DEF TypeOK, IInv, Placed
  <1>3. req'[r] = [req[r] EXCEPT !.impatient = TRUE]
    BY <1>1 DEF TypeOK
  <1>4. req'[r] \in ReqType
    BY <1>2, <1>3, ImpatientType
  <1>5. /\ req'[r].node = req[r].node /\ req'[r].key = req[r].key
        /\ req'[r].updating = req[r].updating /\ req'[r].lockGen = req[r].lockGen
        /\ req'[r].switched = req[r].switched
    BY <1>2, <1>3 DEF ReqType
  <1>6. \A q \in Requests \ {r} : req'[q] = req[q] /\ at'[q] = at[q]
    BY <1>1 DEF TypeOK
  <1>7. at' \in [Requests -> Points]
    BY <1>1 DEF TypeOK, Points
  <1>8. req' \in [Requests -> ReqType]
    BY <1>1, <1>4, <1>6 DEF TypeOK
  <1>9. TypeOK'
    BY <1>1, <1>7, <1>8 DEF TypeOK, Present
  <1>10. PlacedAt(r)'
    BY <1>1, <1>2, <1>5 DEF PlacedAt, Within, TypeOK
  <1>11. Placed'
    BY <1>6, <1>10, PlacedStep DEF IInv
  <1>12. \A q \in Requests : SameNode(q)
    BY <1>5, <1>6 DEF SameNode
  <1>13. Places' /\ QueueRight' /\ SizeIsFiles'
    BY <1>12, QuietKeeps
  <1>14. QED
    BY <1>9, <1>11, <1>13 DEF IInv

LEMMA WaitEndsKeeps ==
    ASSUME IInv, NEW r \in Requests, WaitEnds(r)
    PROVE  IInv'
  <1> USE DEF WaitEnds, Goto, zone, loader, history
  <1>1. TypeOK
    BY DEF IInv
  <1>2. at' \in [Requests -> Points] /\ req' \in [Requests -> ReqType]
    BY <1>1 DEF TypeOK, Points, ReqType
  <1>3. TypeOK'
    BY <1>1, <1>2 DEF TypeOK, Present
  <1>4. PlacedAt(r)'
    BY <1>1 DEF IInv, Placed, PlacedAt, Within, TypeOK
  <1>5. Placed'
    BY <1>1, <1>4, PlacedStep DEF IInv, TypeOK
  <1>6. Places' /\ QueueRight' /\ SizeIsFiles'
    BY <1>1, QuietKeeps DEF SameNode, TypeOK
  <1>7. QED
    BY <1>3, <1>5, <1>6 DEF IInv

LEMMA FetchEndsKeeps ==
    ASSUME IInv, NEW r \in Requests, FetchEnds(r)
    PROVE  IInv'
  <1> USE DEF FetchEnds, Goto, zone, loader, history
  <1>1. TypeOK
    BY DEF IInv
  <1>2. req[r] \in ReqType /\ at[r] \in Points /\ PlacedAt(r)
    BY <1>1 DEF TypeOK, IInv, Placed
  <1>3. req'[r] \in {req[r], [req[r] EXCEPT !.error = TRUE]}
    BY <1>1 DEF TypeOK
  <1>4. req'[r] \in ReqType
    BY <1>2, <1>3 DEF ReqType
  <1>5. /\ req'[r].node = req[r].node /\ req'[r].key = req[r].key
        /\ req'[r].updating = req[r].updating /\ req'[r].lockGen = req[r].lockGen
        /\ req'[r].switched = req[r].switched
    BY <1>2, <1>3 DEF ReqType
  <1>6. \A q \in Requests \ {r} : req'[q] = req[q] /\ at'[q] = at[q]
    BY <1>1 DEF TypeOK
  <1>7. at' \in [Requests -> Points]
    BY <1>1 DEF TypeOK, Points
  <1>8. req' \in [Requests -> ReqType]
    BY <1>1, <1>4, <1>6 DEF TypeOK
  <1>9. TypeOK'
    BY <1>1, <1>7, <1>8 DEF TypeOK, Present
  <1>10. PlacedAt(r)'
    BY <1>1, <1>2, <1>5 DEF PlacedAt, Within, TypeOK
  <1>11. Placed'
    BY <1>6, <1>10, PlacedStep DEF IInv
  <1>12. \A q \in Requests : SameNode(q)
    BY <1>5, <1>6 DEF SameNode
  <1>13. Places' /\ QueueRight' /\ SizeIsFiles'
    BY <1>12, QuietKeeps
  <1>14. QED
    BY <1>9, <1>11, <1>13 DEF IInv

LEMMA FetchStoresKeeps ==
    ASSUME IInv, NEW r \in Requests, FetchStores(r)
    PROVE  IInv'
  <1> USE DEF FetchStores, Goto, zone, loader, history
  <1>1. TypeOK
    BY DEF IInv
  <1>2. at' \in [Requests -> Points] /\ req' \in [Requests -> ReqType]
    BY <1>1 DEF TypeOK, Points, ReqType
  <1>3. TypeOK'
    BY <1>1, <1>2 DEF TypeOK, Present
  <1>4. PlacedAt(r)'
    BY <1>1 DEF IInv, Placed, PlacedAt, Within, TypeOK
  <1>5. Placed'
    BY <1>1, <1>4, PlacedStep DEF IInv, TypeOK
  <1>6. Places' /\ QueueRight' /\ SizeIsFiles'
    BY <1>1, QuietKeeps DEF SameNode, TypeOK
  <1>7. QED
    BY <1>3, <1>5, <1>6 DEF IInv

LEMMA FetchBreaksKeeps ==
    ASSUME IInv, NEW r \in Requests, FetchBreaks(r)
    PROVE  IInv'
  <1> USE DEF FetchBreaks, Goto, zone, loader, history
  <1>1. TypeOK
    BY DEF IInv
  <1>2. at' \in [Requests -> Points] /\ req' \in [Requests -> ReqType]
    BY <1>1 DEF TypeOK, Points, ReqType
  <1>3. TypeOK'
    BY <1>1, <1>2 DEF TypeOK, Present
  <1>4. PlacedAt(r)'
    BY <1>1 DEF IInv, Placed, PlacedAt, Within, TypeOK
  <1>5. Placed'
    BY <1>1, <1>4, PlacedStep DEF IInv, TypeOK
  <1>6. Places' /\ QueueRight' /\ SizeIsFiles'
    BY <1>1, QuietKeeps DEF SameNode, TypeOK
  <1>7. QED
    BY <1>3, <1>5, <1>6 DEF IInv

LEMMA RenameKeeps ==
    ASSUME IInv, NEW r \in Requests, Rename(r)
    PROVE  IInv'
  <1> USE DEF Rename, Goto, zone, loader, history
  <1>1. TypeOK
    BY DEF IInv
  <1>2. at' \in [Requests -> Points] /\ req' \in [Requests -> ReqType]
    BY <1>1 DEF TypeOK, Points, ReqType
  <1>3. TypeOK'
    BY <1>1, <1>2 DEF TypeOK, Present, ReqType
  <1>4. PlacedAt(r)'
    BY <1>1 DEF IInv, Placed, PlacedAt, Within, TypeOK
  <1>5. Placed'
    BY <1>1, <1>4, PlacedStep DEF IInv, TypeOK
  <1>6. Places' /\ QueueRight' /\ SizeIsFiles'
    BY <1>1, QuietKeeps DEF SameNode, TypeOK
  <1>7. QED
    BY <1>3, <1>5, <1>6 DEF IInv

LEMMA NewReqType ==
    ASSUME NEW r \in Requests
    PROVE  NewReq(r) \in ReqType
  <1>1. KeyOf[r] \in Keys
    BY Constants
  <1>2. QED
    BY <1>1 DEF NewReq, ReqType, None

LEMMA OpenFailsKeeps ==
    ASSUME IInv, NEW r \in Requests, OpenFails(r)
    PROVE  IInv'
  <1> USE DEF OpenFails, Over, Goto, zone, loader, history
  <1>1. TypeOK
    BY DEF IInv
  <1>2. at' \in [Requests -> Points] /\ req' \in [Requests -> ReqType]
    BY <1>1, NewReqType DEF TypeOK, Points
  <1>3. TypeOK'
    BY <1>1, <1>2 DEF TypeOK, Present
  <1>4. req[r].node = None
    BY DEF IInv, Placed, PlacedAt
  <1>5. req'[r] = NewReq(r) /\ at'[r] = "done"
    BY <1>1 DEF TypeOK
  <1>6. PlacedAt(r)'
    BY <1>5 DEF PlacedAt, Within, NewReq
  <1>7. \A q \in Requests \ {r} : req'[q] = req[q] /\ at'[q] = at[q]
    BY <1>1 DEF TypeOK
  <1>8. Placed'
    BY <1>6, <1>7, PlacedStep DEF IInv
  <1>9. \A q \in Requests : SameNode(q)
    <2>1. req'[r].node = None
      BY <1>5 DEF NewReq
    <2>2. QED
      BY <1>4, <1>7, <2>1 DEF SameNode
  <1>10. Places' /\ QueueRight' /\ SizeIsFiles'
    BY <1>9, QuietKeeps
  <1>11. QED
    BY <1>3, <1>8, <1>10 DEF IInv

-----------------------------------------------------------------------------
(***************************************************************************)
(* Steps in which a request gives its node back.                           *)
(***************************************************************************)
LEMMA NodesTyped ==
    ASSUME TypeOK, NEW i \in Slots, NodesBut(i),
           i \in DOMAIN node' => node'[i] \in NodeType
    PROVE  Present' \subseteq Slots /\ \A j \in Present' : node'[j] \in NodeType
  BY DEF TypeOK, NodesBut, Present

(* A request that is in a step with its node i. *)
LEMMA AtNode ==
    ASSUME IInv, NEW r \in Requests, at[r] \in Within
    PROVE  \E i \in Slots : /\ i = req[r].node /\ i # None /\ i \in Present
                            /\ node[i] \in NodeType
                            /\ node[i].count \in Nat /\ node[i].count > 0
                            /\ Sound(i)
  <1>1. req[r].node # None
    BY DEF IInv, Placed, PlacedAt
  <1>2. PICK i : i = req[r].node
    OBVIOUS
  <1>3. i \in Present /\ node[i].count > 0
    BY <1>1, <1>2, HeldNodes DEF IInv
  <1>4. i \in Slots /\ node[i] \in NodeType
    BY <1>3 DEF IInv, TypeOK
  <1>5. node[i].count \in Nat
    BY <1>4 DEF NodeType
  <1>6. Sound(i)
    BY <1>3, <1>4 DEF IInv, Places, Place
  <1>7. QED
    BY <1>1, <1>2, <1>3, <1>4, <1>5, <1>6

(***************************************************************************)
(* Request r gives its node i back, which becomes n; the request becomes x *)
(* and goes to pt.                                                         *)
(***************************************************************************)
GivesBack(r, i, n, x, pt) ==
    /\ node' = [node EXCEPT ![i] = n]
    /\ req' = [req EXCEPT ![r] = x] /\ at' = [at EXCEPT ![r] = pt]
    /\ UNCHANGED <<queue, watermark, cold, loader, file, del, lost, crashes>>

(* What becomes of the node. *)
GivenBack(r, i, n) ==
    /\ n \in NodeType
    /\ n.count = node[i].count - 1 /\ n.key = node[i].key
    /\ n.deleting = node[i].deleting /\ n.lockGen = node[i].lockGen
    /\ ~n.exists => n.size = 0
    /\ n.updating => node[i].updating /\ ~Releases(r)

LEMMA NodeReplaced ==
    ASSUME NEW i \in Present, NEW n, node' = [node EXCEPT ![i] = n]
    PROVE  /\ DOMAIN node' = DOMAIN node /\ node'[i] = n /\ NodesBut(i)
           /\ i \in DOMAIN node'
  BY DEF Present, NodesBut

LEMMA GiveBackKeeps ==
    ASSUME IInv, NEW r \in Requests, NEW i \in Slots, i = req[r].node, i # None,
           NEW n, NEW x \in ReqType, NEW pt \in Points, GivesBack(r, i, n, x, pt),
           GivenBack(r, i, n), x.node = None, pt \in {"open", "done"},
           x.switched => pt = "open", x.updating => x.switched,
           del[r] = Nowhere,
           size' \in Int, drifted' \in BOOLEAN, SizeIsFiles'
    PROVE  IInv'
  <1>1. TypeOK /\ Places /\ QueueRight /\ Placed
    BY DEF IInv
  <1>2. i \in Present
    BY <1>1, HeldNodes
  <1>3. DOMAIN node' = DOMAIN node /\ node'[i] = n /\ NodesBut(i) /\ i \in DOMAIN node'
    BY <1>2, NodeReplaced DEF GivesBack
  <1>4. \A q \in Requests \ {r} : req'[q] = req[q] /\ at'[q] = at[q]
    BY <1>1 DEF TypeOK, GivesBack
  <1>5. req'[r] = x /\ at'[r] = pt
    BY <1>1 DEF TypeOK, GivesBack
  <1>6. TypeOK'
    <2>1. Present' \subseteq Slots /\ \A j \in Present' : node'[j] \in NodeType
      BY <1>1, <1>3, NodesTyped DEF GivenBack
    <2>2. at' \in [Requests -> Points] /\ req' \in [Requests -> ReqType]
      BY <1>1 DEF TypeOK, GivesBack
    <2>3. QED
      BY <1>1, <2>1, <2>2 DEF TypeOK, GivesBack, loader
  <1>7. Placed'
    <2>1. PlacedAt(r)'
      BY <1>5 DEF PlacedAt, Within, GivesBack
    <2>2. QED
      BY <1>1, <1>4, <2>1, PlacedStep DEF GivesBack
  <1>8. Places'
    <2>1. OnlyAt(r, i)
      BY <1>3, <1>4 DEF OnlyAt, NodesBut, GivesBack
    <2>2. /\ node'[i].count = node[i].count - 1 /\ node'[i].key = node[i].key
          /\ node'[i].deleting = node[i].deleting
          /\ node'[i].lockGen = node[i].lockGen
          /\ ~node'[i].exists => node'[i].size = 0
          /\ node'[i].updating =>
                 /\ node[i].updating
                 /\ ~(req[r].updating /\ req[r].lockGen = node[i].lockGen)
      BY <1>3 DEF GivenBack, Releases
    <2>3. req'[r].node = None
      BY <1>5
    <2>4. QED
      BY <1>1, <1>3, <2>1, <2>2, <2>3, ReleaseKeepsPlaces
  <1>9. QueueRight'
    BY <1>1, <1>3 DEF QueueRight, GivesBack, Present
  <1>10. QED
    BY <1>6, <1>7, <1>8, <1>9 DEF IInv

LEMMA ReopenKeeps ==
    ASSUME IInv, NEW r \in Requests, Reopen(r)
    PROVE  IInv'
  <1>1. TypeOK /\ SizeIsFiles /\ PlacedAt(r) /\ req[r] \in ReqType
    BY DEF IInv, Placed, TypeOK
  <1>2. PICK i \in Slots : /\ i = req[r].node /\ i # None /\ i \in Present
                           /\ node[i] \in NodeType
                           /\ node[i].count \in Nat /\ node[i].count > 0
                           /\ Sound(i)
    BY AtNode DEF Reopen, Within
  <1>3. PICK n : n = [node[i] EXCEPT !.count = @ - 1]
    OBVIOUS
  <1>4. PICK x : x = [req[r] EXCEPT !.key = Variant[@], !.secondary = TRUE,
                                    !.node = None]
    OBVIOUS
  <1>5. GivesBack(r, i, n, x, "open")
    BY <1>1, <1>2, <1>3, <1>4 DEF Reopen, Goto, GivesBack, TypeOK, Present, history
  <1>6. n \in NodeType
    BY <1>2, <1>3 DEF NodeType
  <1>7. /\ n.count = node[i].count - 1 /\ n.key = node[i].key
        /\ n.deleting = node[i].deleting /\ n.lockGen = node[i].lockGen
        /\ n.exists = node[i].exists /\ n.size = node[i].size
        /\ n.updating = node[i].updating
    BY <1>2, <1>3 DEF NodeType
  <1>8. GivenBack(r, i, n)
    BY <1>1, <1>2, <1>6, <1>7 DEF GivenBack, Releases, Sound, SizeRight, PlacedAt, Reopen
  <1>9. Variant[req[r].key] \in Keys
    BY <1>1, Constants DEF ReqType
  <1>10. /\ x \in ReqType /\ x.node = None
         /\ x.switched = req[r].switched /\ x.updating = req[r].updating
    BY <1>1, <1>4, <1>9 DEF ReqType
  <1>11. SizeIsFiles' /\ size' \in Int /\ drifted' \in BOOLEAN
    <2>1. /\ DOMAIN node' = DOMAIN node /\ node'[i] = n /\ NodesBut(i)
          /\ i \in DOMAIN node'
      BY <1>2, <1>5, NodeReplaced DEF GivesBack
    <2>2. Weight(i)' = Weight(i)
      BY <1>7, <2>1 DEF Weight, Files, Present
    <2>3. UNCHANGED <<size, drifted>> /\ Present' \subseteq Slots
      BY <1>1, <2>1 DEF Reopen, history, TypeOK, Present
    <2>4. QED
      BY <1>1, <2>1, <2>2, <2>3, SizeKept DEF TypeOK
  <1>12. ~req[r].updating /\ ~req[r].switched /\ del[r] = Nowhere
    BY <1>1 DEF PlacedAt, Reopen
  <1>13. QED
    BY <1>2, <1>5, <1>8, <1>10, <1>11, <1>12, GiveBackKeeps DEF Points

LEMMA SwitchKeeps ==
    ASSUME IInv, NEW r \in Requests, Switch(r)
    PROVE  IInv'
  <1>1. TypeOK /\ SizeIsFiles /\ PlacedAt(r) /\ req[r] \in ReqType
    BY DEF IInv, Placed, TypeOK
  <1>2. PICK i \in Slots : /\ i = req[r].node /\ i # None /\ i \in Present
                           /\ node[i] \in NodeType
                           /\ node[i].count \in Nat /\ node[i].count > 0
                           /\ Sound(i)
    BY AtNode DEF Switch, Within
  <1>3. PICK n : n = [node[i] EXCEPT !.count = @ - 1, !.updating = FALSE]
    OBVIOUS
  <1>4. PICK x : x = [req[r] EXCEPT !.node = None, !.key = KeyOf[r],
                                    !.switched = TRUE]
    OBVIOUS
  <1>5. GivesBack(r, i, n, x, "open")
    BY <1>1, <1>2, <1>3, <1>4 DEF Switch, Goto, GivesBack, TypeOK, Present, history
  <1>6. n \in NodeType
    <2>1. PICK c \in Nat : c = node[i].count - 1
      BY <1>2
    <2>2. n = [node[i] EXCEPT !.count = c, !.updating = FALSE]
      BY <1>3, <2>1
    <2>3. QED
      BY <1>2, <2>2 DEF NodeType
  <1>7. /\ n.count = node[i].count - 1 /\ n.key = node[i].key
        /\ n.deleting = node[i].deleting /\ n.lockGen = node[i].lockGen
        /\ n.exists = node[i].exists /\ n.size = node[i].size
        /\ n.updating = FALSE
    BY <1>2, <1>3 DEF NodeType
  <1>8. GivenBack(r, i, n)
    BY <1>2, <1>6, <1>7 DEF GivenBack, Sound, SizeRight
  <1>9. KeyOf[r] \in Keys
    BY Constants
  <1>10. x \in ReqType /\ x.node = None /\ x.switched = TRUE
    BY <1>1, <1>4, <1>9 DEF ReqType
  <1>11. SizeIsFiles' /\ size' \in Int /\ drifted' \in BOOLEAN
    <2>1. /\ DOMAIN node' = DOMAIN node /\ node'[i] = n /\ NodesBut(i)
          /\ i \in DOMAIN node'
      BY <1>2, <1>5, NodeReplaced DEF GivesBack
    <2>2. Weight(i)' = Weight(i)
      BY <1>7, <2>1 DEF Weight, Files, Present
    <2>3. UNCHANGED <<size, drifted>> /\ Present' \subseteq Slots
      BY <1>1, <2>1 DEF Switch, history, TypeOK, Present
    <2>4. QED
      BY <1>1, <2>1, <2>2, <2>3, SizeKept DEF TypeOK
  <1>12. del[r] = Nowhere
    BY <1>1 DEF PlacedAt, Switch
  <1>13. QED
    BY <1>2, <1>5, <1>8, <1>10, <1>11, <1>12, GiveBackKeeps DEF Points

LEMMA StoreKeeps ==
    ASSUME IInv, NEW r \in Requests, Store(r)
    PROVE  IInv'
  <1>1. TypeOK /\ SizeIsFiles /\ PlacedAt(r) /\ size \in Int
    BY SMTT(40) DEF IInv, Placed, TypeOK
  <1>2. PICK i \in Slots : /\ i = req[r].node /\ i # None /\ i \in Present
                           /\ node[i] \in NodeType
                           /\ node[i].count \in Nat /\ node[i].count > 0
                           /\ Sound(i)
    BY AtNode DEF Store, Within
  <1>3. PICK z \in 0 .. 1 : z = StoredSize(r)
    BY DEF StoredSize
  <1>4. PICK e \in BOOLEAN : e = (node[i].exists \/ at[r] = "store")
    OBVIOUS
  <1>5. PICK n : n = [node[i] EXCEPT !.count = @ - 1, !.error = FALSE, !.size = z,
                                     !.exists = e, !.updating = FALSE]
    OBVIOUS
  <1>6. GivesBack(r, i, n, NewReq(r), "done")
    <2>1. node' = [node EXCEPT ![i] = n]
      BY <1>2, <1>3, <1>4, <1>5 DEF Store, Present
    <2>2. QED
      BY <1>1, <2>1 DEF Store, Over, Goto, GivesBack
  <1>7. n \in NodeType
    <2>1. PICK c \in Nat : c = node[i].count - 1
      BY <1>2
    <2>2. n = [node[i] EXCEPT !.count = c, !.error = FALSE, !.size = z,
                              !.exists = e, !.updating = FALSE]
      BY <1>5, <2>1
    <2>3. QED
      BY <1>2, <2>2 DEF NodeType
  <1>8. /\ n.count = node[i].count - 1 /\ n.key = node[i].key
        /\ n.deleting = node[i].deleting /\ n.lockGen = node[i].lockGen
        /\ n.exists = e /\ n.size = z /\ n.updating = FALSE
    BY <1>2, <1>5 DEF NodeType
  <1>9. GivenBack(r, i, n)
    BY <1>3, <1>4, <1>7, <1>8 DEF GivenBack, StoredSize
  <1>10. /\ NewReq(r) \in ReqType /\ NewReq(r).node = None
         /\ NewReq(r).switched = FALSE /\ NewReq(r).updating = FALSE
    <2>1. NewReq(r) \in ReqType
      BY NewReqType
    <2>2. QED
      BY <2>1 DEF NewReq
  <1>11. SizeIsFiles' /\ size' \in Int /\ drifted' \in BOOLEAN
    <2>1. /\ DOMAIN node' = DOMAIN node /\ node'[i] = n /\ NodesBut(i)
          /\ i \in DOMAIN node'
      BY <1>2, <1>6, NodeReplaced DEF GivesBack
    <2>2. PICK y \in 0 .. 1 : y = node[i].size
      BY <1>2 DEF NodeType
    <2>3. SetSize(size + (z - y), node[i].deleting) /\ node[i].deleting \in BOOLEAN
      BY <1>2, <1>3, <2>2 DEF Store, SizeChange, NodeType
    <2>4. drifted' = (drifted \/ node[i].deleting)
      BY <2>3 DEF SetSize
    <2>5. ~node[i].deleting => Weight(i) = y /\ Weight(i)' = z
      BY <1>2, <1>8, <2>1, <2>2 DEF Weight, Files, Present
    <2>6. ~drifted' => size + (z - y) = size + Weight(i)' - Weight(i)
      BY <1>1, <2>4, <2>5
    <2>7. size + (z - y) \in Int
      BY <1>1
    <2>8. Present' \subseteq Slots
      BY <1>1, <2>1 DEF TypeOK, Present
    <2>9. QED
      BY <1>1, <2>1, <2>3, <2>6, <2>7, <2>8, SizeStep
  <1>12. del[r] = Nowhere
    BY <1>1 DEF PlacedAt, Store
  <1>13. QED
    BY <1>2, <1>6, <1>9, <1>10, <1>11, <1>12, GiveBackKeeps DEF Points

(* The node that free() leaves, or frees. *)
Freed(r, i) == [node[i] EXCEPT !.count = @ - 1, !.updating = @ /\ ~Releases(r)]

LEMMA FreedFacts ==
    ASSUME NEW r, NEW i, node[i] \in NodeType, node[i].count > 0
    PROVE  LET n == Freed(r, i) IN
           /\ n \in NodeType
           /\ n.count = node[i].count - 1 /\ n.key = node[i].key
           /\ n.deleting = node[i].deleting /\ n.lockGen = node[i].lockGen
           /\ n.exists = node[i].exists /\ n.size = node[i].size
           /\ n.updating => node[i].updating /\ ~Releases(r)
  <1>1. PICK c \in Nat : c = node[i].count - 1
    BY DEF NodeType
  <1>2. PICK u \in BOOLEAN : u = (node[i].updating /\ ~Releases(r))
    OBVIOUS
  <1>3. Freed(r, i) = [node[i] EXCEPT !.count = c, !.updating = u]
    BY <1>1, <1>2 DEF Freed
  <1>4. PICK n : n = [node[i] EXCEPT !.count = c, !.updating = u]
    OBVIOUS
  <1>5. n \in NodeType
    BY <1>4 DEF NodeType
  <1>6. /\ n.count = c /\ n.key = node[i].key
        /\ n.deleting = node[i].deleting /\ n.lockGen = node[i].lockGen
        /\ n.exists = node[i].exists /\ n.size = node[i].size
        /\ n.updating = u
    BY <1>4 DEF NodeType
  <1>7. n.updating => node[i].updating /\ ~Releases(r)
    BY <1>2, <1>6
  <1>8. QED
    BY <1>1, <1>3, <1>4, <1>5, <1>6, <1>7

(* Node i leaves the tree and the queue. *)
LEMMA RemoveNodeFacts ==
    ASSUME NEW i \in Present, node' = Restrict(node, Present \ {i})
    PROVE  DOMAIN node' = DOMAIN node \ {i} /\ NodesBut(i)
  BY DEF Present, NodesBut, Restrict

LEMMA RemovedFromQueue ==
    ASSUME NEW q \in Seq(Slots), NoTwice(q), Elements(q) \subseteq Present, NEW i,
           DOMAIN node' = DOMAIN node \ {i}, queue' = RemoveFirst(q, i)
    PROVE  queue' \in Seq(Slots) /\ QueueRight'
  <1>1. PICK t : t = RemoveFirst(q, i)
    OBVIOUS
  <1>2. t \in Seq(Slots) /\ NoTwice(t) /\ Elements(t) = Elements(q) \ {i}
    BY <1>1, RemoveFirstFacts
  <1>3. queue' = t
    BY <1>1
  <1>4. Elements(t) \subseteq Present'
    BY <1>2 DEF Present
  <1>5. QED
    BY <1>2, <1>3, <1>4 DEF QueueRight

LEMMA FreeKeeps ==
    ASSUME IInv, NEW r \in Requests, Free(r)
    PROVE  IInv'
  <1>1. /\ TypeOK /\ SizeIsFiles /\ PlacedAt(r) /\ size \in Int /\ drifted \in BOOLEAN
        /\ Placed /\ Places /\ QueueRight
    BY DEF IInv, Placed, TypeOK
  <1>2. PICK i \in Slots : /\ i = req[r].node /\ i # None /\ i \in Present
                           /\ node[i] \in NodeType
                           /\ node[i].count \in Nat /\ node[i].count > 0
                           /\ Sound(i)
    BY AtNode DEF Free, Within
  <1>3. PICK n : n = Freed(r, i)
    OBVIOUS
  <1>4. /\ n \in NodeType
        /\ n.count = node[i].count - 1 /\ n.key = node[i].key
        /\ n.deleting = node[i].deleting /\ n.lockGen = node[i].lockGen
        /\ n.exists = node[i].exists /\ n.size = node[i].size
        /\ n.updating => node[i].updating /\ ~Releases(r)
    BY <1>2, <1>3, FreedFacts
  <1>5. /\ NewReq(r) \in ReqType /\ NewReq(r).node = None
        /\ NewReq(r).switched = FALSE /\ NewReq(r).updating = FALSE
    <2>1. NewReq(r) \in ReqType
      BY NewReqType
    <2>2. QED
      BY <2>1 DEF NewReq
  <1>6. del[r] = Nowhere
    BY <1>1 DEF PlacedAt, Free
  <1>7. UNCHANGED <<size, drifted>>
    BY DEF Free, history
  <1>8. /\ req' = [req EXCEPT ![r] = NewReq(r)] /\ at' = [at EXCEPT ![r] = "done"]
        /\ UNCHANGED <<watermark, cold, loader, file, del, lost, crashes>>
    BY DEF Free, Over, Goto, history
  <1>9. \/ \E m \in {n, [n EXCEPT !.error = TRUE]} :
               node' = [node EXCEPT ![i] = m] /\ UNCHANGED queue
        \/ ~n.exists /\ n.count = 0 /\ RemoveNode(i)
    BY <1>2, <1>3 DEF Free, Freed
  <1>10. ASSUME NEW m \in {n, [n EXCEPT !.error = TRUE]},
                node' = [node EXCEPT ![i] = m], UNCHANGED queue
         PROVE  IInv'
    <2>1. /\ m \in NodeType /\ m.count = n.count /\ m.key = n.key
          /\ m.deleting = n.deleting /\ m.lockGen = n.lockGen
          /\ m.exists = n.exists /\ m.size = n.size /\ m.updating = n.updating
      BY <1>4 DEF NodeType
    <2>2. GivenBack(r, i, m)
      BY <1>2, <1>4, <2>1 DEF GivenBack, Sound, SizeRight
    <2>3. GivesBack(r, i, m, NewReq(r), "done")
      BY <1>8, <1>10 DEF GivesBack
    <2>4. /\ DOMAIN node' = DOMAIN node /\ node'[i] = m /\ NodesBut(i)
          /\ i \in DOMAIN node'
      BY <1>2, <1>10, NodeReplaced
    <2>5. Weight(i)' = Weight(i)
      BY <1>4, <2>1, <2>4 DEF Weight, Files, Present
    <2>6. Present' \subseteq Slots
      BY <1>1, <2>4 DEF TypeOK, Present
    <2>7. SizeIsFiles' /\ size' \in Int /\ drifted' \in BOOLEAN
      BY <1>1, <1>7, <2>4, <2>5, <2>6, SizeKept
    <2>8. QED
      BY <1>2, <1>5, <1>6, <2>2, <2>3, <2>7, GiveBackKeeps DEF Points
  <1>11. ASSUME ~n.exists, n.count = 0, RemoveNode(i)
         PROVE  IInv'
    <2>1. DOMAIN node' = DOMAIN node \ {i} /\ NodesBut(i)
      BY <1>2, <1>11, RemoveNodeFacts DEF RemoveNode
    <2>2. queue' \in Seq(Slots) /\ QueueRight'
      BY <1>1, <1>11, <2>1, RemovedFromQueue DEF RemoveNode, QueueRight, TypeOK
    <2>3. Present' \subseteq Slots /\ \A j \in Present' : node'[j] \in NodeType
      BY <1>1, <2>1, NodesTyped
    <2>4. TypeOK'
      <3>1. at' \in [Requests -> Points] /\ req' \in [Requests -> ReqType]
        BY <1>1, <1>5, <1>8 DEF TypeOK, Points
      <3>2. QED
        BY <1>1, <1>7, <1>8, <2>2, <2>3, <3>1 DEF TypeOK, loader
    <2>5. \A q \in Requests \ {r} : req'[q] = req[q] /\ at'[q] = at[q]
      BY <1>1, <1>8 DEF TypeOK
    <2>6. req'[r] = NewReq(r) /\ at'[r] = "done"
      BY <1>1, <1>8 DEF TypeOK
    <2>7. Placed'
      <3>1. PlacedAt(r)'
        BY <1>5, <1>6, <1>8, <2>6 DEF PlacedAt, Within
      <3>2. QED
        BY <1>1, <1>8, <2>5, <3>1, PlacedStep
    <2>8. Places'
      <3>1. OnlyAt(r, i)
        BY <1>8, <2>1, <2>5 DEF OnlyAt, NodesBut
      <3>2. node[i].count = 1 /\ req'[r].node = None /\ i \notin DOMAIN node'
        BY <1>2, <1>4, <1>5, <1>11, <2>1, <2>6
      <3>3. QED
        BY <1>1, <1>2, <3>1, <3>2, RemovalKeepsPlaces
    <2>9. SizeIsFiles'
      <3>1. node[i].size = 0
        BY <1>2, <1>4, <1>11 DEF Sound, SizeRight
      <3>2. Weight(i)' = Weight(i)
        BY <2>1, <3>1 DEF Weight, Files, Present
      <3>3. QED
        BY <1>1, <1>7, <2>1, <2>3, <3>2, SizeKept
    <2>10. QED
      BY <2>2, <2>4, <2>7, <2>8, <2>9 DEF IInv
  <1>12. QED
    BY <1>9, <1>10, <1>11

-----------------------------------------------------------------------------
(***************************************************************************)
(* Deletions.                                                              *)
(***************************************************************************)
DelType == [Deleters -> [node : Slots, stage : {"unlink", "relock"}] \cup {Nowhere}]

(* What a step of a deletion has to keep of the zone. *)
ZoneKept ==
    /\ Present' \subseteq Slots /\ \A j \in Present' : node'[j] \in NodeType
    /\ queue' \in Seq(Slots) /\ size' \in Int /\ drifted' \in BOOLEAN
    /\ del' \in DelType
    /\ Places' /\ QueueRight' /\ SizeIsFiles'

(* A node that nobody has counted is not being deleted. *)
LEMMA FreeNode ==
    ASSUME TypeOK, Places, NEW i \in Present, node[i].count = 0
    PROVE  ~node[i].deleting
  <1>1. Sound(i) /\ lost[i] \in Nat
    BY DEF TypeOK, Places, Place
  <1>2. node[i].count = lost[i] + Cardinality(Users(i)) + Cardinality(Dels(i))
    BY <1>1 DEF Sound, CountRight
  <1>3. lost[i] = 0 /\ Cardinality(Dels(i)) = 0
    BY <1>1, <1>2, UsersAreFinite
  <1>4. Dels(i) = {}
    BY <1>3, UsersAreFinite, FS_EmptySet
  <1>5. QED
    BY <1>1, <1>3, <1>4 DEF Sound, DeletingRight

LEMMA DeleteBeginsKeeps ==
    ASSUME IInv, NEW p \in Deleters, del[p] = Nowhere, UNCHANGED <<req, lost>>,
           NEW i \in Present, node[i].count = 0,
           NEW q \in Seq(Slots), NoTwice(q), Elements(q) \subseteq Present,
           DeleteBegins(p, i, q)
    PROVE  ZoneKept /\ \A d \in Deleters \ {p} : del'[d] = del[d]
  <1>1. /\ TypeOK /\ Places /\ SizeIsFiles /\ del \in DelType
        /\ size \in Int /\ drifted \in BOOLEAN
    BY DEF IInv, TypeOK, DelType
  <1>2. i \in Slots /\ node[i] \in NodeType /\ Sound(i) /\ ~node[i].deleting
    BY <1>1, FreeNode DEF TypeOK, Places, Place
  <1>3. PICK y \in 0 .. 1 : y = node[i].size
    BY <1>2 DEF NodeType
  <1>4. Weight(i) = y
    BY <1>2, <1>3 DEF Weight, Files
  <1>5. CASE node[i].exists
    <2>1. PICK n : n = [node[i] EXCEPT !.count = @ + 1, !.deleting = TRUE]
      OBVIOUS
    <2>2. /\ SetSize(size - y, FALSE) /\ node' = [node EXCEPT ![i] = n]
          /\ queue' = q
          /\ del' = [del EXCEPT ![p] = [node |-> i, stage |-> "unlink"]]
      BY <1>3, <1>5, <2>1 DEF DeleteBegins, Present
    <2>3. n \in NodeType
      <3>1. n = [node[i] EXCEPT !.count = 1, !.deleting = TRUE]
        BY <2>1
      <3>2. QED
        BY <1>2, <3>1 DEF NodeType
    <2>4. /\ n.count = node[i].count + 1 /\ n.deleting = TRUE
          /\ n.key = node[i].key /\ n.updating = node[i].updating
          /\ n.lockGen = node[i].lockGen
          /\ n.exists = node[i].exists /\ n.size = node[i].size
      BY <1>2, <2>1 DEF NodeType
    <2>5. DOMAIN node' = DOMAIN node /\ node'[i] = n /\ NodesBut(i)
      BY <2>2, NodeReplaced
    <2>6. Present' \subseteq Slots /\ \A j \in Present' : node'[j] \in NodeType
      BY <1>1, <1>2, <2>3, <2>5, NodesTyped
    <2>7. queue' \in Seq(Slots) /\ QueueRight'
      BY <2>2, <2>5 DEF QueueRight, Present
    <2>8. /\ del' \in DelType /\ del'[p].node = i
          /\ \A d \in Deleters \ {p} : del'[d] = del[d]
      BY <1>1, <1>2, <2>2 DEF DelType
    <2>9. SizeIsFiles' /\ size' \in Int /\ drifted' \in BOOLEAN
      <3>1. Weight(i)' = 0
        BY <2>4, <2>5 DEF Weight, Files
      <3>2. size - y \in Int /\ size - y = size + Weight(i)' - Weight(i)
        BY <1>1, <1>4, <3>1
      <3>3. QED
        BY <1>1, <2>2, <2>5, <2>6, <3>2, SizeStep
    <2>10. Places'
      BY <1>1, <2>4, <2>5, <2>8, DeleteKeepsPlaces DEF NodesBut, Present
    <2>11. QED
      BY <2>6, <2>7, <2>8, <2>9, <2>10 DEF ZoneKept
  <1>6. CASE ~node[i].exists
    <2>1. /\ node' = Restrict(node, Present \ {i}) /\ queue' = RemoveFirst(q, i)
          /\ UNCHANGED <<size, drifted, del>>
      BY <1>6 DEF DeleteBegins
    <2>2. DOMAIN node' = DOMAIN node \ {i} /\ NodesBut(i)
      BY <2>1, RemoveNodeFacts
    <2>3. Present' \subseteq Slots /\ \A j \in Present' : node'[j] \in NodeType
      BY <1>1, <1>2, <2>2, NodesTyped
    <2>4. queue' \in Seq(Slots) /\ QueueRight'
      BY <2>1, <2>2, RemovedFromQueue
    <2>5. Weight(i)' = Weight(i)
      BY <1>2, <1>6, <2>2 DEF Weight, Files, Present, Sound, SizeRight
    <2>6. SizeIsFiles'
      BY <1>1, <2>1, <2>2, <2>3, <2>5, SizeKept
    <2>7. Places'
      BY <1>1, <2>1, <2>2, DeletedKeepsPlaces DEF NodesBut, Present
    <2>8. QED
      BY <1>1, <2>1, <2>3, <2>4, <2>6, <2>7 DEF ZoneKept
  <1>7. QED
    BY <1>5, <1>6

(* The queue alone changes, to one with the same elements. *)
LEMMA QueueMovesKeeps ==
    ASSUME IInv, UNCHANGED <<node, req, lost, size, drifted, del>>,
           queue' \in Seq(Slots), NoTwice(queue'), Elements(queue') = Elements(queue)
    PROVE  ZoneKept
  <1>1. Places'
    BY QuietKeepsPlaces DEF IInv, SameNode
  <1>2. QueueRight'
    BY DEF IInv, QueueRight, Present
  <1>3. SizeIsFiles'
    BY DEF IInv, SizeIsFiles, Present
  <1>4. QED
    BY <1>1, <1>2, <1>3 DEF ZoneKept, IInv, TypeOK, DelType, Present

LEMMA ForcedExpireKeeps ==
    ASSUME IInv, NEW p \in Deleters, del[p] = Nowhere, UNCHANGED <<req, lost>>,
           ForcedExpire(p)
    PROVE  ZoneKept /\ \A d \in Deleters \ {p} : del'[d] = del[d]
  <1>1. TypeOK /\ QueueRight /\ queue \in Seq(Slots)
    BY DEF IInv, TypeOK
  <1>2. PICK m \in Nat : m = Len(queue) /\ DOMAIN queue = 1 .. m
    BY <1>1
  <1>3. PICK S : S = Stops
    OBVIOUS
  <1>4. PICK j : j = IF S = {} THEN 0 ELSE Max(S)
    OBVIOUS
  <1>5. S \subseteq 1 .. m
    BY <1>2, <1>3 DEF Stops
  <1>6. j \in 0 .. m
    <2>1. CASE S = {}
      BY <1>4, <2>1
    <2>2. CASE S # {}
      <3>1. IsFiniteSet(1 .. m)
        BY FS_Interval
      <3>2. IsFiniteSet(S) /\ S \in SUBSET Nat
        <4>1. IsFiniteSet(S)
          BY <1>5, <3>1, FS_Subset
        <4>2. QED
          BY <1>5, <4>1
      <3>3. Max(S) \in S
        BY <2>2, <3>2, MaxIsMember
      <3>4. QED
        BY <1>4, <1>5, <2>2, <3>3
    <2>3. QED
      BY <2>1, <2>2
  <1>7. PICK t : t = Rotated(j)
    OBVIOUS
  <1>8. t \in Seq(Slots) /\ NoTwice(t) /\ Elements(t) = Elements(queue)
    BY <1>1, <1>2, <1>6, <1>7, RotatedFacts DEF Rotated, QueueRight
  <1>9. \/ j > 0 /\ node[queue[j]].count = 0 /\ DeleteBegins(p, queue[j], t)
        \/ queue' = t /\ UNCHANGED <<node, size, drifted, del>>
    BY <1>3, <1>4, <1>7 DEF ForcedExpire
  <1>10. CASE j > 0 /\ node[queue[j]].count = 0 /\ DeleteBegins(p, queue[j], t)
    <2>1. PICK i : i = queue[j]
      OBVIOUS
    <2>2. i \in Present
      <3>1. j \in DOMAIN queue
        BY <1>2, <1>6, <1>10
      <3>2. QED
        BY <1>1, <2>1, <3>1 DEF QueueRight, Elements
    <2>3. Elements(t) \subseteq Present
      BY <1>1, <1>8 DEF QueueRight
    <2>4. QED
      BY <1>8, <1>10, <2>1, <2>2, <2>3, DeleteBeginsKeeps
  <1>11. CASE queue' = t /\ UNCHANGED <<node, size, drifted, del>>
    BY <1>8, <1>11, QueueMovesKeeps
  <1>12. QED
    BY <1>9, <1>10, <1>11

LEMMA ExpelKeeps ==
    ASSUME IInv, NEW r \in Requests, Expel(r)
    PROVE  IInv'
  <1>1. TypeOK /\ Placed /\ PlacedAt(r) /\ r \in Deleters
    BY Constants DEF IInv, Placed
  <1>2. del[r] = Nowhere /\ req[r].node = None
    BY <1>1 DEF PlacedAt, Expel
  <1>3. ZoneKept /\ \A d \in Deleters \ {r} : del'[d] = del[d]
    BY <1>1, <1>2, ForcedExpireKeeps DEF Expel
  <1>4. at' = [at EXCEPT ![r] = "again"] /\ UNCHANGED req
    BY DEF Expel, Goto
  <1>5. at' \in [Requests -> Points]
    BY <1>1, <1>4 DEF TypeOK, Points
  <1>6. TypeOK'
    BY <1>1, <1>3, <1>5 DEF TypeOK, ZoneKept, DelType, Expel, loader
  <1>7. Placed'
    <2>1. at'[r] = "again"
      BY <1>1, <1>4 DEF TypeOK
    <2>2. PlacedAt(r)'
      BY <1>1, <1>2, <1>4, <2>1 DEF PlacedAt, Within
    <2>3. \A q \in Requests \ {r} :
              at'[q] = at[q] /\ req'[q] = req[q] /\ del'[q] = del[q]
      BY <1>1, <1>3, <1>4, Constants DEF TypeOK
    <2>4. QED
      BY <1>1, <2>2, <2>3, PlacedStep
  <1>8. QED
    BY <1>3, <1>6, <1>7 DEF ZoneKept, IInv

(* A step of the manager at the zone. *)
LEMMA ManagerKeeps ==
    ASSUME IInv, ZoneKept, \A d \in Deleters \ {Manager} : del'[d] = del[d],
           UNCHANGED <<watermark, cold, loader, file, at, req, lost, crashes>>
    PROVE  IInv'
  <1>1. TypeOK'
    BY DEF IInv, TypeOK, ZoneKept, DelType, loader
  <1>2. \A q \in Requests : del'[q] = del[q]
    BY Constants
  <1>3. Placed'
    BY <1>2 DEF IInv, Placed, PlacedAt
  <1>4. QED
    BY <1>1, <1>3 DEF ZoneKept, IInv

LEMMA ManagerForcedKeeps ==
    ASSUME IInv, ManagerForced
    PROVE  IInv'
  <1>1. Manager \in Deleters
    BY Constants
  <1>2. ZoneKept /\ \A d \in Deleters \ {Manager} : del'[d] = del[d]
    BY <1>1, ForcedExpireKeeps DEF ManagerForced
  <1>3. QED
    BY <1>2, ManagerKeeps DEF ManagerForced

LEMMA ManagerExpireKeeps ==
    ASSUME IInv, ManagerExpire
    PROVE  IInv'
  <1>1. TypeOK /\ QueueRight /\ queue \in Seq(Slots) /\ Manager \in Deleters
    BY Constants DEF IInv, TypeOK
  <1>2. PICK i : i = Last(queue)
    OBVIOUS
  <1>3. i \in Elements(queue)
    <2>1. queue # <<>>
      BY DEF ManagerExpire
    <2>2. Len(queue) \in DOMAIN queue
      BY <1>1, <2>1
    <2>3. QED
      BY <1>2, <2>2 DEF Last, Elements
  <1>4. i \in Present /\ i \in Slots
    BY <1>1, <1>3 DEF QueueRight, TypeOK
  <1>5. UNCHANGED <<watermark, cold, loader, file, at, req, lost, crashes>>
    BY DEF ManagerExpire
  <1>6. CASE node[i].count = 0 /\ DeleteBegins(Manager, i, queue)
    <2>1. ZoneKept /\ \A d \in Deleters \ {Manager} : del'[d] = del[d]
      BY <1>1, <1>4, <1>5, <1>6, DeleteBeginsKeeps DEF ManagerExpire, QueueRight
    <2>2. QED
      BY <1>5, <2>1, ManagerKeeps
  <1>7. CASE queue' = ToHead(i) /\ UNCHANGED <<node, size, drifted, del>>
    <2>1. PICK t : t = ToHead(i)
      OBVIOUS
    <2>2. t \in Seq(Slots) /\ NoTwice(t) /\ Elements(t) = Elements(queue) \cup {i}
      BY <1>1, <1>4, <2>1, ToHeadFacts DEF ToHead, QueueRight
    <2>3. ZoneKept
      BY <1>3, <1>5, <1>7, <2>1, <2>2, QueueMovesKeeps
    <2>4. QED
      BY <1>5, <1>7, <2>3, ManagerKeeps
  <1>8. QED
    BY <1>2, <1>6, <1>7 DEF ManagerExpire

LEMMA DeleteFileKeeps ==
    ASSUME IInv, NEW p \in Deleters, DeleteFile(p)
    PROVE  IInv'
  <1> USE DEF DeleteFile, zone, loader, history
  <1>1. TypeOK /\ del[p] # Nowhere
    BY DEF IInv, Nowhere
  <1>2. PICK d \in [node : Slots, stage : {"unlink", "relock"}] :
            d = del[p] /\ del' = [del EXCEPT ![p] = [d EXCEPT !.stage = "relock"]]
    BY <1>1 DEF TypeOK
  <1>3. PICK e : e = [d EXCEPT !.stage = "relock"]
    OBVIOUS
  <1>4. /\ e \in [node : Slots, stage : {"unlink", "relock"}]
        /\ e.node = d.node /\ e # Nowhere
    BY <1>3 DEF Nowhere
  <1>5. /\ del'[p] = e /\ \A q \in Deleters \ {p} : del'[q] = del[q]
        /\ del' \in DelType
    BY <1>1, <1>2, <1>3, <1>4 DEF TypeOK, DelType
  <1>6. TypeOK'
    BY <1>1, <1>5 DEF TypeOK, DelType, Present
  <1>7. Placed'
    <2>1. \A q \in Requests : del[q] = Nowhere => del'[q] = Nowhere
      BY <1>1, <1>5, Constants
    <2>2. QED
      BY <2>1 DEF IInv, Placed, PlacedAt
  <1>8. \A q \in Deleters : del'[q].node = del[q].node
    BY <1>2, <1>4, <1>5
  <1>9. Places' /\ QueueRight' /\ SizeIsFiles'
    BY <1>8, QuietKeeps DEF SameNode
  <1>10. QED
    BY <1>6, <1>7, <1>9 DEF IInv

LEMMA DeleteEndsKeeps ==
    ASSUME IInv, NEW p \in Deleters, DeleteEnds(p)
    PROVE  IInv'
  <1>1. /\ TypeOK /\ Places /\ SizeIsFiles /\ QueueRight /\ del[p] # Nowhere
        /\ size \in Int /\ drifted \in BOOLEAN
    BY DEF IInv, Nowhere, DeleteEnds, TypeOK
  <1>2. PICK i : i = del[p].node
    OBVIOUS
  <1>3. i \in Present /\ node[i].count > 0
    BY <1>1, <1>2, HeldNodes
  <1>4. i \in Slots /\ node[i] \in NodeType /\ Sound(i)
    BY <1>1, <1>3 DEF TypeOK, Places, Place
  <1>5. /\ del' \in DelType /\ del'[p] = Nowhere
        /\ \A q \in Deleters \ {p} : del'[q] = del[q]
    BY <1>1 DEF DeleteEnds, TypeOK, DelType
  <1>6. UNCHANGED <<watermark, cold, loader, file, at, req, lost, crashes>>
    BY DEF DeleteEnds
  <1>7. node[i].deleting
    <2>1. p \in Dels(i)
      BY <1>2 DEF Dels
    <2>2. QED
      BY <1>4, <2>1 DEF Sound, DeletingRight
  <1>8. Placed'
    <2>1. \A q \in Requests : del[q] = Nowhere => del'[q] = Nowhere
      BY <1>5, Constants
    <2>2. QED
      BY <1>6, <2>1 DEF IInv, Placed, PlacedAt
  <1>9. ZoneKept => IInv'
    <2>1. ZoneKept => TypeOK'
      BY <1>1, <1>6 DEF TypeOK, ZoneKept, DelType, loader
    <2>2. QED
      BY <1>8, <2>1 DEF ZoneKept, IInv
  <1>10. CASE node[i].count = 1 /\ RemoveNode(i) /\ UNCHANGED <<size, drifted>>
    <2>1. DOMAIN node' = DOMAIN node \ {i} /\ NodesBut(i)
      BY <1>3, <1>10, RemoveNodeFacts DEF RemoveNode
    <2>2. queue' \in Seq(Slots) /\ QueueRight'
      BY <1>1, <1>10, <2>1, RemovedFromQueue DEF RemoveNode, QueueRight, TypeOK
    <2>3. Present' \subseteq Slots /\ \A j \in Present' : node'[j] \in NodeType
      BY <1>1, <1>4, <2>1, NodesTyped
    <2>4. Weight(i)' = Weight(i)
      BY <1>7, <2>1 DEF Weight, Files, Present
    <2>5. SizeIsFiles'
      BY <1>1, <1>10, <2>1, <2>3, <2>4, SizeKept
    <2>6. Places'
      BY <1>1, <1>2, <1>3, <1>5, <1>6, <1>10, <2>1, DeletedKeepsPlaces
         DEF NodesBut, Present
    <2>7. QED
      BY <1>1, <1>5, <1>9, <1>10, <2>2, <2>3, <2>5, <2>6 DEF ZoneKept
  <1>11. CASE /\ node[i].count > 1
              /\ node' = [node EXCEPT ![i].count = @ - 1, ![i].deleting = FALSE]
              /\ SetSize(size, TRUE) /\ UNCHANGED queue
    <2>1. PICK c \in Nat : c = node[i].count - 1
      BY <1>4, <1>11 DEF NodeType
    <2>2. PICK n : n = [node[i] EXCEPT !.count = c, !.deleting = FALSE]
      OBVIOUS
    <2>3. node' = [node EXCEPT ![i] = n]
      BY <1>3, <1>11, <2>1, <2>2 DEF Present
    <2>4. n \in NodeType
      BY <1>4, <2>2 DEF NodeType
    <2>5. /\ n.count = node[i].count - 1 /\ n.deleting = FALSE
          /\ n.key = node[i].key /\ n.updating = node[i].updating
          /\ n.lockGen = node[i].lockGen
          /\ n.exists = node[i].exists /\ n.size = node[i].size
      BY <1>4, <2>1, <2>2 DEF NodeType
    <2>6. DOMAIN node' = DOMAIN node /\ node'[i] = n /\ NodesBut(i)
      BY <1>3, <2>3, NodeReplaced
    <2>7. Present' \subseteq Slots /\ \A j \in Present' : node'[j] \in NodeType
      BY <1>1, <1>4, <2>4, <2>6, NodesTyped
    <2>8. queue' \in Seq(Slots) /\ QueueRight'
      BY <1>1, <1>11, <2>6 DEF QueueRight, Present, TypeOK
    <2>9. drifted' = TRUE /\ size' = 0
      BY <1>11 DEF SetSize
    <2>10. SizeIsFiles'
      BY <2>9 DEF SizeIsFiles
    <2>11. Places'
      BY <1>1, <1>2, <1>3, <1>5, <1>6, <2>5, <2>6, DeleteEndKeepsPlaces
         DEF NodesBut, Present
    <2>12. QED
      BY <1>5, <1>9, <2>7, <2>8, <2>9, <2>10, <2>11 DEF ZoneKept
  <1>12. QED
    BY <1>2, <1>10, <1>11 DEF DeleteEnds

-----------------------------------------------------------------------------
(***************************************************************************)
(* The loader.                                                             *)
(***************************************************************************)
LEMMA LoaderSeesKeeps ==
    ASSUME IInv, LoaderSees
    PROVE  IInv'
  <1> USE DEF LoaderSees, zone, history
  <1>1. TypeOK'
    BY DEF IInv, TypeOK, Present
  <1>2. Placed'
    BY DEF IInv, Placed, PlacedAt
  <1>3. Places' /\ QueueRight' /\ SizeIsFiles'
    BY QuietKeeps DEF SameNode
  <1>4. QED
    BY <1>1, <1>2, <1>3 DEF IInv

LEMMA LoaderDeletesKeeps ==
    ASSUME IInv, LoaderDeletes
    PROVE  IInv'
  <1> USE DEF LoaderDeletes, zone, history
  <1>1. TypeOK'
    BY DEF IInv, TypeOK, Present
  <1>2. Placed'
    BY DEF IInv, Placed, PlacedAt
  <1>3. Places' /\ QueueRight' /\ SizeIsFiles'
    BY QuietKeeps DEF SameNode
  <1>4. QED
    BY <1>1, <1>2, <1>3 DEF IInv

LEMMA LoaderEndsKeeps ==
    ASSUME IInv, LoaderEnds
    PROVE  IInv'
  <1> USE DEF LoaderEnds, loader, history
  <1>1. TypeOK'
    BY DEF IInv, TypeOK, Present
  <1>2. Placed'
    BY DEF IInv, Placed, PlacedAt
  <1>3. Places' /\ QueueRight' /\ SizeIsFiles'
    BY QuietKeeps DEF SameNode
  <1>4. QED
    BY <1>1, <1>2, <1>3 DEF IInv

(* There is a free place in a zone that is not full. *)
LEMMA FreePlace ==
    ASSUME TypeOK, ~Full
    PROVE  \E i \in Slots : i = Min(Slots \ Present) /\ i \notin Present
  <1>1. Slots \ Present # {}
    BY DEF Full, TypeOK
  <1>2. Slots \ Present \in SUBSET Nat
    BY Constants
  <1>3. Min(Slots \ Present) \in Slots \ Present
    BY <1>1, <1>2, MinIsMember
  <1>4. QED
    BY <1>3

LEMMA WithFacts ==
    ASSUME NEW i, NEW n, node' = With(i, n)
    PROVE  /\ DOMAIN node' = DOMAIN node \cup {i} /\ node'[i] = n /\ NodesBut(i)
  BY DEF With, NodesBut, Present

LEMMA LoaderAddsKeeps ==
    ASSUME IInv, LoaderAdds
    PROVE  IInv'
  <1>1. /\ TypeOK /\ Places /\ SizeIsFiles /\ QueueRight /\ size \in Int
        /\ drifted \in BOOLEAN /\ queue \in Seq(Slots)
    BY DEF IInv, TypeOK
  <1>2. UNCHANGED <<cold, toLoad, file, at, req, del, lost, crashes>>
    BY DEF LoaderAdds
  <1>3. Placed'
    BY <1>2 DEF IInv, Placed, PlacedAt
  <1>4. loading.stage = "add" /\ loading \in [key : Keys, stage : {"add", "delete"}]
    BY <1>1 DEF LoaderAdds, TypeOK, NoFile
  <1>5. PICK k \in Keys : k = loading.key
    BY <1>4
  <1>6. ZoneKept /\ watermark' \in Nat
           /\ loading' \in [key : Keys, stage : {"add", "delete"}] \cup {NoFile}
        => IInv'
    <2>1. ZoneKept /\ watermark' \in Nat
             /\ loading' \in [key : Keys, stage : {"add", "delete"}] \cup {NoFile}
          => TypeOK'
      BY <1>1, <1>2 DEF TypeOK, ZoneKept, DelType
    <2>2. QED
      BY <1>3, <2>1 DEF ZoneKept, IInv
  <1>7. CASE /\ \E i \in NodesOf(k) : queue' = ToHead(i)
             /\ loading' = NoFile
             /\ UNCHANGED <<node, size, drifted, watermark>>
    <2>1. PICK i \in NodesOf(k) : queue' = ToHead(i)
      BY <1>7
    <2>2. i \in Present /\ i \in Slots
      BY <1>1 DEF NodesOf, TypeOK
    <2>3. PICK t : t = ToHead(i)
      OBVIOUS
    <2>4. t \in Seq(Slots) /\ NoTwice(t) /\ Elements(t) = Elements(queue) \cup {i}
      BY <1>1, <2>2, <2>3, ToHeadFacts DEF ToHead, QueueRight
    <2>5. Places' /\ SizeIsFiles'
      <3>1. Places'
        BY <1>1, <1>2, <1>7, QuietKeepsPlaces DEF SameNode
      <3>2. SizeIsFiles'
        BY <1>1, <1>7 DEF SizeIsFiles, Present
      <3>3. QED
        BY <3>1, <3>2
    <2>6. QueueRight'
      BY <1>1, <1>7, <2>1, <2>2, <2>3, <2>4 DEF QueueRight, Present
    <2>7. ZoneKept
      BY <1>1, <1>2, <1>7, <2>1, <2>3, <2>4, <2>5, <2>6
         DEF ZoneKept, TypeOK, DelType, Present
    <2>8. QED
      BY <1>1, <1>6, <1>7, <2>7 DEF TypeOK
  <1>8. CASE /\ ~Full
             /\ LET i == Min(Slots \ Present) IN
                /\ node' = With(i, [NewNode(k) EXCEPT !.exists = TRUE, !.size = 1])
                /\ queue' = <<i>> \o queue
             /\ SetSize(size + 1, FALSE)
             /\ loading' = NoFile /\ UNCHANGED watermark
    <2>1. PICK i \in Slots : i = Min(Slots \ Present) /\ i \notin Present
      BY <1>1, <1>8, FreePlace
    <2>2. PICK n : n = [NewNode(k) EXCEPT !.exists = TRUE, !.size = 1]
      OBVIOUS
    <2>3. node' = With(i, n) /\ queue' = <<i>> \o queue
      BY <1>8, <2>1, <2>2
    <2>4. /\ n \in NodeType /\ n.count = 0 /\ ~n.deleting /\ ~n.updating
          /\ n.exists /\ n.size = 1
      <3>1. n = [key |-> k, count |-> 0, uses |-> 1, error |-> FALSE,
                 exists |-> TRUE, size |-> 1, updating |-> FALSE,
                 deleting |-> FALSE, lockGen |-> 0, aged |-> TRUE]
        BY <2>2 DEF NewNode
      <3>2. n \in NodeType
        BY <3>1 DEF NodeType
      <3>3. QED
        BY <3>1, <3>2
    <2>5. DOMAIN node' = DOMAIN node \cup {i} /\ node'[i] = n /\ NodesBut(i)
      BY <2>3, WithFacts
    <2>6. Present' \subseteq Slots /\ \A j \in Present' : node'[j] \in NodeType
      BY <1>1, <2>4, <2>5, NodesTyped
    <2>7. queue' \in Seq(Slots) /\ QueueRight'
      <3>1. i \notin Elements(queue)
        BY <1>1, <2>1 DEF QueueRight
      <3>2. PICK t : t = <<i>> \o queue
        OBVIOUS
      <3>3. t \in Seq(Slots) /\ NoTwice(t) /\ Elements(t) = Elements(queue) \cup {i}
        BY <1>1, <3>1, <3>2, PushFacts DEF QueueRight
      <3>4. Elements(t) \subseteq Present'
        BY <1>1, <2>5, <3>3 DEF QueueRight, Present
      <3>5. QED
        BY <2>3, <3>2, <3>3, <3>4 DEF QueueRight
    <2>8. Weight(i) = 0 /\ Weight(i)' = 1
      BY <2>1, <2>4, <2>5 DEF Weight, Files, Present
    <2>9. size + 1 \in Int /\ size + 1 = size + Weight(i)' - Weight(i)
      BY <1>1, <2>8
    <2>10. SizeIsFiles' /\ size' \in Int /\ drifted' \in BOOLEAN
      BY <1>1, <1>8, <2>5, <2>6, <2>9, SizeStep
    <2>11. Places'
      BY <1>1, <1>2, <2>1, <2>4, <2>5, AddKeepsPlaces DEF NodesBut, Present
    <2>12. ZoneKept
      BY <1>1, <1>2, <2>6, <2>7, <2>10, <2>11 DEF ZoneKept, TypeOK, DelType
    <2>13. QED
      BY <1>1, <1>6, <1>8, <2>12 DEF TypeOK
  <1>9. CASE /\ watermark' = Watermark
             /\ loading' = [loading EXCEPT !.stage = "delete"]
             /\ UNCHANGED <<node, queue, size, drifted>>
    <2>1. ZoneKept
      <3>1. Elements(queue') = Elements(queue) /\ NoTwice(queue')
        BY <1>1, <1>9 DEF QueueRight
      <3>2. QED
        BY <1>1, <1>2, <1>9, <3>1, QueueMovesKeeps
    <2>2. watermark' \in Nat
      BY <1>1, <1>9, WatermarkType
    <2>3. loading' \in [key : Keys, stage : {"add", "delete"}]
      BY <1>4, <1>9
    <2>4. QED
      BY <1>6, <2>1, <2>2, <2>3
  <1>10. QED
    BY <1>5, <1>7, <1>8, <1>9 DEF LoaderAdds

-----------------------------------------------------------------------------
LEMMA CrashKeeps ==
    ASSUME IInv, NEW p \in Deleters, Crash(p)
    PROVE  IInv'
  <1>1. TypeOK /\ Placed /\ Places
    BY DEF IInv
  <1>2. Places'
    BY <1>1, CrashKeepsPlaces
  <1>3. UNCHANGED <<node, queue, size, drifted>>
    BY DEF Crash, zone
  <1>4. QueueRight' /\ SizeIsFiles'
    BY <1>3 DEF IInv, QueueRight, SizeIsFiles, Present
  <1>5. del'[p] = Nowhere /\ \A q \in Deleters \ {p} : del'[q] = del[q]
    BY <1>1 DEF Crash, TypeOK
  <1>6. del' \in DelType
    BY <1>1 DEF Crash, TypeOK, DelType
  <1>7. lost' \in [Slots -> Nat]
    <2>1. \A i \in Slots : Counts(p, i) \in Nat
      BY DEF Counts
    <2>2. \A i \in Slots : lost[i] + Counts(p, i) \in Nat
      BY <1>1, <2>1 DEF TypeOK
    <2>3. lost' = [i \in Slots |-> lost[i] + Counts(p, i)]
      BY DEF Crash
    <2> HIDE DEF Counts
    <2>4. QED
      BY <2>2, <2>3
  <1>8. crashes' \in 0 .. MaxCrashes
    <2>1. MaxCrashes \in Nat /\ crashes \in 0 .. MaxCrashes
      BY <1>1, Constants DEF TypeOK
    <2>2. crashes < MaxCrashes /\ crashes' = crashes + 1
      BY DEF Crash
    <2>3. QED
      BY <2>1, <2>2
  <1>9. CASE p \in Requests
    <2>1. req' = [req EXCEPT ![p] = NewReq(p)] /\ at' = [at EXCEPT ![p] = "done"]
      BY <1>9 DEF Crash, Over, Goto
    <2>2. at' \in [Requests -> Points] /\ req' \in [Requests -> ReqType]
      BY <1>1, <1>9, <2>1, NewReqType DEF TypeOK, Points
    <2>3. TypeOK'
      BY <1>1, <1>3, <1>6, <1>7, <1>8, <2>2
         DEF TypeOK, Crash, zone, loader, DelType, Present
    <2>4. req'[p] = NewReq(p) /\ at'[p] = "done"
      BY <1>1, <1>9, <2>1 DEF TypeOK
    <2>5. PlacedAt(p)'
      BY <1>5, <2>4 DEF PlacedAt, Within, NewReq
    <2>6. \A q \in Requests \ {p} :
              at'[q] = at[q] /\ req'[q] = req[q] /\ del'[q] = del[q]
      BY <1>1, <1>5, <2>1, Constants DEF TypeOK
    <2>7. Placed'
      BY <1>1, <2>5, <2>6, PlacedStep
    <2>8. QED
      BY <1>2, <1>4, <2>3, <2>7 DEF IInv
  <1>10. CASE p \notin Requests
    <2>1. UNCHANGED <<at, req>>
      BY <1>10 DEF Crash
    <2>2. TypeOK'
      BY <1>1, <1>3, <1>6, <1>7, <1>8, <2>1
         DEF TypeOK, Crash, zone, loader, DelType, Present
    <2>3. \A q \in Requests : del'[q] = del[q]
      BY <1>5, <1>10, Constants
    <2>4. Placed'
      BY <1>1, <2>1, <2>3 DEF Placed, PlacedAt
    <2>5. QED
      BY <1>2, <1>4, <2>2, <2>4 DEF IInv
  <1>11. QED
    BY <1>9, <1>10

-----------------------------------------------------------------------------
(***************************************************************************)
(* Steps in which a request keeps its node and changes it.                 *)
(***************************************************************************)
LEMMA EditedKeeps ==
    ASSUME IInv, NEW r \in Requests, NEW i \in Present, i = req[r].node,
           DOMAIN node' = DOMAIN node, NodesBut(i), node'[i] \in NodeType,
           node'[i].count = node[i].count, node'[i].key = node[i].key,
           node'[i].deleting = node[i].deleting,
           ~node'[i].exists => node'[i].size = 0, HasOwner(i)',
           at' \in [Requests -> Points], req' \in [Requests -> ReqType],
           req'[r].node = i, req'[r].key = req[r].key,
           \A q \in Requests \ {r} : req'[q] = req[q] /\ at'[q] = at[q],
           PlacedAt(r)',
           queue' \in Seq(Slots), QueueRight',
           size' \in Int, drifted' \in BOOLEAN, SizeIsFiles',
           UNCHANGED <<watermark, cold, loader, file, del, lost, crashes>>
    PROVE  IInv'
  <1>1. TypeOK /\ Placed /\ Places /\ i \in Slots
    BY DEF IInv, TypeOK
  <1>2. Present' \subseteq Slots /\ \A j \in Present' : node'[j] \in NodeType
    BY <1>1, NodesTyped
  <1>3. TypeOK'
    BY <1>1, <1>2 DEF TypeOK, loader
  <1>4. Placed'
    BY <1>1, PlacedStep
  <1>5. Places'
    <2>1. \A q \in Requests : /\ req'[q].node = req[q].node
                              /\ req[q].node # None => req'[q].key = req[q].key
                              /\ req[q].node # i => SameNode(q)
      BY DEF SameNode
    <2>2. \A j \in Present \ {i} : node'[j] = node[j]
      BY DEF NodesBut, Present
    <2>3. QED
      BY <1>1, <2>1, <2>2, EditKeepsPlaces
  <1>6. QED
    BY <1>3, <1>4, <1>5 DEF IInv

(* The owner of a mark stays, with its mark. *)
LEMMA OwnerKept ==
    ASSUME NEW i, HasOwner(i), node'[i].updating => node[i].updating,
           node'[i].lockGen = node[i].lockGen, UNCHANGED lost,
           \A q \in Requests : req[q].node = i /\ req[q].updating =>
               /\ req'[q].node = i /\ req'[q].updating
               /\ req'[q].lockGen = req[q].lockGen
    PROVE  HasOwner(i)'
  BY DEF HasOwner, Users

LEMMA LearntType ==
    ASSUME NEW n \in NodeType
    PROVE  [n EXCEPT !.uses = 1, !.exists = TRUE, !.size = 1] \in NodeType
  <1>1. PICK u \in Nat, z \in 0 .. 1 : u = 1 /\ z = 1
    OBVIOUS
  <1>2. [n EXCEPT !.uses = u, !.exists = TRUE, !.size = z] \in NodeType
    BY DEF NodeType
  <1>3. QED
    BY <1>1, <1>2

LEMMA ReadKeeps ==
    ASSUME IInv, NEW r \in Requests, Read(r)
    PROVE  IInv'
  <1>1. /\ TypeOK /\ SizeIsFiles /\ PlacedAt(r) /\ QueueRight /\ cold \in BOOLEAN
        /\ size \in Int /\ drifted \in BOOLEAN
    BY DEF IInv, Placed, TypeOK
  <1>2. PICK i \in Slots : /\ i = req[r].node /\ i # None /\ i \in Present
                           /\ node[i] \in NodeType
                           /\ node[i].count \in Nat /\ node[i].count > 0
                           /\ Sound(i)
    BY AtNode DEF Read, Within
  <1>3. PICK learn \in BOOLEAN : learn = (cold /\ ~node[i].exists)
    OBVIOUS
  <1>4. PICK n : n = IF learn THEN [node[i] EXCEPT !.uses = 1, !.exists = TRUE,
                                                  !.size = 1]
                              ELSE node[i]
    OBVIOUS
  <1>5. DOMAIN node' = DOMAIN node /\ node'[i] = n /\ NodesBut(i)
    <2>1. CASE learn
      <3>1. node' = [node EXCEPT ![i] = n]
        BY <1>2, <1>3, <1>4, <2>1 DEF Read, Present
      <3>2. QED
        BY <1>2, <3>1, NodeReplaced
    <2>2. CASE ~learn
      BY <1>2, <1>3, <1>4, <2>2 DEF Read, NodesBut
    <2>3. QED
      BY <2>1, <2>2
  <1>6. n \in NodeType
    BY <1>2, <1>4, LearntType
  <1>7. /\ n.count = node[i].count /\ n.key = node[i].key
        /\ n.deleting = node[i].deleting /\ n.updating = node[i].updating
        /\ n.lockGen = node[i].lockGen
        /\ n.exists = (learn \/ node[i].exists)
        /\ n.size = IF learn THEN 1 ELSE node[i].size
    <2>1. CASE learn
      BY <1>2, <1>4, <2>1 DEF NodeType
    <2>2. CASE ~learn
      BY <1>2, <1>4, <2>2 DEF NodeType
    <2>3. QED
      BY <2>1, <2>2
  <1>8. /\ at' = [at EXCEPT ![r] = "judge"]
        /\ UNCHANGED <<queue, watermark, cold, loader, file, req, del, lost, crashes>>
    BY DEF Read, Goto
  <1>9. HasOwner(i)'
    BY <1>2, <1>5, <1>7, <1>8, OwnerKept DEF Sound
  <1>10. at' \in [Requests -> Points] /\ at'[r] = "judge"
    BY <1>1, <1>8 DEF TypeOK, Points
  <1>11. PlacedAt(r)'
    BY <1>1, <1>2, <1>8, <1>10 DEF PlacedAt, Within, Read
  <1>12. \A q \in Requests \ {r} : req'[q] = req[q] /\ at'[q] = at[q]
    BY <1>1, <1>8 DEF TypeOK
  <1>13. ~n.exists => n.size = 0
    BY <1>2, <1>7 DEF Sound, SizeRight
  <1>14. SizeIsFiles' /\ size' \in Int /\ drifted' \in BOOLEAN
    <2>1. PICK d \in BOOLEAN : d = (learn /\ node[i].deleting)
      OBVIOUS
    <2>2. PICK s \in Int : s = IF learn THEN size + 1 ELSE size
      BY <1>1
    <2>3. SetSize(s, d)
      BY <1>2, <1>3, <2>1, <2>2 DEF Read
    <2>4. ~drifted' => ~learn \/ ~node[i].deleting
      BY <2>1, <2>3 DEF SetSize
    <2>5. node[i].size \in 0 .. 1 /\ (learn => node[i].size = 0)
      BY <1>2, <1>3 DEF NodeType, Sound, SizeRight
    <2>6. ~drifted' => s = size + Weight(i)' - Weight(i)
      <3>1. CASE learn
        <4>1. Weight(i) = 0
          BY <2>5, <3>1 DEF Weight, Files
        <4>2. ~drifted' => Weight(i)' = 1
          BY <1>2, <1>5, <1>7, <2>4, <3>1 DEF Weight, Files, Present
        <4>3. QED
          BY <1>1, <2>2, <3>1, <4>1, <4>2
      <3>2. CASE ~learn
        <4>1. PICK w \in 0 .. 1 : w = Weight(i)
          BY DEF Weight
        <4>2. Weight(i)' = w
          BY <1>2, <1>5, <1>7, <3>2, <4>1 DEF Weight, Files, Present
        <4>3. QED
          BY <1>1, <2>2, <3>2, <4>1, <4>2
      <3>3. QED
        BY <3>1, <3>2
    <2>7. Present' \subseteq Slots
      BY <1>1, <1>5 DEF TypeOK, Present
    <2>8. QED
      BY <1>1, <1>5, <2>3, <2>6, <2>7, SizeStep
  <1>15. queue' \in Seq(Slots) /\ QueueRight' /\ req' \in [Requests -> ReqType]
    BY <1>1, <1>5, <1>8 DEF TypeOK, QueueRight, Present
  <1>16. QED
    BY <1>2, <1>5, <1>6, <1>7, <1>8, <1>9, <1>10, <1>11, <1>12, <1>13, <1>14,
       <1>15, EditedKeeps

(***************************************************************************)
(* A request that comes to the question who updates the node: x is what    *)
(* becomes of it, and n of the node.  It becomes the owner of the mark or  *)
(* leaves the mark to whom it belongs.                                     *)
(***************************************************************************)
LEMMA MarkKeeps ==
    ASSUME IInv, NEW r \in Requests, NEW i \in Present, i = req[r].node,
           at[r] \in {"judge", "lock"},
           DOMAIN node' = DOMAIN node, NodesBut(i), node'[i] \in NodeType,
           node'[i].count = node[i].count, node'[i].key = node[i].key,
           node'[i].deleting = node[i].deleting, node'[i].size = node[i].size,
           node'[i].exists = node[i].exists,
           \/ req'[r].updating /\ req'[r].lockGen = node'[i].lockGen
           \/ /\ node'[i].updating = node[i].updating
              /\ node'[i].lockGen = node[i].lockGen,
           NEW x \in ReqType, req' = [req EXCEPT ![r] = x],
           x.node = i, x.key = req[r].key, x.switched = req[r].switched,
           NEW pt \in Points, at' = [at EXCEPT ![r] = pt],
           pt \in {"fetch", "free"} \/ (pt = "waiting" /\ x.updating = req[r].updating),
           UNCHANGED <<queue, size, watermark, cold, loader, file, del, history>>
    PROVE  IInv'
  <1>1. TypeOK /\ SizeIsFiles /\ PlacedAt(r) /\ QueueRight
    BY DEF IInv, Placed
  <1>2. i \in Slots /\ i # None /\ Sound(i)
    BY <1>1, Constants DEF IInv, Places, Place, TypeOK
  <1>3. ~req[r].switched /\ ~req[r].updating /\ del[r] = Nowhere
    BY <1>1 DEF PlacedAt
  <1>4. req'[r] = x /\ at'[r] = pt
    BY <1>1 DEF TypeOK
  <1>5. \A q \in Requests \ {r} : req'[q] = req[q] /\ at'[q] = at[q]
    BY <1>1 DEF TypeOK
  <1>6. HasOwner(i)'
    <2>1. CASE req'[r].updating /\ req'[r].lockGen = node'[i].lockGen
      BY <1>4, <2>1 DEF HasOwner, Users
    <2>2. CASE /\ node'[i].updating = node[i].updating
               /\ node'[i].lockGen = node[i].lockGen
      <3>1. \A q \in Requests : req[q].node = i /\ req[q].updating =>
                /\ req'[q].node = i /\ req'[q].updating
                /\ req'[q].lockGen = req[q].lockGen
        BY <1>3, <1>5
      <3>2. QED
        BY <1>2, <2>2, <3>1, OwnerKept DEF Sound, history
    <2>3. QED
      BY <2>1, <2>2
  <1>7. PlacedAt(r)'
    BY <1>2, <1>3, <1>4 DEF PlacedAt, Within
  <1>8. at' \in [Requests -> Points] /\ req' \in [Requests -> ReqType]
    BY <1>1 DEF TypeOK
  <1>9. ~node'[i].exists => node'[i].size = 0
    BY <1>2 DEF Sound, SizeRight
  <1>10. SizeIsFiles' /\ size' \in Int /\ drifted' \in BOOLEAN
    <2>1. Weight(i)' = Weight(i)
      BY DEF Weight, Files, Present
    <2>2. Present' \subseteq Slots
      BY <1>1 DEF TypeOK, Present
    <2>3. QED
      BY <1>1, <2>1, <2>2, SizeKept DEF TypeOK, history
  <1>11. queue' \in Seq(Slots) /\ QueueRight'
    BY <1>1 DEF TypeOK, QueueRight, Present
  <1>12. UNCHANGED <<watermark, cold, loader, file, del, lost, crashes>>
    BY DEF history
  <1>13. QED
    BY <1>4, <1>5, <1>6, <1>7, <1>8, <1>9, <1>10, <1>11, <1>12, EditedKeeps

LEMMA JudgeKeeps ==
    ASSUME IInv, NEW r \in Requests, Judge(r)
    PROVE  IInv'
  <1>1. /\ TypeOK /\ req[r] \in ReqType /\ req \in [Requests -> ReqType]
        /\ at \in [Requests -> Points]
    BY DEF IInv, TypeOK
  <1>2. PICK i \in Slots : /\ i = req[r].node /\ i # None /\ i \in Present
                           /\ node[i] \in NodeType
                           /\ node[i].count \in Nat /\ node[i].count > 0
                           /\ Sound(i)
    BY AtNode DEF Judge, Within
  <1>3. UNCHANGED <<queue, size, watermark, cold, loader, file, del, history>>
    BY DEF Judge
  <1>4. PICK pt \in {"fetch", "free"} : at' = [at EXCEPT ![r] = pt]
    BY DEF Judge, Goto
  <1>5. CASE UNCHANGED <<node, req>>
    <2>1. req' = [req EXCEPT ![r] = req[r]]
      BY <1>1, <1>5
    <2>2. NodesBut(i)
      BY <1>5 DEF NodesBut
    <2>3. at[r] \in {"judge", "lock"} /\ pt \in Points
      BY DEF Judge, Points
    <2>4. QED
      BY <1>1, <1>2, <1>3, <1>4, <1>5, <2>1, <2>2, <2>3, MarkKeeps
  <1>6. CASE /\ node' = [node EXCEPT ![i].updating = TRUE]
             /\ req' = [req EXCEPT ![r].updating = ~node[i].updating,
                                   ![r].lockGen = IF ~node[i].updating
                                                  THEN node[i].lockGen ELSE @]
    <2>1. PICK n : n = [node[i] EXCEPT !.updating = TRUE]
      OBVIOUS
    <2>2. node' = [node EXCEPT ![i] = n]
      BY <1>2, <1>6, <2>1 DEF Present
    <2>3. DOMAIN node' = DOMAIN node /\ node'[i] = n /\ NodesBut(i)
      BY <1>2, <2>2, NodeReplaced
    <2>4. /\ n \in NodeType /\ n.count = node[i].count /\ n.key = node[i].key
          /\ n.deleting = node[i].deleting /\ n.size = node[i].size
          /\ n.exists = node[i].exists /\ n.lockGen = node[i].lockGen
          /\ n.updating = TRUE
      BY <1>2, <2>1 DEF NodeType
    <2>5. PICK g \in Nat : g = IF ~node[i].updating THEN node[i].lockGen
                               ELSE req[r].lockGen
      BY <1>1, <1>2 DEF NodeType, ReqType
    <2>6. PICK u \in BOOLEAN : u = ~node[i].updating
      OBVIOUS
    <2>7. PICK x : x = [req[r] EXCEPT !.updating = u, !.lockGen = g]
      OBVIOUS
    <2>8. req' = [req EXCEPT ![r] = x]
      BY <1>1, <1>6, <2>5, <2>6, <2>7
    <2>9. /\ x \in ReqType /\ x.node = req[r].node /\ x.key = req[r].key
          /\ x.switched = req[r].switched /\ x.updating = u /\ x.lockGen = g
      BY <1>1, <2>7 DEF ReqType
    <2>10. req'[r] = x
      BY <1>1, <2>8
    <2>11. \/ req'[r].updating /\ req'[r].lockGen = node'[i].lockGen
           \/ /\ node'[i].updating = node[i].updating
              /\ node'[i].lockGen = node[i].lockGen
      <3>1. node[i].updating \in BOOLEAN
        BY <1>2 DEF NodeType
      <3>2. QED
        BY <2>3, <2>4, <2>5, <2>6, <2>9, <2>10, <3>1
    <2>12. at[r] \in {"judge", "lock"} /\ pt \in Points
      BY DEF Judge, Points
    <2>13. QED
      BY <1>2, <1>3, <1>4, <2>3, <2>4, <2>8, <2>9, <2>11, <2>12, MarkKeeps
  <1>7. QED
    BY <1>2, <1>5, <1>6 DEF Judge

LEMMA LockKeeps ==
    ASSUME IInv, NEW r \in Requests, Lock(r)
    PROVE  IInv'
  <1>1. /\ TypeOK /\ req[r] \in ReqType /\ req \in [Requests -> ReqType]
        /\ at \in [Requests -> Points]
    BY DEF IInv, TypeOK
  <1>2. PICK i \in Slots : /\ i = req[r].node /\ i # None /\ i \in Present
                           /\ node[i] \in NodeType
                           /\ node[i].count \in Nat /\ node[i].count > 0
                           /\ Sound(i)
    BY AtNode DEF Lock, Within
  <1>3. UNCHANGED <<queue, size, watermark, cold, loader, file, del, history>>
    BY DEF Lock
  <1>4. PICK pt \in {"fetch", "waiting"} : at' = [at EXCEPT ![r] = pt]
    BY DEF Lock, Goto
  <1>5. at[r] \in {"judge", "lock"} /\ pt \in Points
    BY DEF Lock, Points
  <1>6. CASE UNCHANGED <<node, req>>
    <2>1. req' = [req EXCEPT ![r] = req[r]]
      BY <1>1, <1>6
    <2>2. NodesBut(i)
      BY <1>6 DEF NodesBut
    <2>3. QED
      BY <1>1, <1>2, <1>3, <1>4, <1>5, <1>6, <2>1, <2>2, MarkKeeps
  <1>7. CASE req' = [req EXCEPT ![r].scarce = req[r].impatient] /\ UNCHANGED node
    <2>1. PICK e \in BOOLEAN : e = req[r].impatient
      BY <1>1 DEF ReqType
    <2>2. PICK x : x = [req[r] EXCEPT !.scarce = e]
      OBVIOUS
    <2>3. req' = [req EXCEPT ![r] = x]
      BY <1>1, <1>7, <2>1, <2>2
    <2>4. /\ x \in ReqType /\ x.node = req[r].node /\ x.key = req[r].key
          /\ x.switched = req[r].switched /\ x.updating = req[r].updating
      BY <1>1, <2>2 DEF ReqType
    <2>5. NodesBut(i)
      BY SMTT(40), <1>7 DEF NodesBut
    <2>6. QED
      BY <1>2, <1>3, <1>4, <1>5, <1>7, <2>3, <2>4, <2>5, MarkKeeps
  <1>8. CASE /\ node' = [node EXCEPT ![i].updating = TRUE, ![i].aged = FALSE,
                                     ![i].lockGen = @ + 1]
             /\ req' = [req EXCEPT ![r].updating = TRUE,
                                   ![r].lockGen = node[i].lockGen + 1]
             /\ at' = [at EXCEPT ![r] = "fetch"]
    <2>1. PICK g \in Nat : g = node[i].lockGen + 1
      BY <1>2 DEF NodeType
    <2>2. PICK n : n = [node[i] EXCEPT !.updating = TRUE, !.aged = FALSE,
                                       !.lockGen = g]
      OBVIOUS
    <2>3. node' = [node EXCEPT ![i] = n]
      BY <1>2, <1>8, <2>1, <2>2 DEF Present
    <2>4. DOMAIN node' = DOMAIN node /\ node'[i] = n /\ NodesBut(i)
      BY <1>2, <2>3, NodeReplaced
    <2>5. n \in NodeType
      BY <1>2, <2>2 DEF NodeType
    <2>6. /\ n.count = node[i].count /\ n.key = node[i].key
          /\ n.deleting = node[i].deleting /\ n.size = node[i].size
          /\ n.exists = node[i].exists /\ n.lockGen = g
      BY <1>2, <2>2 DEF NodeType
    <2>7. PICK x : x = [req[r] EXCEPT !.updating = TRUE, !.lockGen = g]
      OBVIOUS
    <2>8. req' = [req EXCEPT ![r] = x]
      BY <1>1, <1>8, <2>1, <2>7
    <2>9. /\ x \in ReqType /\ x.node = req[r].node /\ x.key = req[r].key
          /\ x.switched = req[r].switched /\ x.updating = TRUE /\ x.lockGen = g
      BY <1>1, <2>7 DEF ReqType
    <2>10. req'[r] = x /\ "fetch" \in Points
      BY <1>1, <2>8 DEF Points
    <2>11. req'[r].updating /\ req'[r].lockGen = node'[i].lockGen
      BY <2>4, <2>6, <2>9, <2>10
    <2>12. QED
      BY <1>2, <1>3, <1>5, <1>8, <2>4, <2>5, <2>6, <2>8, <2>9, <2>10, <2>11, MarkKeeps
  <1>9. QED
    BY <1>2, <1>6, <1>7, <1>8 DEF Lock, Goto

LEMMA LockAgesKeeps ==
    ASSUME IInv, NEW i \in Present, LockAges(i)
    PROVE  IInv'
  <1>1. TypeOK /\ Places /\ SizeIsFiles /\ QueueRight
    BY DEF IInv
  <1>2. i \in Slots /\ node[i] \in NodeType /\ Sound(i)
    BY <1>1 DEF TypeOK, Places, Place
  <1>3. PICK n : n = [node[i] EXCEPT !.aged = TRUE]
    OBVIOUS
  <1>4. node' = [node EXCEPT ![i] = n]
    BY <1>3 DEF LockAges, Present
  <1>5. DOMAIN node' = DOMAIN node /\ node'[i] = n /\ NodesBut(i)
    BY <1>4, NodeReplaced
  <1>6. /\ n \in NodeType /\ n.count = node[i].count /\ n.key = node[i].key
        /\ n.deleting = node[i].deleting /\ n.size = node[i].size
        /\ n.exists = node[i].exists /\ n.lockGen = node[i].lockGen
        /\ n.updating = node[i].updating
    BY <1>2, <1>3 DEF NodeType
  <1>7. UNCHANGED <<queue, size, watermark, cold, loader, file, at, req, del, history>>
    BY DEF LockAges
  <1>8. Present' \subseteq Slots /\ \A j \in Present' : node'[j] \in NodeType
    BY <1>1, <1>2, <1>5, <1>6, NodesTyped
  <1>9. TypeOK'
    BY <1>1, <1>7, <1>8 DEF TypeOK, loader, history
  <1>10. Placed'
    BY <1>7 DEF IInv, Placed, PlacedAt
  <1>11. Places'
    <2>1. HasOwner(i)'
      BY <1>2, <1>5, <1>6, <1>7, OwnerKept DEF Sound, history
    <2>2. ~node'[i].exists => node'[i].size = 0
      BY <1>2, <1>5, <1>6 DEF Sound, SizeRight
    <2>3. \A j \in Present \ {i} : node'[j] = node[j]
      BY <1>5 DEF NodesBut, Present
    <2>4. QED
      BY <1>1, <1>5, <1>6, <1>7, <2>1, <2>2, <2>3, EditKeepsPlaces DEF SameNode, history
  <1>12. QueueRight'
    BY <1>1, <1>5, <1>7 DEF QueueRight, Present
  <1>13. SizeIsFiles'
    <2>1. Weight(i)' = Weight(i)
      BY <1>5, <1>6 DEF Weight, Files, Present
    <2>2. QED
      BY <1>1, <1>5, <1>7, <1>8, <2>1, SizeKept DEF history
  <1>14. QED
    BY <1>9, <1>10, <1>11, <1>12, <1>13 DEF IInv

-----------------------------------------------------------------------------
(***************************************************************************)
(* Entering: the end of exists().  What it makes of node n at place i.     *)
(***************************************************************************)
LEMMA EnteredKeeps ==
    ASSUME IInv, NEW r \in Requests, NEW i \in Slots, NEW n \in NodeType,
           NEW renew \in BOOLEAN, Entered(r, i, n, renew),
           at[r] \in {"open", "again"}, del[r] = Nowhere,
           n.key = req[r].key, ~n.exists => n.size = 0,
           i \in Files <=> (n.size = 1 /\ ~n.deleting),
           \/ /\ req[r].node = None
              /\ i \in Present => /\ n.count = node[i].count + 1
                                  /\ n.key = node[i].key
                                  /\ n.deleting = node[i].deleting
                                  /\ n.updating = node[i].updating
                                  /\ n.lockGen = node[i].lockGen
              /\ i \notin Present => n.count = 1 /\ ~n.deleting /\ ~n.updating
           \/ req[r].node = i /\ i \in Present /\ n = node[i],
           UNCHANGED <<watermark, cold, loader, file, del, lost, crashes>>
    PROVE  IInv'
  <1>1. /\ TypeOK /\ Places /\ SizeIsFiles /\ QueueRight /\ Placed /\ PlacedAt(r)
        /\ req[r] \in ReqType /\ size \in Int /\ drifted \in BOOLEAN
        /\ i # None /\ queue \in Seq(Slots)
    BY Constants DEF IInv, Placed, TypeOK
  <1>2. PICK error \in BOOLEAN : error = (~renew /\ n.error)
    OBVIOUS
  <1>3. PICK exists \in BOOLEAN : exists = (n.exists /\ ~renew)
    OBVIOUS
  <1>4. PICK z \in 0 .. 1 : z = IF renew THEN 0 ELSE n.size
    BY DEF NodeType
  <1>5. PICK m : m = [n EXCEPT !.error = error, !.exists = exists, !.size = z]
    OBVIOUS
  <1>6. m \in NodeType
    BY <1>5 DEF NodeType
  <1>7. /\ m.count = n.count /\ m.key = n.key /\ m.deleting = n.deleting
        /\ m.updating = n.updating /\ m.lockGen = n.lockGen
        /\ m.exists = exists /\ m.size = z
    BY <1>5 DEF NodeType
  <1>8. node' = With(i, m)
    BY <1>2, <1>3, <1>4, <1>5 DEF Entered
  <1>9. DOMAIN node' = DOMAIN node \cup {i} /\ node'[i] = m /\ NodesBut(i)
    BY <1>8, WithFacts
  <1>10. Present' \subseteq Slots /\ \A j \in Present' : node'[j] \in NodeType
    BY <1>1, <1>6, <1>9, NodesTyped
  <1>11. queue' \in Seq(Slots) /\ QueueRight'
    <2>1. PICK t : t = ToHead(i)
      OBVIOUS
    <2>2. t \in Seq(Slots) /\ NoTwice(t) /\ Elements(t) = Elements(queue) \cup {i}
      BY <1>1, <2>1, ToHeadFacts DEF ToHead, QueueRight
    <2>3. queue' = t
      BY <2>1 DEF Entered
    <2>4. Elements(t) \subseteq Present'
      BY <1>1, <1>9, <2>2 DEF QueueRight, Present
    <2>5. QED
      BY <2>2, <2>3, <2>4 DEF QueueRight
  <1>12. SizeIsFiles' /\ size' \in Int /\ drifted' \in BOOLEAN
    <2>1. n.size \in 0 .. 1
      BY DEF NodeType
    <2>2. PICK d \in BOOLEAN : d = (renew /\ n.size > 0)
      OBVIOUS
    <2>3. SetSize(size, d)
      BY <2>2 DEF Entered
    <2>4. ~drifted' => z = n.size
      <3>1. ~drifted' => ~d
        BY <2>3 DEF SetSize
      <3>2. ~d => ~renew \/ n.size = 0
        BY <2>1, <2>2
      <3>3. QED
        BY <1>4, <3>1, <3>2
    <2>5. i \in Files' <=> (z = 1 /\ ~n.deleting)
      BY <1>7, <1>9 DEF Files, Present
    <2>6. ~drifted' => Weight(i)' = Weight(i)
      BY <2>4, <2>5 DEF Weight
    <2>7. Weight(i) \in 0 .. 1
      BY DEF Weight
    <2>8. ~drifted' => size = size + Weight(i)' - Weight(i)
      BY <1>1, <2>6, <2>7
    <2>9. QED
      BY <1>1, <1>9, <1>10, <2>3, <2>8, SizeStep
  <1>13. PICK rare \in BOOLEAN :
             rare = ((IF renew THEN MinUses[r] > 1
                      ELSE ~n.exists /\ n.uses < MinUses[r]) /\ ~req[r].switched)
    OBVIOUS
  <1>14. PICK x : x = [req[r] EXCEPT !.node = i, !.error = error, !.scarce = rare]
    OBVIOUS
  <1>15. req' = [req EXCEPT ![r] = x]
    BY <1>1, <1>2, <1>13, <1>14 DEF Entered, TypeOK
  <1>16. /\ x \in ReqType /\ x.node = i /\ x.key = req[r].key
         /\ x.switched = req[r].switched /\ x.updating = req[r].updating
         /\ x.lockGen = req[r].lockGen
    BY <1>1, <1>14 DEF ReqType
  <1>17. PICK pt \in Points : /\ at' = [at EXCEPT ![r] = pt]
                              /\ req[r].switched => pt = "rename"
                              /\ ~req[r].switched =>
                                     pt \in {"free", "file", "fetch", "lock"}
    <2>1. CASE req[r].switched
      BY <2>1 DEF Entered, Goto, Points
    <2>2. CASE ~req[r].switched
      BY <2>2 DEF Entered, Goto, Points
    <2>3. QED
      BY <2>1, <2>2
  <1>18. req'[r] = x /\ at'[r] = pt
    BY <1>1, <1>15, <1>17 DEF TypeOK
  <1>19. \A q \in Requests \ {r} : req'[q] = req[q] /\ at'[q] = at[q]
    BY <1>1, <1>15, <1>17 DEF TypeOK
  <1>20. at' \in [Requests -> Points] /\ req' \in [Requests -> ReqType]
    BY <1>1, <1>15, <1>16, <1>17 DEF TypeOK
  <1>21. TypeOK'
    BY <1>1, <1>10, <1>11, <1>12, <1>20 DEF TypeOK, loader
  <1>22. PlacedAt(r)'
    <2>1. req[r].updating => req[r].switched
      BY <1>1 DEF PlacedAt
    <2>2. del'[r] = Nowhere
      OBVIOUS
    <2>3. at'[r] \in Within /\ at'[r] \notin {"expel", "again", "done"}
      BY <1>1, <1>16, <1>17, <1>18 DEF ReqType, Within
    <2>4. QED
      BY <1>1, <1>16, <1>17, <1>18, <2>1, <2>2, <2>3 DEF PlacedAt
  <1>23. Placed'
    BY <1>1, <1>19, <1>22, PlacedStep
  <1>24. ~node'[i].exists => node'[i].size = 0
    BY <1>3, <1>4, <1>7, <1>9
  <1>25. CASE /\ req[r].node = None
              /\ i \in Present => /\ n.count = node[i].count + 1
                                  /\ n.key = node[i].key
                                  /\ n.deleting = node[i].deleting
                                  /\ n.updating = node[i].updating
                                  /\ n.lockGen = node[i].lockGen
              /\ i \notin Present => n.count = 1 /\ ~n.deleting /\ ~n.updating
    <2>1. OnlyAt(r, i)
      BY <1>9, <1>19 DEF OnlyAt, NodesBut
    <2>2. /\ req'[r].node = i /\ i \in DOMAIN node' /\ req'[r].key = node'[i].key
      BY <1>7, <1>9, <1>16, <1>18
    <2>3. i \in Present => /\ node'[i].count = node[i].count + 1
                           /\ node'[i].key = node[i].key
                           /\ node'[i].deleting = node[i].deleting
                           /\ node'[i].updating = node[i].updating
                           /\ node'[i].lockGen = node[i].lockGen
      BY <1>7, <1>9, <1>25
    <2>4. i \notin Present =>
              node'[i].count = 1 /\ ~node'[i].deleting /\ ~node'[i].updating
      BY <1>7, <1>9, <1>25
    <2>5. Places'
      BY <1>1, <1>24, <1>25, <2>1, <2>2, <2>3, <2>4, EnterKeepsPlaces
    <2>6. QED
      BY <1>11, <1>12, <1>21, <1>23, <2>5 DEF IInv
  <1>26. CASE req[r].node = i /\ i \in Present /\ n = node[i]
    <2>1. DOMAIN node' = DOMAIN node
      BY <1>9, <1>26 DEF Present
    <2>2. HasOwner(i)'
      <3>1. HasOwner(i)
        BY <1>1, <1>26 DEF Places, Place, Sound
      <3>2. \A q \in Requests : req[q].node = i /\ req[q].updating =>
                /\ req'[q].node = i /\ req'[q].updating
                /\ req'[q].lockGen = req[q].lockGen
        BY <1>16, <1>18, <1>19
      <3>3. node'[i].updating = node[i].updating /\ node'[i].lockGen = node[i].lockGen
        BY <1>7, <1>9, <1>26
      <3>4. QED
        BY <3>1, <3>2, <3>3, OwnerKept
    <2>3. /\ node'[i] \in NodeType /\ node'[i].count = node[i].count
          /\ node'[i].key = node[i].key /\ node'[i].deleting = node[i].deleting
      BY <1>6, <1>7, <1>9, <1>26
    <2>4. req'[r].node = i /\ req'[r].key = req[r].key
      BY <1>16, <1>18
    <2>5. QED
      BY <1>9, <1>11, <1>12, <1>19, <1>20, <1>22, <1>24, <1>26, <2>1, <2>2, <2>3,
         <2>4, EditedKeeps
  <1>27. QED
    BY <1>25, <1>26

(* What counting a node for a request does to it. *)
LEMMA CountedFacts ==
    ASSUME NEW r \in Requests, NEW n \in NodeType, req[r].node = None
    PROVE  /\ Counted(r, n).count = n.count + 1 /\ Counted(r, n).key = n.key
           /\ Counted(r, n).deleting = n.deleting
           /\ Counted(r, n).updating = n.updating
           /\ Counted(r, n).lockGen = n.lockGen
           /\ Counted(r, n).exists = n.exists /\ Counted(r, n).size = n.size
  <1>1. PICK c, u : c = n.count + 1 /\ u = Min({n.uses + 1, MostUses})
    OBVIOUS
  <1>2. Counted(r, n) = [n EXCEPT !.count = c, !.uses = u]
    BY <1>1 DEF Counted
  <1>3. PICK m : m = [n EXCEPT !.count = c, !.uses = u]
    OBVIOUS
  <1>4. /\ m.count = c /\ m.key = n.key /\ m.deleting = n.deleting
        /\ m.updating = n.updating /\ m.lockGen = n.lockGen
        /\ m.exists = n.exists /\ m.size = n.size
    BY <1>3 DEF NodeType
  <1>5. QED
    BY <1>1, <1>2, <1>3, <1>4

LEMMA OpenFoundKeeps ==
    ASSUME IInv, NEW r \in Requests, OpenFound(r)
    PROVE  IInv'
  <1>1. TypeOK /\ Places /\ PlacedAt(r) /\ at[r] = "open"
    BY DEF IInv, Placed, OpenFound
  <1>2. del[r] = Nowhere
    BY <1>1 DEF PlacedAt
  <1>3. PICK i \in Candidates(r), expired \in BOOLEAN :
            Entered(r, i, Counted(r, node[i]), expired)
    BY DEF OpenFound
  <1>4. UNCHANGED <<watermark, cold, loader, file, del, lost, crashes>>
    BY DEF OpenFound
  <1>5. i \in Present /\ node[i].key = req[r].key
    <2>1. CASE req[r].node = None
      BY <1>3, <2>1 DEF Candidates, NodesOf
    <2>2. CASE req[r].node # None
      <3>1. i = req[r].node
        BY <1>3, <2>2 DEF Candidates
      <3>2. i \in Present
        BY <1>1, <2>2, <3>1, HeldNodes
      <3>3. Sound(i) /\ r \in Users(i)
        BY <1>1, <3>1, <3>2 DEF TypeOK, Places, Place, Users
      <3>4. QED
        BY <3>2, <3>3 DEF Sound, KeysMatch
    <2>3. QED
      BY <2>1, <2>2
  <1>6. i \in Slots /\ node[i] \in NodeType /\ Sound(i)
    BY <1>1, <1>5 DEF TypeOK, Places, Place
  <1>7. PICK n : n = Counted(r, node[i])
    OBVIOUS
  <1>8. n \in NodeType
    BY <1>6, <1>7, CountedType
  <1>9. CASE req[r].node = None
    <2>1. /\ n.count = node[i].count + 1 /\ n.key = node[i].key
          /\ n.deleting = node[i].deleting /\ n.updating = node[i].updating
          /\ n.lockGen = node[i].lockGen
          /\ n.exists = node[i].exists /\ n.size = node[i].size
      BY <1>6, <1>7, <1>9, CountedFacts
    <2>2. ~n.exists => n.size = 0
      BY <1>6, <2>1 DEF Sound, SizeRight
    <2>3. i \in Files <=> (n.size = 1 /\ ~n.deleting)
      BY <1>5, <2>1 DEF Files
    <2>4. QED
      BY <1>1, <1>2, <1>3, <1>4, <1>5, <1>6, <1>7, <1>8, <1>9, <2>1, <2>2, <2>3,
         EnteredKeeps
  <1>10. CASE req[r].node # None
    <2>1. i = req[r].node /\ n = node[i]
      BY <1>3, <1>7, <1>10 DEF Candidates, Counted
    <2>2. ~n.exists => n.size = 0
      BY <1>6, <2>1 DEF Sound, SizeRight
    <2>3. i \in Files <=> (n.size = 1 /\ ~n.deleting)
      BY <1>5, <2>1 DEF Files
    <2>4. n.key = req[r].key /\ Entered(r, i, n, expired)
      BY <1>3, <1>5, <1>7, <2>1
    <2>5. QED
      BY <1>1, <1>2, <1>4, <1>5, <1>6, <1>8, <2>1, <2>2, <2>3, <2>4, EnteredKeeps
  <1>11. QED
    BY <1>9, <1>10

LEMMA OpenNewKeeps ==
    ASSUME IInv, NEW r \in Requests, OpenNew(r)
    PROVE  IInv'
  <1>1. TypeOK /\ PlacedAt(r) /\ at[r] \in {"open", "again"} /\ ~Full
    BY DEF IInv, Placed, OpenNew
  <1>2. del[r] = Nowhere
    BY DEF IInv, Placed, PlacedAt, OpenNew
  <1>3. req[r].node = None
    <2>1. CASE at[r] = "again"
      BY <1>1, <2>1 DEF PlacedAt
    <2>2. CASE at[r] = "open"
      BY <2>2 DEF OpenNew, Candidates
    <2>3. QED
      BY <1>1, <2>1, <2>2
  <1>4. PICK i \in Slots : i = Min(Slots \ Present) /\ i \notin Present
    BY <1>1, FreePlace
  <1>5. PICK k \in Keys : k = req[r].key
    BY <1>1 DEF TypeOK, ReqType
  <1>6. PICK n : n = [NewNode(k) EXCEPT !.count = 1]
    OBVIOUS
  <1>7. n = [key |-> k, count |-> 1, uses |-> 1, error |-> FALSE,
             exists |-> FALSE, size |-> 0, updating |-> FALSE,
             deleting |-> FALSE, lockGen |-> 0, aged |-> TRUE]
    BY <1>6 DEF NewNode
  <1>8. n \in NodeType
    BY <1>7 DEF NodeType
  <1>9. /\ n.key = req[r].key /\ n.count = 1 /\ ~n.deleting /\ ~n.updating
        /\ n.size = 0
    BY <1>5, <1>7
  <1>10. i \in Files <=> (n.size = 1 /\ ~n.deleting)
    BY <1>4, <1>9 DEF Files
  <1>11. /\ Entered(r, i, n, TRUE)
         /\ UNCHANGED <<watermark, cold, loader, file, del, lost, crashes>>
    BY <1>4, <1>5, <1>6 DEF OpenNew
  <1>12. QED
    BY <1>1, <1>2, <1>3, <1>4, <1>8, <1>9, <1>10, <1>11, EnteredKeeps

-----------------------------------------------------------------------------
(***************************************************************************)
(* The invariant holds at first, and every step keeps it.                  *)
(***************************************************************************)
LEMMA InitIInv ==
    ASSUME Init
    PROVE  IInv
  <1> USE DEF Init
  <1>1. Present = {}
    BY DEF Present
  <1>2. TypeOK
    <2>1. MaxNodes + 1 \in Nat /\ MaxCrashes \in Nat /\ Stored \subseteq Keys
      BY Constants
    <2>2. watermark \in Nat /\ crashes \in 0 .. MaxCrashes /\ file \subseteq Keys
      BY <2>1
    <2>3. at \in [Requests -> Points] /\ req \in [Requests -> ReqType]
      BY NewReqType DEF Points
    <2>4. lost \in [Slots -> Nat] /\ queue \in Seq(Slots) /\ size \in Int
      OBVIOUS
    <2>5. QED
      BY <1>1, <2>2, <2>3, <2>4 DEF TypeOK
  <1>3. Placed
    <2> SUFFICES ASSUME NEW r \in Requests PROVE PlacedAt(r)
      BY DEF Placed
    <2>1. at[r] = "open" /\ req[r] = NewReq(r)
      OBVIOUS
    <2>2. del[r] = Nowhere
      BY Constants
    <2>3. QED
      BY <2>1, <2>2 DEF PlacedAt, Within, NewReq
  <1>4. Places
    <2> SUFFICES ASSUME NEW i \in Slots PROVE Vacant(i)
      BY <1>1 DEF Places, Place
    <2>1. i # None
      BY Constants
    <2>2. Users(i) = {}
      BY <2>1 DEF Users, NewReq
    <2>3. Dels(i) = {}
      BY <2>1 DEF Dels, Nowhere
    <2>4. QED
      BY <2>2, <2>3 DEF Vacant
  <1>5. QueueRight
    BY DEF QueueRight, NoTwice, Elements
  <1>6. SizeIsFiles
    <2>1. Files = {}
      BY <1>1 DEF Files
    <2>2. Cardinality(Files) = 0
      BY <2>1, FS_EmptySet
    <2>3. QED
      BY <2>2 DEF SizeIsFiles, Files
  <1>7. QED
    BY <1>2, <1>3, <1>4, <1>5, <1>6 DEF IInv

LEMMA NextIInv ==
    ASSUME IInv, [Next]_vars
    PROVE  IInv'
  <1>1. ASSUME NEW r \in Requests, Step(r) PROVE IInv'
    <2>1. CASE OpenFound(r) \/ OpenNew(r) \/ OpenFull(r) \/ Expel(r) \/ OpenFails(r)
      BY <2>1, OpenFoundKeeps, OpenNewKeeps, OpenFullKeeps, ExpelKeeps, OpenFailsKeeps
    <2>2. CASE OpenFile(r) \/ Reopen(r) \/ Read(r) \/ Judge(r) \/ Lock(r)
      BY <2>2, OpenFileKeeps, ReopenKeeps, ReadKeeps, JudgeKeeps, LockKeeps
    <2>3. CASE FetchEnds(r) \/ FetchStores(r) \/ Switch(r) \/ FetchBreaks(r)
      BY <2>3, FetchEndsKeeps, FetchStoresKeeps, SwitchKeeps, FetchBreaksKeeps
    <2>4. CASE Rename(r) \/ Store(r) \/ Free(r)
      BY <2>4, RenameKeeps, StoreKeeps, FreeKeeps
    <2>5. QED
      BY <1>1, <2>1, <2>2, <2>3, <2>4 DEF Step
  <1>2. ASSUME NEW r \in Requests, WaitTimesOut(r) \/ WaitEnds(r) PROVE IInv'
    BY <1>2, WaitTimesOutKeeps, WaitEndsKeeps
  <1>3. ASSUME NEW p \in Deleters, DeleteFile(p) \/ DeleteEnds(p) \/ Crash(p)
        PROVE  IInv'
    BY <1>3, DeleteFileKeeps, DeleteEndsKeeps, CrashKeeps
  <1>4. CASE ManagerExpire \/ ManagerForced
    BY <1>4, ManagerExpireKeeps, ManagerForcedKeeps
  <1>5. CASE LoaderSees \/ LoaderAdds \/ LoaderDeletes \/ LoaderEnds
    BY <1>5, LoaderSeesKeeps, LoaderAddsKeeps, LoaderDeletesKeeps, LoaderEndsKeeps
  <1>6. ASSUME NEW i \in Present, LockAges(i) PROVE IInv'
    BY <1>6, LockAgesKeeps
  <1>7. CASE UNCHANGED vars
    <2> USE <1>7 DEF vars, zone, loader, history
    <2>1. TypeOK' /\ Placed'
      BY DEF IInv, TypeOK, Present, Placed, PlacedAt
    <2>2. Places' /\ QueueRight' /\ SizeIsFiles'
      BY QuietKeeps DEF SameNode
    <2>3. QED
      BY <2>1, <2>2 DEF IInv
  <1>8. QED
    BY <1>1, <1>2, <1>3, <1>4, <1>5, <1>6, <1>7 DEF Next

LEMMA AlwaysIInv == Spec => []IInv
  BY InitIInv, NextIInv, PTL DEF Spec

(***************************************************************************)
(* Every variable of the zone, of the requests and of the deletions keeps  *)
(* its range: a count never falls below 0, whatever order free(), update() *)
(* and delete() come in, and however many processes die.                   *)
(***************************************************************************)
THEOREM TypeCorrect == Spec => []TypeOK
  <1>1. IInv => TypeOK
    BY DEF IInv
  <1>2. QED
    BY <1>1, AlwaysIInv, PTL

(***************************************************************************)
(* No node is freed while a request or a deletion has it, and fcn->count   *)
(* is the number of those that have it and of those that died with it: the *)
(* critical sections of exists(), reopen(), update_variant(), update(),    *)
(* free() and delete() neither lose a count nor take one twice.            *)
(***************************************************************************)
THEOREM CountsAreUsers == Spec => []CountIsUsers
  <1>1. ASSUME IInv PROVE CountIsUsers
    <2>1. TypeOK /\ Places
      BY <1>1 DEF IInv
    <2>2. ASSUME NEW r \in Requests, req[r].node # None
          PROVE  req[r].node \in Present /\ node[req[r].node].key = req[r].key
      <3>1. PICK i : i = req[r].node
        OBVIOUS
      <3>2. i \in Present
        BY <2>1, <2>2, <3>1, HeldNodes
      <3>3. Sound(i) /\ r \in Users(i)
        BY <2>1, <3>1, <3>2 DEF TypeOK, Places, Place, Users
      <3>4. QED
        BY <3>1, <3>2, <3>3 DEF Sound, KeysMatch
    <2>3. \A p \in Deleters : del[p] # Nowhere => del[p].node \in Present
      BY <2>1, HeldNodes
    <2>4. \A i \in Present : CountRight(i)
      BY <2>1 DEF TypeOK, Places, Place, Sound
    <2>5. QED
      BY <2>2, <2>3, <2>4 DEF CountIsUsers, CountRight, Users, Dels
  <1>2. QED
    BY <1>1, AlwaysIInv, PTL

(***************************************************************************)
(* A node marked as being updated has an updater that will clear the mark  *)
(* (its lock_time is that of the node), or lost it with a process: lock()  *)
(* taking over an aged lock, update() releasing anybody's and free()       *)
(* releasing only its own leave no mark without an owner.                  *)
(***************************************************************************)
THEOREM UpdatersOwn == Spec => []UpdatingHasOwner
  <1>1. ASSUME IInv PROVE UpdatingHasOwner
    <2>1. \A i \in Present : HasOwner(i)
      BY <1>1 DEF IInv, TypeOK, Places, Place, Sound
    <2>2. QED
      BY <2>1 DEF UpdatingHasOwner, HasOwner, Users
  <1>2. QED
    BY <1>1, AlwaysIInv, PTL

(***************************************************************************)
(* sh->size is the size of the files of the nodes that are not being       *)
(* deleted, until one of the events after which it is known to drift: the  *)
(* additions of exists(), update(), add() and read, and the subtraction of *)
(* delete(), balance.                                                      *)
(***************************************************************************)
THEOREM SizeIsRight == Spec => []SizeIsFiles
  <1>1. IInv => SizeIsFiles
    BY DEF IInv
  <1>2. QED
    BY <1>1, AlwaysIInv, PTL
=============================================================================
