--------------------------- MODULE UpstreamProofs ---------------------------
(***************************************************************************)
(* Proofs about Upstream, for any finite set of requests, workers and      *)
(* servers with any weights and limits.                                    *)
(***************************************************************************)
EXTENDS Upstream, FiniteSetTheorems, WellFoundedInduction, TLAPS

-----------------------------------------------------------------------------
(***************************************************************************)
(* Induction over finite sets, in the form the proofs below use: a family  *)
(* of subsets (those for which a claim fails) has a smallest member.       *)
(***************************************************************************)
LEMMA SmallestSubset ==
    ASSUME NEW S, IsFiniteSet(S), NEW T \in SUBSET (SUBSET S), T # {}
    PROVE  \E U \in T : \A V \in T : V \subseteq U => V = U
  <1>1. IsWellFoundedOn(StrictSubsetOrdering(S), SUBSET S)
    BY FS_StrictSubsetOrderingWellFounded, FS_FiniteSubsetsOfFinite
  <1>2. PICK U \in T : \A V \in T : ~(<<V, U>> \in StrictSubsetOrdering(S))
    BY <1>1, WFMin, Zenon
  <1>3. \A V \in T : V \subseteq U => V = U
    BY <1>2 DEF StrictSubsetOrdering
  <1>4. QED
    BY <1>3

-----------------------------------------------------------------------------
(***************************************************************************)
(* Sums over finite sets.                                                  *)
(***************************************************************************)
Pick(s) == CHOOSE x \in s : TRUE

(* f gives the sum of h over every subset of G. *)
Sums(f, h, G) ==
    f = [s \in SUBSET G |->
            IF s = {} THEN 0 ELSE h[Pick(s)] + f[s \ {Pick(s)}]]

SumOver(h, G) == (CHOOSE f : Sums(f, h, G))[G]

LEMMA SumIsFold ==
    ASSUME NEW h, NEW G
    PROVE  MapThenSumSet(LAMBDA p : h[p], G) = SumOver(h, G)
  BY DEF MapThenSumSet, MapThenFoldSet, SumOver, Sums, Pick

LEMMA PickIsMember == ASSUME NEW s, s # {} PROVE Pick(s) \in s
  BY DEF Pick

(* Two such functions agree where both are defined. *)
LEMMA SumsAgree ==
    ASSUME NEW h, NEW G, NEW H, IsFiniteSet(G),
           NEW f, Sums(f, h, G), NEW g, Sums(g, h, H)
    PROVE  \A s \in SUBSET G : s \subseteq H => f[s] = g[s]
  <1> DEFINE Bad == {s \in SUBSET G : s \subseteq H /\ f[s] # g[s]}
  <1> SUFFICES ASSUME Bad # {} PROVE FALSE
    OBVIOUS
  <1>1. PICK s \in Bad : \A v \in Bad : v \subseteq s => v = s
    <2>1. Bad \in SUBSET (SUBSET G)
      OBVIOUS
    <2> HIDE DEF Bad
    <2>2. QED
      BY <2>1, SmallestSubset
  <1>2. s # {}
    BY DEF Sums
  <1> DEFINE t == s \ {Pick(s)}
  <1>3. t \in SUBSET G /\ t \subseteq H /\ t # s /\ t \subseteq s
    BY <1>2, PickIsMember
  <1>4. f[t] = g[t]
    BY <1>1, <1>3
  <1>5. f[s] = h[Pick(s)] + f[t] /\ g[s] = h[Pick(s)] + g[t]
    BY <1>2 DEF Sums
  <1>6. QED
    BY <1>4, <1>5

(* There is one for every finite set. *)
LEMMA SumsExist ==
    ASSUME NEW h, NEW G, IsFiniteSet(G)
    PROVE  \E f : Sums(f, h, G)
  <1> DEFINE Bad == {s \in SUBSET G : ~\E f : Sums(f, h, s)}
  <1> SUFFICES ASSUME Bad # {} PROVE FALSE
    OBVIOUS
  <1>1. PICK U \in Bad : \A V \in Bad : V \subseteq U => V = U
    <2>1. Bad \in SUBSET (SUBSET G)
      OBVIOUS
    <2> HIDE DEF Bad
    <2>2. QED
      BY <2>1, SmallestSubset
  <1> DEFINE F(v) == CHOOSE f : Sums(f, h, v)
             f == [s \in SUBSET U |->
                      IF s = {} THEN 0
                      ELSE h[Pick(s)] + F(s \ {Pick(s)})[s \ {Pick(s)}]]
  <1>2. \A v \in SUBSET U : v # U => Sums(F(v), h, v)
    BY <1>1
  <1>3. \A s \in SUBSET U : IsFiniteSet(s)
    BY FS_Subset
  <1> HIDE DEF F
  <1>4. ASSUME NEW v \in SUBSET U, v # U PROVE F(v)[v] = f[v]
    <2>1. CASE v = {}
      BY <1>2, <2>1 DEF Sums
    <2>2. CASE v # {}
      <3> DEFINE t == v \ {Pick(v)}
      <3>1. t \in SUBSET U /\ t \subseteq v /\ t # U
        BY <1>4, <2>2, PickIsMember
      <3>2. Sums(F(v), h, v) /\ Sums(F(t), h, t)
        BY <1>2, <1>4, <3>1
      <3>3. F(t)[t] = F(v)[t]
        BY <1>3, <3>1, <3>2, SumsAgree
      <3>4. F(v)[v] = h[Pick(v)] + F(v)[t]
        BY <2>2, <3>2 DEF Sums
      <3>5. QED
        BY <2>2, <3>3, <3>4
    <2>3. QED
      BY <2>1, <2>2
  <1>5. \A s \in SUBSET U : s # {} => F(s \ {Pick(s)})[s \ {Pick(s)}] = f[s \ {Pick(s)}]
    <2> SUFFICES ASSUME NEW s \in SUBSET U, s # {}
                 PROVE  F(s \ {Pick(s)})[s \ {Pick(s)}] = f[s \ {Pick(s)}]
      OBVIOUS
    <2>1. s \ {Pick(s)} \in SUBSET U /\ s \ {Pick(s)} # U
      BY PickIsMember
    <2>2. QED
      BY <1>4, <2>1
  <1>6. f = [s \in SUBSET U |->
                IF s = {} THEN 0 ELSE h[Pick(s)] + f[s \ {Pick(s)}]]
    BY <1>5
  <1>7. Sums(f, h, U)
    BY <1>6 DEF Sums
  <1> HIDE DEF f
  <1>8. QED
    BY <1>1, <1>7

(* The sum is that of the elements in the order in which they are picked. *)
LEMMA SumUnfolds ==
    ASSUME NEW h, NEW G, IsFiniteSet(G)
    PROVE  SumOver(h, G) = IF G = {} THEN 0
                           ELSE h[Pick(G)] + SumOver(h, G \ {Pick(G)})
  <1> DEFINE f == CHOOSE f : Sums(f, h, G)
             t == G \ {Pick(G)}
             g == CHOOSE g : Sums(g, h, t)
  <1>1. Sums(f, h, G)
    BY SumsExist
  <1>2. IsFiniteSet(t) /\ t \subseteq G
    BY FS_Subset
  <1>3. Sums(g, h, t)
    BY <1>2, SumsExist
  <1>4. SumOver(h, G) = f[G] /\ SumOver(h, t) = g[t]
    BY DEF SumOver
  <1> HIDE DEF f, g
  <1>5. f[t] = g[t]
    BY <1>1, <1>2, <1>3, SumsAgree
  <1>6. QED
    BY <1>1, <1>4, <1>5 DEF Sums

LEMMA SumIsInteger ==
    ASSUME NEW G, IsFiniteSet(G), NEW h, \A p \in G : h[p] \in Int
    PROVE  SumOver(h, G) \in Int
  <1> DEFINE Bad == {s \in SUBSET G : SumOver(h, s) \notin Int}
  <1> SUFFICES ASSUME Bad # {} PROVE FALSE
    OBVIOUS
  <1>1. PICK s \in Bad : \A v \in Bad : v \subseteq s => v = s
    <2>1. Bad \in SUBSET (SUBSET G)
      OBVIOUS
    <2> HIDE DEF Bad
    <2>2. QED
      BY <2>1, SmallestSubset
  <1>2. IsFiniteSet(s)
    BY FS_Subset
  <1>3. s # {}
    <2> SUFFICES ASSUME s = {} PROVE FALSE
      OBVIOUS
    <2>1. SumOver(h, s) = 0
      BY <1>2, SumUnfolds
    <2>2. QED
      BY <2>1
  <1> DEFINE t == s \ {Pick(s)}
  <1>4. Pick(s) \in s /\ t \in SUBSET G /\ t \subseteq s /\ t # s
    BY <1>3, PickIsMember
  <1>5. SumOver(h, t) \in Int
    BY <1>1, <1>4
  <1>6. SumOver(h, s) = h[Pick(s)] + SumOver(h, t)
    BY <1>2, <1>3, SumUnfolds
  <1>7. QED
    BY <1>4, <1>5, <1>6

(* The order does not matter: any element may be taken first. *)
LEMMA SumTakesOut ==
    ASSUME NEW G, IsFiniteSet(G), NEW h, \A p \in G : h[p] \in Int
    PROVE  \A x \in G : SumOver(h, G) = h[x] + SumOver(h, G \ {x})
  <1> DEFINE Bad == {s \in SUBSET G :
                        \E x \in s : SumOver(h, s) # h[x] + SumOver(h, s \ {x})}
  <1> SUFFICES ASSUME Bad # {} PROVE FALSE
    OBVIOUS
  <1>1. PICK s \in Bad : \A v \in Bad : v \subseteq s => v = s
    <2>1. Bad \in SUBSET (SUBSET G)
      OBVIOUS
    <2> HIDE DEF Bad
    <2>2. QED
      BY <2>1, SmallestSubset
  <1>2. PICK x \in s : SumOver(h, s) # h[x] + SumOver(h, s \ {x})
    OBVIOUS
  <1> DEFINE c == Pick(s)
  <1>3. c \in s /\ x \in G /\ c \in G
    BY PickIsMember
  <1>4. IsFiniteSet(s)
    BY FS_Subset
  <1>5. SumOver(h, s) = h[c] + SumOver(h, s \ {c})
    BY <1>3, <1>4, SumUnfolds
  <1>6. x # c
    BY <1>2, <1>5
  <1>7. /\ s \ {c} \in SUBSET G /\ s \ {c} # s /\ x \in s \ {c}
        /\ s \ {x} \in SUBSET G /\ s \ {x} # s /\ c \in s \ {x}
    BY <1>3, <1>6
  <1>8. SumOver(h, s \ {c}) = h[x] + SumOver(h, (s \ {c}) \ {x})
    BY <1>1, <1>7
  <1>9. SumOver(h, s \ {x}) = h[c] + SumOver(h, (s \ {x}) \ {c})
    BY <1>1, <1>7
  <1>10. (s \ {c}) \ {x} = (s \ {x}) \ {c}
    OBVIOUS
  <1>11. SumOver(h, (s \ {x}) \ {c}) \in Int
    <2>1. IsFiniteSet((s \ {x}) \ {c})
      BY <1>4, FS_Subset
    <2>2. QED
      BY <2>1, SumIsInteger
  <1>12. h[x] \in Int /\ h[c] \in Int
    BY <1>3
  <1> DEFINE d == SumOver(h, (s \ {x}) \ {c})
  <1>13. SumOver(h, s) = h[c] + (h[x] + d) /\ SumOver(h, s \ {x}) = h[c] + d
    BY <1>5, <1>8, <1>9, <1>10
  <1>14. d \in Int
    BY <1>11
  <1> HIDE DEF c, d, Bad
  <1>15. h[c] + (h[x] + d) = h[x] + (h[c] + d)
    BY <1>12, <1>14
  <1>16. QED
    BY <1>2, <1>13, <1>15

(* Raising some elements of G adds what they gain; e is their gain. *)
LEMMA SumAdds ==
    ASSUME NEW G, IsFiniteSet(G), NEW S \in SUBSET G, NEW h, NEW k, NEW e,
           \A p \in G : k[p] \in Int /\ h[p] \in Int,
           \A p \in S : e[p] \in Int,
           \A p \in G : h[p] = k[p] + (IF p \in S THEN e[p] ELSE 0)
    PROVE  SumOver(h, G) = SumOver(k, G) + SumOver(e, S)
  <1> DEFINE Bad == {s \in SUBSET G :
                        SumOver(h, s) # SumOver(k, s) + SumOver(e, s \cap S)}
  <1>0. S = G \cap S
    OBVIOUS
  <1> SUFFICES ASSUME Bad # {} PROVE FALSE
    BY <1>0
  <1>1. PICK s \in Bad : \A v \in Bad : v \subseteq s => v = s
    <2>1. Bad \in SUBSET (SUBSET G)
      OBVIOUS
    <2> HIDE DEF Bad
    <2>2. QED
      BY <2>1, SmallestSubset
  <1>2. IsFiniteSet(s) /\ IsFiniteSet(s \cap S)
    BY FS_Subset
  <1>3. s # {}
    <2> SUFFICES ASSUME s = {} PROVE FALSE
      OBVIOUS
    <2>1. s \cap S = {}
      OBVIOUS
    <2>2. SumOver(h, s) = 0 /\ SumOver(k, s) = 0 /\ SumOver(e, s \cap S) = 0
      BY <1>2, <2>1, SumUnfolds
    <2>3. QED
      BY <2>2
  <1>4. PICK x \in s : TRUE
    BY <1>3
  <1> DEFINE t == s \ {x}
  <1>5. SumOver(h, t) = SumOver(k, t) + SumOver(e, t \cap S)
    BY <1>1
  <1>6. SumOver(h, s) = h[x] + SumOver(h, t) /\ SumOver(k, s) = k[x] + SumOver(k, t)
    BY <1>2, SumTakesOut
  <1>7. IsFiniteSet(t) /\ IsFiniteSet(t \cap S)
    BY <1>2, FS_Subset
  <1>8. /\ SumOver(k, t) \in Int /\ SumOver(e, t \cap S) \in Int
        /\ k[x] \in Int /\ h[x] \in Int
    BY <1>7, SumIsInteger
  <1>9. CASE x \in S
    <2>1. (s \cap S) \ {x} = t \cap S /\ x \in s \cap S
      BY <1>9
    <2>2. SumOver(e, s \cap S) = e[x] + SumOver(e, (s \cap S) \ {x})
      BY <1>2, <2>1, SumTakesOut
    <2>3. h[x] = k[x] + e[x] /\ e[x] \in Int
      BY <1>9
    <2>4. SumOver(h, s) # SumOver(k, s) + SumOver(e, s \cap S)
      OBVIOUS
    <2> HIDE DEF t, Bad
    <2>5. QED
      BY <1>5, <1>6, <1>8, <2>1, <2>2, <2>3, <2>4
  <1>10. CASE x \notin S
    <2>1. s \cap S = t \cap S
      BY <1>10
    <2>2. h[x] = k[x]
      BY <1>8, <1>10
    <2>3. SumOver(h, s) # SumOver(k, s) + SumOver(e, s \cap S)
      OBVIOUS
    <2> DEFINE a == SumOver(k, t)
               b == SumOver(e, t \cap S)
    <2>4. /\ SumOver(h, s) = k[x] + (a + b) /\ SumOver(k, s) = k[x] + a
          /\ SumOver(e, s \cap S) = b
      BY <1>5, <1>6, <2>1, <2>2
    <2>5. a \in Int /\ b \in Int
      BY <1>8
    <2> HIDE DEF a, b, t, Bad
    <2>6. k[x] + (a + b) = (k[x] + a) + b
      BY <1>8, <2>5
    <2>7. QED
      BY <2>3, <2>4, <2>6
  <1>11. QED
    BY <1>9, <1>10

(* Sets of natural numbers have a least element. *)
LEMMA LeastExists ==
    ASSUME NEW S \in SUBSET Nat, S # {}
    PROVE  \E x \in S : \A y \in S : x <= y
  <1>1. PICK x \in S : \A y \in S : ~(<<y, x>> \in OpToRel(<, Nat))
    BY NatLessThanWellFounded, WFMin, Zenon
  <1>2. \A y \in S : ~(y < x)
    BY <1>1 DEF OpToRel
  <1>3. QED
    BY <1>2

(* The server that ngx_http_upstream_get_peer() looks for exists. *)
LEMMA LargestExists ==
    ASSUME NEW S, \A p \in S : p \in Nat, IsFiniteSet(S), S # {},
           NEW h, \A p \in S : h[p] \in Int
    PROVE  \E p \in S : \A q \in S : h[q] < h[p] \/ (h[q] = h[p] /\ p <= q)
  <1> DEFINE Top(p, U) == \A q \in U : h[q] < h[p] \/ (h[q] = h[p] /\ p <= q)
             Bad == {U \in SUBSET S : U # {} /\ ~\E p \in U : Top(p, U)}
  <1> SUFFICES ASSUME Bad # {} PROVE FALSE
    OBVIOUS
  <1>1. PICK U \in Bad : \A V \in Bad : V \subseteq U => V = U
    <2>1. Bad \in SUBSET (SUBSET S)
      OBVIOUS
    <2> HIDE DEF Bad, Top
    <2>2. QED
      BY <2>1, SmallestSubset
  <1>2. PICK x \in U : TRUE
    OBVIOUS
  <1>3. U \ {x} # {}
    <2> SUFFICES ASSUME U = {x} PROVE FALSE
      BY <1>2
    <2>1. Top(x, U)
      OBVIOUS
    <2>2. QED
      BY <2>1
  <1>4. U \ {x} \in SUBSET S /\ U \ {x} \notin Bad
    BY <1>1
  <1>5. PICK p \in U \ {x} : Top(p, U \ {x})
    BY <1>3, <1>4
  <1>6. \A y \in U : y \in Nat /\ h[y] \in Int
    OBVIOUS
  <1>7. CASE h[x] < h[p] \/ (h[x] = h[p] /\ p <= x)
    <2>1. Top(p, U)
      BY <1>5, <1>7
    <2>2. QED
      BY <2>1
  <1>8. CASE ~(h[x] < h[p] \/ (h[x] = h[p] /\ p <= x))
    <2>1. h[p] < h[x] \/ (h[p] = h[x] /\ x <= p)
      BY <1>6, <1>8
    <2>2. Top(x, U)
      <3> SUFFICES ASSUME NEW q \in U
                   PROVE  h[q] < h[x] \/ (h[q] = h[x] /\ x <= q)
        OBVIOUS
      <3>1. CASE q = x
        BY <1>6, <3>1
      <3>2. CASE q # x
        <4>1. h[q] < h[p] \/ (h[q] = h[p] /\ p <= q)
          BY <1>5, <3>2
        <4> HIDE DEF Bad
        <4>2. QED
          BY <1>6, <2>1, <4>1
      <3>3. QED
        BY <3>1, <3>2
    <2>3. QED
      BY <2>2
  <1>9. QED
    BY <1>7, <1>8

-----------------------------------------------------------------------------
(***************************************************************************)
(* The inductive invariant.                                                *)
(***************************************************************************)

(***************************************************************************)
(* The server and the connection that a request has at its control point.  *)
(***************************************************************************)
Placed ==
    \A r \in Requests :
        /\ at[r] \in {"idle", "get", "done"} => holds[r] = None /\ conn[r] = None
        /\ at[r] \in {"declined", "failed"} => holds[r] # None /\ conn[r] = None
        /\ at[r] \in {"send"} \cup Suspended => holds[r] # None /\ conn[r] # None

LEMMA Constants ==
    /\ IsFiniteSet(Requests) /\ IsFiniteSet(Servers)
    /\ IsFiniteSet(Primary) /\ IsFiniteSet(Backup)
    /\ Primary \cap Backup = {}
    /\ Primary \subseteq Servers /\ Backup \subseteq Servers
    /\ Servers \subseteq Nat /\ None \notin Servers
    /\ Weight \in [Servers -> Nat \ {0}]
    /\ MaxFails \in [Servers -> Nat] /\ MaxConns \in [Servers -> Nat]
    /\ NextTries \in Nat /\ PoolSize \in Nat /\ MaxCached \in Nat
    /\ MaxCrashes \in Nat
    /\ InitialTries \in Nat \ {0}
    /\ Homes \subseteq [Requests -> Workers]
  <1> USE UpstreamAssumption
  <1>1. IsFiniteSet(Primary) /\ IsFiniteSet(Backup)
    BY FS_Subset DEF UpstreamAssumption, Servers
  <1>2. Cardinality(Servers) \in Nat /\ Cardinality(Servers) > 1
    BY FS_CardinalityType DEF UpstreamAssumption
  <1>3. InitialTries \in Nat \ {0}
    BY SMTT(40), <1>2 DEF UpstreamAssumption, InitialTries, AllTries, Min
  <1>4. QED
    BY <1>1, <1>3 DEF UpstreamAssumption, Servers, None

LEMMA Eligibility ==
    ASSUME TypeOK, NEW r \in Requests
    PROVE  /\ Eligible(r) \subseteq Group(r)
           /\ Group(r) \in {Primary, Backup}
           /\ Eligible(r) \subseteq Servers
           /\ IsFiniteSet(Eligible(r))
  <1>1. Eligible(r) \subseteq Group(r) /\ Group(r) \in {Primary, Backup}
    BY DEF Eligible, Group
  <1>2. Eligible(r) \subseteq Servers
    BY <1>1, Constants
  <1>3. QED
    BY <1>1, <1>2, Constants, FS_Subset

LEMMA BestIsEligible ==
    ASSUME TypeOK, NEW S \in SUBSET Servers, S # {}
    PROVE  /\ Best(S) \in S
           /\ Raised(S) \in [Servers -> Int]
  <1>1. Raised(S) \in [Servers -> Int]
    BY DEF Raised, TypeOK
  <1>2. IsFiniteSet(S) /\ S \in SUBSET Nat
    BY Constants, FS_Subset
  <1>3. \A p \in S : Raised(S)[p] \in Int
    BY <1>1
  <1>4. \E p \in S : \A q \in S : \/ Raised(S)[q] < Raised(S)[p]
                                  \/ Raised(S)[q] = Raised(S)[p] /\ p <= q
    <2> DEFINE h == Raised(S)
    <2>1. \A p \in S : h[p] \in Int
      BY <1>3
    <2> HIDE DEF h
    <2>2. \E p \in S : \A q \in S : h[q] < h[p] \/ (h[q] = h[p] /\ p <= q)
      BY <1>2, <2>1, LargestExists
    <2>3. QED
      BY <2>2 DEF h
  <1>5. Best(S) \in S
    BY <1>4 DEF Best
  <1>6. QED
    BY <1>1, <1>5

-----------------------------------------------------------------------------
(***************************************************************************)
(* The steps of a request, by what they do to it: it begins, it chooses a  *)
(* server, an attempt ends by TryNext, the request ends by Finalize, or it *)
(* advances within an attempt.                                             *)
(***************************************************************************)
Failures == {"error", "timeout", "invalid_header", "http_404", "http_500"}
Attempting ==
    {"declined", "send", "connecting", "sending", "waiting", "mute", "early"}
Attached == {"send"} \cup Suspended

Fails(r, ft, wasSent) ==
    /\ at[r] \in Attempting
    /\ sent[r] => wasSent
    /\ at[r] = "declined" => wasSent = sent[r]
    /\ TryNext(r, ft, wasSent)

Ends(r, keep) ==
    /\ at[r] \in {"failed"} \cup Suspended
    /\ Finalize(r, keep)

Advances(r) ==
    /\ at[r] \in Attached
    /\ \/ UNCHANGED at
       \/ \E point \in Suspended : Goto(r, point)
    /\ \/ UNCHANGED <<sent, reached>>
       \/ CountAttempt(r, TRUE) /\ sent' = [sent EXCEPT ![r] = TRUE]
    /\ UNCHANGED gone \/ gone' = [gone EXCEPT ![r] = TRUE]
    /\ UNCHANGED headerSent \/ headerSent' = [headerSent EXCEPT ![r] = TRUE]
    /\ UNCHANGED <<zone, onBackup, tried, holds, conn, cached, tries, fresh,
                   cache, open, home, leaked, crashes>>

RequestStep(r) ==
    \/ Start(r)
    \/ GetFromBackup(r)
    \/ GetBusy(r)
    \/ GetCached(r)
    \/ GetConnect(r)
    \/ \E ft \in Failures, wasSent \in BOOLEAN : Fails(r, ft, wasSent)
    \/ \E keep \in BOOLEAN : Ends(r, keep)
    \/ Advances(r)

LEMMA StepCases ==
    ASSUME TypeOK, Next
    PROVE  \/ \E r \in Requests : RequestStep(r)
           \/ \E w \in Workers : KeepaliveClose(w) \/ Crash(w)
           \/ \E p \in Servers : Expire(p)
  <1> USE DEF RequestStep, Failures, Attempting, Attached, Suspended
  <1>1. ASSUME NEW r \in Requests, Declined(r) PROVE RequestStep(r)
    <2>1. Fails(r, "error", sent[r]) /\ sent[r] \in BOOLEAN
      BY <1>1 DEF Declined, Fails, TypeOK
    <2>2. QED
      BY <2>1
  <1>2. ASSUME NEW r \in Requests, SendRequest(r) PROVE RequestStep(r)
    <2>1. at[r] \in {"send", "connecting", "sending"}
      BY <1>2 DEF SendRequest
    <2>2. CASE ~sent[r] /\ TryNext(r, "error", FALSE)
      <3>1. Fails(r, "error", FALSE)
        BY <2>1, <2>2 DEF Fails
      <3>2. QED
        BY <3>1
    <2>3. CASE TryNext(r, "error", TRUE)
      <3>1. Fails(r, "error", TRUE)
        BY <2>1, <2>3 DEF Fails
      <3>2. QED
        BY <3>1
    <2>4. CASE /\ CountAttempt(r, TRUE)
               /\ sent' = [sent EXCEPT ![r] = TRUE]
               /\ Goto(r, "sending") \/ Goto(r, "waiting")
               /\ UNCHANGED <<zone, onBackup, tried, holds, conn, cached, tries,
                              gone, fresh, cache, open, outside>>
      BY <2>1, <2>4 DEF Advances, outside
    <2>5. QED
      BY <1>2, <2>2, <2>3, <2>4 DEF SendRequest
  <1>3. ASSUME NEW r \in Requests, Timeout(r) PROVE RequestStep(r)
    <2>1. Fails(r, "timeout", sent[r]) /\ sent[r] \in BOOLEAN
      BY <1>3 DEF Timeout, Fails, TypeOK
    <2>2. QED
      BY <2>1
  <1>4. ASSUME NEW r \in Requests, ProcessHeader(r) PROVE RequestStep(r)
    <2>1. at[r] \in {"sending", "waiting", "mute"} /\ sent[r] \in BOOLEAN
      BY <1>4 DEF ProcessHeader, TypeOK
    <2>2. ASSUME NEW ft \in Failures, TryNext(r, ft, sent[r]) PROVE RequestStep(r)
      <3>1. Fails(r, ft, sent[r])
        BY <2>1, <2>2 DEF Fails
      <3>2. QED
        BY <2>1, <3>1
    <2>3. CASE /\ headerSent' = [headerSent EXCEPT ![r] = TRUE]
               /\ Goto(r, IF at[r] = "waiting" THEN "body" ELSE "early")
               /\ UNCHANGED <<zone, local, cache, open, home, leaked, crashes>>
      BY <2>1, <2>3 DEF Advances, local
    <2>4. ASSUME NEW keep \in BOOLEAN, Finalize(r, keep) PROVE RequestStep(r)
      BY <2>1, <2>4 DEF Ends
    <2>5. QED
      BY <1>4, <2>2, <2>3, <2>4 DEF ProcessHeader
  <1>5. ASSUME NEW r \in Requests,
               Failed(r) \/ ResponseDone(r) \/ ResponseEnds(r) \/ Abort(r)
        PROVE  RequestStep(r)
    <2>1. Ends(r, FALSE) \/ Ends(r, TRUE)
      BY <1>5 DEF Failed, ResponseDone, ResponseEnds, Abort, Handler, Ends
    <2>2. QED
      BY <2>1
  <1>6. ASSUME NEW r \in Requests, ClientCloses(r) PROVE RequestStep(r)
    BY <1>6 DEF ClientCloses, Handler, Advances, outside
  <1>7. ASSUME NEW r \in Requests,
               Start(r) \/ GetFromBackup(r) \/ GetBusy(r) \/ GetCached(r)
                   \/ GetConnect(r)
        PROVE  RequestStep(r)
    BY <1>7
  <1>8. ASSUME NEW r \in Requests, StopSending(r) PROVE RequestStep(r)
    <2>1. at[r] \in Suspended
      BY <1>8 DEF StopSending
    <2>2. Goto(r, "mute") \/ Goto(r, "cut")
      BY <1>8 DEF StopSending
    <2>3. Advances(r)
      BY <1>8, <2>1, <2>2 DEF StopSending, Advances, local, outside
    <2>4. QED
      BY <2>3
  <1>9. QED
    BY <1>1, <1>2, <1>3, <1>4, <1>5, <1>6, <1>7, <1>8 DEF Next, Continue

-----------------------------------------------------------------------------
(***************************************************************************)
(* The parts of TypeOK.                                                    *)
(***************************************************************************)
ZoneTyped ==
    /\ fails \in [Servers -> Nat] /\ conns \in [Servers -> Nat]
    /\ effective \in [Servers -> Nat] /\ current \in [Servers -> Int]
    /\ recent \in [Servers -> BOOLEAN] /\ probed \in [Servers -> BOOLEAN]

RequestsTyped ==
    /\ at \in [Requests -> Running \cup Suspended \cup {"idle", "done"}]
    /\ onBackup \in [Requests -> BOOLEAN]
    /\ tried \in [Requests -> SUBSET Servers]
    /\ holds \in [Requests -> Servers \cup {None}]
    /\ conn \in [Requests -> 0 .. PoolSize]
    /\ cached \in [Requests -> BOOLEAN] /\ tries \in [Requests -> Nat]
    /\ sent \in [Requests -> BOOLEAN] /\ gone \in [Requests -> BOOLEAN]
    /\ reached \in [Requests -> Nat] /\ fresh \in [Requests -> Nat]

Items == [conn : 1 .. PoolSize, server : Servers]

PoolsTyped ==
    /\ cache \in [Workers -> Seq(Items)]
    /\ open \in [Workers -> SUBSET (1 .. PoolSize)]

OutsideTyped ==
    /\ home \in Homes
    /\ headerSent \in [Requests -> BOOLEAN]
    /\ leaked \in [Servers -> Nat] /\ crashes \in 0 .. MaxCrashes

LEMMA TypeParts ==
    /\ TypeOK <=> ZoneTyped /\ RequestsTyped /\ PoolsTyped /\ OutsideTyped
    /\ TypeOK' <=> ZoneTyped' /\ RequestsTyped' /\ PoolsTyped' /\ OutsideTyped'
  BY DEF TypeOK, ZoneTyped, RequestsTyped, PoolsTyped, OutsideTyped, Items

LEMMA HomeIsWorker ==
    ASSUME TypeOK, NEW r \in Requests
    PROVE  home[r] \in Workers
  BY Constants DEF TypeOK

LEMMA OverIsTyped ==
    ASSUME RequestsTyped, NEW S, Over(S)
    PROVE  RequestsTyped'
  <1>1. 0 \in 0 .. PoolSize
    BY Constants
  <1>2. QED
    BY <1>1 DEF RequestsTyped, Over, None

(***************************************************************************)
(* Choosing and giving back a server.                                      *)
(***************************************************************************)
LEMMA TotalIsSum ==
    ASSUME TypeOK, NEW S \in SUBSET Servers
    PROVE  Total(S) = SumOver(effective, S) /\ Total(S) \in Int
  <1>1. Total(S) = SumOver(effective, S)
    BY SumIsFold DEF Total
  <1>2. IsFiniteSet(S)
    BY Constants, FS_Subset
  <1>3. \A p \in S : effective[p] \in Int
    BY DEF TypeOK
  <1>4. QED
    BY <1>1, <1>2, <1>3, SumIsInteger

LEMMA ChooseIsTyped ==
    ASSUME TypeOK, NEW r \in Requests, NEW S \in SUBSET Servers, S # {},
           ChooseServer(r, S)
    PROVE  /\ ZoneTyped'
           /\ tried' \in [Requests -> SUBSET Servers]
           /\ holds' \in [Requests -> Servers \cup {None}]
  <1> DEFINE best == Best(S)
             t == Total(S)
  <1>1. best \in S /\ Raised(S) \in [Servers -> Int] /\ t \in Int
    BY BestIsEligible, TotalIsSum
  <1>2. /\ current' = [Raised(S) EXCEPT ![best] = @ - t]
        /\ effective' = [p \in Servers |->
               effective[p] + (IF p \in S /\ effective[p] < Weight[p] THEN 1 ELSE 0)]
        /\ conns' = [conns EXCEPT ![best] = @ + 1]
        /\ recent' = [recent EXCEPT ![best] = TRUE]
        /\ probed' = [probed EXCEPT ![best] = @ \/ ~recent[best]]
        /\ tried' = [tried EXCEPT ![r] = @ \cup {best}]
        /\ holds' = [holds EXCEPT ![r] = best]
        /\ UNCHANGED fails
    BY DEF ChooseServer
  <1> HIDE DEF best, t
  <1>3. current' \in [Servers -> Int]
    BY <1>1, <1>2
  <1>4. effective' \in [Servers -> Nat]
    BY SMTT(40), <1>2 DEF TypeOK
  <1>5. conns' \in [Servers -> Nat] /\ fails' \in [Servers -> Nat]
    <2>1. conns \in [Servers -> Nat] /\ fails \in [Servers -> Nat]
      BY DEF TypeOK
    <2>2. PICK n \in Nat : n = conns[best] + 1
      BY <1>1, <2>1
    <2>3. conns' = [conns EXCEPT ![best] = n] /\ fails' = fails
      BY <1>2, <2>2
    <2>4. QED
      BY <2>1, <2>3
  <1>6. recent' \in [Servers -> BOOLEAN] /\ probed' \in [Servers -> BOOLEAN]
    BY <1>1, <1>2 DEF TypeOK
  <1>7. /\ tried' \in [Requests -> SUBSET Servers]
        /\ holds' \in [Requests -> Servers \cup {None}]
    BY <1>1, <1>2 DEF TypeOK
  <1>8. QED
    BY <1>3, <1>4, <1>5, <1>6, <1>7 DEF ZoneTyped

LEMMA FreeServerIsTyped ==
    ASSUME TypeOK, NEW p \in Servers, conns[p] > 0,
           NEW failed \in BOOLEAN, FreeServer(p, failed)
    PROVE  ZoneTyped'
  <1>1. MaxFails[p] \in Nat /\ Weight[p] \in Nat /\ fails[p] \in Nat
        /\ effective[p] \in Nat /\ conns[p] \in Nat
    BY Constants DEF TypeOK
  <1>2. Weakened(p) \in Nat
    <2>1. CASE MaxFails[p] = 0
      BY <1>1, <2>1 DEF Weakened
    <2>2. CASE MaxFails[p] # 0
      <3>1. Weight[p] \div MaxFails[p] \in Nat
        BY <1>1, <2>2
      <3>2. effective[p] - Weight[p] \div MaxFails[p] \in Int
        BY <1>1, <3>1
      <3>3. Max({0, effective[p] - Weight[p] \div MaxFails[p]}) \in Nat
        BY <3>2 DEF Max
      <3>4. QED
        BY <2>2, <3>3 DEF Weakened
    <2>3. QED
      BY <2>1, <2>2
  <1>3. Min({fails[p] + 1, MaxFails[p]}) \in Nat
    BY <1>1 DEF Min
  <1>4. fails' \in [Servers -> Nat]
    <2>1. (IF probed[p] THEN 0 ELSE fails[p]) \in Nat
      BY <1>1
    <2>2. fails \in [Servers -> Nat]
      BY DEF TypeOK
    <2>3. \E n \in Nat : fails' = [fails EXCEPT ![p] = n]
      BY <1>3, <2>1 DEF FreeServer
    <2>4. QED
      BY <2>2, <2>3
  <1>5. conns' \in [Servers -> Nat]
    BY <1>1 DEF FreeServer, TypeOK
  <1>6. effective' \in [Servers -> Nat]
    BY <1>2 DEF FreeServer, TypeOK
  <1>7. QED
    BY <1>4, <1>5, <1>6 DEF FreeServer, TypeOK, ZoneTyped

(***************************************************************************)
(* What the operations on the keepalive cache do to a sequence.            *)
(***************************************************************************)
LEMMA RemoveAtFacts ==
    ASSUME NEW T, NEW s \in Seq(T), NEW i \in DOMAIN s
    PROVE  /\ RemoveAt(s, i) \in Seq(T)
           /\ DOMAIN RemoveAt(s, i) = 1 .. Len(s) - 1
           /\ \A j \in 1 .. Len(s) - 1 :
                  RemoveAt(s, i)[j] = IF j < i THEN s[j] ELSE s[j + 1]
  <1>1. i \in 1 .. Len(s) /\ Len(s) \in Nat
    OBVIOUS
  <1> DEFINE a == SubSeq(s, 1, i - 1)
             b == SubSeq(s, i + 1, Len(s))
  <1>2. a \in Seq(T) /\ Len(a) = i - 1 /\ \A j \in 1 .. i - 1 : a[j] = s[j]
    BY <1>1
  <1>3. /\ b \in Seq(T) /\ Len(b) = Len(s) - i
        /\ \A j \in 1 .. Len(s) - i : b[j] = s[j + i]
    BY <1>1
  <1> HIDE DEF a, b
  <1>4. PICK c : c = a \o b
    OBVIOUS
  <1>5. c \in Seq(T) /\ Len(c) = Len(s) - 1 /\ DOMAIN c = 1 .. Len(s) - 1
    BY <1>1, <1>2, <1>3, <1>4
  <1>6. \A j \in 1 .. Len(s) - 1 :
            c[j] = IF j <= i - 1 THEN a[j] ELSE b[j - (i - 1)]
    BY SMTT(40), <1>1, <1>2, <1>3, <1>4
  <1>7. ASSUME NEW j \in 1 .. Len(s) - 1
        PROVE  c[j] = IF j < i THEN s[j] ELSE s[j + 1]
    <2>1. j \in Int /\ i \in Int /\ Len(s) \in Int /\ j >= 1 /\ j <= Len(s) - 1
      BY <1>1
    <2>2. CASE j < i
      <3>1. j \in 1 .. i - 1 /\ j <= i - 1
        BY <2>1, <2>2
      <3>2. c[j] = a[j] /\ a[j] = s[j]
        BY <1>2, <1>6, <3>1
      <3>3. QED
        BY <2>2, <3>2, Zenon
    <2>3. CASE ~(j < i)
      <3>1. PICK m \in 1 .. Len(s) - i : m = j - (i - 1) /\ m + i = j + 1
        BY <2>1, <2>3
      <3>2. b[m] = s[m + i]
        BY <1>3
      <3>3. ~(j <= i - 1)
        BY <2>1, <2>3
      <3>4. c[j] = b[m]
        BY <1>6, <3>1, <3>3, Zenon
      <3>5. QED
        BY <2>3, <3>1, <3>2, <3>4, Zenon
    <2>4. QED
      BY <2>2, <2>3, Zenon
  <1>8. RemoveAt(s, i) = c
    BY <1>4 DEF RemoveAt, a, b
  <1>9. QED
    BY <1>5, <1>7, <1>8, Zenon

LEMMA FrontFacts ==
    ASSUME NEW T, NEW s \in Seq(T), Len(s) > 0
    PROVE  /\ Front(s) \in Seq(T)
           /\ Len(Front(s)) = Len(s) - 1
           /\ \A j \in 1 .. Len(s) - 1 : Front(s)[j] = s[j]
           /\ Last(s) = s[Len(s)] /\ Last(s) \in T
  <1>1. Len(s) \in Nat /\ Len(s) \in 1 .. Len(s)
    OBVIOUS
  <1>2. /\ Front(s) \in Seq(T)
        /\ Len(Front(s)) = Len(s) - 1
        /\ \A j \in 1 .. Len(s) - 1 : Front(s)[j] = s[j]
    <2>1. ASSUME NEW n \in Nat, n < Len(s)
          PROVE  /\ SubSeq(s, 1, n) \in Seq(T)
                 /\ Len(SubSeq(s, 1, n)) = n
                 /\ \A j \in 1 .. n : SubSeq(s, 1, n)[j] = s[j]
      BY <1>1, <2>1
    <2>2. Len(s) - 1 \in Nat /\ Len(s) - 1 < Len(s)
      BY <1>1
    <2>3. QED
      BY <2>1, <2>2 DEF Front
  <1>3. Last(s) = s[Len(s)] /\ Last(s) \in T
    BY <1>1 DEF Last
  <1>4. QED
    BY <1>2, <1>3

LEMMA PushFacts ==
    ASSUME NEW T, NEW s \in Seq(T), NEW x \in T
    PROVE  /\ <<x>> \o s \in Seq(T)
           /\ Len(<<x>> \o s) = Len(s) + 1
           /\ (<<x>> \o s)[1] = x
           /\ \A j \in 2 .. Len(s) + 1 : (<<x>> \o s)[j] = s[j - 1]
  OBVIOUS

(***************************************************************************)
(* What FreeConnection does for a request at r's place: nothing is freed   *)
(* if it has no connection, or its connection is closed, or put in front   *)
(* of the cache, from which the last one may fall out.                     *)
(***************************************************************************)
Freed(r, w) ==
    \/ /\ cache' = cache
       /\ open' = [open EXCEPT ![w] = @ \ {conn[r]}]
    \/ /\ conn[r] # None
       /\ open' = open
       /\ \E x \in Items : /\ x.conn = conn[r]
                           /\ cache' = [cache EXCEPT ![w] = <<x>> \o @]
    \/ /\ conn[r] # None
       /\ Len(cache[w]) > 0
       /\ open' = [open EXCEPT ![w] = @ \ {Last(cache[w]).conn}]
       /\ \E x \in Items : /\ x.conn = conn[r]
                           /\ cache' = [cache EXCEPT ![w] = <<x>> \o Front(@)]

LEMMA FreeConnectionFacts ==
    ASSUME TypeOK, NEW r \in Requests, NEW keep \in BOOLEAN,
           FreeConnection(r, keep), holds[r] \in Servers,
           NEW w, w = home[r]
    PROVE  PoolsTyped' /\ Freed(r, w)
  <1>1. w \in Workers /\ cache[w] \in Seq(Items) /\ open[w] \subseteq 1 .. PoolSize
        /\ cache \in [Workers -> Seq(Items)]
        /\ open \in [Workers -> SUBSET (1 .. PoolSize)]
    BY HomeIsWorker, TypeParts DEF PoolsTyped
  <1> DEFINE item == [conn |-> conn[r], server |-> holds[r]]
             full == Len(cache[w]) = MaxCached
             kept == keep /\ conn[r] # None /\ MaxCached > 0
  <1>2. CASE ~kept
    <2>1. cache' = cache /\ open' = [open EXCEPT ![w] = @ \ {conn[r]}]
      BY <1>2 DEF FreeConnection, Closed
    <2>2. PoolsTyped'
      BY <1>1, <2>1 DEF PoolsTyped
    <2>3. QED
      BY <2>1, <2>2 DEF Freed
  <1>3. kept => item \in Items /\ item.conn = conn[r]
    <2>1. conn[r] \in 0 .. PoolSize /\ PoolSize \in Nat
      BY Constants DEF TypeOK
    <2>2. QED
      BY <2>1 DEF Items, None
  <1>4. CASE kept /\ ~full
    <2>1. cache' = [cache EXCEPT ![w] = <<item>> \o @] /\ open' = open
      BY <1>4 DEF FreeConnection
    <2>2. <<item>> \o cache[w] \in Seq(Items)
      BY <1>1, <1>3, <1>4, PushFacts
    <2> HIDE DEF item
    <2>3. PoolsTyped'
      BY <1>1, <2>1, <2>2 DEF PoolsTyped
    <2>4. QED
      BY <1>3, <1>4, <2>1, <2>3 DEF Freed
  <1>5. CASE kept /\ full
    <2>1. /\ cache' = [cache EXCEPT ![w] = <<item>> \o Front(@)]
          /\ open' = [open EXCEPT ![w] = @ \ {Last(cache[w]).conn}]
          /\ Len(cache[w]) > 0
      BY <1>5 DEF FreeConnection, Closed
    <2>2. Front(cache[w]) \in Seq(Items)
      BY <1>1, <2>1, FrontFacts
    <2>3. <<item>> \o Front(cache[w]) \in Seq(Items)
      BY <1>3, <1>5, <2>2, PushFacts
    <2> HIDE DEF item
    <2>4. PoolsTyped'
      BY <1>1, <2>1, <2>3 DEF PoolsTyped
    <2>5. QED
      BY <1>3, <1>5, <2>1, <2>4 DEF Freed
  <1>6. QED
    BY <1>2, <1>4, <1>5

-----------------------------------------------------------------------------
(***************************************************************************)
(* Counting the requests that hold a server.                               *)
(***************************************************************************)
LEMMA HoldersAreFinite ==
    ASSUME NEW p
    PROVE  /\ IsFiniteSet(Holders(p)) /\ Cardinality(Holders(p)) \in Nat
           /\ IsFiniteSet(Holders(p)') /\ Cardinality(Holders(p)') \in Nat
  <1>1. Holders(p) \subseteq Requests /\ Holders(p)' \subseteq Requests
    BY DEF Holders
  <1>2. IsFiniteSet(Holders(p)) /\ IsFiniteSet(Holders(p)')
    BY <1>1, Constants, FS_Subset
  <1>3. QED
    BY <1>2, FS_CardinalityType

LEMMA HeldIsCounted ==
    ASSUME TypeOK, ConnsBalanced, NEW r \in Requests, holds[r] \in Servers
    PROVE  conns[holds[r]] > 0
  <1> DEFINE p == holds[r]
  <1>1. r \in Holders(p)
    BY DEF Holders
  <1>2. Cardinality(Holders(p)) # 0
    BY <1>1, HoldersAreFinite, FS_EmptySet
  <1>3. conns[p] = Cardinality(Holders(p)) + leaked[p] /\ leaked[p] \in Nat
    BY DEF ConnsBalanced, TypeOK
  <1> HIDE DEF p
  <1>4. conns[p] > 0
    BY <1>2, <1>3, HoldersAreFinite
  <1>5. QED
    BY <1>4 DEF p

(* The holders of server p become S. *)
LEMMA BalanceIsKept ==
    ASSUME TypeOK, ConnsBalanced, UNCHANGED leaked, NEW q \in Servers,
           \A p \in Servers \ {q} :
               conns'[p] = conns[p] /\ Holders(p)' = Holders(p),
           conns'[q] - Cardinality(Holders(q)') = conns[q] - Cardinality(Holders(q)),
           conns'[q] \in Nat
    PROVE  ConnsBalanced'
  <1> SUFFICES ASSUME NEW p \in Servers
               PROVE  conns'[p] = Cardinality(Holders(p)') + leaked[p]
    BY DEF ConnsBalanced
  <1>1. conns[p] = Cardinality(Holders(p)) + leaked[p]
        /\ leaked[p] \in Nat /\ conns[p] \in Nat
    BY DEF ConnsBalanced, TypeOK
  <1>2. CASE p # q
    BY <1>1, <1>2
  <1>3. CASE p = q
    BY <1>1, <1>3, HoldersAreFinite
  <1>4. QED
    BY <1>2, <1>3

LEMMA ChooseBalances ==
    ASSUME TypeOK, ConnsBalanced, UNCHANGED leaked,
           NEW r \in Requests, holds[r] = None,
           NEW S \in SUBSET Servers, S # {}, ChooseServer(r, S)
    PROVE  ConnsBalanced'
  <1>1. PICK q \in Servers : /\ conns' = [conns EXCEPT ![q] = @ + 1]
                             /\ holds' = [holds EXCEPT ![r] = q]
    BY BestIsEligible DEF ChooseServer
  <1>2. \A p \in Servers \ {q} : conns'[p] = conns[p] /\ Holders(p)' = Holders(p)
    BY <1>1, Constants DEF TypeOK, Holders
  <1>3. Holders(q)' = Holders(q) \cup {r} /\ r \notin Holders(q)
    BY <1>1, Constants DEF TypeOK, Holders
  <1>4. Cardinality(Holders(q)') = Cardinality(Holders(q)) + 1
    BY <1>3, HoldersAreFinite, FS_AddElement
  <1>5. conns'[q] = conns[q] + 1 /\ conns[q] \in Nat
    BY <1>1 DEF TypeOK
  <1>6. conns'[q] - Cardinality(Holders(q)') = conns[q] - Cardinality(Holders(q))
    BY <1>4, <1>5, HoldersAreFinite
  <1>7. QED
    BY <1>2, <1>5, <1>6, BalanceIsKept

LEMMA FreeBalances ==
    ASSUME TypeOK, ConnsBalanced, UNCHANGED leaked,
           NEW r \in Requests, holds[r] \in Servers,
           NEW failed, FreeServer(holds[r], failed),
           \A q \in Requests : holds'[q] = IF q = r THEN None ELSE holds[q]
    PROVE  ConnsBalanced'
  <1>0. PICK p \in Servers : p = holds[r]
    OBVIOUS
  <1>1. conns' = [conns EXCEPT ![p] = @ - 1]
    BY <1>0 DEF FreeServer
  <1>2. \A q \in Servers \ {p} : conns'[q] = conns[q] /\ Holders(q)' = Holders(q)
    BY <1>0, <1>1, Constants DEF TypeOK, Holders
  <1>3. Holders(p)' = Holders(p) \ {r} /\ r \in Holders(p)
    BY <1>0, Constants DEF Holders
  <1>4. Cardinality(Holders(p)') = Cardinality(Holders(p)) - 1
    BY <1>3, HoldersAreFinite, FS_RemoveElement
  <1>5. conns'[p] = conns[p] - 1 /\ conns[p] \in Nat /\ conns[p] > 0
    BY <1>0, <1>1, HeldIsCounted DEF TypeOK
  <1>6. conns'[p] - Cardinality(Holders(p)') = conns[p] - Cardinality(Holders(p))
        /\ conns'[p] \in Nat
    BY <1>4, <1>5, HoldersAreFinite
  <1>7. QED
    BY <1>2, <1>6, BalanceIsKept

LEMMA OverFrees ==
    ASSUME TypeOK, NEW S, Over(S)
    PROVE  \A q \in Requests : /\ holds'[q] = IF q \in S THEN None ELSE holds[q]
                               /\ conn'[q] = IF q \in S THEN None ELSE conn[q]
                               /\ at'[q] = IF q \in S THEN "done" ELSE at[q]
  BY DEF Over

-----------------------------------------------------------------------------
(***************************************************************************)
(* Types, places and counts go together: a count is a natural number only  *)
(* because every server that is given back was counted.                    *)
(***************************************************************************)
Core == TypeOK /\ Placed /\ ConnsBalanced

(* Only r's place changes. *)
PlaceOf(r) ==
    /\ at'[r] \in {"idle", "get", "done"} => holds'[r] = None /\ conn'[r] = None
    /\ at'[r] \in {"declined", "failed"} => holds'[r] # None /\ conn'[r] = None
    /\ at'[r] \in {"send"} \cup Suspended => holds'[r] # None /\ conn'[r] # None

LEMMA PlacesOfOthers ==
    ASSUME Placed, NEW S,
           \A q \in Requests \ S :
               at'[q] = at[q] /\ holds'[q] = holds[q] /\ conn'[q] = conn[q],
           \A q \in Requests \cap S : PlaceOf(q)
    PROVE  Placed'
  BY DEF Placed, PlaceOf

LEMMA SameHolders ==
    ASSUME ConnsBalanced, UNCHANGED <<conns, holds, leaked>>
    PROVE  ConnsBalanced'
  BY DEF ConnsBalanced, Holders

LEMMA StartKeepsCore ==
    ASSUME Core, NEW r \in Requests, Start(r) \/ GetFromBackup(r)
    PROVE  Core'
  <1> USE DEF Core
  <1>1. UNCHANGED <<zone, holds, conn, cached, sent, gone, reached, fresh, cache,
                    open, outside>>
    BY DEF Start, GetFromBackup
  <1>2. /\ at' = at \/ at' = [at EXCEPT ![r] = "get"]
        /\ at[r] \in {"idle", "get"}
        /\ at'[r] = "get"
    BY DEF Start, GetFromBackup, Goto, TypeOK
  <1>3. tries' \in [Requests -> Nat] /\ onBackup' \in [Requests -> BOOLEAN]
        /\ tried' \in [Requests -> SUBSET Servers]
    <2>1. InitialTries \in Nat
      BY Constants
    <2>2. CASE Start(r)
      BY <2>1, <2>2 DEF Start, TypeOK
    <2>3. CASE GetFromBackup(r)
      BY <2>3 DEF GetFromBackup, TypeOK
    <2>4. QED
      BY <2>2, <2>3
  <1>4. at' \in [Requests -> Running \cup Suspended \cup {"idle", "done"}]
    BY <1>2 DEF TypeOK, Running
  <1>5. TypeOK'
    BY <1>1, <1>3, <1>4 DEF TypeOK, zone, outside
  <1>6. Placed'
    BY <1>1, <1>2 DEF Placed, TypeOK, Suspended
  <1>7. ConnsBalanced'
    BY <1>1, SameHolders DEF zone, outside
  <1>8. QED
    BY <1>5, <1>6, <1>7

LEMMA GetBusyKeepsCore ==
    ASSUME Core, NEW r \in Requests, GetBusy(r)
    PROVE  Core'
  <1> USE DEF Core
  <1>1. at[r] = "get" /\ Over({r}) /\ UNCHANGED <<zone, cache, open, outside>>
    BY DEF GetBusy
  <1>2. TypeOK'
    BY <1>1, TypeParts, OverIsTyped
    DEF ZoneTyped, PoolsTyped, OutsideTyped, zone, outside
  <1>3. Placed'
    BY <1>1, OverFrees, PlacesOfOthers DEF PlaceOf, Suspended
  <1>4. holds' = holds
    BY <1>1 DEF Placed, Over, TypeOK
  <1>5. ConnsBalanced'
    BY <1>1, <1>4, SameHolders DEF zone, outside
  <1>6. QED
    BY <1>2, <1>3, <1>5

LEMMA GetKeepsCore ==
    ASSUME Core, NEW r \in Requests, GetCached(r) \/ GetConnect(r)
    PROVE  Core'
  <1> USE DEF Core
  <1> DEFINE S == Eligible(r)
             w == home[r]
  <1>1. /\ at[r] = "get" /\ S # {} /\ ChooseServer(r, S)
        /\ UNCHANGED <<onBackup, tries, gone, reached, outside>>
    BY DEF GetCached, GetConnect
  <1>2. S \in SUBSET Servers
    BY Eligibility
  <1>3. w \in Workers
    BY HomeIsWorker
  <1>4. holds[r] = None /\ conn[r] = None
    BY <1>1 DEF Placed
  <1>5. /\ ZoneTyped'
        /\ tried' \in [Requests -> SUBSET Servers]
        /\ holds' \in [Requests -> Servers \cup {None}]
    BY <1>1, <1>2, ChooseIsTyped
  <1>6. PICK p \in Servers : holds' = [holds EXCEPT ![r] = p]
    BY <1>1, <1>2, BestIsEligible DEF ChooseServer
  <1>7. ConnsBalanced'
    BY <1>1, <1>2, <1>4, ChooseBalances DEF outside
  <1>8. /\ cached' \in [Requests -> BOOLEAN] /\ sent' \in [Requests -> BOOLEAN]
        /\ fresh' \in [Requests -> Nat]
    <2>1. fresh \in [Requests -> Nat] /\ fresh[r] + 1 \in Nat
      BY DEF TypeOK
    <2>2. fresh' = fresh \/ fresh' = [fresh EXCEPT ![r] = @ + 1]
      BY DEF GetCached, GetConnect
    <2>3. fresh' \in [Requests -> Nat]
      BY <2>1, <2>2
    <2>4. cached' = [cached EXCEPT ![r] = TRUE] \/ cached' = [cached EXCEPT ![r] = FALSE]
      BY DEF GetCached, GetConnect
    <2>5. sent' = sent \/ sent' = [sent EXCEPT ![r] = FALSE]
      BY DEF GetCached, GetConnect
    <2>6. QED
      BY <2>3, <2>4, <2>5 DEF TypeOK
  <1>9. /\ \A q \in Requests \ {r} : at'[q] = at[q] /\ conn'[q] = conn[q]
        /\ at' \in [Requests -> Running \cup Suspended \cup {"idle", "done"}]
        /\ conn' \in [Requests -> 0 .. PoolSize]
        /\ \/ at'[r] \in {"declined", "failed"} /\ conn'[r] = None
           \/ at'[r] \in {"send"} \cup Suspended /\ conn'[r] # None
        /\ PoolsTyped'
    <2>1. CASE GetCached(r)
      <3> DEFINE i == Min(CachedTo(w, Best(S)))
      <3>1. CachedTo(w, Best(S)) # {} /\ CachedTo(w, Best(S)) \subseteq DOMAIN cache[w]
            /\ cache[w] \in Seq(Items)
        BY <1>3, <2>1, TypeParts DEF GetCached, CachedTo, PoolsTyped
      <3>2. i \in DOMAIN cache[w]
        <4>1. CachedTo(w, Best(S)) \subseteq Nat
          BY <3>1
        <4>2. \E x \in CachedTo(w, Best(S)) : \A y \in CachedTo(w, Best(S)) : x <= y
          BY <3>1, <4>1, LeastExists
        <4>3. QED
          BY <3>1, <4>2 DEF Min
      <3>3. cache[w][i] \in Items
        BY <3>1, <3>2
      <3>4. cache[w][i].conn \in 1 .. PoolSize
        BY <3>3 DEF Items
      <3>5. RemoveAt(cache[w], i) \in Seq(Items)
        BY <3>1, <3>2, RemoveAtFacts
      <3>6. /\ conn' = [conn EXCEPT ![r] = cache[w][i].conn]
            /\ cache' = [cache EXCEPT ![w] = RemoveAt(@, i)]
            /\ Goto(r, "send") /\ open' = open
        BY <2>1 DEF GetCached
      <3> HIDE DEF i, w, S
      <3>7. PoolsTyped'
        BY <1>3, <3>5, <3>6, TypeParts DEF PoolsTyped
      <3>8. cache[w][i].conn \in 0 .. PoolSize /\ cache[w][i].conn # None
        BY <3>4, Constants DEF None
      <3>9. QED
        BY <3>6, <3>7, <3>8 DEF Goto, TypeOK, Running
    <2>2. CASE GetConnect(r)
      <3>1. /\ UNCHANGED cache
            /\ \/ Goto(r, "failed") /\ UNCHANGED <<conn, open>>
               \/ Goto(r, "declined") /\ UNCHANGED <<conn, open>>
               \/ /\ FreeConns(w) # {}
                  /\ conn' = [conn EXCEPT ![r] = Min(FreeConns(w))]
                  /\ open' = [open EXCEPT ![w] = @ \cup {Min(FreeConns(w))}]
                  /\ Goto(r, "connecting") \/ Goto(r, "send")
        BY <2>2 DEF GetConnect
      <3>2. FreeConns(w) \subseteq 1 .. PoolSize
        BY DEF FreeConns
      <3>3. FreeConns(w) # {} => Min(FreeConns(w)) \in 1 .. PoolSize
        <4>1. FreeConns(w) \subseteq Nat
          BY <3>2, Constants
        <4>2. FreeConns(w) # {} =>
                  \E x \in FreeConns(w) : \A y \in FreeConns(w) : x <= y
          BY <4>1, LeastExists
        <4>3. QED
          BY <3>2, <4>2 DEF Min
      <3> HIDE DEF w, S
      <3>4. PoolsTyped'
        BY <1>3, <3>1, <3>3, TypeParts DEF PoolsTyped
      <3>5. CASE Goto(r, "failed") /\ UNCHANGED <<conn, open>>
        BY <1>4, <3>4, <3>5 DEF Goto, TypeOK, Running
      <3>6. CASE Goto(r, "declined") /\ UNCHANGED <<conn, open>>
        BY <1>4, <3>4, <3>6 DEF Goto, TypeOK, Running
      <3>7. CASE /\ FreeConns(w) # {}
                 /\ conn' = [conn EXCEPT ![r] = Min(FreeConns(w))]
                 /\ Goto(r, "connecting") \/ Goto(r, "send")
        <4>1. Min(FreeConns(w)) \in 0 .. PoolSize /\ Min(FreeConns(w)) # None
          BY <3>3, <3>7, Constants DEF None
        <4>2. QED
          BY <3>4, <3>7, <4>1 DEF Goto, TypeOK, Running, Suspended
      <3>8. QED
        BY <3>1, <3>5, <3>6, <3>7
    <2>3. QED
      BY <2>1, <2>2
  <1>10. RequestsTyped'
    BY <1>1, <1>5, <1>8, <1>9, TypeParts DEF RequestsTyped
  <1>11. OutsideTyped'
    BY <1>1, TypeParts DEF OutsideTyped, outside
  <1>12. TypeOK'
    BY <1>5, <1>9, <1>10, <1>11, TypeParts
  <1>13. Placed'
    <2>1. holds'[r] # None /\ \A q \in Requests \ {r} : holds'[q] = holds[q]
      BY <1>6, Constants DEF TypeOK
    <2>2. PlaceOf(r)
      BY <1>9, <2>1 DEF PlaceOf, Suspended
    <2>3. \A q \in Requests \cap {r} : PlaceOf(q)
      BY <2>2
    <2>4. \A q \in Requests \ {r} :
              at'[q] = at[q] /\ holds'[q] = holds[q] /\ conn'[q] = conn[q]
      BY <1>9, <2>1
    <2>5. QED
      BY <2>3, <2>4, PlacesOfOthers
  <1>14. QED
    BY <1>7, <1>12, <1>13

(* An attempt or a request ends: the server and the connection go back. *)
LEMMA GivingBack ==
    ASSUME Core, NEW r \in Requests, NEW failed \in BOOLEAN, NEW keep \in BOOLEAN,
           at[r] \in Running \cup Suspended, at[r] # "get",
           FreeServer(holds[r], failed), FreeConnection(r, keep), UNCHANGED outside,
           RequestsTyped',
           at'[r] \in {"get", "done"},
           \A q \in Requests : /\ holds'[q] = IF q = r THEN None ELSE holds[q]
                               /\ conn'[q] = IF q = r THEN None ELSE conn[q]
                               /\ q # r => at'[q] = at[q]
    PROVE  Core'
  <1> USE DEF Core
  <1>1. holds[r] \in Servers
    BY DEF Placed, TypeOK, Running, Suspended
  <1>2. ZoneTyped'
    BY <1>1, HeldIsCounted, FreeServerIsTyped
  <1>3. PoolsTyped'
    BY <1>1, FreeConnectionFacts
  <1>4. OutsideTyped'
    BY TypeParts DEF OutsideTyped, outside
  <1>5. TypeOK'
    BY <1>2, <1>3, <1>4, TypeParts
  <1>6. ConnsBalanced'
    BY <1>1, FreeBalances DEF outside
  <1>7. Placed'
    <2>1. \A q \in Requests \cap {r} : PlaceOf(q)
      BY DEF PlaceOf, Suspended
    <2>2. \A q \in Requests \ {r} :
              at'[q] = at[q] /\ holds'[q] = holds[q] /\ conn'[q] = conn[q]
      OBVIOUS
    <2>3. QED
      BY <2>1, <2>2, PlacesOfOthers
  <1>8. QED
    BY <1>5, <1>6, <1>7

LEMMA TriesAreNatural ==
    ASSUME TypeOK, NEW r \in Requests, NEW ft
    PROVE  TriesAfter(r, ft) \in Nat
  BY DEF TypeOK, TriesAfter

(* TryNext, taken apart. *)
LEMMA TryNextFacts ==
    ASSUME NEW r \in Requests, NEW ft, NEW wasSent, TryNext(r, ft, wasSent)
    PROVE  /\ \E failed \in BOOLEAN : FreeServer(holds[r], failed)
           /\ \E keep \in BOOLEAN : FreeConnection(r, keep)
           /\ UNCHANGED outside
           /\ \/ /\ ~gone[r] /\ TriesAfter(r, ft) > 0 /\ MayRetry(r, ft, wasSent)
                 /\ tries' = [tries EXCEPT ![r] = TriesAfter(r, ft)]
                 /\ holds' = [holds EXCEPT ![r] = None]
                 /\ conn' = [conn EXCEPT ![r] = None]
                 /\ sent' = [sent EXCEPT ![r] = wasSent]
                 /\ CountAttempt(r, wasSent)
                 /\ Goto(r, "get")
                 /\ UNCHANGED <<onBackup, tried, cached, gone, fresh>>
              \/ Over({r})
  <1>1. FreeServer(holds[r], ft # "http_404") /\ (ft # "http_404") \in BOOLEAN
    BY DEF TryNext
  <1>2. \E failed \in BOOLEAN : FreeServer(holds[r], failed)
    BY <1>1
  <1>3. QED
    BY <1>2 DEF TryNext

LEMMA FailsKeepsCore ==
    ASSUME Core, NEW r \in Requests, NEW ft \in Failures, NEW wasSent \in BOOLEAN,
           Fails(r, ft, wasSent)
    PROVE  Core'
  <1> USE DEF Core
  <1>1. at[r] \in Running \cup Suspended /\ at[r] # "get"
    BY DEF Fails, Attempting, Running, Suspended
  <1>2. TryNext(r, ft, wasSent)
    BY DEF Fails
  <1>3. PICK keep \in BOOLEAN : FreeConnection(r, keep)
    BY <1>2, TryNextFacts
  <1>4. UNCHANGED outside
    BY <1>2, TryNextFacts
  <1> PICK failed \in BOOLEAN : FreeServer(holds[r], failed)
    BY <1>2, TryNextFacts
  <1>5. CASE Over({r})
    <2>1. RequestsTyped'
      BY <1>5, TypeParts, OverIsTyped
    <2>2. /\ at'[r] = "done"
          /\ \A q \in Requests : /\ holds'[q] = IF q = r THEN None ELSE holds[q]
                                 /\ conn'[q] = IF q = r THEN None ELSE conn[q]
                                 /\ q # r => at'[q] = at[q]
      BY <1>5, OverFrees
    <2>3. QED
      BY <1>1, <1>3, <1>4, <2>1, <2>2, GivingBack
  <1>6. CASE ~Over({r})
    <2>1. /\ tries' = [tries EXCEPT ![r] = TriesAfter(r, ft)]
          /\ holds' = [holds EXCEPT ![r] = None]
          /\ conn' = [conn EXCEPT ![r] = None]
          /\ sent' = [sent EXCEPT ![r] = wasSent]
          /\ CountAttempt(r, wasSent)
          /\ Goto(r, "get")
          /\ UNCHANGED <<onBackup, tried, cached, gone, fresh>>
      BY <1>2, <1>6, TryNextFacts
    <2>2. reached' \in [Requests -> Nat]
      <3>1. reached[r] \in Nat /\ reached[r] + 1 \in Nat
        BY DEF TypeOK
      <3>2. \E n \in Nat : reached' = [reached EXCEPT ![r] = n]
        BY <2>1, <3>1 DEF CountAttempt
      <3>3. QED
        BY <3>2 DEF TypeOK
    <2>3. TriesAfter(r, ft) \in Nat
      BY TriesAreNatural
    <2>4. 0 \in 0 .. PoolSize
      BY Constants
    <2>5. RequestsTyped'
      BY <2>1, <2>2, <2>3, <2>4, TypeParts DEF RequestsTyped, Goto, Running, None
    <2>6. /\ at'[r] = "get"
          /\ \A q \in Requests : /\ holds'[q] = IF q = r THEN None ELSE holds[q]
                                 /\ conn'[q] = IF q = r THEN None ELSE conn[q]
                                 /\ q # r => at'[q] = at[q]
      BY <2>1 DEF Goto, TypeOK
    <2>7. QED
      BY <1>1, <1>3, <1>4, <2>5, <2>6, GivingBack
  <1>7. QED
    BY <1>5, <1>6

LEMMA EndsKeepsCore ==
    ASSUME Core, NEW r \in Requests, NEW keep \in BOOLEAN, Ends(r, keep)
    PROVE  Core'
  <1> USE DEF Core
  <1>1. at[r] \in Running \cup Suspended /\ at[r] # "get"
    BY DEF Ends, Running, Suspended
  <1>2. /\ FreeServer(holds[r], FALSE) /\ FreeConnection(r, keep)
        /\ Over({r}) /\ UNCHANGED outside
    BY DEF Ends, Finalize
  <1>3. RequestsTyped'
    BY <1>2, TypeParts, OverIsTyped
  <1>4. /\ at'[r] = "done"
        /\ \A q \in Requests : /\ holds'[q] = IF q = r THEN None ELSE holds[q]
                               /\ conn'[q] = IF q = r THEN None ELSE conn[q]
                               /\ q # r => at'[q] = at[q]
    BY <1>2, OverFrees
  <1>5. QED
    BY <1>1, <1>2, <1>3, <1>4, GivingBack

LEMMA AdvancesKeepsCore ==
    ASSUME Core, NEW r \in Requests, Advances(r)
    PROVE  Core'
  <1> USE DEF Core
  <1>1. /\ at' = at \/ \E point \in Suspended : at' = [at EXCEPT ![r] = point]
        /\ at[r] \in {"send"} \cup Suspended
        /\ UNCHANGED <<zone, onBackup, tried, holds, conn, cached, tries, fresh,
                       cache, open, home, leaked, crashes>>
    BY DEF Advances, Goto, Attached
  <1>2. at' \in [Requests -> Running \cup Suspended \cup {"idle", "done"}]
    BY <1>1 DEF TypeOK, Suspended
  <1>3. sent' \in [Requests -> BOOLEAN] /\ gone' \in [Requests -> BOOLEAN]
    BY DEF Advances, TypeOK
  <1>4. headerSent' \in [Requests -> BOOLEAN]
    BY DEF Advances, TypeOK
  <1>5. reached' \in [Requests -> Nat]
    <2>1. reached[r] \in Nat /\ reached[r] + 1 \in Nat
      BY DEF TypeOK
    <2>2. reached' = reached \/ \E n \in Nat : reached' = [reached EXCEPT ![r] = n]
      BY <2>1 DEF Advances, CountAttempt
    <2>3. QED
      BY <2>2 DEF TypeOK
  <1>6. TypeOK'
    BY <1>1, <1>2, <1>3, <1>5, <1>4 DEF TypeOK, zone
  <1>7. Placed'
    BY <1>1 DEF Placed, TypeOK, Suspended
  <1>8. ConnsBalanced'
    BY <1>1, SameHolders DEF zone, outside
  <1>9. QED
    BY <1>6, <1>7, <1>8

LEMMA KeepaliveCloseKeepsCore ==
    ASSUME Core, NEW w \in Workers, KeepaliveClose(w)
    PROVE  Core'
  <1> USE DEF Core
  <1>1. PICK i \in DOMAIN cache[w] :
            /\ open' = [open EXCEPT ![w] = @ \ {cache[w][i].conn}]
            /\ cache' = [cache EXCEPT ![w] = RemoveAt(@, i)]
    BY DEF KeepaliveClose, Closed
  <1>2. cache[w] \in Seq(Items) /\ open[w] \in SUBSET (1 .. PoolSize)
    BY TypeParts DEF PoolsTyped
  <1>3. RemoveAt(cache[w], i) \in Seq(Items)
    BY <1>2, RemoveAtFacts
  <1>4. PoolsTyped'
    BY <1>1, <1>2, <1>3, TypeParts DEF PoolsTyped
  <1>5. UNCHANGED <<zone, at, local, outside>>
    BY DEF KeepaliveClose
  <1>6. TypeOK'
    BY <1>4, <1>5, TypeParts
    DEF ZoneTyped, RequestsTyped, OutsideTyped, zone, local, outside
  <1>7. Placed' /\ ConnsBalanced'
    BY <1>5, SameHolders DEF Placed, zone, local, outside
  <1>8. QED
    BY <1>6, <1>7

LEMMA ExpireKeepsCore ==
    ASSUME Core, NEW p \in Servers, Expire(p)
    PROVE  Core'
  <1> USE DEF Core
  <1>1. /\ recent' = [recent EXCEPT ![p] = FALSE]
        /\ UNCHANGED <<fails, conns, effective, current, probed, at, local, cache,
                       open, outside>>
    BY DEF Expire
  <1>2. TypeOK'
    BY <1>1 DEF TypeOK, local, outside
  <1>3. Placed' /\ ConnsBalanced'
    BY <1>1, SameHolders DEF Placed, local, outside
  <1>4. QED
    BY <1>2, <1>3

LEMMA CrashKeepsCore ==
    ASSUME Core, NEW w \in Workers, Crash(w)
    PROVE  Core'
  <1> USE DEF Core
  <1> DEFINE Here == {r \in Requests : home[r] = w}
  <1>1. /\ crashes < MaxCrashes
        /\ crashes' = crashes + 1
        /\ leaked' = [p \in Servers |-> leaked[p] + Cardinality(Holders(p) \cap Here)]
        /\ cache' = [cache EXCEPT ![w] = <<>>]
        /\ open' = [open EXCEPT ![w] = {}]
        /\ Over(Here)
        /\ UNCHANGED <<zone, home, headerSent>>
    BY DEF Crash
  <1>2. \A p \in Servers :
            /\ IsFiniteSet(Holders(p) \cap Here)
            /\ Cardinality(Holders(p) \cap Here) \in Nat
            /\ Cardinality(Holders(p) \ Here)
                   = Cardinality(Holders(p)) - Cardinality(Holders(p) \cap Here)
    <2> SUFFICES ASSUME NEW p \in Servers
                 PROVE  /\ IsFiniteSet(Holders(p) \cap Here)
                        /\ Cardinality(Holders(p) \cap Here) \in Nat
                        /\ Cardinality(Holders(p) \ Here)
                             = Cardinality(Holders(p))
                                 - Cardinality(Holders(p) \cap Here)
      OBVIOUS
    <2>1. IsFiniteSet(Holders(p)) /\ IsFiniteSet(Here)
      BY HoldersAreFinite, Constants, FS_Subset
    <2> HIDE DEF Here
    <2>2. IsFiniteSet(Holders(p) \cap Here)
      BY <2>1, FS_Subset
    <2>3. QED
      BY <2>1, <2>2, FS_Difference, FS_CardinalityType
  <1> HIDE DEF Here
  <1>3. OutsideTyped'
    <2>1. crashes' \in 0 .. MaxCrashes
      BY <1>1, Constants DEF TypeOK
    <2>2. leaked' \in [Servers -> Nat]
      <3>1. ASSUME NEW p \in Servers
            PROVE  leaked[p] + Cardinality(Holders(p) \cap Here) \in Nat
        <4>1. Cardinality(Holders(p) \cap Here) \in Nat
          BY <1>2
        <4>2. leaked[p] \in Nat
          BY DEF TypeOK
        <4>3. QED
          BY <4>1, <4>2
      <3>2. QED
        BY <1>1, <3>1
    <2>3. QED
      BY <1>1, <2>1, <2>2 DEF OutsideTyped, TypeOK
  <1>4. PoolsTyped'
    <2>1. <<>> \in Seq(Items)
      OBVIOUS
    <2>2. QED
      BY <1>1, <2>1, TypeParts DEF PoolsTyped
  <1>5. RequestsTyped'
    BY <1>1, TypeParts, OverIsTyped
  <1>6. TypeOK'
    BY <1>1, <1>3, <1>4, <1>5, TypeParts DEF ZoneTyped, zone
  <1>7. Placed'
    <2>1. \A q \in Requests \ Here :
              at'[q] = at[q] /\ holds'[q] = holds[q] /\ conn'[q] = conn[q]
      BY <1>1, OverFrees
    <2>2. \A q \in Requests \cap Here : PlaceOf(q)
      BY <1>1, OverFrees DEF PlaceOf, Suspended
    <2>3. QED
      BY <2>1, <2>2, PlacesOfOthers
  <1>8. ConnsBalanced'
    <2> SUFFICES ASSUME NEW p \in Servers
                 PROVE  conns'[p] = Cardinality(Holders(p)') + leaked'[p]
      BY DEF ConnsBalanced
    <2>1. Holders(p)' = Holders(p) \ Here
      BY <1>1, OverFrees, Constants DEF Holders
    <2>2. conns'[p] = conns[p] /\ conns[p] = Cardinality(Holders(p)) + leaked[p]
      BY <1>1 DEF ConnsBalanced, zone
    <2>3. leaked'[p] = leaked[p] + Cardinality(Holders(p) \cap Here) /\ leaked[p] \in Nat
      BY <1>1 DEF TypeOK
    <2> DEFINE a == Cardinality(Holders(p))
               b == Cardinality(Holders(p) \cap Here)
    <2>4. a \in Nat /\ b \in Nat /\ Cardinality(Holders(p)') = a - b
      BY <1>2, <2>1, HoldersAreFinite
    <2>5. conns'[p] = a + leaked[p] /\ leaked'[p] = leaked[p] + b
      BY <2>2, <2>3
    <2> HIDE DEF a, b
    <2>6. QED
      BY <2>3, <2>4, <2>5
  <1>9. QED
    BY <1>6, <1>7, <1>8

LEMMA CoreInitially == Init => Core
  <1> SUFFICES ASSUME Init PROVE Core
    OBVIOUS
  <1>1. ZoneTyped /\ OutsideTyped
    BY Constants DEF Init, ZoneTyped, OutsideTyped
  <1>2. RequestsTyped /\ PoolsTyped
    <2>1. 0 \in 0 .. PoolSize /\ <<>> \in Seq(Items)
      BY Constants
    <2>2. QED
      BY <2>1 DEF Init, RequestsTyped, PoolsTyped, None
  <1>3. Placed
    BY DEF Init, Placed, Suspended
  <1>4. ConnsBalanced
    <2> SUFFICES ASSUME NEW p \in Servers
                 PROVE  conns[p] = Cardinality(Holders(p)) + leaked[p]
      BY DEF ConnsBalanced
    <2>1. Holders(p) = {}
      BY Constants DEF Init, Holders
    <2>2. Cardinality(Holders(p)) = 0
      BY <2>1, FS_EmptySet
    <2>3. QED
      BY <2>2 DEF Init
  <1>5. QED
    BY <1>1, <1>2, <1>3, <1>4, TypeParts DEF Core

LEMMA CoreIsKept == Core /\ [Next]_vars => Core'
  <1> SUFFICES ASSUME Core, [Next]_vars PROVE Core'
    OBVIOUS
  <1>1. ASSUME NEW r \in Requests, RequestStep(r) PROVE Core'
    BY <1>1, StartKeepsCore, GetBusyKeepsCore, GetKeepsCore, FailsKeepsCore,
       EndsKeepsCore, AdvancesKeepsCore
    DEF RequestStep
  <1>2. CASE UNCHANGED vars
    BY <1>2, SameHolders
    DEF Core, TypeOK, Placed, vars, zone, local, outside
  <1>3. CASE Next
    BY <1>1, <1>3, StepCases, KeepaliveCloseKeepsCore, CrashKeepsCore,
       ExpireKeepsCore
    DEF Core
  <1>4. QED
    BY <1>2, <1>3

-----------------------------------------------------------------------------
(***************************************************************************)
(* What a request has sent, and the connections made for it.               *)
(***************************************************************************)
Once(r) ==
    \/ r \in Unbuffered
    \/ r \in NonIdempotent /\ "non_idempotent" \notin NextUpstream

(* A request that may be sent once is not tried again after it was sent. *)
SentCounted(r) ==
    Once(r) => /\ reached[r] = IF sent[r] THEN 1 ELSE 0
               /\ at[r] \in {"idle", "get", "done"} => ~sent[r]

(***************************************************************************)
(* The tries that are left and the connections made do not exceed          *)
(* InitialTries, but for the connection of the attempt that is going on.   *)
(***************************************************************************)
TriesCounted(r) ==
    /\ at[r] \in {"idle", "done"} => fresh[r] = 0
    /\ at[r] \notin {"idle", "done"} =>
           /\ tries[r] >= 1
           /\ fresh[r] + tries[r]
                  <= InitialTries + (IF at[r] = "get" \/ cached[r] THEN 0 ELSE 1)

Counted == \A r \in Requests : SentCounted(r) /\ TriesCounted(r)

(* The part of the state that Counted is about, unchanged for q. *)
Still(q) ==
    /\ at'[q] = at[q] /\ sent'[q] = sent[q] /\ reached'[q] = reached[q]
    /\ fresh'[q] = fresh[q] /\ tries'[q] = tries[q] /\ cached'[q] = cached[q]

Cleared(q) ==
    at'[q] = "done" /\ sent'[q] = FALSE /\ reached'[q] = 0 /\ fresh'[q] = 0

LEMMA CountsOfOthers ==
    ASSUME Counted, NEW S,
           \A q \in Requests \ S : Still(q),
           \A q \in Requests \cap S : SentCounted(q)' /\ TriesCounted(q)'
    PROVE  Counted'
  BY DEF Counted, Still, SentCounted, TriesCounted

LEMMA CountsOfOne ==
    ASSUME Counted, NEW r \in Requests,
           \A q \in Requests \ {r} : Still(q),
           SentCounted(r)', TriesCounted(r)'
    PROVE  Counted'
  BY DEF Counted, Still, SentCounted, TriesCounted

LEMMA OverClears ==
    ASSUME NEW S, Over(S)
    PROVE  /\ \A q \in Requests \ S : Still(q)
           /\ \A q \in Requests \cap S : Cleared(q)
  BY DEF Over, Still, Cleared

LEMMA ClearedIsCounted ==
    ASSUME NEW q \in Requests, Cleared(q)
    PROVE  SentCounted(q)' /\ TriesCounted(q)'
  BY DEF Cleared, SentCounted, TriesCounted

LEMMA OverKeepsCounts ==
    ASSUME Counted, NEW S, Over(S)
    PROVE  Counted'
  BY OverClears, ClearedIsCounted, CountsOfOthers

LEMMA NoRetryOnceSent ==
    ASSUME NEW r \in Requests, Once(r), NEW ft, MayRetry(r, ft, TRUE)
    PROVE  FALSE
  BY DEF Once, MayRetry

(* A step of r leaves the other requests alone and counts r rightly. *)
LEMMA StartCounts ==
    ASSUME Core, Counted, NEW r \in Requests,
           Start(r) \/ GetFromBackup(r)
    PROVE  Counted'
  <1> USE DEF Core
  <1>1. \A q \in Requests \ {r} : Still(q)
    BY DEF Start, GetFromBackup, Goto, Still, TypeOK
  <1>2. InitialTries \in Nat \ {0}
    BY Constants
  <1>3. SentCounted(r)' /\ TriesCounted(r)'
    <2>1. CASE Start(r)
      BY <1>2, <2>1 DEF Start, Goto, Counted, SentCounted, TriesCounted, TypeOK
    <2>2. CASE GetFromBackup(r)
      BY <2>2 DEF GetFromBackup, Counted, SentCounted, TriesCounted, TypeOK
    <2>3. QED
      BY <2>1, <2>2
  <1>4. QED
    BY <1>1, <1>3, CountsOfOne

LEMMA GetCounts ==
    ASSUME Core, Counted, NEW r \in Requests, GetCached(r) \/ GetConnect(r)
    PROVE  Counted'
  <1> USE DEF Core
  <1>1. /\ at[r] = "get"
        /\ UNCHANGED <<reached, tries>>
        /\ sent' = sent \/ sent' = [sent EXCEPT ![r] = FALSE]
        /\ \E point \in {"send", "failed", "declined", "connecting"} :
               at' = [at EXCEPT ![r] = point]
        /\ \/ cached' = [cached EXCEPT ![r] = TRUE] /\ fresh' = fresh
           \/ /\ cached' = [cached EXCEPT ![r] = FALSE]
              /\ fresh' = fresh \/ fresh' = [fresh EXCEPT ![r] = @ + 1]
    BY DEF GetCached, GetConnect, Goto
  <1>2. \A q \in Requests \ {r} : Still(q)
    BY <1>1 DEF Still, TypeOK
  <1>3. SentCounted(r)'
    BY <1>1 DEF Counted, SentCounted, TypeOK
  <1>4. TriesCounted(r)'
    <2>1. /\ fresh[r] \in Nat /\ tries[r] \in Nat /\ InitialTries \in Nat
          /\ tries[r] >= 1 /\ fresh[r] + tries[r] <= InitialTries
      <3>1. InitialTries \in Nat
        BY Constants
      <3>2. fresh[r] \in Nat /\ tries[r] \in Nat
        BY DEF TypeOK
      <3>3. QED
        BY <1>1, <3>1, <3>2 DEF Counted, TriesCounted
    <2>2. /\ tries'[r] = tries[r] /\ at'[r] \notin {"idle", "done", "get"}
          /\ \/ cached'[r] /\ fresh'[r] = fresh[r]
             \/ ~cached'[r] /\ (fresh'[r] = fresh[r] \/ fresh'[r] = fresh[r] + 1)
      BY <1>1 DEF TypeOK
    <2>3. QED
      BY <2>1, <2>2 DEF TriesCounted
  <1>5. QED
    BY <1>2, <1>3, <1>4, CountsOfOne

LEMMA FailsCounts ==
    ASSUME Core, Counted, NEW r \in Requests, NEW ft \in Failures,
           NEW wasSent \in BOOLEAN, Fails(r, ft, wasSent)
    PROVE  Counted'
  <1> USE DEF Core
  <1>1. CASE Over({r})
    BY <1>1, OverKeepsCounts
  <1>2. CASE ~Over({r})
    <2>1. /\ TriesAfter(r, ft) > 0 /\ MayRetry(r, ft, wasSent)
          /\ tries' = [tries EXCEPT ![r] = TriesAfter(r, ft)]
          /\ sent' = [sent EXCEPT ![r] = wasSent]
          /\ CountAttempt(r, wasSent)
          /\ at' = [at EXCEPT ![r] = "get"]
          /\ UNCHANGED <<cached, fresh>>
      BY <1>2, TryNextFacts DEF Fails, Goto
    <2>2. \A q \in Requests \ {r} : Still(q)
      BY <2>1 DEF Still, CountAttempt, TypeOK
    <2>3. at[r] \notin {"idle", "done", "get"} /\ (sent[r] => wasSent)
      BY DEF Fails, Attempting
    <2>4. SentCounted(r)'
      <3> SUFFICES ASSUME Once(r)
                   PROVE  reached'[r] = 0 /\ sent'[r] = FALSE
        BY <2>1 DEF SentCounted, Once
      <3>1. wasSent = FALSE
        BY <2>1, NoRetryOnceSent
      <3>2. sent[r] = FALSE /\ reached[r] = 0
        BY <2>3, <3>1 DEF Counted, SentCounted, TypeOK
      <3>3. QED
        BY <2>1, <3>1, <3>2 DEF CountAttempt, TypeOK
    <2>5. TriesCounted(r)'
      <3>1. /\ fresh[r] \in Nat /\ tries[r] \in Nat /\ InitialTries \in Nat
            /\ tries[r] >= 1
            /\ fresh[r] + tries[r] <= InitialTries + (IF cached[r] THEN 0 ELSE 1)
        BY <2>3, Constants DEF Counted, TriesCounted, TypeOK
      <3>2. TriesAfter(r, ft) \in Nat
            /\ TriesAfter(r, ft) <= (IF cached[r] THEN tries[r] ELSE tries[r] - 1)
        BY <3>1 DEF TriesAfter
      <3>3. /\ tries'[r] = TriesAfter(r, ft) /\ fresh'[r] = fresh[r] /\ at'[r] = "get"
        BY <2>1 DEF TypeOK
      <3>4. fresh[r] + TriesAfter(r, ft) <= InitialTries
        BY <3>1, <3>2
      <3>5. QED
        BY <2>1, <3>1, <3>2, <3>3, <3>4 DEF TriesCounted
    <2>6. QED
      BY <2>2, <2>4, <2>5, CountsOfOne
  <1>3. QED
    BY <1>1, <1>2

LEMMA AdvancesCounts ==
    ASSUME Core, Counted, NEW r \in Requests, Advances(r)
    PROVE  Counted'
  <1> USE DEF Core
  <1>1. /\ \/ UNCHANGED at
           \/ \E point \in Suspended : at' = [at EXCEPT ![r] = point]
        /\ at[r] \notin {"idle", "get", "done"}
        /\ \/ UNCHANGED <<sent, reached>>
           \/ CountAttempt(r, TRUE) /\ sent' = [sent EXCEPT ![r] = TRUE]
        /\ UNCHANGED <<cached, tries, fresh>>
    BY DEF Advances, Attached, Suspended, Goto
  <1>2. \A q \in Requests \ {r} : Still(q)
    BY <1>1 DEF Still, CountAttempt, TypeOK
  <1>3. at'[r] \notin {"idle", "get", "done"}
    BY <1>1 DEF TypeOK, Suspended
  <1>4. TriesCounted(r)'
    BY <1>1, <1>3 DEF Counted, TriesCounted
  <1>5. SentCounted(r)'
    <2>1. CASE UNCHANGED <<sent, reached>>
      BY <1>3, <2>1 DEF Counted, SentCounted, Once
    <2>2. CASE CountAttempt(r, TRUE) /\ sent' = [sent EXCEPT ![r] = TRUE]
      BY <1>3, <2>2 DEF Counted, SentCounted, Once, CountAttempt, TypeOK
    <2>3. QED
      BY <1>1, <2>1, <2>2
  <1>6. QED
    BY <1>2, <1>4, <1>5, CountsOfOne

LEMMA CountsAreKept == Core /\ Counted /\ [Next]_vars => Counted'
  <1> SUFFICES ASSUME Core, Counted, [Next]_vars PROVE Counted'
    OBVIOUS
  <1>1. ASSUME NEW r \in Requests, GetBusy(r) \/ \E keep \in BOOLEAN : Ends(r, keep)
        PROVE  Counted'
    BY <1>1, OverKeepsCounts DEF GetBusy, Ends, Finalize
  <1>2. ASSUME NEW r \in Requests, RequestStep(r) PROVE Counted'
    BY <1>1, <1>2, StartCounts, GetCounts, FailsCounts, AdvancesCounts
    DEF RequestStep
  <1>3. ASSUME NEW w \in Workers, Crash(w) PROVE Counted'
    BY <1>3, OverKeepsCounts DEF Crash
  <1>4. CASE UNCHANGED <<at, local>>
    BY <1>4 DEF local, Counted, SentCounted, TriesCounted
  <1>5. ASSUME NEW w \in Workers, KeepaliveClose(w) PROVE Counted'
    BY <1>4, <1>5 DEF KeepaliveClose
  <1>6. ASSUME NEW p \in Servers, Expire(p) PROVE Counted'
    BY <1>4, <1>6 DEF Expire
  <1>7. CASE Next
    BY <1>2, <1>3, <1>5, <1>6, <1>7, StepCases DEF Core
  <1>8. QED
    BY <1>4, <1>7 DEF vars

-----------------------------------------------------------------------------
(***************************************************************************)
(* Smooth weighted round robin: a choice among the servers S of a group    *)
(* raises their current weights by the sum of their effective weights, and *)
(* lowers the one of the chosen server by the same amount.                 *)
(***************************************************************************)
LEMMA WeightsAreSums ==
    /\ WeightsBalanced <=> \A G \in {Primary, Backup} : SumOver(current, G) = 0
    /\ WeightsBalanced' <=> \A G \in {Primary, Backup} : SumOver(current', G) = 0
  BY DEF WeightsBalanced, MapThenSumSet, MapThenFoldSet, SumOver, Sums, Pick

(* Groups in which no server takes part keep their sum. *)
LEMMA SumIsLocal ==
    ASSUME NEW G, IsFiniteSet(G), NEW h, NEW k,
           \A p \in G : k[p] \in Int /\ h[p] = k[p]
    PROVE  SumOver(h, G) = SumOver(k, G)
  <1>1. {} \in SUBSET G /\ \A p \in {} : k[p] \in Int
    OBVIOUS
  <1>2. \A p \in G : h[p] = k[p] + (IF p \in {} THEN k[p] ELSE 0)
    OBVIOUS
  <1>3. SumOver(h, G) = SumOver(k, G) + SumOver(k, {})
    BY <1>1, <1>2, SumAdds
  <1>4. SumOver(k, {}) = 0
    BY SumUnfolds, FS_EmptySet
  <1>5. SumOver(k, G) \in Int
    BY SumIsInteger
  <1>6. QED
    BY <1>3, <1>4, <1>5

LEMMA ChooseKeepsWeights ==
    ASSUME TypeOK, WeightsBalanced, NEW r \in Requests, Eligible(r) # {},
           ChooseServer(r, Eligible(r))
    PROVE  WeightsBalanced'
  <1>1. PICK S : S = Eligible(r)
    OBVIOUS
  <1>2. PICK t : t = Total(S)
    OBVIOUS
  <1>3. PICK b : b = Best(S)
    OBVIOUS
  <1>4. PICK up : up = Raised(S)
    OBVIOUS
  <1>5. S \subseteq Group(r) /\ Group(r) \in {Primary, Backup} /\ S \in SUBSET Servers
    BY <1>1, Eligibility
  <1>6. b \in S /\ up \in [Servers -> Int] /\ t \in Int /\ t = SumOver(effective, S)
    BY <1>1, <1>2, <1>3, <1>4, <1>5, BestIsEligible, TotalIsSum
  <1>7. current' = [up EXCEPT ![b] = @ - t]
    BY <1>1, <1>2, <1>3, <1>4 DEF ChooseServer
  <1>8. \A p \in Servers : /\ up[p] = current[p] + (IF p \in S THEN effective[p] ELSE 0)
                           /\ current[p] \in Int /\ effective[p] \in Int
    BY <1>4 DEF Raised, TypeOK
  <1> SUFFICES ASSUME NEW G \in {Primary, Backup}
               PROVE  SumOver(current', G) = 0
    BY WeightsAreSums
  <1>9. G \subseteq Servers /\ IsFiniteSet(G)
    BY Constants
  <1>10. SumOver(current, G) = 0
    BY WeightsAreSums
  <1>11. CASE G # Group(r)
    <2>1. G \cap S = {}
      BY <1>5, <1>11, Constants
    <2>2. \A p \in G : current[p] \in Int /\ current'[p] = current[p]
      BY <1>6, <1>7, <1>8, <1>9, <2>1
    <2>3. QED
      BY <1>9, <1>10, <2>2, SumIsLocal
  <1>12. CASE G = Group(r)
    <2>1. S \in SUBSET G /\ b \in G
      BY <1>5, <1>6, <1>12
    <2>2. \A p \in G : up[p] \in Int /\ current[p] \in Int
      BY <1>6, <1>8, <1>9
    <2>3. SumOver(up, G) = SumOver(current, G) + SumOver(effective, S)
      <3>1. \A p \in S : effective[p] \in Int
        BY <1>5, <1>8
      <3>2. \A p \in G : up[p] = current[p] + (IF p \in S THEN effective[p] ELSE 0)
        BY <1>8, <1>9
      <3>3. QED
        BY <1>9, <2>1, <2>2, <3>1, <3>2, SumAdds
    <2>4. SumOver(up, G) = t
      BY <1>6, <1>10, <2>3
    <2>5. SumOver(up, G) = up[b] + SumOver(up, G \ {b})
      BY <1>9, <2>1, <2>2, SumTakesOut
    <2>6. \A p \in G : current'[p] \in Int
      BY <1>6, <1>7, <1>9
    <2>7. SumOver(current', G) = current'[b] + SumOver(current', G \ {b})
      BY <1>9, <2>1, <2>6, SumTakesOut
    <2>8. SumOver(current', G \ {b}) = SumOver(up, G \ {b})
      <3>1. IsFiniteSet(G \ {b})
        BY <1>9, FS_Subset
      <3>2. \A p \in G \ {b} : up[p] \in Int /\ current'[p] = up[p]
        BY <1>6, <1>7, <1>9
      <3>3. QED
        BY <3>1, <3>2, SumIsLocal
    <2>9. current'[b] = up[b] - t /\ up[b] \in Int
      BY <1>6, <1>7, <1>9, <2>1
    <2>10. SumOver(up, G \ {b}) \in Int
      <3>1. IsFiniteSet(G \ {b})
        BY <1>9, FS_Subset
      <3>2. QED
        BY <2>2, <3>1, SumIsInteger
    <2>11. PICK a : a = SumOver(up, G \ {b})
      OBVIOUS
    <2>12. t = up[b] + a /\ SumOver(current', G) = (up[b] - t) + a /\ a \in Int
      BY <2>4, <2>5, <2>7, <2>8, <2>9, <2>10, <2>11
    <2>13. QED
      BY <1>6, <2>9, <2>12
  <1>13. QED
    BY <1>11, <1>12

LEMMA WeightsAreKept == Core /\ WeightsBalanced /\ [Next]_vars => WeightsBalanced'
  <1> SUFFICES ASSUME Core, WeightsBalanced, [Next]_vars PROVE WeightsBalanced'
    OBVIOUS
  <1>1. CASE UNCHANGED current
    BY <1>1, WeightsAreSums
  <1>2. ASSUME NEW r \in Requests, GetCached(r) \/ GetConnect(r)
        PROVE  WeightsBalanced'
    BY <1>2, ChooseKeepsWeights DEF GetCached, GetConnect, Core
  <1>3. ASSUME NEW r \in Requests, RequestStep(r),
               ~GetCached(r), ~GetConnect(r)
        PROVE  UNCHANGED current
    <2>1. ASSUME NEW ft \in Failures, NEW wasSent \in BOOLEAN, Fails(r, ft, wasSent)
          PROVE  UNCHANGED current
      BY <2>1 DEF Fails, TryNext, FreeServer
    <2>2. ASSUME NEW keep \in BOOLEAN, Ends(r, keep) PROVE UNCHANGED current
      BY <2>2 DEF Ends, Finalize, FreeServer
    <2>3. QED
      BY <1>3, <2>1, <2>2
      DEF RequestStep, Start, GetFromBackup, GetBusy, Advances, zone
  <1>4. CASE Next
    BY <1>1, <1>2, <1>3, <1>4, StepCases
    DEF Core, KeepaliveClose, Crash, Expire, zone
  <1>5. QED
    BY <1>1, <1>4 DEF vars, zone

(* Adding a function that is zero to itself changes nothing. *)
LEMMA SumOfZeros ==
    ASSUME NEW G, IsFiniteSet(G), NEW h, \A p \in G : h[p] = 0
    PROVE  SumOver(h, G) = 0
  <1>1. \A p \in G : h[p] \in Int
    OBVIOUS
  <1>2. PICK S : S = G
    OBVIOUS
  <1>3. PICK k : k = h
    OBVIOUS
  <1>4. PICK e : e = h
    OBVIOUS
  <1>5. SumOver(h, G) = SumOver(k, G) + SumOver(e, S)
    <2>1. S \in SUBSET G
      BY <1>2
    <2>2. \A p \in G : k[p] \in Int /\ h[p] \in Int
      BY <1>3
    <2>3. \A p \in S : e[p] \in Int
      BY <1>2, <1>4
    <2>4. \A p \in G : h[p] = k[p] + (IF p \in S THEN e[p] ELSE 0)
      BY <1>2, <1>3, <1>4
    <2>5. QED
      BY <2>1, <2>2, <2>3, <2>4, SumAdds
  <1>6. PICK n : n = SumOver(h, G)
    OBVIOUS
  <1>7. n \in Int
    BY <1>1, <1>6, SumIsInteger, Zenon
  <1>8. n = n + n
    BY <1>2, <1>3, <1>4, <1>5, <1>6, Zenon
  <1>9. n = 0
    BY <1>7, <1>8
  <1>10. QED
    BY <1>6, <1>9

LEMMA WeightsInitially == Init => WeightsBalanced
  <1> SUFFICES ASSUME Init, NEW G \in {Primary, Backup}
               PROVE  SumOver(current, G) = 0
    BY WeightsAreSums
  <1>1. IsFiniteSet(G) /\ G \subseteq Servers
    BY Constants
  <1>2. \A p \in G : current[p] = 0
    BY <1>1 DEF Init
  <1>3. QED
    BY <1>1, <1>2, SumOfZeros

LEMMA CountsInitially == Init => Counted
  BY DEF Init, Counted, SentCounted, TriesCounted

-----------------------------------------------------------------------------
(***************************************************************************)
(* The connections of a worker.                                            *)
(***************************************************************************)
Conns(s) == {s[j].conn : j \in DOMAIN s}

Distinct(s) == \A i, j \in DOMAIN s : s[i].conn = s[j].conn => i = j

(* ngx_http_upstream_get_keepalive_peer() takes an item out of the cache. *)
LEMMA RemoveAtConns ==
    ASSUME NEW T, NEW s \in Seq(T), NEW i \in DOMAIN s, Distinct(s)
    PROVE  /\ Distinct(RemoveAt(s, i))
           /\ Conns(RemoveAt(s, i)) = Conns(s) \ {s[i].conn}
  <1>1. PICK t : t = RemoveAt(s, i)
    OBVIOUS
  <1>2. PICK n \in Nat : n = Len(s) /\ DOMAIN s = 1 .. n
    OBVIOUS
  <1>3. i \in 1 .. n
    BY <1>2
  <1>4. DOMAIN t = 1 .. n - 1
    BY <1>1, <1>2, RemoveAtFacts
  <1>5. \A j \in 1 .. n - 1 : t[j] = IF j < i THEN s[j] ELSE s[j + 1]
    BY <1>1, <1>2, RemoveAtFacts
  <1>6. \A j, k \in 1 .. n : s[j].conn = s[k].conn => j = k
    BY <1>2 DEF Distinct
  <1>7. Distinct(t)
    BY <1>2, <1>3, <1>4, <1>5, <1>6 DEF Distinct
  <1>8. ASSUME NEW c \in Conns(t) PROVE c \in Conns(s) \ {s[i].conn}
    <2>1. PICK j \in 1 .. n - 1 : c = t[j].conn
      BY <1>4, <1>8 DEF Conns
    <2>2. PICK k \in 1 .. n : k # i /\ c = s[k].conn
      BY <1>2, <1>3, <1>5, <2>1
    <2>3. QED
      BY <1>2, <1>3, <1>6, <2>2 DEF Conns
  <1>9. ASSUME NEW c \in Conns(s) \ {s[i].conn} PROVE c \in Conns(t)
    <2>1. PICK k \in 1 .. n : c = s[k].conn /\ k # i
      BY <1>2, <1>9 DEF Conns
    <2>2. PICK j \in 1 .. n - 1 : t[j] = s[k]
      <3>1. CASE k < i
        BY <1>2, <1>3, <1>5, <2>1, <3>1
      <3>2. CASE k > i
        <4>1. k - 1 \in 1 .. n - 1 /\ ~(k - 1 < i) /\ (k - 1) + 1 = k
          BY <1>2, <1>3, <2>1, <3>2
        <4>2. QED
          BY <1>5, <4>1
      <3>3. QED
        BY <1>2, <1>3, <2>1, <3>1, <3>2
    <2>3. QED
      BY <1>4, <2>1, <2>2 DEF Conns
  <1>10. QED
    BY <1>1, <1>7, <1>8, <1>9

(* The last item of the cache makes room. *)
LEMMA FrontConns ==
    ASSUME NEW T, NEW s \in Seq(T), Len(s) > 0, Distinct(s)
    PROVE  /\ Distinct(Front(s))
           /\ Conns(Front(s)) = Conns(s) \ {Last(s).conn}
  <1>1. PICK t : t = Front(s)
    OBVIOUS
  <1>2. PICK n \in Nat \ {0} : n = Len(s) /\ DOMAIN s = 1 .. n
    OBVIOUS
  <1>3. DOMAIN t = 1 .. n - 1 /\ Last(s) = s[n]
    BY <1>1, <1>2, FrontFacts
  <1>4. \A j \in 1 .. n - 1 : t[j] = s[j]
    BY <1>1, <1>2, FrontFacts
  <1>5. \A j, k \in 1 .. n : s[j].conn = s[k].conn => j = k
    BY <1>2 DEF Distinct
  <1>6. Distinct(t)
    BY <1>2, <1>3, <1>4, <1>5 DEF Distinct
  <1>7. ASSUME NEW c \in Conns(t) PROVE c \in Conns(s) \ {s[n].conn}
    <2>1. PICK j \in 1 .. n - 1 : c = s[j].conn
      BY <1>3, <1>4, <1>7 DEF Conns
    <2>2. j \in 1 .. n /\ n \in 1 .. n /\ j # n
      BY <1>2
    <2>3. QED
      BY <1>2, <1>5, <2>1, <2>2 DEF Conns
  <1>8. ASSUME NEW c \in Conns(s) \ {s[n].conn} PROVE c \in Conns(t)
    <2>1. PICK k \in 1 .. n : c = s[k].conn /\ k # n
      BY <1>2, <1>8 DEF Conns
    <2>2. k \in 1 .. n - 1
      BY <1>2, <2>1
    <2>3. QED
      BY <1>3, <1>4, <2>1, <2>2 DEF Conns
  <1>9. QED
    BY <1>1, <1>3, <1>6, <1>7, <1>8

(* A connection that is given back goes in front of the others. *)
LEMMA PushConns ==
    ASSUME NEW T, NEW s \in Seq(T), NEW x \in T, Distinct(s), x.conn \notin Conns(s)
    PROVE  /\ Distinct(<<x>> \o s)
           /\ Conns(<<x>> \o s) = Conns(s) \cup {x.conn}
  <1>1. PICK t : t = <<x>> \o s
    OBVIOUS
  <1>2. PICK n \in Nat : n = Len(s) /\ DOMAIN s = 1 .. n
    OBVIOUS
  <1>3. DOMAIN t = 1 .. n + 1 /\ t[1] = x
    BY <1>1, <1>2, PushFacts
  <1>4. \A j \in 2 .. n + 1 : t[j] = s[j - 1]
    BY <1>1, <1>2, PushFacts
  <1>5. \A j, k \in 1 .. n : s[j].conn = s[k].conn => j = k
    BY <1>2 DEF Distinct
  <1>6. \A j \in 1 .. n : s[j].conn # x.conn
    BY <1>2 DEF Conns
  <1>7. Distinct(t)
    <2> SUFFICES ASSUME NEW j \in 1 .. n + 1, NEW k \in 1 .. n + 1,
                        t[j].conn = t[k].conn
                 PROVE  j = k
      BY <1>3 DEF Distinct
    <2>1. CASE j = 1 \/ k = 1
      BY <1>2, <1>3, <1>4, <1>6, <2>1
    <2>2. CASE j # 1 /\ k # 1
      <3>1. j - 1 \in 1 .. n /\ k - 1 \in 1 .. n
        BY <1>2, <2>2
      <3>2. t[j] = s[j - 1] /\ t[k] = s[k - 1]
        BY <1>2, <1>4, <2>2
      <3>3. j - 1 = k - 1
        BY <1>5, <3>1, <3>2
      <3>4. QED
        BY <1>2, <3>3
    <2>3. QED
      BY <2>1, <2>2
  <1>8. ASSUME NEW c \in Conns(t) PROVE c \in Conns(s) \cup {x.conn}
    <2>1. PICK j \in 1 .. n + 1 : c = t[j].conn
      BY <1>3, <1>8 DEF Conns
    <2>2. CASE j = 1
      BY <1>3, <2>1, <2>2
    <2>3. CASE j # 1
      <3>1. t[j] = s[j - 1] /\ j - 1 \in 1 .. n
        BY <1>2, <1>4, <2>3
      <3>2. QED
        BY <1>2, <2>1, <3>1 DEF Conns
    <2>4. QED
      BY <2>2, <2>3
  <1>9. ASSUME NEW c \in Conns(s) PROVE c \in Conns(t)
    <2>1. PICK k \in 1 .. n : c = s[k].conn
      BY <1>2, <1>9 DEF Conns
    <2>2. k + 1 \in 2 .. n + 1 /\ (k + 1) - 1 = k
      BY <1>2
    <2>3. t[k + 1] = s[k]
      BY <1>4, <2>2
    <2>4. k + 1 \in DOMAIN t
      BY <1>2, <1>3, <2>2
    <2>5. QED
      BY <2>1, <2>3, <2>4 DEF Conns
  <1>10. x.conn \in Conns(t)
    <2>1. 1 \in DOMAIN t
      BY <1>2, <1>3
    <2>2. QED
      BY <1>3, <2>1 DEF Conns
  <1>11. QED
    BY <1>1, <1>7, <1>8, <1>9, <1>10

UsersOf(w) == {r \in Requests : home[r] = w /\ conn[r] # None}

Held(w) == {conn[r] : r \in UsersOf(w)}

(***************************************************************************)
(* A connection of worker w is held by one request, or has one place in    *)
(* the cache, and never both.                                              *)
(***************************************************************************)
Owned(w) ==
    /\ open[w] = Held(w) \cup Conns(cache[w])
    /\ Held(w) \cap Conns(cache[w]) = {}
    /\ Distinct(cache[w])
    /\ \A q, r \in UsersOf(w) : conn[q] = conn[r] => q = r

LEMMA OwnedElsewhere ==
    ASSUME NEW w \in Workers, Owned(w), UNCHANGED home,
           cache'[w] = cache[w], open'[w] = open[w],
           \A q \in Requests : home[q] = w => conn'[q] = conn[q]
    PROVE  Owned(w)'
  <1>1. UsersOf(w)' = UsersOf(w)
    BY DEF UsersOf
  <1>2. \A q \in UsersOf(w) : conn'[q] = conn[q]
    BY DEF UsersOf
  <1>3. Held(w)' = Held(w)
    BY <1>1, <1>2 DEF Held
  <1>4. QED
    BY <1>1, <1>2, <1>3 DEF Owned

(* Request r gets the connection c, which no request has. *)
LEMMA HeldGrows ==
    ASSUME NEW w \in Workers, Owned(w), UNCHANGED home,
           NEW r \in Requests, home[r] = w, conn[r] = None,
           NEW c, c # None, c \notin Held(w),
           \A q \in Requests : conn'[q] = IF q = r THEN c ELSE conn[q]
    PROVE  /\ Held(w)' = Held(w) \cup {c}
           /\ \A p, q \in UsersOf(w)' : conn'[p] = conn'[q] => p = q
  <1>1. UsersOf(w)' = UsersOf(w) \cup {r} /\ r \notin UsersOf(w)
    BY DEF UsersOf
  <1>2. conn'[r] = c /\ \A q \in UsersOf(w) : conn'[q] = conn[q]
    BY <1>1 DEF UsersOf
  <1>3. Held(w)' = Held(w) \cup {c}
    BY <1>1, <1>2 DEF Held
  <1>4. \A q \in UsersOf(w) : conn[q] \in Held(w)
    BY DEF Held
  <1>5. \A p, q \in UsersOf(w)' : conn'[p] = conn'[q] => p = q
    BY <1>1, <1>2, <1>4 DEF Owned
  <1>6. QED
    BY <1>3, <1>5

(* Request r gives its connection up. *)
LEMMA HeldShrinks ==
    ASSUME NEW w \in Workers, Owned(w), UNCHANGED home,
           NEW r \in Requests, home[r] = w,
           \A q \in Requests : conn'[q] = IF q = r THEN None ELSE conn[q]
    PROVE  /\ Held(w)' = Held(w) \ {conn[r]}
           /\ \A p, q \in UsersOf(w)' : conn'[p] = conn'[q] => p = q
           /\ conn[r] # None => conn[r] \in Held(w)
  <1>1. UsersOf(w)' = UsersOf(w) \ {r} /\ (conn[r] # None => r \in UsersOf(w))
    BY DEF UsersOf
  <1>2. \A q \in UsersOf(w) : q # r => conn'[q] = conn[q]
    BY DEF UsersOf
  <1>3. \A q \in UsersOf(w) : q # r => conn[q] # conn[r]
    BY DEF UsersOf, Owned
  <1>4. Held(w)' = Held(w) \ {conn[r]}
    BY <1>1, <1>2, <1>3 DEF Held
  <1>5. QED
    BY <1>1, <1>2, <1>4 DEF Owned, Held

LEMMA GetKeepsOwned ==
    ASSUME Core, NEW r \in Requests, GetCached(r) \/ GetConnect(r),
           \A w \in Workers : Owned(w)
    PROVE  \A w \in Workers : Owned(w)'
  <1>1. PICK w \in Workers : w = home[r]
    BY HomeIsWorker DEF Core
  <1>2. UNCHANGED home
    BY DEF GetCached, GetConnect, outside
  <1>3. conn[r] = None /\ Owned(w) /\ TypeOK /\ w \in DOMAIN cache
    BY <1>1 DEF GetCached, GetConnect, Core, Placed, TypeOK
  <1>4. cache[w] \in Seq(Items) /\ open[w] \subseteq 1 .. PoolSize
    BY <1>3, TypeParts DEF PoolsTyped
  <1>5. CASE GetCached(r)
    <2>1. PICK i \in DOMAIN cache[w] :
              /\ conn' = [conn EXCEPT ![r] = cache[w][i].conn]
              /\ cache' = [cache EXCEPT ![w] = RemoveAt(@, i)]
      <3>1. CachedTo(w, Best(Eligible(r))) # {}
        BY <1>1, <1>5 DEF GetCached
      <3>2. CachedTo(w, Best(Eligible(r))) \in SUBSET Nat
        BY <1>4 DEF CachedTo
      <3>3. Min(CachedTo(w, Best(Eligible(r)))) \in CachedTo(w, Best(Eligible(r)))
        BY <3>1, <3>2, LeastExists DEF Min
      <3>4. Min(CachedTo(w, Best(Eligible(r)))) \in DOMAIN cache[w]
        BY <3>3 DEF CachedTo
      <3>5. QED
        BY <1>1, <1>5, <3>4 DEF GetCached
    <2>2. UNCHANGED open
      BY <1>5 DEF GetCached
    <2>3. PICK c : c = cache[w][i].conn
      OBVIOUS
    <2>4. c \in Conns(cache[w])
      BY <2>1, <2>3 DEF Conns
    <2>5. c \in 1 .. PoolSize
      <3>1. cache[w][i] \in Items
        BY <1>4, <2>1
      <3>2. QED
        BY <2>3, <3>1 DEF Items
    <2>6. c # None /\ c \notin Held(w)
      BY <1>3, <2>4, <2>5 DEF Owned, None
    <2>7. \A q \in Requests : conn'[q] = IF q = r THEN c ELSE conn[q]
      BY <1>3, <2>1, <2>3 DEF TypeOK
    <2>8. /\ Held(w)' = Held(w) \cup {c}
          /\ \A p, q \in UsersOf(w)' : conn'[p] = conn'[q] => p = q
      BY <1>1, <1>2, <1>3, <2>6, <2>7, HeldGrows
    <2>9. cache'[w] = RemoveAt(cache[w], i)
      BY <1>3, <2>1
    <2>10. /\ Distinct(cache'[w])
           /\ Conns(cache'[w]) = Conns(cache[w]) \ {c}
      BY <1>3, <1>4, <2>1, <2>3, <2>9, RemoveAtConns DEF Owned
    <2>11. Owned(w)'
      BY <1>3, <2>2, <2>4, <2>8, <2>10 DEF Owned
    <2>12. ASSUME NEW v \in Workers, v # w PROVE Owned(v)'
      <3>1. cache'[v] = cache[v]
        BY <1>3, <2>1, <2>12 DEF TypeOK
      <3>2. \A q \in Requests : home[q] = v => conn'[q] = conn[q]
        BY <1>1, <2>7, <2>12
      <3>3. QED
        BY <1>2, <2>2, <3>1, <3>2, OwnedElsewhere
    <2>13. QED
      BY <2>11, <2>12
  <1>6. CASE GetConnect(r) /\ UNCHANGED <<conn, open>>
    BY <1>2, <1>6, OwnedElsewhere DEF GetConnect
  <1>7. CASE GetConnect(r) /\ ~UNCHANGED <<conn, open>>
    <2>1. PICK c : c = Min(FreeConns(w))
      OBVIOUS
    <2>2. /\ FreeConns(w) # {}
          /\ conn' = [conn EXCEPT ![r] = c]
          /\ open' = [open EXCEPT ![w] = @ \cup {c}]
          /\ UNCHANGED cache
      BY <1>1, <1>7, <2>1 DEF GetConnect
    <2>3. c \in FreeConns(w)
      <3>1. PoolSize \in Nat
        BY Constants
      <3>2. FreeConns(w) \in SUBSET Nat
        BY <3>1 DEF FreeConns
      <3>3. QED
        BY <2>1, <2>2, <3>2, LeastExists DEF Min
    <2>4. c # None /\ c \notin open[w]
      <3>1. PoolSize \in Nat
        BY Constants
      <3>2. QED
        BY <2>3, <3>1 DEF FreeConns, None
    <2>5. \A q \in Requests : conn'[q] = IF q = r THEN c ELSE conn[q]
      BY <1>3, <2>2 DEF TypeOK
    <2>6. c \notin Held(w) /\ c \notin Conns(cache[w])
      BY <1>3, <2>4 DEF Owned
    <2>7. /\ Held(w)' = Held(w) \cup {c}
          /\ \A p, q \in UsersOf(w)' : conn'[p] = conn'[q] => p = q
      BY <1>1, <1>2, <1>3, <2>4, <2>5, <2>6, HeldGrows
    <2>8. open'[w] = open[w] \cup {c}
      BY <1>3, <2>2 DEF TypeOK
    <2>9. Owned(w)'
      BY <1>3, <2>2, <2>6, <2>7, <2>8 DEF Owned
    <2>10. ASSUME NEW v \in Workers, v # w PROVE Owned(v)'
      <3>1. open'[v] = open[v]
        BY <1>3, <2>2, <2>10 DEF TypeOK
      <3>2. \A q \in Requests : home[q] = v => conn'[q] = conn[q]
        BY <1>1, <2>5, <2>10
      <3>3. QED
        BY <1>2, <2>2, <3>1, <3>2, OwnedElsewhere
    <2>11. QED
      BY <2>9, <2>10
  <1>8. QED
    BY <1>5, <1>6, <1>7

(* An attempt ends: FreeConnection(r, keep) and r lets its connection go. *)
LEMMA FreeKeepsOwned ==
    ASSUME TypeOK, NEW r \in Requests, NEW keep \in BOOLEAN,
           FreeConnection(r, keep), holds[r] \in Servers, UNCHANGED home,
           \A q \in Requests : conn'[q] = IF q = r THEN None ELSE conn[q],
           \A w \in Workers : Owned(w)
    PROVE  \A w \in Workers : Owned(w)'
  <1>1. PICK w \in Workers : w = home[r]
    BY HomeIsWorker
  <1>2. Owned(w) /\ w \in DOMAIN cache /\ w \in DOMAIN open
    BY <1>1 DEF TypeOK
  <1>3. cache[w] \in Seq(Items) /\ open[w] \subseteq 1 .. PoolSize
    BY TypeParts DEF PoolsTyped
  <1>4. PICK c : c = conn[r]
    OBVIOUS
  <1>5. /\ Held(w)' = Held(w) \ {c}
        /\ \A p, q \in UsersOf(w)' : conn'[p] = conn'[q] => p = q
        /\ c # None => c \in Held(w)
    BY <1>1, <1>2, <1>4, HeldShrinks
  <1>6. None \notin Conns(cache[w])
    <2>1. ASSUME NEW j \in DOMAIN cache[w] PROVE cache[w][j].conn # None
      <3>1. cache[w][j] \in Items
        BY <1>3, <2>1
      <3>2. cache[w][j].conn \in 1 .. PoolSize /\ PoolSize \in Nat
        BY <3>1, Constants DEF Items
      <3>3. QED
        BY <3>2 DEF None
    <2>2. QED
      BY <2>1 DEF Conns
  <1>7. c \notin Conns(cache[w])
    BY <1>2, <1>5, <1>6 DEF Owned
  <1>8. ASSUME NEW v \in Workers, v # w,
               cache'[v] = cache[v], open'[v] = open[v]
        PROVE  Owned(v)'
    <2>1. \A q \in Requests : home[q] = v => conn'[q] = conn[q]
      BY <1>1, <1>8
    <2>2. QED
      BY <1>8, <2>1, OwnedElsewhere
  <1>9. CASE cache' = cache /\ open' = [open EXCEPT ![w] = @ \ {c}]
    <2>1. open'[w] = open[w] \ {c} /\ \A v \in Workers : v # w => open'[v] = open[v]
      BY <1>2, <1>9 DEF TypeOK
    <2>2. Owned(w)'
      BY <1>2, <1>5, <1>7, <1>9, <2>1 DEF Owned
    <2>3. QED
      BY <1>8, <1>9, <2>1, <2>2
  <1>10. ASSUME c # None, open' = open, NEW x \in Items, x.conn = c,
                cache' = [cache EXCEPT ![w] = <<x>> \o @]
         PROVE  \A v \in Workers : Owned(v)'
    <2>1. cache'[w] = <<x>> \o cache[w]
          /\ \A v \in Workers : v # w => cache'[v] = cache[v]
      BY <1>2, <1>10 DEF TypeOK
    <2>2. Distinct(cache[w]) /\ x.conn \notin Conns(cache[w])
      BY <1>2, <1>7, <1>10 DEF Owned
    <2>3. Distinct(cache'[w]) /\ Conns(cache'[w]) = Conns(cache[w]) \cup {c}
      BY <1>3, <1>10, <2>1, <2>2, PushConns
    <2>4. Owned(w)'
      BY <1>2, <1>5, <1>10, <2>3 DEF Owned
    <2>5. QED
      BY <1>8, <1>10, <2>1, <2>4
  <1>11. ASSUME c # None, Len(cache[w]) > 0,
                open' = [open EXCEPT ![w] = @ \ {Last(cache[w]).conn}],
                NEW x \in Items, x.conn = c,
                cache' = [cache EXCEPT ![w] = <<x>> \o Front(@)]
         PROVE  \A v \in Workers : Owned(v)'
    <2>1. PICK s : s = Front(cache[w])
      OBVIOUS
    <2>2. PICK d : d = Last(cache[w]).conn
      OBVIOUS
    <2>3. s \in Seq(Items)
      BY <1>3, <1>11, <2>1, FrontFacts
    <2>4. Distinct(s) /\ Conns(s) = Conns(cache[w]) \ {d}
      BY <1>2, <1>3, <1>11, <2>1, <2>2, FrontConns DEF Owned
    <2>5. d \in Conns(cache[w])
      <3>1. Last(cache[w]) = cache[w][Len(cache[w])]
        BY <1>3, <1>11, FrontFacts
      <3>2. Len(cache[w]) \in DOMAIN cache[w]
        BY <1>3, <1>11
      <3>3. QED
        BY <2>2, <3>1, <3>2 DEF Conns
    <2>6. /\ cache'[w] = <<x>> \o s
          /\ \A v \in Workers : v # w => cache'[v] = cache[v]
      BY <1>2, <1>11, <2>1 DEF TypeOK
    <2>7. x.conn \notin Conns(s)
      BY <1>7, <1>11, <2>4
    <2>8. Distinct(cache'[w]) /\ Conns(cache'[w]) = Conns(s) \cup {c}
      <3>1. Distinct(<<x>> \o s) /\ Conns(<<x>> \o s) = Conns(s) \cup {x.conn}
        BY <2>3, <2>4, <2>7, PushConns
      <3>2. QED
        BY <1>11, <2>6, <3>1
    <2>9. open'[w] = open[w] \ {d} /\ \A v \in Workers : v # w => open'[v] = open[v]
      BY <1>2, <1>11, <2>2 DEF TypeOK
    <2>10. Owned(w)'
      <3>1. d # c /\ d \notin Held(w)
        BY <1>2, <1>7, <2>5 DEF Owned
      <3>2. QED
        BY <1>2, <1>5, <1>11, <2>4, <2>5, <2>8, <2>9, <3>1 DEF Owned
    <2>11. QED
      BY <1>8, <2>6, <2>9, <2>10
  <1>12. Freed(r, w)
    BY <1>1, FreeConnectionFacts
  <1>13. QED
    BY <1>4, <1>9, <1>10, <1>11, <1>12 DEF Freed

LEMMA KeepaliveCloseKeepsOwned ==
    ASSUME TypeOK, NEW w \in Workers, KeepaliveClose(w),
           \A v \in Workers : Owned(v)
    PROVE  \A v \in Workers : Owned(v)'
  <1>1. PICK i \in DOMAIN cache[w] :
            /\ open' = [open EXCEPT ![w] = @ \ {cache[w][i].conn}]
            /\ cache' = [cache EXCEPT ![w] = RemoveAt(@, i)]
    BY DEF KeepaliveClose, Closed
  <1>2. UNCHANGED <<home, conn>>
    BY DEF KeepaliveClose, local, outside
  <1>3. cache[w] \in Seq(Items) /\ w \in DOMAIN cache /\ w \in DOMAIN open
    BY TypeParts DEF PoolsTyped
  <1>4. PICK c : c = cache[w][i].conn
    OBVIOUS
  <1>5. cache'[w] = RemoveAt(cache[w], i) /\ open'[w] = open[w] \ {c}
    BY <1>1, <1>3, <1>4
  <1>6. Distinct(cache'[w]) /\ Conns(cache'[w]) = Conns(cache[w]) \ {c}
    BY <1>1, <1>3, <1>4, <1>5, RemoveAtConns DEF Owned
  <1>7. c \in Conns(cache[w])
    BY <1>1, <1>4 DEF Conns
  <1>8. UsersOf(w)' = UsersOf(w) /\ Held(w)' = Held(w)
    BY <1>2 DEF UsersOf, Held
  <1>9. Owned(w)
    OBVIOUS
  <1>10. Owned(w)'
    BY <1>2, <1>5, <1>6, <1>7, <1>8, <1>9 DEF Owned
  <1>11. ASSUME NEW v \in Workers, v # w PROVE Owned(v)'
    <2>1. cache'[v] = cache[v] /\ open'[v] = open[v]
      BY <1>1, <1>11 DEF TypeOK
    <2>2. QED
      BY <1>2, <2>1, OwnedElsewhere
  <1>12. QED
    BY <1>10, <1>11

LEMMA CrashKeepsOwned ==
    ASSUME TypeOK, NEW w \in Workers, Crash(w),
           \A v \in Workers : Owned(v)
    PROVE  \A v \in Workers : Owned(v)'
  <1>1. /\ cache' = [cache EXCEPT ![w] = <<>>]
        /\ open' = [open EXCEPT ![w] = {}]
        /\ UNCHANGED home
    BY DEF Crash
  <1>2. \A q \in Requests : conn'[q] = IF home[q] = w THEN None ELSE conn[q]
    BY OverFrees DEF Crash
  <1>3. Owned(w)'
    <2>1. UsersOf(w)' = {}
      BY <1>1, <1>2 DEF UsersOf
    <2>2. Held(w)' = {}
      BY <2>1 DEF Held
    <2>3. cache'[w] = <<>> /\ open'[w] = {}
      BY <1>1 DEF TypeOK
    <2>4. Conns(cache'[w]) = {} /\ Distinct(cache'[w])
      BY <2>3 DEF Conns, Distinct
    <2>5. QED
      BY <2>1, <2>2, <2>3, <2>4 DEF Owned
  <1>4. ASSUME NEW v \in Workers, v # w PROVE Owned(v)'
    <2>1. cache'[v] = cache[v] /\ open'[v] = open[v]
      BY <1>1, <1>4 DEF TypeOK
    <2>2. \A q \in Requests : home[q] = v => conn'[q] = conn[q]
      BY <1>2, <1>4
    <2>3. QED
      BY <1>1, <2>1, <2>2, OwnedElsewhere
  <1>5. QED
    BY <1>3, <1>4

AllOwned == \A w \in Workers : Owned(w)

LEMMA OwnedInitially == Init => AllOwned
  <1> SUFFICES ASSUME Init, NEW w \in Workers PROVE Owned(w)
    BY DEF AllOwned
  <1>1. UsersOf(w) = {}
    BY DEF Init, UsersOf
  <1>2. Held(w) = {}
    BY <1>1 DEF Held
  <1>3. cache[w] = <<>> /\ open[w] = {}
    BY DEF Init
  <1>4. Conns(cache[w]) = {} /\ Distinct(cache[w])
    BY <1>3 DEF Conns, Distinct
  <1>5. QED
    BY <1>1, <1>2, <1>3, <1>4 DEF Owned

LEMMA OwnedIsKept == Core /\ AllOwned /\ [Next]_vars => AllOwned'
  <1> SUFFICES ASSUME Core, AllOwned, [Next]_vars PROVE AllOwned'
    OBVIOUS
  <1>1. TypeOK /\ \A w \in Workers : Owned(w)
    BY DEF Core, AllOwned
  <1>2. CASE UNCHANGED <<home, conn, cache, open>>
    BY <1>1, <1>2, OwnedElsewhere DEF AllOwned
  <1>3. ASSUME NEW r \in Requests, NEW ft \in Failures, NEW wasSent \in BOOLEAN,
               Fails(r, ft, wasSent)
        PROVE  AllOwned'
    <2>1. TryNext(r, ft, wasSent) /\ holds[r] # None /\ holds[r] \in Servers
      BY <1>1, <1>3
      DEF Fails, Attempting, Suspended, Core, Placed, TypeOK
    <2>2. PICK keep \in BOOLEAN : FreeConnection(r, keep)
      BY <2>1, TryNextFacts
    <2>3. UNCHANGED home
      BY <2>1, TryNextFacts DEF outside
    <2>4. conn' = [conn EXCEPT ![r] = None] \/ Over({r})
      BY <2>1, TryNextFacts
    <2>5. \A q \in Requests : conn'[q] = IF q = r THEN None ELSE conn[q]
      <3>1. CASE conn' = [conn EXCEPT ![r] = None]
        BY <1>1, <3>1 DEF TypeOK
      <3>2. CASE Over({r})
        BY <1>1, <3>2, OverFrees
      <3>3. QED
        BY <2>4, <3>1, <3>2
    <2>6. QED
      BY <1>1, <2>1, <2>2, <2>3, <2>5, FreeKeepsOwned DEF AllOwned
  <1>4. ASSUME NEW r \in Requests, NEW keep \in BOOLEAN, Ends(r, keep)
        PROVE  AllOwned'
    <2>1. holds[r] # None /\ holds[r] \in Servers
      BY <1>1, <1>4 DEF Ends, Suspended, Core, Placed, TypeOK
    <2>2. FreeConnection(r, keep) /\ Over({r}) /\ UNCHANGED home
      BY <1>4 DEF Ends, Finalize, outside
    <2>3. \A q \in Requests : conn'[q] = IF q = r THEN None ELSE conn[q]
      BY <1>1, <2>2, OverFrees
    <2>4. QED
      BY <1>1, <2>1, <2>2, <2>3, FreeKeepsOwned DEF AllOwned
  <1>5. ASSUME NEW r \in Requests, GetBusy(r) PROVE AllOwned'
    <2>1. Over({r}) /\ UNCHANGED <<home, cache, open>>
      BY <1>5 DEF GetBusy, outside
    <2>2. conn[r] = None
      BY <1>5 DEF GetBusy, Core, Placed
    <2>3. \A q \in Requests : conn'[q] = conn[q]
      BY <1>1, <2>1, <2>2, OverFrees
    <2>4. QED
      BY <1>1, <2>1, <2>3, OwnedElsewhere DEF AllOwned
  <1>6. ASSUME NEW r \in Requests, RequestStep(r) PROVE AllOwned'
    <2>1. CASE Start(r) \/ GetFromBackup(r) \/ Advances(r)
      BY <1>2, <2>1 DEF Start, GetFromBackup, Advances, outside
    <2>2. CASE GetCached(r) \/ GetConnect(r)
      BY <1>1, <2>2, GetKeepsOwned DEF AllOwned
    <2>3. QED
      BY <1>3, <1>4, <1>5, <1>6, <2>1, <2>2 DEF RequestStep
  <1>7. ASSUME NEW p \in Servers, Expire(p) PROVE AllOwned'
    BY <1>2, <1>7 DEF Expire, local, outside
  <1>8. CASE Next
    BY <1>1, <1>6, <1>7, <1>8, StepCases, KeepaliveCloseKeepsOwned,
       CrashKeepsOwned
    DEF AllOwned
  <1>9. QED
    BY <1>2, <1>8 DEF vars, local, outside

(* A set has as many elements as there are different names for them. *)
LEMMA CountByNames ==
    ASSUME NEW S, IsFiniteSet(S), NEW T, NEW f,
           \A x \in S : f[x] \in T,
           \A y \in T : \E x \in S : f[x] = y,
           \A x, y \in S : f[x] = f[y] => x = y
    PROVE  IsFiniteSet(T) /\ Cardinality(T) = Cardinality(S)
  <1> DEFINE g == [x \in S |-> f[x]]
  <1>1. g \in [S -> T]
    OBVIOUS
  <1>2. g \in Injection(S, T)
    BY <1>1 DEF Injection, IsInjective
  <1>3. g \in Surjection(S, T)
    BY <1>1 DEF Surjection
  <1>4. ExistsBijection(S, T)
    BY <1>2, <1>3 DEF ExistsBijection, Bijection
  <1>5. QED
    BY <1>4, FS_Bijection

LEMMA OwnedIsCounted ==
    ASSUME TypeOK, NEW w \in Workers, Owned(w)
    PROVE  Cardinality(open[w])
               = Cardinality(UsersOf(w)) + Cardinality(DOMAIN cache[w])
  <1>1. IsFiniteSet(UsersOf(w))
    <2>1. UsersOf(w) \subseteq Requests
      BY DEF UsersOf
    <2>2. QED
      BY <2>1, Constants, FS_Subset
  <1>2. IsFiniteSet(Held(w)) /\ Cardinality(Held(w)) = Cardinality(UsersOf(w))
    <2>1. /\ \A r \in UsersOf(w) : conn[r] \in Held(w)
          /\ \A c \in Held(w) : \E r \in UsersOf(w) : conn[r] = c
      BY DEF Held
    <2>2. \A q, r \in UsersOf(w) : conn[q] = conn[r] => q = r
      BY DEF Owned
    <2>3. QED
      BY <1>1, <2>1, <2>2, CountByNames
  <1>3. IsFiniteSet(DOMAIN cache[w])
    <2>1. PICK n \in Nat : DOMAIN cache[w] = 1 .. n
      <3>1. cache[w] \in Seq(Items)
        BY TypeParts DEF PoolsTyped
      <3>2. QED
        BY <3>1
    <2>2. 1 \in Int /\ n \in Int
      OBVIOUS
    <2>3. QED
      BY <2>1, <2>2, FS_Interval
  <1>4. /\ IsFiniteSet(Conns(cache[w]))
        /\ Cardinality(Conns(cache[w])) = Cardinality(DOMAIN cache[w])
    <2>1. PICK f : f = [i \in DOMAIN cache[w] |-> cache[w][i].conn]
      OBVIOUS
    <2>2. /\ \A i \in DOMAIN cache[w] : f[i] \in Conns(cache[w])
          /\ \A c \in Conns(cache[w]) : \E i \in DOMAIN cache[w] : f[i] = c
      BY <2>1 DEF Conns
    <2>3. \A i, j \in DOMAIN cache[w] : f[i] = f[j] => i = j
      BY <2>1 DEF Owned, Distinct
    <2>4. QED
      BY <1>3, <2>2, <2>3, CountByNames
  <1>5. open[w] = Held(w) \cup Conns(cache[w]) /\ Held(w) \cap Conns(cache[w]) = {}
    BY DEF Owned
  <1>6. Cardinality(open[w]) = Cardinality(Held(w)) + Cardinality(Conns(cache[w]))
                                   - Cardinality({})
    BY <1>2, <1>4, <1>5, FS_Union
  <1>7. Cardinality({}) = 0
    BY FS_EmptySet
  <1>8. Cardinality(UsersOf(w)) \in Nat /\ Cardinality(DOMAIN cache[w]) \in Nat
    BY <1>1, <1>3, FS_CardinalityType
  <1>9. QED
    BY <1>2, <1>4, <1>6, <1>7, <1>8

-----------------------------------------------------------------------------
(***************************************************************************)
(* Everything that stays true.                                             *)
(***************************************************************************)
IInv == Core /\ Counted /\ WeightsBalanced /\ AllOwned

LEMMA AlwaysIInv == Spec => []IInv
  <1>1. Init => IInv
    BY CoreInitially, CountsInitially, WeightsInitially, OwnedInitially DEF IInv
  <1>2. IInv /\ [Next]_vars => IInv'
    BY CoreIsKept, CountsAreKept, WeightsAreKept, OwnedIsKept DEF IInv
  <1>3. QED
    BY <1>1, <1>2, PTL DEF Spec

(* Every variable of proxying keeps its range. *)
THEOREM TypeCorrect == Spec => []TypeOK
  <1>1. IInv => TypeOK
    BY DEF IInv, Core
  <1>2. QED
    BY <1>1, AlwaysIInv, PTL

(***************************************************************************)
(* For any number of workers, requests and servers, the connections a      *)
(* server counts in the zone are the requests that hold it and those that  *)
(* died with their workers: ngx_http_upstream_free_round_robin_peer() is   *)
(* called once for every server that was chosen, on every way an attempt   *)
(* can end.                                                                *)
(***************************************************************************)
THEOREM ServersBalance == Spec => []ConnsBalanced
  <1>1. IInv => ConnsBalanced
    BY DEF IInv, Core
  <1>2. QED
    BY <1>1, AlwaysIInv, PTL

(***************************************************************************)
(* A worker leaks no upstream connection and gives none to two requests,   *)
(* whatever the size of its pool and of its keepalive cache, and also when *)
(* the cache is full and its oldest connection is closed to make room.     *)
(***************************************************************************)
THEOREM ConnectionsOwned == Spec => []OpenIsOwned
  <1>1. IInv => OpenIsOwned
    <2> SUFFICES ASSUME IInv, NEW w \in Workers
                 PROVE  /\ open[w] = Held(w) \cup Conns(cache[w])
                        /\ Cardinality(open[w])
                               = Cardinality(UsersOf(w)) + Cardinality(DOMAIN cache[w])
      BY DEF OpenIsOwned, Held, UsersOf, Conns
    <2>1. TypeOK /\ Owned(w)
      BY DEF IInv, Core, AllOwned
    <2>2. QED
      BY <2>1, OwnedIsCounted DEF Owned
  <1>2. QED
    BY <1>1, AlwaysIInv, PTL

(***************************************************************************)
(* ngx_http_upstream_next() never sends a request again that must not be   *)
(* sent twice, for every setting of proxy_next_upstream and whatever       *)
(* failures come in whatever order.                                        *)
(***************************************************************************)
THEOREM NeverResent == Spec => []SentOnce
  <1>1. IInv => SentOnce
    <2> SUFFICES ASSUME IInv, NEW r \in Requests, Once(r) PROVE reached[r] <= 1
      BY DEF SentOnce, Once
    <2>1. reached[r] = IF sent[r] THEN 1 ELSE 0
      BY DEF IInv, Counted, SentCounted
    <2>2. reached[r] \in {0, 1}
      BY <2>1
    <2>3. QED
      BY <2>2
  <1>2. QED
    BY <1>1, AlwaysIInv, PTL

(***************************************************************************)
(* The tries that stale keepalive connections give back do not let a       *)
(* request make more new connections than proxy_next_upstream_tries and    *)
(* the number of servers allow.                                            *)
(***************************************************************************)
THEOREM TriesBound == Spec => []AttemptsBounded
  <1>1. IInv => AttemptsBounded
    <2> SUFFICES ASSUME IInv, NEW r \in Requests PROVE fresh[r] <= InitialTries
      BY DEF AttemptsBounded
    <2>1. InitialTries \in Nat
      BY Constants
    <2>2. fresh[r] \in Nat /\ tries[r] \in Nat
      BY DEF IInv, Core, TypeOK
    <2>3. TriesCounted(r)
      BY DEF IInv, Counted
    <2>4. CASE at[r] \in {"idle", "done"}
      BY <2>1, <2>3, <2>4 DEF TriesCounted
    <2>5. CASE at[r] \notin {"idle", "done"}
      <3>1. tries[r] >= 1
        BY <2>3, <2>5 DEF TriesCounted
      <3>2. fresh[r] + tries[r] <= InitialTries + 1
        <4>1. \/ fresh[r] + tries[r] <= InitialTries + 0
              \/ fresh[r] + tries[r] <= InitialTries + 1
          BY <2>3, <2>5 DEF TriesCounted
        <4>2. QED
          BY <2>1, <2>2, <4>1
      <3>3. QED
        BY <2>1, <2>2, <3>1, <3>2
    <2>6. QED
      BY <2>4, <2>5
  <1>2. QED
    BY <1>1, AlwaysIInv, PTL

(***************************************************************************)
(* Smooth weighted round robin keeps the sum of the current weights of a   *)
(* group at zero, for every group, every weights and every history of      *)
(* failures: ngx_http_upstream_get_peer() takes from the server it chooses *)
(* what it has given to all that took part.                                *)
(***************************************************************************)
THEOREM WeightsCancel == Spec => []WeightsBalanced
  <1>1. IInv => WeightsBalanced
    BY DEF IInv
  <1>2. QED
    BY <1>1, AlwaysIInv, PTL
=============================================================================
