---------------------------- MODULE RWLockProofs ----------------------------
(***************************************************************************)
(* Proofs about RWLock for every finite set of processes.                  *)
(*                                                                         *)
(* LockCounts is inductive together with PointsAndModes: the word a        *)
(* process read before it releases the lock still describes its own lock   *)
(* when it acts on it, because the lock cannot change its kind as long as  *)
(* that process holds it.                                                  *)
(***************************************************************************)
EXTENDS RWLock, FiniteSetTheorems, TLAPS

IInv == TypeOK /\ PointsAndModes /\ LockCounts

(* How the readers are counted when one of them comes or goes. *)
LEMMA ReadersFinite ==
    /\ IsFiniteSet(Readers)
    /\ Cardinality(Readers) \in Nat
    /\ Cardinality(Readers) <= Cardinality(Procs)
<1>1. Readers \subseteq Procs
    BY DEF Readers
<1> QED
    BY <1>1, ProcsAssumption, FS_Subset, FS_CardinalityType

LEMMA ReaderJoins ==
    ASSUME TypeOK, NEW p \in Procs, mode[p] # "read", Grant(p, "read")
    PROVE  /\ Readers' = Readers \cup {p}
           /\ Cardinality(Readers') = Cardinality(Readers) + 1
           /\ Cardinality(Readers') <= Cardinality(Procs)
           /\ Writers' = Writers \ {p}
<1>1. /\ Readers' = Readers \cup {p}
      /\ Writers' = Writers \ {p}
      /\ p \notin Readers
    BY DEF Readers, Writers, Grant, TypeOK
<1>2. Cardinality(Readers \cup {p}) = Cardinality(Readers) + 1
    BY <1>1, ReadersFinite, FS_AddElement
<1>3. Cardinality(Readers \cup {p}) <= Cardinality(Procs)
    <2>1. Readers \cup {p} \subseteq Procs
        BY DEF Readers
    <2> QED BY <2>1, ProcsAssumption, FS_Subset
<1> QED
    BY <1>1, <1>2, <1>3

LEMMA ReaderLeaves ==
    ASSUME TypeOK, NEW p \in Procs, mode[p] = "read", Grant(p, "none")
    PROVE  /\ Readers' = Readers \ {p}
           /\ Cardinality(Readers') = Cardinality(Readers) - 1
           /\ Writers' = Writers
<1>1. /\ Readers' = Readers \ {p}
      /\ Writers' = Writers
      /\ p \in Readers
    BY DEF Readers, Writers, Grant, TypeOK
<1>2. Cardinality(Readers \ {p}) = Cardinality(Readers) - 1
    BY <1>1, ReadersFinite, FS_RemoveElement
<1> QED
    BY <1>1, <1>2

LEMMA WriterChanges ==
    ASSUME TypeOK, NEW p \in Procs
    PROVE  /\ mode[p] = "none" /\ Grant(p, "write") =>
                Readers' = Readers /\ Writers' = Writers \cup {p}
           /\ mode[p] = "write" /\ Grant(p, "none") =>
                Readers' = Readers /\ Writers' = Writers \ {p}
BY DEF Readers, Writers, Grant, TypeOK

(* Every step preserves the inductive invariant. *)
LEMMA Inductive == IInv /\ [Next]_vars => IInv'
<1> SUFFICES ASSUME IInv, [Next]_vars
             PROVE  IInv'
    OBVIOUS
<1> USE DEF IInv
<1>r. /\ Cardinality(Readers) \in Nat
      /\ Cardinality(Readers) <= Cardinality(Procs)
      /\ Cardinality(Procs) \in Nat
    BY ReadersFinite, ProcsAssumption, FS_CardinalityType
<1>e. Readers = {} => Cardinality(Readers) = 0
    BY FS_EmptySet
<1>z. Cardinality(Readers) = 0 => Readers = {}
    BY ReadersFinite, FS_EmptySet
<1>1. ASSUME NEW p \in Procs, Call(p)
      PROVE  IInv'
    <2>1. Readers' = Readers /\ Writers' = Writers
        BY <1>1 DEF Call, Readers, Writers
    <2>2. TypeOK'
        BY <1>1 DEF Call, Goto, TypeOK, Points
    <2>3. PointsAndModes'
        BY <1>1 DEF Call, Goto, TypeOK, PointsAndModes
    <2>4. LockCounts'
        BY <1>1, <2>1 DEF Call, LockCounts
    <2> QED BY <2>2, <2>3, <2>4
<1>2. ASSUME NEW p \in Procs, WLockCmpSet(p)
      PROVE  IInv'
    <2>0. mode[p] = "none" /\ Grant(p, "write")
        BY <1>2 DEF WLockCmpSet, PointsAndModes
    <2>1. Readers' = Readers /\ Writers' = Writers \cup {p}
        BY <2>0, WriterChanges
    <2>2. TypeOK'
        BY <1>2, <1>r DEF WLockCmpSet, Goto, Grant, TypeOK, Points, WLOCK
    <2>3. PointsAndModes'
        BY <1>2 DEF WLockCmpSet, Goto, Grant, TypeOK, PointsAndModes
    <2>4. Readers = {} /\ Writers = {}
        BY <1>2, <1>z DEF WLockCmpSet, LockCounts, WLOCK
    <2>5. LockCounts'
        <3>1. Writers' = {p}
            BY <2>1, <2>4
        <3>2. lock' = WLOCK /\ Readers' = {}
            BY <1>2, <2>1, <2>4 DEF WLockCmpSet
        <3> QED BY <3>1, <3>2 DEF LockCounts
    <2> QED BY <2>2, <2>3, <2>5
<1>3. ASSUME NEW p \in Procs, RLockRead(p)
      PROVE  IInv'
    <2>1. Readers' = Readers /\ Writers' = Writers
        BY <1>3 DEF RLockRead, Readers, Writers
    <2>2. TypeOK'
        BY <1>3, <1>r DEF RLockRead, Goto, TypeOK, Points, WLOCK
    <2>3. PointsAndModes'
        BY <1>3 DEF RLockRead, Goto, TypeOK, PointsAndModes
    <2>4. LockCounts'
        BY <1>3, <2>1 DEF RLockRead, LockCounts
    <2> QED BY <2>2, <2>3, <2>4
<1>4. ASSUME NEW p \in Procs, RLockCmpSet(p)
      PROVE  IInv'
    <2>1. CASE lock = seen[p]
        <3>0. /\ mode[p] = "none"
              /\ Grant(p, "read")
              /\ lock' = lock + 1
            BY <1>4, <2>1 DEF RLockCmpSet, PointsAndModes
        <3>1. /\ Cardinality(Readers') = Cardinality(Readers) + 1
              /\ Writers' = Writers \ {p}
            BY <3>0, ReaderJoins
        <3>2. lock = Cardinality(Readers) /\ Writers = {}
            BY <2>1 DEF LockCounts, TypeOK, WLOCK
        <3>3. LockCounts'
            <4>1. lock' = Cardinality(Readers')
                BY <3>0, <3>1, <3>2
            <4>2. Writers' = {}
                BY <3>1, <3>2
            <4> QED BY <4>1, <4>2 DEF LockCounts
        <3>4. TypeOK'
            <4>1. Cardinality(Readers') <= Cardinality(Procs)
                BY <3>0, ReaderJoins
            <4>2. lock' \in -1 .. Cardinality(Procs)
                BY <4>1, <1>r, <3>0, <3>1, <3>2
            <4> QED
                BY <4>2, <1>4, <2>1 DEF RLockCmpSet, Goto, Grant, TypeOK, Points
        <3>5. PointsAndModes'
            BY <1>4, <2>1 DEF RLockCmpSet, Goto, Grant, TypeOK, PointsAndModes
        <3> QED BY <3>3, <3>4, <3>5
    <2>2. CASE lock # seen[p]
        <3>1. Readers' = Readers /\ Writers' = Writers
            BY <1>4, <2>2 DEF RLockCmpSet, Readers, Writers
        <3>2. TypeOK'
            BY <1>4, <2>2 DEF RLockCmpSet, Goto, TypeOK, Points
        <3>3. PointsAndModes'
            BY <1>4, <2>2 DEF RLockCmpSet, Goto, TypeOK, PointsAndModes
        <3>4. LockCounts'
            BY <1>4, <2>2, <3>1 DEF RLockCmpSet, LockCounts
        <3> QED BY <3>2, <3>3, <3>4
    <2> QED BY <2>1, <2>2
<1>5. ASSUME NEW p \in Procs, UnlockRead(p)
      PROVE  IInv'
    <2>1. Readers' = Readers /\ Writers' = Writers
        BY <1>5 DEF UnlockRead, Readers, Writers
    <2>2. TypeOK'
        BY <1>5 DEF UnlockRead, Goto, TypeOK, Points
    <2>3. lock = WLOCK => mode[p] = "write"
        <3>1. ASSUME lock = WLOCK
              PROVE  Readers = {}
            BY <3>1, <1>r DEF LockCounts, WLOCK
        <3> QED
            BY <1>5, <3>1 DEF UnlockRead, PointsAndModes, Readers, TypeOK
    <2>4. lock # WLOCK => mode[p] = "read"
        BY <1>5 DEF UnlockRead, PointsAndModes, LockCounts, Writers, TypeOK
    <2>5. PointsAndModes'
        BY <1>5, <2>3, <2>4 DEF UnlockRead, Goto, TypeOK, PointsAndModes
    <2>6. LockCounts'
        BY <1>5, <2>1 DEF UnlockRead, LockCounts
    <2> QED BY <2>2, <2>5, <2>6
<1>6. ASSUME NEW p \in Procs, UnlockCmpSet(p)
      PROVE  IInv'
    <2>0. mode[p] = "write" /\ Grant(p, "none")
        BY <1>6 DEF UnlockCmpSet, PointsAndModes
    <2>1. Readers' = Readers /\ Writers' = Writers \ {p}
        BY <2>0, WriterChanges
    <2>2. lock = WLOCK /\ Readers = {} /\ Writers = {p}
        BY <2>0 DEF LockCounts, Writers
    <2>3. lock' = 0 /\ Readers' = {} /\ Writers' = {}
        BY <1>6, <2>1, <2>2 DEF UnlockCmpSet
    <2>4. LockCounts'
        BY <2>3, FS_EmptySet DEF LockCounts
    <2>5. TypeOK'
        BY <1>6, <2>3, <1>r DEF UnlockCmpSet, Goto, Grant, TypeOK, Points
    <2>6. PointsAndModes'
        BY <1>6 DEF UnlockCmpSet, Goto, Grant, TypeOK, PointsAndModes
    <2> QED BY <2>4, <2>5, <2>6
<1>7. ASSUME NEW p \in Procs, UnlockAdd(p)
      PROVE  IInv'
    <2>0. mode[p] = "read" /\ Grant(p, "none") /\ lock' = lock - 1
        BY <1>7 DEF UnlockAdd, PointsAndModes
    <2>1. /\ Cardinality(Readers') = Cardinality(Readers) - 1
          /\ Writers' = Writers
        BY <2>0, ReaderLeaves
    <2>2. lock = Cardinality(Readers) /\ Writers = {}
        BY <2>0 DEF LockCounts, Readers
    <2>3. LockCounts'
        <3>1. lock' = Cardinality(Readers')
            BY <2>0, <2>1, <2>2
        <3> QED BY <3>1, <2>1, <2>2 DEF LockCounts
    <2>4. lock' \in -1 .. Cardinality(Procs)
        BY <2>0, <2>2, <1>r
    <2>5. TypeOK'
        BY <1>7, <2>4 DEF UnlockAdd, Goto, Grant, TypeOK, Points
    <2>6. PointsAndModes'
        BY <1>7 DEF UnlockAdd, Goto, Grant, TypeOK, PointsAndModes
    <2> QED BY <2>3, <2>5, <2>6
<1>8. ASSUME NEW p \in Procs, DowngradeRead(p)
      PROVE  IInv'
    <2>1. Readers' = Readers /\ Writers' = Writers
        BY <1>8 DEF DowngradeRead, Readers, Writers
    <2>2. TypeOK'
        BY <1>8 DEF DowngradeRead, Goto, TypeOK, Points
    <2>3. PointsAndModes'
        BY <1>8 DEF DowngradeRead, Goto, TypeOK, PointsAndModes
    <2>4. LockCounts'
        BY <1>8, <2>1 DEF DowngradeRead, LockCounts
    <2> QED BY <2>2, <2>3, <2>4
<1>9. ASSUME NEW p \in Procs, DowngradeStore(p)
      PROVE  IInv'
    <2>0. mode[p] = "write" /\ Grant(p, "read") /\ lock' = 1
        BY <1>9 DEF DowngradeStore, PointsAndModes
    <2>1. /\ Cardinality(Readers') = Cardinality(Readers) + 1
          /\ Writers' = Writers \ {p}
        BY <2>0, ReaderJoins
    <2>2. Readers = {} /\ Writers = {p}
        BY <2>0 DEF LockCounts, Writers
    <2>3. LockCounts'
        <3>1. lock' = Cardinality(Readers')
            BY <2>0, <2>1, <2>2, <1>e
        <3>2. Writers' = {}
            BY <2>1, <2>2
        <3> QED BY <3>1, <3>2 DEF LockCounts
    <2>4. Cardinality(Procs) >= 1
        <3>1. Cardinality(Readers') <= Cardinality(Procs)
            BY <2>0, ReaderJoins
        <3> QED BY <3>1, <2>1, <2>2, <1>e, <1>r
    <2>5. TypeOK'
        BY <1>9, <2>4, <1>r DEF DowngradeStore, Goto, Grant, TypeOK, Points
    <2>6. PointsAndModes'
        BY <1>9 DEF DowngradeStore, Goto, Grant, TypeOK, PointsAndModes
    <2> QED BY <2>3, <2>5, <2>6
<1>10. CASE UNCHANGED vars
    BY <1>10 DEF vars, TypeOK, PointsAndModes, LockCounts, Readers, Writers
<1> QED
    BY <1>1, <1>2, <1>3, <1>4, <1>5, <1>6, <1>7, <1>8, <1>9, <1>10
    DEF Next, Step

(* The inductive invariant holds in every reachable state. *)
THEOREM InductiveInvariant == Spec => []IInv
<1>1. Init => IInv
    <2> SUFFICES ASSUME Init PROVE IInv
        OBVIOUS
    <2>1. Readers = {} /\ Writers = {}
        BY DEF Init, Readers, Writers
    <2>2. Cardinality(Procs) \in Nat
        BY ProcsAssumption, FS_CardinalityType
    <2>3. TypeOK /\ PointsAndModes
        BY <2>2 DEF Init, TypeOK, PointsAndModes, Points
    <2>4. LockCounts
        BY <2>1, FS_EmptySet DEF Init, LockCounts
    <2> QED BY <2>3, <2>4 DEF IInv
<1> QED
    BY <1>1, Inductive, PTL DEF Spec

(* The lock word counts the readers or marks the only writer. *)
THEOREM LockWordIsTrue == Spec => []LockCounts
<1>1. IInv => LockCounts
    BY DEF IInv
<1> QED
    BY <1>1, InductiveInvariant, PTL

(* A writer shares the lock with nobody. *)
THEOREM WriterIsAlone == Spec => []Exclusion
<1>1. IInv => Exclusion
    BY DEF IInv, LockCounts, Exclusion, Readers, Writers, TypeOK
<1> QED
    BY <1>1, InductiveInvariant, PTL

(***************************************************************************)
(* The lock implements the abstract readers-writers lock: granting, giving *)
(* up and downgrading are its steps, everything else leaves it alone.      *)
(***************************************************************************)
THEOREM Refinement == Spec => ImplementsReadersWriters
<1>1. Init => RW!Init
    BY DEF Init, RW!Init, Readers, Writers
<1>2. IInv /\ [Next]_vars => [RW!Next]_RW!vars
    <2> SUFFICES ASSUME IInv, [Next]_vars
                 PROVE  [RW!Next]_RW!vars
        OBVIOUS
    <2> USE DEF IInv, RW!Next, RW!vars
    <2>z. Cardinality(Readers) = 0 => Readers = {}
        BY ReadersFinite, FS_EmptySet
    <2>1. ASSUME NEW p \in Procs, WLockCmpSet(p)
          PROVE  RW!StartWrite(p)
        <3>0. mode[p] = "none" /\ Grant(p, "write")
            BY <2>1 DEF WLockCmpSet, PointsAndModes
        <3>1. Readers' = Readers /\ Writers' = Writers \cup {p}
            BY <3>0, WriterChanges
        <3>2. Readers = {} /\ Writers = {}
            BY <2>1, <2>z DEF WLockCmpSet, LockCounts, WLOCK
        <3> QED BY <3>1, <3>2 DEF RW!StartWrite
    <2>2. ASSUME NEW p \in Procs, RLockCmpSet(p), lock = seen[p]
          PROVE  RW!StartRead(p)
        <3>0. mode[p] = "none" /\ Grant(p, "read")
            BY <2>2 DEF RLockCmpSet, PointsAndModes
        <3>1. Readers' = Readers \cup {p} /\ Writers' = Writers \ {p}
            BY <3>0, ReaderJoins
        <3>2. Writers = {}
            BY <2>2 DEF LockCounts, TypeOK, WLOCK
        <3>3. p \notin Readers
            BY <3>0 DEF Readers
        <3> QED BY <3>1, <3>2, <3>3 DEF RW!StartRead
    <2>3. ASSUME NEW p \in Procs, RLockCmpSet(p), lock # seen[p]
          PROVE  UNCHANGED RW!vars
        BY <2>3 DEF RLockCmpSet, Readers, Writers
    <2>4. ASSUME NEW p \in Procs, UnlockCmpSet(p)
          PROVE  RW!EndWrite(p)
        <3>0. mode[p] = "write" /\ Grant(p, "none")
            BY <2>4 DEF UnlockCmpSet, PointsAndModes
        <3>1. Readers' = Readers /\ Writers' = Writers \ {p}
            BY <3>0, WriterChanges
        <3>2. p \in Writers
            BY <3>0 DEF Writers
        <3> QED BY <3>1, <3>2 DEF RW!EndWrite
    <2>5. ASSUME NEW p \in Procs, UnlockAdd(p)
          PROVE  RW!EndRead(p)
        <3>0. mode[p] = "read" /\ Grant(p, "none")
            BY <2>5 DEF UnlockAdd, PointsAndModes
        <3>1. Readers' = Readers \ {p} /\ Writers' = Writers
            BY <3>0, ReaderLeaves
        <3>2. p \in Readers
            BY <3>0 DEF Readers
        <3> QED BY <3>1, <3>2 DEF RW!EndRead
    <2>6. ASSUME NEW p \in Procs, DowngradeStore(p)
          PROVE  RW!Downgrade(p)
        <3>0. mode[p] = "write" /\ Grant(p, "read")
            BY <2>6 DEF DowngradeStore, PointsAndModes
        <3>1. Readers' = Readers \cup {p} /\ Writers' = Writers \ {p}
            BY <3>0, ReaderJoins
        <3>2. p \in Writers
            BY <3>0 DEF Writers
        <3> QED BY <3>1, <3>2 DEF RW!Downgrade
    <2>7. ASSUME NEW p \in Procs,
                 Call(p) \/ RLockRead(p) \/ UnlockRead(p) \/ DowngradeRead(p)
          PROVE  UNCHANGED RW!vars
        BY <2>7 DEF Call, RLockRead, UnlockRead, DowngradeRead, Readers, Writers
    <2>8. CASE UNCHANGED vars
        BY <2>8 DEF vars, Readers, Writers
    <2> QED
        BY <2>1, <2>2, <2>3, <2>4, <2>5, <2>6, <2>7, <2>8 DEF Next, Step
<1> QED
    BY <1>1, <1>2, InductiveInvariant, PTL
    DEF Spec, RW!Spec, ImplementsReadersWriters
=============================================================================
