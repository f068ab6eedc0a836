-------------------------- MODULE RuleEngineProofs --------------------------
(***************************************************************************)
(* Proofs about RuleEngine for every set of rules, files and RSEs and      *)
(* every number of copies and environment events: type correctness, the    *)
(* protection of locked replicas from the reaper, what stands behind a     *)
(* lock (a stored file or a transfer that will make it), which files may   *)
(* be locked, and the numbers kept by hand: the counters of a rule, the    *)
(* lock_cnt of a replica and the copies of a file.                         *)
(***************************************************************************)
EXTENDS RuleEngine, FiniteSetTheorems, TLAPS

MaybeLock == LockStates \cup {"NONE"}
LockRow   == [Slots -> MaybeLock]
Counters  == [LockStates -> Int]
HoldersIn(L, p) == {r \in Rules : L[r][p] # "NONE"}

\* A new lock row m fits what rule locks l and replica states S allow: it adds
\* locks only where the rule has none and the row is not BEING_DELETED.
Fits(m, l, S) ==
  /\ m \in LockRow
  /\ \A p \in Slots : m[p] # "NONE" => l[p] = "NONE" /\ S[p] # "BEING_DELETED"

-----------------------------------------------------------------------------
(***************************************************************************)
(* Operators on counters and lock rows.                                    *)
(***************************************************************************)
\* The number of locks of a row in a given state is a natural number.
LEMMA CountIsNat == \A l, s : Cardinality(InState(l, s)) \in Nat
  <1> TAKE l, s
  <1>1. IsFiniteSet(Slots)
    BY FS_Product, RuleEngineAssumption DEF Slots
  <1>2. InState(l, s) \in SUBSET Slots
    BY DEF InState
  <1>3. IsFiniteSet(InState(l, s))
    BY <1>1, <1>2, FS_Subset
  <1> QED
    BY <1>3, FS_CardinalityType

\* Adding, subtracting, moving and recounting locks keep counters counters.
LEMMA CounterTypes ==
  /\ \A c \in Counters : \A l : AddAll(c, l) \in Counters /\ SubAll(c, l) \in Counters
  /\ \A c \in Counters : \A from, to : Moved(c, from, to) \in Counters
  /\ \A l : Recount(l) \in Counters
  <1>1. ASSUME NEW c \in Counters, NEW l
        PROVE  AddAll(c, l) \in Counters /\ SubAll(c, l) \in Counters
    <2>1. \A s \in LockStates : Cardinality(InState(l, s)) \in Int
      BY CountIsNat
    <2> QED
      BY <2>1 DEF AddAll, SubAll, Counters
  <1>2. \A c \in Counters : \A from, to : Moved(c, from, to) \in Counters
    BY DEF Moved, Counters
  <1>3. ASSUME NEW l PROVE Recount(l) \in Counters
    <2>1. \A s \in LockStates : Cardinality(InState(l, s)) \in Int
      BY CountIsNat
    <2> QED
      BY <2>1 DEF Recount, Counters
  <1> QED
    BY <1>1, <1>2, <1>3

\* The locks that LocksOn creates fit if its targets are unlocked and not
\* BEING_DELETED.
LEMMA LocksOnFits ==
  ASSUME NEW T, NEW l, NEW S, NEW ready,
         \A p \in Slots : p \in T => l[p] = "NONE" /\ S[p] # "BEING_DELETED"
  PROVE  Fits(LocksOn(T, S, ready), l, S)
  <1>1. \A s, b : LockAt(s, b) \in LockStates
    BY DEF LockAt, LockStates
  <1> QED
    BY <1>1 DEF LocksOn, Fits, LockRow, MaybeLock, LockStates

\* Every outcome of the RSE selection fits.
LEMMA ChoicesFit ==
  ASSUME NEW r, NEW n, NEW F, NEW l, NEW S, NEW m \in Choices(r, n, F, l, S)
  PROVE  Fits(m, l, S)
  <1>1. PICK T, ready : /\ m = LocksOn(T, S, ready)
                        /\ \A p \in T : S[p] # "BEING_DELETED"
                        /\ \E draw : T = Targets(n, F, l, draw)
    BY DEF Choices
  <1>2. \A p \in T : l[p] = "NONE"
    BY <1>1 DEF Targets
  <1> QED
    BY <1>1, <1>2, LocksOnFits

\* The empty row always fits.
LEMMA NoLockFits == \A l, S : Fits(NoLock, l, S)
  BY DEF Fits, NoLock, LockRow, MaybeLock

\* So does every rule's part of a joint assignment.
LEMMA AssignmentsFit ==
  ASSUME NEW R, NEW F, NEW new \in Assignments(R, F)
  PROVE  /\ new \in [Rules -> LockRow]
         /\ \A r \in Rules : Fits(new[r], lock[r], replica)
  <1>1. ASSUME NEW r \in Rules PROVE Fits(new[r], lock[r], replica)
    <2>1. \/ new[r] \in Choices(r, copies[r], F, lock[r], replica)
          \/ new[r] = NoLock
      BY DEF Assignments
    <2> QED
      BY <2>1, ChoicesFit, NoLockFits
  <1>2. new = [r \in Rules |-> new[r]]
    BY DEF Assignments
  <1> QED
    BY <1>1, <1>2 DEF Fits

-----------------------------------------------------------------------------
(***************************************************************************)
(* What granting and dropping locks does to the protection of one slot.    *)
(* L, S and C stand for lock, replica and lock_cnt.                        *)
(***************************************************************************)
LockTable    == [Rules -> LockRow]
ReplicaTable == [Slots -> ReplicaStates]
CountTable   == [Slots -> Int]

Safe(L, S, C, p) ==
  /\ Cardinality(HoldersIn(L, p)) <= C[p]
  /\ S[p] \in {"ABSENT", "BEING_DELETED"} => HoldersIn(L, p) = {}

\* Any set of rules is finite.
LEMMA RuleSetsFinite ==
  \A R \in SUBSET Rules : IsFiniteSet(R) /\ Cardinality(R) \in Nat
  BY FS_Subset, FS_CardinalityType, RuleEngineAssumption

\* Sizes of disjoint sets of rules add up; removing a subset subtracts its size.
LEMMA RuleSetsAdd ==
  /\ \A A, B \in SUBSET Rules : A \cap B = {} =>
       Cardinality(A \cup B) = Cardinality(A) + Cardinality(B)
  /\ \A A, B \in SUBSET Rules : B \subseteq A =>
       Cardinality(A \ B) = Cardinality(A) - Cardinality(B)
  <1>1. ASSUME NEW A \in SUBSET Rules, NEW B \in SUBSET Rules, A \cap B = {}
        PROVE  Cardinality(A \cup B) = Cardinality(A) + Cardinality(B)
    <2>1. IsFiniteSet(A) /\ IsFiniteSet(B) /\ Cardinality(A) \in Nat /\ Cardinality(B) \in Nat
      BY RuleSetsFinite
    <2>2. Cardinality(A \cup B) = Cardinality(A) + Cardinality(B) - Cardinality(A \cap B)
      BY <2>1, FS_Union
    <2>3. Cardinality(A \cap B) = 0
      BY <1>1, FS_EmptySet
    <2> QED
      BY <2>1, <2>2, <2>3
  <1>2. ASSUME NEW A \in SUBSET Rules, NEW B \in SUBSET Rules, B \subseteq A
        PROVE  Cardinality(A \ B) = Cardinality(A) - Cardinality(B)
    <2>1. IsFiniteSet(A)
      BY RuleSetsFinite
    <2>2. Cardinality(A \ B) = Cardinality(A) - Cardinality(A \cap B)
      BY <2>1, FS_Difference
    <2>3. A \cap B = B
      BY <1>2
    <2> QED
      BY <2>2, <2>3
  <1> QED
    BY <1>1, <1>2

\* Granting locks that fit keeps the tables typed, keeps a safe slot safe, and
\* leaves a BEING_DELETED row as it is.
LEMMA GrantKeepsSafe ==
  ASSUME NEW L \in LockTable, NEW S \in ReplicaTable, NEW C \in CountTable,
         NEW new \in LockTable,
         \A r \in Rules : Fits(new[r], L[r], S)
  PROVE  /\ WithLocks(L, new) \in LockTable
         /\ ReplicaAfter(S, new) \in ReplicaTable
         /\ LockCntAfter(C, new) \in CountTable
         /\ \A p \in Slots : Safe(L, S, C, p) =>
              Safe(WithLocks(L, new), ReplicaAfter(S, new), LockCntAfter(C, new), p)
         /\ \A p \in Slots : S[p] = "BEING_DELETED" => ReplicaAfter(S, new)[p] = "BEING_DELETED"
  <1>1. WithLocks(L, new) \in LockTable
    BY DEF WithLocks, LockTable, LockRow
  <1>2. ReplicaAfter(S, new) \in ReplicaTable
    BY DEF ReplicaAfter, ReplicaTable, ReplicaStates
  <1>3. LockCntAfter(C, new) \in CountTable
    <2>1. \A p \in Slots : Cardinality(Granted(new, p)) \in Nat
      BY RuleSetsFinite DEF Granted
    <2> QED
      BY <2>1 DEF LockCntAfter, CountTable
  <1>4. ASSUME NEW p \in Slots, Safe(L, S, C, p)
        PROVE  Safe(WithLocks(L, new), ReplicaAfter(S, new), LockCntAfter(C, new), p)
    <2> DEFINE H == HoldersIn(L, p)
    <2> DEFINE G == Granted(new, p)
    <2>1. HoldersIn(WithLocks(L, new), p) = H \cup G
      BY DEF HoldersIn, WithLocks, Granted
    <2>2. H \cap G = {}
      BY DEF HoldersIn, Granted, Fits
    <2>3. H \in SUBSET Rules /\ G \in SUBSET Rules
      BY DEF HoldersIn, Granted
    <2>4. Cardinality(H \cup G) = Cardinality(H) + Cardinality(G)
      BY <2>2, <2>3, RuleSetsAdd
    <2>5. Cardinality(H) <= C[p] /\ C[p] \in Int
      BY <1>4 DEF Safe, CountTable
    <2>6. Cardinality(H) \in Nat /\ Cardinality(G) \in Nat
      BY <2>3, RuleSetsFinite
    <2>7. Cardinality(H \cup G) <= LockCntAfter(C, new)[p]
      BY <2>4, <2>5, <2>6 DEF LockCntAfter
    <2>8. ReplicaAfter(S, new)[p] \in {"ABSENT", "BEING_DELETED"} => H \cup G = {}
      <3>1. G = {} <=> \A r \in Rules : new[r][p] = "NONE"
        BY DEF Granted
      <3>2. Replicating(new, p) => G # {}
        BY <3>1 DEF Replicating
      <3>3. S[p] = "BEING_DELETED" => G = {}
        BY <3>1 DEF Fits
      <3>4. S[p] \in {"ABSENT", "BEING_DELETED"} => H = {}
        BY <1>4 DEF Safe
      <3>5. ReplicaAfter(S, new)[p] \in {"ABSENT", "BEING_DELETED"} =>
              G = {} /\ S[p] \in {"ABSENT", "BEING_DELETED"}
        BY <3>1, <3>2, <3>3 DEF ReplicaAfter
      <3> QED
        BY <3>4, <3>5
    <2> QED
      BY <2>1, <2>7, <2>8 DEF Safe
  <1>5. ASSUME NEW p \in Slots, S[p] = "BEING_DELETED"
        PROVE  ReplicaAfter(S, new)[p] = "BEING_DELETED"
    <2>1. \A r \in Rules : new[r][p] = "NONE"
      BY <1>5 DEF Fits
    <2> QED
      BY <1>5, <2>1 DEF ReplicaAfter, Replicating
  <1> QED
    BY <1>1, <1>2, <1>3, <1>4, <1>5

\* The locks of one rule alone.
LEMMA OneRuleFits ==
  ASSUME NEW L \in LockTable, NEW S, NEW r \in Rules, NEW m, Fits(m, L[r], S)
  PROVE  /\ [NoLocks EXCEPT ![r] = m] \in LockTable
         /\ \A q \in Rules : Fits([NoLocks EXCEPT ![r] = m][q], L[q], S)
  <1>1. \A q \in Rules : [NoLocks EXCEPT ![r] = m][q] = IF q = r THEN m ELSE NoLock
    BY DEF NoLocks
  <1>2. \A q \in Rules : Fits([NoLocks EXCEPT ![r] = m][q], L[q], S)
    BY <1>1, NoLockFits
  <1> QED
    BY <1>1, <1>2 DEF NoLocks, Fits, LockTable

\* Dropping locks that are held keeps the tables typed, keeps a safe slot safe,
\* and leaves a safe BEING_DELETED row as it is.
LEMMA DropKeepsSafe ==
  ASSUME lock \in LockTable, replica \in ReplicaTable, lock_cnt \in CountTable,
         tombstone \in [Slots -> BOOLEAN], request \subseteq Slots,
         NEW gone \in [Rules -> SUBSET Slots],
         \A r \in Rules : \A p \in gone[r] : lock[r][p] # "NONE",
         NEW cancel \in Cancellable(gone), Drop(gone, cancel)
  PROVE  /\ lock' \in LockTable /\ replica' \in ReplicaTable /\ lock_cnt' \in CountTable
         /\ tombstone' \in [Slots -> BOOLEAN] /\ request' \subseteq Slots
         /\ \A p \in Slots : Safe(lock, replica, lock_cnt, p) => Safe(lock', replica', lock_cnt', p)
         /\ \A p \in Slots : Safe(lock, replica, lock_cnt, p) /\ replica[p] = "BEING_DELETED" =>
              replica'[p] = "BEING_DELETED"
  <1>1. \A p \in Slots : /\ Removed(gone, p) \in SUBSET Rules
                         /\ Removed(gone, p) \subseteq HoldersIn(lock, p)
                         /\ Cardinality(Removed(gone, p)) \in Nat
    BY RuleSetsFinite DEF Removed, HoldersIn
  <1>2. \A p \in cancel : ReachesZero(gone, p)
    BY DEF Cancellable
  <1>3. lock' \in LockTable
    BY DEF Drop, LockTable, LockRow, MaybeLock
  <1>4. replica' \in ReplicaTable
    BY DEF Drop, ReplicaTable, ReplicaStates
  <1>5. lock_cnt' \in CountTable
    BY <1>1 DEF Drop, CountTable
  <1>6. tombstone' \in [Slots -> BOOLEAN]
    BY DEF Drop
  <1>7. request' \subseteq Slots
    BY DEF Drop
  <1>8. ASSUME NEW p \in Slots, Safe(lock, replica, lock_cnt, p)
        PROVE  /\ Safe(lock', replica', lock_cnt', p)
               /\ replica[p] = "BEING_DELETED" => replica'[p] = "BEING_DELETED"
    <2> DEFINE H == HoldersIn(lock, p)
    <2> DEFINE R == Removed(gone, p)
    <2>1. HoldersIn(lock', p) = H \ R
      BY DEF Drop, HoldersIn, Removed
    <2>2. H \in SUBSET Rules /\ Cardinality(H) \in Nat
      BY RuleSetsFinite DEF HoldersIn
    <2>3. Cardinality(H \ R) = Cardinality(H) - Cardinality(R)
      BY <1>1, <2>2, RuleSetsAdd
    <2>4. Cardinality(H) <= lock_cnt[p] /\ lock_cnt[p] \in Int
      BY <1>8 DEF Safe, CountTable
    <2>5. lock_cnt'[p] = IF replica[p] = "ABSENT" THEN lock_cnt[p] ELSE lock_cnt[p] - Cardinality(R)
      BY DEF Drop
    <2>6. Cardinality(H \ R) <= lock_cnt'[p]
      BY <1>1, <2>2, <2>3, <2>4, <2>5
    <2>7. replica[p] \in {"ABSENT", "BEING_DELETED"} => H = {} /\ R = {}
      BY <1>1, <1>8 DEF Safe
    <2>8. replica'[p] = IF p \in cancel THEN "UNAVAILABLE" ELSE replica[p]
      BY DEF Drop
    <2>9. R = {} => p \notin cancel
      <3>1. R = {} => Cardinality(R) = 0
        BY FS_EmptySet
      <3>2. p \in cancel => lock_cnt[p] \in 1..Cardinality(R)
        BY <1>2 DEF ReachesZero
      <3> QED
        BY <2>4, <3>1, <3>2
    <2> QED
      BY <2>1, <2>6, <2>7, <2>8, <2>9 DEF Safe
  <1> QED
    BY <1>3, <1>4, <1>5, <1>6, <1>7, <1>8

\* Carrying out the fates of the STUCK locks keeps the tables typed, keeps a
\* safe slot safe, and leaves a safe BEING_DELETED row as it is: a deleted lock
\* lowers lock_cnt at most by one, a moved one adds what it takes.
LEMMA RepairKeepsSafe ==
  ASSUME NEW r \in Rules,
         NEW L \in LockTable, NEW S \in ReplicaTable, NEW C \in CountTable,
         NEW K \in [Slots -> BOOLEAN], NEW Q \in SUBSET Slots, NEW c \in Counters,
         NEW fate, NEW m,
         DOMAIN fate \subseteq Slots,
         \A p \in DOMAIN fate :
           /\ L[r][p] = "STUCK"
           /\ fate[p] \in Fates
           /\ fate[p] = "ok" => S[p] \in Readable
           /\ fate[p] \in {"retry", "move"} => S[p] \notin {"ABSENT", "BEING_DELETED"},
         Fits(m, L[r], S),
         state \in [Rules -> RuleStates], locks_cnt \in [Rules -> Counters],
         RepairStuck(r, L, S, C, K, Q, c, fate, m)
  PROVE  /\ lock' \in LockTable /\ replica' \in ReplicaTable /\ lock_cnt' \in CountTable
         /\ tombstone' \in [Slots -> BOOLEAN] /\ request' \subseteq Slots
         /\ state' \in [Rules -> RuleStates] /\ locks_cnt' \in [Rules -> Counters]
         /\ \A p \in Slots : Safe(L, S, C, p) => Safe(lock', replica', lock_cnt', p)
         /\ \A p \in Slots : Safe(L, S, C, p) /\ S[p] = "BEING_DELETED" => replica'[p] = "BEING_DELETED"
  <1> DEFINE new == [NoLocks EXCEPT ![r] = m]
  <1>1. new \in LockTable /\ \A q \in Rules : Fits(new[q], L[q], S)
    BY OneRuleFits
  <1>2. m \in LockRow
    BY DEF Fits
  <1>3. /\ WithLocks(L, new) \in LockTable
        /\ ReplicaAfter(S, new) \in ReplicaTable
        /\ LockCntAfter(C, new) \in CountTable
        /\ \A p \in Slots : Safe(L, S, C, p) =>
              Safe(WithLocks(L, new), ReplicaAfter(S, new), LockCntAfter(C, new), p)
        /\ \A p \in Slots : S[p] = "BEING_DELETED" => ReplicaAfter(S, new)[p] = "BEING_DELETED"
    <2> HIDE DEF new
    <2> QED
      BY <1>1, GrantKeepsSafe
  <1>4. lock' \in LockTable
    BY <1>2 DEF RepairStuck, LockTable, LockRow, MaybeLock, LockStates
  <1>5. replica' \in ReplicaTable
    BY <1>3 DEF RepairStuck, ReplicaTable, ReplicaStates
  <1>6. lock_cnt' \in CountTable
    <2>1. \A p \in Slots : Cardinality({q \in Rules : L[q][p] # "NONE"}) \in Int
      BY RuleSetsFinite
    <2>2. \A p \in Slots : C[p] - 1 \in Int /\ LockCntAfter(C, new)[p] \in Int
      <3> HIDE DEF new
      <3> QED
        BY <1>3 DEF CountTable
    <2>3. lock_cnt' = [p \in Slots |->
            IF p \in DOMAIN fate /\ fate[p] = "ok" THEN Cardinality({q \in Rules : L[q][p] # "NONE"})
            ELSE IF p \in DOMAIN fate /\ fate[p] = "move" THEN C[p] - 1 ELSE LockCntAfter(C, new)[p]]
      BY Zenon DEF RepairStuck
    <2> HIDE DEF new
    <2> QED
      BY <2>1, <2>2, <2>3 DEF CountTable
  <1>7. tombstone' \in [Slots -> BOOLEAN]
    BY DEF RepairStuck, TombstoneAfter
  <1>8. request' \subseteq Slots
    BY DEF RepairStuck, RequestAfter
  <1>9. locks_cnt' \in [Rules -> Counters]
    BY CounterTypes DEF RepairStuck
  <1>10. state' \in [Rules -> RuleStates]
    <2>1. \A d : RepairedState(d) \in RuleStates
      BY DEF RepairedState, RuleStates
    <2> QED
      BY <2>1 DEF RepairStuck
  <1>11. ASSUME NEW p \in Slots, Safe(L, S, C, p), p \notin DOMAIN fate
         PROVE  /\ Safe(lock', replica', lock_cnt', p)
                /\ S[p] = "BEING_DELETED" => replica'[p] = "BEING_DELETED"
    <2>1. HoldersIn(lock', p) = HoldersIn(WithLocks(L, new), p)
      <3>1. \A q \in Rules : lock'[q][p] = WithLocks(L, new)[q][p]
        BY <1>11, <1>2 DEF RepairStuck, WithLocks, NoLocks, NoLock, LockTable, LockRow
      <3> QED
        BY <3>1 DEF HoldersIn
    <2>2. replica'[p] = ReplicaAfter(S, new)[p]
      BY <1>11 DEF RepairStuck
    <2>3. lock_cnt'[p] = LockCntAfter(C, new)[p]
      BY <1>11 DEF RepairStuck
    <2> QED
      BY <1>3, <1>11, <2>1, <2>2, <2>3 DEF Safe
  <1>12. ASSUME NEW p \in Slots, Safe(L, S, C, p), p \in DOMAIN fate
         PROVE  /\ Safe(lock', replica', lock_cnt', p)
                /\ S[p] # "BEING_DELETED"
    <2> DEFINE H == HoldersIn(L, p)
    <2>1. r \in H /\ H \in SUBSET Rules /\ S[p] \notin {"ABSENT", "BEING_DELETED"}
      BY <1>12 DEF Safe, HoldersIn
    <2>2. Cardinality(H) \in Nat /\ C[p] \in Int /\ Cardinality(H) <= C[p]
      BY <1>12, <2>1, RuleSetsFinite DEF Safe, CountTable
    <2>3. m[p] = "NONE" /\ \A q \in Rules : new[q][p] = "NONE"
      BY <1>1, <1>12, <2>1 DEF Fits, NoLocks, NoLock
    <2>4. ReplicaAfter(S, new)[p] = S[p]
      BY <2>3 DEF ReplicaAfter, Replicating, Granted
    <2>5. LockCntAfter(C, new)[p] = C[p]
      <3>1. Granted(new, p) = {}
        BY <2>3 DEF Granted
      <3> QED
        <4> HIDE DEF new
        <4>1. LockCntAfter(C, new)[p] = C[p] + Cardinality(Granted(new, p))
          BY DEF LockCntAfter
        <4> QED
          BY <2>2, <3>1, <4>1, FS_EmptySet
    <2>6. replica'[p] \notin {"ABSENT", "BEING_DELETED"}
      BY <1>12, <2>1, <2>4 DEF RepairStuck
    <2>7. CASE fate[p] \in {"ok", "retry", "keep"}
      <3>1. HoldersIn(lock', p) = H
        BY <1>12, <2>3, <2>7 DEF RepairStuck, HoldersIn, LockTable, LockRow
      <3>2. lock_cnt'[p] \in {Cardinality(H), C[p]}
        BY <1>12, <2>5, <2>7 DEF RepairStuck, HoldersIn
      <3> QED
        BY <2>1, <2>2, <2>6, <3>1, <3>2 DEF Safe
    <2>8. CASE fate[p] \in {"move", "surplus"}
      <3>1. HoldersIn(lock', p) = H \ {r}
        BY <1>12, <2>3, <2>8 DEF RepairStuck, HoldersIn, LockTable, LockRow
      <3>2. lock_cnt'[p] \in {C[p] - 1, C[p]}
        BY <1>12, <2>5, <2>8 DEF RepairStuck
      <3>3. Cardinality(H \ {r}) = Cardinality(H) - 1
        BY <2>1, RuleSetsFinite, FS_RemoveElement
      <3> QED
        BY <2>1, <2>2, <2>6, <3>1, <3>2, <3>3 DEF Safe
    <2> QED
      BY <1>12, <2>1, <2>7, <2>8 DEF Fates
  <1> QED
    BY <1>4, <1>5, <1>6, <1>7, <1>8, <1>9, <1>10, <1>11, <1>12

-----------------------------------------------------------------------------
(***************************************************************************)
(* The pieces of an action that move locks in bulk, as steps of the        *)
(* specification.                                                          *)
(***************************************************************************)
TablesTyped ==
  /\ lock \in LockTable /\ replica \in ReplicaTable /\ lock_cnt \in CountTable
  /\ tombstone \in [Slots -> BOOLEAN] /\ request \subseteq Slots
RulesTyped == state \in [Rules -> RuleStates] /\ locks_cnt \in [Rules -> Counters]

\* What a step owes a slot: a safe slot stays safe and a safe row that is
\* BEING_DELETED stays so.
KeepsSafe(p) ==
  Safe(lock, replica, lock_cnt, p) =>
    /\ Safe(lock', replica', lock_cnt', p)
    /\ replica[p] = "BEING_DELETED" => replica'[p] = "BEING_DELETED"

\* Granting locks that fit is type-correct and safe.
LEMMA GrantStep ==
  ASSUME TablesTyped, NEW new \in LockTable,
         \A r \in Rules : Fits(new[r], lock[r], replica), Grant(new)
  PROVE  TablesTyped' /\ \A p \in Slots : KeepsSafe(p)
  <1>1. /\ lock' \in LockTable /\ replica' \in ReplicaTable /\ lock_cnt' \in CountTable
        /\ \A p \in Slots : KeepsSafe(p)
    BY GrantKeepsSafe DEF TablesTyped, Grant, KeepsSafe
  <1>2. tombstone' \in [Slots -> BOOLEAN] /\ request' \subseteq Slots
    BY DEF TablesTyped, Grant, TombstoneAfter, RequestAfter
  <1> QED
    BY <1>1, <1>2 DEF TablesTyped

\* Applying a rule to the content of the dataset is type-correct and safe.
LEMMA ApplyStep ==
  ASSUME TablesTyped, RulesTyped, NEW r \in Rules, NEW n, Apply(r, n)
  PROVE  TablesTyped' /\ RulesTyped' /\ \A p \in Slots : KeepsSafe(p)
  <1>1. PICK m \in Choices(r, n, content, lock[r], replica) :
          /\ Grant([NoLocks EXCEPT ![r] = m])
          /\ locks_cnt' = [locks_cnt EXCEPT ![r] = AddAll(@, m)]
          /\ state' = [state EXCEPT ![r] = AppliedState(AddAll(locks_cnt[r], m))]
    BY DEF Apply
  <1>2. Fits(m, lock[r], replica)
    BY ChoicesFit
  <1>3. TablesTyped' /\ \A p \in Slots : KeepsSafe(p)
    BY <1>1, <1>2, OneRuleFits, GrantStep DEF TablesTyped
  <1>4. locks_cnt' \in [Rules -> Counters]
    BY <1>1, CounterTypes DEF RulesTyped
  <1>5. \A c : AppliedState(c) \in RuleStates
    BY DEF AppliedState, RuleStates
  <1>6. state' \in [Rules -> RuleStates]
    BY <1>1, <1>5 DEF RulesTyped
  <1> QED
    BY <1>3, <1>4, <1>6 DEF RulesTyped

\* So is dropping locks.
LEMMA DropStep ==
  ASSUME TablesTyped, NEW gone \in [Rules -> SUBSET Slots],
         \A r \in Rules : \A p \in gone[r] : lock[r][p] # "NONE",
         NEW cancel \in Cancellable(gone), Drop(gone, cancel)
  PROVE  TablesTyped' /\ \A p \in Slots : KeepsSafe(p)
  BY DropKeepsSafe DEF TablesTyped, KeepsSafe

\* So is a repair: first the missing locks are granted, then the STUCK locks
\* meet their fates.
LEMMA RepairLocksStep ==
  ASSUME TablesTyped, RulesTyped, NEW r \in Rules, RepairLocks(r)
  PROVE  TablesTyped' /\ RulesTyped' /\ \A p \in Slots : KeepsSafe(p)
  <1>1. PICK m1 \in Choices(r, copies[r], Missing(r), lock[r], replica) :
          LET new   == [NoLocks EXCEPT ![r] = m1]
              L     == WithLocks(lock, new)
              S     == ReplicaAfter(replica, new)
              stuck == {p \in SlotsOf(content) : L[r][p] = "STUCK"}
              good  == IF Hard(r) THEN {p \in SlotsOf(content) : L[r][p] \in {"OK", "REPLICATING"}} ELSE {}
          IN  \E fate \in [stuck -> Fates] : \E to \in Moves(L[r], S, {p \in stuck : fate[p] = "move"}) :
                LET dest == {<<p[1], to[p]>> : p \in DOMAIN to}
                IN  \E m2 \in {LocksOn(dest, S, ready) : ready \in SUBSET dest} :
                      /\ Feasible(r, S, good, fate, to, m2)
                      /\ RepairStuck(r, L, S, LockCntAfter(lock_cnt, new), TombstoneAfter(tombstone, new),
                                     RequestAfter(request, replica, new), AddAll(Recount(lock[r]), m1),
                                     fate, m2)
    BY DEF RepairLocks
  <1> DEFINE new   == [NoLocks EXCEPT ![r] = m1]
             L     == WithLocks(lock, new)
             S     == ReplicaAfter(replica, new)
             C     == LockCntAfter(lock_cnt, new)
             K     == TombstoneAfter(tombstone, new)
             Q     == RequestAfter(request, replica, new)
             c     == AddAll(Recount(lock[r]), m1)
             stuck == {p \in SlotsOf(content) : L[r][p] = "STUCK"}
             good  == IF Hard(r) THEN {p \in SlotsOf(content) : L[r][p] \in {"OK", "REPLICATING"}} ELSE {}
  <1>2. new \in LockTable /\ \A q \in Rules : Fits(new[q], lock[q], replica)
    BY ChoicesFit, OneRuleFits DEF TablesTyped
  <1> HIDE DEF new
  <1>3. /\ L \in LockTable /\ S \in ReplicaTable /\ C \in CountTable
        /\ \A p \in Slots : Safe(lock, replica, lock_cnt, p) => Safe(L, S, C, p)
        /\ \A p \in Slots : replica[p] = "BEING_DELETED" => S[p] = "BEING_DELETED"
    BY <1>2, GrantKeepsSafe DEF TablesTyped
  <1>4. K \in [Slots -> BOOLEAN] /\ Q \in SUBSET Slots
    BY DEF TablesTyped, TombstoneAfter, RequestAfter
  <1>5. c \in Counters
    BY CounterTypes
  <1>6. PICK fate \in [stuck -> Fates] : \E to \in Moves(L[r], S, {p \in stuck : fate[p] = "move"}) :
          \E m2 : \E ready :
            /\ m2 = LocksOn({<<p[1], to[p]>> : p \in DOMAIN to}, S, ready)
            /\ Feasible(r, S, good, fate, to, m2)
            /\ RepairStuck(r, L, S, C, K, Q, c, fate, m2)
    BY <1>1, Zenon DEF new
  <1>7. PICK to, m2, ready :
            /\ to \in Moves(L[r], S, {p \in stuck : fate[p] = "move"})
            /\ m2 = LocksOn({<<p[1], to[p]>> : p \in DOMAIN to}, S, ready)
            /\ Feasible(r, S, good, fate, to, m2)
            /\ RepairStuck(r, L, S, C, K, Q, c, fate, m2)
    BY <1>6
  <1>8. DOMAIN fate = stuck /\ stuck \subseteq Slots /\ \A p \in stuck : fate[p] \in Fates
    BY DEF SlotsOf
  <1>9. \A p \in DOMAIN fate :
           /\ L[r][p] = "STUCK"
           /\ fate[p] \in Fates
           /\ fate[p] = "ok" => S[p] \in Readable
           /\ fate[p] \in {"retry", "move"} => S[p] \notin {"ABSENT", "BEING_DELETED"}
    BY <1>7, <1>8 DEF Feasible
  <1>10. Fits(m2, L[r], S)
    <2>1. \A q \in {<<p[1], to[p]>> : p \in DOMAIN to} : L[r][q] = "NONE" /\ S[q] # "BEING_DELETED"
      BY <1>7 DEF Moves
    <2> QED
      BY <1>7, <2>1, LocksOnFits
  <1> HIDE DEF L, S, C, K, Q, c
  <1>11. /\ lock' \in LockTable /\ replica' \in ReplicaTable /\ lock_cnt' \in CountTable
         /\ tombstone' \in [Slots -> BOOLEAN] /\ request' \subseteq Slots
         /\ state' \in [Rules -> RuleStates] /\ locks_cnt' \in [Rules -> Counters]
         /\ \A p \in Slots : Safe(L, S, C, p) => Safe(lock', replica', lock_cnt', p)
         /\ \A p \in Slots : Safe(L, S, C, p) /\ S[p] = "BEING_DELETED" => replica'[p] = "BEING_DELETED"
    BY <1>3, <1>4, <1>5, <1>7, <1>8, <1>9, <1>10, RepairKeepsSafe DEF RulesTyped
  <1> QED
    BY <1>3, <1>11 DEF TablesTyped, RulesTyped, KeepsSafe

-----------------------------------------------------------------------------
(***************************************************************************)
(* Type correctness.                                                       *)
(***************************************************************************)
RestTyped ==
  /\ copies \in [Rules -> Nat]
  /\ bad \subseteq Slots /\ temporary \subseteq Slots
  /\ lost \subseteq Files /\ dids \subseteq Files
  /\ content \subseteq Files /\ flagged \subseteq Files
  /\ updated \subseteq {"ATTACH", "DETACH"}
  /\ injecting \subseteq Rules /\ repairing \subseteq Rules /\ reaping \subseteq Slots
  /\ \/ necro = Idle
     \/ necro \in [stage : {"picked", "recover", "lost"}, slot : Slots]
  /\ events \in [EventKinds -> Nat]
  /\ stored \subseteq Slots /\ revived \subseteq Slots /\ faked \subseteq Slots
  /\ skipped \subseteq Rules /\ miscounted \subseteq Rules

\* The type invariant is the conjunction of its three parts.
LEMMA TypeSplit == TypeOK <=> TablesTyped /\ RulesTyped /\ RestTyped
  BY DEF TypeOK, TablesTyped, RulesTyped, RestTyped, LockTable, LockRow, MaybeLock, ReplicaTable,
         CountTable, Counters

\* Moving the locks on a slot from one state to another is type-correct and
\* takes no lock away.
LEMMA MoveLocksStep ==
  ASSUME lock \in LockTable, locks_cnt \in [Rules -> Counters],
         NEW p \in Slots, NEW from, NEW to \in LockStates, "NONE" \notin from,
         MoveLocks(p, from, to)
  PROVE  /\ lock' \in LockTable
         /\ locks_cnt' \in [Rules -> Counters]
         /\ \A q \in Slots : HoldersIn(lock', q) = HoldersIn(lock, q)
  <1>1. lock' \in LockTable
    BY DEF MoveLocks, LockTable, LockRow, MaybeLock
  <1>2. locks_cnt' \in [Rules -> Counters]
    BY CounterTypes DEF MoveLocks
  <1>3. \A q \in Slots, r \in Rules : lock'[r][q] = "NONE" <=> lock[r][q] = "NONE"
    BY DEF MoveLocks, LockTable, LockRow, LockStates
  <1> QED
    BY <1>1, <1>2, <1>3 DEF HoldersIn

\* A replica that becomes available moves locks to OK and rules at most to OK.
LEMMA BecomeAvailableStep ==
  ASSUME TablesTyped, RulesTyped, NEW p \in Slots, BecomeAvailable(p)
  PROVE  /\ lock' \in LockTable
         /\ locks_cnt' \in [Rules -> Counters]
         /\ state' \in [Rules -> RuleStates]
         /\ \A q \in Slots : HoldersIn(lock', q) = HoldersIn(lock, q)
  <1>1. MoveLocks(p, {"REPLICATING", "STUCK"}, "OK")
    BY DEF BecomeAvailable
  <1>2. state' \in [Rules -> RuleStates]
    BY DEF BecomeAvailable, RulesTyped, RuleStates
  <1> QED
    BY <1>1, <1>2, MoveLocksStep DEF TablesTyped, RulesTyped, LockStates

\* Evaluating attached files is type-correct and safe.
LEMMA EvaluateAttachStep ==
  ASSUME TablesTyped, RulesTyped, EvaluateAttach
  PROVE  TablesTyped' /\ RulesTyped' /\ \A p \in Slots : KeepsSafe(p)
  <1> DEFINE eligible == IF flagged = {} THEN {}
                         ELSE {r \in Existing : state[r] \notin {"SUSPENDED", "WAITING_APPROVAL", "INJECT"}}
  <1>1. PICK abort \in SUBSET eligible : \E new \in Assignments(eligible \ abort, flagged) :
          /\ Grant(new)
          /\ locks_cnt' = [r \in Rules |-> AddAll(locks_cnt[r], new[r])]
          /\ state' = [r \in Rules |->
                IF r \in abort THEN "STUCK"
                ELSE IF r \in eligible
                  THEN AttachedState(state[r], locks_cnt[r], AddAll(locks_cnt[r], new[r]))
                  ELSE state[r]]
    BY DEF EvaluateAttach
  <1>2. PICK new \in Assignments(eligible \ abort, flagged) :
          /\ Grant(new)
          /\ locks_cnt' = [r \in Rules |-> AddAll(locks_cnt[r], new[r])]
          /\ state' = [r \in Rules |->
                IF r \in abort THEN "STUCK"
                ELSE IF r \in eligible
                  THEN AttachedState(state[r], locks_cnt[r], AddAll(locks_cnt[r], new[r]))
                  ELSE state[r]]
    BY <1>1
  <1> HIDE DEF eligible
  <1>3. new \in LockTable /\ \A r \in Rules : Fits(new[r], lock[r], replica)
    BY AssignmentsFit DEF LockTable
  <1>4. TablesTyped' /\ \A p \in Slots : KeepsSafe(p)
    BY <1>2, <1>3, GrantStep
  <1>5. locks_cnt' \in [Rules -> Counters]
    BY <1>2, CounterTypes DEF RulesTyped
  <1>6. \A s \in RuleStates : \A b, a : AttachedState(s, b, a) \in RuleStates
    BY DEF AttachedState, RuleStates
  <1>7. state' \in [Rules -> RuleStates]
    <2>1. "STUCK" \in RuleStates
      BY DEF RuleStates
    <2> QED
      BY <1>2, <1>6, <2>1 DEF RulesTyped
  <1> QED
    BY <1>4, <1>5, <1>7 DEF RulesTyped

\* Evaluating detached files is type-correct and safe.
LEMMA EvaluateDetachStep ==
  ASSUME TablesTyped, RulesTyped, EvaluateDetach
  PROVE  TablesTyped' /\ RulesTyped' /\ \A p \in Slots : KeepsSafe(p)
  <1> DEFINE gone == [r \in Rules |-> GivesUp(r)]
  <1> DEFINE left == [r \in Rules |-> [p \in Slots |-> IF p \in gone[r] THEN lock[r][p] ELSE "NONE"]]
  <1>1. /\ \E cancel \in Cancellable(gone) : Drop(gone, cancel)
        /\ locks_cnt' = [r \in Rules |-> SubAll(locks_cnt[r], left[r])]
        /\ state' = [r \in Rules |->
             IF r \in Existing THEN Settled(state[r], SubAll(locks_cnt[r], left[r])) ELSE state[r]]
    BY DEF EvaluateDetach
  <1>2. /\ gone \in [Rules -> SUBSET Slots]
        /\ \A r \in Rules : \A p \in gone[r] : lock[r][p] # "NONE"
    BY DEF GivesUp, Held, SlotsOf
  <1>3. TablesTyped' /\ \A p \in Slots : KeepsSafe(p)
    <2> HIDE DEF gone
    <2> QED
      BY <1>1, <1>2, DropStep
  <1>4. locks_cnt' \in [Rules -> Counters]
    <2> HIDE DEF left
    <2> QED
      BY <1>1, CounterTypes DEF RulesTyped
  <1>5. \A s \in RuleStates : \A c : Settled(s, c) \in RuleStates
    BY DEF Settled, RuleStates
  <1>6. state' \in [Rules -> RuleStates]
    <2> HIDE DEF left
    <2> QED
      BY <1>1, <1>5 DEF RulesTyped
  <1> QED
    BY <1>3, <1>4, <1>6 DEF RulesTyped

\* Deleting a rule is type-correct and safe.
LEMMA DeleteRuleStep ==
  ASSUME TablesTyped, RulesTyped, NEW r \in Rules, DeleteRule(r)
  PROVE  TablesTyped' /\ RulesTyped' /\ \A p \in Slots : KeepsSafe(p)
  <1> DEFINE gone == [q \in Rules |-> IF q = r THEN Held(lock[r], Files) ELSE {}]
  <1>1. \E cancel \in Cancellable(gone) : Drop(gone, cancel)
    BY DEF DeleteRule
  <1>2. /\ gone \in [Rules -> SUBSET Slots]
        /\ \A q \in Rules : \A p \in gone[q] : lock[q][p] # "NONE"
    BY DEF Held, SlotsOf
  <1>3. TablesTyped' /\ \A p \in Slots : KeepsSafe(p)
    <2> HIDE DEF gone
    <2> QED
      BY <1>1, <1>2, DropStep
  <1>4. RulesTyped'
    BY DEF DeleteRule, RulesTyped, RuleStates, Counters
  <1> QED
    BY <1>3, <1>4

\* A necromancer that is not idle works on a slot.
LEMMA NecroBusy ==
  RestTyped /\ necro.stage \in {"picked", "recover", "lost"} =>
    necro \in [stage : {"picked", "recover", "lost"}, slot : Slots]
  BY DEF RestTyped, Idle

\* Counting an environment event keeps the counts natural numbers.
LEMMA HappensTyped ==
  ASSUME events \in [EventKinds -> Nat], NEW kind \in EventKinds, Happens(kind)
  PROVE  events' \in [EventKinds -> Nat]
  BY DEF Happens

\* The same split after a step.
LEMMA TypeJoin == TablesTyped' /\ RulesTyped' /\ RestTyped' => TypeOK'
  BY DEF TypeOK, TablesTyped, RulesTyped, RestTyped, LockTable, LockRow, MaybeLock, ReplicaTable,
         CountTable, Counters

\* Every value the tables, counters and work lists of the rule engine take is of
\* its declared type, for any number of rules, files and RSEs.
THEOREM TypeCorrect == Spec => []TypeOK
  <1>1. Init => TypeOK
    BY RuleEngineAssumption
    DEF Init, TypeOK, NoLocks, NoLock, LockStates, RuleStates, ReplicaStates, EventKinds, Idle, Exists
  <1>2. TypeOK /\ [Next]_vars => TypeOK'
    <2> SUFFICES ASSUME TypeOK, [Next]_vars PROVE TypeOK'
      OBVIOUS
    <2>0. TablesTyped /\ RulesTyped /\ RestTyped
      BY TypeSplit
    <2>1. ASSUME NEW r \in Rules, NEW n \in 1..MaxCopies, AddRule(r, n)
          PROVE  TypeOK'
      <3>1. RestTyped'
        BY <2>0, <2>1, RuleEngineAssumption
        DEF RestTyped, AddRule, badVars, didVars, workVars, ghostVars
      <3>2. CASE Apply(r, n)
        BY <2>0, <3>1, <3>2, ApplyStep, TypeJoin
      <3>3. CASE /\ UNCHANGED <<locks_cnt, lock, replicaVars>>
                 /\ \E s \in {"WAITING_APPROVAL", "INJECT"} : state' = [state EXCEPT ![r] = s]
        <4>1. TablesTyped'
          BY <2>0, <3>3 DEF TablesTyped, replicaVars
        <4>2. RulesTyped'
          BY <2>0, <3>3 DEF RulesTyped, RuleStates
        <4> QED
          BY <3>1, <4>1, <4>2, TypeJoin
      <3> QED
        BY <2>1, <3>2, <3>3 DEF AddRule
    <2>2. ASSUME NEW r \in Rules, ApproveRule(r) PROVE TypeOK'
      BY <2>0, <2>2, TypeJoin
      DEF TablesTyped, RulesTyped, RestTyped, ApproveRule, RuleStates, replicaVars, badVars, didVars,
          workVars, ghostVars
    <2>3. ASSUME NEW r \in Rules, InjectRule(r) PROVE TypeOK'
      <3>1. RestTyped'
        BY <2>0, <2>3 DEF RestTyped, InjectRule, badVars, didVars
      <3>2. CASE Apply(r, copies[r])
        BY <2>0, <3>1, <3>2, ApplyStep, TypeJoin
      <3>3. CASE UNCHANGED <<locks_cnt, lock, replicaVars>> /\ state' = [state EXCEPT ![r] = "SUSPENDED"]
        BY <2>0, <3>1, <3>3, TypeJoin DEF TablesTyped, RulesTyped, RuleStates, replicaVars
      <3>4. CASE UNCHANGED <<state, locks_cnt, lock, replicaVars>>
        BY <2>0, <3>1, <3>4, TypeJoin DEF TablesTyped, RulesTyped, replicaVars
      <3> QED
        BY <2>3, <3>2, <3>3, <3>4 DEF InjectRule
    <2>4. ASSUME NEW r \in Rules, DeleteRule(r) PROVE TypeOK'
      <3>1. RestTyped'
        BY <2>0, <2>4 DEF RestTyped, DeleteRule, badVars, didVars, workVars, ghostVars
      <3> QED
        BY <2>0, <2>4, <3>1, DeleteRuleStep, TypeJoin
    <2>5. ASSUME NEW r \in Rules, InjectFetch(r) \/ RepairFetch(r) PROVE TypeOK'
      BY <2>0, <2>5, TypeJoin
      DEF TablesTyped, RulesTyped, RestTyped, InjectFetch, RepairFetch, ruleVars, replicaVars, badVars,
          didVars, ghostVars
    <2>6. ASSUME NEW r \in Rules, RepairRule(r) PROVE TypeOK'
      <3>1. RestTyped'
        BY <2>0, <2>6 DEF RestTyped, RepairRule, badVars, didVars
      <3>2. TablesTyped' /\ RulesTyped'
        <4>1. CASE RepairLocks(r)
          BY <2>0, <4>1, RepairLocksStep
        <4>2. CASE RepairAborts(r)
          BY <2>0, <4>2, CounterTypes DEF RepairAborts, TablesTyped, RulesTyped, RuleStates, replicaVars
        <4>3. CASE RepairSuspends(r)
          BY <2>0, <4>3 DEF RepairSuspends, TablesTyped, RulesTyped, RuleStates, replicaVars
        <4>4. CASE UNCHANGED <<state, locks_cnt, lock, replicaVars>>
          BY <2>0, <4>4 DEF TablesTyped, RulesTyped, replicaVars
        <4> QED
          BY <2>6, <4>1, <4>2, <4>3, <4>4 DEF RepairRule
      <3> QED
        BY <3>1, <3>2, TypeJoin
    <2>7. ASSUME NEW r \in Rules, NEW s \in {"SUSPENDED", "STUCK"}, NEW cancel \in BOOLEAN,
                 UpdateRule(r, s, cancel)
          PROVE  TypeOK'
      <3>1. TablesTyped'
        BY <2>0, <2>7
        DEF TablesTyped, UpdateRule, LockTable, LockRow, MaybeLock, LockStates, ReplicaTable, ReplicaStates
      <3>2. RulesTyped'
        BY <2>0, <2>7 DEF RulesTyped, UpdateRule, RuleStates
      <3>3. RestTyped'
        <4>1. events' \in [EventKinds -> Nat]
          BY <2>0, <2>7, HappensTyped DEF RestTyped, UpdateRule, EventKinds
        <4>2. revived' \subseteq Slots
          BY <2>0, <2>7 DEF RestTyped, UpdateRule, Revive, InState
        <4> QED
          BY <2>0, <2>7, <4>1, <4>2 DEF RestTyped, UpdateRule, badVars, didVars, workVars
      <3> QED
        BY <3>1, <3>2, <3>3, TypeJoin
    <2>8. ASSUME NEW p \in Slots, FinishOk(p) PROVE TypeOK'
      <3>1. RestTyped'
        BY <2>0, <2>8 DEF RestTyped, FinishOk, BecomeAvailable, Revive, didVars, workVars
      <3>2. CASE Exists(p) /\ BecomeAvailable(p) /\ UNCHANGED tombstone
        <4>1. lock' \in LockTable /\ locks_cnt' \in [Rules -> Counters] /\ state' \in [Rules -> RuleStates]
          BY <2>0, <3>2, BecomeAvailableStep
        <4>2. TablesTyped'
          BY <2>0, <2>8, <3>2, <4>1
          DEF TablesTyped, FinishOk, BecomeAvailable, ReplicaTable, ReplicaStates
        <4> QED
          BY <3>1, <4>1, <4>2, TypeJoin DEF RulesTyped
      <3>3. CASE ~Exists(p)
        <4>1. TablesTyped'
          BY <2>0, <2>8, <3>3 DEF TablesTyped, FinishOk, ReplicaTable, ReplicaStates
        <4>2. RulesTyped'
          BY <2>0, <2>8, <3>3 DEF RulesTyped, FinishOk
        <4> QED
          BY <3>1, <4>1, <4>2, TypeJoin
      <3> QED
        BY <2>8, <3>2, <3>3 DEF FinishOk
    <2>9. ASSUME NEW p \in Slots, FinishFail(p) PROVE TypeOK'
      <3>1. RestTyped'
        BY <2>0, <2>9 DEF RestTyped, FinishFail, Revive, badVars, didVars, workVars
      <3>2. CASE Exists(p)
        <4>1. MoveLocks(p, {"OK", "REPLICATING"}, "STUCK")
          BY <2>9, <3>2 DEF FinishFail
        <4>2. lock' \in LockTable /\ locks_cnt' \in [Rules -> Counters]
          BY <2>0, <4>1, MoveLocksStep DEF TablesTyped, RulesTyped, LockStates
        <4>3. TablesTyped'
          BY <2>0, <2>9, <3>2, <4>2 DEF TablesTyped, FinishFail, ReplicaTable, ReplicaStates
        <4>4. state' \in [Rules -> RuleStates]
          BY <2>0, <2>9, <3>2 DEF RulesTyped, FinishFail, RuleStates
        <4> QED
          BY <3>1, <4>2, <4>3, <4>4, TypeJoin DEF RulesTyped
      <3>3. CASE ~Exists(p)
        BY <2>0, <2>9, <3>1, <3>3, TypeJoin DEF TablesTyped, RulesTyped, FinishFail
      <3> QED
        BY <3>2, <3>3
    <2>10. ASSUME NEW p \in Slots, NEW force \in BOOLEAN, DeclareBad(p, force) PROVE TypeOK'
      <3>1. events' \in [EventKinds -> Nat]
        BY <2>0, <2>10, HappensTyped DEF RestTyped, DeclareBad, EventKinds
      <3>2. RestTyped'
        BY <2>0, <2>10, <3>1 DEF RestTyped, DeclareBad, Revive, ruleVars, didVars, workVars
      <3>3. TablesTyped' /\ RulesTyped'
        BY <2>0, <2>10
        DEF TablesTyped, RulesTyped, DeclareBad, ReplicaTable, ReplicaStates, ruleVars
      <3> QED
        BY <3>2, <3>3, TypeJoin
    <2>11. ASSUME NEW p \in Slots, DeclareTemporary(p) PROVE TypeOK'
      <3>1. events' \in [EventKinds -> Nat]
        BY <2>0, <2>11, HappensTyped DEF RestTyped, DeclareTemporary, EventKinds
      <3>2. RestTyped'
        BY <2>0, <2>11, <3>1 DEF RestTyped, DeclareTemporary, Revive, ruleVars, didVars, workVars
      <3>3. TablesTyped' /\ RulesTyped'
        BY <2>0, <2>11
        DEF TablesTyped, RulesTyped, DeclareTemporary, ReplicaTable, ReplicaStates, ruleVars
      <3> QED
        BY <3>2, <3>3, TypeJoin
    <2>12. ASSUME NEW p \in Slots, ExpireTemporary(p) PROVE TypeOK'
      <3>1. RestTyped'
        BY <2>0, <2>12 DEF RestTyped, ExpireTemporary, BecomeAvailable, Revive, didVars, workVars
      <3>2. CASE BecomeAvailable(p)
        <4>1. lock' \in LockTable /\ locks_cnt' \in [Rules -> Counters] /\ state' \in [Rules -> RuleStates]
          BY <2>0, <3>2, BecomeAvailableStep
        <4>2. TablesTyped'
          BY <2>0, <2>12, <3>2, <4>1
          DEF TablesTyped, ExpireTemporary, BecomeAvailable, ReplicaTable, ReplicaStates
        <4> QED
          BY <3>1, <4>1, <4>2, TypeJoin DEF RulesTyped
      <3>3. CASE UNCHANGED <<state, locks_cnt, lock, replica>>
        BY <2>0, <2>12, <3>1, <3>3, TypeJoin DEF TablesTyped, RulesTyped, ExpireTemporary
      <3> QED
        BY <2>12, <3>2, <3>3 DEF ExpireTemporary
    <2>13. ASSUME NEW p \in Slots, NecroPick(p) PROVE TypeOK'
      BY <2>0, <2>13, TypeJoin
      DEF TablesTyped, RulesTyped, RestTyped, NecroPick, ruleVars, replicaVars, badVars, didVars, ghostVars
    <2>14. ASSUME NEW p \in Slots, ReaperMark(p) PROVE TypeOK'
      BY <2>0, <2>14, TypeJoin
      DEF TablesTyped, RulesTyped, RestTyped, ReaperMark, ReplicaTable, ReplicaStates, ruleVars,
          badVars, didVars, ghostVars
    <2>15. ASSUME NEW p \in Slots, ReaperDelete(p) PROVE TypeOK'
      <3>1. TablesTyped' /\ RulesTyped'
        BY <2>0, <2>15
        DEF TablesTyped, RulesTyped, ReaperDelete, ReplicaTable, ReplicaStates, CountTable, ruleVars
      <3>2. RestTyped'
        BY <2>0, <2>15 DEF RestTyped, ReaperDelete, CleanupAfterDeletion, ruleVars
      <3> QED
        BY <3>1, <3>2, TypeJoin
    <2>16. ASSUME NEW p \in Slots, ReaperFail(p) PROVE TypeOK'
      BY <2>0, <2>16, TypeJoin
      DEF TablesTyped, RulesTyped, RestTyped, ReaperFail, ruleVars, replicaVars, badVars, didVars
    <2>17. ASSUME NEW f \in Files, Attach(f) \/ Detach(f) PROVE TypeOK'
      <3>1. events' \in [EventKinds -> Nat]
        BY <2>0, <2>17, HappensTyped DEF RestTyped, Attach, Detach, EventKinds
      <3> QED
        BY <2>0, <2>17, <3>1, TypeJoin
        DEF TablesTyped, RulesTyped, RestTyped, Attach, Detach, ruleVars, replicaVars, badVars,
            workVars, ghostVars
    <2>18. CASE EvaluateAttach
      <3>1. RestTyped'
        BY <2>0, <2>18 DEF RestTyped, EvaluateAttach, Evaluated, badVars, workVars, ghostVars
      <3> QED
        BY <2>0, <2>18, <3>1, EvaluateAttachStep, TypeJoin
    <2>19. CASE EvaluateDetach
      <3>1. RestTyped'
        BY <2>0, <2>19 DEF RestTyped, EvaluateDetach, Evaluated, badVars, workVars
      <3> QED
        BY <2>0, <2>19, <3>1, EvaluateDetachStep, TypeJoin
    <2>20. CASE NecroDecide
      <3>1. necro' \in [stage : {"picked", "recover", "lost"}, slot : Slots]
        BY <2>0, <2>20, NecroBusy DEF NecroDecide
      <3> QED
        BY <2>0, <2>20, <3>1, TypeJoin
        DEF TablesTyped, RulesTyped, RestTyped, NecroDecide, ruleVars, replicaVars, badVars, didVars,
            ghostVars
    <2>21. CASE NecroRecover
      <3> DEFINE p == necro.slot
      <3>1. p \in Slots
        BY <2>0, <2>21, NecroBusy DEF NecroRecover
      <3>2. RestTyped'
        BY <2>0, <2>21, <3>1 DEF RestTyped, NecroRecover, Revive, badVars, didVars
      <3>3. CASE Exists(p)
        <4>1. MoveLocks(p, LockStates, "REPLICATING")
          BY <2>21, <3>3 DEF NecroRecover
        <4>2. lock' \in LockTable /\ locks_cnt' \in [Rules -> Counters]
          BY <2>0, <3>1, <4>1, MoveLocksStep DEF TablesTyped, RulesTyped, LockStates
        <4>3. TablesTyped'
          BY <2>0, <2>21, <3>1, <3>3, <4>2 DEF TablesTyped, NecroRecover, ReplicaTable, ReplicaStates
        <4>4. state' \in [Rules -> RuleStates]
          BY <2>0, <2>21, <3>3 DEF RulesTyped, NecroRecover, RuleStates
        <4> QED
          BY <3>2, <4>2, <4>3, <4>4, TypeJoin DEF RulesTyped
      <3>4. CASE ~Exists(p)
        BY <2>0, <2>21, <3>2, <3>4, TypeJoin DEF TablesTyped, RulesTyped, NecroRecover
      <3> QED
        BY <3>3, <3>4
    <2>22. CASE NecroLost
      <3> DEFINE p == necro.slot
      <3>1. p \in Slots /\ p[1] \in Files
        BY <2>0, <2>22, NecroBusy DEF NecroLost, Slots
      <3>2. RestTyped'
        BY <2>0, <2>22, <3>1 DEF RestTyped, NecroLost, Revive
      <3>3. CASE Exists(p)
        <4>1. TablesTyped'
          <5>1. lock' = [r \in Rules |-> [lock[r] EXCEPT ![p] = "NONE"]]
            BY <2>22, <3>3 DEF NecroLost
          <5>2. lock' \in LockTable
            BY <2>0, <5>1 DEF TablesTyped, LockTable, LockRow, MaybeLock
          <5>3. replica' \in ReplicaTable /\ lock_cnt' \in CountTable
            BY <2>0, <2>22, <3>3
            DEF TablesTyped, NecroLost, ReplicaTable, ReplicaStates, CountTable
          <5>4. tombstone' \in [Slots -> BOOLEAN] /\ request' \subseteq Slots
            BY <2>0, <2>22, <3>3 DEF TablesTyped, NecroLost
          <5> QED
            BY <5>2, <5>3, <5>4 DEF TablesTyped
        <4>2. locks_cnt' \in [Rules -> Counters]
          BY <2>0, <2>22, <3>3 DEF RulesTyped, NecroLost, Counters
        <4>3. \A s \in RuleStates : \A c : Settled(s, c) \in RuleStates
          BY DEF Settled, RuleStates
        <4>4. state' \in [Rules -> RuleStates]
          <5>1. state' = [r \in Rules |->
                  IF lock[r][p] # "NONE" THEN Settled(state[r], locks_cnt'[r]) ELSE state[r]]
            BY <2>22, <3>3 DEF NecroLost
          <5> QED
            BY <2>0, <4>3, <5>1 DEF RulesTyped
        <4> QED
          BY <3>2, <4>1, <4>2, <4>4, TypeJoin DEF RulesTyped
      <3>4. CASE ~Exists(p)
        BY <2>0, <2>22, <3>2, <3>4, TypeJoin DEF TablesTyped, RulesTyped, NecroLost, replicaVars
      <3> QED
        BY <3>3, <3>4
    <2>23. CASE UNCHANGED vars
      BY <2>0, <2>23, TypeJoin
      DEF vars, TablesTyped, RulesTyped, RestTyped, ruleVars, replicaVars, badVars, didVars, workVars,
          ghostVars
    <2> QED
      BY <2>1, <2>2, <2>3, <2>4, <2>5, <2>6, <2>7, <2>8, <2>9, <2>10, <2>11, <2>12, <2>13, <2>14,
         <2>15, <2>16, <2>17, <2>18, <2>19, <2>20, <2>21, <2>22, <2>23
      DEF Next, RuleStep, SlotStep, DenyRule
  <1> QED
    BY <1>1, <1>2, PTL DEF Spec

-----------------------------------------------------------------------------
(***************************************************************************)
(* Protection of locked replicas.  LockProtection is inductive relative to *)
(* TypeOK; the history variable revived only grows and reaping grows only  *)
(* in ReaperMark.                                                          *)
(***************************************************************************)
\* LockProtection in terms of Safe.
LEMMA ProtectionParts ==
  LockProtection <=>
    \A p \in Slots \ revived : /\ Safe(lock, replica, lock_cnt, p)
                               /\ p \in reaping => replica[p] = "BEING_DELETED"
  BY DEF LockProtection, Safe, Holders, HoldersIn

\* A step that owes nothing to the slots it revives and marks none for deletion
\* preserves the protection.
LEMMA ProtectionKept ==
  ASSUME LockProtection, revived \subseteq revived', reaping' \subseteq reaping,
         \A p \in Slots \ revived' : KeepsSafe(p)
  PROVE  LockProtection'
  <1> SUFFICES ASSUME NEW p \in Slots \ revived'
               PROVE  /\ Safe(lock', replica', lock_cnt', p)
                      /\ p \in reaping' => replica'[p] = "BEING_DELETED"
    BY DEF LockProtection, Safe, Holders, HoldersIn
  <1>1. /\ Safe(lock, replica, lock_cnt, p)
        /\ p \in reaping => replica[p] = "BEING_DELETED"
    BY ProtectionParts
  <1> QED
    BY <1>1 DEF KeepsSafe

\* A step that takes no lock, touches no lock_cnt, and writes only rows it
\* counts as revived when they were BEING_DELETED, owes nothing.
LEMMA RowWriteKeepsSafe ==
  ASSUME lock_cnt' = lock_cnt,
         \A p \in Slots : HoldersIn(lock', p) = HoldersIn(lock, p),
         NEW P, Revive(P),
         \A p \in Slots : IF p \in P THEN replica'[p] \notin {"ABSENT", "BEING_DELETED"}
                                     ELSE replica'[p] = replica[p]
  PROVE  revived \subseteq revived' /\ \A p \in Slots \ revived' : KeepsSafe(p)
  BY DEF KeepsSafe, Safe, Revive

\* A replica that a rule locks is never deleted by the reaper, however rules,
\* transfers, repairs, bad files and reapers interleave, unless its row was
\* rewritten while it was BEING_DELETED.
THEOREM LockedIsProtected == Spec => []LockProtection
  <1>1. Init => LockProtection
    <2> SUFFICES ASSUME Init PROVE LockProtection
      OBVIOUS
    <2>1. \A p \in Slots : HoldersIn(lock, p) = {}
      BY DEF Init, HoldersIn, NoLocks, NoLock
    <2>2. \A p \in Slots : lock_cnt[p] = 0 /\ p \notin reaping
      BY DEF Init
    <2> QED
      BY <2>1, <2>2, ProtectionParts, FS_EmptySet DEF Safe
  <1>2. TypeOK /\ LockProtection /\ [Next]_vars => LockProtection'
    <2> SUFFICES ASSUME TypeOK, LockProtection, [Next]_vars PROVE LockProtection'
      OBVIOUS
    <2>0. TablesTyped /\ RulesTyped /\ RestTyped
      BY TypeSplit
    <2>1. ASSUME NEW r \in Rules, NEW n \in 1..MaxCopies, AddRule(r, n)
          PROVE  LockProtection'
      <3>1. CASE Apply(r, n)
        BY <2>0, <2>1, <3>1, ApplyStep, ProtectionKept DEF AddRule, workVars, ghostVars
      <3>2. CASE UNCHANGED <<lock, replicaVars>>
        BY <2>1, <3>2, ProtectionKept DEF AddRule, KeepsSafe, replicaVars, workVars, ghostVars
      <3> QED
        BY <2>1, <3>1, <3>2 DEF AddRule
    <2>2. ASSUME NEW r \in Rules, ApproveRule(r) PROVE LockProtection'
      BY <2>2, ProtectionKept DEF ApproveRule, KeepsSafe, replicaVars, workVars, ghostVars
    <2>3. ASSUME NEW r \in Rules, InjectRule(r) PROVE LockProtection'
      <3>1. CASE Apply(r, copies[r])
        BY <2>0, <2>3, <3>1, ApplyStep, ProtectionKept DEF InjectRule
      <3>2. CASE UNCHANGED <<lock, replicaVars>>
        BY <2>3, <3>2, ProtectionKept DEF InjectRule, KeepsSafe, replicaVars
      <3> QED
        BY <2>3, <3>1, <3>2 DEF InjectRule
    <2>4. ASSUME NEW r \in Rules, DeleteRule(r) PROVE LockProtection'
      BY <2>0, <2>4, DeleteRuleStep, ProtectionKept DEF DeleteRule, workVars, ghostVars
    <2>5. ASSUME NEW r \in Rules, InjectFetch(r) \/ RepairFetch(r) PROVE LockProtection'
      BY <2>5, ProtectionKept DEF InjectFetch, RepairFetch, KeepsSafe, ruleVars, replicaVars, ghostVars
    <2>6. ASSUME NEW r \in Rules, RepairRule(r) PROVE LockProtection'
      <3>1. CASE RepairLocks(r)
        BY <2>0, <2>6, <3>1, RepairLocksStep, ProtectionKept DEF RepairRule
      <3>2. CASE UNCHANGED <<lock, replicaVars>>
        BY <2>6, <3>2, ProtectionKept DEF RepairRule, KeepsSafe, replicaVars
      <3> QED
        BY <2>6, <3>1, <3>2 DEF RepairRule, RepairSuspends, RepairAborts
    <2>7. ASSUME NEW r \in Rules, NEW s \in {"SUSPENDED", "STUCK"}, NEW cancel \in BOOLEAN,
                 UpdateRule(r, s, cancel)
          PROVE  LockProtection'
      <3> DEFINE P == IF cancel THEN InState(lock[r], "REPLICATING") ELSE {}
      <3>1. \A p \in Slots : HoldersIn(lock', p) = HoldersIn(lock, p)
        <4>1. \A q \in Rules, p \in Slots : lock'[q][p] = "NONE" <=> lock[q][p] = "NONE"
          BY <2>7 DEF UpdateRule
        <4> QED
          BY <4>1 DEF HoldersIn
      <3>2. /\ lock_cnt' = lock_cnt /\ Revive(P) /\ reaping' = reaping
            /\ \A p \in Slots : replica'[p] = IF p \in P THEN "UNAVAILABLE" ELSE replica[p]
        BY <2>7 DEF UpdateRule, workVars
      <3>3. revived \subseteq revived' /\ \A p \in Slots \ revived' : KeepsSafe(p)
        BY <3>1, <3>2, RowWriteKeepsSafe
      <3> QED
        BY <3>2, <3>3, ProtectionKept
    <2>8. ASSUME NEW p \in Slots, FinishOk(p) PROVE LockProtection'
      <3>1. CASE Exists(p) /\ BecomeAvailable(p)
        <4>1. \A q \in Slots : HoldersIn(lock', q) = HoldersIn(lock, q)
          BY <2>0, <3>1, BecomeAvailableStep
        <4>2. /\ lock_cnt' = lock_cnt /\ Revive({p}) /\ reaping' = reaping
              /\ \A q \in Slots : replica'[q] = IF q = p THEN "AVAILABLE" ELSE replica[q]
          BY <2>0, <2>8, <3>1 DEF FinishOk, BecomeAvailable, workVars, TablesTyped, ReplicaTable
        <4>3. revived \subseteq revived' /\ \A q \in Slots \ revived' : KeepsSafe(q)
          BY <4>1, <4>2, RowWriteKeepsSafe
        <4> QED
          BY <4>2, <4>3, ProtectionKept
      <3>2. CASE ~Exists(p)
        <4>1. \A q \in Slots : KeepsSafe(q)
          BY <2>0, <2>8, <3>2 DEF FinishOk, Exists, KeepsSafe, Safe, TablesTyped, ReplicaTable
        <4> QED
          BY <2>8, <3>2, <4>1, ProtectionKept DEF FinishOk, workVars
      <3> QED
        BY <2>8, <3>1, <3>2 DEF FinishOk
    <2>9. ASSUME NEW p \in Slots, FinishFail(p) PROVE LockProtection'
      <3>1. CASE Exists(p)
        <4>1. MoveLocks(p, {"OK", "REPLICATING"}, "STUCK")
          BY <2>9, <3>1 DEF FinishFail
        <4>2. \A q \in Slots : HoldersIn(lock', q) = HoldersIn(lock, q)
          BY <2>0, <4>1, MoveLocksStep DEF TablesTyped, RulesTyped, LockStates
        <4>3. /\ lock_cnt' = lock_cnt /\ Revive({p}) /\ reaping' = reaping
              /\ \A q \in Slots : replica'[q] = IF q = p THEN "UNAVAILABLE" ELSE replica[q]
          BY <2>0, <2>9, <3>1 DEF FinishFail, workVars, TablesTyped, ReplicaTable
        <4>4. revived \subseteq revived' /\ \A q \in Slots \ revived' : KeepsSafe(q)
          BY <4>2, <4>3, RowWriteKeepsSafe
        <4> QED
          BY <4>3, <4>4, ProtectionKept
      <3>2. CASE ~Exists(p)
        BY <2>9, <3>2, ProtectionKept DEF FinishFail, KeepsSafe, workVars
      <3> QED
        BY <3>1, <3>2
    <2>10. ASSUME NEW p \in Slots,
                  (\E force \in BOOLEAN : DeclareBad(p, force)) \/ DeclareTemporary(p)
           PROVE  LockProtection'
      <3>1. /\ lock_cnt' = lock_cnt /\ lock' = lock /\ Revive({p}) /\ reaping' = reaping
            /\ \A q \in Slots : IF q = p THEN replica'[q] \in {"BAD", "TEMPORARY_UNAVAILABLE"}
                                         ELSE replica'[q] = replica[q]
        BY <2>0, <2>10 DEF DeclareBad, DeclareTemporary, ruleVars, workVars, TablesTyped, ReplicaTable
      <3>2. revived \subseteq revived' /\ \A q \in Slots \ revived' : KeepsSafe(q)
        BY <3>1, RowWriteKeepsSafe
      <3> QED
        BY <3>1, <3>2, ProtectionKept
    <2>11. ASSUME NEW p \in Slots, ExpireTemporary(p) PROVE LockProtection'
      <3>1. CASE BecomeAvailable(p)
        <4>1. \A q \in Slots : HoldersIn(lock', q) = HoldersIn(lock, q)
          BY <2>0, <3>1, BecomeAvailableStep
        <4>2. /\ lock_cnt' = lock_cnt /\ Revive({p}) /\ reaping' = reaping
              /\ \A q \in Slots : replica'[q] = IF q = p THEN "AVAILABLE" ELSE replica[q]
          BY <2>0, <2>11, <3>1 DEF ExpireTemporary, BecomeAvailable, workVars, TablesTyped, ReplicaTable
        <4>3. revived \subseteq revived' /\ \A q \in Slots \ revived' : KeepsSafe(q)
          BY <4>1, <4>2, RowWriteKeepsSafe
        <4> QED
          BY <4>2, <4>3, ProtectionKept
      <3>2. CASE UNCHANGED <<lock, replica, revived>>
        BY <2>11, <3>2, ProtectionKept DEF ExpireTemporary, KeepsSafe, workVars
      <3> QED
        BY <2>11, <3>1, <3>2 DEF ExpireTemporary
    <2>12. ASSUME NEW p \in Slots, NecroPick(p) PROVE LockProtection'
      BY <2>12, ProtectionKept DEF NecroPick, KeepsSafe, ruleVars, replicaVars, ghostVars
    <2>13. ASSUME NEW p \in Slots, ReaperMark(p) PROVE LockProtection'
      <3>1. /\ lock' = lock /\ lock_cnt' = lock_cnt /\ revived' = revived
            /\ lock_cnt[p] = 0 /\ reaping' = reaping \cup {p}
            /\ \A q \in Slots : replica'[q] = IF q = p THEN "BEING_DELETED" ELSE replica[q]
        BY <2>0, <2>13 DEF ReaperMark, ruleVars, ghostVars, TablesTyped, ReplicaTable
      <3>2. p \notin revived => HoldersIn(lock, p) = {}
        <4>1. p \notin revived => Cardinality(HoldersIn(lock, p)) <= 0
          BY <3>1, ProtectionParts DEF Safe
        <4>2. /\ HoldersIn(lock, p) \in SUBSET Rules
              /\ IsFiniteSet(HoldersIn(lock, p)) /\ Cardinality(HoldersIn(lock, p)) \in Nat
          BY RuleSetsFinite DEF HoldersIn
        <4> QED
          BY <4>1, <4>2, FS_EmptySet
      <3>3. \A q \in Slots \ revived : /\ Safe(lock, replica, lock_cnt, q)
                                       /\ q \in reaping => replica[q] = "BEING_DELETED"
        BY ProtectionParts
      <3>4. \A q \in Slots \ revived' : /\ Safe(lock', replica', lock_cnt', q)
                                        /\ q \in reaping' => replica'[q] = "BEING_DELETED"
        BY <3>1, <3>2, <3>3 DEF Safe
      <3> QED
        BY <3>4 DEF LockProtection, Safe, Holders, HoldersIn
    <2>14. ASSUME NEW p \in Slots, ReaperDelete(p) PROVE LockProtection'
      <3>1. /\ lock' = lock /\ revived' = revived /\ p \in reaping /\ reaping' = reaping \ {p}
            /\ \A q \in Slots : replica'[q] = IF q = p THEN "ABSENT" ELSE replica[q]
            /\ \A q \in Slots : lock_cnt'[q] = IF q = p THEN 0 ELSE lock_cnt[q]
        BY <2>0, <2>14 DEF ReaperDelete, ruleVars, TablesTyped, ReplicaTable, CountTable
      <3>2. \A q \in Slots \ revived : /\ Safe(lock, replica, lock_cnt, q)
                                       /\ q \in reaping => replica[q] = "BEING_DELETED"
        BY ProtectionParts
      <3>3. p \notin revived => HoldersIn(lock, p) = {}
        BY <3>1, <3>2 DEF Safe
      <3>4. \A q \in Slots \ revived' : /\ Safe(lock', replica', lock_cnt', q)
                                        /\ q \in reaping' => replica'[q] = "BEING_DELETED"
        BY <3>1, <3>2, <3>3, FS_EmptySet DEF Safe
      <3> QED
        BY <3>4 DEF LockProtection, Safe, Holders, HoldersIn
    <2>15. ASSUME NEW p \in Slots, ReaperFail(p) PROVE LockProtection'
      BY <2>15, ProtectionKept DEF ReaperFail, KeepsSafe, ruleVars, replicaVars
    <2>16. ASSUME NEW f \in Files, Attach(f) \/ Detach(f) PROVE LockProtection'
      BY <2>16, ProtectionKept DEF Attach, Detach, KeepsSafe, ruleVars, replicaVars, workVars, ghostVars
    <2>17. CASE EvaluateAttach
      BY <2>0, <2>17, EvaluateAttachStep, ProtectionKept DEF EvaluateAttach, workVars, ghostVars
    <2>18. CASE EvaluateDetach
      BY <2>0, <2>18, EvaluateDetachStep, ProtectionKept DEF EvaluateDetach, workVars
    <2>19. CASE NecroDecide
      BY <2>19, ProtectionKept DEF NecroDecide, KeepsSafe, ruleVars, replicaVars, ghostVars
    <2>20. CASE NecroRecover
      <3> DEFINE p == necro.slot
      <3>1. p \in Slots
        BY <2>0, <2>20, NecroBusy DEF NecroRecover
      <3>2. CASE Exists(p)
        <4>1. MoveLocks(p, LockStates, "REPLICATING")
          BY <2>20, <3>2 DEF NecroRecover
        <4>2. \A q \in Slots : HoldersIn(lock', q) = HoldersIn(lock, q)
          BY <2>0, <3>1, <4>1, MoveLocksStep DEF TablesTyped, RulesTyped, LockStates
        <4>3. /\ lock_cnt' = lock_cnt /\ Revive({p}) /\ reaping' = reaping
              /\ \A q \in Slots : IF q = p THEN replica'[q] \in {"COPYING", "UNAVAILABLE"}
                                           ELSE replica'[q] = replica[q]
          BY <2>0, <2>20, <3>1, <3>2 DEF NecroRecover, TablesTyped, ReplicaTable
        <4>4. revived \subseteq revived' /\ \A q \in Slots \ revived' : KeepsSafe(q)
          BY <4>2, <4>3, RowWriteKeepsSafe
        <4> QED
          BY <4>3, <4>4, ProtectionKept
      <3>3. CASE ~Exists(p)
        BY <2>20, <3>3, ProtectionKept DEF NecroRecover, KeepsSafe
      <3> QED
        BY <3>2, <3>3
    <2>21. CASE NecroLost
      <3> DEFINE p == necro.slot
      <3>1. p \in Slots
        BY <2>0, <2>21, NecroBusy DEF NecroLost
      <3>2. CASE Exists(p)
        <4>1. /\ Revive({p}) /\ reaping' = reaping
              /\ \A r \in Rules, q \in Slots : lock'[r][q] = IF q = p THEN "NONE" ELSE lock[r][q]
              /\ \A q \in Slots : replica'[q] = IF q = p THEN "UNAVAILABLE" ELSE replica[q]
              /\ \A q \in Slots : lock_cnt'[q] = IF q = p THEN 0 ELSE lock_cnt[q]
          BY <2>0, <2>21, <3>1, <3>2
          DEF NecroLost, TablesTyped, LockTable, LockRow, ReplicaTable, CountTable
        <4>2. \A q \in Slots : HoldersIn(lock', q) = IF q = p THEN {} ELSE HoldersIn(lock, q)
          BY <4>1 DEF HoldersIn
        <4>3. revived \subseteq revived' /\ \A q \in Slots \ revived' : KeepsSafe(q)
          BY <4>1, <4>2, FS_EmptySet DEF KeepsSafe, Safe, Revive
        <4> QED
          BY <4>1, <4>3, ProtectionKept
      <3>3. CASE ~Exists(p)
        BY <2>21, <3>3, ProtectionKept DEF NecroLost, KeepsSafe, replicaVars
      <3> QED
        BY <3>2, <3>3
    <2>22. CASE UNCHANGED vars
      BY <2>22, ProtectionKept DEF vars, KeepsSafe, ruleVars, replicaVars, workVars, ghostVars
    <2> QED
      BY <2>1, <2>2, <2>3, <2>4, <2>5, <2>6, <2>7, <2>8, <2>9, <2>10, <2>11, <2>12, <2>13, <2>14,
         <2>15, <2>16, <2>17, <2>18, <2>19, <2>20, <2>21, <2>22
      DEF Next, RuleStep, SlotStep, DenyRule
  <1> QED
    BY <1>1, <1>2, TypeCorrect, PTL DEF Spec

-----------------------------------------------------------------------------
(***************************************************************************)
(* Suspended rules.                                                        *)
(***************************************************************************)
\* No evaluation, transfer outcome, bad replica or update of another rule takes
\* a rule out of SUSPENDED; only the user and an injector or a repairer with a stale batch do.
THEOREM SuspendedKept == Spec => SuspendedIsKept
  <1> DEFINE Kept == \A r \in Rules : state[r] = "SUSPENDED" /\ state'[r] \notin {"SUSPENDED", "DELETED"} =>
                       r \in injecting \cup repairing \/ \E cancel \in BOOLEAN : UpdateRule(r, "STUCK", cancel)
  <1>1. TypeOK /\ [Next]_vars => [Kept]_vars
    <2> SUFFICES ASSUME TypeOK, Next, NEW r \in Rules, state[r] = "SUSPENDED",
                        state'[r] \notin {"SUSPENDED", "DELETED"}
                 PROVE  r \in injecting \cup repairing \/ \E cancel \in BOOLEAN : UpdateRule(r, "STUCK", cancel)
      OBVIOUS
    <2>0. state \in [Rules -> RuleStates]
      BY DEF TypeOK
    <2>1. ASSUME NEW q \in Rules, NEW n \in 1..MaxCopies, AddRule(q, n) PROVE FALSE
      BY <2>0, <2>1 DEF AddRule, Apply
    <2>2. ASSUME NEW q \in Rules, ApproveRule(q) \/ DeleteRule(q) PROVE FALSE
      BY <2>0, <2>2 DEF ApproveRule, DeleteRule
    <2>3. ASSUME NEW q \in Rules, InjectFetch(q) \/ RepairFetch(q) PROVE FALSE
      BY <2>3 DEF InjectFetch, RepairFetch, ruleVars
    <2>4. ASSUME NEW q \in Rules, RepairRule(q) PROVE r \in repairing
      <3>1. CASE q = r
        BY <2>4, <3>1 DEF RepairRule
      <3>2. CASE q # r
        <4>1. ASSUME NEW L, NEW S, NEW C, NEW K, NEW Q, NEW c, NEW fate, NEW m,
                     RepairStuck(q, L, S, C, K, Q, c, fate, m)
              PROVE  \E s : state' = [state EXCEPT ![q] = s]
          BY <4>1 DEF RepairStuck
        <4>2. RepairLocks(q) => \E s : state' = [state EXCEPT ![q] = s]
          BY <4>1, Zenon DEF RepairLocks
        <4>3. state' = state \/ \E s : state' = [state EXCEPT ![q] = s]
          BY <2>4, <4>2 DEF RepairRule, RepairSuspends, RepairAborts
        <4> QED
          BY <2>0, <3>2, <4>3
      <3> QED
        BY <3>1, <3>2
    <2>5. ASSUME NEW q \in Rules, NEW s \in {"SUSPENDED", "STUCK"}, NEW cancel \in BOOLEAN,
                 UpdateRule(q, s, cancel)
          PROVE  UpdateRule(r, "STUCK", cancel)
      BY <2>5 DEF UpdateRule
    <2>6. ASSUME NEW p \in Slots, FinishOk(p) \/ FinishFail(p) \/ ExpireTemporary(p) PROVE FALSE
      BY <2>6 DEF FinishOk, FinishFail, ExpireTemporary, BecomeAvailable
    <2>7. ASSUME NEW p \in Slots,
                 \/ \E force \in BOOLEAN : DeclareBad(p, force)
                 \/ DeclareTemporary(p) \/ NecroPick(p)
                 \/ ReaperMark(p) \/ ReaperDelete(p) \/ ReaperFail(p)
          PROVE  FALSE
      BY <2>7 DEF DeclareBad, DeclareTemporary, NecroPick, ReaperMark, ReaperDelete, ReaperFail, ruleVars
    <2>8. ASSUME NEW f \in Files, Attach(f) \/ Detach(f) PROVE FALSE
      BY <2>8 DEF Attach, Detach, ruleVars
    <2>9. CASE EvaluateAttach
      BY <2>9 DEF EvaluateAttach
    <2>10. CASE EvaluateDetach
      BY <2>10 DEF EvaluateDetach, Settled
    <2>11. CASE NecroDecide \/ NecroRecover \/ NecroLost
      BY <2>11 DEF NecroDecide, NecroRecover, NecroLost, Settled, ruleVars
    <2>12. ASSUME NEW q \in Rules, InjectRule(q) PROVE r \in injecting
      <3>1. CASE q = r
        BY <2>12, <3>1 DEF InjectRule
      <3>2. CASE q # r
        BY <2>0, <2>12, <3>2 DEF InjectRule, Apply
      <3> QED
        BY <3>1, <3>2
    <2> QED
      BY <2>1, <2>2, <2>3, <2>4, <2>5, <2>6, <2>7, <2>8, <2>9, <2>10, <2>11, <2>12
      DEF Next, RuleStep, SlotStep, DenyRule
  <1> QED
    BY <1>1, TypeCorrect, PTL DEF Spec, SuspendedIsKept

-----------------------------------------------------------------------------
(***************************************************************************)
(* What the RSE selection and the repair hand to the tables.               *)
(***************************************************************************)
\* A row of new locks is placed on files of F and in the states that
\* __create_lock_and_replica gives them on replica states S.
Placed(m, F, S) ==
  \A p \in Slots :
    /\ m[p] # "NONE" => p[1] \in F
    /\ m[p] = "OK" => S[p] \in Readable
    /\ m[p] = "REPLICATING" => S[p] \in {"ABSENT", "UNAVAILABLE", "COPYING", "BAD"}

\* The locks that LocksOn creates are placed on the files of its targets.
LEMMA LocksOnPlaced ==
  ASSUME NEW T, NEW F, NEW S \in ReplicaTable, NEW ready,
         \A p \in Slots : p \in T => p[1] \in F /\ S[p] # "BEING_DELETED"
  PROVE  Placed(LocksOn(T, S, ready), F, S)
  <1>1. \A s \in ReplicaStates \ {"BEING_DELETED"} : \A b :
          /\ LockAt(s, b) = "OK" => s \in Readable
          /\ LockAt(s, b) = "REPLICATING" => s \in {"ABSENT", "UNAVAILABLE", "COPYING", "BAD"}
    BY DEF LockAt, ReplicaStates, Readable
  <1>2. \A p \in Slots : S[p] \in ReplicaStates
    BY DEF ReplicaTable
  <1> QED
    BY <1>1, <1>2 DEF LocksOn, Placed

\* Every outcome of the RSE selection is.
LEMMA ChoicesPlaced ==
  ASSUME NEW r, NEW n, NEW F, NEW l, NEW S \in ReplicaTable, NEW m \in Choices(r, n, F, l, S)
  PROVE  Placed(m, F, S)
  <1>1. PICK T, ready : /\ m = LocksOn(T, S, ready)
                        /\ \A p \in T : S[p] # "BEING_DELETED"
                        /\ \E draw : T = Targets(n, F, l, draw)
    BY DEF Choices
  <1>2. \A p \in T : p[1] \in F
    BY <1>1 DEF Targets, SlotsOf
  <1> QED
    BY <1>1, <1>2, LocksOnPlaced

\* So is the empty row.
LEMMA NoLockPlaced == \A F, S : Placed(NoLock, F, S)
  BY DEF Placed, NoLock

\* So is every rule's part of a joint assignment.
LEMMA AssignmentsPlaced ==
  ASSUME replica \in ReplicaTable, NEW R, NEW F, NEW new \in Assignments(R, F), NEW r \in Rules
  PROVE  Placed(new[r], F, replica)
  <1>1. \/ new[r] \in Choices(r, copies[r], F, lock[r], replica)
        \/ new[r] = NoLock
    BY DEF Assignments
  <1> QED
    BY <1>1, ChoicesPlaced, NoLockPlaced

\* The locks of one rule alone.
LEMMA OneRulePlaced ==
  ASSUME NEW r \in Rules, NEW m, NEW F, NEW S, Placed(m, F, S), NEW q \in Rules
  PROVE  Placed([NoLocks EXCEPT ![r] = m][q], F, S)
  <1>1. [NoLocks EXCEPT ![r] = m][q] = IF q = r THEN m ELSE NoLock
    BY DEF NoLocks
  <1> QED
    BY <1>1, NoLockPlaced

\* The choices of a repair of rule r: the locks m1 granted on missing files,
\* then the fate of each STUCK lock, the RSEs to which locks move and the locks
\* m2 made there.  L and S: locks and replica states between the two.
RepairPlan(r, m1, L, S, fate, to, m2) ==
  LET new   == [NoLocks EXCEPT ![r] = m1]
      stuck == {p \in SlotsOf(content) : L[r][p] = "STUCK"}
      good  == IF Hard(r) THEN {p \in SlotsOf(content) : L[r][p] \in {"OK", "REPLICATING"}} ELSE {}
  IN  /\ m1 \in Choices(r, copies[r], Missing(r), lock[r], replica)
      /\ L = WithLocks(lock, new) /\ S = ReplicaAfter(replica, new)
      /\ fate \in [stuck -> Fates]
      /\ to \in Moves(L[r], S, {p \in stuck : fate[p] = "move"})
      /\ \E ready : m2 = LocksOn({<<p[1], to[p]>> : p \in DOMAIN to}, S, ready)
      /\ Feasible(r, S, good, fate, to, m2)
      /\ RepairStuck(r, L, S, LockCntAfter(lock_cnt, new), TombstoneAfter(tombstone, new),
                     RequestAfter(request, replica, new), AddAll(Recount(lock[r]), m1), fate, m2)

\* Every repair that reaches the locks follows such a plan.
LEMMA RepairHasPlan ==
  ASSUME NEW r \in Rules, RepairLocks(r)
  PROVE  \E m1, L, S, fate, to, m2 : RepairPlan(r, m1, L, S, fate, to, m2)
  <1>1. PICK m1 \in Choices(r, copies[r], Missing(r), lock[r], replica) :
          LET new   == [NoLocks EXCEPT ![r] = m1]
              L     == WithLocks(lock, new)
              S     == ReplicaAfter(replica, new)
              stuck == {p \in SlotsOf(content) : L[r][p] = "STUCK"}
              good  == IF Hard(r) THEN {p \in SlotsOf(content) : L[r][p] \in {"OK", "REPLICATING"}} ELSE {}
          IN  \E fate \in [stuck -> Fates] : \E to \in Moves(L[r], S, {p \in stuck : fate[p] = "move"}) :
                LET dest == {<<p[1], to[p]>> : p \in DOMAIN to}
                IN  \E m2 \in {LocksOn(dest, S, ready) : ready \in SUBSET dest} :
                      /\ Feasible(r, S, good, fate, to, m2)
                      /\ RepairStuck(r, L, S, LockCntAfter(lock_cnt, new), TombstoneAfter(tombstone, new),
                                     RequestAfter(request, replica, new), AddAll(Recount(lock[r]), m1),
                                     fate, m2)
    BY DEF RepairLocks
  <1> DEFINE new   == [NoLocks EXCEPT ![r] = m1]
             L     == WithLocks(lock, new)
             S     == ReplicaAfter(replica, new)
             stuck == {p \in SlotsOf(content) : L[r][p] = "STUCK"}
             good  == IF Hard(r) THEN {p \in SlotsOf(content) : L[r][p] \in {"OK", "REPLICATING"}} ELSE {}
  <1>2. PICK fate \in [stuck -> Fates] : \E to \in Moves(L[r], S, {p \in stuck : fate[p] = "move"}) :
          \E m2 : \E ready :
            /\ m2 = LocksOn({<<p[1], to[p]>> : p \in DOMAIN to}, S, ready)
            /\ Feasible(r, S, good, fate, to, m2)
            /\ RepairStuck(r, L, S, LockCntAfter(lock_cnt, new), TombstoneAfter(tombstone, new),
                           RequestAfter(request, replica, new), AddAll(Recount(lock[r]), m1), fate, m2)
    BY <1>1, Zenon
  <1>3. PICK to, m2 :
            /\ to \in Moves(L[r], S, {p \in stuck : fate[p] = "move"})
            /\ \E ready : m2 = LocksOn({<<p[1], to[p]>> : p \in DOMAIN to}, S, ready)
            /\ Feasible(r, S, good, fate, to, m2)
            /\ RepairStuck(r, L, S, LockCntAfter(lock_cnt, new), TombstoneAfter(tombstone, new),
                           RequestAfter(request, replica, new), AddAll(Recount(lock[r]), m1), fate, m2)
    BY <1>2, Zenon
  <1>4. RepairPlan(r, m1, L, S, fate, to, m2)
    BY <1>2, <1>3, Zenon DEF RepairPlan
  <1> QED
    BY <1>4, Zenon

\* What a plan says slot by slot: its two grants fit and are placed on files of
\* the dataset, and the fates are those that the replica states allow.
PlanFacts(r, m1, L, S, fate, to, m2) ==
  /\ L \in LockTable /\ S \in ReplicaTable
  /\ Fits(m1, lock[r], replica) /\ Placed(m1, content, replica)
  /\ Fits(m2, L[r], S) /\ Placed(m2, content, S)
  /\ DOMAIN fate = {p \in SlotsOf(content) : L[r][p] = "STUCK"}
  /\ DOMAIN fate \subseteq Slots
  /\ DOMAIN to = {p \in DOMAIN fate : fate[p] = "move"}
  /\ \A p \in DOMAIN fate :
       /\ fate[p] \in Fates
       /\ fate[p] = "ok" => S[p] \in Readable
       /\ fate[p] \in {"retry", "move"} => S[p] \notin {"ABSENT", "BEING_DELETED"}
  /\ \A q \in Slots : m2[q] # "NONE" <=> \E p \in DOMAIN to : q = <<p[1], to[p]>>

\* A plan says that.
LEMMA PlanParts ==
  ASSUME TablesTyped, RulesTyped, content \subseteq Files, NEW r \in Rules,
         NEW m1, NEW L, NEW S, NEW fate, NEW to, NEW m2, RepairPlan(r, m1, L, S, fate, to, m2)
  PROVE  PlanFacts(r, m1, L, S, fate, to, m2)
  <1> DEFINE new   == [NoLocks EXCEPT ![r] = m1]
             stuck == {p \in SlotsOf(content) : L[r][p] = "STUCK"}
             dest  == {<<p[1], to[p]>> : p \in DOMAIN to}
  <1>1. Fits(m1, lock[r], replica)
    BY ChoicesFit DEF RepairPlan
  <1>2. Placed(m1, content, replica)
    <2>1. Placed(m1, Missing(r), replica)
      BY ChoicesPlaced DEF RepairPlan, TablesTyped
    <2>2. Missing(r) \subseteq content
      BY DEF Missing
    <2> QED
      BY <2>1, <2>2 DEF Placed
  <1>3. new \in LockTable /\ \A q \in Rules : Fits(new[q], lock[q], replica)
    BY <1>1, OneRuleFits DEF TablesTyped
  <1>4. L \in LockTable /\ S \in ReplicaTable
    <2>1. L = WithLocks(lock, new) /\ S = ReplicaAfter(replica, new)
      BY DEF RepairPlan
    <2> HIDE DEF new
    <2> QED
      BY <1>3, <2>1, GrantKeepsSafe DEF TablesTyped
  <1>5. /\ DOMAIN fate = stuck /\ stuck \subseteq Slots
        /\ \A p \in stuck : fate[p] \in Fates
    BY DEF RepairPlan, SlotsOf
  <1>6. \A p \in stuck :
              /\ fate[p] = "ok" => S[p] \in Readable
              /\ fate[p] \in {"retry", "move"} => S[p] \notin {"ABSENT", "BEING_DELETED"}
    BY <1>5 DEF RepairPlan, Feasible
  <1>7. /\ DOMAIN to = {p \in stuck : fate[p] = "move"}
        /\ \A q \in dest : L[r][q] = "NONE" /\ S[q] # "BEING_DELETED" /\ q[1] \in content
    <2>1. to \in Moves(L[r], S, {p \in stuck : fate[p] = "move"})
      BY DEF RepairPlan
    <2>2. \A p \in stuck : p[1] \in content
      BY DEF SlotsOf
    <2>3. /\ DOMAIN to = {p \in stuck : fate[p] = "move"}
          /\ \A p \in DOMAIN to : L[r][<<p[1], to[p]>>] = "NONE" /\ S[<<p[1], to[p]>>] # "BEING_DELETED"
      BY <2>1 DEF Moves
    <2>4. ASSUME NEW q \in dest PROVE L[r][q] = "NONE" /\ S[q] # "BEING_DELETED" /\ q[1] \in content
      <3>1. PICK p \in DOMAIN to : q = <<p[1], to[p]>>
        OBVIOUS
      <3> QED
        BY <2>2, <2>3, <3>1
    <2> QED
      BY <2>3, <2>4
  <1>8. PICK ready : m2 = LocksOn(dest, S, ready)
    BY DEF RepairPlan
  <1>9. Fits(m2, L[r], S)
    BY <1>7, <1>8, LocksOnFits
  <1>10. Placed(m2, content, S)
    BY <1>4, <1>7, <1>8, LocksOnPlaced
  <1>11. \A q \in Slots : m2[q] # "NONE" <=> q \in dest
    <2>1. \A s, b : LockAt(s, b) # "NONE"
      BY DEF LockAt
    <2> QED
      BY <1>8, <2>1 DEF LocksOn
  <1> QED
    BY <1>1, <1>2, <1>4, <1>5, <1>6, <1>7, <1>9, <1>10, <1>11 DEF PlanFacts
-----------------------------------------------------------------------------
(***************************************************************************)
(* What stands behind a lock.  HasRequest and OkStored are inductive only  *)
(* together with what the replica states mean, because a new lock takes    *)
(* its state from the row: a COPYING row has a request or is declared bad, *)
(* a readable one is stored.                                               *)
(***************************************************************************)
\* The part of the invariant about slot p, for locks L, replica states S,
\* requests Q, bad replicas B, stored files T and slots K made readable by minos.
Backed(L, S, Q, B, T, K, p) ==
  /\ S[p] = "COPYING" => p \in Q \cup B
  /\ S[p] = "BAD" => p \in B
  /\ \A r \in Rules : L[r][p] = "REPLICATING" => p \in Q \cup B
  /\ p \notin K => /\ S[p] \in Readable => p \in T
                   /\ \A r \in Rules : L[r][p] = "OK" => p \in T \cup B

Backing == \A p \in Slots \ revived : Backed(lock, replica, request, bad, stored, faked, p)

StaysBacked(p) ==
  Backed(lock, replica, request, bad, stored, faked, p) =>
    Backed(lock', replica', request', bad', stored', faked', p)

\* The invariant implies both properties.
LEMMA BackingSuffices == Backing => HasRequest /\ OkStored
  BY DEF Backing, Backed, HasRequest, OkStored

\* A step keeps the invariant if it keeps it slot by slot.
LEMMA BackingKept ==
  ASSUME Backing, revived \subseteq revived', \A p \in Slots \ revived' : StaysBacked(p)
  PROVE  Backing'
  BY DEF Backing, StaysBacked, Backed

\* A slot whose lock and row stay, and that loses no request, no file and no
\* declaration, stays backed.
LEMMA Untouched ==
  ASSUME NEW p \in Slots,
         \A r \in Rules : lock'[r][p] = lock[r][p],
         replica'[p] = replica[p],
         p \in request => p \in request',
         p \in bad => p \in bad',
         p \in stored => p \in stored',
         faked \subseteq faked'
  PROVE  StaysBacked(p)
  BY DEF StaysBacked, Backed

\* Granting locks that fit and are placed keeps a slot backed.
LEMMA GrantBacked ==
  ASSUME NEW L \in LockTable, NEW S \in ReplicaTable, NEW Q, NEW B, NEW T, NEW K,
         NEW new \in LockTable, NEW F,
         \A r \in Rules : Fits(new[r], L[r], S) /\ Placed(new[r], F, S),
         NEW p \in Slots, Backed(L, S, Q, B, T, K, p)
  PROVE  Backed(WithLocks(L, new), ReplicaAfter(S, new), RequestAfter(Q, S, new), B, T, K, p)
  <1> DEFINE L2 == WithLocks(L, new)
             S2 == ReplicaAfter(S, new)
             Q2 == RequestAfter(Q, S, new)
  <1>1. \A r \in Rules : /\ new[r][p] = "OK" => S[p] \in Readable
                         /\ new[r][p] = "REPLICATING" => S[p] \in {"ABSENT", "UNAVAILABLE", "COPYING", "BAD"}
    BY DEF Placed
  <1>2. Q \subseteq Q2
    BY DEF RequestAfter
  <1>3. Replicating(new, p) => p \in Q2 \cup B
    <2>1. Replicating(new, p) => S[p] \in {"ABSENT", "UNAVAILABLE", "COPYING", "BAD"}
      BY <1>1 DEF Replicating
    <2>2. Replicating(new, p) /\ S[p] \in {"ABSENT", "UNAVAILABLE"} => p \in Q2
      BY DEF RequestAfter
    <2>3. S[p] \in {"COPYING", "BAD"} => p \in Q \cup B
      BY DEF Backed
    <2> QED
      BY <1>2, <2>1, <2>2, <2>3
  <1>4. S2[p] = IF Replicating(new, p) THEN "COPYING"
                ELSE IF Granted(new, p) # {} /\ S[p] = "ABSENT" THEN "UNAVAILABLE" ELSE S[p]
    BY DEF ReplicaAfter
  <1>5. \A r \in Rules : L2[r][p] = IF new[r][p] # "NONE" THEN new[r][p] ELSE L[r][p]
    BY DEF WithLocks
  <1>6. \A r \in Rules : L2[r][p] = "REPLICATING" => p \in Q2 \cup B
    BY <1>2, <1>3, <1>5 DEF Backed, Replicating
  <1>7. p \notin K => \A r \in Rules : L2[r][p] = "OK" => p \in T \cup B
    BY <1>1, <1>5 DEF Backed
  <1>8. /\ S2[p] = "COPYING" => p \in Q2 \cup B
        /\ S2[p] = "BAD" => p \in B
        /\ p \notin K => (S2[p] \in Readable => p \in T)
    BY <1>2, <1>3, <1>4 DEF Backed, Readable
  <1> QED
    BY <1>6, <1>7, <1>8 DEF Backed

\* Granting locks is a step that keeps every slot backed.
LEMMA GrantStepBacked ==
  ASSUME TablesTyped, NEW new \in LockTable, NEW F, Grant(new),
         \A r \in Rules : Fits(new[r], lock[r], replica) /\ Placed(new[r], F, replica),
         UNCHANGED <<bad, stored, faked>>
  PROVE  \A p \in Slots : StaysBacked(p)
  BY GrantBacked DEF TablesTyped, StaysBacked, Grant

\* So is applying a rule.
LEMMA ApplyBacked ==
  ASSUME TablesTyped, NEW r \in Rules, NEW n, Apply(r, n), UNCHANGED <<bad, stored, faked>>
  PROVE  \A p \in Slots : StaysBacked(p)
  <1>1. PICK m \in Choices(r, n, content, lock[r], replica) : Grant([NoLocks EXCEPT ![r] = m])
    BY DEF Apply
  <1>2. Fits(m, lock[r], replica) /\ Placed(m, content, replica)
    BY ChoicesFit, ChoicesPlaced DEF TablesTyped
  <1> DEFINE new == [NoLocks EXCEPT ![r] = m]
  <1>3. new \in LockTable /\ \A q \in Rules : Fits(new[q], lock[q], replica) /\ Placed(new[q], content, replica)
    BY <1>2, OneRuleFits, OneRulePlaced DEF TablesTyped
  <1> HIDE DEF new
  <1>4. Grant(new)
    BY <1>1 DEF new
  <1> QED
    BY <1>3, <1>4, GrantStepBacked

\* A request is cancelled only with the last lock: when the locks whose removal
\* brings lock_cnt to zero are all the locks there are.
LEMMA CancelsLast ==
  ASSUME lock \in LockTable, lock_cnt \in CountTable,
         NEW gone \in [Rules -> SUBSET Slots],
         \A r \in Rules : \A p \in gone[r] : lock[r][p] # "NONE",
         NEW p \in Slots, Safe(lock, replica, lock_cnt, p), ReachesZero(gone, p)
  PROVE  \A r \in Rules : lock[r][p] # "NONE" => p \in gone[r]
  <1> DEFINE H == HoldersIn(lock, p)
             R == Removed(gone, p)
  <1>1. /\ R \in SUBSET H /\ H \in SUBSET Rules /\ IsFiniteSet(H)
        /\ Cardinality(H) \in Nat /\ Cardinality(R) \in Nat
    BY RuleSetsFinite DEF HoldersIn, Removed
  <1>2. Cardinality(H) <= lock_cnt[p] /\ lock_cnt[p] <= Cardinality(R) /\ lock_cnt[p] \in Int
    BY DEF Safe, ReachesZero, CountTable
  <1>3. Cardinality(R) <= Cardinality(H) /\ (Cardinality(H) = Cardinality(R) => H = R)
    BY <1>1, FS_Subset
  <1>4. H = R
    BY <1>1, <1>2, <1>3
  <1> QED
    BY <1>4 DEF HoldersIn, Removed

\* Dropping locks keeps a safe slot backed.
LEMMA DropBacked ==
  ASSUME TablesTyped, NEW gone \in [Rules -> SUBSET Slots],
         \A r \in Rules : \A p \in gone[r] : lock[r][p] # "NONE",
         NEW cancel \in Cancellable(gone), Drop(gone, cancel), UNCHANGED <<bad, stored, faked>>
  PROVE  \A p \in Slots : Safe(lock, replica, lock_cnt, p) => StaysBacked(p)
  <1> SUFFICES ASSUME NEW p \in Slots, Safe(lock, replica, lock_cnt, p) PROVE StaysBacked(p)
    OBVIOUS
  <1>1. \A r \in Rules : lock'[r][p] = IF p \in gone[r] THEN "NONE" ELSE lock[r][p]
    BY DEF Drop
  <1>2. /\ replica'[p] = IF p \in cancel THEN "UNAVAILABLE" ELSE replica[p]
        /\ request' = request \ cancel
    BY DEF Drop
  <1>3. p \in cancel => \A r \in Rules : lock'[r][p] = "NONE"
    <2>1. p \in cancel => ReachesZero(gone, p)
      BY DEF Cancellable
    <2>2. p \in cancel => \A r \in Rules : lock[r][p] # "NONE" => p \in gone[r]
      BY <2>1, CancelsLast DEF TablesTyped
    <2> QED
      BY <1>1, <2>2
  <1> QED
    BY <1>1, <1>2, <1>3 DEF StaysBacked, Backed, Readable

\* A repair keeps every slot backed: a retried lock has its request, and only
\* locks on readable replicas become OK.
LEMMA RepairBacked ==
  ASSUME TablesTyped, RulesTyped, content \subseteq Files, NEW r \in Rules, RepairLocks(r),
         UNCHANGED <<bad, stored, faked>>
  PROVE  \A p \in Slots : StaysBacked(p)
  <1> SUFFICES ASSUME NEW p \in Slots, Backed(lock, replica, request, bad, stored, faked, p)
               PROVE  Backed(lock', replica', request', bad', stored', faked', p)
    BY DEF StaysBacked
  <1>1. PICK m1, L, S, fate, to, m2 : RepairPlan(r, m1, L, S, fate, to, m2)
    BY RepairHasPlan
  <1>2. /\ L \in LockTable /\ S \in ReplicaTable
        /\ Fits(m1, lock[r], replica) /\ Placed(m1, content, replica)
        /\ Fits(m2, L[r], S) /\ Placed(m2, content, S)
        /\ DOMAIN fate = {q \in SlotsOf(content) : L[r][q] = "STUCK"}
        /\ DOMAIN fate \subseteq Slots
        /\ \A q \in DOMAIN fate :
              /\ fate[q] \in Fates
              /\ fate[q] = "ok" => S[q] \in Readable
              /\ fate[q] \in {"retry", "move"} => S[q] \notin {"ABSENT", "BEING_DELETED"}
    <2>1. PlanFacts(r, m1, L, S, fate, to, m2)
      BY <1>1, PlanParts
    <2> QED
      BY <2>1 DEF PlanFacts
  <1> DEFINE new1 == [NoLocks EXCEPT ![r] = m1]
             new2 == [NoLocks EXCEPT ![r] = m2]
             C    == LockCntAfter(lock_cnt, new1)
             K    == TombstoneAfter(tombstone, new1)
             Q    == RequestAfter(request, replica, new1)
             c    == AddAll(Recount(lock[r]), m1)
  <1>3. L = WithLocks(lock, new1) /\ S = ReplicaAfter(replica, new1) /\ RepairStuck(r, L, S, C, K, Q, c, fate, m2)
    BY <1>1 DEF RepairPlan
  <1>4. /\ new1 \in LockTable
        /\ \A q \in Rules : Fits(new1[q], lock[q], replica) /\ Placed(new1[q], content, replica)
    BY <1>2, OneRuleFits, OneRulePlaced DEF TablesTyped
  <1>5. new2 \in LockTable /\ \A q \in Rules : Fits(new2[q], L[q], S) /\ Placed(new2[q], content, S)
    BY <1>2, OneRuleFits, OneRulePlaced
  <1>6. Backed(L, S, Q, bad, stored, faked, p)
    <2> HIDE DEF new1
    <2> QED
      BY <1>3, <1>4, GrantBacked DEF TablesTyped
  <1> DEFINE L2 == WithLocks(L, new2)
             S2 == ReplicaAfter(S, new2)
             Q2 == RequestAfter(Q, S, new2)
  <1>7. Backed(L2, S2, Q2, bad, stored, faked, p)
    <2> HIDE DEF new2, Q
    <2> QED
      BY <1>2, <1>5, <1>6, GrantBacked
  <1> DEFINE is(k) == p \in DOMAIN fate /\ fate[p] = k
  <1>8. /\ request' = Q2 \cup {q \in DOMAIN fate : fate[q] = "retry"}
        /\ replica'[p] = IF is("retry") THEN "COPYING"
                         ELSE IF is("move") /\ C[p] = 1 THEN "UNAVAILABLE" ELSE S2[p]
    <2> HIDE DEF C, K, Q, c
    <2> QED
      BY <1>3, Zenon DEF RepairStuck
  <1>9. \A q \in Rules \ {r} : lock'[q][p] = L2[q][p]
    <2>1. \A q \in Rules \ {r} : lock'[q][p] = L[q][p]
      BY <1>2, <1>3 DEF RepairStuck, LockTable
    <2>2. \A q \in Rules \ {r} : L2[q][p] = L[q][p]
      BY DEF WithLocks, NoLocks, NoLock
    <2> QED
      BY <2>1, <2>2
  <1>10. lock'[r][p] = IF m2[p] # "NONE" THEN m2[p]
                       ELSE IF is("ok") THEN "OK" ELSE IF is("retry") THEN "REPLICATING"
                       ELSE IF p \in DOMAIN fate /\ fate[p] # "keep" THEN "NONE" ELSE L[r][p]
    <2> HIDE DEF C, K, Q, c
    <2> QED
      BY <1>2, <1>3 DEF RepairStuck, LockTable
  <1>11. L2[r][p] = IF m2[p] # "NONE" THEN m2[p] ELSE L[r][p]
    BY DEF WithLocks, NoLocks
  <1>12. is("ok") => S2[p] = S[p] /\ S[p] \in Readable
    <2>1. is("ok") => m2[p] = "NONE"
      BY <1>2 DEF Fits
    <2>2. is("ok") => \A q \in Rules : new2[q][p] = "NONE"
      BY <2>1 DEF NoLocks, NoLock
    <2>3. is("ok") => S2[p] = S[p]
      BY <2>2 DEF ReplicaAfter, Replicating, Granted
    <2> QED
      BY <1>2, <2>3
  <1> HIDE DEF new2, Q2, S2, L2, Q, C
  <1>13. \A q \in Rules : lock'[q][p] = "REPLICATING" => p \in request' \cup bad
    BY <1>7, <1>8, <1>9, <1>10, <1>11 DEF Backed
  <1>14. p \notin faked => \A q \in Rules : lock'[q][p] = "OK" => p \in stored \cup bad
    BY <1>7, <1>9, <1>10, <1>11, <1>12 DEF Backed
  <1>15. /\ replica'[p] = "COPYING" => p \in request' \cup bad
         /\ replica'[p] = "BAD" => p \in bad
         /\ p \notin faked => (replica'[p] \in Readable => p \in stored)
    BY <1>7, <1>8 DEF Backed, Readable
  <1> QED
    BY <1>13, <1>14, <1>15 DEF Backed
\* What every lock stands for is kept by every step: Backing is inductive
\* relative to TypeOK and LockProtection.
LEMMA BackingStep ==
  ASSUME TypeOK, LockProtection, Backing, [Next]_vars
  PROVE  Backing'
  <1>0. TablesTyped /\ RulesTyped /\ RestTyped /\ content \subseteq Files
    BY TypeSplit DEF RestTyped
  <1>s. \A p \in Slots \ revived : /\ Safe(lock, replica, lock_cnt, p)
                                   /\ p \in reaping => replica[p] = "BEING_DELETED"
                                   /\ replica[p] \in {"ABSENT", "BEING_DELETED"} =>
                                        \A r \in Rules : lock[r][p] = "NONE"
    BY ProtectionParts DEF Safe, HoldersIn
  <1>1. ASSUME NEW r \in Rules, NEW n \in 1..MaxCopies, AddRule(r, n) PROVE Backing'
    <2>1. CASE Apply(r, n)
      BY <1>0, <1>1, <2>1, ApplyBacked, BackingKept DEF AddRule, badVars, ghostVars
    <2>2. CASE UNCHANGED <<lock, replicaVars>>
      BY <1>1, <2>2, Untouched, BackingKept DEF AddRule, replicaVars, badVars, ghostVars
    <2> QED
      BY <1>1, <2>1, <2>2 DEF AddRule
  <1>2. ASSUME NEW r \in Rules, ApproveRule(r) \/ InjectFetch(r) \/ RepairFetch(r) PROVE Backing'
    BY <1>2, Untouched, BackingKept
    DEF ApproveRule, InjectFetch, RepairFetch, ruleVars, replicaVars, badVars, ghostVars
  <1>3. ASSUME NEW r \in Rules, InjectRule(r) PROVE Backing'
    <2>1. CASE Apply(r, copies[r])
      BY <1>0, <1>3, <2>1, ApplyBacked, BackingKept DEF InjectRule, badVars
    <2>2. CASE UNCHANGED <<lock, replicaVars>>
      BY <1>3, <2>2, Untouched, BackingKept DEF InjectRule, replicaVars, badVars
    <2> QED
      BY <1>3, <2>1, <2>2 DEF InjectRule
  <1>4. ASSUME NEW r \in Rules, DeleteRule(r) PROVE Backing'
    <2> DEFINE gone == [q \in Rules |-> IF q = r THEN Held(lock[r], Files) ELSE {}]
    <2>1. PICK cancel \in Cancellable(gone) : Drop(gone, cancel)
      BY <1>4 DEF DeleteRule
    <2>2. /\ gone \in [Rules -> SUBSET Slots]
          /\ \A q \in Rules : \A p \in gone[q] : lock[q][p] # "NONE"
      BY DEF Held, SlotsOf
    <2>3. UNCHANGED <<bad, stored, faked, revived>>
      BY <1>4 DEF DeleteRule, badVars, ghostVars
    <2> HIDE DEF gone
    <2>4. \A p \in Slots : Safe(lock, replica, lock_cnt, p) => StaysBacked(p)
      BY <1>0, <2>1, <2>2, <2>3, DropBacked
    <2> QED
      BY <1>s, <2>3, <2>4, BackingKept
  <1>5. ASSUME NEW r \in Rules, RepairRule(r) PROVE Backing'
    <2>1. CASE RepairLocks(r)
      BY <1>0, <1>5, <2>1, RepairBacked, BackingKept DEF RepairRule, badVars
    <2>2. CASE UNCHANGED <<lock, replicaVars>>
      BY <1>5, <2>2, Untouched, BackingKept DEF RepairRule, replicaVars, badVars
    <2> QED
      BY <1>5, <2>1, <2>2 DEF RepairRule, RepairSuspends, RepairAborts
  <1>6. ASSUME NEW r \in Rules, NEW s \in {"SUSPENDED", "STUCK"}, NEW cancel \in BOOLEAN,
               UpdateRule(r, s, cancel)
        PROVE  Backing'
    <2> DEFINE own == InState(lock[r], "REPLICATING")
    <2>1. /\ UNCHANGED <<bad, stored, faked>> /\ revived \subseteq revived'
          /\ request' = IF cancel THEN request \ own ELSE request
          /\ \A p \in Slots : replica'[p] = IF cancel /\ p \in own THEN "UNAVAILABLE" ELSE replica[p]
          /\ \A q \in Rules, p \in Slots :
               \/ lock'[q][p] = "STUCK"
               \/ lock'[q][p] = lock[q][p] /\ ~(cancel /\ p \in own /\ lock[q][p] = "REPLICATING")
      BY <1>6 DEF UpdateRule, Revive, badVars
    <2> HIDE DEF own
    <2>2. ASSUME NEW p \in Slots PROVE StaysBacked(p)
      BY <2>1 DEF StaysBacked, Backed, Readable
    <2> QED
      BY <2>1, <2>2, BackingKept
  <1>7. ASSUME NEW p \in Slots, FinishOk(p) PROVE Backing'
    <2>1. /\ UNCHANGED faked /\ request' = request \ {p} /\ stored' = stored \cup {p}
          /\ \A q \in Slots \ {p} : q \in bad => q \in bad'
          /\ revived \subseteq revived'
      BY <1>7 DEF FinishOk, BecomeAvailable, Revive
    <2>2. \A q \in Slots : replica'[q] = IF q = p THEN "AVAILABLE" ELSE replica[q]
      BY <1>0, <1>7 DEF FinishOk, BecomeAvailable, TablesTyped, ReplicaTable
    <2>3. \A q \in Slots \ {p}, r \in Rules : lock'[r][q] = lock[r][q]
      BY <1>0, <1>7 DEF FinishOk, BecomeAvailable, MoveLocks, TablesTyped, LockTable, LockRow
    <2>4. p \notin revived => \A r \in Rules : lock'[r][p] \in {"NONE", "OK"}
      <3>1. CASE BecomeAvailable(p)
        BY <1>0, <3>1 DEF BecomeAvailable, MoveLocks, TablesTyped, LockTable, LockRow, MaybeLock, LockStates
      <3>2. CASE ~Exists(p)
        BY <1>s, <1>7, <3>2 DEF FinishOk, Exists
      <3> QED
        BY <1>7, <3>1, <3>2 DEF FinishOk
    <2>5. ASSUME NEW q \in Slots \ revived' PROVE StaysBacked(q)
      <3>1. CASE q = p
        BY <2>1, <2>2, <2>4, <3>1 DEF StaysBacked, Backed, Readable
      <3>2. CASE q # p
        BY <2>1, <2>2, <2>3, <3>2, Untouched
      <3> QED
        BY <3>1, <3>2
    <2> QED
      BY <2>1, <2>5, BackingKept
  <1>8. ASSUME NEW p \in Slots, FinishFail(p) PROVE Backing'
    <2>1. UNCHANGED <<faked, stored, bad>> /\ request' = request \ {p} /\ revived \subseteq revived'
      BY <1>8 DEF FinishFail, Revive, badVars
    <2>2. \A q \in Slots \ {p} : replica'[q] = replica[q] /\ \A r \in Rules : lock'[r][q] = lock[r][q]
      BY <1>0, <1>8 DEF FinishFail, MoveLocks, TablesTyped, LockTable, LockRow, ReplicaTable
    <2>3. p \notin revived => /\ replica'[p] \in {"ABSENT", "UNAVAILABLE"}
                              /\ \A r \in Rules : lock'[r][p] \in {"NONE", "STUCK"}
      <3>1. CASE Exists(p)
        BY <1>0, <1>8, <3>1
        DEF FinishFail, MoveLocks, TablesTyped, LockTable, LockRow, MaybeLock, LockStates, ReplicaTable
      <3>2. CASE ~Exists(p)
        BY <1>s, <1>8, <3>2 DEF FinishFail, Exists
      <3> QED
        BY <3>1, <3>2
    <2>4. ASSUME NEW q \in Slots \ revived' PROVE StaysBacked(q)
      <3>1. CASE q = p
        BY <2>1, <2>3, <3>1 DEF StaysBacked, Backed, Readable
      <3>2. CASE q # p
        BY <2>1, <2>2, <3>2, Untouched
      <3> QED
        BY <3>1, <3>2
    <2> QED
      BY <2>1, <2>4, BackingKept
  <1>9. ASSUME NEW p \in Slots, NEW force \in BOOLEAN, DeclareBad(p, force) PROVE Backing'
    <2>1. /\ UNCHANGED <<lock, request, faked>> /\ bad' = bad \cup {p} /\ stored' = stored \ {p}
          /\ revived \subseteq revived'
          /\ \A q \in Slots : replica'[q] = IF q = p THEN "BAD" ELSE replica[q]
      BY <1>0, <1>9 DEF DeclareBad, Revive, ruleVars, TablesTyped, ReplicaTable
    <2>2. ASSUME NEW q \in Slots PROVE StaysBacked(q)
      BY <2>1 DEF StaysBacked, Backed, Readable
    <2> QED
      BY <2>1, <2>2, BackingKept
  <1>10. ASSUME NEW p \in Slots, DeclareTemporary(p) PROVE Backing'
    <2>1. /\ UNCHANGED <<lock, request, bad, stored>>
          /\ faked' = IF replica[p] \in Readable THEN faked ELSE faked \cup {p}
          /\ revived \subseteq revived'
          /\ \A q \in Slots : replica'[q] = IF q = p THEN "TEMPORARY_UNAVAILABLE" ELSE replica[q]
      BY <1>0, <1>10 DEF DeclareTemporary, Revive, ruleVars, TablesTyped, ReplicaTable
    <2>2. ASSUME NEW q \in Slots PROVE StaysBacked(q)
      BY <2>1 DEF StaysBacked, Backed, Readable
    <2> QED
      BY <2>1, <2>2, BackingKept
  <1>11. ASSUME NEW p \in Slots, ExpireTemporary(p) PROVE Backing'
    <2>1. CASE BecomeAvailable(p)
      <3>1. /\ UNCHANGED <<request, stored>> /\ bad' = bad \ {p}
            /\ faked' = IF replica[p] \in Readable THEN faked ELSE faked \cup {p}
            /\ revived \subseteq revived'
            /\ \A q \in Slots : replica'[q] = IF q = p THEN "AVAILABLE" ELSE replica[q]
        BY <1>0, <1>11, <2>1 DEF ExpireTemporary, BecomeAvailable, Revive, TablesTyped, ReplicaTable, Readable
      <3>2. \A q \in Slots, r \in Rules :
              IF q = p THEN lock'[r][q] \in {"NONE", "OK"} ELSE lock'[r][q] = lock[r][q]
        BY <1>0, <2>1 DEF BecomeAvailable, MoveLocks, TablesTyped, LockTable, LockRow, MaybeLock, LockStates
      <3>3. ASSUME NEW q \in Slots PROVE StaysBacked(q)
        BY <3>1, <3>2 DEF StaysBacked, Backed, Readable
      <3> QED
        BY <3>1, <3>3, BackingKept
    <2>2. CASE UNCHANGED <<lock, replica, bad, revived, faked>>
      BY <1>11, <2>2, Untouched, BackingKept DEF ExpireTemporary
    <2> QED
      BY <1>11, <2>1, <2>2 DEF ExpireTemporary
  <1>12. ASSUME NEW p \in Slots, NecroPick(p) PROVE Backing'
    BY <1>12, Untouched, BackingKept DEF NecroPick, ruleVars, replicaVars, badVars, ghostVars
  <1>13. ASSUME NEW p \in Slots, ReaperMark(p) PROVE Backing'
    <2>1. /\ UNCHANGED <<lock, request, bad, stored, faked, revived>>
          /\ \A q \in Slots : replica'[q] = IF q = p THEN "BEING_DELETED" ELSE replica[q]
      BY <1>0, <1>13 DEF ReaperMark, ruleVars, badVars, ghostVars, TablesTyped, ReplicaTable
    <2>2. ASSUME NEW q \in Slots PROVE StaysBacked(q)
      BY <2>1 DEF StaysBacked, Backed, Readable
    <2> QED
      BY <2>1, <2>2, BackingKept
  <1>14. ASSUME NEW p \in Slots, ReaperDelete(p) PROVE Backing'
    <2>1. /\ UNCHANGED <<lock, request, faked, revived>> /\ p \in reaping
          /\ bad' = bad \ {p} /\ stored' = stored \ {p}
          /\ \A q \in Slots : replica'[q] = IF q = p THEN "ABSENT" ELSE replica[q]
      BY <1>0, <1>14 DEF ReaperDelete, ruleVars, TablesTyped, ReplicaTable
    <2>2. p \notin revived => \A r \in Rules : lock[r][p] = "NONE"
      BY <1>s, <2>1
    <2>3. ASSUME NEW q \in Slots \ revived' PROVE StaysBacked(q)
      BY <2>1, <2>2 DEF StaysBacked, Backed, Readable
    <2> QED
      BY <2>1, <2>3, BackingKept
  <1>15. ASSUME NEW p \in Slots, ReaperFail(p) PROVE Backing'
    <2>1. /\ UNCHANGED <<lock, replica, request, bad, faked, revived>> /\ p \in reaping
          /\ \A q \in Slots \ {p} : q \in stored => q \in stored'
      BY <1>15 DEF ReaperFail, ruleVars, replicaVars, badVars
    <2>2. p \notin revived => replica[p] = "BEING_DELETED" /\ \A r \in Rules : lock[r][p] = "NONE"
      BY <1>s, <2>1
    <2>3. ASSUME NEW q \in Slots \ revived' PROVE StaysBacked(q)
      BY <2>1, <2>2 DEF StaysBacked, Backed, Readable
    <2> QED
      BY <2>1, <2>3, BackingKept
  <1>16. ASSUME NEW f \in Files, Attach(f) \/ Detach(f) PROVE Backing'
    BY <1>16, Untouched, BackingKept DEF Attach, Detach, ruleVars, replicaVars, badVars, ghostVars
  <1>17. CASE EvaluateAttach
    <2>1. PICK R, new : new \in Assignments(R, flagged) /\ Grant(new)
      BY <1>17 DEF EvaluateAttach
    <2>2. /\ new \in LockTable
          /\ \A r \in Rules : Fits(new[r], lock[r], replica) /\ Placed(new[r], flagged, replica)
      BY <1>0, <2>1, AssignmentsFit, AssignmentsPlaced DEF LockTable, TablesTyped
    <2>3. UNCHANGED <<bad, stored, faked, revived>>
      BY <1>17 DEF EvaluateAttach, badVars, ghostVars
    <2> QED
      BY <1>0, <2>1, <2>2, <2>3, GrantStepBacked, BackingKept
  <1>18. CASE EvaluateDetach
    <2> DEFINE gone == [r \in Rules |-> GivesUp(r)]
    <2>1. PICK cancel \in Cancellable(gone) : Drop(gone, cancel)
      BY <1>18 DEF EvaluateDetach
    <2>2. /\ gone \in [Rules -> SUBSET Slots]
          /\ \A r \in Rules : \A p \in gone[r] : lock[r][p] # "NONE"
      BY DEF GivesUp, Held, SlotsOf
    <2>3. UNCHANGED <<bad, stored, faked, revived>>
      BY <1>18 DEF EvaluateDetach, badVars
    <2> HIDE DEF gone
    <2>4. \A p \in Slots : Safe(lock, replica, lock_cnt, p) => StaysBacked(p)
      BY <1>0, <2>1, <2>2, <2>3, DropBacked
    <2> QED
      BY <1>s, <2>3, <2>4, BackingKept
  <1>19. CASE NecroDecide
    BY <1>19, Untouched, BackingKept DEF NecroDecide, ruleVars, replicaVars, badVars, ghostVars
  <1>20. CASE NecroRecover
    <2> DEFINE p == necro.slot
    <2>1. p \in Slots
      BY <1>0, <1>20, NecroBusy DEF NecroRecover
    <2>2. CASE Exists(p)
      <3>1. /\ UNCHANGED <<bad, stored, faked>> /\ revived \subseteq revived'
            /\ request' = IF Holders(p) # {} THEN request \cup {p} ELSE request
            /\ \A q \in Slots : replica'[q] = IF q # p THEN replica[q]
                                              ELSE IF Holders(p) # {} THEN "COPYING" ELSE "UNAVAILABLE"
        BY <1>0, <1>20, <2>1, <2>2 DEF NecroRecover, Revive, badVars, TablesTyped, ReplicaTable
      <3>2. \A q \in Slots, r \in Rules :
              IF q = p THEN lock'[r][q] \in {"NONE", "REPLICATING"} /\ (lock'[r][q] # "NONE" => Holders(p) # {})
                       ELSE lock'[r][q] = lock[r][q]
        BY <1>0, <1>20, <2>1, <2>2
        DEF NecroRecover, MoveLocks, Holders, TablesTyped, LockTable, LockRow, MaybeLock, LockStates
      <3> HIDE DEF p
      <3>3. ASSUME NEW q \in Slots PROVE StaysBacked(q)
        BY <3>1, <3>2 DEF StaysBacked, Backed, Readable
      <3> QED
        BY <3>1, <3>3, BackingKept
    <2>3. CASE ~Exists(p)
      BY <1>20, <2>3, Untouched, BackingKept DEF NecroRecover, badVars
    <2> QED
      BY <2>2, <2>3
  <1>21. CASE NecroLost
    <2> DEFINE p == necro.slot
    <2>1. p \in Slots
      BY <1>0, <1>21, NecroBusy DEF NecroLost
    <2>2. CASE Exists(p)
      <3>1. /\ UNCHANGED <<stored, faked>> /\ bad' = bad \ {p} /\ request' = request \ {p}
            /\ revived \subseteq revived'
            /\ \A q \in Slots : replica'[q] = IF q = p THEN "UNAVAILABLE" ELSE replica[q]
        BY <1>0, <1>21, <2>1, <2>2 DEF NecroLost, Revive, TablesTyped, ReplicaTable
      <3>2. \A r \in Rules, q \in Slots : lock'[r][q] = IF q = p THEN "NONE" ELSE lock[r][q]
        BY <1>0, <1>21, <2>1, <2>2 DEF NecroLost, TablesTyped, LockTable, LockRow
      <3> HIDE DEF p
      <3>3. ASSUME NEW q \in Slots PROVE StaysBacked(q)
        BY <3>1, <3>2 DEF StaysBacked, Backed, Readable
      <3> QED
        BY <3>1, <3>3, BackingKept
    <2>3. CASE ~Exists(p)
      BY <1>21, <2>3, Untouched, BackingKept DEF NecroLost, replicaVars
    <2> QED
      BY <2>2, <2>3
  <1>22. CASE UNCHANGED vars
    BY <1>22, Untouched, BackingKept DEF vars, ruleVars, replicaVars, badVars, ghostVars
  <1> QED
    BY <1>1, <1>2, <1>3, <1>4, <1>5, <1>6, <1>7, <1>8, <1>9, <1>10, <1>11, <1>12, <1>13, <1>14,
       <1>15, <1>16, <1>17, <1>18, <1>19, <1>20, <1>21, <1>22
    DEF Next, RuleStep, SlotStep, DenyRule

\* Behind every lock there is a stored file, a transfer or a declared loss.
THEOREM LocksAreBacked == Spec => []Backing
  <1>1. Init => Backing
    <2> SUFFICES ASSUME Init, NEW p \in Slots PROVE Backed(lock, replica, request, bad, stored, faked, p)
      BY DEF Backing
    <2>1. \A r \in Rules : lock[r][p] = "NONE"
      BY DEF Init, NoLocks, NoLock
    <2>2. replica[p] \in {"AVAILABLE", "ABSENT"} /\ (replica[p] = "AVAILABLE" => p \in stored)
      BY DEF Init, Exists
    <2> QED
      BY <2>1, <2>2 DEF Backed, Readable
  <1>2. TypeOK /\ LockProtection /\ Backing /\ [Next]_vars => Backing'
    BY BackingStep
  <1> QED
    BY <1>1, <1>2, TypeCorrect, LockedIsProtected, PTL DEF Spec

\* No lock waits for a transfer that nobody has queued, whatever the repairer,
\* the finisher, cancellations and the necromancer did to the row meanwhile.
THEOREM WaitsForRequest == Spec => []HasRequest
  BY LocksAreBacked, BackingSuffices, PTL

\* No lock is OK on a file that is not stored and not known to be bad.
THEOREM OkIsStored == Spec => []OkStored
  BY LocksAreBacked, BackingSuffices, PTL
-----------------------------------------------------------------------------
(***************************************************************************)
(* Which files may be locked.  NoStrandedLocks is inductive together with  *)
(* three facts: what is flagged is in the dataset, a lost file is not, and *)
(* only a rule that has been applied and not deleted holds locks, since    *)
(* the evaluator looks at no other.                                        *)
(***************************************************************************)
Unplaced == {"NEW", "WAITING_APPROVAL", "INJECT", "DELETED"}

Belonging ==
  /\ flagged \subseteq content
  /\ content \cap lost = {}
  /\ \A r \in Rules, p \in Slots : state[r] \in Unplaced => lock[r][p] = "NONE"
  /\ NoStrandedLocks

\* What granting does, lock by lock.
LEMMA GrantedLocks ==
  ASSUME NEW new, Grant(new), NEW r \in Rules, NEW p \in Slots
  PROVE  lock'[r][p] = IF new[r][p] # "NONE" THEN new[r][p] ELSE lock[r][p]
  BY DEF Grant, WithLocks

\* Applying a rule puts locks on files of the dataset only, for this rule only,
\* and the rule into a state in which it may hold them.
LEMMA ApplyLocks ==
  ASSUME TablesTyped, RulesTyped, NEW r \in Rules, NEW n, Apply(r, n)
  PROVE  /\ state'[r] \notin Unplaced
         /\ \A q \in Rules \ {r} : state'[q] = state[q]
         /\ \A q \in Rules \ {r}, p \in Slots : lock'[q][p] = lock[q][p]
         /\ \A p \in Slots : lock'[r][p] # "NONE" => lock[r][p] # "NONE" \/ p[1] \in content
  <1>1. PICK m \in Choices(r, n, content, lock[r], replica) :
          /\ Grant([NoLocks EXCEPT ![r] = m])
          /\ state' = [state EXCEPT ![r] = AppliedState(AddAll(locks_cnt[r], m))]
    BY DEF Apply
  <1>2. Placed(m, content, replica)
    BY ChoicesPlaced DEF TablesTyped
  <1> DEFINE new == [NoLocks EXCEPT ![r] = m]
  <1>3. \A q \in Rules, p \in Slots : new[q][p] = IF q = r THEN m[p] ELSE "NONE"
    BY DEF NoLocks, NoLock
  <1>4. \A q \in Rules, p \in Slots : lock'[q][p] = IF q = r /\ m[p] # "NONE" THEN m[p] ELSE lock[q][p]
    <2>1. Grant(new)
      BY <1>1
    <2> HIDE DEF new
    <2> QED
      BY <1>3, <2>1, GrantedLocks
  <1>5. \A c : AppliedState(c) \notin Unplaced
    BY DEF AppliedState, Unplaced
  <1> QED
    BY <1>1, <1>2, <1>4, <1>5 DEF Placed, RulesTyped

\* So does a repair.
LEMMA RepairedLocks ==
  ASSUME TablesTyped, RulesTyped, content \subseteq Files, NEW r \in Rules, RepairLocks(r)
  PROVE  /\ state'[r] \notin Unplaced
         /\ \A q \in Rules \ {r} : state'[q] = state[q]
         /\ \A q \in Rules \ {r}, p \in Slots : lock'[q][p] = lock[q][p]
         /\ \A p \in Slots : lock'[r][p] # "NONE" => lock[r][p] # "NONE" \/ p[1] \in content
  <1>1. PICK m1, L, S, fate, to, m2 : RepairPlan(r, m1, L, S, fate, to, m2)
    BY RepairHasPlan
  <1>2. /\ L \in LockTable /\ Placed(m1, content, replica) /\ Placed(m2, content, S)
        /\ DOMAIN fate = {q \in SlotsOf(content) : L[r][q] = "STUCK"}
    <2>1. PlanFacts(r, m1, L, S, fate, to, m2)
      BY <1>1, PlanParts
    <2> QED
      BY <2>1 DEF PlanFacts
  <1> DEFINE new1 == [NoLocks EXCEPT ![r] = m1]
             C    == LockCntAfter(lock_cnt, new1)
             K    == TombstoneAfter(tombstone, new1)
             Q    == RequestAfter(request, replica, new1)
             c    == AddAll(Recount(lock[r]), m1)
  <1>3. L = WithLocks(lock, new1) /\ RepairStuck(r, L, S, C, K, Q, c, fate, m2)
    BY <1>1 DEF RepairPlan
  <1>4. \A q \in Rules, p \in Slots : L[q][p] = IF q = r /\ m1[p] # "NONE" THEN m1[p] ELSE lock[q][p]
    BY <1>3 DEF WithLocks, NoLocks, NoLock
  <1> HIDE DEF C, K, Q, c
  <1>5. \A q \in Rules \ {r}, p \in Slots : lock'[q][p] = L[q][p]
    BY <1>2, <1>3 DEF RepairStuck, LockTable
  <1>6. \A p \in Slots : lock'[r][p] # "NONE" => L[r][p] # "NONE" \/ m2[p] # "NONE" \/ p \in DOMAIN fate
    BY <1>2, <1>3 DEF RepairStuck, LockTable
  <1>7. \A q \in Rules \ {r} : state'[q] = state[q]
    BY <1>3 DEF RepairStuck, RulesTyped
  <1>8. state'[r] \notin Unplaced
    <2>1. \E d : state' = [state EXCEPT ![r] = RepairedState(d)]
      BY <1>3, Zenon DEF RepairStuck
    <2>2. \A d : RepairedState(d) \notin Unplaced
      BY DEF RepairedState, Unplaced
    <2> QED
      BY <2>1, <2>2 DEF RulesTyped
  <1> QED
    BY <1>2, <1>4, <1>5, <1>6, <1>7, <1>8 DEF Placed, SlotsOf

\* A step that leaves the dataset alone keeps Belonging if it locks nothing
\* outside it and no rule that may hold no lock.
LEMMA BelongingKept ==
  ASSUME Belonging, UNCHANGED <<content, flagged, lost>>, updated \subseteq updated',
         revived \subseteq revived',
         \A r \in Rules, p \in Slots :
           lock'[r][p] # "NONE" => /\ lock[r][p] # "NONE" \/ p[1] \in content
                                   /\ state'[r] \notin Unplaced
  PROVE  Belonging'
  BY DEF Belonging, NoStrandedLocks

\* In particular one that moves locks between states, and rules only to states
\* in which they may hold locks.
LEMMA BelongingMoved ==
  ASSUME Belonging, UNCHANGED <<content, flagged, lost, updated>>, revived \subseteq revived',
         \A r \in Rules, p \in Slots : lock'[r][p] # "NONE" => lock[r][p] # "NONE",
         \A r \in Rules : state'[r] \in Unplaced => state[r] \in Unplaced
  PROVE  Belonging'
  BY BelongingKept DEF Belonging

\* Every step keeps the locks on the files they belong to.
LEMMA BelongingStep ==
  ASSUME TypeOK, LockProtection, Belonging, [Next]_vars
  PROVE  Belonging'
  <1>0. TablesTyped /\ RulesTyped /\ RestTyped /\ content \subseteq Files
    BY TypeSplit DEF RestTyped
  <1>s. \A p \in Slots \ revived :
          /\ p \in reaping => replica[p] = "BEING_DELETED"
          /\ replica[p] \in {"ABSENT", "BEING_DELETED"} => \A r \in Rules : lock[r][p] = "NONE"
    BY ProtectionParts DEF Safe, HoldersIn
  <1>1. ASSUME NEW r \in Rules, NEW n \in 1..MaxCopies, AddRule(r, n) PROVE Belonging'
    <2>1. CASE Apply(r, n)
      BY <1>0, <1>1, <2>1, ApplyLocks, BelongingKept DEF Belonging, AddRule, badVars, didVars, ghostVars
    <2>2. CASE /\ UNCHANGED <<lock>>
               /\ \A q \in Rules \ {r} : state'[q] = state[q]
      BY <1>1, <2>2, BelongingMoved DEF AddRule, badVars, didVars, ghostVars, Unplaced
    <2> QED
      BY <1>0, <1>1, <2>1, <2>2 DEF AddRule, RulesTyped
  <1>2. ASSUME NEW r \in Rules, ApproveRule(r) \/ InjectFetch(r) \/ RepairFetch(r) PROVE Belonging'
    BY <1>0, <1>2, BelongingMoved
    DEF ApproveRule, InjectFetch, RepairFetch, ruleVars, badVars, didVars, ghostVars, Unplaced, RulesTyped
  <1>3. ASSUME NEW r \in Rules, InjectRule(r) PROVE Belonging'
    <2>1. CASE Apply(r, copies[r])
      BY <1>0, <1>3, <2>1, ApplyLocks, BelongingKept DEF Belonging, InjectRule, badVars, didVars
    <2>2. CASE UNCHANGED lock /\ (state' = state \/ state' = [state EXCEPT ![r] = "SUSPENDED"])
      BY <1>0, <1>3, <2>2, BelongingMoved DEF InjectRule, badVars, didVars, Unplaced, RulesTyped
    <2> QED
      BY <1>3, <2>1, <2>2 DEF InjectRule
  <1>4. ASSUME NEW r \in Rules, DeleteRule(r) PROVE Belonging'
    <2>1. \A q \in Rules, p \in Slots :
            lock'[q][p] = IF q = r /\ p \in Held(lock[r], Files) THEN "NONE" ELSE lock[q][p]
      BY <1>4 DEF DeleteRule, Drop
    <2>2. \A p \in Slots : lock'[r][p] = "NONE"
      BY <2>1 DEF Held, SlotsOf, Slots
    <2>3. \A q \in Rules \ {r} : state'[q] = state[q]
      BY <1>0, <1>4 DEF DeleteRule, RulesTyped
    <2> QED
      BY <1>4, <2>1, <2>2, <2>3, BelongingKept DEF Belonging, DeleteRule, badVars, didVars, ghostVars
  <1>5. ASSUME NEW r \in Rules, RepairRule(r) PROVE Belonging'
    <2>1. CASE RepairLocks(r)
      BY <1>0, <1>5, <2>1, RepairedLocks, BelongingKept DEF Belonging, RepairRule, badVars, didVars
    <2>2. CASE UNCHANGED lock /\ (state' = state \/ \E s \in {"SUSPENDED", "STUCK"} : state' = [state EXCEPT ![r] = s])
      BY <1>0, <1>5, <2>2, BelongingMoved DEF RepairRule, badVars, didVars, Unplaced, RulesTyped
    <2> QED
      BY <1>5, <2>1, <2>2 DEF RepairRule, RepairSuspends, RepairAborts
  <1>6. ASSUME NEW r \in Rules, NEW s \in {"SUSPENDED", "STUCK"}, NEW cancel \in BOOLEAN,
               UpdateRule(r, s, cancel)
        PROVE  Belonging'
    <2>1. UNCHANGED <<content, flagged, lost, updated>> /\ revived \subseteq revived'
      BY <1>6 DEF UpdateRule, Revive, badVars, didVars
    <2>2. \A q \in Rules, p \in Slots : lock'[q][p] # "NONE" => lock[q][p] # "NONE"
      BY <1>6 DEF UpdateRule
    <2>3. \A q \in Rules : state'[q] \in Unplaced => state[q] \in Unplaced
      BY <1>6 DEF UpdateRule, Unplaced
    <2> QED
      BY <2>1, <2>2, <2>3, BelongingMoved
  <1>7. ASSUME NEW p \in Slots, FinishOk(p) \/ ExpireTemporary(p) PROVE Belonging'
    <2>1. UNCHANGED <<content, flagged, lost, updated>> /\ revived \subseteq revived'
      BY <1>7 DEF FinishOk, ExpireTemporary, BecomeAvailable, Revive, didVars
    <2>2. CASE BecomeAvailable(p)
      <3>1. \A q \in Rules, x \in Slots : lock'[q][x] # "NONE" => lock[q][x] # "NONE"
        BY <1>0, <2>2 DEF BecomeAvailable, MoveLocks, TablesTyped, LockTable, LockRow
      <3>2. \A q \in Rules : state'[q] \in Unplaced => state[q] \in Unplaced
        BY <2>2 DEF BecomeAvailable, Unplaced
      <3> QED
        BY <2>1, <3>1, <3>2, BelongingMoved
    <2>3. CASE UNCHANGED <<state, lock>>
      BY <2>1, <2>3, BelongingMoved
    <2> QED
      BY <1>7, <2>2, <2>3 DEF FinishOk, ExpireTemporary
  <1>8. ASSUME NEW p \in Slots, FinishFail(p) PROVE Belonging'
    <2>1. UNCHANGED <<content, flagged, lost, updated>> /\ revived \subseteq revived'
      BY <1>8 DEF FinishFail, Revive, badVars, didVars
    <2>2. \A q \in Rules, x \in Slots : lock'[q][x] # "NONE" => lock[q][x] # "NONE"
      BY <1>0, <1>8 DEF FinishFail, MoveLocks, TablesTyped, LockTable, LockRow
    <2>3. \A q \in Rules : state'[q] \in Unplaced => state[q] \in Unplaced
      BY <1>8 DEF FinishFail, Unplaced
    <2> QED
      BY <2>1, <2>2, <2>3, BelongingMoved
  <1>9. ASSUME NEW p \in Slots,
               \/ \E force \in BOOLEAN : DeclareBad(p, force)
               \/ DeclareTemporary(p) \/ NecroPick(p) \/ ReaperMark(p) \/ ReaperFail(p)
        PROVE  Belonging'
    <2>1. UNCHANGED <<content, flagged, lost, updated, state, lock>> /\ revived \subseteq revived'
      BY <1>9 DEF DeclareBad, DeclareTemporary, NecroPick, ReaperMark, ReaperFail, Revive, ruleVars,
                  badVars, didVars, ghostVars
    <2> QED
      BY <2>1, BelongingMoved
  <1>10. ASSUME NEW p \in Slots, ReaperDelete(p) PROVE Belonging'
    <2>1. UNCHANGED <<lost, updated, state, lock, revived>> /\ p \in reaping
      BY <1>10 DEF ReaperDelete, ruleVars
    <2>2. CASE /\ \A x \in RSEs \ {p[2]} : ~Exists(<<p[1], x>>)
               /\ content' = content \ {p[1]} /\ flagged' = flagged \ {p[1]}
      <3>1. ASSUME NEW q \in Slots \ revived, q[1] = p[1] PROVE \A r \in Rules : lock[r][q] = "NONE"
        <4>1. CASE q = p
          BY <1>s, <2>1, <4>1
        <4>2. CASE q # p
          <5>1. q = <<p[1], q[2]>> /\ q[2] \in RSEs \ {p[2]}
            BY <3>1, <4>2 DEF Slots
          <5> QED
            BY <1>s, <2>2, <5>1 DEF Exists
        <4> QED
          BY <4>1, <4>2
      <3> QED
        BY <2>1, <2>2, <3>1 DEF Belonging, NoStrandedLocks
    <2>3. CASE UNCHANGED <<content, flagged>>
      BY <2>1, <2>3, BelongingMoved
    <2> QED
      BY <1>10, <2>2, <2>3 DEF ReaperDelete, CleanupAfterDeletion
  <1>11. ASSUME NEW f \in Files, Attach(f) PROVE Belonging'
    BY <1>11 DEF Attach, Belonging, NoStrandedLocks, ruleVars, badVars, ghostVars
  <1>12. ASSUME NEW f \in Files, Detach(f) PROVE Belonging'
    BY <1>12 DEF Detach, Belonging, NoStrandedLocks, ruleVars, badVars, ghostVars
  <1>13. CASE EvaluateAttach
    <2> DEFINE eligible == IF flagged = {} THEN {}
                           ELSE {r \in Existing : state[r] \notin {"SUSPENDED", "WAITING_APPROVAL", "INJECT"}}
    <2>1. PICK abort \in SUBSET eligible : \E new \in Assignments(eligible \ abort, flagged) :
            /\ Grant(new)
            /\ state' = [r \in Rules |->
                 IF r \in abort THEN "STUCK"
                 ELSE IF r \in eligible
                   THEN AttachedState(state[r], locks_cnt[r], AddAll(locks_cnt[r], new[r]))
                   ELSE state[r]]
      BY <1>13 DEF EvaluateAttach
    <2>2. PICK new \in Assignments(eligible \ abort, flagged) :
            /\ Grant(new)
            /\ state' = [r \in Rules |->
                 IF r \in abort THEN "STUCK"
                 ELSE IF r \in eligible
                   THEN AttachedState(state[r], locks_cnt[r], AddAll(locks_cnt[r], new[r]))
                   ELSE state[r]]
      BY <2>1
    <2>3. \A r \in Rules : r \notin eligible => new[r] = NoLock
      BY DEF Assignments
    <2>4. \A r \in Rules : r \in eligible => state[r] \notin Unplaced
      BY DEF Existing, Unplaced
    <2> HIDE DEF eligible
    <2>5. \A r \in Rules : Placed(new[r], flagged, replica)
      BY <1>0, AssignmentsPlaced DEF TablesTyped
    <2>6. \A r \in Rules, p \in Slots : lock'[r][p] = IF new[r][p] # "NONE" THEN new[r][p] ELSE lock[r][p]
      BY <2>2, GrantedLocks
    <2>7. \A s, b, a : s \notin Unplaced => AttachedState(s, b, a) \notin Unplaced
      BY DEF AttachedState, Unplaced
    <2>8. \A r \in Rules : state'[r] \in Unplaced => r \notin eligible /\ state'[r] = state[r]
      <3>1. "STUCK" \notin Unplaced
        BY DEF Unplaced
      <3> QED
        BY <2>2, <2>4, <2>7, <3>1
    <2>9. \A r \in Rules, p \in Slots : state'[r] \in Unplaced => lock'[r][p] = "NONE"
      BY <2>3, <2>6, <2>8 DEF Belonging, NoLock
    <2>10. /\ UNCHANGED <<content, lost, revived>> /\ flagged' = {}
           /\ updated' = updated \/ updated' = updated \ {"ATTACH"}
      BY <1>13 DEF EvaluateAttach, Evaluated, badVars, ghostVars
    <2> QED
      BY <2>5, <2>6, <2>9, <2>10 DEF Belonging, NoStrandedLocks, Placed
  <1>14. CASE EvaluateDetach
    <2>1. \A r \in Rules, p \in Slots : lock'[r][p] = IF p \in GivesUp(r) THEN "NONE" ELSE lock[r][p]
      BY <1>14 DEF EvaluateDetach, Drop
    <2>2. \A r \in Rules, p \in Slots : lock'[r][p] # "NONE" => lock[r][p] # "NONE" /\ p[1] \in content
      <3>1. \A r \in Rules, p \in Slots : lock[r][p] # "NONE" => r \in Existing
        BY DEF Belonging, Existing, Unplaced
      <3> QED
        BY <2>1, <3>1 DEF GivesUp, Held, SlotsOf, Slots
    <2>3. \A r \in Rules : state'[r] \in Unplaced => state[r] \in Unplaced
      <3>1. \A s, c : Settled(s, c) \in Unplaced => s \in Unplaced
        BY DEF Settled, Unplaced
      <3>2. \A r \in Rules : state'[r] = state[r] \/ \E c : state'[r] = Settled(state[r], c)
        BY <1>14 DEF EvaluateDetach
      <3> QED
        BY <3>1, <3>2
    <2>4. UNCHANGED <<content, flagged, lost, revived>>
      BY <1>14 DEF EvaluateDetach, badVars
    <2> QED
      BY <2>2, <2>3, <2>4 DEF Belonging, NoStrandedLocks
  <1>15. CASE NecroDecide
    BY <1>15, BelongingMoved DEF NecroDecide, ruleVars, badVars, didVars, ghostVars
  <1>16. CASE NecroRecover
    <2> DEFINE p == necro.slot
    <2>1. UNCHANGED <<content, flagged, lost, updated>> /\ revived \subseteq revived'
      BY <1>16 DEF NecroRecover, Revive, badVars, didVars
    <2>2. \A q \in Rules, x \in Slots : lock'[q][x] # "NONE" => lock[q][x] # "NONE"
      BY <1>0, <1>16 DEF NecroRecover, MoveLocks, TablesTyped, LockTable, LockRow, LockStates
    <2>3. \A q \in Rules : state'[q] \in Unplaced => state[q] \in Unplaced
      BY <1>16 DEF NecroRecover, Unplaced
    <2> QED
      BY <2>1, <2>2, <2>3, BelongingMoved
  <1>17. CASE NecroLost
    <2> DEFINE p == necro.slot
    <2>1. p \in Slots
      BY <1>0, <1>17, NecroBusy DEF NecroLost
    <2>2. CASE Exists(p)
      <3>1. /\ revived \subseteq revived' /\ lost' = lost \cup {p[1]}
            /\ content' = content \ {p[1]} /\ flagged' = flagged \ {p[1]}
            /\ updated' = IF p[1] \in content THEN updated \cup {"DETACH"} ELSE updated
        BY <1>17, <2>2 DEF NecroLost, Revive
      <3>2. \A r \in Rules, q \in Slots : lock'[r][q] = IF q = p THEN "NONE" ELSE lock[r][q]
        BY <1>0, <1>17, <2>1, <2>2 DEF NecroLost, TablesTyped, LockTable, LockRow
      <3>3. \A r \in Rules : state'[r] \in Unplaced => state[r] \in Unplaced
        <4>1. \A s, c : Settled(s, c) \in Unplaced => s \in Unplaced
          BY DEF Settled, Unplaced
        <4>2. \A r \in Rules : state'[r] = state[r] \/ \E c : state'[r] = Settled(state[r], c)
          BY <1>17, <2>2 DEF NecroLost
        <4> QED
          BY <4>1, <4>2
      <3> HIDE DEF p
      <3> QED
        BY <3>1, <3>2, <3>3 DEF Belonging, NoStrandedLocks
    <2>3. CASE ~Exists(p)
      BY <1>17, <2>3, BelongingMoved DEF NecroLost
    <2> QED
      BY <2>2, <2>3
  <1>18. CASE UNCHANGED vars
    BY <1>18, BelongingMoved DEF vars, ruleVars, badVars, didVars, ghostVars
  <1> QED
    BY <1>1, <1>2, <1>3, <1>4, <1>5, <1>6, <1>7, <1>8, <1>9, <1>10, <1>11, <1>12, <1>13, <1>14,
       <1>15, <1>16, <1>17, <1>18
    DEF Next, RuleStep, SlotStep, DenyRule

\* Only rules that have been applied hold locks, and only on files of the
\* dataset or of a detachment that is still queued.
THEOREM LocksBelong == Spec => []Belonging
  <1>1. Init => Belonging
    BY DEF Init, Belonging, NoStrandedLocks, NoLocks, NoLock
  <1>2. TypeOK /\ LockProtection /\ Belonging /\ [Next]_vars => Belonging'
    BY BelongingStep
  <1> QED
    BY <1>1, <1>2, TypeCorrect, LockedIsProtected, PTL DEF Spec

\* No lock is left on a file that is not in the dataset any more unless the
\* evaluator still has to look at it.
THEOREM NoLockIsStranded == Spec => []NoStrandedLocks
  <1>1. Belonging => NoStrandedLocks
    BY DEF Belonging
  <1> QED
    BY <1>1, LocksBelong, PTL
-----------------------------------------------------------------------------
(***************************************************************************)
(* The counters of a rule.  Every function of the code changes them by     *)
(* hand; the lemmas say that each of those changes is the one that the     *)
(* locks make.                                                             *)
(***************************************************************************)
\* Sizes of sets of slots: they are natural numbers, 0 only for the empty set,
\* disjoint sets add up, subsets subtract.
LEMMA SlotSets ==
  /\ \A A \in SUBSET Slots : /\ IsFiniteSet(A) /\ Cardinality(A) \in Nat
                             /\ Cardinality(A) = 0 <=> A = {}
  /\ \A A, B \in SUBSET Slots : A \cap B = {} =>
       Cardinality(A \cup B) = Cardinality(A) + Cardinality(B)
  /\ \A A, B \in SUBSET Slots : B \subseteq A =>
       Cardinality(A \ B) = Cardinality(A) - Cardinality(B)
  <1>0. IsFiniteSet(Slots)
    BY FS_Product, RuleEngineAssumption DEF Slots
  <1>1. \A A \in SUBSET Slots : /\ IsFiniteSet(A) /\ Cardinality(A) \in Nat
                                /\ Cardinality(A) = 0 <=> A = {}
    BY <1>0, FS_Subset, FS_CardinalityType, FS_EmptySet
  <1>2. ASSUME NEW A \in SUBSET Slots, NEW B \in SUBSET Slots, A \cap B = {}
        PROVE  Cardinality(A \cup B) = Cardinality(A) + Cardinality(B)
    <2>1. Cardinality(A \cup B) = Cardinality(A) + Cardinality(B) - Cardinality(A \cap B)
      BY <1>1, FS_Union
    <2>2. Cardinality(A \cap B) = 0
      BY <1>2, FS_EmptySet
    <2> QED
      BY <1>1, <2>1, <2>2
  <1>3. ASSUME NEW A \in SUBSET Slots, NEW B \in SUBSET Slots, B \subseteq A
        PROVE  Cardinality(A \ B) = Cardinality(A) - Cardinality(B)
    <2>1. Cardinality(A \ B) = Cardinality(A) - Cardinality(A \cap B)
      BY <1>1, FS_Difference
    <2>2. A \cap B = B
      BY <1>3
    <2> QED
      BY <2>1, <2>2
  <1> QED
    BY <1>1, <1>2, <1>3

\* Recounting after the locks of m were added gives what AddAll computes.
LEMMA RecountAdded ==
  ASSUME NEW l, NEW m, NEW l2,
         \A p \in Slots : m[p] # "NONE" => l[p] = "NONE",
         \A p \in Slots : l2[p] = IF m[p] # "NONE" THEN m[p] ELSE l[p]
  PROVE  Recount(l2) = AddAll(Recount(l), m)
  <1>1. ASSUME NEW s \in LockStates
        PROVE  Cardinality(InState(l2, s)) = Cardinality(InState(l, s)) + Cardinality(InState(m, s))
    <2>1. s # "NONE"
      BY DEF LockStates
    <2>2. InState(l2, s) = InState(l, s) \cup InState(m, s)
      BY <2>1 DEF InState
    <2>3. InState(l, s) \cap InState(m, s) = {}
      BY <2>1 DEF InState
    <2>4. InState(l, s) \in SUBSET Slots /\ InState(m, s) \in SUBSET Slots
      BY DEF InState
    <2> QED
      BY <2>2, <2>3, <2>4, SlotSets
  <1> QED
    BY <1>1 DEF Recount, AddAll

\* Recounting after the locks of g were removed gives what SubAll computes.
LEMMA RecountRemoved ==
  ASSUME NEW l, NEW g, NEW l2,
         \A p \in Slots : g[p] \in {"NONE", l[p]},
         \A p \in Slots : l2[p] = IF g[p] # "NONE" THEN "NONE" ELSE l[p]
  PROVE  Recount(l2) = SubAll(Recount(l), g)
  <1>1. ASSUME NEW s \in LockStates
        PROVE  Cardinality(InState(l2, s)) = Cardinality(InState(l, s)) - Cardinality(InState(g, s))
    <2>1. s # "NONE"
      BY DEF LockStates
    <2>2. InState(l2, s) = InState(l, s) \ InState(g, s)
      BY <2>1 DEF InState
    <2>3. InState(g, s) \subseteq InState(l, s)
      BY <2>1 DEF InState
    <2>4. InState(l, s) \in SUBSET Slots /\ InState(g, s) \in SUBSET Slots
      BY DEF InState
    <2> QED
      BY <2>2, <2>3, <2>4, SlotSets
  <1> QED
    BY <1>1 DEF Recount, SubAll

\* Recounting after one lock changed its state gives what Moved computes.
LEMMA RecountMoved ==
  ASSUME NEW l \in LockRow, NEW p \in Slots, l[p] # "NONE", NEW to \in LockStates
  PROVE  Recount([l EXCEPT ![p] = to]) = Moved(Recount(l), l[p], to)
  <1> DEFINE l2 == [l EXCEPT ![p] = to]
  <1>0. \A q \in Slots : l2[q] = IF q = p THEN to ELSE l[q]
    BY DEF LockRow
  <1> HIDE DEF l2
  <1>1. ASSUME NEW s \in LockStates
        PROVE  Cardinality(InState(l2, s)) =
                 Cardinality(InState(l, s)) + (IF s = to THEN 1 ELSE 0) - (IF s = l[p] THEN 1 ELSE 0)
    <2>0. /\ IsFiniteSet(InState(l, s)) /\ Cardinality(InState(l, s)) \in Nat
          /\ (p \in InState(l, s) <=> s = l[p])
      BY SlotSets DEF InState
    <2>1. CASE s = to /\ s = l[p]
      <3>1. InState(l2, s) = InState(l, s)
        BY <1>0, <2>1 DEF InState
      <3> QED
        BY <2>0, <2>1, <3>1
    <2>2. CASE s = to /\ s # l[p]
      <3>1. InState(l2, s) = InState(l, s) \cup {p}
        BY <1>0, <2>2 DEF InState
      <3> QED
        BY <2>0, <2>2, <3>1, FS_AddElement
    <2>3. CASE s # to /\ s = l[p]
      <3>1. InState(l2, s) = InState(l, s) \ {p}
        BY <1>0, <2>3 DEF InState
      <3>2. Cardinality(InState(l, s) \ {p}) = Cardinality(InState(l, s)) - 1
        BY <2>0, <2>3, FS_RemoveElement
      <3> QED
        BY <2>0, <2>3, <3>1, <3>2
    <2>4. CASE s # to /\ s # l[p]
      <3>1. InState(l2, s) = InState(l, s)
        BY <1>0, <2>4 DEF InState
      <3> QED
        BY <2>0, <2>4, <3>1
    <2> QED
      BY <2>1, <2>2, <2>3, <2>4
  <1>2. Recount(l2) = Moved(Recount(l), l[p], to)
    BY <1>1 DEF Recount, Moved
  <1> QED
    BY <1>2 DEF l2

\* The state s and the counters c of a rule agree with its locks l.
Tallied(s, c, l) ==
  /\ s \notin {"SUSPENDED", "STUCK"} => c = Recount(l)
  /\ s = "OK" => \A p \in Slots : l[p] \in {"NONE", "OK"}
  /\ s = "REPLICATING" => InState(l, "STUCK") = {} /\ InState(l, "REPLICATING") # {}

Counted == \A r \in Rules \ miscounted : Tallied(state[r], locks_cnt[r], lock[r])

StaysTallied(r) ==
  Tallied(state[r], locks_cnt[r], lock[r]) => Tallied(state'[r], locks_cnt'[r], lock'[r])

\* The invariant implies both properties.
LEMMA CountedSuffices == Counted => CountersExact /\ StateAgrees
  BY DEF Counted, Tallied, CountersExact, StateAgrees

\* A step keeps the invariant if it keeps it rule by rule.
LEMMA CountedKept ==
  ASSUME Counted, miscounted \subseteq miscounted', \A r \in Rules \ miscounted' : StaysTallied(r)
  PROVE  Counted'
  BY DEF Counted, StaysTallied

\* A counter is a natural number, and 0 exactly if no lock is in its state.
LEMMA RecountZero ==
  \A l : \A s \in LockStates : Recount(l)[s] \in Nat /\ (Recount(l)[s] = 0 <=> InState(l, s) = {})
  <1> TAKE l
  <1> TAKE s \in LockStates
  <1>1. InState(l, s) \in SUBSET Slots /\ Recount(l)[s] = Cardinality(InState(l, s))
    BY DEF InState, Recount
  <1> QED
    BY <1>1, SlotSets

\* A row without REPLICATING and STUCK locks has OK locks only.
LEMMA AllOk ==
  ASSUME NEW l \in LockRow, Recount(l)["REPLICATING"] = 0, Recount(l)["STUCK"] = 0
  PROVE  \A p \in Slots : l[p] \in {"NONE", "OK"}
  <1>1. InState(l, "REPLICATING") = {} /\ InState(l, "STUCK") = {}
    BY RecountZero DEF LockStates
  <1> QED
    BY <1>1 DEF InState, LockRow, MaybeLock, LockStates

\* The states that inject_rule and repair_rule derive from exact counters agree
\* with the locks.
LEMMA DerivedTallied ==
  ASSUME NEW l \in LockRow
  PROVE  /\ Tallied(AppliedState(Recount(l)), Recount(l), l)
         /\ Tallied(RepairedState(Recount(l)), Recount(l), l)
  <1> DEFINE c == Recount(l)
  <1>1. /\ c["REPLICATING"] \in Nat /\ (c["REPLICATING"] = 0 <=> InState(l, "REPLICATING") = {})
        /\ c["STUCK"] \in Nat /\ (c["STUCK"] = 0 <=> InState(l, "STUCK") = {})
    BY RecountZero DEF LockStates
  <1>2. c["REPLICATING"] = 0 /\ c["STUCK"] = 0 => \A p \in Slots : l[p] \in {"NONE", "OK"}
    BY AllOk
  <1> HIDE DEF c
  <1>3. Tallied(AppliedState(c), Recount(l), l) /\ Tallied(RepairedState(c), Recount(l), l)
    BY <1>1, <1>2 DEF Tallied, AppliedState, RepairedState, c
  <1> QED
    BY <1>3 DEF c

\* So does the state of a rule that loses locks.
LEMMA SettledTallied ==
  ASSUME NEW l \in LockRow, NEW l2 \in LockRow, NEW s, NEW c, NEW c2,
         Tallied(s, c, l),
         \A p \in Slots : l2[p] \in {"NONE", l[p]},
         s \notin {"SUSPENDED", "STUCK"} => c2 = Recount(l2)
  PROVE  Tallied(Settled(s, c2), c2, l2)
  <1>1. CASE s \in {"SUSPENDED", "STUCK"}
    BY <1>1 DEF Tallied, Settled
  <1>2. CASE s \notin {"SUSPENDED", "STUCK"}
    <2>1. c2 = Recount(l2)
      BY <1>2
    <2>2. /\ c2["REPLICATING"] \in Nat /\ (c2["REPLICATING"] = 0 <=> InState(l2, "REPLICATING") = {})
          /\ c2["STUCK"] \in Nat /\ (c2["STUCK"] = 0 <=> InState(l2, "STUCK") = {})
      BY <2>1, RecountZero DEF LockStates
    <2>3. CASE c2["REPLICATING"] = 0 /\ c2["STUCK"] = 0
      BY <1>2, <2>1, <2>3, AllOk DEF Tallied, Settled
    <2>4. CASE ~(c2["REPLICATING"] = 0 /\ c2["STUCK"] = 0)
      <3>1. Settled(s, c2) = s
        BY <2>4 DEF Settled
      <3>2. s = "OK" => \A p \in Slots : l2[p] \in {"NONE", "OK"}
        BY DEF Tallied
      <3>3. s = "REPLICATING" => InState(l2, "STUCK") = {}
        BY DEF Tallied, InState
      <3>4. s = "REPLICATING" => InState(l2, "REPLICATING") # {}
        BY <2>2, <2>4, <3>3
      <3> QED
        BY <2>1, <3>1, <3>2, <3>3, <3>4 DEF Tallied
    <2> QED
      BY <2>3, <2>4
  <1> QED
    BY <1>1, <1>2
\* Applying a rule whose counters are exact keeps them exact and gives it the
\* state that its locks call for; no other rule is touched.
LEMMA ApplyTallied ==
  ASSUME TablesTyped, RulesTyped, NEW r \in Rules, NEW n, Apply(r, n)
  PROVE  /\ locks_cnt[r] = Recount(lock[r]) => Tallied(state'[r], locks_cnt'[r], lock'[r])
         /\ \A q \in Rules \ {r} : StaysTallied(q)
  <1>1. PICK m \in Choices(r, n, content, lock[r], replica) :
          /\ Grant([NoLocks EXCEPT ![r] = m])
          /\ locks_cnt' = [locks_cnt EXCEPT ![r] = AddAll(@, m)]
          /\ state' = [state EXCEPT ![r] = AppliedState(AddAll(locks_cnt[r], m))]
    BY DEF Apply
  <1>2. Fits(m, lock[r], replica)
    BY ChoicesFit
  <1>3. lock' \in LockTable
    BY ApplyStep DEF TablesTyped
  <1> DEFINE new == [NoLocks EXCEPT ![r] = m]
  <1>4. \A q \in Rules, p \in Slots : new[q][p] = IF q = r THEN m[p] ELSE "NONE"
    BY DEF NoLocks, NoLock
  <1>5. \A q \in Rules, p \in Slots : lock'[q][p] = IF q = r /\ m[p] # "NONE" THEN m[p] ELSE lock[q][p]
    <2>1. Grant(new)
      BY <1>1
    <2> HIDE DEF new
    <2> QED
      BY <1>4, <2>1, GrantedLocks
  <1>6. Recount(lock'[r]) = AddAll(Recount(lock[r]), m)
    BY <1>2, <1>5, RecountAdded DEF Fits
  <1>7. lock'[r] \in LockRow
    BY <1>3 DEF LockTable
  <1>8. ASSUME locks_cnt[r] = Recount(lock[r]) PROVE Tallied(state'[r], locks_cnt'[r], lock'[r])
    <2>1. /\ locks_cnt'[r] = AddAll(locks_cnt[r], m)
          /\ state'[r] = AppliedState(AddAll(locks_cnt[r], m))
      BY <1>1 DEF RulesTyped
    <2>2. locks_cnt'[r] = Recount(lock'[r]) /\ state'[r] = AppliedState(Recount(lock'[r]))
      BY <1>6, <1>8, <2>1
    <2> QED
      BY <1>7, <2>2, DerivedTallied
  <1>9. ASSUME NEW q \in Rules \ {r} PROVE StaysTallied(q)
    <2>1. lock'[q] = lock[q]
      BY <1>3, <1>5 DEF TablesTyped, LockTable, LockRow
    <2> QED
      BY <1>1, <2>1 DEF StaysTallied, RulesTyped
  <1> QED
    BY <1>8, <1>9

\* A repair that reaches the locks leaves exact counters and the state that the
\* locks call for, whatever the counters were before.
LEMMA RepairTallied ==
  ASSUME TablesTyped, RulesTyped, content \subseteq Files, NEW r \in Rules, RepairLocks(r)
  PROVE  /\ Tallied(state'[r], locks_cnt'[r], lock'[r])
         /\ \A q \in Rules \ {r} : StaysTallied(q)
  <1>1. PICK m1, L, S, fate, to, m2 : RepairPlan(r, m1, L, S, fate, to, m2)
    BY RepairHasPlan
  <1>2. /\ L \in LockTable /\ Fits(m1, lock[r], replica) /\ Fits(m2, L[r], S)
        /\ DOMAIN fate = {p \in SlotsOf(content) : L[r][p] = "STUCK"}
        /\ DOMAIN fate \subseteq Slots
    <2>1. PlanFacts(r, m1, L, S, fate, to, m2)
      BY <1>1, PlanParts
    <2> QED
      BY <2>1 DEF PlanFacts
  <1> DEFINE new1 == [NoLocks EXCEPT ![r] = m1]
             C    == LockCntAfter(lock_cnt, new1)
             K    == TombstoneAfter(tombstone, new1)
             Q    == RequestAfter(request, replica, new1)
             c    == AddAll(Recount(lock[r]), m1)
  <1>3. L = WithLocks(lock, new1) /\ RepairStuck(r, L, S, C, K, Q, c, fate, m2)
    BY <1>1 DEF RepairPlan
  <1>4. \A q \in Rules, p \in Slots : L[q][p] = IF q = r /\ m1[p] # "NONE" THEN m1[p] ELSE lock[q][p]
    BY <1>3 DEF WithLocks, NoLocks, NoLock
  <1>5. c = Recount(L[r])
    BY <1>2, <1>4, RecountAdded DEF Fits
  <1> HIDE DEF new1, C, K, Q, c
  <1> DEFINE created == {p \in Slots : m2[p] # "NONE"}
             fated(k) == {p \in DOMAIN fate : fate[p] = k}
             becomes == [p \in Slots |-> IF p \in created THEN m2[p]
                                         ELSE IF p \in fated("ok") THEN "OK"
                                         ELSE IF p \in fated("retry") THEN "REPLICATING" ELSE "NONE"]
             leaves  == [p \in Slots |-> IF p \in DOMAIN fate \ fated("keep") THEN "STUCK" ELSE "NONE"]
             between == [p \in Slots |-> IF leaves[p] # "NONE" THEN "NONE" ELSE L[r][p]]
             count   == AddAll(SubAll(c, leaves), becomes)
  <1>6. /\ lock' = [L EXCEPT ![r] = [p \in Slots |->
              IF becomes[p] # "NONE" THEN becomes[p]
              ELSE IF leaves[p] # "NONE" THEN "NONE" ELSE L[r][p]]]
        /\ locks_cnt' = [locks_cnt EXCEPT ![r] = count]
        /\ state' = [state EXCEPT ![r] = RepairedState(count)]
    BY <1>3, Zenon DEF RepairStuck
  <1>7. \A p \in Slots : leaves[p] \in {"NONE", L[r][p]}
    BY <1>2
  <1>8. \A p \in Slots : becomes[p] # "NONE" => between[p] = "NONE"
    <2>1. \A p \in created : L[r][p] = "NONE"
      BY <1>2 DEF Fits
    <2> QED
      BY <2>1
  <1>9. lock'[r] = [p \in Slots |-> IF becomes[p] # "NONE" THEN becomes[p] ELSE between[p]]
    <2>1. lock'[r] = [p \in Slots |-> IF becomes[p] # "NONE" THEN becomes[p]
                                      ELSE IF leaves[p] # "NONE" THEN "NONE" ELSE L[r][p]]
      <3> HIDE DEF becomes, leaves, count
      <3> QED
        BY <1>2, <1>6 DEF LockTable
    <2> HIDE DEF becomes, leaves
    <2> QED
      BY <2>1
  <1>10. lock'[r] \in LockRow
    <2>1. TablesTyped'
      BY RepairLocksStep
    <2> QED
      BY <2>1 DEF TablesTyped, LockTable
  <1>11. Recount(between) = SubAll(Recount(L[r]), leaves)
    <2>1. \A p \in Slots : between[p] = IF leaves[p] # "NONE" THEN "NONE" ELSE L[r][p]
      OBVIOUS
    <2> HIDE DEF between, leaves
    <2> QED
      BY <1>7, <2>1, RecountRemoved
  <1>12. Recount(lock'[r]) = AddAll(Recount(between), becomes)
    <2> HIDE DEF between, becomes
    <2>1. \A p \in Slots : lock'[r][p] = IF becomes[p] # "NONE" THEN becomes[p] ELSE between[p]
      BY <1>9
    <2> QED
      BY <1>8, <2>1, RecountAdded
  <1>13. count = Recount(lock'[r])
    BY <1>5, <1>11, <1>12
  <1>14. locks_cnt'[r] = count /\ state'[r] = RepairedState(count)
    <2> HIDE DEF count
    <2> QED
      BY <1>6 DEF RulesTyped
  <1> HIDE DEF count, becomes, leaves, between
  <1>15. Tallied(state'[r], locks_cnt'[r], lock'[r])
    BY <1>10, <1>13, <1>14, DerivedTallied
  <1>16. ASSUME NEW q \in Rules \ {r} PROVE StaysTallied(q)
    <2>1. lock'[q] = L[q]
      BY <1>2, <1>6 DEF LockTable
    <2>2. L[q] = lock[q]
      BY <1>2, <1>4 DEF TablesTyped, LockTable, LockRow
    <2> QED
      BY <1>6, <2>1, <2>2 DEF StaysTallied, RulesTyped
  <1> QED
    BY <1>15, <1>16

\* A rule whose state, counters and locks stay stays tallied.
LEMMA SameTallied ==
  ASSUME NEW r \in Rules, state'[r] = state[r], locks_cnt'[r] = locks_cnt[r], lock'[r] = lock[r]
  PROVE  StaysTallied(r)
  BY DEF StaysTallied

\* So does one that becomes SUSPENDED or STUCK.
LEMMA StoppedTallied ==
  ASSUME NEW r \in Rules, state'[r] \in {"SUSPENDED", "STUCK"}
  PROVE  StaysTallied(r)
  BY DEF StaysTallied, Tallied

\* The state of a rule after an evaluation: STUCK stays; one whose locks were
\* not STUCK before takes the state of its counters.
LEMMA AttachedCases ==
  /\ \A b, a : AttachedState("STUCK", b, a) = "STUCK"
  /\ \A s \in {"OK", "REPLICATING"} : \A b, a :
       b["STUCK"] = 0 /\ a["STUCK"] \in Nat /\ a["REPLICATING"] \in Nat =>
         AttachedState(s, b, a) = IF a["STUCK"] > 0 THEN "STUCK"
                                  ELSE IF a["REPLICATING"] > 0 THEN "REPLICATING" ELSE "OK"
  BY DEF AttachedState

\* What moving the locks on slot p does to one rule.
LEMMA MovedLocks ==
  ASSUME TablesTyped, RulesTyped, NEW p \in Slots, NEW from \in SUBSET LockStates, NEW to \in LockStates,
         MoveLocks(p, from, to), NEW r \in Rules
  PROVE  /\ lock[r][p] \notin from => lock'[r] = lock[r] /\ locks_cnt'[r] = locks_cnt[r]
         /\ lock[r][p] \in from => /\ lock'[r] = [lock[r] EXCEPT ![p] = to]
                                   /\ locks_cnt[r] = Recount(lock[r]) => locks_cnt'[r] = Recount(lock'[r])
  <1>1. /\ lock[r][p] \notin from => lock'[r] = lock[r] /\ locks_cnt'[r] = locks_cnt[r]
        /\ lock[r][p] \in from => /\ lock'[r] = [lock[r] EXCEPT ![p] = to]
                                  /\ locks_cnt'[r] = Moved(locks_cnt[r], lock[r][p], to)
    BY DEF MoveLocks
  <1>2. lock[r] \in LockRow
    BY DEF TablesTyped, LockTable
  <1>3. lock[r][p] \in from => lock[r][p] # "NONE"
    BY DEF LockStates
  <1> QED
    BY <1>1, <1>2, <1>3, RecountMoved

\* A replica that becomes available keeps every rule tallied: a REPLICATING
\* rule is OK exactly when this was the last transfer it waited for.
LEMMA AvailableTallied ==
  ASSUME TablesTyped, RulesTyped, NEW p \in Slots, BecomeAvailable(p), NEW r \in Rules,
         state[r] \in Unplaced => lock[r][p] = "NONE"
  PROVE  StaysTallied(r)
  <1> SUFFICES ASSUME Tallied(state[r], locks_cnt[r], lock[r])
               PROVE  Tallied(state'[r], locks_cnt'[r], lock'[r])
    BY DEF StaysTallied
  <1>1. MoveLocks(p, {"REPLICATING", "STUCK"}, "OK")
    BY DEF BecomeAvailable
  <1>2. state'[r] = IF /\ lock[r][p] \in {"REPLICATING", "STUCK"}
                       /\ state[r] = "REPLICATING"
                       /\ locks_cnt'[r]["STUCK"] <= 0 /\ locks_cnt'[r]["REPLICATING"] = 0
                    THEN "OK" ELSE state[r]
    BY DEF BecomeAvailable
  <1>3. state[r] \in RuleStates
    BY DEF RulesTyped
  <1>4. CASE lock[r][p] \notin {"REPLICATING", "STUCK"}
    <2>1. lock'[r] = lock[r] /\ locks_cnt'[r] = locks_cnt[r] /\ state'[r] = state[r]
      BY <1>1, <1>2, <1>4 DEF MoveLocks
    <2> QED
      BY <2>1
  <1>5. CASE lock[r][p] \in {"REPLICATING", "STUCK"} /\ state[r] \in {"SUSPENDED", "STUCK"}
    BY <1>2, <1>5 DEF Tallied
  <1>6. CASE lock[r][p] \in {"REPLICATING", "STUCK"} /\ state[r] \notin {"SUSPENDED", "STUCK"}
    <2>1. state[r] = "REPLICATING"
      BY <1>3, <1>6 DEF Tallied, RuleStates, Unplaced
    <2>2. lock'[r] = [lock[r] EXCEPT ![p] = "OK"] /\ locks_cnt'[r] = Recount(lock'[r])
      BY <1>1, <1>6, MovedLocks DEF LockStates, Tallied
    <2>3. lock[r] \in LockRow /\ lock'[r] \in LockRow
      BY <2>2 DEF TablesTyped, LockTable, LockRow, MaybeLock, LockStates
    <2>4. InState(lock'[r], "STUCK") = {}
      BY <2>1, <2>2, <2>3 DEF Tallied, InState, LockRow
    <2>5. /\ locks_cnt'[r]["STUCK"] = 0
          /\ locks_cnt'[r]["REPLICATING"] \in Nat
          /\ locks_cnt'[r]["REPLICATING"] = 0 <=> InState(lock'[r], "REPLICATING") = {}
      BY <2>2, <2>4, RecountZero DEF LockStates
    <2>6. CASE locks_cnt'[r]["REPLICATING"] = 0
      <3>1. state'[r] = "OK"
        BY <1>2, <1>6, <2>1, <2>5, <2>6
      <3>2. \A q \in Slots : lock'[r][q] \in {"NONE", "OK"}
        BY <2>2, <2>3, <2>5, <2>6, AllOk
      <3> QED
        BY <2>2, <3>1, <3>2 DEF Tallied
    <2>7. CASE locks_cnt'[r]["REPLICATING"] # 0
      <3>1. state'[r] = "REPLICATING"
        BY <1>2, <2>1, <2>7
      <3> QED
        BY <2>2, <2>4, <2>5, <2>7, <3>1, Zenon DEF Tallied
    <2> QED
      BY <2>6, <2>7
  <1> QED
    BY <1>4, <1>5, <1>6
\* Every step keeps the counters and the states of the rules in agreement with
\* their locks.
LEMMA CountedStep ==
  ASSUME TypeOK, Belonging, Counted, [Next]_vars
  PROVE  Counted'
  <1>0. TablesTyped /\ RulesTyped /\ RestTyped /\ content \subseteq Files
    BY TypeSplit DEF RestTyped
  <1>b. \A r \in Rules, p \in Slots : state[r] \in Unplaced => lock[r][p] = "NONE"
    BY DEF Belonging
  <1>t. \A r \in Rules : /\ state[r] \in RuleStates /\ lock[r] \in LockRow
                         /\ state[r] \notin {"SUSPENDED", "STUCK"} \cup Unplaced => state[r] \in {"OK", "REPLICATING"}
    BY <1>0 DEF RulesTyped, TablesTyped, LockTable, RuleStates, Unplaced
  <1>1. ASSUME NEW r \in Rules, NEW n \in 1..MaxCopies, AddRule(r, n) PROVE Counted'
    <2>0. miscounted' = miscounted /\ state[r] = "NEW"
      BY <1>1 DEF AddRule, ghostVars
    <2>1. CASE Apply(r, n)
      <3>1. r \notin miscounted => locks_cnt[r] = Recount(lock[r])
        BY <2>0 DEF Counted, Tallied
      <3>2. \A q \in Rules \ miscounted' : StaysTallied(q)
        BY <1>0, <2>0, <2>1, <3>1, ApplyTallied DEF StaysTallied
      <3> QED
        BY <2>0, <3>2, CountedKept
    <2>2. CASE /\ UNCHANGED <<lock, locks_cnt>>
               /\ \E s \in {"WAITING_APPROVAL", "INJECT"} : state' = [state EXCEPT ![r] = s]
      <3>1. \A q \in Rules \ {r} : StaysTallied(q)
        BY <1>0, <2>2, SameTallied DEF RulesTyped
      <3>2. StaysTallied(r)
        BY <1>0, <2>0, <2>2 DEF StaysTallied, Tallied, RulesTyped
      <3> QED
        BY <2>0, <3>1, <3>2, CountedKept
    <2> QED
      BY <1>1, <2>1, <2>2 DEF AddRule
  <1>2. ASSUME NEW r \in Rules, ApproveRule(r) PROVE Counted'
    <2>1. /\ UNCHANGED <<locks_cnt, lock, miscounted>> /\ state[r] = "WAITING_APPROVAL"
          /\ state' = [state EXCEPT ![r] = "INJECT"]
      BY <1>2 DEF ApproveRule, ghostVars
    <2>2. \A q \in Rules \ {r} : StaysTallied(q)
      BY <1>0, <2>1, SameTallied DEF RulesTyped
    <2>3. StaysTallied(r)
      BY <1>0, <2>1 DEF StaysTallied, Tallied, RulesTyped
    <2> QED
      BY <2>1, <2>2, <2>3, CountedKept
  <1>3. ASSUME NEW r \in Rules, InjectRule(r) PROVE Counted'
    <2>1. CASE /\ Apply(r, copies[r])
               /\ miscounted' = IF locks_cnt[r] = Recount(lock[r]) THEN miscounted ELSE miscounted \cup {r}
      BY <1>0, <2>1, ApplyTallied, CountedKept DEF StaysTallied
    <2>2. CASE /\ UNCHANGED <<locks_cnt, lock, miscounted>>
               /\ state' = state \/ state' = [state EXCEPT ![r] = "SUSPENDED"]
      <3>1. \A q \in Rules \ {r} : StaysTallied(q)
        BY <1>0, <2>2, SameTallied DEF RulesTyped
      <3>2. StaysTallied(r)
        BY <1>0, <2>2, SameTallied, StoppedTallied DEF RulesTyped
      <3> QED
        BY <2>2, <3>1, <3>2, CountedKept
    <2> QED
      BY <1>3, <2>1, <2>2 DEF InjectRule
  <1>4. ASSUME NEW r \in Rules, DeleteRule(r) PROVE Counted'
    <2>1. \A q \in Rules, p \in Slots :
            lock'[q][p] = IF q = r /\ p \in Held(lock[r], Files) THEN "NONE" ELSE lock[q][p]
      BY <1>4 DEF DeleteRule, Drop
    <2>2. \A p \in Slots : lock'[r][p] = "NONE"
      BY <2>1 DEF Held, SlotsOf, Slots
    <2>3. /\ miscounted' = miscounted /\ state' = [state EXCEPT ![r] = "DELETED"]
          /\ locks_cnt' = [locks_cnt EXCEPT ![r] = [s \in LockStates |-> 0]]
      BY <1>4 DEF DeleteRule, ghostVars
    <2>4. lock' \in LockTable
      BY <1>0, <1>4, DeleteRuleStep DEF TablesTyped
    <2>5. StaysTallied(r)
      <3>1. \A s \in LockStates : Recount(lock'[r])[s] = 0
        <4>1. \A s \in LockStates : InState(lock'[r], s) = {}
          BY <2>2 DEF InState, LockStates
        <4> QED
          BY <4>1, RecountZero
      <3>2. Recount(lock'[r]) = [s \in LockStates |-> 0]
        BY <3>1 DEF Recount
      <3> QED
        BY <1>0, <2>3, <3>2 DEF StaysTallied, Tallied, RulesTyped
    <2>6. ASSUME NEW q \in Rules \ {r} PROVE StaysTallied(q)
      <3>1. lock'[q] = lock[q]
        BY <1>0, <2>1, <2>4 DEF TablesTyped, LockTable, LockRow
      <3> QED
        BY <1>0, <2>3, <3>1, SameTallied DEF RulesTyped
    <2> QED
      BY <2>3, <2>5, <2>6, CountedKept
  <1>5. ASSUME NEW r \in Rules, RepairRule(r) PROVE Counted'
    <2>0. miscounted' = miscounted
      BY <1>5 DEF RepairRule
    <2>1. CASE RepairLocks(r)
      BY <1>0, <2>0, <2>1, RepairTallied, CountedKept DEF StaysTallied
    <2>2. CASE RepairSuspends(r) \/ RepairAborts(r)
      <3>1. /\ lock' = lock /\ state'[r] \in {"SUSPENDED", "STUCK"}
            /\ \A q \in Rules \ {r} : state'[q] = state[q] /\ locks_cnt'[q] = locks_cnt[q]
        BY <1>0, <2>2 DEF RepairSuspends, RepairAborts, RulesTyped
      <3> QED
        BY <2>0, <3>1, SameTallied, StoppedTallied, CountedKept
    <2>3. CASE UNCHANGED <<state, locks_cnt, lock>>
      BY <2>0, <2>3, SameTallied, CountedKept
    <2> QED
      BY <1>5, <2>1, <2>2, <2>3 DEF RepairRule
  <1>6. ASSUME NEW r \in Rules, NEW s \in {"SUSPENDED", "STUCK"}, NEW cancel \in BOOLEAN,
               UpdateRule(r, s, cancel)
        PROVE  Counted'
    <2>0. miscounted' = miscounted /\ locks_cnt' = locks_cnt
      BY <1>6 DEF UpdateRule
    <2>1. ASSUME NEW q \in Rules PROVE StaysTallied(q)
      <3> DEFINE hit(p) == /\ lock[q][p] = "REPLICATING" /\ p \in InState(lock[r], "REPLICATING")
                           /\ cancel \/ (q = r /\ s = "STUCK")
      <3>1. /\ lock'[q] = [p \in Slots |-> IF hit(p) THEN "STUCK" ELSE lock[q][p]]
            /\ state'[q] = IF q = r THEN s
                           ELSE IF state[q] # "SUSPENDED" /\ \E p \in Slots : hit(p) THEN "STUCK" ELSE state[q]
        BY <1>6 DEF UpdateRule
      <3> HIDE DEF hit
      <3>2. CASE \E p \in Slots : hit(p)
        <4>1. state'[q] \in {"SUSPENDED", "STUCK"}
          BY <3>1, <3>2
        <4> QED
          BY <4>1, StoppedTallied
      <3>3. CASE ~ \E p \in Slots : hit(p)
        <4>1. lock'[q] = lock[q]
          BY <1>t, <3>1, <3>3 DEF LockRow
        <4> QED
          BY <2>0, <3>1, <3>3, <4>1, SameTallied, StoppedTallied
      <3> QED
        BY <3>2, <3>3
    <2> QED
      BY <2>0, <2>1, CountedKept
  <1>7. ASSUME NEW p \in Slots, FinishOk(p) \/ ExpireTemporary(p) PROVE Counted'
    <2>0. miscounted' = miscounted
      BY <1>7 DEF FinishOk, ExpireTemporary
    <2>1. CASE BecomeAvailable(p)
      BY <1>0, <1>b, <2>0, <2>1, AvailableTallied, CountedKept
    <2>2. CASE UNCHANGED <<state, locks_cnt, lock>>
      BY <2>0, <2>2, SameTallied, CountedKept
    <2> QED
      BY <1>7, <2>1, <2>2 DEF FinishOk, ExpireTemporary
  <1>8. ASSUME NEW p \in Slots, FinishFail(p) PROVE Counted'
    <2>0. miscounted' = miscounted
      BY <1>8 DEF FinishFail
    <2>1. CASE Exists(p)
      <3>1. /\ MoveLocks(p, {"OK", "REPLICATING"}, "STUCK")
            /\ state' = [r \in Rules |->
                 IF /\ lock[r][p] \in {"OK", "REPLICATING"}
                    /\ state[r] # "SUSPENDED"
                    /\ locks_cnt'[r]["STUCK"] > 0
                 THEN "STUCK" ELSE state[r]]
        BY <1>8, <2>1 DEF FinishFail
      <3>2. ASSUME NEW r \in Rules PROVE StaysTallied(r)
        <4>1. CASE lock[r][p] \notin {"OK", "REPLICATING"}
          <5>1. lock'[r] = lock[r] /\ locks_cnt'[r] = locks_cnt[r] /\ state'[r] = state[r]
            BY <3>1, <4>1 DEF MoveLocks
          <5> QED
            BY <5>1, SameTallied
        <4>2. CASE state[r] \in {"SUSPENDED", "STUCK"}
          <5>1. state'[r] \in {"SUSPENDED", "STUCK"}
            BY <3>1, <4>2
          <5> QED
            BY <5>1, StoppedTallied
        <4>3. CASE lock[r][p] \in {"OK", "REPLICATING"} /\ state[r] \notin {"SUSPENDED", "STUCK"}
          <5> SUFFICES ASSUME Tallied(state[r], locks_cnt[r], lock[r]) PROVE state'[r] = "STUCK"
            BY StoppedTallied DEF StaysTallied, Tallied
          <5>1. lock'[r] = [lock[r] EXCEPT ![p] = "STUCK"] /\ locks_cnt'[r] = Recount(lock'[r])
            BY <1>0, <3>1, <4>3, MovedLocks DEF LockStates, Tallied
          <5>2. p \in InState(lock'[r], "STUCK")
            BY <1>t, <5>1 DEF InState, LockRow
          <5>3. locks_cnt'[r]["STUCK"] > 0
            BY <5>1, <5>2, RecountZero DEF LockStates
          <5> QED
            BY <3>1, <4>3, <5>3
        <4> QED
          BY <4>1, <4>2, <4>3
      <3> QED
        BY <2>0, <3>2, CountedKept
    <2>2. CASE ~Exists(p)
      BY <1>8, <2>0, <2>2, SameTallied, CountedKept DEF FinishFail
    <2> QED
      BY <2>1, <2>2
  <1>9. ASSUME NEW p \in Slots,
               \/ \E force \in BOOLEAN : DeclareBad(p, force)
               \/ DeclareTemporary(p) \/ NecroPick(p) \/ ReaperMark(p) \/ ReaperDelete(p) \/ ReaperFail(p)
        PROVE  Counted'
    <2>1. UNCHANGED <<state, locks_cnt, lock, miscounted>>
      BY <1>9 DEF DeclareBad, DeclareTemporary, NecroPick, ReaperMark, ReaperDelete, ReaperFail, ruleVars, ghostVars
    <2> QED
      BY <2>1, SameTallied, CountedKept
  <1>10. CASE \/ \E f \in Files : Attach(f) \/ Detach(f)
              \/ \E r \in Rules : InjectFetch(r) \/ RepairFetch(r)
              \/ NecroDecide \/ UNCHANGED vars
    <2>1. UNCHANGED <<state, locks_cnt, lock, miscounted>>
      BY <1>10 DEF Attach, Detach, InjectFetch, RepairFetch, NecroDecide, vars, ruleVars, ghostVars
    <2> QED
      BY <2>1, SameTallied, CountedKept
  <1>11. CASE EvaluateAttach
    <2> DEFINE eligible == IF flagged = {} THEN {}
                           ELSE {r \in Existing : state[r] \notin {"SUSPENDED", "WAITING_APPROVAL", "INJECT"}}
    <2>0. miscounted' = miscounted
      BY <1>11 DEF EvaluateAttach, ghostVars
    <2>1. PICK abort \in SUBSET eligible : \E new \in Assignments(eligible \ abort, flagged) :
            /\ Grant(new)
            /\ locks_cnt' = [r \in Rules |-> AddAll(locks_cnt[r], new[r])]
            /\ state' = [r \in Rules |->
                 IF r \in abort THEN "STUCK"
                 ELSE IF r \in eligible
                   THEN AttachedState(state[r], locks_cnt[r], AddAll(locks_cnt[r], new[r]))
                   ELSE state[r]]
      BY <1>11 DEF EvaluateAttach
    <2>2. PICK new \in Assignments(eligible \ abort, flagged) :
            /\ Grant(new)
            /\ locks_cnt' = [r \in Rules |-> AddAll(locks_cnt[r], new[r])]
            /\ state' = [r \in Rules |->
                 IF r \in abort THEN "STUCK"
                 ELSE IF r \in eligible
                   THEN AttachedState(state[r], locks_cnt[r], AddAll(locks_cnt[r], new[r]))
                   ELSE state[r]]
      BY <2>1
    <2>3. \A r \in Rules : r \notin eligible => new[r] = NoLock
      BY DEF Assignments
    <2>4. \A r \in Rules : r \in eligible => state[r] \in {"OK", "REPLICATING", "STUCK"}
      BY <1>t DEF Existing, Unplaced
    <2> HIDE DEF eligible
    <2>5. new \in LockTable /\ \A r \in Rules : Fits(new[r], lock[r], replica)
      BY AssignmentsFit DEF LockTable
    <2>6. \A r \in Rules, p \in Slots : lock'[r][p] = IF new[r][p] # "NONE" THEN new[r][p] ELSE lock[r][p]
      BY <2>2, GrantedLocks
    <2>7. \A r \in Rules : lock'[r] \in LockRow
      BY <1>0, <1>11, EvaluateAttachStep DEF TablesTyped, LockTable
    <2>8. \A r \in Rules : Recount(lock'[r]) = AddAll(Recount(lock[r]), new[r])
      BY <2>5, <2>6, RecountAdded DEF Fits
    <2>9. ASSUME NEW r \in Rules PROVE StaysTallied(r)
      <3> SUFFICES ASSUME Tallied(state[r], locks_cnt[r], lock[r])
                   PROVE  Tallied(state'[r], locks_cnt'[r], lock'[r])
        BY DEF StaysTallied
      <3>1. CASE r \in abort
        BY <2>2, <3>1 DEF Tallied
      <3>2. CASE r \in eligible \ abort /\ state[r] = "STUCK"
        <4>1. state'[r] = AttachedState(state[r], locks_cnt[r], AddAll(locks_cnt[r], new[r]))
          BY <2>2, <3>2
        <4>2. state'[r] = "STUCK"
          BY <3>2, <4>1, AttachedCases
        <4> QED
          BY <4>2 DEF Tallied
      <3>3. CASE r \in eligible \ abort /\ state[r] # "STUCK"
        <4> DEFINE b == locks_cnt[r]
                   a == locks_cnt'[r]
        <4>1. /\ state[r] \in {"OK", "REPLICATING"} /\ b = Recount(lock[r])
              /\ InState(lock[r], "STUCK") = {}
          BY <2>4, <3>3 DEF Tallied, InState
        <4>2. a = Recount(lock'[r]) /\ state'[r] = AttachedState(state[r], b, a)
          BY <2>2, <2>8, <3>3, <4>1
        <4>3. b["STUCK"] = 0
          BY <4>1, RecountZero DEF LockStates
        <4>4. /\ a["REPLICATING"] \in Nat /\ (a["REPLICATING"] = 0 <=> InState(lock'[r], "REPLICATING") = {})
              /\ a["STUCK"] \in Nat /\ (a["STUCK"] = 0 <=> InState(lock'[r], "STUCK") = {})
          BY <4>2, RecountZero DEF LockStates
        <4>5. a["REPLICATING"] = 0 /\ a["STUCK"] = 0 => \A p \in Slots : lock'[r][p] \in {"NONE", "OK"}
          BY <2>7, <4>2, AllOk
        <4> HIDE DEF a, b
        <4>6. state'[r] = IF a["STUCK"] > 0 THEN "STUCK"
                          ELSE IF a["REPLICATING"] > 0 THEN "REPLICATING" ELSE "OK"
          BY <4>1, <4>2, <4>3, <4>4, AttachedCases
        <4>7. Tallied(state'[r], a, lock'[r])
          BY <4>2, <4>4, <4>5, <4>6 DEF Tallied
        <4> QED
          BY <4>7 DEF a
      <3>4. CASE r \notin eligible
        <4>1. lock'[r] = lock[r]
          BY <1>t, <2>3, <2>6, <2>7, <3>4 DEF NoLock, LockRow
        <4>2. state'[r] = state[r]
          BY <2>2, <3>4
        <4>3. state[r] \notin {"SUSPENDED", "STUCK"} => locks_cnt'[r] = Recount(lock'[r])
          BY <2>2, <2>8 DEF Tallied
        <4> QED
          BY <4>1, <4>2, <4>3 DEF Tallied
      <3> QED
        BY <3>1, <3>2, <3>3, <3>4
    <2> QED
      BY <2>0, <2>9, CountedKept
  <1>12. CASE EvaluateDetach
    <2> DEFINE left == [r \in Rules |-> [p \in Slots |-> IF p \in GivesUp(r) THEN lock[r][p] ELSE "NONE"]]
    <2>0. miscounted' = miscounted
      BY <1>12 DEF EvaluateDetach
    <2>1. /\ \A r \in Rules, p \in Slots : lock'[r][p] = IF p \in GivesUp(r) THEN "NONE" ELSE lock[r][p]
          /\ \A r \in Rules : locks_cnt'[r] = SubAll(locks_cnt[r], left[r])
          /\ \A r \in Rules : state'[r] = IF r \in Existing THEN Settled(state[r], locks_cnt'[r]) ELSE state[r]
      BY <1>12 DEF EvaluateDetach, Drop
    <2>2. \A r \in Rules, p \in Slots : /\ left[r][p] \in {"NONE", lock[r][p]}
                                        /\ lock'[r][p] = IF left[r][p] # "NONE" THEN "NONE" ELSE lock[r][p]
      BY <2>1 DEF GivesUp, Held
    <2> HIDE DEF left
    <2>3. \A r \in Rules : lock'[r] \in LockRow
      BY <1>0, <1>12, EvaluateDetachStep DEF TablesTyped, LockTable
    <2>4. \A r \in Rules : Recount(lock'[r]) = SubAll(Recount(lock[r]), left[r])
      BY <2>2, RecountRemoved
    <2>5. ASSUME NEW r \in Rules PROVE StaysTallied(r)
      <3> SUFFICES ASSUME Tallied(state[r], locks_cnt[r], lock[r])
                   PROVE  Tallied(state'[r], locks_cnt'[r], lock'[r])
        BY DEF StaysTallied
      <3>1. state[r] \notin {"SUSPENDED", "STUCK"} => locks_cnt'[r] = Recount(lock'[r])
        BY <2>1, <2>4 DEF Tallied
      <3>2. CASE r \in Existing
        BY <1>t, <2>1, <2>2, <2>3, <3>1, <3>2, SettledTallied
      <3>3. CASE r \notin Existing
        <4>1. state[r] \in {"NEW", "DELETED"} /\ state'[r] = state[r]
          BY <2>1, <3>3 DEF Existing
        <4> QED
          BY <3>1, <4>1 DEF Tallied
      <3> QED
        BY <3>2, <3>3
    <2> QED
      BY <2>0, <2>5, CountedKept
  <1>13. CASE NecroRecover
    <2> DEFINE p == necro.slot
    <2>0. p \in Slots /\ miscounted' = miscounted
      BY <1>0, <1>13, NecroBusy DEF NecroRecover
    <2>1. CASE Exists(p)
      <3>1. /\ MoveLocks(p, LockStates, "REPLICATING")
            /\ state' = [r \in Rules |->
                 IF lock[r][p] # "NONE" /\ state[r] \notin {"SUSPENDED", "STUCK"}
                 THEN "REPLICATING" ELSE state[r]]
        BY <1>13, <2>1 DEF NecroRecover
      <3> HIDE DEF p
      <3>2. ASSUME NEW r \in Rules PROVE StaysTallied(r)
        <4>1. CASE lock[r][p] = "NONE"
          <5>1. lock'[r] = lock[r] /\ locks_cnt'[r] = locks_cnt[r] /\ state'[r] = state[r]
            BY <3>1, <4>1 DEF MoveLocks, LockStates
          <5> QED
            BY <5>1, SameTallied
        <4>2. CASE state[r] \in {"SUSPENDED", "STUCK"}
          <5>1. state'[r] \in {"SUSPENDED", "STUCK"}
            BY <3>1, <4>2
          <5> QED
            BY <5>1, StoppedTallied
        <4>3. CASE lock[r][p] # "NONE" /\ state[r] \notin {"SUSPENDED", "STUCK"}
          <5> SUFFICES ASSUME Tallied(state[r], locks_cnt[r], lock[r])
                       PROVE  Tallied(state'[r], locks_cnt'[r], lock'[r])
            BY DEF StaysTallied
          <5>1. state[r] \in {"OK", "REPLICATING"} /\ state'[r] = "REPLICATING"
            BY <1>b, <1>t, <2>0, <3>1, <4>3
          <5>2. lock[r][p] \in LockStates
            BY <1>t, <2>0, <4>3 DEF LockRow, MaybeLock
          <5>3. lock'[r] = [lock[r] EXCEPT ![p] = "REPLICATING"] /\ locks_cnt'[r] = Recount(lock'[r])
            BY <1>0, <2>0, <3>1, <5>1, <5>2, MovedLocks DEF LockStates, Tallied
          <5>4. p \in InState(lock'[r], "REPLICATING") /\ InState(lock'[r], "STUCK") = {}
            BY <1>t, <2>0, <5>1, <5>3 DEF InState, LockRow, Tallied
          <5> QED
            BY <5>1, <5>3, <5>4 DEF Tallied
        <4> QED
          BY <4>1, <4>2, <4>3
      <3> QED
        BY <2>0, <3>2, CountedKept
    <2>2. CASE ~Exists(p)
      BY <1>13, <2>0, <2>2, SameTallied, CountedKept DEF NecroRecover
    <2> QED
      BY <2>1, <2>2
  <1>14. CASE NecroLost
    <2> DEFINE p == necro.slot
    <2>0. p \in Slots /\ miscounted' = miscounted
      BY <1>0, <1>14, NecroBusy DEF NecroLost
    <2>1. CASE Exists(p)
      <3>1. /\ \A r \in Rules : lock'[r] = [lock[r] EXCEPT ![p] = "NONE"]
            /\ \A r \in Rules : locks_cnt'[r] = [s \in LockStates |->
                                  locks_cnt[r][s] - (IF lock[r][p] = s THEN 1 ELSE 0)]
            /\ \A r \in Rules : state'[r] = IF lock[r][p] # "NONE" THEN Settled(state[r], locks_cnt'[r]) ELSE state[r]
        BY <1>14, <2>1 DEF NecroLost
      <3> HIDE DEF p
      <3>2. ASSUME NEW r \in Rules PROVE StaysTallied(r)
        <4> SUFFICES ASSUME Tallied(state[r], locks_cnt[r], lock[r])
                     PROVE  Tallied(state'[r], locks_cnt'[r], lock'[r])
          BY DEF StaysTallied
        <4> DEFINE one == [q \in Slots |-> IF q = p THEN lock[r][p] ELSE "NONE"]
        <4>1. /\ \A q \in Slots : lock'[r][q] = IF q = p THEN "NONE" ELSE lock[r][q]
              /\ lock'[r] \in LockRow
          <5>1. lock[r] \in [Slots -> MaybeLock] /\ lock'[r] = [lock[r] EXCEPT ![p] = "NONE"]
            BY <1>t, <3>1 DEF LockRow
          <5> QED
            BY <2>0, <5>1 DEF LockRow, MaybeLock
        <4>2. \A s \in LockStates : Cardinality(InState(one, s)) = IF lock[r][p] = s THEN 1 ELSE 0
          <5> TAKE s \in LockStates
          <5>1. InState(one, s) = IF lock[r][p] = s THEN {p} ELSE {}
            BY <2>0 DEF InState, LockStates
          <5> QED
            BY <5>1, FS_Singleton, FS_EmptySet
        <4>3. locks_cnt'[r] = SubAll(locks_cnt[r], one)
          <5> HIDE DEF one
          <5> QED
            BY <3>1, <4>2 DEF SubAll
        <4>4. Recount(lock'[r]) = SubAll(Recount(lock[r]), one)
          <5>1. \A q \in Slots : /\ one[q] \in {"NONE", lock[r][q]}
                                 /\ lock'[r][q] = IF one[q] # "NONE" THEN "NONE" ELSE lock[r][q]
            BY <4>1
          <5> HIDE DEF one
          <5> QED
            BY <5>1, RecountRemoved
        <4>5. state[r] \notin {"SUSPENDED", "STUCK"} => locks_cnt'[r] = Recount(lock'[r])
          BY <4>3, <4>4 DEF Tallied
        <4>6. CASE lock[r][p] # "NONE"
          <5>1. \A q \in Slots : lock'[r][q] \in {"NONE", lock[r][q]}
            BY <4>1
          <5>2. Tallied(Settled(state[r], locks_cnt'[r]), locks_cnt'[r], lock'[r])
            BY <1>t, <4>1, <4>5, <5>1, SettledTallied
          <5> QED
            BY <3>1, <4>6, <5>2
        <4>7. CASE lock[r][p] = "NONE"
          <5>1. lock'[r] = lock[r] /\ state'[r] = state[r]
            BY <1>t, <3>1, <4>7 DEF LockRow
          <5> QED
            BY <4>5, <5>1 DEF Tallied
        <4> QED
          BY <4>6, <4>7
      <3> QED
        BY <2>0, <3>2, CountedKept
    <2>2. CASE ~Exists(p)
      BY <1>14, <2>0, <2>2, SameTallied, CountedKept DEF NecroLost
    <2> QED
      BY <2>1, <2>2
  <1> QED
    BY <1>1, <1>2, <1>3, <1>4, <1>5, <1>6, <1>7, <1>8, <1>9, <1>10, <1>11, <1>12, <1>13, <1>14
    DEF Next, RuleStep, SlotStep, DenyRule

\* The counters and the state of a rule agree with its locks, whatever order
\* grants, transfers, evaluations, repairs and bad replicas come in.
THEOREM RulesAreCounted == Spec => []Counted
  <1>1. Init => Counted
    <2> SUFFICES ASSUME Init, NEW r \in Rules PROVE Tallied(state[r], locks_cnt[r], lock[r])
      BY DEF Counted
    <2>1. state[r] = "NEW" /\ locks_cnt[r] = [s \in LockStates |-> 0] /\ lock[r] = NoLock
      BY DEF Init, NoLocks
    <2>2. \A s \in LockStates : InState(NoLock, s) = {}
      BY DEF InState, NoLock, LockStates
    <2>3. Recount(NoLock) = [s \in LockStates |-> 0]
      BY <2>2, FS_EmptySet DEF Recount
    <2> QED
      BY <2>1, <2>3 DEF Tallied
  <1>2. TypeOK /\ Belonging /\ Counted /\ [Next]_vars => Counted'
    BY CountedStep
  <1> QED
    BY <1>1, <1>2, TypeCorrect, LocksBelong, PTL DEF Spec

\* The counters of a rule that is OK or REPLICATING are the numbers of its locks.
THEOREM CountersAreExact == Spec => []CountersExact
  BY RulesAreCounted, CountedSuffices, PTL

\* The state of a rule is the one its locks call for.
THEOREM StatesAgree == Spec => []StateAgrees
  BY RulesAreCounted, CountedSuffices, PTL
-----------------------------------------------------------------------------
(***************************************************************************)
(* How many locks there are.  LockCntExact and CopiesKept are inductive    *)
(* together with the number of locks a rule holds on a file: none or all   *)
(* of its copies, unless the file is lost.  That is why a repair never     *)
(* finds a surplus lock, whose deletion would leave lock_cnt too high.     *)
(***************************************************************************)
Number(l, f) == Cardinality(Held(l, {f}))

\* Numbers of locks are natural numbers, and depend only on which slots are locked.
LEMMA Numbering ==
  /\ \A l, f : Number(l, f) \in Nat /\ Held(l, {f}) \in SUBSET Slots
  /\ \A l, l2, f : (\A p \in Slots : p[1] = f => (l[p] = "NONE" <=> l2[p] = "NONE")) =>
                     Number(l2, f) = Number(l, f)
  <1>1. \A l, f : Number(l, f) \in Nat /\ Held(l, {f}) \in SUBSET Slots
    <2>1. \A l, f : Held(l, {f}) \in SUBSET Slots
      BY DEF Held, SlotsOf
    <2> QED
      BY <2>1, SlotSets DEF Number
  <1>2. ASSUME NEW l, NEW l2, NEW f, \A p \in Slots : p[1] = f => (l[p] = "NONE" <=> l2[p] = "NONE")
        PROVE  Number(l2, f) = Number(l, f)
    <2>1. Held(l2, {f}) = Held(l, {f})
      BY <1>2 DEF Held, SlotsOf
    <2> QED
      BY <2>1 DEF Number
  <1> QED
    BY <1>1, <1>2

\* A set of RSEs has as many members as the slots of one file on them.
LEMMA SlotsOfFile ==
  ASSUME NEW f \in Files, NEW X \in SUBSET RSEs
  PROVE  Cardinality({p \in Slots : p[1] = f /\ p[2] \in X}) = Cardinality(X)
  <1> DEFINE P == {p \in Slots : p[1] = f /\ p[2] \in X}
             g == [x \in X |-> <<f, x>>]
  <1>1. IsFiniteSet(X)
    BY FS_Subset, RuleEngineAssumption
  <1>2. g \in [X -> P] /\ \A x \in X : g[x] = <<f, x>>
    BY DEF Slots
  <1>3. \A a, b \in X : g[a] = g[b] => a = b
    BY <1>2
  <1>4. \A p \in P : \E x \in X : g[x] = p
    <2> TAKE p \in P
    <2>1. p[2] \in X /\ p = <<f, p[2]>>
      BY DEF Slots
    <2> QED
      BY <1>2, <2>1
  <1>5. g \in Bijection(X, P)
    BY <1>2, <1>3, <1>4 DEF Bijection, Injection, Surjection, IsInjective
  <1>6. ExistsBijection(X, P)
    BY <1>5 DEF ExistsBijection
  <1> HIDE DEF P
  <1> QED
    BY <1>1, <1>6, FS_Bijection DEF P

\* The RSE selection gives a file that has no lock its n locks, and leaves alone
\* a file that has them or that is not asked for.
LEMMA ChoicesCount ==
  ASSUME NEW r, NEW n \in Nat, NEW F \in SUBSET Files, NEW l, NEW S,
         NEW m \in Choices(r, n, F, l, S), NEW l2,
         \A p \in Slots : l2[p] = IF m[p] # "NONE" THEN m[p] ELSE l[p],
         NEW f \in Files
  PROVE  /\ f \notin F => Number(l2, f) = Number(l, f)
         /\ Number(l, f) = n => Number(l2, f) = n
         /\ f \in F /\ Number(l, f) = 0 => Number(l2, f) = n
  <1>1. PICK T, ready : /\ m = LocksOn(T, S, ready)
                        /\ \E draw \in Draws(r, n, F) : T = Targets(n, F, l, draw)
    BY DEF Choices
  <1>2. PICK draw \in Draws(r, n, F) : T = Targets(n, F, l, draw)
    BY <1>1
  <1>3. \A p \in Slots : m[p] # "NONE" <=> p \in T
    <2>1. \A s, b : LockAt(s, b) # "NONE"
      BY DEF LockAt
    <2> QED
      BY <1>1, <2>1 DEF LocksOn
  <1>4. \A p \in Slots : p \in T <=> /\ p[1] \in F /\ Number(l, p[1]) # n
                                     /\ p[2] \in draw[p[1]] /\ l[p] = "NONE"
    BY <1>2 DEF Targets, SlotsOf, Number
  <1>5. f \notin F \/ Number(l, f) = n => Number(l2, f) = Number(l, f)
    BY <1>3, <1>4, Numbering
  <1>6. ASSUME f \in F, Number(l, f) = 0, n # 0 PROVE Number(l2, f) = n
    <2>1. draw[f] \in SUBSET RSEs /\ Cardinality(draw[f]) = n
      BY <1>6 DEF Draws
    <2>2. \A p \in Slots : p[1] = f => l[p] = "NONE"
      <3>1. Held(l, {f}) = {}
        BY <1>6, Numbering, SlotSets DEF Number
      <3> QED
        BY <3>1 DEF Held, SlotsOf
    <2>3. Held(l2, {f}) = {p \in Slots : p[1] = f /\ p[2] \in draw[f]}
      <3>1. \A p \in Slots : p[1] = f => (l2[p] # "NONE" <=> p[2] \in draw[f])
        BY <1>3, <1>4, <1>6, <2>2
      <3> QED
        BY <3>1 DEF Held, SlotsOf
    <2> QED
      BY <2>1, <2>3, SlotsOfFile DEF Number
  <1> QED
    BY <1>5, <1>6

\* What a rule with n copies holds of each file, when the files of X are lost.
FileCounts(l, n, X) ==
  \A f \in Files : Number(l, f) <= n /\ (f \notin X => Number(l, f) \in {0, n})

\* A grant on files that are not lost completes them.
LEMMA ChoicesKeepCounts ==
  ASSUME NEW r, NEW n \in Nat, NEW F \in SUBSET Files, NEW l, NEW S, NEW X,
         NEW m \in Choices(r, n, F, l, S), NEW l2,
         \A p \in Slots : l2[p] = IF m[p] # "NONE" THEN m[p] ELSE l[p],
         FileCounts(l, n, X), F \cap X = {}
  PROVE  /\ FileCounts(l2, n, X)
         /\ \A f \in F : Number(l2, f) = n
         /\ \A f \in Files \ F : Number(l2, f) = Number(l, f)
  <1>1. \A f \in Files : /\ f \notin F => Number(l2, f) = Number(l, f)
                         /\ Number(l, f) = n => Number(l2, f) = n
                         /\ f \in F /\ Number(l, f) = 0 => Number(l2, f) = n
    BY ChoicesCount
  <1>2. \A f \in F : Number(l, f) \in {0, n}
    BY DEF FileCounts
  <1> QED
    BY <1>1, <1>2 DEF FileCounts

\* No repair finds a lock to be surplus: a rule never holds more locks on a file
\* than its copies, and a STUCK lock is one of them.
LEMMA NoSurplus ==
  ASSUME TablesTyped, RulesTyped, content \subseteq Files, NEW r \in Rules, copies[r] \in Nat,
         NEW m1, NEW L, NEW S, NEW fate, NEW to, NEW m2, RepairPlan(r, m1, L, S, fate, to, m2),
         NEW X, FileCounts(L[r], copies[r], X), NEW p \in DOMAIN fate
  PROVE  fate[p] # "surplus"
  <1> SUFFICES ASSUME fate[p] = "surplus" PROVE FALSE
    OBVIOUS
  <1> DEFINE stuck == {q \in SlotsOf(content) : L[r][q] = "STUCK"}
             good  == IF Hard(r) THEN {q \in SlotsOf(content) : L[r][q] \in {"OK", "REPLICATING"}} ELSE {}
             improves(q) == \/ fate[q] \in {"ok", "retry"}
                            \/ fate[q] = "move" /\ m2[<<q[1], to[q]>>] # "STUCK"
             f == p[1]
             A == {q \in good : q[1] = f}
             B == {q \in {z \in stuck : z[1] = f} : improves(q)}
  <1>1. PlanFacts(r, m1, L, S, fate, to, m2)
    BY PlanParts
  <1>2. DOMAIN fate = stuck /\ p \in stuck
    BY <1>1 DEF PlanFacts
  <1>3. Feasible(r, S, good, fate, to, m2)
    BY DEF RepairPlan
  <1>4. f \in content /\ f \in Files
    BY <1>2 DEF SlotsOf
  <1>5. Cardinality(A) + Cardinality(B) >= copies[r]
    <2> HIDE DEF good
    <2>1. \A g \in Files : \A q \in {z \in stuck : z[1] = g} : fate[q] = "surplus" =>
            Cardinality({z \in good : z[1] = g}) + Cardinality({z \in {y \in stuck : y[1] = g} : improves(z)}) >= copies[r]
      <3> HIDE DEF stuck
      <3> QED
        BY <1>2, <1>3, Zenon DEF Feasible
    <2> QED
      BY <1>2, <1>4, <2>1
  <1>6. /\ A \in SUBSET Slots /\ B \in SUBSET Slots /\ {p} \in SUBSET Slots
        /\ A \cap B = {} /\ (A \cup B) \cap {p} = {}
        /\ (A \cup B) \cup {p} \subseteq Held(L[r], {f})
    <2>1. A \subseteq {q \in SlotsOf(content) : q[1] = f /\ L[r][q] \in {"OK", "REPLICATING"}}
      OBVIOUS
    <2>2. B \subseteq {q \in SlotsOf(content) : q[1] = f /\ L[r][q] = "STUCK"}
      OBVIOUS
    <2>3. p \notin B
      OBVIOUS
    <2> QED
      BY <1>2, <2>1, <2>2, <2>3 DEF SlotsOf, Held
  <1> HIDE DEF A, B
  <1>7. Cardinality((A \cup B) \cup {p}) = Cardinality(A) + Cardinality(B) + 1
    <2>1. Cardinality(A \cup B) = Cardinality(A) + Cardinality(B)
      BY <1>6, SlotSets
    <2>2. (A \cup B) \in SUBSET Slots
      BY <1>6
    <2>3. Cardinality((A \cup B) \cup {p}) = Cardinality(A \cup B) + Cardinality({p})
      BY <1>6, <2>2, SlotSets
    <2>4. Cardinality({p}) = 1
      BY FS_Singleton
    <2> QED
      BY <2>1, <2>3, <2>4
  <1>8. Cardinality((A \cup B) \cup {p}) <= Number(L[r], f)
    <2>1. IsFiniteSet(Held(L[r], {f}))
      BY Numbering, SlotSets
    <2>2. Cardinality((A \cup B) \cup {p}) <= Cardinality(Held(L[r], {f}))
      BY <1>6, <2>1, FS_Subset
    <2> QED
      BY <2>2 DEF Number
  <1>9. Number(L[r], f) <= copies[r]
    BY <1>4 DEF FileCounts
  <1>10. /\ Cardinality(A) \in Nat /\ Cardinality(B) \in Nat
         /\ copies[r] \in Nat /\ Number(L[r], f) \in Nat
    <2>1. Cardinality(A) \in Nat /\ Cardinality(B) \in Nat
      BY <1>6, SlotSets
    <2>2. Number(L[r], f) \in Nat
      BY Numbering
    <2> QED
      BY <2>1, <2>2
  <1> QED
    BY <1>5, <1>7, <1>8, <1>9, <1>10

\* The locks of a rule after its repair, slot by slot.
LEMMA RepairedRow ==
  ASSUME TablesTyped, RulesTyped, content \subseteq Files, NEW r \in Rules, copies[r] \in Nat,
         NEW m1, NEW L, NEW S, NEW fate, NEW to, NEW m2, RepairPlan(r, m1, L, S, fate, to, m2),
         NEW X, FileCounts(L[r], copies[r], X), NEW p \in Slots
  PROVE  lock'[r][p] # "NONE" <=>
           \/ m2[p] # "NONE"
           \/ L[r][p] # "NONE" /\ p \notin DOMAIN to
  <1>1. PlanFacts(r, m1, L, S, fate, to, m2)
    BY PlanParts
  <1>2. /\ L \in LockTable
        /\ DOMAIN fate = {q \in SlotsOf(content) : L[r][q] = "STUCK"}
        /\ DOMAIN to = {q \in DOMAIN fate : fate[q] = "move"}
        /\ \A q \in DOMAIN fate : fate[q] \in Fates
    BY <1>1 DEF PlanFacts
  <1>3. \A q \in DOMAIN fate : fate[q] # "surplus"
    BY NoSurplus
  <1> DEFINE new1 == [NoLocks EXCEPT ![r] = m1]
             C    == LockCntAfter(lock_cnt, new1)
             K    == TombstoneAfter(tombstone, new1)
             Q    == RequestAfter(request, replica, new1)
             c    == AddAll(Recount(lock[r]), m1)
             is(k) == p \in DOMAIN fate /\ fate[p] = k
  <1>4. RepairStuck(r, L, S, C, K, Q, c, fate, m2)
    BY DEF RepairPlan
  <1>5. lock'[r][p] = IF m2[p] # "NONE" THEN m2[p]
                      ELSE IF is("ok") THEN "OK" ELSE IF is("retry") THEN "REPLICATING"
                      ELSE IF p \in DOMAIN fate /\ fate[p] # "keep" THEN "NONE" ELSE L[r][p]
    <2> HIDE DEF C, K, Q, c
    <2> QED
      BY <1>2, <1>4 DEF RepairStuck, LockTable
  <1> QED
    BY <1>2, <1>3, <1>5 DEF Fates

\* A repair moves locks of a file, but does not change their number.
LEMMA RepairKeepsNumber ==
  ASSUME TablesTyped, RulesTyped, content \subseteq Files, NEW r \in Rules, copies[r] \in Nat,
         NEW m1, NEW L, NEW S, NEW fate, NEW to, NEW m2, RepairPlan(r, m1, L, S, fate, to, m2),
         NEW X, FileCounts(L[r], copies[r], X), NEW f \in Files
  PROVE  Number(lock'[r], f) = Number(L[r], f)
  <1>1. PlanFacts(r, m1, L, S, fate, to, m2)
    BY PlanParts
  <1>2. /\ L \in LockTable /\ DOMAIN to \subseteq Slots
        /\ \A q \in DOMAIN to : L[r][q] = "STUCK"
        /\ \A q \in Slots : m2[q] # "NONE" <=> \E p \in DOMAIN to : q = <<p[1], to[p]>>
        /\ Fits(m2, L[r], S)
    BY <1>1 DEF PlanFacts
  <1>3. /\ \A p \in DOMAIN to : to[p] \in RSEs /\ L[r][<<p[1], to[p]>>] = "NONE"
        /\ \A p, q \in DOMAIN to : p[1] = q[1] /\ to[p] = to[q] => p = q
    BY DEF RepairPlan, Moves
  <1> DEFINE M == {p \in DOMAIN to : p[1] = f}
             D == {q \in Slots : q[1] = f /\ m2[q] # "NONE"}
             g == [p \in M |-> <<p[1], to[p]>>]
             H == Held(L[r], {f})
  <1>4. M \in SUBSET Slots /\ D \in SUBSET Slots /\ H \in SUBSET Slots
    BY <1>2, Numbering
  <1>5. \A p \in M : g[p] \in D /\ g[p] = <<f, to[p]>>
    <2> TAKE p \in M
    <2>1. g[p] = <<f, to[p]>> /\ g[p] = <<p[1], to[p]>>
      OBVIOUS
    <2>2. <<f, to[p]>> \in Slots /\ <<f, to[p]>>[1] = f
      BY <1>3 DEF Slots
    <2> QED
      BY <1>2, <2>1, <2>2
  <1>6. \A a, b \in M : g[a] = g[b] => a = b
    <2> TAKE a, b \in M
    <2>1. g[a] = <<f, to[a]>> /\ g[b] = <<f, to[b]>>
      BY <1>5
    <2> QED
      BY <1>3, <2>1
  <1>7. \A q \in D : \E p \in M : g[p] = q
    <2> TAKE q \in D
    <2>1. PICK p \in DOMAIN to : q = <<p[1], to[p]>>
      BY <1>2
    <2>2. p \in M
      BY <2>1
    <2> QED
      BY <2>1, <2>2
  <1>8. ExistsBijection(M, D)
    <2>1. g \in [M -> D]
      BY <1>5
    <2>2. g \in Bijection(M, D)
      BY <1>6, <1>7, <2>1 DEF Bijection, Injection, Surjection, IsInjective
    <2> QED
      BY <2>2 DEF ExistsBijection
  <1>9. Cardinality(D) = Cardinality(M)
    <2> HIDE DEF M, D
    <2> QED
      BY <1>4, <1>8, SlotSets, FS_Bijection
  <1>10. Held(lock'[r], {f}) = (H \ M) \cup D
    <2>1. \A p \in Slots : lock'[r][p] # "NONE" <=> m2[p] # "NONE" \/ (L[r][p] # "NONE" /\ p \notin DOMAIN to)
      BY RepairedRow
    <2> QED
      BY <2>1 DEF Held, SlotsOf
  <1>11. M \subseteq H /\ (H \ M) \cap D = {}
    <2>1. M \subseteq H
      BY <1>2 DEF Held, SlotsOf
    <2>2. \A q \in D : L[r][q] = "NONE"
      BY <1>2 DEF Fits
    <2>3. \A q \in H : L[r][q] # "NONE"
      BY DEF Held
    <2> QED
      BY <2>1, <2>2, <2>3
  <1> HIDE DEF M, D, H
  <1>12. Cardinality((H \ M) \cup D) = Cardinality(H \ M) + Cardinality(D)
    <2>1. (H \ M) \in SUBSET Slots
      BY <1>4
    <2> QED
      BY <1>4, <1>11, <2>1, SlotSets
  <1>13. Cardinality(H \ M) = Cardinality(H) - Cardinality(M)
    BY <1>4, <1>11, SlotSets
  <1>14. Cardinality(H) \in Nat /\ Cardinality(M) \in Nat
    BY <1>4, SlotSets
  <1>15. Number(lock'[r], f) = Cardinality((H \ M) \cup D) /\ Number(L[r], f) = Cardinality(H)
    BY <1>10 DEF Number, H
  <1> QED
    BY <1>9, <1>12, <1>13, <1>14, <1>15

\* The lock_cnt column C[p] is the number of locks on p.
Exact(L, C, p) == C[p] = Cardinality(HoldersIn(L, p))

\* A rule in state s that says it is settled or on its way has its n locks on
\* every file of F.
Satisfied(s, l, n, F) == s \in {"OK", "REPLICATING"} => \A f \in F : Number(l, f) >= n

Numbers ==
  /\ \A r \in Rules : FileCounts(lock[r], copies[r], lost)
  /\ \A p \in Slots \ revived : Exact(lock, lock_cnt, p)
  /\ \A r \in Rules \ skipped : Satisfied(state[r], lock[r], copies[r], content \ flagged)

\* The invariant implies both properties.
LEMMA NumbersSuffice == Numbers => LockCntExact /\ CopiesKept
  BY DEF Numbers, Exact, Satisfied, Number, LockCntExact, CopiesKept, Holders, HoldersIn

\* Granting locks that fit counts every one of them.
LEMMA GrantExact ==
  ASSUME NEW L \in LockTable, NEW S, NEW C \in CountTable, NEW new \in LockTable,
         \A r \in Rules : Fits(new[r], L[r], S), NEW p \in Slots, Exact(L, C, p)
  PROVE  Exact(WithLocks(L, new), LockCntAfter(C, new), p)
  <1> DEFINE H == HoldersIn(L, p)
             G == Granted(new, p)
  <1>1. H \in SUBSET Rules /\ G \in SUBSET Rules
    BY DEF HoldersIn, Granted
  <1>2. H \cap G = {}
    BY DEF HoldersIn, Granted, Fits
  <1>3. HoldersIn(WithLocks(L, new), p) = H \cup G
    BY DEF HoldersIn, Granted, WithLocks
  <1>4. LockCntAfter(C, new)[p] = C[p] + Cardinality(G)
    BY DEF LockCntAfter
  <1> HIDE DEF H, G
  <1>5. Cardinality(H \cup G) = Cardinality(H) + Cardinality(G)
    BY <1>1, <1>2, RuleSetsAdd
  <1>6. C[p] = Cardinality(H)
    BY DEF Exact, H
  <1> QED
    BY <1>3, <1>4, <1>5, <1>6 DEF Exact

\* Dropping locks that are held uncounts every one of them, as long as a locked
\* replica has its row.
LEMMA DropExact ==
  ASSUME NEW gone \in [Rules -> SUBSET Slots],
         \A r \in Rules : \A p \in gone[r] : lock[r][p] # "NONE",
         NEW cancel, Drop(gone, cancel),
         NEW p \in Slots, Safe(lock, replica, lock_cnt, p), Exact(lock, lock_cnt, p)
  PROVE  Exact(lock', lock_cnt', p)
  <1> DEFINE H == HoldersIn(lock, p)
             R == Removed(gone, p)
  <1>1. H \in SUBSET Rules /\ R \in SUBSET Rules /\ R \subseteq H
    BY DEF HoldersIn, Removed
  <1>2. HoldersIn(lock', p) = H \ R
    BY DEF HoldersIn, Removed, Drop
  <1>3. lock_cnt'[p] = IF replica[p] = "ABSENT" THEN lock_cnt[p] ELSE lock_cnt[p] - Cardinality(R)
    BY DEF Drop
  <1>4. replica[p] = "ABSENT" => H = {}
    BY DEF Safe
  <1>5. lock_cnt[p] = Cardinality(H)
    BY DEF Exact
  <1> HIDE DEF H, R
  <1>6. Cardinality(H \ R) = Cardinality(H) - Cardinality(R)
    BY <1>1, RuleSetsAdd
  <1>7. CASE replica[p] = "ABSENT"
    <2>1. H \ R = H
      BY <1>4, <1>7
    <2> QED
      BY <1>2, <1>3, <1>5, <1>7, <2>1 DEF Exact
  <1> QED
    BY <1>2, <1>3, <1>5, <1>6, <1>7 DEF Exact

\* Repairing a rule counts the locks it makes and uncounts those it moves: no
\* lock goes as surplus, which would not be uncounted.
LEMMA RepairExact ==
  ASSUME TablesTyped, RulesTyped, content \subseteq Files, NEW r \in Rules, copies[r] \in Nat,
         NEW m1, NEW L, NEW S, NEW fate, NEW to, NEW m2, RepairPlan(r, m1, L, S, fate, to, m2),
         NEW X, FileCounts(L[r], copies[r], X),
         NEW p \in Slots, Exact(lock, lock_cnt, p)
  PROVE  Exact(lock', lock_cnt', p)
  <1>1. PlanFacts(r, m1, L, S, fate, to, m2)
    BY PlanParts
  <1>2. /\ L \in LockTable /\ S \in ReplicaTable /\ Fits(m1, lock[r], replica) /\ Fits(m2, L[r], S)
        /\ DOMAIN fate = {q \in SlotsOf(content) : L[r][q] = "STUCK"}
        /\ DOMAIN to = {q \in DOMAIN fate : fate[q] = "move"}
    BY <1>1 DEF PlanFacts
  <1> DEFINE new1 == [NoLocks EXCEPT ![r] = m1]
             new2 == [NoLocks EXCEPT ![r] = m2]
             C    == LockCntAfter(lock_cnt, new1)
             K    == TombstoneAfter(tombstone, new1)
             Q    == RequestAfter(request, replica, new1)
             c    == AddAll(Recount(lock[r]), m1)
             H    == HoldersIn(L, p)
  <1>3. L = WithLocks(lock, new1) /\ RepairStuck(r, L, S, C, K, Q, c, fate, m2)
    BY <1>1 DEF RepairPlan
  <1>4. /\ new1 \in LockTable /\ \A q \in Rules : Fits(new1[q], lock[q], replica)
        /\ new2 \in LockTable /\ \A q \in Rules : Fits(new2[q], L[q], S)
    BY <1>2, OneRuleFits DEF TablesTyped
  <1>5. Exact(L, C, p) /\ C \in CountTable
    <2> HIDE DEF new1
    <2>1. Exact(L, C, p)
      BY <1>3, <1>4, GrantExact DEF TablesTyped
    <2>2. C \in CountTable
      BY <1>4, GrantKeepsSafe DEF TablesTyped
    <2> QED
      BY <2>1, <2>2
  <1> HIDE DEF C, K, Q, c
  <1>6. lock_cnt'[p] = IF p \in DOMAIN fate /\ fate[p] = "ok" THEN Cardinality(H)
                       ELSE IF p \in DOMAIN to THEN C[p] - 1 ELSE LockCntAfter(C, new2)[p]
    BY <1>2, <1>3, Zenon DEF RepairStuck, HoldersIn
  <1>7. \A q \in Rules \ {r} : lock'[q][p] = L[q][p]
    BY <1>2, <1>3 DEF RepairStuck, LockTable
  <1>8. lock'[r][p] # "NONE" <=> m2[p] # "NONE" \/ (L[r][p] # "NONE" /\ p \notin DOMAIN to)
    BY RepairedRow
  <1>9. /\ m2[p] # "NONE" => L[r][p] = "NONE"
        /\ p \in DOMAIN fate => L[r][p] = "STUCK"
    BY <1>2 DEF Fits
  <1>10. CASE p \in DOMAIN to
    <2>1. HoldersIn(lock', p) = H \ {r} /\ r \in H
      BY <1>2, <1>7, <1>8, <1>9, <1>10 DEF HoldersIn
    <2>2. lock_cnt'[p] = C[p] - 1
      BY <1>2, <1>6, <1>10
    <2>3. H \in SUBSET Rules /\ {r} \in SUBSET Rules /\ {r} \subseteq H
      BY <2>1 DEF HoldersIn
    <2>4. Cardinality(H \ {r}) = Cardinality(H) - Cardinality({r})
      <3> HIDE DEF H
      <3> QED
        BY <2>3, RuleSetsAdd
    <2>5. Cardinality({r}) = 1
      BY FS_Singleton
    <2> QED
      BY <1>5, <2>1, <2>2, <2>4, <2>5 DEF Exact
  <1>11. CASE p \in DOMAIN fate /\ fate[p] = "ok"
    <2>1. HoldersIn(lock', p) = H
      BY <1>2, <1>7, <1>8, <1>9, <1>11 DEF HoldersIn
    <2> QED
      BY <1>6, <1>11, <2>1 DEF Exact
  <1>12. CASE p \notin DOMAIN to /\ ~(p \in DOMAIN fate /\ fate[p] = "ok")
    <2>1. HoldersIn(lock', p) = HoldersIn(WithLocks(L, new2), p)
      <3>1. \A q \in Rules : WithLocks(L, new2)[q][p] # "NONE" <=> (q = r /\ m2[p] # "NONE") \/ L[q][p] # "NONE"
        BY DEF WithLocks, NoLocks, NoLock
      <3> QED
        BY <1>7, <1>8, <1>12, <3>1 DEF HoldersIn
    <2>2. Exact(WithLocks(L, new2), LockCntAfter(C, new2), p)
      <3> HIDE DEF new2
      <3> QED
        BY <1>2, <1>4, <1>5, GrantExact
    <2> QED
      BY <1>6, <1>12, <2>1, <2>2 DEF Exact
  <1> QED
    BY <1>10, <1>11, <1>12

\* A step that changes the states of locks only keeps the numbers, if it turns
\* no other rule into a settled one.
LEMMA NumbersSame ==
  ASSUME Numbers,
         \A r \in Rules, p \in Slots : lock'[r][p] = "NONE" <=> lock[r][p] = "NONE",
         \A r \in Rules \ skipped' : state'[r] \in {"OK", "REPLICATING"} => state[r] \in {"OK", "REPLICATING"},
         UNCHANGED <<copies, lost, lock_cnt>>,
         content' \ flagged' \subseteq content \ flagged,
         revived \subseteq revived', skipped \subseteq skipped',
         content \subseteq Files
  PROVE  Numbers'
  <1>1. \A r \in Rules, f \in Files : Number(lock'[r], f) = Number(lock[r], f)
    BY Numbering
  <1>2. \A p \in Slots : HoldersIn(lock', p) = HoldersIn(lock, p)
    BY DEF HoldersIn
  <1>3. ASSUME NEW r \in Rules PROVE FileCounts(lock'[r], copies'[r], lost')
    BY <1>1 DEF Numbers, FileCounts
  <1>4. ASSUME NEW p \in Slots \ revived' PROVE Exact(lock', lock_cnt', p)
    BY <1>2 DEF Numbers, Exact
  <1>5. ASSUME NEW r \in Rules \ skipped' PROVE Satisfied(state'[r], lock'[r], copies'[r], content' \ flagged')
    BY <1>1 DEF Numbers, Satisfied
  <1> QED
    BY <1>3, <1>4, <1>5 DEF Numbers

\* Applying a rule gives it its n locks on every file of the dataset.
LEMMA ApplyNumbers ==
  ASSUME TablesTyped, RulesTyped, content \subseteq Files, content \cap lost = {},
         NEW r \in Rules, NEW n \in Nat, Apply(r, n), FileCounts(lock[r], n, lost)
  PROVE  /\ FileCounts(lock'[r], n, lost)
         /\ \A f \in content : Number(lock'[r], f) = n
         /\ \A p \in Slots : Exact(lock, lock_cnt, p) => Exact(lock', lock_cnt', p)
  <1>1. PICK m \in Choices(r, n, content, lock[r], replica) : Grant([NoLocks EXCEPT ![r] = m])
    BY DEF Apply
  <1> DEFINE new == [NoLocks EXCEPT ![r] = m]
  <1>2. Fits(m, lock[r], replica)
    BY ChoicesFit
  <1>3. new \in LockTable /\ \A q \in Rules : Fits(new[q], lock[q], replica)
    BY <1>2, OneRuleFits DEF TablesTyped
  <1>4. \A p \in Slots : new[r][p] = m[p]
    BY DEF NoLocks
  <1> HIDE DEF new
  <1>5. Grant(new)
    BY <1>1 DEF new
  <1>6. \A p \in Slots : lock'[r][p] = IF m[p] # "NONE" THEN m[p] ELSE lock[r][p]
    BY <1>4, <1>5, GrantedLocks
  <1>7. FileCounts(lock'[r], n, lost) /\ \A f \in content : Number(lock'[r], f) = n
    <2> DEFINE l == lock[r]
               l2 == lock'[r]
    <2>1. \A p \in Slots : l2[p] = IF m[p] # "NONE" THEN m[p] ELSE l[p]
      BY <1>6
    <2>2. FileCounts(l, n, lost) /\ m \in Choices(r, n, content, l, replica)
      OBVIOUS
    <2> HIDE DEF l, l2
    <2>3. FileCounts(l2, n, lost) /\ \A f \in content : Number(l2, f) = n
      BY <2>1, <2>2, ChoicesKeepCounts
    <2> QED
      BY <2>3 DEF l2
  <1>8. \A p \in Slots : Exact(lock, lock_cnt, p) => Exact(lock', lock_cnt', p)
    <2>1. lock' = WithLocks(lock, new) /\ lock_cnt' = LockCntAfter(lock_cnt, new)
      BY <1>5 DEF Grant
    <2> QED
      BY <1>3, <2>1, GrantExact DEF TablesTyped
  <1> QED
    BY <1>7, <1>8

\* A repair leaves the files with the numbers they had, except that a hard one
\* completes those that lack locks.
LEMMA RepairNumbers ==
  ASSUME TablesTyped, RulesTyped, content \subseteq Files, content \cap lost = {},
         NEW r \in Rules, copies[r] \in Nat, RepairLocks(r), FileCounts(lock[r], copies[r], lost)
  PROVE  /\ FileCounts(lock'[r], copies[r], lost)
         /\ \A f \in Missing(r) : Number(lock'[r], f) = copies[r]
         /\ \A f \in Files \ Missing(r) : Number(lock'[r], f) = Number(lock[r], f)
         /\ \A p \in Slots : Exact(lock, lock_cnt, p) => Exact(lock', lock_cnt', p)
  <1>1. PICK m1, L, S, fate, to, m2 : RepairPlan(r, m1, L, S, fate, to, m2)
    BY RepairHasPlan
  <1>2. /\ m1 \in Choices(r, copies[r], Missing(r), lock[r], replica)
        /\ L = WithLocks(lock, [NoLocks EXCEPT ![r] = m1])
    BY <1>1 DEF RepairPlan
  <1>3. Missing(r) \subseteq content
    BY DEF Missing
  <1>4. /\ FileCounts(L[r], copies[r], lost)
        /\ \A f \in Missing(r) : Number(L[r], f) = copies[r]
        /\ \A f \in Files \ Missing(r) : Number(L[r], f) = Number(lock[r], f)
    <2> DEFINE l == lock[r]
               l2 == L[r]
               F == Missing(r)
               n == copies[r]
    <2>1. \A p \in Slots : l2[p] = IF m1[p] # "NONE" THEN m1[p] ELSE l[p]
      BY <1>2 DEF WithLocks, NoLocks
    <2>2. FileCounts(l, n, lost) /\ m1 \in Choices(r, n, F, l, replica) /\ n \in Nat
      BY <1>2
    <2>3. F \in SUBSET Files /\ F \cap lost = {}
      BY <1>3
    <2> HIDE DEF l, l2, F, n
    <2>4. FileCounts(l2, n, lost) /\ \A f \in F : Number(l2, f) = n
      BY <2>1, <2>2, <2>3, ChoicesKeepCounts
    <2>5. \A f \in Files : f \notin F => Number(l2, f) = Number(l, f)
      BY <2>1, <2>2, <2>3, ChoicesCount
    <2> QED
      BY <2>4, <2>5 DEF l, l2, F, n
  <1>5. \A f \in Files : Number(lock'[r], f) = Number(L[r], f)
    BY <1>1, <1>4, RepairKeepsNumber
  <1>6. \A p \in Slots : Exact(lock, lock_cnt, p) => Exact(lock', lock_cnt', p)
    BY <1>1, <1>4, RepairExact
  <1>7. FileCounts(lock'[r], copies[r], lost)
    BY <1>4, <1>5 DEF FileCounts
  <1> QED
    BY <1>3, <1>4, <1>5, <1>6, <1>7

\* Every step keeps the numbers.
LEMMA NumbersStep ==
  ASSUME TypeOK, LockProtection, Belonging, Numbers, [Next]_vars
  PROVE  Numbers'
  <1>0. TablesTyped /\ RulesTyped /\ RestTyped /\ content \subseteq Files
    BY TypeSplit DEF RestTyped
  <1>c. copies \in [Rules -> Nat] /\ content \cap lost = {} /\ flagged \subseteq content /\ lost \subseteq Files
    BY <1>0 DEF RestTyped, Belonging
  <1>s. \A p \in Slots \ revived :
          /\ Safe(lock, replica, lock_cnt, p)
          /\ p \in reaping => replica[p] = "BEING_DELETED"
    BY ProtectionParts
  <1>b. \A r \in Rules, p \in Slots : state[r] \in Unplaced => lock[r][p] = "NONE"
    BY DEF Belonging
  <1>t. \A r \in Rules : state[r] \notin {"SUSPENDED", "STUCK"} \cup Unplaced => state[r] \in {"OK", "REPLICATING"}
    BY <1>0 DEF RulesTyped, RuleStates, Unplaced
  <1>n. /\ \A r \in Rules : FileCounts(lock[r], copies[r], lost)
        /\ \A p \in Slots \ revived : Exact(lock, lock_cnt, p)
        /\ \A r \in Rules \ skipped : Satisfied(state[r], lock[r], copies[r], content \ flagged)
    BY DEF Numbers
  <1>1. ASSUME NEW r \in Rules, NEW n \in Nat, n = copies'[r],
               Apply(r, n), FileCounts(lock[r], n, lost),
               \A q \in Rules \ {r} : copies'[q] = copies[q],
               UNCHANGED <<lost, content, flagged, revived, skipped>>
        PROVE  Numbers'
    <2>1. /\ FileCounts(lock'[r], n, lost)
          /\ \A f \in content : Number(lock'[r], f) = n
          /\ \A p \in Slots : Exact(lock, lock_cnt, p) => Exact(lock', lock_cnt', p)
      BY <1>0, <1>1, <1>c, ApplyNumbers
    <2>2. \A q \in Rules \ {r} : /\ state'[q] = state[q]
                                 /\ \A f \in Files : Number(lock'[q], f) = Number(lock[q], f)
      BY <1>0, <1>1, ApplyLocks, Numbering
    <2>3. ASSUME NEW q \in Rules PROVE FileCounts(lock'[q], copies'[q], lost')
      BY <1>1, <1>n, <2>1, <2>2 DEF FileCounts
    <2>4. ASSUME NEW q \in Rules \ skipped' PROVE Satisfied(state'[q], lock'[q], copies'[q], content' \ flagged')
      BY <1>0, <1>1, <1>n, <2>1, <2>2 DEF Satisfied
    <2> QED
      BY <1>1, <1>n, <2>1, <2>3, <2>4 DEF Numbers
  <1>2. ASSUME NEW r \in Rules, NEW n \in 1..MaxCopies, AddRule(r, n) PROVE Numbers'
    <2>1. /\ state[r] = "NEW" /\ n \in Nat /\ copies' = [copies EXCEPT ![r] = n]
          /\ UNCHANGED <<lost, content, flagged, revived, skipped>>
      BY <1>2, RuleEngineAssumption DEF AddRule, badVars, didVars, ghostVars
    <2>2. \A f \in Files : Number(lock[r], f) = 0
      <3>1. \A p \in Slots : lock[r][p] = "NONE"
        BY <1>b, <2>1 DEF Unplaced
      <3>2. \A f \in Files : Held(lock[r], {f}) = {}
        BY <3>1 DEF Held, SlotsOf
      <3> QED
        BY <3>2, FS_EmptySet DEF Number
    <2>3. FileCounts(lock[r], n, lost)
      BY <2>1, <2>2 DEF FileCounts
    <2>4. CASE Apply(r, n)
      BY <1>1, <1>c, <2>1, <2>3, <2>4
    <2>5. CASE /\ UNCHANGED <<lock, lock_cnt>>
               /\ \E s \in {"WAITING_APPROVAL", "INJECT"} : state' = [state EXCEPT ![r] = s]
      <3>1. ASSUME NEW q \in Rules PROVE FileCounts(lock'[q], copies'[q], lost')
        <4>1. q # r => copies'[q] = copies[q]
          BY <1>c, <2>1
        <4>2. q = r => copies'[q] = n
          BY <1>c, <2>1
        <4> QED
          BY <1>n, <2>1, <2>3, <2>5, <4>1, <4>2
      <3>2. ASSUME NEW q \in Rules \ skipped' PROVE Satisfied(state'[q], lock'[q], copies'[q], content' \ flagged')
        <4>1. CASE q = r
          BY <1>0, <2>5, <4>1 DEF Satisfied, RulesTyped
        <4>2. CASE q # r
          <5>1. copies'[q] = copies[q] /\ state'[q] = state[q]
            BY <1>0, <1>c, <2>1, <2>5, <4>2 DEF RulesTyped
          <5> QED
            BY <1>n, <2>1, <2>5, <5>1
        <4> QED
          BY <4>1, <4>2
      <3>3. ASSUME NEW p \in Slots \ revived' PROVE Exact(lock', lock_cnt', p)
        BY <1>n, <2>1, <2>5
      <3> QED
        BY <3>1, <3>2, <3>3 DEF Numbers
    <2> QED
      BY <1>2, <2>4, <2>5 DEF AddRule, replicaVars
  <1>3. ASSUME NEW r \in Rules, ApproveRule(r) \/ InjectFetch(r) \/ RepairFetch(r) PROVE Numbers'
    <2>1. /\ UNCHANGED <<lock, copies, lost, lock_cnt, content, flagged, revived, skipped>>
          /\ state' = state \/ state' = [state EXCEPT ![r] = "INJECT"]
      BY <1>3 DEF ApproveRule, InjectFetch, RepairFetch, ruleVars, replicaVars, badVars, didVars, ghostVars
    <2>2. \A q \in Rules : state'[q] \in {"OK", "REPLICATING"} => state[q] \in {"OK", "REPLICATING"}
      BY <1>0, <2>1 DEF RulesTyped
    <2> QED
      BY <1>0, <2>1, <2>2, NumbersSame
  <1>4. ASSUME NEW r \in Rules, InjectRule(r) PROVE Numbers'
    <2>1. UNCHANGED <<copies, lost, content, flagged, revived, skipped>>
      BY <1>4 DEF InjectRule, badVars, didVars
    <2>2. CASE Apply(r, copies[r])
      BY <1>1, <1>c, <1>n, <2>1, <2>2
    <2>3. CASE UNCHANGED <<lock, lock_cnt>> /\ (state' = state \/ state' = [state EXCEPT ![r] = "SUSPENDED"])
      <3>1. \A q \in Rules : state'[q] \in {"OK", "REPLICATING"} => state[q] \in {"OK", "REPLICATING"}
        BY <1>0, <2>3 DEF RulesTyped
      <3> QED
        BY <1>0, <2>1, <2>3, <3>1, NumbersSame
    <2> QED
      BY <1>4, <2>2, <2>3 DEF InjectRule, replicaVars
  <1>5. ASSUME NEW r \in Rules, DeleteRule(r) PROVE Numbers'
    <2> DEFINE gone == [q \in Rules |-> IF q = r THEN Held(lock[r], Files) ELSE {}]
    <2>1. PICK cancel \in Cancellable(gone) : Drop(gone, cancel)
      BY <1>5 DEF DeleteRule
    <2>2. /\ gone \in [Rules -> SUBSET Slots]
          /\ \A q \in Rules : \A p \in gone[q] : lock[q][p] # "NONE"
      BY DEF Held, SlotsOf
    <2>3. /\ UNCHANGED <<copies, lost, content, flagged, revived, skipped>>
          /\ state' = [state EXCEPT ![r] = "DELETED"]
      BY <1>5 DEF DeleteRule, badVars, didVars, ghostVars
    <2>4. \A q \in Rules, p \in Slots : lock'[q][p] = IF p \in gone[q] THEN "NONE" ELSE lock[q][p]
      BY <2>1 DEF Drop
    <2>5. \A q \in Rules \ {r}, f \in Files : Number(lock'[q], f) = Number(lock[q], f)
      BY <2>4, Numbering
    <2>6. \A f \in Files : Number(lock'[r], f) = 0
      <3>1. \A p \in Slots : lock'[r][p] = "NONE"
        BY <2>4 DEF Held, SlotsOf, Slots
      <3>2. \A f \in Files : Held(lock'[r], {f}) = {}
        BY <3>1 DEF Held, SlotsOf
      <3> QED
        BY <3>2, FS_EmptySet DEF Number
    <2> HIDE DEF gone
    <2>7. ASSUME NEW p \in Slots \ revived' PROVE Exact(lock', lock_cnt', p)
      BY <1>n, <1>s, <2>1, <2>2, <2>3, DropExact
    <2>8. ASSUME NEW q \in Rules PROVE FileCounts(lock'[q], copies'[q], lost')
      <3>1. CASE q = r
        BY <1>c, <2>3, <2>6, <3>1 DEF FileCounts
      <3>2. CASE q # r
        BY <1>n, <2>3, <2>5, <3>2 DEF FileCounts
      <3> QED
        BY <3>1, <3>2
    <2>9. ASSUME NEW q \in Rules \ skipped' PROVE Satisfied(state'[q], lock'[q], copies'[q], content' \ flagged')
      <3>1. CASE q = r
        BY <1>0, <2>3, <3>1 DEF Satisfied, RulesTyped
      <3>2. CASE q # r
        <4>1. state'[q] = state[q]
          BY <1>0, <2>3, <3>2 DEF RulesTyped
        <4> QED
          BY <1>0, <1>n, <2>3, <2>5, <3>2, <4>1 DEF Satisfied
      <3> QED
        BY <3>1, <3>2
    <2> QED
      BY <2>7, <2>8, <2>9 DEF Numbers
  <1>6. ASSUME NEW r \in Rules, RepairRule(r) PROVE Numbers'
    <2>1. /\ UNCHANGED <<copies, lost, content, flagged, revived>>
          /\ skipped' = IF Overlooks(r) THEN skipped \cup {r} ELSE skipped
      BY <1>6 DEF RepairRule, badVars, didVars
    <2>2. CASE RepairLocks(r)
      <3>1. /\ FileCounts(lock'[r], copies[r], lost)
            /\ \A f \in Missing(r) : Number(lock'[r], f) = copies[r]
            /\ \A f \in Files \ Missing(r) : Number(lock'[r], f) = Number(lock[r], f)
            /\ \A p \in Slots : Exact(lock, lock_cnt, p) => Exact(lock', lock_cnt', p)
        BY <1>0, <1>c, <1>n, <2>2, RepairNumbers
      <3>2. \A q \in Rules \ {r} : /\ state'[q] = state[q]
                                   /\ \A f \in Files : Number(lock'[q], f) = Number(lock[q], f)
        BY <1>0, <2>2, RepairedLocks, Numbering
      <3>3. ASSUME NEW q \in Rules PROVE FileCounts(lock'[q], copies'[q], lost')
        BY <1>n, <2>1, <3>1, <3>2 DEF FileCounts
      <3>4. ASSUME NEW q \in Rules \ skipped', q # r
            PROVE  Satisfied(state'[q], lock'[q], copies'[q], content' \ flagged')
        BY <1>0, <1>n, <2>1, <3>2, <3>4 DEF Satisfied
      <3>5. ASSUME r \notin skipped', state'[r] \in {"OK", "REPLICATING"}, NEW f \in content \ flagged
            PROVE  Number(lock'[r], f) >= copies[r]
        <4>1. f \in Files /\ copies[r] \in Nat /\ Number(lock[r], f) \in Nat
          BY <1>0, <1>c, Numbering
        <4>2. CASE Hard(r)
          <5>1. f \in Missing(r) <=> Number(lock[r], f) < copies[r]
            BY <4>2 DEF Missing, Number
          <5> QED
            BY <3>1, <4>1, <5>1
        <4>3. CASE ~Hard(r)
          <5>1. ~(Number(lock[r], f) < copies[r])
            BY <2>1, <3>5, <4>3 DEF Overlooks, Number
          <5>2. Missing(r) = {}
            BY <4>3 DEF Missing
          <5> QED
            BY <3>1, <4>1, <5>1, <5>2
        <4> QED
          BY <4>2, <4>3
      <3>6. r \notin skipped' => Satisfied(state'[r], lock'[r], copies'[r], content' \ flagged')
        BY <2>1, <3>5 DEF Satisfied
      <3>7. ASSUME NEW p \in Slots \ revived' PROVE Exact(lock', lock_cnt', p)
        BY <1>n, <2>1, <3>1
      <3> QED
        BY <3>3, <3>4, <3>6, <3>7 DEF Numbers
    <2>3. CASE /\ UNCHANGED <<lock, lock_cnt>>
               /\ state' = state \/ \E s \in {"SUSPENDED", "STUCK"} : state' = [state EXCEPT ![r] = s]
      <3>1. \A q \in Rules : state'[q] \in {"OK", "REPLICATING"} => state[q] \in {"OK", "REPLICATING"}
        BY <1>0, <2>3 DEF RulesTyped
      <3>2. skipped \subseteq skipped'
        BY <2>1
      <3> QED
        BY <1>0, <2>1, <2>3, <3>1, <3>2, NumbersSame
    <2> QED
      BY <1>6, <2>2, <2>3 DEF RepairRule, RepairSuspends, RepairAborts, replicaVars
  <1>7. ASSUME NEW r \in Rules, NEW s \in {"SUSPENDED", "STUCK"}, NEW cancel \in BOOLEAN,
               UpdateRule(r, s, cancel)
        PROVE  Numbers'
    <2>1. UNCHANGED <<copies, lost, lock_cnt, content, flagged, skipped>> /\ revived \subseteq revived'
      BY <1>7 DEF UpdateRule, Revive, badVars, didVars
    <2>2. \A q \in Rules, p \in Slots : lock'[q][p] = "NONE" <=> lock[q][p] = "NONE"
      BY <1>7 DEF UpdateRule
    <2>3. \A q \in Rules : state'[q] \in {"OK", "REPLICATING"} => state[q] \in {"OK", "REPLICATING"}
      BY <1>7 DEF UpdateRule
    <2> QED
      BY <1>0, <2>1, <2>2, <2>3, NumbersSame
  <1>8. ASSUME NEW p \in Slots, FinishOk(p) \/ ExpireTemporary(p) PROVE Numbers'
    <2>1. UNCHANGED <<copies, lost, lock_cnt, content, flagged, skipped>> /\ revived \subseteq revived'
      BY <1>8 DEF FinishOk, ExpireTemporary, BecomeAvailable, Revive, didVars
    <2>2. CASE BecomeAvailable(p)
      <3>1. \A q \in Rules, x \in Slots : lock'[q][x] = "NONE" <=> lock[q][x] = "NONE"
        BY <1>0, <2>2 DEF BecomeAvailable, MoveLocks, TablesTyped, LockTable, LockRow
      <3>2. \A q \in Rules : state'[q] \in {"OK", "REPLICATING"} => state[q] \in {"OK", "REPLICATING"}
        BY <2>2 DEF BecomeAvailable
      <3> QED
        BY <1>0, <2>1, <3>1, <3>2, NumbersSame
    <2>3. CASE UNCHANGED <<state, lock>>
      BY <1>0, <2>1, <2>3, NumbersSame
    <2> QED
      BY <1>8, <2>2, <2>3 DEF FinishOk, ExpireTemporary
  <1>9. ASSUME NEW p \in Slots, FinishFail(p) PROVE Numbers'
    <2>1. UNCHANGED <<copies, lost, lock_cnt, content, flagged, skipped>> /\ revived \subseteq revived'
      BY <1>9 DEF FinishFail, Revive, badVars, didVars
    <2>2. \A q \in Rules, x \in Slots : lock'[q][x] = "NONE" <=> lock[q][x] = "NONE"
      BY <1>0, <1>9 DEF FinishFail, MoveLocks, TablesTyped, LockTable, LockRow
    <2>3. \A q \in Rules : state'[q] \in {"OK", "REPLICATING"} => state[q] \in {"OK", "REPLICATING"}
      BY <1>9 DEF FinishFail
    <2> QED
      BY <1>0, <2>1, <2>2, <2>3, NumbersSame
  <1>10. ASSUME NEW p \in Slots,
                \/ \E force \in BOOLEAN : DeclareBad(p, force)
                \/ DeclareTemporary(p) \/ NecroPick(p) \/ ReaperMark(p) \/ ReaperFail(p)
         PROVE  Numbers'
    <2>1. /\ UNCHANGED <<copies, lost, lock_cnt, content, flagged, skipped, state, lock>>
          /\ revived \subseteq revived'
      BY <1>10 DEF DeclareBad, DeclareTemporary, NecroPick, ReaperMark, ReaperFail, Revive, ruleVars,
                   replicaVars, badVars, didVars, ghostVars
    <2> QED
      BY <1>0, <2>1, NumbersSame
  <1>11. ASSUME NEW p \in Slots, ReaperDelete(p) PROVE Numbers'
    <2>1. /\ UNCHANGED <<copies, lost, skipped, state, lock, revived>> /\ p \in reaping
          /\ lock_cnt' = [lock_cnt EXCEPT ![p] = 0]
      BY <1>11 DEF ReaperDelete, ruleVars
    <2>2. content' \ flagged' \subseteq content \ flagged
      BY <1>11 DEF ReaperDelete, CleanupAfterDeletion
    <2>3. ASSUME NEW x \in Slots \ revived' PROVE Exact(lock', lock_cnt', x)
      <3>1. x = p => HoldersIn(lock, x) = {}
        BY <1>s, <2>1 DEF Safe
      <3>2. lock_cnt'[x] = IF x = p THEN 0 ELSE lock_cnt[x]
        BY <1>0, <2>1 DEF TablesTyped, CountTable
      <3>3. Exact(lock, lock_cnt, x)
        BY <1>n, <2>1
      <3> QED
        BY <2>1, <3>1, <3>2, <3>3, FS_EmptySet DEF Exact
    <2>4. ASSUME NEW q \in Rules PROVE FileCounts(lock'[q], copies'[q], lost')
      BY <1>n, <2>1
    <2>5. ASSUME NEW q \in Rules \ skipped' PROVE Satisfied(state'[q], lock'[q], copies'[q], content' \ flagged')
      BY <1>n, <2>1, <2>2 DEF Satisfied
    <2> QED
      BY <2>3, <2>4, <2>5 DEF Numbers
  <1>12. ASSUME NEW f \in Files, Attach(f) \/ Detach(f) PROVE Numbers'
    <2>1. /\ UNCHANGED <<copies, lost, lock_cnt, skipped, state, lock, revived>>
          /\ content' \ flagged' \subseteq content \ flagged
      BY <1>12 DEF Attach, Detach, ruleVars, replicaVars, badVars, ghostVars
    <2> QED
      BY <1>0, <2>1, NumbersSame
  <1>13. CASE EvaluateAttach
    <2> DEFINE eligible == IF flagged = {} THEN {}
                           ELSE {r \in Existing : state[r] \notin {"SUSPENDED", "WAITING_APPROVAL", "INJECT"}}
    <2>1. PICK abort \in SUBSET eligible : \E new \in Assignments(eligible \ abort, flagged) :
            /\ Grant(new)
            /\ state' = [r \in Rules |->
                 IF r \in abort THEN "STUCK"
                 ELSE IF r \in eligible
                   THEN AttachedState(state[r], locks_cnt[r], AddAll(locks_cnt[r], new[r]))
                   ELSE state[r]]
      BY <1>13 DEF EvaluateAttach
    <2>2. PICK new \in Assignments(eligible \ abort, flagged) :
            /\ Grant(new)
            /\ state' = [r \in Rules |->
                 IF r \in abort THEN "STUCK"
                 ELSE IF r \in eligible
                   THEN AttachedState(state[r], locks_cnt[r], AddAll(locks_cnt[r], new[r]))
                   ELSE state[r]]
      BY <2>1
    <2>3. /\ UNCHANGED <<copies, content, lost, revived, skipped>> /\ flagged' = {}
      BY <1>13 DEF EvaluateAttach, badVars, ghostVars
    <2>4. \A r \in Rules :
            IF r \in eligible \ abort THEN new[r] \in Choices(r, copies[r], flagged, lock[r], replica)
                                      ELSE new[r] = NoLock
      BY DEF Assignments
    <2>5. \A r \in Rules : state[r] \in {"OK", "REPLICATING"} /\ flagged # {} => r \in eligible
      BY DEF Existing
    <2>6. \A r \in Rules : r \in eligible => state[r] \notin {"SUSPENDED", "WAITING_APPROVAL", "INJECT", "NEW", "DELETED"}
      BY DEF Existing
    <2> HIDE DEF eligible
    <2>7. \A r \in Rules, p \in Slots : lock'[r][p] = IF new[r][p] # "NONE" THEN new[r][p] ELSE lock[r][p]
      BY <2>2, GrantedLocks
    <2>8. ASSUME NEW r \in eligible \ abort, r \in Rules
          PROVE  /\ FileCounts(lock'[r], copies[r], lost)
                 /\ \A f \in flagged : Number(lock'[r], f) = copies[r]
                 /\ \A f \in Files : f \notin flagged => Number(lock'[r], f) = Number(lock[r], f)
      <3> DEFINE l == lock[r]
                 l2 == lock'[r]
                 m == new[r]
                 n == copies[r]
      <3>1. \A p \in Slots : l2[p] = IF m[p] # "NONE" THEN m[p] ELSE l[p]
        BY <2>7, <2>8
      <3>2. m \in Choices(r, n, flagged, l, replica) /\ n \in Nat /\ FileCounts(l, n, lost)
        BY <1>c, <1>n, <2>4, <2>8
      <3>3. flagged \in SUBSET Files /\ flagged \cap lost = {}
        BY <1>0, <1>c
      <3> HIDE DEF l, l2, m, n
      <3>4. FileCounts(l2, n, lost) /\ \A f \in flagged : Number(l2, f) = n
        BY <3>1, <3>2, <3>3, ChoicesKeepCounts
      <3>5. \A f \in Files : f \notin flagged => Number(l2, f) = Number(l, f)
        BY <3>1, <3>2, <3>3, ChoicesCount
      <3> QED
        BY <3>4, <3>5 DEF l, l2, n
    <2>9. ASSUME NEW r \in Rules, r \notin eligible \ abort
          PROVE  \A f \in Files : Number(lock'[r], f) = Number(lock[r], f)
      <3>1. \A p \in Slots : lock'[r][p] = lock[r][p]
        BY <2>4, <2>7, <2>9 DEF NoLock
      <3> QED
        BY <3>1, Numbering
    <2>10. ASSUME NEW r \in Rules PROVE FileCounts(lock'[r], copies'[r], lost')
      <3>1. CASE r \in eligible \ abort
        BY <2>3, <2>8, <3>1
      <3>2. CASE r \notin eligible \ abort
        BY <1>n, <2>3, <2>9, <3>2 DEF FileCounts
      <3> QED
        BY <3>1, <3>2
    <2>11. ASSUME NEW p \in Slots \ revived' PROVE Exact(lock', lock_cnt', p)
      <3>1. new \in LockTable /\ \A r \in Rules : Fits(new[r], lock[r], replica)
        BY AssignmentsFit DEF LockTable
      <3>2. lock' = WithLocks(lock, new) /\ lock_cnt' = LockCntAfter(lock_cnt, new)
        BY <2>2 DEF Grant
      <3>3. Exact(lock, lock_cnt, p)
        BY <1>n, <2>3
      <3> QED
        BY <1>0, <3>1, <3>2, <3>3, GrantExact DEF TablesTyped
    <2>12. ASSUME NEW r \in Rules \ skipped, state'[r] \in {"OK", "REPLICATING"}, NEW f \in content
           PROVE  Number(lock'[r], f) >= copies[r]
      <3>1. f \in Files /\ copies[r] \in Nat
        BY <1>0, <1>c
      <3>2. CASE r \in eligible \ abort
        <4>1. state[r] \in {"OK", "REPLICATING"}
          <5>1. state'[r] = AttachedState(state[r], locks_cnt[r], AddAll(locks_cnt[r], new[r]))
            BY <2>2, <3>2
          <5>2. state[r] # "STUCK"
            BY <2>12, <5>1 DEF AttachedState
          <5> QED
            BY <1>t, <2>6, <3>2, <5>2 DEF Unplaced
        <4>2. CASE f \in flagged
          BY <2>8, <3>1, <3>2, <4>2
        <4>3. CASE f \notin flagged
          <5>1. Number(lock[r], f) >= copies[r]
            BY <1>n, <4>1, <4>3 DEF Satisfied
          <5> QED
            BY <2>8, <3>1, <3>2, <4>3, <5>1
        <4> QED
          BY <4>2, <4>3
      <3>3. CASE r \notin eligible \ abort
        <4>1. r \notin eligible /\ state'[r] = state[r]
          BY <2>2, <2>12, <3>3
        <4>2. flagged = {}
          BY <2>5, <2>12, <4>1
        <4>3. Number(lock[r], f) >= copies[r]
          BY <1>n, <2>12, <4>1, <4>2 DEF Satisfied
        <4> QED
          BY <2>9, <3>1, <3>3, <4>3
      <3> QED
        BY <3>2, <3>3
    <2>13. ASSUME NEW r \in Rules \ skipped' PROVE Satisfied(state'[r], lock'[r], copies'[r], content' \ flagged')
      BY <2>3, <2>12 DEF Satisfied
    <2> QED
      BY <2>10, <2>11, <2>13 DEF Numbers
  <1>14. CASE EvaluateDetach
    <2> DEFINE gone == [r \in Rules |-> GivesUp(r)]
    <2>1. PICK cancel \in Cancellable(gone) : Drop(gone, cancel)
      BY <1>14 DEF EvaluateDetach
    <2>2. /\ gone \in [Rules -> SUBSET Slots]
          /\ \A r \in Rules : \A p \in gone[r] : lock[r][p] # "NONE"
      BY DEF GivesUp, Held, SlotsOf
    <2>3. /\ UNCHANGED <<copies, content, flagged, lost, revived>>
          /\ skipped' = skipped \cup {r \in Rules : state[r] \in {"WAITING_APPROVAL", "INJECT"} /\ state'[r] = "OK"}
      BY <1>14 DEF EvaluateDetach, badVars
    <2>4. \A r \in Rules, p \in Slots : lock'[r][p] = IF p \in GivesUp(r) THEN "NONE" ELSE lock[r][p]
      BY <2>1 DEF Drop
    <2>5. \A r \in Rules, f \in content : Number(lock'[r], f) = Number(lock[r], f)
      <3>1. \A r \in Rules, p \in Slots : p[1] \in content => lock'[r][p] = lock[r][p]
        BY <2>4 DEF GivesUp, Held, SlotsOf
      <3> QED
        BY <3>1, Numbering
    <2>6. \A r \in Rules, f \in Files \ content : Number(lock'[r], f) = 0
      <3>1. \A r \in Rules, p \in Slots : p[1] \notin content => lock'[r][p] = "NONE"
        <4>1. \A r \in Rules, p \in Slots : lock[r][p] # "NONE" => r \in Existing
          BY <1>b DEF Existing, Unplaced
        <4> QED
          BY <2>4, <4>1 DEF GivesUp, Held, SlotsOf, Slots
      <3>2. \A r \in Rules, f \in Files \ content : Held(lock'[r], {f}) = {}
        BY <3>1 DEF Held, SlotsOf
      <3> QED
        BY <3>2, FS_EmptySet DEF Number
    <2> HIDE DEF gone
    <2>7. ASSUME NEW p \in Slots \ revived' PROVE Exact(lock', lock_cnt', p)
      BY <1>n, <1>s, <2>1, <2>2, <2>3, DropExact
    <2>8. ASSUME NEW r \in Rules PROVE FileCounts(lock'[r], copies'[r], lost')
      <3>1. ASSUME NEW f \in Files
            PROVE  Number(lock'[r], f) <= copies[r] /\ (f \notin lost => Number(lock'[r], f) \in {0, copies[r]})
        <4>1. CASE f \in content
          BY <1>n, <2>5, <3>1, <4>1 DEF FileCounts
        <4>2. CASE f \notin content
          <5>1. Number(lock'[r], f) = 0 /\ copies[r] \in Nat
            BY <1>c, <2>6, <3>1, <4>2
          <5> QED
            BY <5>1
        <4> QED
          BY <4>1, <4>2
      <3> QED
        BY <2>3, <3>1 DEF FileCounts
    <2>9. ASSUME NEW r \in Rules \ skipped' PROVE Satisfied(state'[r], lock'[r], copies'[r], content' \ flagged')
      <3>1. state'[r] \in {"OK", "REPLICATING"} => state[r] \in {"OK", "REPLICATING"}
        <4>1. \/ state'[r] = state[r]
              \/ r \in Existing /\ state[r] \notin {"SUSPENDED", "STUCK"} /\ state'[r] = "OK"
          BY <1>14 DEF EvaluateDetach, Settled
        <4>2. ~(state[r] \in {"WAITING_APPROVAL", "INJECT"} /\ state'[r] = "OK")
          BY <2>3
        <4> QED
          BY <1>t, <4>1, <4>2 DEF Existing, Unplaced
      <3> QED
        BY <1>n, <2>3, <2>5, <3>1 DEF Satisfied
    <2> QED
      BY <2>7, <2>8, <2>9 DEF Numbers
  <1>15. CASE NecroDecide
    BY <1>0, <1>15, NumbersSame DEF NecroDecide, ruleVars, replicaVars, badVars, didVars, ghostVars
  <1>16. CASE NecroRecover
    <2> DEFINE p == necro.slot
    <2>0. p \in Slots
      BY <1>0, <1>16, NecroBusy DEF NecroRecover
    <2>1. UNCHANGED <<copies, lost, lock_cnt, content, flagged, skipped>> /\ revived \subseteq revived'
      BY <1>16 DEF NecroRecover, Revive, badVars, didVars
    <2>2. \A q \in Rules, x \in Slots : lock'[q][x] = "NONE" <=> lock[q][x] = "NONE"
      BY <1>0, <1>16 DEF NecroRecover, MoveLocks, TablesTyped, LockTable, LockRow, LockStates
    <2>3. \A q \in Rules : \/ state'[q] = state[q]
                           \/ lock[q][p] # "NONE" /\ state[q] \notin {"SUSPENDED", "STUCK"}
      BY <1>16 DEF NecroRecover
    <2>4. \A q \in Rules : state'[q] \in {"OK", "REPLICATING"} => state[q] \in {"OK", "REPLICATING"}
      BY <1>b, <1>t, <2>0, <2>3
    <2> QED
      BY <1>0, <2>1, <2>2, <2>4, NumbersSame
  <1>17. CASE NecroLost
    <2> DEFINE p == necro.slot
    <2>0. p \in Slots /\ p[1] \in Files
      BY <1>0, <1>17, NecroBusy DEF NecroLost, Slots
    <2>1. CASE Exists(p)
      <3>1. /\ revived \subseteq revived' /\ lost' = lost \cup {p[1]}
            /\ content' = content \ {p[1]} /\ flagged' = flagged \ {p[1]}
            /\ lock_cnt' = [lock_cnt EXCEPT ![p] = 0] /\ UNCHANGED <<copies, skipped>>
        BY <1>17, <2>1 DEF NecroLost, Revive
      <3>2. \A r \in Rules, q \in Slots : lock'[r][q] = IF q = p THEN "NONE" ELSE lock[r][q]
        BY <1>0, <1>17, <2>0, <2>1 DEF NecroLost, TablesTyped, LockTable, LockRow
      <3>3. \A r \in Rules, f \in Files : f # p[1] => Number(lock'[r], f) = Number(lock[r], f)
        BY <3>2, Numbering
      <3>4. \A r \in Rules : Number(lock'[r], p[1]) <= Number(lock[r], p[1])
        <4> TAKE r \in Rules
        <4>1. Held(lock'[r], {p[1]}) \subseteq Held(lock[r], {p[1]})
          BY <3>2 DEF Held, SlotsOf
        <4>2. IsFiniteSet(Held(lock[r], {p[1]}))
          BY Numbering, SlotSets
        <4>3. Cardinality(Held(lock'[r], {p[1]})) <= Cardinality(Held(lock[r], {p[1]}))
          BY <4>1, <4>2, FS_Subset
        <4> QED
          BY <4>3 DEF Number
      <3>5. ASSUME NEW r \in Rules PROVE FileCounts(lock'[r], copies'[r], lost')
        <4>1. ASSUME NEW f \in Files
              PROVE  Number(lock'[r], f) <= copies[r] /\ (f \notin lost' => Number(lock'[r], f) \in {0, copies[r]})
          <5>1. /\ Number(lock[r], f) <= copies[r] /\ (f \notin lost => Number(lock[r], f) \in {0, copies[r]})
                /\ copies[r] \in Nat /\ Number(lock[r], f) \in Nat /\ Number(lock'[r], f) \in Nat
            BY <1>c, <1>n, Numbering DEF FileCounts
          <5>2. CASE f = p[1]
            <6>1. f \in lost' /\ Number(lock'[r], f) <= Number(lock[r], f)
              BY <3>1, <3>4, <5>2
            <6> QED
              BY <5>1, <6>1
          <5>3. CASE f # p[1]
            <6>1. Number(lock'[r], f) = Number(lock[r], f) /\ (f \notin lost' => f \notin lost)
              BY <3>1, <3>3, <5>3
            <6> QED
              BY <5>1, <6>1
          <5> QED
            BY <5>2, <5>3
        <4> QED
          BY <3>1, <4>1 DEF FileCounts
      <3>6. ASSUME NEW x \in Slots \ revived' PROVE Exact(lock', lock_cnt', x)
        <4>1. HoldersIn(lock', x) = IF x = p THEN {} ELSE HoldersIn(lock, x)
          BY <3>2 DEF HoldersIn
        <4>2. lock_cnt'[x] = IF x = p THEN 0 ELSE lock_cnt[x]
          BY <1>0, <3>1 DEF TablesTyped, CountTable
        <4>3. Exact(lock, lock_cnt, x)
          BY <1>n, <3>1
        <4> QED
          BY <4>1, <4>2, <4>3, FS_EmptySet DEF Exact
      <3>7. ASSUME NEW r \in Rules \ skipped' PROVE Satisfied(state'[r], lock'[r], copies'[r], content' \ flagged')
        <4>1. \/ state'[r] = state[r]
              \/ lock[r][p] # "NONE" /\ state[r] \notin {"SUSPENDED", "STUCK"}
          BY <1>17, <2>1 DEF NecroLost, Settled
        <4>2. state'[r] \in {"OK", "REPLICATING"} => state[r] \in {"OK", "REPLICATING"}
          BY <1>b, <1>t, <2>0, <4>1
        <4>3. \A f \in content' \ flagged' : f \in content \ flagged /\ f \in Files /\ f # p[1]
          BY <1>0, <3>1
        <4> QED
          BY <1>n, <3>1, <3>3, <4>2, <4>3 DEF Satisfied
      <3> QED
        BY <3>5, <3>6, <3>7 DEF Numbers
    <2>2. CASE ~Exists(p)
      BY <1>0, <1>17, <2>2, NumbersSame DEF NecroLost, replicaVars
    <2> QED
      BY <2>1, <2>2
  <1>18. CASE UNCHANGED vars
    BY <1>0, <1>18, NumbersSame DEF vars, ruleVars, replicaVars, badVars, didVars, ghostVars
  <1> QED
    BY <1>2, <1>3, <1>4, <1>5, <1>6, <1>7, <1>8, <1>9, <1>10, <1>11, <1>12, <1>13, <1>14, <1>15, <1>16, <1>17, <1>18
    DEF Next, RuleStep, SlotStep, DenyRule

\* A rule holds no lock or all its locks on a file that is not lost, lock_cnt
\* counts the locks, and a settled rule has its copies.
THEOREM LocksAreNumbered == Spec => []Numbers
  <1>1. Init => Numbers
    <2> SUFFICES ASSUME Init PROVE Numbers
      OBVIOUS
    <2>1. /\ lock = NoLocks /\ lock_cnt = [p \in Slots |-> 0] /\ copies = [r \in Rules |-> 0]
          /\ state = [r \in Rules |-> "NEW"]
      BY DEF Init
    <2>2. \A r \in Rules, f \in Files : Number(lock[r], f) = 0
      <3>1. \A r \in Rules, f \in Files : Held(lock[r], {f}) = {}
        BY <2>1 DEF Held, SlotsOf, NoLocks, NoLock
      <3> QED
        BY <3>1, FS_EmptySet DEF Number
    <2>3. \A p \in Slots : HoldersIn(lock, p) = {}
      BY <2>1 DEF HoldersIn, NoLocks, NoLock
    <2>4. \A p \in Slots : Exact(lock, lock_cnt, p)
      BY <2>1, <2>3, FS_EmptySet DEF Exact
    <2> QED
      BY <2>1, <2>2, <2>4 DEF Numbers, FileCounts, Satisfied
  <1>2. TypeOK /\ LockProtection /\ Belonging /\ Numbers /\ [Next]_vars => Numbers'
    BY NumbersStep
  <1> QED
    BY <1>1, <1>2, TypeCorrect, LockedIsProtected, LocksBelong, PTL DEF Spec

\* The lock_cnt column of a replica is the number of rules that lock it, so that
\* a replica nobody locks any more can be reaped.
THEOREM LockCntIsExact == Spec => []LockCntExact
  BY LocksAreNumbered, NumbersSuffice, PTL

\* A rule that is OK or REPLICATING holds its copies of every file that the
\* evaluator has seen.
THEOREM CopiesAreKept == Spec => []CopiesKept
  BY LocksAreNumbered, NumbersSuffice, PTL
=============================================================================
