-------------------------- MODULE ShareWorkerProofs ---------------------------
(***************************************************************************)
(* Proofs about ShareAdmission, first part: what the operations of the     *)
(* duplicate registry keep, and that every step of the share worker and of *)
(* the verifier keeps AdmissionInv.                                        *)
(***************************************************************************)
EXTENDS ShareAdmissionInv, FiniteSetTheorems, TLAPS

\* Leaves that need arithmetic or extensionality name SMT; the others are for Zenon.
USE ZenonT(30), SMTT(30)

\* The sets that the counters count, before and after one element comes or goes.
LEMMA CountUp ==
    ASSUME NEW S, NEW T, NEW x, IsFiniteSet(S), x \notin S, T = S \cup {x}
    PROVE  /\ IsFiniteSet(T) /\ Cardinality(T) = Cardinality(S) + 1
           /\ Cardinality(S) \in Nat
BY FS_AddElement, FS_CardinalityType

LEMMA CountDown ==
    ASSUME NEW S, NEW T, NEW x, IsFiniteSet(S), x \in S, T = S \ {x}
    PROVE  /\ IsFiniteSet(T) /\ Cardinality(T) = Cardinality(S) - 1
           /\ Cardinality(S) \in Nat /\ Cardinality(S) > 0
<1>1. IsFiniteSet(T) /\ Cardinality(T) = Cardinality(S) - 1
    BY FS_RemoveElement
<1>2. Cardinality(S) \in Nat /\ Cardinality(T) \in Nat
    BY <1>1, FS_CardinalityType
<1> QED BY SMTT(30), <1>1, <1>2

LEMMA CountZero ==
    ASSUME NEW S, IsFiniteSet(S)
    PROVE  Cardinality(S) \in Nat /\ (Cardinality(S) = 0 <=> S = {})
BY FS_EmptySet, FS_CardinalityType

-----------------------------------------------------------------------------
(* The methods of DuplicateRegistry. *)
LEMMA RegistryFields ==
    ASSUME NEW reg, RegistryOK(reg)
    PROVE  /\ reg.entries \in SUBSET Entries /\ IsFiniteSet(reg.entries)
           /\ Cardinality(reg.entries) \in Nat
           /\ \A b \in Buckets : reg.buckets[b].references \in Nat /\ reg.buckets[b].retired \in BOOLEAN
<1>1. reg \in Registries
    BY DEF RegistryOK
<1>2. IsFiniteSet(reg.entries)
    BY DEF RegistryOK
<1>3. reg.entries \in SUBSET Entries /\ reg.buckets \in [Buckets -> [references : Nat, retired : BOOLEAN]]
    BY <1>1 DEF Registries
<1>4. Cardinality(reg.entries) \in Nat
    BY <1>2, FS_CardinalityType
<1> QED BY <1>2, <1>3, <1>4

\* Fewer entries are as good.
LEMMA FewerEntries ==
    ASSUME NEW reg, RegistryOK(reg), NEW after \in Registries, after.entries \subseteq reg.entries
    PROVE  RegistryOK(after)
<1>1. IsFiniteSet(after.entries) /\ Cardinality(after.entries) <= Cardinality(reg.entries)
    BY FS_Subset DEF RegistryOK
<1>2. Cardinality(after.entries) \in Nat /\ Cardinality(reg.entries) \in Nat
    BY <1>1, RegistryFields, FS_CardinalityType
<1> QED BY SMTT(30), <1>1, <1>2, CapacityAssumption DEF RegistryOK

\* retain_height
LEMMA RetainKeeps ==
    ASSUME NEW reg, RegistryOK(reg), NEW b \in Buckets
    PROVE  LET after == RetainHeight(reg, b)
           IN /\ RegistryOK(after) /\ after.entries = reg.entries
              /\ \A a \in Buckets : /\ after.buckets[a].references =
                                           reg.buckets[a].references + IF a = b THEN 1 ELSE 0
                                    /\ after.buckets[a].retired = reg.buckets[a].retired
<1> DEFINE after == RetainHeight(reg, b)
           n == reg.buckets[b].references + 1
<1>1. n \in Nat /\ reg \in Registries
    BY SMTT(30), RegistryFields DEF RegistryOK
<1>2. after = [reg EXCEPT !.buckets[b].references = n]
    BY DEF RetainHeight
<1> HIDE DEF n, after
<1>3. after \in Registries
    BY <1>1, <1>2 DEF Registries
<1>4. after.entries = reg.entries
    BY <1>1, <1>2 DEF Registries
<1>5. \A a \in Buckets : /\ after.buckets[a].references = IF a = b THEN n ELSE reg.buckets[a].references
                         /\ after.buckets[a].retired = reg.buckets[a].retired
    BY <1>1, <1>2 DEF Registries
<1>6. \A a \in Buckets : reg.buckets[a].references \in Nat
    BY RegistryFields
<1> QED BY SMTT(30), <1>3, <1>4, <1>5, <1>6, FewerEntries DEF after, n

\* A job is made: it refers to its bucket.
LEMMA RetainForJob ==
    ASSUME NEW reg, RegistryOK(reg), NEW J, IsFiniteSet(J), NEW bk, NEW bk2, NEW other \in [Buckets -> Nat],
           BucketsOK(reg, J, bk, other), NEW n, n \notin J, NEW b \in Buckets,
           \A j \in J : bk2[j] = bk[j], bk2[n] = b
    PROVE  BucketsOK(RetainHeight(reg, b), J \cup {n}, bk2, other)
<1> DEFINE after == RetainHeight(reg, b)
<1>1. /\ after.entries = reg.entries
      /\ \A a \in Buckets : /\ after.buckets[a].references =
                                   reg.buckets[a].references + IF a = b THEN 1 ELSE 0
                            /\ after.buckets[a].retired = reg.buckets[a].retired
    BY RetainKeeps
<1> HIDE DEF after
<1> SUFFICES ASSUME NEW a \in Buckets
             PROVE  /\ after.buckets[a].references = Cardinality(JobsIn(J \cup {n}, bk2, a)) + other[a]
                    /\ after.buckets[a].references = 0 => \A e \in after.entries : e.bucket # a
                    /\ after.buckets[a].references > 0 /\ ~after.buckets[a].retired =>
                           JobsIn(J \cup {n}, bk2, a) # {}
    BY DEF BucketsOK, after
<1>2. reg.buckets[a].references \in Nat
    BY RegistryFields
<1>3. IsFiniteSet(JobsIn(J, bk, a))
    BY FS_Subset DEF JobsIn
<1>4. CASE a = b
    <2>1. JobsIn(J \cup {n}, bk2, a) = JobsIn(J, bk, a) \cup {n} /\ n \notin JobsIn(J, bk, a)
        BY <1>4 DEF JobsIn
    <2>2. Cardinality(JobsIn(J \cup {n}, bk2, a)) = Cardinality(JobsIn(J, bk, a)) + 1
          /\ Cardinality(JobsIn(J, bk, a)) \in Nat
        BY <1>3, <2>1, CountUp
    <2>3. reg.buckets[a].references = Cardinality(JobsIn(J, bk, a)) + other[a]
        BY DEF BucketsOK
    <2>4. after.buckets[a].references = reg.buckets[a].references + 1 /\ other[a] \in Nat
        BY <1>1, <1>4
    <2>5. JobsIn(J \cup {n}, bk2, a) # {}
        BY <2>1
    <2>6. after.buckets[a].references = Cardinality(JobsIn(J \cup {n}, bk2, a)) + other[a]
        BY SMTT(30), <1>2, <2>2, <2>3, <2>4
    <2>7. after.buckets[a].references # 0
        BY SMTT(30), <1>2, <2>4
    <2> QED BY <2>5, <2>6, <2>7
<1>5. CASE a # b
    <2>1. JobsIn(J \cup {n}, bk2, a) = JobsIn(J, bk, a)
        BY <1>5 DEF JobsIn
    <2>2. after.buckets[a].references = reg.buckets[a].references
        BY SMTT(30), <1>1, <1>2, <1>5
    <2> QED BY <1>1, <2>1, <2>2 DEF BucketsOK
<1> QED BY <1>4, <1>5

\* A lease or a task is added to a bucket that is in use.
LEMMA RetainForHolder ==
    ASSUME NEW reg, RegistryOK(reg), NEW J, IsFiniteSet(J), NEW bk, NEW other \in [Buckets -> Nat],
           BucketsOK(reg, J, bk, other), NEW b \in Buckets, reg.buckets[b].references > 0
    PROVE  BucketsOK(RetainHeight(reg, b), J, bk, [other EXCEPT ![b] = @ + 1])
<1> DEFINE after == RetainHeight(reg, b)
<1>1. /\ after.entries = reg.entries
      /\ \A a \in Buckets : /\ after.buckets[a].references =
                                   reg.buckets[a].references + IF a = b THEN 1 ELSE 0
                            /\ after.buckets[a].retired = reg.buckets[a].retired
    BY RetainKeeps
<1>2. \A a \in Buckets : reg.buckets[a].references \in Nat /\ Cardinality(JobsIn(J, bk, a)) \in Nat
    <2>1. \A a \in Buckets : IsFiniteSet(JobsIn(J, bk, a))
        BY FS_Subset DEF JobsIn
    <2> QED BY <2>1, FS_CardinalityType, RegistryFields
<1> HIDE DEF after
<1> QED BY SMTT(30), <1>1, <1>2 DEF BucketsOK, after

\* release_height, with a reference to release.
LEMMA ReleaseKeeps ==
    ASSUME NEW reg, RegistryOK(reg), NEW b \in Buckets, reg.buckets[b].references > 0
    PROVE  LET after == ReleaseHeight(reg, b)
           IN /\ RegistryOK(after) /\ after.entries \subseteq reg.entries
              /\ \A e \in reg.entries \ after.entries :
                     e.bucket = b /\ after.buckets[b].references = 0
              /\ \A a \in Buckets \ {b} : after.buckets[a] = reg.buckets[a]
              /\ after.buckets[b].references = reg.buckets[b].references - 1
              /\ after.buckets[b].references > 0 => after.buckets[b].retired = reg.buckets[b].retired
              /\ after.buckets[b].references = 0 /\ reg.buckets[b].retired =>
                     \A e \in after.entries : e.bucket # b
<1> DEFINE after == ReleaseHeight(reg, b)
           n == reg.buckets[b].references - 1
           less == [reg EXCEPT !.buckets[b].references = n]
<1>1. n \in Nat /\ reg \in Registries /\ reg.buckets[b].references # 0
    BY SMTT(30), RegistryFields DEF RegistryOK
<1>2. after = CollectBucket(less, b)
    BY <1>1 DEF ReleaseHeight
<1>3. less \in Registries
    BY <1>1 DEF Registries
<1>4. less.entries = reg.entries
    BY <1>1 DEF Registries
<1>5. /\ less.buckets[b].references = n /\ less.buckets[b].retired = reg.buckets[b].retired
      /\ \A a \in Buckets \ {b} : less.buckets[a] = reg.buckets[a]
    BY <1>1 DEF Registries
<1> HIDE DEF less, after, n
<1>6. CASE ~(less.buckets[b].retired /\ less.buckets[b].references = 0)
    <2>1. after = less
        BY <1>2, <1>6 DEF CollectBucket
    <2>2. RegistryOK(after)
        BY <2>1, <1>3, <1>4, FewerEntries
    <2> QED BY <2>1, <2>2, <1>1, <1>4, <1>5, <1>6 DEF after, n
<1>7. CASE less.buckets[b].retired /\ less.buckets[b].references = 0
    <2>1. after = [entries |-> less.entries \ KeysOf(less, b), buckets |-> [less.buckets EXCEPT ![b] = NoBucket]]
        BY <1>2, <1>7 DEF CollectBucket
    <2>2. NoBucket \in [references : Nat, retired : BOOLEAN] /\ NoBucket.references = 0
        BY DEF NoBucket
    <2>3. after \in Registries
        BY <2>1, <2>2, <1>3 DEF Registries
    <2>4. after.entries = {e \in reg.entries : e.bucket # b}
        BY <2>1, <1>4 DEF KeysOf
    <2>5. after.buckets[b] = NoBucket /\ \A a \in Buckets \ {b} : after.buckets[a] = less.buckets[a]
        BY <2>1, <1>3 DEF Registries
    <2>6. RegistryOK(after)
        BY <2>3, <2>4, FewerEntries
    <2>7. reg.buckets[b].references - 1 = 0 /\ after.buckets[b].references = 0
        BY <2>2, <2>5, <1>5, <1>7 DEF n
    <2>8. /\ \A a \in Buckets \ {b} : after.buckets[a] = reg.buckets[a]
          /\ \A e \in reg.entries \ after.entries : e.bucket = b
          /\ \A e \in after.entries : e.bucket # b
        BY <2>4, <2>5, <1>5
    <2> QED BY SMTT(30), <2>4, <2>6, <2>7, <2>8 DEF after
<1> QED BY <1>6, <1>7

\* A lease or a task ends.
LEMMA ReleaseForHolder ==
    ASSUME NEW reg, RegistryOK(reg), NEW J, IsFiniteSet(J), NEW bk, NEW other \in [Buckets -> Nat],
           BucketsOK(reg, J, bk, other), NEW b \in Buckets, other[b] > 0
    PROVE  /\ RegistryOK(ReleaseHeight(reg, b))
           /\ BucketsOK(ReleaseHeight(reg, b), J, bk, [other EXCEPT ![b] = @ - 1])
           /\ OnlyCollects(reg, ReleaseHeight(reg, b))
<1> DEFINE after == ReleaseHeight(reg, b)
<1>1. \A a \in Buckets : /\ IsFiniteSet(JobsIn(J, bk, a)) /\ Cardinality(JobsIn(J, bk, a)) \in Nat
                         /\ reg.buckets[a].references \in Nat
                         /\ reg.buckets[a].references = Cardinality(JobsIn(J, bk, a)) + other[a]
    <2>1. \A a \in Buckets : IsFiniteSet(JobsIn(J, bk, a))
        BY FS_Subset DEF JobsIn
    <2> QED BY <2>1, FS_CardinalityType, RegistryFields DEF BucketsOK
<1>2. reg.buckets[b].references > 0
    BY SMTT(30), <1>1
<1>3. /\ RegistryOK(after) /\ after.entries \subseteq reg.entries
      /\ \A e \in reg.entries \ after.entries : e.bucket = b /\ after.buckets[b].references = 0
      /\ \A a \in Buckets \ {b} : after.buckets[a] = reg.buckets[a]
      /\ after.buckets[b].references = reg.buckets[b].references - 1
      /\ after.buckets[b].references > 0 => after.buckets[b].retired = reg.buckets[b].retired
      /\ after.buckets[b].references = 0 /\ reg.buckets[b].retired =>
             \A e \in after.entries : e.bucket # b
    BY SMTT(30), <1>2, ReleaseKeeps
<1> HIDE DEF after
<1>4. OnlyCollects(reg, after)
    BY <1>3 DEF OnlyCollects
<1>5. after.buckets[b].references = 0 => reg.buckets[b].retired
    <2>1. after.buckets[b].references = 0 => Cardinality(JobsIn(J, bk, b)) = 0
        BY SMTT(30), <1>1, <1>3
    <2>2. Cardinality(JobsIn(J, bk, b)) = 0 => JobsIn(J, bk, b) = {}
        BY <1>1, CountZero
    <2>3. ~reg.buckets[b].retired => JobsIn(J, bk, b) # {}
        BY <1>2 DEF BucketsOK
    <2> QED BY <2>1, <2>2, <2>3, <1>1, RegistryFields
<1>6. ASSUME NEW a \in Buckets
      PROVE  /\ after.buckets[a].references =
                    Cardinality(JobsIn(J, bk, a)) + [other EXCEPT ![b] = @ - 1][a]
             /\ after.buckets[a].references = 0 => \A e \in after.entries : e.bucket # a
             /\ after.buckets[a].references > 0 /\ ~after.buckets[a].retired => JobsIn(J, bk, a) # {}
    <2>1. CASE a = b
        BY SMTT(30), <2>1, <1>1, <1>2, <1>3, <1>5 DEF BucketsOK
    <2>2. CASE a # b
        BY <2>2, <1>1, <1>3 DEF BucketsOK
    <2> QED BY <2>1, <2>2
<1> QED BY <1>3, <1>4, <1>6 DEF BucketsOK, after

\* reserve and release change keys, not references.
LEMMA SameReferences ==
    ASSUME NEW reg, NEW after, NEW J, NEW bk, NEW other, BucketsOK(reg, J, bk, other),
           \A a \in Buckets : /\ after.buckets[a].references = reg.buckets[a].references
                              /\ reg.buckets[a].references # 0 => after.buckets[a] = reg.buckets[a],
           \A e \in after.entries : e \in reg.entries \/ reg.buckets[e.bucket].references # 0
    PROVE  BucketsOK(after, J, bk, other)
<1> SUFFICES ASSUME NEW a \in Buckets
             PROVE  /\ after.buckets[a].references = Cardinality(JobsIn(J, bk, a)) + other[a]
                    /\ after.buckets[a].references = 0 => \A e \in after.entries : e.bucket # a
                    /\ after.buckets[a].references > 0 /\ ~after.buckets[a].retired => JobsIn(J, bk, a) # {}
    BY DEF BucketsOK
<1>1. /\ reg.buckets[a].references = Cardinality(JobsIn(J, bk, a)) + other[a]
      /\ reg.buckets[a].references = 0 => \A e \in reg.entries : e.bucket # a
      /\ reg.buckets[a].references > 0 /\ ~reg.buckets[a].retired => JobsIn(J, bk, a) # {}
    BY DEF BucketsOK
<1>2. CASE reg.buckets[a].references = 0
    <2>1. after.buckets[a].references = 0
        BY <1>2
    <2>2. \A e \in after.entries : e.bucket # a
        BY <1>1, <1>2
    <2> QED BY SMTT(30), <1>1, <1>2, <2>1, <2>2
<1>3. CASE reg.buckets[a].references # 0
    BY <1>1, <1>3
<1> QED BY <1>2, <1>3

LEMMA ReserveKeeps ==
    ASSUME NEW reg, RegistryOK(reg), NEW key \in Keys, NEW b \in Buckets, NEW owner \in Submissions
    PROVE  LET after == Reserve(reg, key, b, owner)
               result == ReserveResult(reg, key, b)
           IN /\ RegistryOK(after) /\ after.buckets = reg.buckets
              /\ result \in {"reserved", "duplicate", "capacity"}
              /\ result = "reserved" =>
                     /\ after.entries = reg.entries \cup {[key |-> key, bucket |-> b, owner |-> owner]}
                     /\ \A e \in reg.entries : e.key # key
              /\ result # "reserved" => after = reg
<1> DEFINE after == Reserve(reg, key, b, owner)
           result == ReserveResult(reg, key, b)
           new == [key |-> key, bucket |-> b, owner |-> owner]
<1>1. result \in {"reserved", "duplicate", "capacity"}
    BY DEF ReserveResult
<1>2. CASE result # "reserved"
    <2>1. after = reg
        BY <1>2 DEF Reserve
    <2> QED BY <2>1, <1>1, <1>2
<1>3. CASE result = "reserved"
    <2>1. after = [reg EXCEPT !.entries = reg.entries \cup {new}]
        BY <1>3 DEF Reserve
    <2>2. (\A e \in reg.entries : e.key # key) /\ ~(Cardinality(reg.entries) >= GlobalCapacity)
        BY <1>3 DEF ReserveResult
    <2>3. new \in Entries /\ new.key = key
        BY DEF Entries
    <2>4. reg \in Registries /\ IsFiniteSet(reg.entries) /\ \A e, f \in reg.entries : e.key = f.key => e = f
        BY DEF RegistryOK
    <2> HIDE DEF new, after, result
    <2>5. after \in Registries /\ after.entries = reg.entries \cup {new} /\ after.buckets = reg.buckets
        BY <2>1, <2>3, <2>4 DEF Registries
    <2>6. new \notin reg.entries
        BY <2>2, <2>3
    <2>7. /\ IsFiniteSet(after.entries) /\ Cardinality(after.entries) = Cardinality(reg.entries) + 1
          /\ Cardinality(reg.entries) \in Nat
        BY <2>4, <2>5, <2>6, CountUp
    <2>8. Cardinality(after.entries) <= GlobalCapacity
        BY SMTT(30), <2>2, <2>7, CapacityAssumption
    <2>9. \A e, f \in after.entries : e.key = f.key => e = f
        BY <2>2, <2>3, <2>4, <2>5
    <2>10. RegistryOK(after)
        BY <2>5, <2>7, <2>8, <2>9 DEF RegistryOK
    <2> QED BY <1>1, <1>3, <2>2, <2>5, <2>10 DEF new, after, result
<1> QED BY <1>2, <1>3

LEMMA ReleaseTokenKeeps ==
    ASSUME NEW reg, RegistryOK(reg), NEW key, NEW owner
    PROVE  LET after == ReleaseToken(reg, key, owner)
           IN /\ RegistryOK(after)
              /\ after.entries = {e \in reg.entries : ~(e.key = key /\ e.owner = owner)}
              /\ \A a \in Buckets : /\ after.buckets[a].references = reg.buckets[a].references
                                    /\ reg.buckets[a].references # 0 => after.buckets[a] = reg.buckets[a]
<1> DEFINE after == ReleaseToken(reg, key, owner)
<1>1. reg \in Registries
    BY DEF RegistryOK
<1>2. NoBucket \in [references : Nat, retired : BOOLEAN] /\ NoBucket.references = 0
    BY DEF NoBucket
<1>3. after.entries = {e \in reg.entries : ~(e.key = key /\ e.owner = owner)}
    BY DEF ReleaseToken, TokenEntries
<1>4. \A a \in Buckets : after.buckets[a] = reg.buckets[a]
                         \/ (reg.buckets[a].references = 0 /\ after.buckets[a] = NoBucket)
    BY DEF ReleaseToken
<1>5. after.buckets = [a \in Buckets |-> after.buckets[a]] /\ after = [entries |-> after.entries, buckets |-> after.buckets]
    BY DEF ReleaseToken
<1> HIDE DEF after
<1>6. after \in Registries
    BY SMTT(30), <1>1, <1>2, <1>3, <1>4, <1>5 DEF Registries
<1>7. RegistryOK(after)
    BY <1>3, <1>6, FewerEntries
<1> QED BY <1>2, <1>3, <1>4, <1>7 DEF after

\* Jobs are retired: each retires its bucket and gives back its reference.
LEMMA RetireForJobs ==
    ASSUME NEW reg, RegistryOK(reg), NEW J, IsFiniteSet(J), NEW bk, NEW other \in [Buckets -> Nat],
           BucketsOK(reg, J, bk, other), NEW K \in SUBSET J
    PROVE  LET after == RetireHeights(reg, [b \in Buckets |-> Cardinality(JobsIn(K, bk, b))])
           IN /\ RegistryOK(after)
              /\ BucketsOK(after, J \ K, bk, other)
              /\ OnlyCollects(reg, after)
<1> DEFINE given == [b \in Buckets |-> Cardinality(JobsIn(K, bk, b))]
           after == RetireHeights(reg, given)
           collected == {b \in Buckets : given[b] > 0 /\ reg.buckets[b].references <= given[b]}
<1>1. \A b \in Buckets :
         /\ IsFiniteSet(JobsIn(J, bk, b)) /\ IsFiniteSet(JobsIn(K, bk, b))
         /\ JobsIn(K, bk, b) \subseteq JobsIn(J, bk, b)
         /\ JobsIn(J \ K, bk, b) = JobsIn(J, bk, b) \ JobsIn(K, bk, b)
    <2>1. IsFiniteSet(K)
        BY FS_Subset
    <2> QED BY <2>1, FS_Subset DEF JobsIn
<1>2. \A b \in Buckets :
         /\ Cardinality(JobsIn(J, bk, b)) \in Nat /\ given[b] \in Nat /\ given[b] = Cardinality(JobsIn(K, bk, b))
         /\ Cardinality(JobsIn(J \ K, bk, b)) = Cardinality(JobsIn(J, bk, b)) - given[b]
         /\ given[b] <= Cardinality(JobsIn(J, bk, b))
    <2> SUFFICES ASSUME NEW b \in Buckets
                 PROVE  /\ Cardinality(JobsIn(J, bk, b)) \in Nat /\ given[b] \in Nat
                        /\ given[b] = Cardinality(JobsIn(K, bk, b))
                        /\ Cardinality(JobsIn(J \ K, bk, b)) = Cardinality(JobsIn(J, bk, b)) - given[b]
                        /\ given[b] <= Cardinality(JobsIn(J, bk, b))
        OBVIOUS
    <2>1. given[b] = Cardinality(JobsIn(K, bk, b))
        OBVIOUS
    <2>2. Cardinality(JobsIn(J, bk, b)) \in Nat /\ Cardinality(JobsIn(K, bk, b)) \in Nat
        BY <1>1, FS_CardinalityType
    <2>3. JobsIn(J, bk, b) \cap JobsIn(K, bk, b) = JobsIn(K, bk, b)
        BY <1>1
    <2>4. Cardinality(JobsIn(J, bk, b) \ JobsIn(K, bk, b)) =
              Cardinality(JobsIn(J, bk, b)) - Cardinality(JobsIn(J, bk, b) \cap JobsIn(K, bk, b))
        BY <1>1, FS_Difference
    <2>5. Cardinality(JobsIn(K, bk, b)) <= Cardinality(JobsIn(J, bk, b))
        BY <1>1, FS_Subset
    <2> QED BY <1>1, <2>1, <2>2, <2>3, <2>4, <2>5
<1>3. reg \in Registries /\ NoBucket \in [references : Nat, retired : BOOLEAN] /\ NoBucket.references = 0
    BY DEF RegistryOK, NoBucket
<1>4. \A b \in Buckets : reg.buckets[b].references \in Nat /\ other[b] \in Nat
                         /\ reg.buckets[b].references = Cardinality(JobsIn(J, bk, b)) + other[b]
    BY RegistryFields DEF BucketsOK
<1>5. after = [entries |-> {e \in reg.entries : e.bucket \notin collected},
               buckets |-> [b \in Buckets |->
                   IF b \in collected THEN NoBucket
                   ELSE IF given[b] = 0 THEN reg.buckets[b]
                   ELSE [references |-> reg.buckets[b].references - given[b], retired |-> TRUE]]]
    BY DEF RetireHeights
<1> HIDE DEF after, given
<1>6. after.entries = {e \in reg.entries : e.bucket \notin collected}
    BY <1>5
<1>7. \A b \in Buckets :
         /\ b \in collected => after.buckets[b] = NoBucket
         /\ b \notin collected /\ given[b] = 0 => after.buckets[b] = reg.buckets[b]
         /\ b \notin collected /\ given[b] # 0 =>
                after.buckets[b] = [references |-> reg.buckets[b].references - given[b], retired |-> TRUE]
    BY <1>5
<1>8. \A b \in Buckets : b \notin collected => given[b] = 0 \/ reg.buckets[b].references - given[b] \in Nat \ {0}
    BY SMTT(30), <1>2, <1>4
<1>9. \A b \in collected : b \in Buckets /\ reg.buckets[b].references - given[b] = 0 /\ other[b] = 0
    BY SMTT(30), <1>2, <1>4
<1> HIDE DEF collected
<1>10. after \in Registries
    <2>1. ASSUME NEW b \in Buckets PROVE after.buckets[b] \in [references : Nat, retired : BOOLEAN]
        <3>1. CASE b \in collected
            BY <1>3, <1>7, <3>1
        <3>2. CASE b \notin collected /\ given[b] = 0
            BY <1>3, <1>7, <3>2 DEF Registries
        <3>3. CASE b \notin collected /\ given[b] # 0
            <4> DEFINE n == reg.buckets[b].references - given[b]
            <4>1. n \in Nat
                BY <1>8, <3>3
            <4>2. after.buckets[b] = [references |-> n, retired |-> TRUE]
                BY <1>7, <3>3
            <4> HIDE DEF n
            <4> QED BY SMTT(30), <4>1, <4>2
        <3> QED BY <3>1, <3>2, <3>3
    <2>2. after = [entries |-> after.entries, buckets |-> [b \in Buckets |-> after.buckets[b]]]
        BY <1>5
    <2> QED BY SMTT(30), <1>3, <1>6, <2>1, <2>2 DEF Registries
<1>11. RegistryOK(after)
    BY <1>6, <1>10, FewerEntries
<1>12. OnlyCollects(reg, after)
    BY <1>3, <1>6, <1>7, <1>9 DEF OnlyCollects
<1>13. ASSUME NEW b \in Buckets
       PROVE  /\ after.buckets[b].references = Cardinality(JobsIn(J \ K, bk, b)) + other[b]
              /\ after.buckets[b].references = 0 => \A e \in after.entries : e.bucket # b
              /\ after.buckets[b].references > 0 /\ ~after.buckets[b].retired => JobsIn(J \ K, bk, b) # {}
    <2>1. CASE b \in collected
        <3>1. after.buckets[b].references = 0 /\ other[b] = 0
            BY <1>3, <1>7, <1>9, <2>1
        <3>2. Cardinality(JobsIn(J \ K, bk, b)) = 0
            <4>1. /\ reg.buckets[b].references = Cardinality(JobsIn(J, bk, b)) + other[b]
                  /\ reg.buckets[b].references - given[b] = 0
                BY <1>4, <1>9, <2>1
            <4>2. /\ Cardinality(JobsIn(J, bk, b)) \in Nat /\ given[b] \in Nat
                  /\ Cardinality(JobsIn(J \ K, bk, b)) = Cardinality(JobsIn(J, bk, b)) - given[b]
                BY <1>2
            <4> QED BY SMTT(30), <3>1, <4>1, <4>2
        <3> QED BY SMTT(30), <1>6, <2>1, <3>1, <3>2
    <2>2. CASE b \notin collected /\ given[b] = 0
        <3>1. JobsIn(K, bk, b) = {} /\ after.buckets[b] = reg.buckets[b]
            BY <1>1, <1>2, <1>7, <2>2, CountZero
        <3>2. JobsIn(J \ K, bk, b) = JobsIn(J, bk, b)
            BY <1>1, <3>1
        <3> QED BY <1>6, <3>1, <3>2 DEF BucketsOK
    <2>3. CASE b \notin collected /\ given[b] # 0
        <3>1. after.buckets[b].references = reg.buckets[b].references - given[b] /\ after.buckets[b].retired
            <4> DEFINE n == reg.buckets[b].references - given[b]
            <4>1. after.buckets[b] = [references |-> n, retired |-> TRUE]
                BY <1>7, <2>3
            <4> QED BY SMTT(30), <4>1
        <3>2. after.buckets[b].references \in Nat \ {0}
            BY <1>8, <2>3, <3>1
        <3>3. after.buckets[b].references = Cardinality(JobsIn(J \ K, bk, b)) + other[b]
            <4>1. /\ reg.buckets[b].references = Cardinality(JobsIn(J, bk, b)) + other[b]
                  /\ other[b] \in Nat
                BY <1>4
            <4>2. /\ Cardinality(JobsIn(J, bk, b)) \in Nat /\ given[b] \in Nat
                  /\ Cardinality(JobsIn(J \ K, bk, b)) = Cardinality(JobsIn(J, bk, b)) - given[b]
                BY <1>2
            <4> QED BY SMTT(30), <3>1, <4>1, <4>2
        <3> QED BY <3>1, <3>2, <3>3
    <2> QED BY <2>1, <2>2, <2>3
<1>14. BucketsOK(after, J \ K, bk, other)
    BY <1>13 DEF BucketsOK
<1> QED BY <1>11, <1>12, <1>14 DEF after, given

-----------------------------------------------------------------------------
(* The invariant. *)
LEMMA SubmissionsFinite == ASSUME NEW S \in SUBSET Submissions PROVE IsFiniteSet(S) /\ Cardinality(S) \in Nat
<1>1. IsFiniteSet(Submissions)
    BY SMTT(30), FS_Interval, AdmissionAssumption DEF Submissions
<1> QED BY <1>1, FS_Subset, FS_CardinalityType

LEMMA NoSubmissionType ==
    /\ NoSubmission \in SubStates
    /\ NoSubmission.pc = "none" /\ NoSubmission.job = NoJob /\ ~NoSubmission.lease /\ ~NoSubmission.task
    /\ NoSubmission.local = "none" /\ ~NoSubmission.token /\ NoSubmission.result = "none"
<1>1. (CHOOSE c \in Sources : TRUE) \in Sources /\ (CHOOSE n \in Nonces : TRUE) \in Nonces
    BY AdmissionAssumption
<1> QED BY <1>1 DEF NoSubmission, SubStates

LEMMA AdmissionInitInv == Init => AdmissionInv
<1> SUFFICES ASSUME Init PROVE AdmissionInv
    OBVIOUS
<1> USE DEF Init
<1>1. RegistryOK(registry)
    BY SMTT(30), FS_EmptySet, CapacityAssumption DEF RegistryInit, RegistryOK, Registries, NoBucket
<1>2. TypeInv
    BY SMTT(30), <1>1, NoSubmissionType, AdmissionAssumption DEF TypeInv, NewConnection, Connections, Jobs
<1>3. \A s \in Submissions : subs[s] = NoSubmission
    OBVIOUS
<1>4. /\ \A b \in Buckets : LeasesIn(b) = {} /\ TasksIn(b) = {}
      /\ \A c \in Sources : WaitingOf(c) = {} /\ FlightOf(c) = {} /\ JobsOf(c) = {}
    BY <1>3, NoSubmissionType DEF LeasesIn, TasksIn, WaitingOf, Verifying, FlightOf, InFlight, JobsOf
<1>5. BucketsOK(registry, live, JobBuckets, Holders)
    <2>1. \A b \in Buckets : Cardinality(JobsIn(live, JobBuckets, b)) = 0 /\ Holders[b] = 0
        <3>1. \A b \in Buckets : Holders[b] = Cardinality(LeasesIn(b)) + Cardinality(TasksIn(b))
            BY DEF Holders
        <3>2. \A b \in Buckets : JobsIn(live, JobBuckets, b) = {}
            BY DEF JobsIn
        <3>3. Cardinality({}) = 0
            BY FS_EmptySet
        <3>4. \A b \in Buckets : Cardinality(LeasesIn(b)) = 0 /\ Cardinality(TasksIn(b)) = 0
            BY <1>4, <3>3
        <3> HIDE DEF Init
        <3>5. \A b \in Buckets : Holders[b] = 0
            BY SMTT(30), <3>1, <3>4
        <3>6. \A b \in Buckets : Cardinality(JobsIn(live, JobBuckets, b)) = 0
            BY <3>2, <3>3
        <3> QED BY <3>5, <3>6
    <2>2. registry.entries = {} /\ \A b \in Buckets : registry.buckets[b].references = 0
        BY DEF RegistryInit, NoBucket
    <2> QED BY SMTT(30), <2>1, <2>2 DEF BucketsOK
<1>6. \A c \in Sources : pending[c] = Cardinality(WaitingOf(c)) /\ ConnIsConsistent(c)
    BY <1>4, FS_EmptySet DEF ConnIsConsistent, NewConnection
<1>7. \A s \in Submissions : SubIsConsistent(s) /\ KeysAreOwned(s) /\ CreditIsKept(s)
    <2> SUFFICES ASSUME NEW s \in Submissions PROVE SubIsConsistent(s) /\ KeysAreOwned(s) /\ CreditIsKept(s)
        OBVIOUS
    <2>1. /\ subs[s].pc = "none" /\ subs[s].job = NoJob /\ ~subs[s].lease /\ ~subs[s].task
          /\ subs[s].local = "none" /\ ~subs[s].token /\ subs[s].result = "none" /\ registry.entries = {}
        BY <1>3, NoSubmissionType DEF RegistryInit
    <2>2. Len(jobs) = 0
        OBVIOUS
    <2> QED BY SMTT(30), <2>1, <2>2 DEF SubIsConsistent, KeysAreOwned, CreditIsKept, InFlight, NoJob
<1> QED BY <1>2, <1>5, <1>6, <1>7 DEF AdmissionInv, EntriesAreOfJobs, RegistryInit

LEMMA JobFacts ==
    ASSUME TypeInv
    PROVE  /\ IsFiniteSet(live) /\ Len(jobs) \in Nat
           /\ \A j \in 1..Len(jobs) : /\ jobs[j] \in Jobs /\ BucketOf(j) \in Buckets
                                      /\ BucketOf(j)[1] = jobs[j].conn /\ j \in JobIds
           /\ \A j \in live : j \in 1..Len(jobs) /\ JobBuckets[j] = BucketOf(j)
<1> USE DEF TypeInv
<1>1. Len(jobs) \in Nat /\ \A j \in 1..Len(jobs) : jobs[j] \in Jobs
    BY SMTT(30)
<1>2. IsFiniteSet(live)
    <2>1. IsFiniteSet(1..Len(jobs))
        BY SMTT(30), <1>1, FS_Interval
    <2> QED BY <2>1, FS_Subset
<1>3. \A j \in 1..Len(jobs) : BucketOf(j) \in Buckets /\ BucketOf(j)[1] = jobs[j].conn
    BY <1>1 DEF BucketOf, Buckets, Jobs
<1>4. \A j \in 1..Len(jobs) : j \in JobIds
    BY SMTT(30), <1>1, AdmissionAssumption DEF JobIds
<1>5. \A j \in live : j \in 1..Len(jobs) /\ JobBuckets[j] = BucketOf(j)
    BY DEF JobBuckets
<1> QED BY <1>1, <1>2, <1>3, <1>4, <1>5

LEMMA HoldersType == Holders \in [Buckets -> Nat]
<1>1. \A b \in Buckets : Cardinality(LeasesIn(b)) \in Nat /\ Cardinality(TasksIn(b)) \in Nat
    BY SubmissionsFinite DEF LeasesIn, TasksIn
<1> QED BY SMTT(30), <1>1 DEF Holders

\* Where a submission's references and keys are.
LEMMA SubFacts ==
    ASSUME AdmissionInv, NEW s \in Submissions, subs[s].job # NoJob
    PROVE  /\ subs[s].job \in 1..Len(jobs) /\ Bucket(s) \in Buckets /\ Bucket(s)[1] = subs[s].conn
           /\ \A hash \in Nonces : Key(s, hash) \in Keys /\ Entry(s, hash) \in Entries
                                   /\ Key(s, hash)[1] = subs[s].job /\ Entry(s, hash).key = Key(s, hash)
                                   /\ Entry(s, hash).owner = s /\ Entry(s, hash).bucket = Bucket(s)
<1>1. subs[s].job \in 0..Len(jobs) /\ jobs[subs[s].job].conn = subs[s].conn /\ Len(jobs) \in Nat
    BY JobFacts DEF AdmissionInv, SubIsConsistent
<1>2. subs[s].job \in 1..Len(jobs)
    BY SMTT(30), <1>1 DEF NoJob
<1>3. Bucket(s) \in Buckets /\ Bucket(s)[1] = subs[s].conn /\ subs[s].job \in JobIds
    BY <1>1, <1>2, JobFacts DEF AdmissionInv, Bucket
<1>4. \A hash \in Nonces : Key(s, hash) \in Keys /\ Key(s, hash)[1] = subs[s].job
    BY <1>3, AdmissionAssumption DEF Key, JobIds
<1> QED BY <1>2, <1>3, <1>4 DEF Entry, Entries

LEMMA HeldBuckets ==
    ASSUME AdmissionInv
    PROVE  /\ \A b \in Buckets : registry.buckets[b].references \in Nat
           /\ \A s \in Submissions : subs[s].lease \/ subs[s].task =>
                  /\ subs[s].job # NoJob /\ Bucket(s) \in Buckets
                  /\ Holders[Bucket(s)] > 0 /\ registry.buckets[Bucket(s)].references > 0
           /\ \A j \in live : registry.buckets[BucketOf(j)].references > 0
<1>1. \A b \in Buckets : registry.buckets[b].references \in Nat
    BY RegistryFields DEF AdmissionInv, TypeInv
<1>2. \A b \in Buckets : /\ Cardinality(JobsIn(live, JobBuckets, b)) \in Nat
                         /\ IsFiniteSet(JobsIn(live, JobBuckets, b))
                         /\ registry.buckets[b].references = Cardinality(JobsIn(live, JobBuckets, b)) + Holders[b]
                         /\ Holders[b] \in Nat
    <2>1. \A b \in Buckets : IsFiniteSet(JobsIn(live, JobBuckets, b))
        BY JobFacts, FS_Subset DEF JobsIn, AdmissionInv
    <2> QED BY <2>1, FS_CardinalityType, HoldersType DEF AdmissionInv, BucketsOK
<1>3. ASSUME NEW s \in Submissions, subs[s].lease \/ subs[s].task
      PROVE  /\ subs[s].job # NoJob /\ Bucket(s) \in Buckets
             /\ Holders[Bucket(s)] > 0 /\ registry.buckets[Bucket(s)].references > 0
    <2>1. subs[s].job # NoJob
        BY <1>3 DEF AdmissionInv, SubIsConsistent
    <2>2. Bucket(s) \in Buckets
        BY <2>1, SubFacts
    <2>3. /\ IsFiniteSet(LeasesIn(Bucket(s))) /\ Cardinality(LeasesIn(Bucket(s))) \in Nat
          /\ IsFiniteSet(TasksIn(Bucket(s))) /\ Cardinality(TasksIn(Bucket(s))) \in Nat
        BY SubmissionsFinite DEF LeasesIn, TasksIn
    <2>4. s \in LeasesIn(Bucket(s)) \/ s \in TasksIn(Bucket(s))
        BY <1>3 DEF LeasesIn, TasksIn
    <2>5. Cardinality(LeasesIn(Bucket(s))) # 0 \/ Cardinality(TasksIn(Bucket(s))) # 0
        BY <2>3, <2>4, CountZero
    <2>6. Holders[Bucket(s)] = Cardinality(LeasesIn(Bucket(s))) + Cardinality(TasksIn(Bucket(s)))
        BY <2>2 DEF Holders
    <2>7. Holders[Bucket(s)] > 0
        BY SMTT(30), <2>3, <2>5, <2>6
    <2>8. registry.buckets[Bucket(s)].references > 0
        BY SMTT(30), <2>2, <2>7, <1>2
    <2> QED BY <2>1, <2>2, <2>7, <2>8
<1>4. ASSUME NEW j \in live PROVE registry.buckets[BucketOf(j)].references > 0
    <2>1. BucketOf(j) \in Buckets /\ j \in JobsIn(live, JobBuckets, BucketOf(j))
        BY JobFacts DEF JobsIn, AdmissionInv
    <2>2. Cardinality(JobsIn(live, JobBuckets, BucketOf(j))) # 0
        BY <1>2, <2>1, CountZero
    <2> QED BY SMTT(30), <1>2, <2>1, <2>2
<1> QED BY <1>1, <1>3, <1>4

-----------------------------------------------------------------------------
(* One submission moves. *)
LEMMA WorkerFrame ==
    ASSUME AdmissionInv, NEW s \in Submissions, NEW r, WorkerMove(s, r)
    PROVE  /\ subs' \in [Submissions -> SubStates] /\ subs'[s] = r
           /\ \A t \in Submissions \ {s} : subs'[t] = subs[t]
           /\ \A t \in Submissions : /\ Bucket(t)' = Bucket(t) /\ CreditedHash(t)' = CreditedHash(t)
                                     /\ subs'[t].lease = subs[t].lease /\ subs'[t].job = subs[t].job
                                     /\ \A hash : Key(t, hash)' = Key(t, hash) /\ Entry(t, hash)' = Entry(t, hash)
           /\ \A c \in Sources : ConnIsConsistent(c)'
           /\ JobBuckets' = JobBuckets
           /\ \A b \in Buckets : LeasesIn(b)' = LeasesIn(b)
           /\ \A t \in Submissions \ {s} : SubIsConsistent(t)'
<1> USE DEF WorkerMove
<1>1. subs' \in [Submissions -> SubStates] /\ subs'[s] = r /\ \A t \in Submissions \ {s} : subs'[t] = subs[t]
    BY DEF AdmissionInv, TypeInv
<1>2. \A t \in Submissions : /\ subs'[t].lease = subs[t].lease /\ subs'[t].job = subs[t].job
                             /\ subs'[t].conn = subs[t].conn /\ subs'[t].nonce = subs[t].nonce
                             /\ subs'[t].claimed = subs[t].claimed
                             /\ subs'[t].pc \in InFlight <=> subs[t].pc \in InFlight
    BY <1>1
<1>3. \A t \in Submissions : /\ Bucket(t)' = Bucket(t) /\ CreditedHash(t)' = CreditedHash(t)
                             /\ \A hash : Key(t, hash)' = Key(t, hash)
    BY <1>2 DEF Bucket, BucketOf, CreditedHash, Key
<1>4. \A t \in Submissions : \A hash : Entry(t, hash)' = Entry(t, hash)
    BY <1>3 DEF Entry
<1>5. \A c \in Sources : FlightOf(c)' = FlightOf(c) /\ JobsOf(c)' = JobsOf(c)
    BY <1>2 DEF FlightOf, JobsOf
<1>6. \A c \in Sources : ConnIsConsistent(c)'
    BY <1>5 DEF ConnIsConsistent, AdmissionInv
<1>7. JobBuckets' = JobBuckets
    BY DEF JobBuckets, BucketOf
<1>8. \A b \in Buckets : LeasesIn(b)' = LeasesIn(b)
    BY <1>2, <1>3 DEF LeasesIn
<1>9. \A t \in Submissions \ {s} : SubIsConsistent(t)'
    BY SMTT(30), <1>1 DEF SubIsConsistent, AdmissionInv
<1> QED BY <1>1, <1>2, <1>3, <1>4, <1>6, <1>7, <1>8, <1>9

\* The holders of buckets, as the task of s stays or begins.
LEMMA WorkerHolders ==
    ASSUME AdmissionInv, NEW s \in Submissions, NEW r, WorkerMove(s, r)
    PROVE  /\ r.task = subs[s].task => Holders' = Holders
           /\ r.task /\ ~subs[s].task /\ Bucket(s) \in Buckets =>
                  Holders' = [Holders EXCEPT ![Bucket(s)] = @ + 1]
<1>1. /\ subs'[s] = r /\ \A t \in Submissions \ {s} : subs'[t] = subs[t]
      /\ \A t \in Submissions : Bucket(t)' = Bucket(t)
      /\ \A b \in Buckets : LeasesIn(b)' = LeasesIn(b)
    BY WorkerFrame
<1>2. /\ Holders = [b \in Buckets |-> Cardinality(LeasesIn(b)) + Cardinality(TasksIn(b))]
      /\ Holders' = [b \in Buckets |-> Cardinality(LeasesIn(b)') + Cardinality(TasksIn(b)')]
    BY DEF Holders
<1>3. ASSUME r.task = subs[s].task PROVE Holders' = Holders
    <2>1. \A b \in Buckets : TasksIn(b)' = TasksIn(b)
        BY <1>1, <1>3 DEF TasksIn
    <2> QED BY <1>1, <1>2, <2>1
<1>4. ASSUME r.task, ~subs[s].task, Bucket(s) \in Buckets
      PROVE  Holders' = [Holders EXCEPT ![Bucket(s)] = @ + 1]
    <2>1. \A b \in Buckets \ {Bucket(s)} : TasksIn(b)' = TasksIn(b)
        BY SMTT(30), <1>1, <1>4 DEF TasksIn
    <2>2. TasksIn(Bucket(s))' = TasksIn(Bucket(s)) \cup {s} /\ s \notin TasksIn(Bucket(s))
        BY SMTT(30), <1>1, <1>4 DEF TasksIn
    <2>3. IsFiniteSet(TasksIn(Bucket(s))) /\ Cardinality(LeasesIn(Bucket(s))) \in Nat
        BY SubmissionsFinite DEF TasksIn, LeasesIn
    <2>4. Cardinality(TasksIn(Bucket(s))') = Cardinality(TasksIn(Bucket(s))) + 1
          /\ Cardinality(TasksIn(Bucket(s))) \in Nat
        BY <2>2, <2>3, CountUp
    <2>5. Holders'[Bucket(s)] = Holders[Bucket(s)] + 1
        BY SMTT(30), <1>1, <1>2, <1>4, <2>3, <2>4
    <2>6. \A b \in Buckets \ {Bucket(s)} : Holders'[b] = Holders[b]
        BY <1>1, <1>2, <2>1
    <2> QED BY <1>2, <2>5, <2>6
<1> QED BY <1>3, <1>4

\* The keys of the others, while s reserves or releases its own.
LEMMA WorkerKeys ==
    ASSUME AdmissionInv, NEW s \in Submissions, NEW r, WorkerMove(s, r),
           \A e \in registry.entries \ registry'.entries : e.owner = s,
           \A e \in registry'.entries \ registry.entries :
               subs[s].job # NoJob /\ \E hash \in Nonces : e = Entry(s, hash)
    PROVE  /\ EntriesAreOfJobs'
           /\ \A t \in Submissions \ {s} : KeysAreOwned(t)' /\ CreditIsKept(t)'
<1>1. /\ subs'[s] = r /\ \A t \in Submissions \ {s} : subs'[t] = subs[t]
      /\ \A t \in Submissions : /\ Bucket(t)' = Bucket(t) /\ CreditedHash(t)' = CreditedHash(t)
                                /\ subs'[t].lease = subs[t].lease /\ subs'[t].job = subs[t].job
                                /\ \A hash : Key(t, hash)' = Key(t, hash) /\ Entry(t, hash)' = Entry(t, hash)
    BY WorkerFrame
<1>2. UNCHANGED <<jobs, live>>
    BY DEF WorkerMove
<1>3. ASSUME NEW e \in registry'.entries \ registry.entries
      PROVE  e.owner = s /\ e.key[1] \in 1..Len(jobs) /\ e.bucket = BucketOf(e.key[1])
    BY SMTT(30), <1>3, SubFacts DEF Bucket
<1>4. EntriesAreOfJobs'
    BY <1>2, <1>3 DEF EntriesAreOfJobs, BucketOf, AdmissionInv
<1>5. ASSUME NEW t \in Submissions \ {s} PROVE KeysAreOwned(t)' /\ CreditIsKept(t)'
    <2>1. \A e : e.owner = t => (e \in registry'.entries <=> e \in registry.entries)
        BY <1>3
    <2>2. KeysAreOwned(t)'
        <3>1. KeysAreOwned(t)
            BY DEF AdmissionInv
        <3>2. subs'[t].token => Entry(t, subs'[t].claimed).owner = t
            BY DEF Entry
        <3> QED BY SMTT(30), <1>1, <2>1, <3>1, <3>2 DEF KeysAreOwned
    <2>3. CreditIsKept(t)'
        <3>1. CreditIsKept(t)
            BY DEF AdmissionInv
        <3>2. Entry(t, CreditedHash(t)).owner = t
            BY DEF Entry
        <3> QED BY SMTT(30), <1>1, <1>2, <2>1, <3>1, <3>2 DEF CreditIsKept
    <2> QED BY <2>2, <2>3
<1> QED BY <1>4, <1>5

\* pending_verifications_ counts the shares that wait for the verifier.
LEMMA WaitStays ==
    ASSUME AdmissionInv, NEW s \in Submissions, NEW r, WorkerMove(s, r), pending' = pending,
           subs[s].pc = "verifying" <=> r.pc = "verifying"
    PROVE  PendingOK'
<1>1. subs'[s] = r /\ \A t \in Submissions \ {s} : subs'[t] = subs[t]
    BY WorkerFrame
<1>2. \A c \in Sources : WaitingOf(c)' = WaitingOf(c)
    BY <1>1 DEF WaitingOf, Verifying, WorkerMove
<1> QED BY <1>2 DEF PendingOK, AdmissionInv, TypeInv

LEMMA WaitBegins ==
    ASSUME AdmissionInv, NEW s \in Submissions, NEW r, WorkerMove(s, r),
           subs[s].pc # "verifying", r.pc = "verifying", pending[subs[s].conn] < MaxVerifications,
           pending' = [pending EXCEPT ![subs[s].conn] = @ + 1]
    PROVE  PendingOK'
<1>0. PICK k \in Sources : k = subs[s].conn
    BY DEF AdmissionInv, TypeInv, SubStates
<1>1. subs'[s] = r /\ \A t \in Submissions \ {s} : subs'[t] = subs[t]
    BY WorkerFrame
<1>2. pending \in [Sources -> 0..MaxVerifications] /\ MaxVerifications \in Nat
    BY AdmissionAssumption DEF AdmissionInv, TypeInv
<1>3. WaitingOf(k)' = WaitingOf(k) \cup {s} /\ s \notin WaitingOf(k)
    BY <1>0, <1>1 DEF WaitingOf, Verifying, WorkerMove
<1>4. \A c \in Sources \ {k} : WaitingOf(c)' = WaitingOf(c)
    BY <1>0, <1>1 DEF WaitingOf, Verifying, WorkerMove
<1>5. IsFiniteSet(WaitingOf(k))
    BY SubmissionsFinite DEF WaitingOf, Verifying
<1>6. Cardinality(WaitingOf(k)') = Cardinality(WaitingOf(k)) + 1
    BY <1>3, <1>5, CountUp
<1>7. pending'[k] = pending[k] + 1 /\ \A c \in Sources \ {k} : pending'[c] = pending[c]
    BY <1>0, <1>2
<1>8. pending' \in [Sources -> 0..MaxVerifications]
    BY SMTT(30), <1>0, <1>2
<1>9. \A c \in Sources : pending[c] = Cardinality(WaitingOf(c))
    BY DEF AdmissionInv
<1> QED BY <1>2, <1>4, <1>6, <1>7, <1>8, <1>9 DEF PendingOK

LEMMA WaitEnds ==
    ASSUME AdmissionInv, NEW s \in Submissions, NEW r, WorkerMove(s, r),
           subs[s].pc = "verifying", r.pc # "verifying", DecrementPending(s)
    PROVE  PendingOK'
<1>0. PICK k \in Sources : k = subs[s].conn
    BY DEF AdmissionInv, TypeInv, SubStates
<1>1. subs'[s] = r /\ \A t \in Submissions \ {s} : subs'[t] = subs[t]
    BY WorkerFrame
<1>2. pending \in [Sources -> 0..MaxVerifications] /\ MaxVerifications \in Nat
    BY AdmissionAssumption DEF AdmissionInv, TypeInv
<1>3. WaitingOf(k)' = WaitingOf(k) \ {s} /\ s \in WaitingOf(k)
    BY <1>0, <1>1 DEF WaitingOf, Verifying, WorkerMove
<1>4. \A c \in Sources \ {k} : WaitingOf(c)' = WaitingOf(c)
    BY <1>0, <1>1 DEF WaitingOf, Verifying, WorkerMove
<1>5. IsFiniteSet(WaitingOf(k))
    BY SubmissionsFinite DEF WaitingOf, Verifying
<1>6. Cardinality(WaitingOf(k)') = Cardinality(WaitingOf(k)) - 1 /\ Cardinality(WaitingOf(k)) > 0
    BY <1>3, <1>5, CountDown
<1>7. \A c \in Sources : pending[c] = Cardinality(WaitingOf(c))
    BY DEF AdmissionInv
<1>8. pending[k] # 0 /\ pending[k] \in 0..MaxVerifications
    BY SMTT(30), <1>2, <1>6, <1>7
<1>9. pending' = [pending EXCEPT ![k] = pending[k] - 1]
    BY <1>0, <1>2, <1>8 DEF DecrementPending
<1>10. pending'[k] = pending[k] - 1 /\ \A c \in Sources \ {k} : pending'[c] = pending[c]
    BY <1>2, <1>9
<1>11. pending' \in [Sources -> 0..MaxVerifications]
    BY SMTT(30), <1>2, <1>8, <1>9
<1> QED BY <1>2, <1>4, <1>6, <1>7, <1>10, <1>11 DEF PendingOK

\* What is left to show of a worker's step.
LEMMA WorkerStepInv ==
    ASSUME AdmissionInv, NEW s \in Submissions, NEW r, WorkerMove(s, r),
           RegistryOK(registry'), BucketsOK(registry', live, JobBuckets, Holders'),
           \A e \in registry.entries \ registry'.entries : e.owner = s,
           \A e \in registry'.entries \ registry.entries :
               subs[s].job # NoJob /\ \E hash \in Nonces : e = Entry(s, hash),
           PendingOK', candidates' \subseteq Keys,
           SubIsConsistent(s)', KeysAreOwned(s)', CreditIsKept(s)'
    PROVE  AdmissionInv'
<1>1. /\ subs' \in [Submissions -> SubStates] /\ JobBuckets' = JobBuckets
      /\ \A c \in Sources : ConnIsConsistent(c)'
      /\ \A t \in Submissions \ {s} : SubIsConsistent(t)'
    BY WorkerFrame
<1>2. EntriesAreOfJobs' /\ \A t \in Submissions \ {s} : KeysAreOwned(t)' /\ CreditIsKept(t)'
    BY WorkerKeys
<1>3. UNCHANGED <<verified, jobs, live, connections, fatal>>
    BY DEF WorkerMove
<1>4. TypeInv' /\ ~fatal'
    BY <1>1, <1>3 DEF TypeInv, AdmissionInv, PendingOK
<1>5. BucketsOK(registry, live, JobBuckets, Holders)'
    BY <1>1, <1>3
<1> QED BY <1>1, <1>2, <1>4, <1>5 DEF AdmissionInv, PendingOK

\* What s keeps when its answer is known.
LEMMA JudgedFields ==
    ASSUME NEW sub \in SubStates, NEW result \in Results
    PROVE  LET r == [sub EXCEPT !.pc = "judged", !.result = result, !.local = "none", !.token = FALSE,
                                !.candidate = "none"]
           IN /\ r \in SubStates
              /\ r.pc = "judged" /\ r.result = result /\ r.local = "none" /\ ~r.token
              /\ r.conn = sub.conn /\ r.job = sub.job /\ r.lease = sub.lease
              /\ r.nonce = sub.nonce /\ r.claimed = sub.claimed /\ r.task = sub.task
BY DEF SubStates

LEMMA JudgeMoves ==
    ASSUME AdmissionInv, NEW s \in Submissions, subs[s].pc \in {"queued", "reserved", "verifying"},
           NEW sub \in SubStates, NEW result \in Results, Judge(s, result, sub),
           sub.conn = subs[s].conn, sub.job = subs[s].job, sub.lease = subs[s].lease,
           sub.nonce = subs[s].nonce, sub.claimed = subs[s].claimed, sub.task => subs[s].job # NoJob,
           result = "accepted" => subs[s].job # NoJob,
           UNCHANGED <<verified, jobs, live, connections, fatal>>
    PROVE  \E r : /\ WorkerMove(s, r) /\ subs'[s] = r
                  /\ r.pc = "judged" /\ r.result = result /\ r.task = sub.task /\ ~r.token
                  /\ r.nonce = subs[s].nonce /\ r.claimed = subs[s].claimed
                  /\ SubIsConsistent(s)'
<1> DEFINE r == [sub EXCEPT !.pc = "judged", !.result = result, !.local = "none", !.token = FALSE,
                            !.candidate = "none"]
<1>1. /\ r \in SubStates
      /\ r.pc = "judged" /\ r.result = result /\ r.local = "none" /\ ~r.token
      /\ r.conn = sub.conn /\ r.job = sub.job /\ r.lease = sub.lease
      /\ r.nonce = sub.nonce /\ r.claimed = sub.claimed /\ r.task = sub.task
    BY JudgedFields
<1>2. subs' = [subs EXCEPT ![s] = r]
    BY DEF Judge
<1> HIDE DEF r
<1>3. WorkerMove(s, r)
    BY <1>1, <1>2 DEF WorkerMove, InFlight
<1>4. subs'[s] = r
    BY <1>3, WorkerFrame
<1>5. SubIsConsistent(s)
    BY DEF AdmissionInv
<1>6. SubIsConsistent(s)'
    BY SMTT(30), <1>1, <1>4, <1>5 DEF SubIsConsistent, InFlight
<1> QED BY <1>1, <1>3, <1>4, <1>6

\* The connection of a submission in flight is still there.
LEMMA FlightFacts ==
    ASSUME AdmissionInv, NEW s \in Submissions, subs[s].pc \in InFlight
    PROVE  subs[s].conn \in Sources /\ connections[subs[s].conn].accepted_submits > 0 /\ RowIsOpen(s)
<1>1. PICK c \in Sources : c = subs[s].conn
    BY DEF AdmissionInv, TypeInv, SubStates
<1>2. IsFiniteSet(FlightOf(c)) /\ s \in FlightOf(c) /\ Cardinality(FlightOf(c)) \in Nat
    BY <1>1, SubmissionsFinite DEF FlightOf
<1>3. connections[c].accepted_submits = Cardinality(FlightOf(c)) /\ Cardinality(FlightOf(c)) # 0
    BY <1>2, CountZero DEF AdmissionInv, ConnIsConsistent
<1>4. connections[c].accepted_submits > 0
    BY SMTT(30), <1>2, <1>3
<1>5. connections[c].socket \in {"new", "open", "overflow", "closing"}
    BY DEF AdmissionInv, TypeInv, Connections
<1>6. connections[c].row = "open"
    BY SMTT(30), <1>4, <1>5 DEF AdmissionInv, ConnIsConsistent
<1> QED BY <1>1, <1>4, <1>6 DEF RowIsOpen

\* release_claimed_if_safe leaves s no key that it had before verification.
LEMMA ReleaseClaimedKeeps ==
    ASSUME AdmissionInv, NEW s \in Submissions, NEW reg, RegistryOK(reg), NEW J, NEW bk, NEW other,
           BucketsOK(reg, J, bk, other)
    PROVE  LET after == ReleaseClaimed(reg, s)
           IN /\ RegistryOK(after) /\ BucketsOK(after, J, bk, other)
              /\ after.entries \subseteq reg.entries
              /\ \A e \in reg.entries \ after.entries : e.owner = s
              /\ subs[s].token => \A e \in after.entries : ~(e.owner = s /\ e.key = Key(s, subs[s].claimed))
<1> DEFINE after == ReleaseToken(reg, Key(s, subs[s].claimed), s)
<1>1. CASE ~subs[s].token
    BY <1>1 DEF ReleaseClaimed
<1>2. CASE subs[s].token
    <2>1. ReleaseClaimed(reg, s) = after
        BY <1>2 DEF ReleaseClaimed
    <2>2. /\ RegistryOK(after)
          /\ after.entries = {e \in reg.entries : ~(e.key = Key(s, subs[s].claimed) /\ e.owner = s)}
          /\ \A a \in Buckets : /\ after.buckets[a].references = reg.buckets[a].references
                                /\ reg.buckets[a].references # 0 => after.buckets[a] = reg.buckets[a]
        BY SMTT(30), ReleaseTokenKeeps
    <2> HIDE DEF after
    <2>3. BucketsOK(after, J, bk, other)
        BY <2>2, SameReferences
    <2> QED BY <2>1, <2>2, <2>3
<1> QED BY <1>1, <1>2

\* A worker's step that ends process_share.
LEMMA JudgedInv ==
    ASSUME AdmissionInv, NEW s \in Submissions, subs[s].pc \in {"queued", "reserved", "verifying"},
           NEW sub \in SubStates, NEW result \in Results, Judge(s, result, sub),
           sub.conn = subs[s].conn, sub.job = subs[s].job, sub.lease = subs[s].lease,
           sub.nonce = subs[s].nonce, sub.claimed = subs[s].claimed,
           subs[s].task => sub.task, sub.task => subs[s].job # NoJob,
           UNCHANGED <<verified, jobs, live, connections, fatal>>,
           IF subs[s].pc = "verifying" THEN DecrementPending(s) ELSE pending' = pending,
           candidates' \subseteq Keys,
           RegistryOK(registry'),
           BucketsOK(registry', live, JobBuckets,
                     IF sub.task = subs[s].task THEN Holders ELSE [Holders EXCEPT ![Bucket(s)] = @ + 1]),
           \A e \in registry.entries \ registry'.entries : e.owner = s,
           \A e \in registry'.entries \ registry.entries :
               subs[s].job # NoJob /\ \E hash \in Nonces : e = Entry(s, hash),
           result \in {"server_busy", "verifier_failed"} /\ subs[s].claimed = subs[s].nonce =>
               \A e \in registry'.entries : e.owner # s,
           result = "accepted" => subs[s].job # NoJob /\ Entry(s, CreditedHash(s)) \in registry'.entries
    PROVE  AdmissionInv'
<1>1. PICK r : /\ WorkerMove(s, r) /\ subs'[s] = r
               /\ r.pc = "judged" /\ r.result = result /\ r.task = sub.task /\ ~r.token
               /\ r.nonce = subs[s].nonce /\ r.claimed = subs[s].claimed
               /\ SubIsConsistent(s)'
    BY JudgeMoves
<1>2. sub.task \in BOOLEAN /\ subs[s].task \in BOOLEAN /\ (sub.task => Bucket(s) \in Buckets)
    BY SubFacts DEF AdmissionInv, TypeInv, SubStates
<1>3. BucketsOK(registry', live, JobBuckets, Holders')
    <2>1. CASE sub.task = subs[s].task
        BY SMTT(30), <1>1, <2>1, WorkerHolders
    <2>2. CASE sub.task # subs[s].task
        BY <1>1, <1>2, <2>2, WorkerHolders
    <2> QED BY <2>1, <2>2
<1>4. PendingOK'
    BY <1>1, WaitStays, WaitEnds
<1>5. KeysAreOwned(s)'
    BY <1>1 DEF KeysAreOwned
<1>6. CreditIsKept(s)'
    <2>1. CreditedHash(s)' = CreditedHash(s) /\ \A hash : Entry(s, hash)' = Entry(s, hash)
        BY <1>1, WorkerFrame
    <2>2. Entry(s, CreditedHash(s))' = Entry(s, CreditedHash(s))
        BY <1>1, <2>1, WorkerFrame DEF Entry, Key
    <2> QED BY <1>1, <2>2 DEF CreditIsKept
<1> QED BY <1>1, <1>3, <1>4, <1>5, <1>6, WorkerStepInv

\* What a submission in the hands of a worker may do to the registry.
LEMMA WorkerFacts ==
    ASSUME AdmissionInv, NEW s \in Submissions, subs[s].pc \in {"queued", "reserved", "verifying"}
    PROVE  /\ subs[s] \in SubStates /\ SubIsConsistent(s) /\ KeysAreOwned(s) /\ RowIsOpen(s)
           /\ RegistryOK(registry) /\ BucketsOK(registry, live, JobBuckets, Holders)
           /\ candidates \subseteq Keys
           /\ subs[s].claimed \in Nonces /\ subs[s].nonce \in Nonces
           /\ subs[s].task => subs[s].job # NoJob
           /\ subs[s].pc # "queued" => subs[s].job # NoJob /\ subs[s].local # "none"
           /\ IsFiniteSet(live) /\ Holders \in [Buckets -> Nat]
<1>1. subs[s] \in SubStates /\ SubIsConsistent(s) /\ KeysAreOwned(s) /\ candidates \subseteq Keys
      /\ RegistryOK(registry) /\ BucketsOK(registry, live, JobBuckets, Holders)
    BY DEF AdmissionInv, TypeInv
<1>2. RowIsOpen(s)
    BY FlightFacts DEF InFlight
<1>3. subs[s].claimed \in Nonces /\ subs[s].nonce \in Nonces
    BY <1>1 DEF SubStates
<1>4. /\ subs[s].task => subs[s].job # NoJob
      /\ subs[s].pc # "queued" => subs[s].job # NoJob /\ subs[s].local # "none"
    BY <1>1 DEF SubIsConsistent
<1>5. IsFiniteSet(live) /\ Holders \in [Buckets -> Nat]
    BY HoldersType, JobFacts DEF AdmissionInv
<1> QED BY <1>1, <1>2, <1>3, <1>4, <1>5

\* process_share answers before it has reserved anything.
LEMMA StartRefusedInv ==
    ASSUME AdmissionInv, NEW s \in Submissions, StartRefused(s), verified' = verified PROVE AdmissionInv'
<1>1. subs[s].pc = "queued" /\ UNCHANGED <<registry, jobs, live, connections, pending, candidates>>
    BY DEF StartRefused
<1>2. /\ RowIsOpen(s) /\ subs[s] \in SubStates /\ RegistryOK(registry) /\ KeysAreOwned(s)
      /\ BucketsOK(registry, live, JobBuckets, Holders)
      /\ candidates \subseteq Keys /\ (subs[s].task => subs[s].job # NoJob)
    BY <1>1, WorkerFacts
<1>3. PICK result \in {"stale", "unknown_job", "invalid_result"} : Judge(s, result, subs[s]) /\ fatal' = fatal
    BY <1>2 DEF StartRefused
<1>4. result \in Results /\ result # "accepted"
    BY DEF Results
<1>5. \A e \in registry.entries : e.owner # s
    BY <1>1, <1>2 DEF KeysAreOwned
<1> QED BY <1>1, <1>2, <1>3, <1>4, <1>5, JudgedInv

LEMMA StartReserveInv ==
    ASSUME AdmissionInv, NEW s \in Submissions, StartReserve(s), verified' = verified PROVE AdmissionInv'
<1> DEFINE key == Key(s, subs[s].claimed)
           local == ReserveResult(registry, key, Bucket(s))
           token == local = "reserved"
           r == [subs[s] EXCEPT !.pc = "reserved", !.local = local, !.token = token]
<1>1. subs[s].pc = "queued" /\ subs[s].job # NoJob /\ subs[s] \in SubStates /\ SubIsConsistent(s) /\ KeysAreOwned(s)
    BY DEF StartReserve, AdmissionInv, TypeInv
<1>2. subs' = [subs EXCEPT ![s] = r] /\ registry' = Reserve(registry, key, Bucket(s), s)
    BY DEF StartReserve
<1>3. UNCHANGED <<verified, jobs, live, connections, pending, candidates, fatal>>
    BY DEF StartReserve
<1>4. subs[s].claimed \in Nonces /\ key \in Keys /\ Bucket(s) \in Buckets /\ RegistryOK(registry)
    BY <1>1, SubFacts DEF SubStates, AdmissionInv, TypeInv
<1>5. /\ RegistryOK(registry') /\ registry'.buckets = registry.buckets
      /\ local \in {"reserved", "duplicate", "capacity"}
      /\ local = "reserved" =>
             registry'.entries = registry.entries \cup {[key |-> key, bucket |-> Bucket(s), owner |-> s]}
      /\ local # "reserved" => registry' = registry
    BY SMTT(30), <1>2, <1>4, ReserveKeeps
<1>6. token \in BOOLEAN /\ (token <=> local = "reserved")
    OBVIOUS
<1>7. [key |-> key, bucket |-> Bucket(s), owner |-> s] = Entry(s, subs[s].claimed)
    BY DEF Entry
<1> HIDE DEF token, local, key
<1>8. /\ r \in SubStates /\ r.pc = "reserved" /\ r.local = local /\ r.token = token
      /\ r.conn = subs[s].conn /\ r.job = subs[s].job /\ r.lease = subs[s].lease /\ r.task = subs[s].task
      /\ r.nonce = subs[s].nonce /\ r.claimed = subs[s].claimed /\ r.result = subs[s].result
      /\ r.candidate = subs[s].candidate
    BY <1>1, <1>5, <1>6 DEF SubStates
<1> HIDE DEF r
<1>9. WorkerMove(s, r)
    BY <1>1, <1>2, <1>3, <1>8 DEF WorkerMove, InFlight
<1>10. subs'[s] = r /\ Holders' = Holders /\ \A hash : Key(s, hash)' = Key(s, hash) /\ Entry(s, hash)' = Entry(s, hash)
    BY <1>8, <1>9, WorkerFrame, WorkerHolders
<1>11. SubIsConsistent(s)'
    BY <1>1, <1>3, <1>5, <1>6, <1>8, <1>10 DEF SubIsConsistent, InFlight
<1>12. subs[s].lease
    BY <1>1 DEF SubIsConsistent, InFlight
<1>13. BucketsOK(registry', live, JobBuckets, Holders')
    <2>1. registry.buckets[Bucket(s)].references # 0 /\ BucketsOK(registry, live, JobBuckets, Holders)
        BY SMTT(30), <1>4, <1>12, HeldBuckets DEF AdmissionInv
    <2>2. \A e \in registry'.entries : e \in registry.entries \/ registry.buckets[e.bucket].references # 0
        BY SMTT(30), <1>5, <2>1
    <2> QED BY <1>5, <1>10, <2>1, <2>2, SameReferences
<1>14. Entry(s, subs[s].claimed).key = key /\ Entry(s, subs[s].claimed).owner = s
    BY SMTT(30), <1>7
<1>15. KeysAreOwned(s)'
    <2>1. \A e \in registry'.entries : e.owner = s => local = "reserved" /\ e.key = key
        BY SMTT(30), <1>1, <1>5 DEF KeysAreOwned
    <2>2. local = "reserved" => Entry(s, subs[s].claimed) \in registry'.entries
        BY <1>5, <1>7
    <2>3. <<subs'[s].job, subs'[s].claimed>> = key /\ Entry(s, subs[s].claimed)' = Entry(s, subs[s].claimed)
        BY <1>3, <1>8, <1>10 DEF key, Key, Entry, Bucket, BucketOf
    <2>4. r.result = "none"
        BY <1>1, <1>8 DEF SubIsConsistent
    <2> QED BY <1>6, <1>8, <1>10, <2>1, <2>2, <2>3, <2>4 DEF KeysAreOwned, Key
<1>16. CreditIsKept(s)'
    BY <1>1, <1>8, <1>10 DEF CreditIsKept, SubIsConsistent
<1>17. PendingOK' /\ candidates' \subseteq Keys
    BY <1>1, <1>3, <1>8, <1>9, WaitStays DEF AdmissionInv, TypeInv
<1>18. /\ \A e \in registry.entries \ registry'.entries : e.owner = s
       /\ \A e \in registry'.entries \ registry.entries : subs[s].job # NoJob /\ \E hash \in Nonces : e = Entry(s, hash)
    BY <1>1, <1>4, <1>5, <1>7
<1> QED BY <1>5, <1>9, <1>11, <1>13, <1>15, <1>16, <1>17, <1>18, WorkerStepInv

\* A worker's step between the reservation and the answer.
LEMMA CarriesOnInv ==
    ASSUME AdmissionInv, NEW s \in Submissions, subs[s].pc = "reserved",
           NEW r \in SubStates, subs' = [subs EXCEPT ![s] = r], r.pc \in {"reserved", "verifying"},
           r.conn = subs[s].conn, r.job = subs[s].job, r.lease = subs[s].lease, r.nonce = subs[s].nonce,
           r.claimed = subs[s].claimed, r.local = subs[s].local, r.token = subs[s].token,
           r.result = subs[s].result, subs[s].task => r.task, r.task => r.candidate = "inserted",
           UNCHANGED <<verified, jobs, live, connections, fatal>>,
           IF r.pc = "verifying"
           THEN /\ verified /\ pending[subs[s].conn] < MaxVerifications
                /\ pending' = [pending EXCEPT ![subs[s].conn] = @ + 1]
           ELSE pending' = pending,
           candidates' \subseteq Keys, RegistryOK(registry'), registry'.entries = registry.entries,
           BucketsOK(registry', live, JobBuckets,
                     IF r.task = subs[s].task THEN Holders ELSE [Holders EXCEPT ![Bucket(s)] = @ + 1])
    PROVE  AdmissionInv'
<1>1. SubIsConsistent(s) /\ KeysAreOwned(s) /\ subs[s].job # NoJob /\ subs[s].task \in BOOLEAN /\ r.task \in BOOLEAN
    BY WorkerFacts DEF SubStates
<1>2. WorkerMove(s, r)
    BY <1>1 DEF WorkerMove, InFlight
<1>3. subs'[s] = r /\ \A hash : Key(s, hash)' = Key(s, hash) /\ Entry(s, hash)' = Entry(s, hash)
    BY <1>2, WorkerFrame
<1>4. BucketsOK(registry', live, JobBuckets, Holders')
    <2>1. CASE r.task = subs[s].task
        BY SMTT(30), <1>2, <2>1, WorkerHolders
    <2>2. CASE r.task # subs[s].task
        BY <1>1, <1>2, <2>2, WorkerHolders, SubFacts
    <2> QED BY <2>1, <2>2
<1>5. PendingOK'
    BY <1>2, WaitStays, WaitBegins
<1>6. SubIsConsistent(s)'
    <2>1. /\ subs[s].result = "none" /\ subs[s].lease /\ subs[s].local # "none"
          /\ subs[s].token <=> subs[s].local = "reserved"
          /\ subs[s].job \in 0..Len(jobs) /\ jobs[subs[s].job].conn = subs[s].conn
        BY <1>1 DEF SubIsConsistent, InFlight
    <2>2. r.pc = "verifying" => verified
        OBVIOUS
    <2>3. /\ subs'[s] = r /\ r.pc \in {"reserved", "verifying"}
          /\ r.job \in 0..Len(jobs') /\ r.job # NoJob /\ jobs'[r.job].conn = r.conn /\ r.lease
          /\ r.local # "none" /\ (r.token <=> r.local = "reserved") /\ r.result = "none"
          /\ r.pc = "verifying" => verified'
          /\ r.task => r.candidate = "inserted"
        BY <1>1, <1>3, <2>1, <2>2
    <2> QED BY <2>3 DEF SubIsConsistent, InFlight
<1>7. r.result = "none"
    BY <1>1 DEF SubIsConsistent
<1>8. /\ <<subs'[s].job, subs'[s].claimed>> = Key(s, subs[s].claimed)
      /\ Entry(s, subs[s].claimed)' = Entry(s, subs[s].claimed)
    BY <1>3 DEF Key, Entry, Bucket, BucketOf
<1>9. KeysAreOwned(s)'
    BY <1>1, <1>3, <1>7, <1>8 DEF KeysAreOwned, Key
<1>10. CreditIsKept(s)'
    BY <1>3, <1>7 DEF CreditIsKept
<1> QED BY <1>2, <1>4, <1>5, <1>6, <1>9, <1>10, WorkerStepInv

LEMMA JournalClaimedInv ==
    ASSUME AdmissionInv, NEW s \in Submissions, JournalClaimed(s), verified' = verified PROVE AdmissionInv'
<1>1. subs[s].pc = "reserved" /\ subs[s].candidate = "none" /\ UNCHANGED <<verified, jobs, live, connections, pending, fatal>>
    BY DEF JournalClaimed, ClaimOpen
<1>2. /\ subs[s] \in SubStates /\ SubIsConsistent(s) /\ RegistryOK(registry) /\ IsFiniteSet(live)
      /\ BucketsOK(registry, live, JobBuckets, Holders) /\ Holders \in [Buckets -> Nat]
      /\ candidates \subseteq Keys /\ subs[s].job # NoJob /\ subs[s].nonce \in Nonces
    BY <1>1, WorkerFacts
<1>3. candidates' \subseteq Keys /\ ~subs[s].task /\ subs[s].lease
    BY SMTT(30), <1>1, <1>2, SubFacts DEF JournalClaimed, SubIsConsistent, InFlight
<1>4. Bucket(s) \in Buckets /\ registry.buckets[Bucket(s)].references > 0
    BY <1>3, HeldBuckets
<1>5. CASE Key(s, subs[s].nonce) \in candidates
    <2> DEFINE r == [subs[s] EXCEPT !.candidate = "existing"]
    <2>1. subs' = [subs EXCEPT ![s] = r] /\ registry' = registry
        BY <1>5 DEF JournalClaimed, Journaled
    <2>2. /\ r \in SubStates /\ r.pc = "reserved" /\ r.conn = subs[s].conn /\ r.job = subs[s].job
          /\ r.lease = subs[s].lease /\ r.nonce = subs[s].nonce /\ r.claimed = subs[s].claimed
          /\ r.local = subs[s].local /\ r.token = subs[s].token /\ r.result = subs[s].result
          /\ r.task = subs[s].task
        BY <1>1, <1>2 DEF SubStates
    <2> HIDE DEF r
    <2> QED BY <1>1, <1>2, <1>3, <2>1, <2>2, CarriesOnInv
<1>6. CASE Key(s, subs[s].nonce) \notin candidates
    <2> DEFINE r == [subs[s] EXCEPT !.candidate = "inserted", !.task = TRUE]
    <2>1. subs' = [subs EXCEPT ![s] = r] /\ registry' = RetainHeight(registry, Bucket(s))
        BY <1>6 DEF JournalClaimed, Journaled
    <2>2. /\ r \in SubStates /\ r.pc = "reserved" /\ r.conn = subs[s].conn /\ r.job = subs[s].job
          /\ r.lease = subs[s].lease /\ r.nonce = subs[s].nonce /\ r.claimed = subs[s].claimed
          /\ r.local = subs[s].local /\ r.token = subs[s].token /\ r.result = subs[s].result
          /\ r.task = TRUE /\ r.candidate = "inserted"
        BY <1>1, <1>2 DEF SubStates
    <2> HIDE DEF r
    <2>3. RegistryOK(registry') /\ registry'.entries = registry.entries
        BY <1>2, <1>4, <2>1, RetainKeeps
    <2>4. BucketsOK(registry', live, JobBuckets, [Holders EXCEPT ![Bucket(s)] = @ + 1])
        BY <1>2, <1>4, <2>1, RetainForHolder
    <2>5. r.task # subs[s].task
        BY <1>3, <2>2
    <2> QED BY <1>1, <1>3, <2>1, <2>2, <2>3, <2>4, <2>5, CarriesOnInv
<1> QED BY <1>5, <1>6

LEMMA StartVerifyInv ==
    ASSUME AdmissionInv, NEW s \in Submissions, StartVerify(s), verified' = verified PROVE AdmissionInv'
<1> DEFINE r == [subs[s] EXCEPT !.pc = "verifying"]
<1>1. /\ subs[s].pc = "reserved" /\ verified /\ UNCHANGED <<verified, registry, jobs, live, connections, candidates, fatal>>
      /\ pending[subs[s].conn] < MaxVerifications /\ pending' = [pending EXCEPT ![subs[s].conn] = @ + 1]
    BY DEF StartVerify, ClaimSettled
<1>2. /\ subs[s] \in SubStates /\ SubIsConsistent(s) /\ RegistryOK(registry)
      /\ BucketsOK(registry, live, JobBuckets, Holders) /\ candidates \subseteq Keys
    BY <1>1, WorkerFacts
<1>3. subs' = [subs EXCEPT ![s] = r]
    BY DEF StartVerify
<1>4. /\ r \in SubStates /\ r.pc = "verifying" /\ r.conn = subs[s].conn /\ r.job = subs[s].job
      /\ r.lease = subs[s].lease /\ r.nonce = subs[s].nonce /\ r.claimed = subs[s].claimed
      /\ r.local = subs[s].local /\ r.token = subs[s].token /\ r.result = subs[s].result
      /\ r.task = subs[s].task /\ r.candidate = subs[s].candidate
    BY <1>2 DEF SubStates
<1> HIDE DEF r
<1>5. r.task => r.candidate = "inserted"
    BY <1>1, <1>2, <1>4 DEF SubIsConsistent
<1> QED BY <1>1, <1>2, <1>3, <1>4, <1>5, CarriesOnInv

\* A refused share gives its reservation back.
LEMMA ReleasedInv ==
    ASSUME AdmissionInv, NEW s \in Submissions, subs[s].pc \in {"reserved", "verifying"},
           NEW result \in Results, result # "accepted", Judge(s, result, subs[s]),
           registry' = ReleaseClaimed(registry, s), candidates' = candidates,
           UNCHANGED <<verified, jobs, live, connections, fatal>>,
           IF subs[s].pc = "verifying" THEN DecrementPending(s) ELSE pending' = pending
    PROVE  AdmissionInv'
<1>1. /\ subs[s] \in SubStates /\ KeysAreOwned(s) /\ RegistryOK(registry)
      /\ BucketsOK(registry, live, JobBuckets, Holders)
      /\ candidates \subseteq Keys /\ (subs[s].task => subs[s].job # NoJob)
    BY WorkerFacts
<1>2. /\ RegistryOK(registry') /\ BucketsOK(registry', live, JobBuckets, Holders)
      /\ registry'.entries \subseteq registry.entries
      /\ \A e \in registry.entries \ registry'.entries : e.owner = s
      /\ subs[s].token => \A e \in registry'.entries : ~(e.owner = s /\ e.key = Key(s, subs[s].claimed))
    BY <1>1, ReleaseClaimedKeeps
<1>3. \A e \in registry'.entries : e.owner # s
    BY <1>1, <1>2 DEF KeysAreOwned
<1> QED BY <1>1, <1>2, <1>3, JudgedInv

LEMMA JournalRefusedInv ==
    ASSUME AdmissionInv, NEW s \in Submissions, JournalRefused(s), verified' = verified PROVE AdmissionInv'
<1>1. /\ subs[s].pc = "reserved" /\ subs[s].candidate = "none"
      /\ UNCHANGED <<verified, jobs, live, connections, pending, candidates, fatal>>
    BY DEF JournalRefused, ClaimOpen
<1>2. /\ subs[s] \in SubStates /\ SubIsConsistent(s) /\ RegistryOK(registry)
      /\ BucketsOK(registry, live, JobBuckets, Holders) /\ candidates \subseteq Keys
    BY <1>1, WorkerFacts
<1>3. CASE subs' = [subs EXCEPT ![s].candidate = "deferred"] /\ registry' = registry
    <2> DEFINE r == [subs[s] EXCEPT !.candidate = "deferred"]
    <2>1. subs' = [subs EXCEPT ![s] = r]
        BY <1>3
    <2>2. /\ r \in SubStates /\ r.pc = "reserved" /\ r.conn = subs[s].conn /\ r.job = subs[s].job
          /\ r.lease = subs[s].lease /\ r.nonce = subs[s].nonce /\ r.claimed = subs[s].claimed
          /\ r.local = subs[s].local /\ r.token = subs[s].token /\ r.result = subs[s].result
          /\ r.task = subs[s].task
        BY <1>1, <1>2 DEF SubStates
    <2> HIDE DEF r
    <2>3. ~r.task
        BY <1>1, <1>2, <2>2 DEF SubIsConsistent
    <2> QED BY <1>1, <1>2, <1>3, <2>1, <2>2, <2>3, CarriesOnInv
<1>4. ASSUME NEW result \in {"stale", "server_busy"}, Judge(s, result, subs[s]),
             registry' = ReleaseClaimed(registry, s)
      PROVE  AdmissionInv'
    <2>1. result \in Results /\ result # "accepted"
        BY <1>4 DEF Results
    <2> QED BY <1>1, <1>4, <2>1, ReleasedInv
<1> QED BY <1>3, <1>4 DEF JournalRefused

LEMMA VerifyRefusedInv ==
    ASSUME AdmissionInv, NEW s \in Submissions, VerifyRefused(s), verified' = verified PROVE AdmissionInv'
<1>1. /\ subs[s].pc = "reserved" /\ registry' = ReleaseClaimed(registry, s)
      /\ UNCHANGED <<verified, jobs, live, connections, pending, candidates, fatal>>
    BY DEF VerifyRefused, ClaimSettled
<1>2. PICK result \in {"server_busy", "verifier_failed"} : Judge(s, result, subs[s])
    BY DEF VerifyRefused
<1>3. result \in Results /\ result # "accepted"
    BY DEF Results
<1> QED BY <1>1, <1>2, <1>3, ReleasedInv

LEMMA VerifyFailsInv ==
    ASSUME AdmissionInv, NEW s \in Submissions, VerifyFails(s), verified' = verified PROVE AdmissionInv'
<1>1. /\ subs[s].pc = "verifying" /\ registry' = ReleaseClaimed(registry, s) /\ DecrementPending(s)
      /\ UNCHANGED <<verified, jobs, live, connections, candidates, fatal>> /\ Judge(s, "verifier_failed", subs[s])
    BY DEF VerifyFails
<1>2. "verifier_failed" \in Results
    BY DEF Results
<1> QED BY <1>1, <1>2, ReleasedInv

\* Trusted mode: the claimed hash is the credited one.
LEMMA JudgeTrustedInv ==
    ASSUME AdmissionInv, NEW s \in Submissions, JudgeTrusted(s), verified' = verified PROVE AdmissionInv'
<1> DEFINE result == TrustedResult(s)
<1>1. /\ subs[s].pc = "reserved" /\ ~verified /\ Judge(s, result, subs[s])
      /\ UNCHANGED <<verified, registry, jobs, live, connections, pending, candidates, fatal>>
    BY DEF JudgeTrusted, ClaimSettled
<1>2. /\ subs[s] \in SubStates /\ SubIsConsistent(s) /\ KeysAreOwned(s) /\ RegistryOK(registry)
      /\ BucketsOK(registry, live, JobBuckets, Holders) /\ candidates \subseteq Keys
      /\ (subs[s].task => subs[s].job # NoJob) /\ subs[s].job # NoJob
    BY <1>1, WorkerFacts
<1>3. CreditOrRefuse(s, subs[s].claimed) \in {"low_difficulty", "stale", "accepted"}
    BY DEF CreditOrRefuse
<1>4. subs[s].local \in {"reserved", "duplicate", "capacity"}
    BY <1>1, <1>2 DEF SubIsConsistent, SubStates
<1>5. /\ result \in {"duplicate", "server_busy", "low_difficulty", "stale", "accepted"}
      /\ result = "accepted" => subs[s].local = "reserved"
      /\ result = "server_busy" => subs[s].local = "capacity"
    BY <1>3, <1>4 DEF TrustedResult
<1> HIDE DEF result
<1>6. result \in Results
    BY <1>5 DEF Results
<1>7. result = "accepted" => Entry(s, CreditedHash(s)) \in registry.entries
    BY <1>1, <1>2, <1>5 DEF SubIsConsistent, KeysAreOwned, CreditedHash
<1>8. result \in {"server_busy", "verifier_failed"} => \A e \in registry.entries : e.owner # s
    BY <1>1, <1>2, <1>5 DEF SubIsConsistent, KeysAreOwned
<1> QED BY <1>1, <1>2, <1>6, <1>7, <1>8, JudgedInv

\* On a mismatch the computed key is reserved as well.
LEMMA ComputedReserve ==
    ASSUME AdmissionInv, NEW s \in Submissions, subs[s].pc = "verifying"
    PROVE  LET reserved == IF subs[s].claimed = subs[s].nonce THEN registry
                           ELSE Reserve(registry, Key(s, subs[s].nonce), Bucket(s), s)
           IN /\ RegistryOK(reserved) /\ BucketsOK(reserved, live, JobBuckets, Holders)
              /\ reserved.buckets = registry.buckets /\ registry.entries \subseteq reserved.entries
              /\ \A e \in reserved.entries \ registry.entries : e = Entry(s, subs[s].nonce)
              /\ subs[s].claimed = subs[s].nonce => reserved = registry
<1> DEFINE after == Reserve(registry, Key(s, subs[s].nonce), Bucket(s), s)
<1>1. /\ SubIsConsistent(s) /\ RegistryOK(registry) /\ BucketsOK(registry, live, JobBuckets, Holders)
      /\ subs[s].job # NoJob /\ subs[s].nonce \in Nonces
    BY WorkerFacts
<1>2. subs[s].lease /\ Key(s, subs[s].nonce) \in Keys
    BY <1>1, SubFacts DEF SubIsConsistent, InFlight
<1>3. Bucket(s) \in Buckets /\ registry.buckets[Bucket(s)].references > 0
    BY <1>2, HeldBuckets
<1>4. /\ RegistryOK(after) /\ after.buckets = registry.buckets /\ registry.entries \subseteq after.entries
      /\ \A e \in after.entries \ registry.entries : e = Entry(s, subs[s].nonce)
    BY SMTT(30), <1>1, <1>2, <1>3, ReserveKeeps DEF Entry
<1> HIDE DEF after
<1>5. Entry(s, subs[s].nonce).bucket = Bucket(s)
    BY DEF Entry
<1>6. registry.buckets[Bucket(s)].references # 0
    BY SMTT(30), <1>3
<1>7. \A e \in after.entries : e \in registry.entries \/ registry.buckets[e.bucket].references # 0
    BY <1>4, <1>5, <1>6
<1>8. BucketsOK(after, live, JobBuckets, Holders)
    BY <1>1, <1>4, <1>7, SameReferences
<1> QED BY <1>1, <1>4, <1>8 DEF after

LEMMA VerifyContaminatedInv ==
    ASSUME AdmissionInv, NEW s \in Submissions, VerifyContaminated(s), verified' = verified PROVE AdmissionInv'
<1> DEFINE reserved == IF subs[s].claimed = subs[s].nonce THEN registry
                       ELSE Reserve(registry, Key(s, subs[s].nonce), Bucket(s), s)
<1>1. /\ subs[s].pc = "verifying" /\ registry' = ReleaseClaimed(reserved, s) /\ DecrementPending(s)
      /\ UNCHANGED <<verified, jobs, live, connections, candidates, fatal>> /\ Judge(s, "stale", subs[s])
    BY DEF VerifyContaminated
<1>2. /\ RegistryOK(reserved) /\ BucketsOK(reserved, live, JobBuckets, Holders)
      /\ registry.entries \subseteq reserved.entries
      /\ \A e \in reserved.entries \ registry.entries : e = Entry(s, subs[s].nonce)
    BY <1>1, ComputedReserve
<1> HIDE DEF reserved
<1>3. /\ subs[s] \in SubStates /\ candidates \subseteq Keys /\ subs[s].job # NoJob /\ subs[s].nonce \in Nonces
    BY <1>1, WorkerFacts
<1>4. /\ RegistryOK(registry') /\ BucketsOK(registry', live, JobBuckets, Holders)
      /\ registry'.entries \subseteq reserved.entries
      /\ \A e \in reserved.entries \ registry'.entries : e.owner = s
    BY <1>1, <1>2, ReleaseClaimedKeeps
<1>5. /\ \A e \in registry.entries \ registry'.entries : e.owner = s
      /\ \A e \in registry'.entries \ registry.entries : \E hash \in Nonces : e = Entry(s, hash)
    BY <1>2, <1>3, <1>4
<1>6. "stale" \in Results
    BY DEF Results
<1> QED BY <1>1, <1>3, <1>4, <1>5, <1>6, JudgedInv

\* The verdict on a completed verification.
LEMMA VerifiedVerdict ==
    ASSUME AdmissionInv, NEW s \in Submissions, subs[s].pc = "verifying",
           NEW computed, subs[s].claimed = subs[s].nonce => computed = "none"
    PROVE  LET result == VerifiedResult(s, computed)
           IN /\ result \in Results
              /\ result = "accepted" => Entry(s, CreditedHash(s)) \in registry.entries
              /\ result \in {"server_busy", "verifier_failed"} /\ subs[s].claimed = subs[s].nonce =>
                     \A e \in registry.entries : e.owner # s
<1> DEFINE result == VerifiedResult(s, computed)
<1>1. subs[s] \in SubStates /\ SubIsConsistent(s) /\ KeysAreOwned(s) /\ verified
    BY WorkerFacts DEF SubIsConsistent
<1>2. CreditOrRefuse(s, subs[s].nonce) \in {"low_difficulty", "stale", "accepted"}
    BY DEF CreditOrRefuse
<1>3. subs[s].local \in {"reserved", "duplicate", "capacity"}
    BY <1>1 DEF SubIsConsistent, SubStates
<1>4. /\ result \in {"duplicate", "server_busy", "invalid_result", "low_difficulty", "stale", "accepted"}
      /\ result = "accepted" => subs[s].local = "reserved" /\ subs[s].claimed = subs[s].nonce
      /\ result = "server_busy" /\ subs[s].claimed = subs[s].nonce => subs[s].local = "capacity"
    BY <1>2, <1>3 DEF VerifiedResult
<1> HIDE DEF result
<1>5. result \in Results
    BY <1>4 DEF Results
<1>6. result = "accepted" => Entry(s, CreditedHash(s)) \in registry.entries
    BY <1>1, <1>4 DEF SubIsConsistent, KeysAreOwned, CreditedHash
<1>7. result \in {"server_busy", "verifier_failed"} /\ subs[s].claimed = subs[s].nonce =>
          \A e \in registry.entries : e.owner # s
    BY <1>1, <1>4 DEF SubIsConsistent, KeysAreOwned
<1> QED BY <1>5, <1>6, <1>7 DEF result

LEMMA VerifyCompletesInv ==
    ASSUME AdmissionInv, NEW s \in Submissions, VerifyCompletes(s), verified' = verified PROVE AdmissionInv'
<1> DEFINE key == Key(s, subs[s].nonce)
           computed == IF subs[s].claimed = subs[s].nonce THEN "none" ELSE ReserveResult(registry, key, Bucket(s))
           new == Rescued(s) /\ key \notin candidates
           reserved == IF subs[s].claimed = subs[s].nonce THEN registry
                       ELSE Reserve(registry, Key(s, subs[s].nonce), Bucket(s), s)
           sub == [subs[s] EXCEPT !.task = (@ \/ new)]
           result == VerifiedResult(s, computed)
<1>1. /\ subs[s].pc = "verifying" /\ DecrementPending(s)
      /\ registry' = IF new THEN RetainHeight(reserved, Bucket(s)) ELSE reserved
      /\ candidates' = IF Rescued(s) THEN candidates \cup {key} ELSE candidates
      /\ Judge(s, result, sub)
      /\ UNCHANGED <<verified, jobs, live, connections, fatal>>
    BY DEF VerifyCompletes
<1>2. /\ subs[s] \in SubStates /\ SubIsConsistent(s) /\ candidates \subseteq Keys /\ subs[s].job # NoJob
      /\ subs[s].nonce \in Nonces /\ IsFiniteSet(live) /\ Holders \in [Buckets -> Nat]
    BY <1>1, WorkerFacts
<1>3. candidates' \subseteq Keys
    BY SMTT(30), <1>1, <1>2, SubFacts
<1>4. /\ RegistryOK(reserved) /\ BucketsOK(reserved, live, JobBuckets, Holders)
      /\ reserved.buckets = registry.buckets /\ registry.entries \subseteq reserved.entries
      /\ \A e \in reserved.entries \ registry.entries : e = Entry(s, subs[s].nonce)
      /\ subs[s].claimed = subs[s].nonce => reserved = registry
    BY <1>1, ComputedReserve
<1>5. /\ result \in Results
      /\ result = "accepted" => Entry(s, CreditedHash(s)) \in registry.entries
      /\ result \in {"server_busy", "verifier_failed"} /\ subs[s].claimed = subs[s].nonce =>
             \A e \in registry.entries : e.owner # s
    BY <1>1, VerifiedVerdict
<1>6. new => ~subs[s].task
    BY <1>1, <1>2 DEF Rescued, SubIsConsistent
<1>7. new \in BOOLEAN /\ subs[s].task \in BOOLEAN
    BY <1>2 DEF SubStates
<1> HIDE DEF result, reserved, new
<1>8. /\ sub \in SubStates /\ sub.conn = subs[s].conn /\ sub.job = subs[s].job /\ sub.lease = subs[s].lease
      /\ sub.nonce = subs[s].nonce /\ sub.claimed = subs[s].claimed
      /\ sub.task = (subs[s].task \/ new)
    BY <1>2, <1>7 DEF SubStates
<1> HIDE DEF sub
<1>9. subs[s].lease
    BY <1>1, <1>2 DEF SubIsConsistent, InFlight
<1>10. Bucket(s) \in Buckets /\ reserved.buckets[Bucket(s)].references > 0
    BY <1>4, <1>9, HeldBuckets
<1>11. /\ RegistryOK(registry') /\ registry'.entries = reserved.entries
       /\ BucketsOK(registry', live, JobBuckets,
                    IF sub.task = subs[s].task THEN Holders ELSE [Holders EXCEPT ![Bucket(s)] = @ + 1])
    <2>1. CASE ~new
        <3>1. registry' = reserved /\ sub.task = subs[s].task
            BY <1>1, <1>7, <1>8, <2>1
        <3> QED BY <1>4, <3>1
    <2>2. CASE new
        <3>1. registry' = RetainHeight(reserved, Bucket(s)) /\ sub.task # subs[s].task
            BY <1>1, <1>6, <1>8, <2>2
        <3>2. RegistryOK(registry') /\ registry'.entries = reserved.entries
            BY <1>4, <1>10, <3>1, RetainKeeps
        <3>3. BucketsOK(registry', live, JobBuckets, [Holders EXCEPT ![Bucket(s)] = @ + 1])
            BY <1>2, <1>4, <1>10, <3>1, RetainForHolder
        <3> QED BY <3>1, <3>2, <3>3
    <2> QED BY <2>1, <2>2
<1>12. /\ \A e \in registry.entries \ registry'.entries : e.owner = s
       /\ \A e \in registry'.entries \ registry.entries : subs[s].job # NoJob /\ \E hash \in Nonces : e = Entry(s, hash)
    BY <1>2, <1>4, <1>11
<1>13. result = "accepted" => subs[s].job # NoJob /\ Entry(s, CreditedHash(s)) \in registry'.entries
    BY <1>2, <1>4, <1>5, <1>11
<1>14. result \in {"server_busy", "verifier_failed"} /\ subs[s].claimed = subs[s].nonce =>
           \A e \in registry'.entries : e.owner # s
    BY <1>4, <1>5, <1>11
<1>15. (subs[s].task => sub.task) /\ (sub.task => subs[s].job # NoJob)
    BY <1>2, <1>8
<1> QED BY <1>1, <1>2, <1>3, <1>5, <1>8, <1>11, <1>12, <1>13, <1>14, <1>15, JudgedInv

-----------------------------------------------------------------------------
(* The steps that collect keys, or that leave the registry alone. *)

===============================================================================
