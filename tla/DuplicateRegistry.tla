-------------------------- MODULE DuplicateRegistry --------------------------
(***************************************************************************)
(* The replay registry of src/src/stratum/duplicate_registry.cpp.  A key   *)
(* (job entropy, hash) is reserved once; keys are grouped in buckets, one  *)
(* per source and height, and a bucket is collected when it is retired and *)
(* nothing refers to it.  Every operator is one method: it maps the value  *)
(* of the registry before the call to the value after it.                  *)
(***************************************************************************)
EXTENDS Integers, FiniteSets, FiniteSetsExt

CONSTANTS
    Keys,            \* duplicate keys
    Sources,         \* connections that own keys
    Heights,         \* job heights
    GlobalCapacity,  \* keys in all
    SourceCapacity   \* keys of one source

ASSUME CapacityAssumption ==
    SourceCapacity \in Nat \ {0} /\ GlobalCapacity \in Nat /\ SourceCapacity <= GlobalCapacity

VARIABLE registry

Buckets == Sources \X Heights
NoBucket == [references |-> 0, retired |-> FALSE]

\* Generations are unique per reservation; the owner of a token stands for it.
RegistryTypeOK(Owners, MaxReferences) ==
    /\ registry.entries \subseteq [key : Keys, bucket : Buckets, owner : Owners]
    /\ registry.buckets \in [Buckets -> [references : 0..MaxReferences, retired : BOOLEAN]]
    /\ \A e, f \in registry.entries : e.key = f.key => e = f
    /\ Cardinality(registry.entries) <= GlobalCapacity

RegistryInit == registry = [entries |-> {}, buckets |-> [b \in Buckets |-> NoBucket]]

SourceSize(reg, source) == Cardinality({e \in reg.entries : e.bucket[1] = source})

\* Mutant: no capacity is respected.
ReserveResultUnbounded(reg, key, b) ==
    IF \E e \in reg.entries : e.key = key THEN "duplicate" ELSE "reserved"

\* reserve: duplicate before capacity.
ReserveResult(reg, key, b) ==
    IF \E e \in reg.entries : e.key = key THEN "duplicate"
    ELSE IF \/ Cardinality(reg.entries) >= GlobalCapacity
            \/ SourceSize(reg, b[1]) >= SourceCapacity
    THEN "capacity"
    ELSE "reserved"

Reserve(reg, key, b, owner) ==
    IF ReserveResult(reg, key, b) = "reserved"
    THEN [reg EXCEPT !.entries = @ \cup {[key |-> key, bucket |-> b, owner |-> owner]}]
    ELSE reg

TokenEntries(reg, key, owner) == {e \in reg.entries : e.key = key /\ e.owner = owner}

KeysOf(reg, b) == {e \in reg.entries : e.bucket = b}

\* release: the entry of a token goes, and with it an empty bucket that nobody
\* refers to.
ReleaseToken(reg, key, owner) ==
    LET left == reg.entries \ TokenEntries(reg, key, owner)
    IN [entries |-> left,
        buckets |-> [b \in Buckets |->
            IF /\ \E e \in TokenEntries(reg, key, owner) : e.bucket = b
               /\ {e \in left : e.bucket = b} = {}
               /\ reg.buckets[b].references = 0
            THEN NoBucket ELSE reg.buckets[b]]]

RetainHeight(reg, b) == [reg EXCEPT !.buckets[b].references = @ + 1]

\* collect_bucket
CollectBucket(reg, b) ==
    IF reg.buckets[b].retired /\ reg.buckets[b].references = 0
    THEN [entries |-> reg.entries \ KeysOf(reg, b),
          buckets |-> [reg.buckets EXCEPT ![b] = NoBucket]]
    ELSE reg

\* release_height; nothing when there is no reference.
ReleaseHeight(reg, b) ==
    IF reg.buckets[b].references = 0 THEN reg
    ELSE CollectBucket([reg EXCEPT !.buckets[b].references = @ - 1], b)

\* retire_height and release_height, given[b] times for every bucket b: the bucket is
\* retired, and its last reference takes its keys with it.
RetireHeights(reg, given) ==
    LET collected == {b \in Buckets : given[b] > 0 /\ reg.buckets[b].references <= given[b]}
    IN [entries |-> {e \in reg.entries : e.bucket \notin collected},
        buckets |-> [b \in Buckets |->
            IF b \in collected THEN NoBucket
            ELSE IF given[b] = 0 THEN reg.buckets[b]
            ELSE [references |-> reg.buckets[b].references - given[b], retired |-> TRUE]]]
=============================================================================
