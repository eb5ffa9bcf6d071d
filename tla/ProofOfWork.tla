----------------------------- MODULE ProofOfWork -----------------------------
(***************************************************************************)
(* The arithmetic and the encodings of src/src/monero/monero.cpp on which  *)
(* every decision about a share rests: targets, varints and the tree hash. *)
(* Numbers keep their representation, limbs and bytes, with the widths as  *)
(* constants.  keccak256 is external: a hash is told by what it commits.   *)
(***************************************************************************)
EXTENDS Integers, Sequences, SequencesExt, FiniteSetsExt

CONSTANTS
    Base,        \* 2^32, one more than a limb holds
    HashLimbs,   \* 8
    DiffLimbs,   \* 4
    WordLimbs,   \* limbs of the 64-bit words: 2
    Symbols,     \* characters of a difficulty: its digits, and 10 for any other
    MaxText,     \* bound on its length
    Assigned,    \* assigned difficulties
    Group,       \* 2^7, one more than a byte of a varint carries
    MaxVarint,   \* bytes of the longest varint: 10
    LastByte,    \* what the last of them may be: 1
    MaxLeaves    \* bound on the transactions of a block

ASSUME PowAssumption ==
    /\ {Base, Group} \subseteq Nat \ {0, 1}
    /\ {HashLimbs, DiffLimbs, WordLimbs, MaxVarint, LastByte, MaxLeaves} \subseteq Nat \ {0}
    /\ WordLimbs <= HashLimbs /\ LastByte < Group
    /\ Symbols \subseteq 0..10 /\ MaxText \in Nat
    /\ Assigned \subseteq 1..(Base ^ WordLimbs - 1)

VARIABLES
    input,    \* what is computed: a kind and its argument
    result    \* done or not, and what it gives: ok unless an exception is thrown

powVars == <<input, result>>

Pending == [done |-> FALSE, ok |-> FALSE, value |-> <<>>]
Failed == [done |-> TRUE, ok |-> FALSE, value |-> <<>>]
Gives(value) == [done |-> TRUE, ok |-> TRUE, value |-> value]
Max64 == Base ^ WordLimbs - 1
Limbs(n) == [1..n -> 0..(Base - 1)]

Bytes == 0..(2 * Group - 1)
MaxValue == (LastByte + 1) * Group ^ (MaxVarint - 1) - 1   \* 2^64 - 1

PowInit ==
    /\ result = Pending
    /\ \/ input \in [kind : {"target"}, text : BoundedSeq(Symbols, MaxText), assigned : Assigned]
       \/ input \in [kind : {"varint"}, bytes : BoundedSeq(Bytes, MaxVarint)]
       \/ input \in [kind : {"tree"}, leaves : 1..MaxLeaves]
-----------------------------------------------------------------------------
NoLimbs == <<>>   \* an exception

\* The inner loop of parse_decimal_uint128: carry out of the first j limbs.
TimesTenPlus(limbs, digit) ==
    LET carry[j \in 0..DiffLimbs] ==
            IF j = 0 THEN digit ELSE (limbs[j] * 10 + carry[j - 1]) \div Base
    IN IF carry[DiffLimbs] # 0 THEN NoLimbs
       ELSE [j \in 1..DiffLimbs |-> (limbs[j] * 10 + carry[j - 1]) % Base]

Zero == [j \in 1..DiffLimbs |-> 0]

ParseDecimal(text) ==
    LET step(limbs, digit) == IF limbs = NoLimbs \/ digit > 9 THEN NoLimbs
                               ELSE TimesTenPlus(limbs, digit)
        limbs == FoldLeft(step, Zero, text)
    IN IF text = <<>> \/ (Len(text) > 1 /\ text[1] = 0) \/ limbs = Zero THEN NoLimbs ELSE limbs

\* Mutant: the carry out of a row is lost.
RowLosesCarry(product, i, h, d) ==
    LET value(k, in) == IF k > i - 1 + DiffLimbs THEN product[k]
                           ELSE h[i] * d[k - i + 1] + product[k] + in
        carry[k \in (i - 1)..(HashLimbs + DiffLimbs)] ==
            IF k = i - 1 THEN 0 ELSE value(k, carry[k - 1]) \div Base
    IN [k \in DOMAIN product |-> IF k < i THEN product[k] ELSE value(k, carry[k - 1]) % Base]

\* Limb i of the hash times the difficulty, added to the product; the carry goes on to
\* the end.  No value exceeds Base^2 - 1, which the 64-bit accumulator just holds.
Row(product, i, h, d) ==
    LET value(k, in) == (IF k > i - 1 + DiffLimbs THEN 0 ELSE h[i] * d[k - i + 1])
                               + product[k] + in
        carry[k \in (i - 1)..(HashLimbs + DiffLimbs)] ==
            IF k = i - 1 THEN 0 ELSE value(k, carry[k - 1]) \div Base
    IN [k \in DOMAIN product |-> IF k < i THEN product[k] ELSE value(k, carry[k - 1]) % Base]

\* meets_network_target: the product does not exceed the width of the hash.
MeetsNetworkTarget(h, d) ==
    LET product[i \in 0..HashLimbs] ==
            IF i = 0 THEN [k \in 1..(HashLimbs + DiffLimbs) |-> 0]
            ELSE Row(product[i - 1], i, h, d)
    IN \A k \in (HashLimbs + 1)..(HashLimbs + DiffLimbs) : product[HashLimbs][k] = 0

\* What n limbs are worth from limb `from` on.
Worth(limbs, from, n) == MapThenSumSet(LAMBDA k : limbs[from + k] * Base ^ (k - 1), 1..n)

PowWord(h) == Worth(h, HashLimbs - WordLimbs, WordLimbs)

\* Mutant: the target is rounded up.
ShareTargetUp(d) == (Max64 + d - 1) \div d + 1

ShareTarget(d) == Max64 \div d

MeetsShareTarget(h, target) == PowWord(h) < target

ActualDifficulty(h) == IF PowWord(h) = 0 THEN Max64 ELSE Max64 \div PowWord(h)

\* A share's hash against its job, for every hash.
Compare ==
    /\ input.kind = "target" /\ ~result.done
    /\ LET d == ParseDecimal(input.text)
           target == ShareTarget(input.assigned)
       IN result' = IF d = NoLimbs THEN Failed
                    ELSE Gives([h \in Limbs(HashLimbs) |->
                                  [network |-> MeetsNetworkTarget(h, d),
                                   share |-> MeetsShareTarget(h, target),
                                   actual |-> ActualDifficulty(h)]])
    /\ UNCHANGED input
-----------------------------------------------------------------------------
EncodeVarint(n) ==
    LET encode[v \in 0..n] ==
            IF v < Group THEN <<v>> ELSE <<Group + (v % Group)>> \o encode[v \div Group]
    IN encode[n]

\* Mutant: any encoding of a value is taken.
IsCanonicalAny(value, used) == TRUE

IsCanonical(value, used) == Len(EncodeVarint(value)) = used

\* Reader::varint
ReadVarint(bytes) ==
    LET ends == {i \in DOMAIN bytes : i <= MaxVarint /\ bytes[i] < Group}
        used == Min(ends)
        value == MapThenSumSet(LAMBDA i : (bytes[i] % Group) * Group ^ (i - 1), 1..used)
    IN IF ends = {} \/ (used = MaxVarint /\ bytes[used] > LastByte) \/ ~IsCanonical(value, used)
       THEN Failed ELSE Gives([value |-> value, used |-> used])

Read ==
    /\ input.kind = "varint" /\ ~result.done
    /\ result' = ReadVarint(input.bytes)
    /\ UNCHANGED input
-----------------------------------------------------------------------------
\* A hash in the tree: the leaves it commits, in order, and its height.
Leaf(i) == [leaves |-> <<i>>, height |-> 0]
HashPair(l, r) == [leaves |-> l.leaves \o r.leaves,
                   height |-> 1 + (IF l.height > r.height THEN l.height ELSE r.height)]

\* Mutant: the width of the first row is not halved again.
FirstRowWide(n) == Min({w \in {2 ^ k : k \in 0..n} : w >= n})

\* The greatest power of two below n.
FirstRow(n) == Min({w \in {2 ^ k : k \in 1..n} : w >= n}) \div 2

\* tree_hash: leaves beyond the first `copied` are paired, then rows are halved.
TreeHash(n) ==
    LET width == FirstRow(n)
        copied == 2 * width - n
        first == [i \in 1..width |-> IF i <= copied THEN Leaf(i)
                                     ELSE HashPair(Leaf(2 * i - copied - 1), Leaf(2 * i - copied))]
        row[w \in 1..width] == IF w = width THEN first
                               ELSE [i \in 1..w |-> HashPair(row[2 * w][2 * i - 1], row[2 * w][2 * i])]
    IN IF n = 1 THEN Leaf(1) ELSE IF n = 2 THEN HashPair(Leaf(1), Leaf(2)) ELSE row[1][1]

HashTree ==
    /\ input.kind = "tree" /\ ~result.done
    /\ result' = Gives(TreeHash(input.leaves))
    /\ UNCHANGED input

PowNext == Compare \/ Read \/ HashTree
PowSpec == PowInit /\ [][PowNext]_powVars
-----------------------------------------------------------------------------
Number(text) == FoldLeft(LAMBDA n, digit : n * 10 + digit, 0, text)
IsDifficulty(text) ==
    /\ text # <<>> /\ \A i \in DOMAIN text : text[i] < 10
    /\ text[1] # 0 /\ Number(text) < Base ^ DiffLimbs

\* A difficulty is read if and only if it is a canonical number of the width; a hash meets
\* the network target exactly when hash times difficulty stays below 2^256, for every
\* pattern of carries; a share that meets its target shows at least the work it is
\* credited for; and a block of a difficulty no lower than the share's misses the share
\* target only by being equal to it.
TargetsAreExact ==
    input.kind = "target" /\ result.done =>
        /\ result.ok <=> IsDifficulty(input.text)
        /\ result.ok => \A h \in Limbs(HashLimbs) :
              LET network == Number(input.text)
              IN /\ result.value[h].network <=> Worth(h, 0, HashLimbs) * network < Base ^ HashLimbs
                 /\ result.value[h].share => result.value[h].actual >= input.assigned
                 /\ result.value[h].network /\ input.assigned <= network /\ ~result.value[h].share
                        => PowWord(h) = Max64 \div input.assigned

\* Bytes are read as a varint if and only if they begin with the one encoding of a number
\* of 64 bits, which they then give; and the tree hash commits every transaction once and
\* in order, in a tree as low as can be, for every number of transactions.
SerializationIsExact ==
    /\ input.kind = "varint" /\ result.done =>
          IF ~result.ok THEN ~ \E v \in 0..MaxValue : IsPrefix(EncodeVarint(v), input.bytes)
          ELSE /\ result.value.value <= MaxValue
               /\ SubSeq(input.bytes, 1, result.value.used) = EncodeVarint(result.value.value)
    /\ input.kind = "tree" /\ result.done =>
          /\ result.value.leaves = [i \in 1..input.leaves |-> i]
          /\ 2 ^ result.value.height >= input.leaves /\ 2 ^ result.value.height < 2 * input.leaves
=============================================================================
