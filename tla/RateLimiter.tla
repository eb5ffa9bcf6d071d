----------------------------- MODULE RateLimiter -----------------------------
(***************************************************************************)
(* HttpServer::admit in src/src/api/http.cpp: a token bucket per peer, in  *)
(* a table of bounded size that drops stale buckets when it is full.       *)
(*                                                                         *)
(* Time passes in ticks, Grain to the second; tokens are counted in        *)
(* units of which a request costs Grain, so a tick earns Rate units.       *)
(* Rounding of doubles is left out.  fair is history: the bucket each peer *)
(* would have in a table of any size.                                      *)
(***************************************************************************)
EXTENDS Integers, FiniteSets

CONSTANTS
    Askers,        \* peers that send requests
    Rate,          \* config_.request_rate_per_second
    Burst,         \* config_.request_burst
    BucketLimit,   \* bucket_limit
    MinStale,      \* the 60 seconds of stale_after
    Grain          \* ticks per second

ASSUME RateAssumption == {Rate, Burst, BucketLimit, MinStale, Grain} \subseteq Nat \ {0}

VARIABLES
    buckets,   \* buckets_: peer to tokens and the ticks since updated; NoBucket
    fair

rateVars == <<buckets, fair>>

Lesser(a, b) == IF a < b THEN a ELSE b
Greater(a, b) == IF a > b THEN a ELSE b

\* Mutant: a bucket is stale after a minute, refilled or not.
StaleAfterMinute == MinStale * Grain

\* A minute or the time that fills an empty bucket.
StaleAfter == Greater(MinStale, (Burst + Rate - 1) \div Rate) * Grain

\* Ages above this are alike.
Oldest == Greater(StaleAfter, Burst * Grain)

NoBucket == [tokens |-> 0, age |-> -1]
FullBucket == [tokens |-> Burst * Grain, age |-> 0]

Refilled(b) == [tokens |-> Lesser(Burst * Grain, b.tokens + b.age * Rate), age |-> 0]
Charged(b) == IF b.tokens >= Grain THEN [b EXCEPT !.tokens = @ - Grain] ELSE b

Held(bs) == {p \in Askers : bs[p] # NoBucket}

RateInit == buckets = [p \in Askers |-> NoBucket] /\ fair = [p \in Askers |-> FullBucket]

Swept == [p \in Askers |-> IF buckets[p].age >= StaleAfter THEN NoBucket ELSE buckets[p]]

\* admit: a peer without a bucket gets one if there is room, after a sweep if need be.
AdmitRequest(p) ==
    LET table == IF buckets[p] = NoBucket /\ Cardinality(Held(buckets)) >= BucketLimit
                 THEN Swept ELSE buckets
    IN IF table[p] = NoBucket /\ Cardinality(Held(table)) >= BucketLimit
       THEN buckets' = table /\ UNCHANGED fair
       ELSE /\ buckets' = [table EXCEPT ![p] =
                              Charged(Refilled(IF table[p] = NoBucket THEN FullBucket ELSE @))]
            /\ fair' = [fair EXCEPT ![p] = Charged(Refilled(@))]

Aged(b) == IF b = NoBucket THEN b ELSE [b EXCEPT !.age = Lesser(Oldest, @ + 1)]

Tick == /\ buckets' = [p \in Askers |-> Aged(buckets[p])]
        /\ fair' = [p \in Askers |-> Aged(fair[p])]

RateNext == Tick \/ \E p \in Askers : AdmitRequest(p)
RateSpec == RateInit /\ [][RateNext]_rateVars
-----------------------------------------------------------------------------
\* Dropping buckets from a full table changes no decision: a peer whose bucket is gone
\* has what it would have had anyway, so no order of peers, pauses and sweeps gets a peer
\* more requests than its rate and burst allow.
ForgettingIsFree ==
    \A p \in Askers : Refilled(IF buckets[p] = NoBucket THEN FullBucket ELSE buckets[p])
                          = Refilled(fair[p])
=============================================================================
