------------------------------ MODULE TokenBucket ------------------------------
(***************************************************************************)
(* What the rate limiter promises each key: a bucket of its own that holds *)
(* at most Burst tokens, gains Rate of them at each tick for ever, and     *)
(* decides every request alone.                                            *)
(***************************************************************************)
EXTENDS Naturals

CONSTANTS
    Keys,   \* addresses, or identities of gateways
    Rate,   \* tokens gained at each tick
    Burst   \* tokens a bucket holds

VARIABLES
    bucket, \* tokens of each key
    answer  \* the last answer: the key and whether its request passed

bucketVars == <<bucket, answer>>

AtMost(n, limit) == IF n < limit THEN n ELSE limit

Pour == bucket' = [k \in Keys |-> AtMost(bucket[k] + Rate, Burst)] /\ UNCHANGED answer

Pass(k) ==
    /\ bucket[k] >= 1
    /\ bucket' = [bucket EXCEPT ![k] = @ - 1]
    /\ answer' = <<k, TRUE>>

Reject(k) == bucket[k] = 0 /\ answer' = <<k, FALSE>> /\ UNCHANGED bucket

BucketInit == bucket = [k \in Keys |-> Burst] /\ answer = <<>>
BucketNext == Pour \/ \E k \in Keys : Pass(k) \/ Reject(k)
BucketSpec == BucketInit /\ [][BucketNext]_bucketVars
=============================================================================
