---------------------------- MODULE PeerHashCache ---------------------------
(***************************************************************************)
(* The resend filter of one peer (peerHashCache.go): the hashes of the     *)
(* application messages it sent us, in a ring of buckets.  New hashes go   *)
(* to the current bucket; every interval the ring turns by one and the     *)
(* oldest bucket, which becomes the current one, is emptied.               *)
(*                                                                         *)
(* The read loop adds and route looks hashes up at the same time: both     *)
(* hold the ring's read lock, so an Add may fall between two steps of Has, *)
(* while the turn of the ring needs the write lock.                        *)
(***************************************************************************)
EXTENDS Integers, FiniteSets

CONSTANTS
    Hash,        \* message hashes
    Reader,      \* goroutines that look hashes up
    Buckets      \* PeerResendBuckets

ASSUME BucketsAssumption == Buckets \in Nat \ {0}

VARIABLES
    buckets,     \* the ring: index -> set of hashes
    pc,          \* index of the current bucket
    stopper,     \* the stop channel is closed
    cleaning,    \* the cleanup goroutine is running
    asked,       \* per reader: the hash it looks up
    step,        \* per reader: the loop index of its Has, -1 outside of Has
    result,      \* per reader: what its last Has returned, FALSE while Has runs
    had,         \* per reader: the cache held the hash when its Has began
    age          \* per hash: turns since it was last added, Buckets if longer

cacheVars == <<buckets, pc, stopper, cleaning, asked, step, result, had, age>>

\* The bucket that is offset turns old.
Ptr(offset) == (pc + offset) % Buckets

Held(h) == \E i \in 0..(Buckets - 1) : h \in buckets[i]

CacheInit ==
    /\ buckets = [i \in 0..(Buckets - 1) |-> {}]
    /\ pc = 0
    /\ stopper = FALSE
    /\ cleaning = TRUE
    /\ asked \in [Reader -> Hash]
    /\ step = [r \in Reader |-> -1]
    /\ result = [r \in Reader |-> FALSE]
    /\ had = [r \in Reader |-> FALSE]
    /\ age = [h \in Hash |-> Buckets]

-----------------------------------------------------------------------------
Add(h) ==
    /\ buckets' = [buckets EXCEPT ![pc] = @ \cup {h}]
    /\ age' = [age EXCEPT ![h] = 0]
    /\ UNCHANGED <<pc, stopper, cleaning, asked, step, result, had>>

\* Has takes the read lock.
HasBegin(r, h) ==
    /\ step[r] = -1
    /\ asked' = [asked EXCEPT ![r] = h]
    /\ step' = [step EXCEPT ![r] = 0]
    /\ result' = [result EXCEPT ![r] = FALSE]
    /\ had' = [had EXCEPT ![r] = Held(h)]
    /\ UNCHANGED <<buckets, pc, stopper, cleaning, age>>

\* As HasStep, but the loop stops one bucket short.
HasStepShort(r) ==
    /\ step[r] >= 0
    /\ LET found == asked[r] \in buckets[Ptr(step[r])]
           last  == step[r] >= Buckets - 2
       IN  /\ step' = [step EXCEPT ![r] = IF found \/ last THEN -1 ELSE @ + 1]
           /\ result' = [result EXCEPT ![r] = found]
    /\ UNCHANGED <<buckets, pc, stopper, cleaning, asked, had, age>>

\* Has looks into one bucket, and returns when the hash is found or the loop ends.
HasStep(r) ==
    /\ step[r] >= 0
    /\ LET found == asked[r] \in buckets[Ptr(step[r])]
           last  == step[r] = Buckets - 1
       IN  /\ step' = [step EXCEPT ![r] = IF found \/ last THEN -1 ELSE @ + 1]
           /\ result' = [result EXCEPT ![r] = found]
    /\ UNCHANGED <<buckets, pc, stopper, cleaning, asked, had, age>>

\* The index of the bucket before the current one.
Before(i) == IF i - 1 < 0 THEN i - 1 + Buckets ELSE i - 1

Older == [h \in Hash |-> IF age[h] = Buckets THEN Buckets ELSE age[h] + 1]

\* As DropOldestBucket, but emptying the bucket that was current.
DropCurrentBucket ==
    /\ cleaning
    /\ \A r \in Reader : step[r] = -1
    /\ pc' = Before(pc)
    /\ buckets' = [buckets EXCEPT ![pc] = {}]
    /\ age' = Older
    /\ UNCHANGED <<stopper, cleaning, asked, step, result, had>>

\* A tick of cleanup: the ring turns, under the write lock.  The select may take
\* a tick even when the stop channel is closed.
DropOldestBucket ==
    /\ cleaning
    /\ \A r \in Reader : step[r] = -1
    /\ pc' = Before(pc)
    /\ buckets' = [buckets EXCEPT ![Before(pc)] = {}]
    /\ age' = Older
    /\ UNCHANGED <<stopper, cleaning, asked, step, result, had>>

CacheStop ==
    /\ ~stopper
    /\ stopper' = TRUE
    /\ UNCHANGED <<buckets, pc, cleaning, asked, step, result, had, age>>

CleanupEnds ==
    /\ cleaning
    /\ stopper
    /\ cleaning' = FALSE
    /\ UNCHANGED <<buckets, pc, stopper, asked, step, result, had, age>>

CacheNext ==
    \/ \E h \in Hash : Add(h) \/ \E r \in Reader : HasBegin(r, h)
    \/ \E r \in Reader : HasStep(r)
    \/ DropOldestBucket
    \/ CacheStop
    \/ CleanupEnds

CacheSpec == CacheInit /\ [][CacheNext]_cacheVars

-----------------------------------------------------------------------------
\* The types of the variables; the current index stays inside the ring.
CacheTypeOK ==
    /\ buckets \in [0..(Buckets - 1) -> SUBSET Hash]
    /\ pc \in 0..(Buckets - 1)
    /\ stopper \in BOOLEAN
    /\ cleaning \in BOOLEAN
    /\ asked \in [Reader -> Hash]
    /\ step \in [Reader -> -1..(Buckets - 1)]
    /\ result \in [Reader -> BOOLEAN]
    /\ had \in [Reader -> BOOLEAN]
    /\ age \in [Hash -> 0..Buckets]

\* The cache holds exactly the hashes added fewer than Buckets turns ago: the
\* ring neither forgets a hash early nor keeps one that was added again and again
\* forever (peerHashCache.go, Add and dropOldestBucket).
Window == \A h \in Hash : Held(h) <=> age[h] < Buckets

\* What makes Window inductive: a hash is in the bucket of its age, and in no
\* younger one.
Placed ==
    \A h \in Hash :
        /\ age[h] < Buckets => h \in buckets[Ptr(age[h])]
        /\ \A k \in 0..(Buckets - 1) : k < age[h] => h \notin buckets[Ptr(k)]

\* Has does not miss a hash that the cache held when the call began, with Adds
\* in the middle of its loop and turns of the ring before and after it
\* (peerHashCache.go, Has).
HasFinds ==
    \A r \in Reader :
        /\ step[r] >= 0 /\ had[r] =>
            \E k \in step[r]..(Buckets - 1) : asked[r] \in buckets[Ptr(k)]
        /\ step[r] = -1 /\ had[r] => result[r]

CacheInv == CacheTypeOK /\ Placed /\ HasFinds

=============================================================================
