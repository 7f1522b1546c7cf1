--------------------------- MODULE ReceiveProofs ----------------------------
(***************************************************************************)
(* The way of a parcel to the application.  First the resend filter on its *)
(* own: it remembers a hash for exactly Buckets turns, and Has finds what  *)
(* was there when it began, for any number of buckets, hashes and readers. *)
(* The argument: a hash is in the bucket of its age and in no younger one, *)
(* and a turn of the ring moves every bucket to the next age and empties   *)
(* the one that becomes the youngest.                                      *)
(*                                                                         *)
(* Then the composition: every step of it is a step of the filter or       *)
(* leaves the filter alone, so the filter keeps its promises; a call gets  *)
(* only answers of the peer it asked; and the filter knows a message no    *)
(* later than the application.                                             *)
(***************************************************************************)
EXTENDS Receive, SequenceTheorems, TLAPS

Index == 0..(Buckets - 1)

-----------------------------------------------------------------------------
(* The remainders that occur in the ring. *)
LEMMA Wrap ==
    /\ \A a \in Index : a % Buckets = a
    /\ \A a \in Int : Buckets <= a /\ a < Buckets + Buckets => a % Buckets = a - Buckets
  BY BucketsAssumption DEF Index

LEMMA WrapSum ==
    \A a, b \in Index : Buckets <= a + b => (a + b) % Buckets = a + b - Buckets
  BY BucketsAssumption DEF Index

(* The bucket of an age is a bucket, and every bucket is that of some age. *)
LEMMA PtrOnto ==
    ASSUME pc \in Index
    PROVE  /\ \A k \in Index : Ptr(k) \in Index
           /\ \A i \in Index : \E k \in Index : Ptr(k) = i
           /\ Ptr(0) = pc
  <1>1. ASSUME NEW k \in Index PROVE Ptr(k) \in Index
    <2>1. CASE pc + k \in Index
      BY <2>1, Wrap DEF Ptr
    <2>2. CASE Buckets <= pc + k /\ pc + k < Buckets + Buckets
      <3>1. (pc + k) % Buckets = pc + k - Buckets
        BY <2>2, WrapSum
      <3> QED
        BY <2>2, <3>1, BucketsAssumption DEF Ptr, Index
    <2> QED
      BY <2>1, <2>2, BucketsAssumption DEF Index
  <1>2. ASSUME NEW i \in Index PROVE \E k \in Index : Ptr(k) = i
    <2>1. CASE i >= pc
      <3>1. i - pc \in Index /\ pc + (i - pc) = i
        BY <2>1, BucketsAssumption DEF Index
      <3> QED
        BY <3>1, Wrap DEF Ptr
    <2>2. CASE i < pc
      <3>1. /\ i - pc + Buckets \in Index
            /\ pc + (i - pc + Buckets) = i + Buckets
            /\ Buckets <= i + Buckets /\ i + Buckets < Buckets + Buckets
            /\ i + Buckets - Buckets = i
        BY <2>2, BucketsAssumption DEF Index
      <3>2. (i + Buckets) % Buckets = i
        BY <3>1, Wrap, BucketsAssumption DEF Index
      <3>3. Ptr(i - pc + Buckets) = i
        BY <3>1, <3>2 DEF Ptr
      <3> QED
        BY <3>1, <3>3
    <2> QED
      BY <2>1, <2>2, BucketsAssumption DEF Index
  <1>3. Ptr(0) = pc
    BY Wrap, BucketsAssumption DEF Ptr, Index
  <1> QED
    BY <1>1, <1>2, <1>3

(* What a turn does to the ages: the emptied bucket becomes the youngest one, *)
(* and every other bucket is one turn older.                                  *)
LEMMA PtrTurns ==
    ASSUME pc \in Index, pc' = Before(pc)
    PROVE  /\ pc' \in Index
           /\ Ptr(0)' = Before(pc)
           /\ \A k \in 1..(Buckets - 1) : Ptr(k)' = Ptr(k - 1) /\ Ptr(k)' # Before(pc)
  <1>1. pc' \in Index
    BY BucketsAssumption DEF Index, Before
  <1>2. Ptr(0)' = Before(pc)
    BY <1>1, Wrap, BucketsAssumption DEF Ptr, Index
  <1>3. \A k \in 1..(Buckets - 1) : k \in Index
    BY BucketsAssumption DEF Index
  <1>4. ASSUME NEW k \in 1..(Buckets - 1)
        PROVE  Ptr(k)' = Ptr(k - 1) /\ Ptr(k)' # Before(pc)
    <2>1. CASE pc = 0
      <3>1. /\ pc' = Buckets - 1
            /\ Buckets <= pc' + k /\ pc' + k < Buckets + Buckets
            /\ pc' + k - Buckets = k - 1
            /\ pc + (k - 1) = k - 1
            /\ k - 1 \in Index
            /\ k - 1 # Buckets - 1
        BY <2>1, BucketsAssumption DEF Index, Before
      <3>2. (pc' + k) % Buckets = k - 1
        BY <1>1, <1>3, <3>1, WrapSum
      <3>3. (pc + (k - 1)) % Buckets = k - 1
        BY <3>1, Wrap
      <3> QED
        BY <3>1, <3>2, <3>3 DEF Ptr
    <2>2. CASE pc # 0
      <3>1. /\ pc' = pc - 1
            /\ pc' + k = pc + (k - 1)
        BY <2>2, BucketsAssumption DEF Index, Before
      <3>2. Ptr(k)' = Ptr(k - 1)
        BY <3>1 DEF Ptr
      <3>3. CASE pc' + k \in Index
        BY <3>1, <3>3, Wrap, BucketsAssumption DEF Ptr, Index
      <3>4. CASE Buckets <= pc' + k /\ pc' + k < Buckets + Buckets
        <4>1. (pc' + k) % Buckets = pc' + k - Buckets
          BY <1>1, <1>3, <3>4, WrapSum
        <4>2. pc' + k - Buckets # pc'
          BY <1>1, BucketsAssumption DEF Index
        <4> QED
          BY <3>2, <4>1, <4>2 DEF Ptr
      <3> QED
        BY <1>1, <3>2, <3>3, <3>4, BucketsAssumption DEF Index
    <2> QED
      BY <2>1, <2>2
  <1> QED
    BY <1>1, <1>2, <1>4

-----------------------------------------------------------------------------
LEMMA PlacedGivesWindow == CacheTypeOK /\ Placed => Window
  <1> SUFFICES ASSUME CacheTypeOK, Placed, NEW h \in Hash
               PROVE  Held(h) <=> age[h] < Buckets
    BY DEF Window
  <1> USE DEF Index
  <1>1. pc \in Index /\ age[h] \in 0..Buckets
    BY DEF CacheTypeOK
  <1>2. ASSUME age[h] < Buckets PROVE Held(h)
    BY <1>1, <1>2, PtrOnto, BucketsAssumption DEF Placed, Held
  <1>3. ASSUME ~(age[h] < Buckets) PROVE ~Held(h)
    <2>1. age[h] = Buckets
      BY <1>1, <1>3, BucketsAssumption
    <2>2. \A k \in Index : h \notin buckets[Ptr(k)]
      BY <2>1, BucketsAssumption DEF Placed
    <2> QED
      BY <1>1, <2>2, PtrOnto DEF Held
  <1> QED
    BY <1>2, <1>3

LEMMA CacheInitInv == CacheInit => CacheInv
  <1> SUFFICES ASSUME CacheInit PROVE CacheInv
    OBVIOUS
  <1>1. CacheTypeOK
    <2>1. -1 \in -1..(Buckets - 1) /\ 0 \in 0..(Buckets - 1) /\ Buckets \in 0..Buckets
      BY BucketsAssumption
    <2> QED
      BY <2>1 DEF CacheInit, CacheTypeOK
  <1>2. Placed
    <2>1. pc \in Index
      BY BucketsAssumption DEF CacheInit, Index
    <2>2. \A k \in Index : buckets[Ptr(k)] = {}
      BY <2>1, PtrOnto DEF CacheInit, Index
    <2>3. \A h \in Hash : age[h] = Buckets /\ ~(age[h] < Buckets)
      BY BucketsAssumption DEF CacheInit
    <2> QED
      BY <2>2, <2>3 DEF Placed, Index
  <1>3. HasFinds
    <2>1. \A r \in Reader : ~had[r]
      BY DEF CacheInit
    <2> QED
      BY <2>1 DEF HasFinds
  <1> QED
    BY <1>1, <1>2, <1>3 DEF CacheInv

-----------------------------------------------------------------------------
LEMMA AddInv == ASSUME CacheInv, NEW h \in Hash, Add(h) PROVE CacheInv'
  <1> USE DEF Index
  <1>1. pc \in Index /\ pc' = pc
    BY DEF CacheInv, CacheTypeOK, Add
  <1>2. \A i \in Index : buckets'[i] = IF i = pc THEN buckets[i] \cup {h} ELSE buckets[i]
    BY DEF CacheInv, CacheTypeOK, Add
  <1>3. \A k : Ptr(k)' = Ptr(k)
    BY <1>1 DEF Ptr
  <1>4. CacheTypeOK'
    BY BucketsAssumption DEF CacheInv, CacheTypeOK, Add
  <1>5. Placed'
    <2> SUFFICES ASSUME NEW g \in Hash
                 PROVE  /\ age'[g] < Buckets => g \in buckets'[Ptr(age'[g])]
                        /\ \A k \in Index : k < age'[g] => g \notin buckets'[Ptr(k)]
      BY <1>3 DEF Placed
    <2>1. CASE g = h
      <3>1. age'[g] = 0
        BY <2>1 DEF Add, CacheInv, CacheTypeOK
      <3>2. Ptr(0) = pc /\ h \in buckets'[pc]
        BY <1>1, <1>2, PtrOnto
      <3>3. \A k \in Index : ~(k < 0)
        BY BucketsAssumption
      <3> QED
        BY <2>1, <3>1, <3>2, <3>3
    <2>2. CASE g # h
      <3>1. age'[g] = age[g] /\ age[g] \in 0..Buckets
        BY <2>2 DEF Add, CacheInv, CacheTypeOK
      <3>2. \A k \in Index : g \in buckets'[Ptr(k)] <=> g \in buckets[Ptr(k)]
        BY <1>1, <1>2, <2>2, PtrOnto
      <3>3. age[g] < Buckets => age[g] \in Index
        BY <3>1, BucketsAssumption
      <3> QED
        BY <3>1, <3>2, <3>3 DEF CacheInv, Placed
    <2> QED
      BY <2>1, <2>2
  <1>6. HasFinds'
    <2> SUFFICES ASSUME NEW r \in Reader
                 PROVE  /\ step[r] >= 0 /\ had[r] =>
                            \E k \in step[r]..(Buckets - 1) : asked[r] \in buckets'[Ptr(k)]
                        /\ step[r] = -1 /\ had[r] => result[r]
      BY <1>3 DEF HasFinds, Add
    <2>1. \A k \in Index : buckets[Ptr(k)] \subseteq buckets'[Ptr(k)]
      BY <1>1, <1>2, PtrOnto
    <2>2. step[r] \in -1..(Buckets - 1)
      BY DEF CacheInv, CacheTypeOK
    <2> QED
      BY <2>1, <2>2, BucketsAssumption DEF CacheInv, HasFinds
  <1> QED
    BY <1>4, <1>5, <1>6 DEF CacheInv

(* Nothing but an Add or a turn changes where the hashes are. *)
LEMMA PlacedStays ==
    ASSUME Placed, UNCHANGED <<buckets, pc, age>> PROVE Placed'
  BY DEF Placed, Ptr

LEMMA HasBeginInv ==
    ASSUME CacheInv, NEW r \in Reader, NEW h \in Hash, HasBegin(r, h) PROVE CacheInv'
  <1> USE DEF Index
  <1>1. CacheTypeOK'
    BY BucketsAssumption DEF CacheInv, CacheTypeOK, HasBegin, Held
  <1>2. Placed'
    BY PlacedStays DEF CacheInv, HasBegin
  <1>3. HasFinds'
    <2> SUFFICES ASSUME NEW q \in Reader
                 PROVE  /\ step'[q] >= 0 /\ had'[q] =>
                            \E k \in step'[q]..(Buckets - 1) : asked'[q] \in buckets[Ptr(k)]
                        /\ step'[q] = -1 /\ had'[q] => result'[q]
      BY DEF HasFinds, HasBegin, Ptr
    <2>1. CASE q = r
      <3>1. step'[q] = 0 /\ asked'[q] = h /\ (had'[q] <=> Held(h))
        BY <2>1 DEF HasBegin, CacheInv, CacheTypeOK
      <3>2. Held(h) => \E k \in Index : h \in buckets[Ptr(k)]
        BY PtrOnto DEF Held, CacheInv, CacheTypeOK
      <3> QED
        BY <3>1, <3>2
    <2>2. CASE q # r
      <3>1. /\ step'[q] = step[q] /\ asked'[q] = asked[q]
            /\ had'[q] = had[q] /\ result'[q] = result[q]
        BY <2>2 DEF HasBegin, CacheInv, CacheTypeOK
      <3> QED
        BY <3>1 DEF CacheInv, HasFinds
    <2> QED
      BY <2>1, <2>2
  <1> QED
    BY <1>1, <1>2, <1>3 DEF CacheInv

LEMMA HasStepInv == ASSUME CacheInv, NEW r \in Reader, HasStep(r) PROVE CacheInv'
  <1> USE DEF Index
  <1> DEFINE found == asked[r] \in buckets[Ptr(step[r])]
             last == step[r] = Buckets - 1
  <1>0. /\ step' = [step EXCEPT ![r] = IF found \/ last THEN -1 ELSE @ + 1]
        /\ result' = [result EXCEPT ![r] = found]
        /\ step[r] \in Index
    BY DEF HasStep, CacheInv, CacheTypeOK
  <1>1. CacheTypeOK'
    <2>1. step' \in [Reader -> -1..(Buckets - 1)]
      BY <1>0, BucketsAssumption DEF CacheInv, CacheTypeOK
    <2>2. result' \in [Reader -> BOOLEAN]
      BY <1>0 DEF CacheInv, CacheTypeOK
    <2> QED
      BY <2>1, <2>2 DEF CacheInv, CacheTypeOK, HasStep
  <1>2. Placed'
    BY PlacedStays DEF CacheInv, HasStep
  <1>3. HasFinds'
    <2> SUFFICES ASSUME NEW q \in Reader
                 PROVE  /\ step'[q] >= 0 /\ had[q] =>
                            \E k \in step'[q]..(Buckets - 1) : asked[q] \in buckets[Ptr(k)]
                        /\ step'[q] = -1 /\ had[q] => result'[q]
      BY DEF HasFinds, HasStep, Ptr
    <2>1. CASE q = r
      <3>1. had[r] => \E k \in step[r]..(Buckets - 1) : asked[r] \in buckets[Ptr(k)]
        BY <1>0, BucketsAssumption DEF CacheInv, HasFinds
      <3>2. CASE found
        <4>1. step'[r] = -1 /\ result'[r] = TRUE
          BY <1>0, <3>2 DEF CacheInv, CacheTypeOK
        <4> QED
          BY <2>1, <4>1
      <3>3. CASE ~found /\ last
        <4>1. step[r]..(Buckets - 1) = {step[r]}
          BY <1>0, <3>3, BucketsAssumption
        <4>2. ~had[r]
          BY <3>1, <3>3, <4>1
        <4> QED
          BY <2>1, <4>2
      <3>4. CASE ~found /\ ~last
        <4>1. step'[r] = step[r] + 1
          BY <1>0, <3>4 DEF CacheInv, CacheTypeOK
        <4>2. \A k \in step[r]..(Buckets - 1) :
                  asked[r] \in buckets[Ptr(k)] => k \in (step[r] + 1)..(Buckets - 1)
          BY <1>0, <3>4, BucketsAssumption
        <4> QED
          BY <1>0, <2>1, <3>1, <4>1, <4>2, BucketsAssumption
      <3> QED
        BY <3>2, <3>3, <3>4
    <2>2. CASE q # r
      <3>1. step'[q] = step[q] /\ result'[q] = result[q]
        BY <1>0, <2>2 DEF CacheInv, CacheTypeOK
      <3> QED
        BY <3>1 DEF CacheInv, HasFinds
    <2> QED
      BY <2>1, <2>2
  <1> QED
    BY <1>1, <1>2, <1>3 DEF CacheInv

LEMMA DropInv == ASSUME CacheInv, DropOldestBucket PROVE CacheInv'
  <1> USE DEF Index
  <1>1. pc \in Index /\ pc' = Before(pc)
    BY DEF CacheInv, CacheTypeOK, DropOldestBucket
  <1>2. \A i \in Index : buckets'[i] = IF i = Before(pc) THEN {} ELSE buckets[i]
    BY DEF CacheInv, CacheTypeOK, DropOldestBucket
  <1>3. \A h \in Hash : /\ age[h] \in 0..Buckets
                        /\ age'[h] = IF age[h] = Buckets THEN Buckets ELSE age[h] + 1
    BY DEF CacheInv, CacheTypeOK, DropOldestBucket, Older
  <1>4. CacheTypeOK'
    <2>1. pc' \in Index
      BY <1>1, PtrTurns
    <2>2. buckets' \in [Index -> SUBSET Hash]
      BY DEF CacheInv, CacheTypeOK, DropOldestBucket
    <2>3. age' \in [Hash -> 0..Buckets]
      BY BucketsAssumption DEF CacheInv, CacheTypeOK, DropOldestBucket, Older
    <2> QED
      BY <2>1, <2>2, <2>3 DEF CacheInv, CacheTypeOK, DropOldestBucket
  <1>5. Placed'
    <2> DEFINE new(k) == (pc' + k) % Buckets
    <2>0. \A k : Ptr(k)' = new(k)
      BY DEF Ptr
    <2> SUFFICES ASSUME NEW h \in Hash
                 PROVE  /\ age'[h] < Buckets => h \in buckets'[new(age'[h])]
                        /\ \A k \in Index : k < age'[h] => h \notin buckets'[new(k)]
      BY DEF Placed, Ptr
    <2> HIDE DEF new
    <2>1. \A k \in 1..(Buckets - 1) : buckets'[new(k)] = buckets[Ptr(k - 1)]
      <3> TAKE k \in 1..(Buckets - 1)
      <3>1. k - 1 \in Index
        BY BucketsAssumption
      <3>2. new(k) = Ptr(k - 1) /\ new(k) # Before(pc) /\ Ptr(k - 1) \in Index
        BY <1>1, <2>0, <3>1, PtrTurns, PtrOnto
      <3> QED
        BY <1>2, <3>2
    <2>2. buckets'[new(0)] = {}
      <3>1. new(0) = Before(pc) /\ Before(pc) \in Index
        BY <1>1, <2>0, PtrTurns
      <3> QED
        BY <1>2, <3>1
    <2>3. ASSUME age'[h] < Buckets PROVE h \in buckets'[new(age'[h])]
      <3>1. /\ age'[h] \in 1..(Buckets - 1)
            /\ age'[h] - 1 = age[h]
            /\ age[h] < Buckets
        BY <1>3, <2>3, BucketsAssumption
      <3>2. h \in buckets[Ptr(age[h])]
        BY <3>1 DEF CacheInv, Placed
      <3> QED
        BY <2>1, <3>1, <3>2
    <2>4. ASSUME NEW k \in Index, k < age'[h] PROVE h \notin buckets'[new(k)]
      <3>1. CASE k = 0
        BY <2>2, <3>1
      <3>2. CASE k # 0
        <4>1. k \in 1..(Buckets - 1) /\ k - 1 \in Index /\ k - 1 < age[h]
          BY <1>3, <2>4, <3>2, BucketsAssumption
        <4>2. h \notin buckets[Ptr(k - 1)]
          BY <4>1 DEF CacheInv, Placed
        <4> QED
          BY <2>1, <4>1, <4>2
      <3> QED
        BY <3>1, <3>2
    <2> QED
      BY <2>3, <2>4
  <1>6. HasFinds'
    <2>1. \A r \in Reader : step'[r] = -1 /\ (step[r] = -1)
      BY DEF DropOldestBucket
    <2> QED
      BY <2>1 DEF CacheInv, HasFinds, DropOldestBucket
  <1> QED
    BY <1>4, <1>5, <1>6 DEF CacheInv

-----------------------------------------------------------------------------
LEMMA CacheNextInv == CacheInv /\ [CacheNext]_cacheVars => CacheInv'
  <1> SUFFICES ASSUME CacheInv, [CacheNext]_cacheVars PROVE CacheInv'
    OBVIOUS
  <1>1. ASSUME NEW h \in Hash, Add(h) PROVE CacheInv'
    BY <1>1, AddInv
  <1>2. ASSUME NEW h \in Hash, NEW r \in Reader, HasBegin(r, h) PROVE CacheInv'
    BY <1>2, HasBeginInv
  <1>3. ASSUME NEW r \in Reader, HasStep(r) PROVE CacheInv'
    BY <1>3, HasStepInv
  <1>4. CASE DropOldestBucket
    BY <1>4, DropInv
  <1>5. ASSUME UNCHANGED <<buckets, pc, asked, step, result, had, age>>,
               stopper' \in BOOLEAN, cleaning' \in BOOLEAN
        PROVE  CacheInv'
    BY <1>5, PlacedStays DEF CacheInv, CacheTypeOK, HasFinds, Ptr
  <1>6. CASE CacheStop
    BY <1>5, <1>6 DEF CacheStop, CacheInv, CacheTypeOK
  <1>7. CASE CleanupEnds
    BY <1>5, <1>7 DEF CleanupEnds, CacheInv, CacheTypeOK
  <1>8. CASE UNCHANGED cacheVars
    BY <1>5, <1>8 DEF cacheVars, CacheInv, CacheTypeOK
  <1> QED
    BY <1>1, <1>2, <1>3, <1>4, <1>6, <1>7, <1>8 DEF CacheNext

\* The filter holds exactly the hashes added fewer than Buckets turns ago, for
\* every number of buckets (peerHashCache.go, Add and dropOldestBucket).
THEOREM WindowAlways == CacheSpec => []Window
  <1>1. CacheInv => Window
    BY PlacedGivesWindow DEF CacheInv
  <1> QED
    BY <1>1, CacheInitInv, CacheNextInv, PTL DEF CacheSpec

\* Has finds every hash that was held when it began, whatever is added during its
\* loop, for any number of readers (peerHashCache.go, Has).
THEOREM HasAlwaysFinds == CacheSpec => []HasFinds
  <1>1. CacheInv => HasFinds
    BY DEF CacheInv
  <1> QED
    BY <1>1, CacheInitInv, CacheNextInv, PTL DEF CacheSpec

-----------------------------------------------------------------------------
(* The composition.  The types of Receive in parts, by the variables they are   *)
(* about, with what the calls and manageData have to know besides.              *)

Parcels == Response \cup Message \cup {Other}

\* The calls and the response that manageData passes on.
Calls ==
    /\ rpc \in {"idle", "wait", "leave"}
    /\ listener \in Peer \cup {None}
    /\ async \in Seq(Response)
    /\ Len(async) <= 1
    /\ requests \in [Peer -> 0..PerPeer]
    /\ pending \in SUBSET Response
    /\ strays \in 0..Unasked
    /\ parcel \in Response \cup {Nothing}
    /\ answer \in Response \cup {Nothing}
    /\ mpc = "send" => parcel \in Response
    /\ AnswerFromAsked

Data ==
    /\ peerData \in Seq(Parcels)
    /\ Len(peerData) <= DataCap

\* The read loop: a hash is as old in the filter as its last message.
Reading ==
    /\ reading \in Message \cup {Other, NoParcel}
    /\ parcels \in 0..MaxParcels
    /\ alive \in BOOLEAN
    /\ since = age

\* The message on its way to the application.
App ==
    /\ mpc \in {"idle", "send", "check", "take", "retry"}
    /\ fromNetwork \in Seq(Message)
    /\ Len(fromNetwork) <= FromCap
    /\ message \in Message \cup {NoParcel}
    /\ mpc \in {"check", "take", "retry"} => message \in Message
    /\ got \in SUBSET Message

ReceiveInv == CacheInv /\ Calls /\ Data /\ Reading /\ App

LEMMA ReceiveInvTypes == ReceiveInv => ReceiveTypeOK
  <1> SUFFICES ASSUME ReceiveInv PROVE ReceiveTypeOK
    OBVIOUS
  <1>1. CacheTypeOK /\ since \in [Hash -> 0..Buckets]
    BY DEF ReceiveInv, CacheInv, CacheTypeOK, Reading
  <1> QED
    BY <1>1 DEF ReceiveInv, ReceiveTypeOK, Calls, Data, Reading, App, Parcels

(* The type of a parcel tells where it comes from. *)
LEMMA ByType ==
    /\ \A x \in Parcels : x.type = "PeerResponse" => x \in Response
    /\ \A x \in Parcels : x.type = "Message" => x \in Message
    /\ \A x \in Response : x.from \in Peer
  BY DEF Parcels, Response, ResponseOf, Message, Other

LEMMA ReceiveInitInv == ReceiveInit => ReceiveInv
  <1> SUFFICES ASSUME ReceiveInit PROVE ReceiveInv
    OBVIOUS
  <1>1. CacheInv
    BY CacheInitInv DEF ReceiveInit
  <1>2. Calls
    BY ShareAssumption DEF ReceiveInit, Init, Calls, AnswerFromAsked
  <1>3. Data
    BY ShareAssumption DEF ReceiveInit, Init, Data
  <1>4. Reading
    BY ReceiveAssumption DEF ReceiveInit, CacheInit, Reading
  <1>5. App
    BY ReceiveAssumption DEF ReceiveInit, Init, App
  <1> QED
    BY <1>1, <1>2, <1>3, <1>4, <1>5 DEF ReceiveInv

-----------------------------------------------------------------------------
(* What the parts need of a step. *)
LEMMA CallsStay ==
    ASSUME Calls, UNCHANGED callVars, mpc' = "send" => mpc = "send" PROVE Calls'
  BY DEF Calls, callVars, AnswerFromAsked

LEMMA DataGrows == ASSUME Data, NEW x \in Parcels, Deliver(x) PROVE Data'
  <1>1. /\ Append(peerData, x) \in Seq(Parcels)
        /\ Len(Append(peerData, x)) = Len(peerData) + 1
        /\ Len(peerData) \in Nat
    BY AppendProperties, LenProperties DEF Data
  <1> QED
    BY <1>1, ShareAssumption DEF Data, Deliver

LEMMA DataShrinks ==
    ASSUME Data, peerData # <<>>, peerData' = Tail(peerData)
    PROVE  Data' /\ Head(peerData) \in Parcels
  <1>1. /\ Head(peerData) \in Parcels /\ Tail(peerData) \in Seq(Parcels)
        /\ Len(Tail(peerData)) = Len(peerData) - 1 /\ Len(peerData) \in Nat
    BY HeadTailProperties, LenProperties DEF Data
  <1> QED
    BY <1>1, ShareAssumption DEF Data

LEMMA ReadingStays == ASSUME Reading, UNCHANGED <<readVars, age>> PROVE Reading'
  BY DEF Reading, readVars

LEMMA AppStays ==
    ASSUME App, UNCHANGED appVars, mpc' \in {"idle", "send", mpc} PROVE App'
  BY DEF App, appVars

(* The composition implements the filter: every step is one of the filter's or *)
(* leaves it alone.                                                            *)
LEMMA FilterStep == [ReceiveNext]_receiveVars => [CacheNext]_cacheVars
  <1> SUFFICES ASSUME [ReceiveNext]_receiveVars PROVE [CacheNext]_cacheVars
    OBVIOUS
  <1>1. ASSUME NEW m \in Message, ReadMessage(m) PROVE CacheNext
    <2>1. m.hash \in Hash
      BY DEF Message
    <2> QED
      BY <1>1, <2>1 DEF ReadMessage, CacheNext
  <1>2. CASE PeerStops
    BY <1>2 DEF PeerStops, CacheNext
  <1>3. CASE UseFilter
    BY <1>3 DEF UseFilter, CacheNext
  <1>4. CASE TurnFilter
    BY <1>4 DEF TurnFilter, CacheNext
  <1>5. CASE \/ ReadOther \/ HandshakeRequest \/ DeliverParcel \/ DeliverGivesUp \/ ReadResponse
             \/ ManageData \/ AppReads \/ Call \/ UNCHANGED receiveVars
    <2>1. UNCHANGED cacheVars
      BY <1>5 DEF ReadOther, HandshakeRequest, DeliverParcel, DeliverGivesUp, ReadResponse,
         ManageData, HandleOther, HandleResponse, HandleMessage, DropCheck, DropTake, SendAgain,
         AppReads, Call, receiveVars
    <2> QED
      BY <2>1
  <1> QED
    BY <1>1, <1>2, <1>3, <1>4, <1>5 DEF ReceiveNext

-----------------------------------------------------------------------------
(* The read loop. *)
LEMMA ReadLoopInv ==
    ASSUME ReceiveInv, CacheInv',
           \/ \E m \in Message : ReadMessage(m)
           \/ ReadOther \/ HandshakeRequest \/ DeliverParcel \/ DeliverGivesUp \/ PeerStops
    PROVE  ReceiveInv'
  <1> USE DEF ReceiveInv
  <1>1. ASSUME Read PROVE parcels' \in 0..MaxParcels
    BY <1>1, ReceiveAssumption DEF Read, Reading
  <1>2. ASSUME UNCHANGED shareVars PROVE Calls' /\ Data'
    BY <1>2, CallsStay DEF shareVars, vars, callVars, Data
  <1>3. ASSUME NEW m \in Message, ReadMessage(m) PROVE ReceiveInv'
    <2>1. since' = age'
      BY <1>3 DEF ReadMessage, Add, Reading
    <2>2. Reading'
      BY <1>1, <1>3, <2>1 DEF ReadMessage, Reading
    <2>3. App'
      BY <1>3, AppStays DEF ReadMessage, shareVars, vars
    <2> QED
      BY <1>2, <1>3, <2>2, <2>3 DEF ReadMessage
  <1>4. CASE ReadOther
    <2>1. Reading'
      BY <1>1, <1>4 DEF ReadOther, Reading, cacheVars
    <2>2. App'
      BY <1>4, AppStays DEF ReadOther, shareVars, vars
    <2> QED
      BY <1>2, <1>4, <2>1, <2>2 DEF ReadOther
  <1>5. CASE HandshakeRequest
    <2>1. parcels' \in 0..MaxParcels
      BY <1>5, ReceiveAssumption DEF HandshakeRequest, Reading
    <2>2. Data'
      BY <1>5, DataGrows DEF HandshakeRequest, Parcels
    <2>3. Reading'
      BY <1>5, <2>1 DEF HandshakeRequest, Reading, cacheVars
    <2>4. Calls' /\ App'
      BY <1>5, CallsStay, AppStays DEF HandshakeRequest
    <2> QED
      BY <2>2, <2>3, <2>4
  <1>6. CASE DeliverParcel
    <2>1. reading \in Parcels
      BY <1>6 DEF DeliverParcel, Reading, Parcels
    <2>2. Data'
      BY <1>6, <2>1, DataGrows DEF DeliverParcel
    <2>3. Reading'
      BY <1>6 DEF DeliverParcel, Reading, cacheVars
    <2>4. Calls' /\ App'
      BY <1>6, CallsStay, AppStays DEF DeliverParcel
    <2> QED
      BY <2>2, <2>3, <2>4
  <1>7. CASE DeliverGivesUp
    <2>1. Reading'
      BY <1>7 DEF DeliverGivesUp, Reading, cacheVars
    <2>2. App'
      BY <1>7, AppStays DEF DeliverGivesUp, shareVars, vars
    <2> QED
      BY <1>2, <1>7, <2>1, <2>2 DEF DeliverGivesUp
  <1>8. CASE PeerStops
    <2>1. Reading'
      BY <1>8 DEF PeerStops, Reading, CacheStop
    <2>2. App'
      BY <1>8, AppStays DEF PeerStops, shareVars, vars
    <2> QED
      BY <1>2, <1>8, <2>1, <2>2 DEF PeerStops
  <1> QED
    BY <1>3, <1>4, <1>5, <1>6, <1>7, <1>8

LEMMA ReadResponseInv == ASSUME ReceiveInv, CacheInv', ReadResponse PROVE ReceiveInv'
  <1> USE DEF ReceiveInv
  <1>1. Reading' /\ UNCHANGED <<rpc, listener, async, requests, mpc, parcel, answer>>
    BY ReadingStays DEF ReadResponse, Stray, Respond, cacheVars
  <1>2. App'
    BY <1>1, AppStays DEF ReadResponse
  <1>3. AnswerFromAsked'
    BY <1>1 DEF AnswerFromAsked, Calls
  <1>4. ASSUME NEW p \in Peer, Stray(p) PROVE Calls' /\ Data'
    <2>1. ResponseOf(p, 0) \in Parcels
      BY ShareAssumption DEF Response, Parcels
    <2>2. Data'
      BY <1>4, <2>1, DataGrows DEF Stray
    <2>3. strays' \in 0..Unasked /\ pending' = pending
      BY <1>4, ShareAssumption DEF Stray, Calls
    <2> QED
      BY <1>1, <1>3, <2>2, <2>3 DEF Calls
  <1>5. ASSUME NEW r \in pending, Respond(r) PROVE Calls' /\ Data'
    <2>1. r \in Parcels
      BY DEF Calls, Parcels
    <2>2. Data'
      BY <1>5, <2>1, DataGrows DEF Respond
    <2>3. pending' \in SUBSET Response /\ strays' = strays
      BY <1>5 DEF Respond, Calls
    <2> QED
      BY <1>1, <1>3, <2>2, <2>3 DEF Calls
  <1> QED
    BY <1>1, <1>2, <1>4, <1>5 DEF ReadResponse

-----------------------------------------------------------------------------
(* The calls. *)
LEMMA CallInv == ASSUME ReceiveInv, CacheInv', Call PROVE ReceiveInv'
  <1> USE DEF ReceiveInv
  <1>1. Reading'
    BY ReadingStays DEF Call, cacheVars
  <1>2. UNCHANGED <<peerData, mpc, parcel, strays>>
    BY DEF Call, Request, Answered, TimedOut, Leave
  <1>3. Data' /\ App'
    BY <1>2, AppStays DEF Data, Call
  <1>4. ASSUME NEW p \in Peer, Request(p) PROVE Calls'
    <2>1. requests[p] \in 0..PerPeer /\ requests[p] < PerPeer
      BY <1>4 DEF Request, Calls
    <2>2. requests[p] + 1 \in 0..PerPeer
      BY <2>1, ShareAssumption
    <2>3. requests' \in [Peer -> 0..PerPeer]
      BY <1>4, <2>2 DEF Request, Calls
    <2>4. pending' \in SUBSET Response
      BY <1>4, <2>2 DEF Request, Calls, Response
    <2>5. AnswerFromAsked'
      BY <1>2, <1>4 DEF Request, AnswerFromAsked, ReadLocked
    <2> QED
      BY <1>2, <1>4, <2>3, <2>4, <2>5 DEF Request, Calls
  <1>5. ASSUME Answered PROVE Calls'
    <2>1. /\ Head(async) \in Response /\ Tail(async) \in Seq(Response)
          /\ Len(Tail(async)) = 0 /\ Head(async) = async[1] /\ 1 \in 1..Len(async)
      <3>1. async \in Seq(Response) /\ async # <<>> /\ Len(async) <= 1
        BY <1>5 DEF Answered, Calls
      <3>2. Len(async) = 1
        BY <3>1, EmptySeq, LenProperties
      <3> QED
        BY <3>1, <3>2, HeadTailProperties
    <2>2. Head(async).from = listener
      BY <2>1 DEF Calls, AnswerFromAsked
    <2>3. AnswerFromAsked'
      BY <1>2, <1>5, <2>1, <2>2 DEF Answered, AnswerFromAsked, Calls
    <2> QED
      BY <1>2, <1>5, <2>1, <2>3 DEF Answered, Calls
  <1>6. ASSUME TimedOut PROVE Calls'
    <2>1. AnswerFromAsked'
      BY <1>2, <1>6 DEF TimedOut, Calls, AnswerFromAsked
    <2> QED
      BY <1>2, <1>6, <2>1 DEF TimedOut, Calls
  <1>7. ASSUME Leave PROVE Calls'
    <2>1. AnswerFromAsked'
      BY <1>2, <1>7 DEF Leave, AnswerFromAsked, ReadLocked
    <2>2. <<>> \in Seq(Response) /\ Len(<<>>) = 0
      BY EmptySeq
    <2> QED
      BY <1>2, <1>7, <2>1, <2>2 DEF Leave, Calls
  <1> QED
    BY <1>1, <1>3, <1>4, <1>5, <1>6, <1>7 DEF Call

-----------------------------------------------------------------------------
(* manageData and the application. *)
LEMMA HandleResponseInv == ASSUME ReceiveInv, CacheInv', HandleResponse PROVE ReceiveInv'
  <1> USE DEF ReceiveInv
  <1>1. Reading'
    BY ReadingStays DEF HandleResponse, cacheVars
  <1>2. CASE Handle
    <2>1. Data' /\ Head(peerData) \in Response
      BY <1>2, DataShrinks, ByType DEF Handle, Take
    <2>2. mpc = "idle" /\ UNCHANGED <<rpc, listener, async, requests, pending, strays, answer>>
      BY <1>2 DEF Handle, Take
    <2>3. \/ mpc' = "send" /\ parcel' = Head(peerData) /\ listener = Head(peerData).from
          \/ UNCHANGED <<mpc, parcel>>
      BY <1>2 DEF Handle
    <2>4. Calls'
      BY <2>1, <2>2, <2>3 DEF Calls, AnswerFromAsked
    <2>5. App'
      BY <2>3, AppStays DEF HandleResponse
    <2> QED
      BY <1>1, <2>1, <2>4, <2>5
  <1>3. CASE PassOn
    <2>1. parcel \in Response /\ parcel.from = listener
      BY <1>3 DEF PassOn, Calls, AnswerFromAsked
    <2>2. <<parcel>> \in Seq(Response) /\ Len(<<parcel>>) = 1 /\ <<parcel>>[1] = parcel
      BY <2>1
    <2>3. \A i \in 1..Len(<<parcel>>) : <<parcel>>[i].from = listener
      BY <2>1, <2>2
    <2>4. Calls'
      BY <1>3, <2>2, <2>3 DEF PassOn, Calls, AnswerFromAsked
    <2>5. Data' /\ App'
      BY <1>3, AppStays DEF PassOn, Data, HandleResponse
    <2> QED
      BY <1>1, <2>4, <2>5
  <1> QED
    BY <1>2, <1>3 DEF HandleResponse

LEMMA HandleOtherInv == ASSUME ReceiveInv, CacheInv', HandleOther PROVE ReceiveInv'
  <1> USE DEF ReceiveInv
  <1>1. Data'
    BY DataShrinks DEF HandleOther, Take
  <1>2. Calls' /\ App' /\ Reading'
    BY CallsStay, AppStays, ReadingStays DEF HandleOther, cacheVars
  <1> QED
    BY <1>1, <1>2

(* What a send on fromNetwork and a receive from it do to the channel. *)
LEMMA FromGrows ==
    ASSUME App, NEW m \in Message, Len(fromNetwork) < FromCap
    PROVE  Append(fromNetwork, m) \in Seq(Message) /\ Len(Append(fromNetwork, m)) <= FromCap
  <1>1. /\ Append(fromNetwork, m) \in Seq(Message)
        /\ Len(Append(fromNetwork, m)) = Len(fromNetwork) + 1
        /\ Len(fromNetwork) \in Nat
    BY AppendProperties, LenProperties DEF App
  <1> QED
    BY <1>1, ReceiveAssumption

LEMMA FromShrinks ==
    ASSUME App, fromNetwork # <<>>
    PROVE  /\ Head(fromNetwork) \in Message /\ Tail(fromNetwork) \in Seq(Message)
           /\ Len(Tail(fromNetwork)) <= FromCap
  <1>1. /\ Head(fromNetwork) \in Message /\ Tail(fromNetwork) \in Seq(Message)
        /\ Len(Tail(fromNetwork)) = Len(fromNetwork) - 1 /\ Len(fromNetwork) \in Nat
    BY HeadTailProperties, LenProperties DEF App
  <1> QED
    BY <1>1, ReceiveAssumption DEF App

LEMMA MessageInv ==
    ASSUME ReceiveInv, CacheInv', HandleMessage \/ DropCheck \/ DropTake \/ SendAgain \/ AppReads
    PROVE  ReceiveInv'
  <1> USE DEF ReceiveInv
  <1>1. Reading'
    BY ReadingStays DEF HandleMessage, DropCheck, DropTake, SendAgain, AppReads, cacheVars
  <1>2. Calls'
    BY CallsStay DEF HandleMessage, Take, DropCheck, DropTake, SendAgain, AppReads,
       shareVars, vars, callVars
  <1>3. CASE HandleMessage
    <2>1. Data' /\ Head(peerData) \in Message
      BY <1>3, DataShrinks, ByType DEF HandleMessage, Take
    <2>2. mpc = "idle" /\ got' = got
      BY <1>3 DEF HandleMessage, Take
    <2>3. CASE Len(fromNetwork) < FromCap
      <3>1. fromNetwork' = Append(fromNetwork, Head(peerData)) /\ UNCHANGED <<mpc, message>>
        BY <1>3, <2>3 DEF HandleMessage
      <3> QED
        BY <1>1, <1>2, <2>1, <2>2, <2>3, <3>1, FromGrows DEF App
    <2>4. CASE ~(Len(fromNetwork) < FromCap)
      <3>1. mpc' = "check" /\ message' = Head(peerData) /\ UNCHANGED fromNetwork
        BY <1>3, <2>4 DEF HandleMessage
      <3> QED
        BY <1>1, <1>2, <2>1, <2>2, <3>1 DEF App
    <2> QED
      BY <2>3, <2>4
  <1>4. CASE DropCheck
    BY <1>1, <1>2, <1>4 DEF DropCheck, App, Data, appVars
  <1>5. CASE DropTake
    BY <1>1, <1>2, <1>5, FromShrinks DEF DropTake, App, Data
  <1>6. CASE SendAgain
    <2>1. message \in Message
      BY <1>6 DEF SendAgain, App
    <2>2. fromNetwork' \in Seq(Message) /\ Len(fromNetwork') <= FromCap
      BY <1>6, <2>1, FromGrows DEF SendAgain, App
    <2> QED
      BY <1>1, <1>2, <1>6, <2>2 DEF SendAgain, App, Data
  <1>7. CASE AppReads
    BY <1>1, <1>2, <1>7, FromShrinks DEF AppReads, App, Data, shareVars, vars
  <1> QED
    BY <1>3, <1>4, <1>5, <1>6, <1>7

-----------------------------------------------------------------------------
LEMMA ReceiveNextInv == ReceiveInv /\ [ReceiveNext]_receiveVars => ReceiveInv'
  <1> SUFFICES ASSUME ReceiveInv, [ReceiveNext]_receiveVars PROVE ReceiveInv'
    OBVIOUS
  <1>1. CacheInv'
    BY FilterStep, CacheNextInv DEF ReceiveInv
  <1>2. CASE \/ \E m \in Message : ReadMessage(m)
             \/ ReadOther \/ HandshakeRequest \/ DeliverParcel \/ DeliverGivesUp \/ PeerStops
    BY <1>1, <1>2, ReadLoopInv
  <1>3. CASE ReadResponse
    BY <1>1, <1>3, ReadResponseInv
  <1>4. CASE ManageData \/ AppReads
    BY <1>1, <1>4, HandleOtherInv, HandleResponseInv, MessageInv DEF ManageData
  <1>5. CASE Call
    BY <1>1, <1>5, CallInv
  <1>6. ASSUME UNCHANGED <<shareVars, appVars>>, Reading' PROVE ReceiveInv'
    <2>1. Calls' /\ Data' /\ App'
      BY <1>6, CallsStay, AppStays DEF ReceiveInv, shareVars, vars, callVars, Data
    <2> QED
      BY <1>1, <1>6, <2>1 DEF ReceiveInv
  <1>7. CASE UseFilter
    <2>1. age' = age
      BY <1>7 DEF UseFilter, HasStep, HasBegin, CleanupEnds
    <2>2. Reading'
      BY <1>7, <2>1, ReadingStays DEF UseFilter, ReceiveInv
    <2> QED
      BY <1>6, <1>7, <2>2 DEF UseFilter
  <1>8. CASE TurnFilter
    <2>1. since' = age'
      BY <1>8 DEF TurnFilter, DropOldestBucket, Older, ReceiveInv, Reading
    <2>2. Reading'
      BY <1>8, <2>1 DEF TurnFilter, ReceiveInv, Reading
    <2> QED
      BY <1>6, <1>8, <2>2 DEF TurnFilter
  <1>9. CASE UNCHANGED receiveVars
    <2>1. Reading'
      BY <1>9, ReadingStays DEF receiveVars, cacheVars, ReceiveInv
    <2> QED
      BY <1>6, <1>9, <2>1 DEF receiveVars
  <1> QED
    BY <1>2, <1>3, <1>4, <1>5, <1>7, <1>8, <1>9 DEF ReceiveNext

LEMMA ReceiveInvAlways == ReceiveSpec => []ReceiveInv
  BY ReceiveInitInv, ReceiveNextInv, PTL DEF ReceiveSpec

\* The read loop, the calls, manageData and the application use the filter as it
\* is meant to be used: what they do to it is a behaviour of the filter on its own
\* (peer.go, readLoop and Stop; controller_routing.go, route).
THEOREM ReceiveImplementsCache == ReceiveSpec => CacheSpec
  <1>1. ReceiveInit => CacheInit
    BY DEF ReceiveInit
  <1> QED
    BY <1>1, FilterStep, PTL DEF ReceiveSpec, CacheSpec

\* The channels to manageData, to a call and to the application are never over
\* their capacity, for any capacities and number of peers (controller_routing.go,
\* manageData; parcelChannel.go, Send).
THEOREM ReceiveTypeCorrect == ReceiveSpec => []ReceiveTypeOK
  BY ReceiveInvAlways, ReceiveInvTypes, PTL

\* A call gets only responses of the peer it asked, whatever responses arrive late
\* or unasked (controller_routing.go, manageData; controller_cat.go,
\* asyncPeerRequest).
THEOREM AnswersAlwaysFromAsked == ReceiveSpec => []AnswerFromAsked
  <1>1. ReceiveInv => AnswerFromAsked
    BY DEF ReceiveInv, Calls
  <1> QED
    BY <1>1, ReceiveInvAlways, PTL

\* The filter knows a message before manageData or the application can have it, and
\* for as long as it is meant to remember (peer.go, readLoop).
THEOREM SeenAlwaysFiltered == ReceiveSpec => []SeenIsFiltered
  <1>1. ReceiveInv => SeenIsFiltered
    <2> SUFFICES ASSUME ReceiveInv, NEW m \in Message
                 PROVE  Held(m.hash) \/ since[m.hash] = Buckets
      BY DEF SeenIsFiltered
    <2>1. m.hash \in Hash
      BY DEF Message
    <2>2. age[m.hash] \in 0..Buckets /\ since[m.hash] = age[m.hash]
      BY <2>1 DEF ReceiveInv, CacheInv, CacheTypeOK, Reading
    <2>3. Held(m.hash) <=> age[m.hash] < Buckets
      BY <2>1, PlacedGivesWindow DEF ReceiveInv, CacheInv, Window
    <2> QED
      BY <2>2, <2>3, BucketsAssumption
  <1> QED
    BY <1>1, ReceiveInvAlways, PTL

=============================================================================
