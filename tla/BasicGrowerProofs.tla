-------------------------- MODULE BasicGrowerProofs -------------------------
(***************************************************************************)
(* A pool with a BasicGrower is a ptrpool.Pool, and grows by what it has   *)
(* pulled: proofs for any number of seconds, users, values and growths.    *)
(***************************************************************************)
EXTENDS BasicGrower, PtrPoolCountProofs

(***************************************************************************)
(* Arithmetic of the integer division by the seconds of a period.          *)
(***************************************************************************)
LEMMA DivBounds ==
  ASSUME NEW x \in Nat, NEW s \in Nat \ {0}
  PROVE  /\ x \div s \in Nat
         /\ s * (x \div s) <= x /\ x < s * ((x \div s) + 1)
OBVIOUS

LEMMA DivLeast ==
  ASSUME NEW x \in Nat, NEW s \in Nat \ {0}, NEW q \in Nat, s * q <= x
  PROVE  q <= x \div s
<1> DEFINE d == x \div s
<1>1. d \in Nat /\ x < s * (d + 1)
  BY DivBounds
<1> HIDE DEF d
<1>2. SUFFICES ASSUME q >= d + 1 PROVE FALSE
  BY <1>1 DEF d
<1>3. PICK k \in Nat : q = (d + 1) + k
  <2>1. q - (d + 1) \in Nat /\ q = (d + 1) + (q - (d + 1))
    BY <1>1, <1>2
  <2> QED BY <2>1
<1>4. s * q = s * (d + 1) + s * k /\ s * k >= 0
  BY <1>1, <1>3
<1> QED BY <1>1, <1>4

\* Growths that are rounded down add up to no more than the sum rounded down.
LEMMA DivAdd ==
  ASSUME NEW x \in Nat, NEW y \in Nat, NEW s \in Nat \ {0}
  PROVE  /\ x \div s \in Nat /\ y \div s \in Nat /\ (x + y) \div s \in Nat
         /\ (x \div s) + (y \div s) <= (x + y) \div s
<1> DEFINE p == x \div s
           q == y \div s
<1>1. p \in Nat /\ q \in Nat /\ s * p <= x /\ s * q <= y /\ (x + y) \div s \in Nat
  BY DivBounds
<1> HIDE DEF p, q
<1>2. s * (p + q) <= x + y
  <2>1. s * (p + q) = s * p + s * q /\ s * p \in Nat /\ s * q \in Nat
    BY <1>1
  <2> QED BY <1>1, <2>1
<1>3. p + q <= (x + y) \div s
  BY <1>1, <1>2, DivLeast
<1> QED BY <1>1, <1>3 DEF p, q

(***************************************************************************)
(* The inductive invariant: the growth so far is covered by the pulls that *)
(* have been measured, the ones since then are still to come.              *)
(***************************************************************************)
Grown == settings.base + lastPulls \div Secs

GrowthInv ==
  Basic =>
    /\ lastPulls \in Nat /\ lastPulls <= stats["SyncPoolAllocated"]
    /\ target <= Grown
    /\ freelist # Nil => capacity[freelist] <= Grown

LEMMA GrowthInit == BasicInit => GrowthInv
<1> SUFFICES ASSUME BasicInit PROVE GrowthInv
  OBVIOUS
<1>1. settings.base \in Nat
  BY ValidBase DEF BasicInit, Init
<1>2. /\ lastPulls = 0 /\ stats["SyncPoolAllocated"] = 0 /\ target = 0
      /\ freelist # Nil => capacity[freelist] = settings.base
  BY BoundsAssumption DEF BasicInit, Init, StatNames, Chans, Nil
<1>3. Grown >= settings.base /\ Grown \in Nat
  <2>1. lastPulls \div Secs \in Nat
    BY <1>2, BasicAssumption, DivBounds
  <2> QED BY <1>1, <2>1 DEF Grown
<1> QED BY <1>1, <1>2, <1>3 DEF GrowthInv

\* The steps that only add to the counters.
LEMMA GrowthStays ==
  ASSUME TypeOK, TypeOK', GrowthInv,
         UNCHANGED <<settings, freelist, capacity, target, lastPulls>>,
         stats'["SyncPoolAllocated"] >= stats["SyncPoolAllocated"]
  PROVE  GrowthInv'
<1>1. stats["SyncPoolAllocated"] \in Int /\ stats'["SyncPoolAllocated"] \in Int
  BY DEF TypeOK, StatNames
<1> QED BY <1>1 DEF GrowthInv, Basic, Grown

LEMMA GrowthUser ==
  ASSUME TypeOK, TypeOK', GrowthInv, NEW u \in Users,
         GetLoad(u) \/ Get(u) \/ UserWrites(u) \/ Put(u)
  PROVE  GrowthInv'
<1>0. stats \in [StatNames -> Int]
  BY DEF TypeOK
<1>1. UNCHANGED <<settings, freelist, capacity, target, lastPulls>>
  BY DEF GetLoad, Get, Put, UserWrites, GetReceive, GetDefault, GetTick, SyncPoolHit,
         CallNewer, GetCount, PutReset, PutCount, PutLoad, PutSend, Count, poolVars,
         growerVars
<1>2. stats'["SyncPoolAllocated"] >= stats["SyncPoolAllocated"]
  <2>1. CASE GetCount(u) \/ PutCount(u)
    BY <1>0, <2>1 DEF GetCount, PutCount, Count, StatNames
  <2>2. CASE ~(GetCount(u) \/ PutCount(u))
    <3>1. stats' = stats
      BY <2>2 DEF GetLoad, Get, Put, UserWrites, GetReceive, GetDefault, GetTick,
                  SyncPoolHit, CallNewer, PutReset, PutLoad, PutSend
    <3> QED BY <1>0, <3>1 DEF StatNames
  <2> QED BY <2>1, <2>2
<1> QED BY <1>1, <1>2, GrowthStays

\* The Grower answers with no more than the capacity and the pulls per second.
LEMMA GrowthTick ==
  ASSUME TypeOK, GrowthInv, BasicMeasure
  PROVE  GrowthInv'
<1>1. Basic /\ UNCHANGED <<settings, freelist, capacity, stats>>
  BY DEF BasicMeasure, Tick, poolVars
<1>2. CASE freelist = Nil
  <2>1. UNCHANGED <<lastPulls, target>>
    BY <1>2 DEF BasicMeasure, Tick
  <2> QED BY <1>1, <2>1 DEF GrowthInv, Basic, Grown
<1>3. CASE freelist # Nil
  <2> DEFINE size == capacity[freelist]
             v    == Answer(size)
             new  == stats["SyncPoolAllocated"]
  <2>1. /\ lastPulls' = new /\ target' = NewSize(v, size)
        /\ settings' = settings
    BY <1>1, <1>3 DEF BasicMeasure, Tick
  <2>2. /\ size \in Nat /\ lastPulls \in Nat /\ new \in Int /\ lastPulls <= new
        /\ settings.base \in Nat /\ settings.maximum \in Int
        /\ size <= settings.base + lastPulls \div Secs
    <3>1. size \in Nat /\ new \in Int
      BY <1>3 DEF TypeOK, StatNames
    <3>2. settings.base \in Nat /\ settings.maximum \in Int
      BY ValidBase, SettingsAssumption DEF TypeOK
    <3> QED BY <1>1, <1>3, <3>1, <3>2 DEF GrowthInv, Grown
  <2>3. PoolPulls \in Nat /\ lastPulls + PoolPulls = new /\ new \in Nat
    BY <2>2 DEF PoolPulls
  <2>4. /\ lastPulls \div Secs \in Nat /\ PoolPulls \div Secs \in Nat
        /\ new \div Secs \in Nat
        /\ (lastPulls \div Secs) + (PoolPulls \div Secs) <= new \div Secs
    BY <2>2, <2>3, BasicAssumption, DivAdd
  <2>5. v \in Int /\ v <= size + PoolPulls \div Secs
    <3>1. size \div 10 \in Nat
      BY <2>2, DivBounds
    <3> QED BY <2>2, <2>3, <2>4, <3>1 DEF Answer
  <2>6. v <= settings.base + new \div Secs /\ size <= settings.base + new \div Secs
    <3> HIDE DEF v, size, new
    <3> QED BY <2>2, <2>4, <2>5
  <2>7. target' <= settings.base + new \div Secs
    <3> HIDE DEF v, size, new
    <3> QED BY <2>1, <2>2, <2>4, <2>5, <2>6 DEF NewSize, Nil
  <2> QED BY <1>1, <2>1, <2>3, <2>6, <2>7 DEF GrowthInv, Basic, Grown
<1> QED BY <1>2, <1>3

LEMMA GrowthOther ==
  ASSUME TypeOK, TypeOK', GrowthInv, SyncPoolGC \/ Growth \/ GrowerExit \/ Close
  PROVE  GrowthInv'
<1>1. ASSUME SyncPoolGC \/ DrainReceive \/ DrainSend \/ DrainEnd \/ GrowerExit \/ Close
      PROVE  GrowthInv'
  <2>1. UNCHANGED <<settings, freelist, capacity, target, lastPulls, stats>>
    BY <1>1 DEF SyncPoolGC, DrainReceive, DrainSend, DrainEnd, GrowerExit, Close, poolVars,
                growerVars
  <2> QED BY <2>1 DEF GrowthInv, Basic, Grown
<1>2. ASSUME GrowthSwap PROVE GrowthInv'
  <2>1. /\ freelist \in 1 .. MaxGrowths /\ freelist' = freelist + 1 /\ target' = 0
        /\ capacity' = [capacity EXCEPT ![freelist + 1] = target]
        /\ UNCHANGED <<settings, stats, lastPulls>>
    BY <1>2 DEF GrowthSwap, TypeOK, poolVars, Nil
  <2>2. capacity'[freelist'] = target
    BY <2>1, BoundsAssumption DEF TypeOK, Chans
  <2>3. target \in Nat
    BY DEF TypeOK
  <2>4. Basic => lastPulls \div Secs \in Nat
    BY BasicAssumption, DivBounds DEF GrowthInv
  <2>5. settings.base \in Nat
    BY ValidBase DEF TypeOK
  <2> QED BY <2>1, <2>2, <2>3, <2>4, <2>5 DEF GrowthInv, Basic, Grown
<1> QED BY <1>1, <1>2 DEF Growth

LEMMA GrowthNext ==
  ASSUME TypeOK, TypeOK', GrowthInv, [BasicNext]_basicVars
  PROVE  GrowthInv'
<1>1. CASE BasicMeasure
  BY <1>1, GrowthTick
<1>2. CASE ~Basic /\ GrowthMeasure
  BY <1>2 DEF GrowthMeasure, Tick, poolVars, GrowthInv, Basic
<1>3. CASE UNCHANGED basicVars
  BY <1>3 DEF basicVars, vars, GrowthInv, Basic, Grown
<1> QED BY <1>1, <1>2, <1>3, GrowthUser, GrowthOther DEF BasicNext, PoolSteps

-----------------------------------------------------------------------------
(***************************************************************************)
(* No more is pulled than Gets have been started: each Get pulls once, and *)
(* those that may still pull have not been counted in the counter.         *)
(***************************************************************************)
Pulling == {"select", "sync", "syncUse"}

PullsInv ==
  /\ IsFiniteSet(Busy)
  /\ stats["SyncPoolAllocated"] + Cardinality(At(Pulling)) <= gets

LEMMA PullingPoints == Pulling \in SUBSET (Phases \ {"idle"})
BY DEF Pulling, Phases, Choosing, Pending

LEMMA PullsInit == Init => PullsInv
<1> SUFFICES ASSUME Init PROVE PullsInv
  OBVIOUS
<1>1. Busy = {} /\ At(Pulling) = {}
  BY DEF Init, Busy, At, Pulling
<1>2. stats["SyncPoolAllocated"] = 0 /\ gets = 0
  BY DEF Init, StatNames
<1> QED BY <1>1, <1>2, FS_EmptySet DEF PullsInv

\* A step of user u to another point.
LEMMA PullsStep ==
  ASSUME TypeOK, TypeOK', PullsInv, NEW u \in Users, NEW to \in Phases,
         pc' = [pc EXCEPT ![u] = to],
         stats'["SyncPoolAllocated"] - stats["SyncPoolAllocated"]
           + Ind(to, Pulling) - Ind(pc[u], Pulling) <= gets' - gets
  PROVE  PullsInv'
<1> USE DEF PullsInv
<1>1. pc \in [Users -> Phases]
  BY DEF TypeOK
<1>2. /\ IsFiniteSet(Busy')
      /\ Cardinality(At(Pulling)') = Cardinality(At(Pulling)) + Ind(to, Pulling)
                                       - Ind(pc[u], Pulling)
  BY <1>1, PullingPoints, AtMoves
<1>3. Cardinality(At(Pulling)) \in Nat
  BY PullingPoints, AtFinite
<1>4. /\ stats["SyncPoolAllocated"] \in Int /\ stats'["SyncPoolAllocated"] \in Int
      /\ gets \in Int /\ gets' \in Int
  BY BoundsAssumption DEF TypeOK, StatNames
<1>5. Ind(to, Pulling) \in Int /\ Ind(pc[u], Pulling) \in Int
  BY DEF Ind
<1>6. stats'["SyncPoolAllocated"] + Cardinality(At(Pulling)') <= gets'
  BY <1>2, <1>3, <1>4, <1>5
<1> QED BY <1>2, <1>6

LEMMA PullsUser ==
  ASSUME TypeOK, TypeOK', PullsInv, NEW u \in Users,
         GetLoad(u) \/ Get(u) \/ UserWrites(u) \/ Put(u)
  PROVE  PullsInv'
<1>0. stats \in [StatNames -> Int] /\ gets \in Int /\ gets' \in Int
  BY BoundsAssumption DEF TypeOK
<1>1. CASE GetTick(u) \/ UserWrites(u)
  BY <1>1 DEF GetTick, UserWrites, userVars, PullsInv, Busy, At
<1>2. CASE GetLoad(u)
  <2>1. PICK to \in {"panic", "select"} : pc' = [pc EXCEPT ![u] = to]
    BY <1>2 DEF GetLoad, Goto
  <2>2. to \in Phases /\ Ind(to, Pulling) <= 1 /\ Ind(to, Pulling) \in Int
    BY <2>1 DEF Phases, Choosing, Ind
  <2>3. stats' = stats /\ gets' = gets + 1 /\ Ind(pc[u], Pulling) = 0
    BY <1>2 DEF GetLoad, Ind, Pulling
  <2>4. stats'["SyncPoolAllocated"] - stats["SyncPoolAllocated"] = 0
    BY <1>0, <2>3 DEF StatNames
  <2>5. stats'["SyncPoolAllocated"] - stats["SyncPoolAllocated"]
          + Ind(to, Pulling) - Ind(pc[u], Pulling) <= gets' - gets
    BY <1>0, <2>2, <2>3, <2>4
  <2> QED BY <2>1, <2>2, <2>5, PullsStep
<1>3. CASE Count(u, "syncUse", "SyncPoolAllocated", 1, "syncGet")
  <2>1. pc' = [pc EXCEPT ![u] = "syncGet"] /\ "syncGet" \in Phases
    BY <1>3 DEF Count, Goto, Phases, Pending
  <2>2. /\ Ind("syncGet", Pulling) = 0 /\ Ind(pc[u], Pulling) = 1 /\ gets' = gets
        /\ stats'["SyncPoolAllocated"] = stats["SyncPoolAllocated"] + 1
    BY <1>0, <1>3 DEF Count, Ind, Pulling, StatNames
  <2>3. stats'["SyncPoolAllocated"] - stats["SyncPoolAllocated"]
          + Ind("syncGet", Pulling) - Ind(pc[u], Pulling) <= gets' - gets
    BY <1>0, <2>2 DEF StatNames
  <2> QED BY <2>1, <2>3, PullsStep
<1>4. ASSUME NEW to \in Phases, pc' = [pc EXCEPT ![u] = to], gets' = gets,
             stats'["SyncPoolAllocated"] = stats["SyncPoolAllocated"],
             to \in Pulling => pc[u] \in Pulling
      PROVE  PullsInv'
  <2>1. stats'["SyncPoolAllocated"] - stats["SyncPoolAllocated"] = 0 /\ gets' - gets = 0
    BY <1>0, <1>4 DEF StatNames
  <2>2. /\ Ind(to, Pulling) <= Ind(pc[u], Pulling)
        /\ Ind(to, Pulling) \in Int /\ Ind(pc[u], Pulling) \in Int
    BY <1>4 DEF Ind
  <2>3. stats'["SyncPoolAllocated"] - stats["SyncPoolAllocated"]
          + Ind(to, Pulling) - Ind(pc[u], Pulling) <= gets' - gets
    BY <2>1, <2>2
  <2> QED BY <1>4, <2>3, PullsStep
<1>5. CASE GetReceive(u) \/ GetDefault(u) \/ SyncPoolHit(u) \/ CallNewer(u)
           \/ PutReset(u) \/ PutLoad(u) \/ PutSend(u)
  <2>1. \E to \in {"recv", "sync", "new", "holding", "missAlloc", "put", "panic", "putSend",
                   "idle"} :
          pc' = [pc EXCEPT ![u] = to] /\ (to = "sync" => pc[u] = "select")
    BY <1>5 DEF GetReceive, GetDefault, SyncPoolHit, CallNewer, PutReset, PutLoad, PutSend, Goto
  <2>2. gets' = gets /\ stats' = stats
    BY <1>5 DEF GetReceive, GetDefault, SyncPoolHit, CallNewer, PutReset, PutLoad, PutSend
  <2> QED BY <1>4, <2>1, <2>2 DEF Pulling, Phases, Taken, Pending, Giving
<1>6. CASE \/ Count(u, "recv", "InUse", 1, "recvUse")
           \/ Count(u, "recvUse", "FreelListAllocated", 1, "holding")
           \/ Count(u, "sync", "InUse", 1, "syncUse")
           \/ Count(u, "missAlloc", "NewAlloc", 1, "miss")
           \/ Count(u, "miss", "SyncPoolMiss", 1, "holding")
           \/ Count(u, "new", "InUse", 1, "newUse")
           \/ Count(u, "newUse", "NewAlloc", 1, "newer")
           \/ PutCount(u)
  <2>1. \E to \in {"recvUse", "holding", "syncUse", "miss", "newUse", "newer", "putLoad"} :
          pc' = [pc EXCEPT ![u] = to] /\ (to = "syncUse" => pc[u] = "sync")
    BY <1>6 DEF Count, PutCount, Goto
  <2>2. gets' = gets /\ stats'["SyncPoolAllocated"] = stats["SyncPoolAllocated"]
    BY <1>0, <1>6 DEF Count, PutCount, StatNames
  <2> QED BY <1>4, <2>1, <2>2 DEF Pulling, Phases, Taken, Pending, Giving
<1> QED BY <1>1, <1>2, <1>3, <1>5, <1>6 DEF Get, GetCount, Put

LEMMA PullsNext == TypeOK /\ TypeOK' /\ PullsInv /\ [Next]_vars => PullsInv'
<1> SUFFICES ASSUME TypeOK, TypeOK', PullsInv, [Next]_vars PROVE PullsInv'
  OBVIOUS
<1>1. CASE SyncPoolGC \/ GrowthMeasure \/ Growth \/ GrowerExit \/ Close \/ UNCHANGED vars
  <2>1. UNCHANGED <<pc, stats, gets>>
    BY <1>1 DEF SyncPoolGC, GrowthMeasure, Tick, Growth, GrowthSwap, DrainReceive,
                DrainSend, DrainEnd, GrowerExit, Close, userVars, vars
  <2> QED BY <2>1 DEF PullsInv, Busy, At
<1> QED BY <1>1, PullsUser DEF Next

-----------------------------------------------------------------------------
(***************************************************************************)
(* What a BasicGrower answers is what PtrPool asks of a Grower.            *)
(***************************************************************************)
BasicInv == TypeOK /\ CapacityInv /\ PullsInv /\ GrowthInv

LEMMA BasicInvInit == BasicInit => BasicInv
BY TypeInit, CapacityInit, PullsInit, GrowthInit DEF BasicInit, BasicInv

\* The answer is positive, adds to the size at most the pulls, and is no more than
\* Base and all the pulls there can be, per second.
LEMMA AnswerKept ==
  ASSUME BasicInv, Basic, freelist # Nil
  PROVE  LET Most == settings.base + MaxGets \div Secs
             size == capacity[freelist]
         IN  /\ size \in 1 .. Most /\ PoolPulls \in 0 .. MaxGets
             /\ Answer(size) \in 1 .. Most /\ Answer(size) <= size + PoolPulls
<1> DEFINE Most == settings.base + MaxGets \div Secs
           size == capacity[freelist]
           new  == stats["SyncPoolAllocated"]
           last == lastPulls \div Secs
           more == PoolPulls \div Secs
<1>1. /\ settings.base \in Nat /\ size \in Nat /\ size > 0 /\ MaxGets \in Nat
      /\ Secs \in Nat \ {0} /\ settings \in Settings
  BY ValidBase, BoundsAssumption, BasicAssumption
     DEF BasicInv, TypeOK, CapacityInv, WithinLimits, Nil
<1>2. /\ lastPulls \in Nat /\ new \in Nat /\ lastPulls <= new /\ new <= MaxGets
      /\ size <= settings.base + last
  <2>1. /\ lastPulls \in Nat /\ lastPulls <= new /\ size <= settings.base + last
    BY DEF BasicInv, GrowthInv, Grown
  <2>2. Cardinality(At(Pulling)) \in Nat
    BY PullingPoints, AtFinite DEF BasicInv, PullsInv
  <2>3. new \in Int /\ gets \in 0 .. MaxGets /\ new + Cardinality(At(Pulling)) <= gets
    BY DEF BasicInv, TypeOK, StatNames, PullsInv
  <2> QED BY <1>1, <2>1, <2>2, <2>3
<1>3. PoolPulls \in Nat /\ lastPulls + PoolPulls = new /\ PoolPulls <= MaxGets
  BY <1>1, <1>2 DEF PoolPulls
<1>4. /\ last \in Nat /\ more \in Nat /\ MaxGets \div Secs \in Nat
      /\ last + more <= MaxGets \div Secs
  <2>1. /\ last \in Nat /\ more \in Nat /\ last + more <= new \div Secs
        /\ new \div Secs \in Nat
    BY <1>1, <1>2, <1>3, DivAdd
  <2>2. Secs * (new \div Secs) <= new
    BY <1>1, <1>2, DivBounds
  <2> HIDE DEF last, more
  <2>3. new \div Secs <= MaxGets \div Secs /\ MaxGets \div Secs \in Nat
    <3> DEFINE q == new \div Secs
    <3> HIDE DEF q
    <3>1. Secs * q \in Nat /\ q \in Nat
      BY <1>1, <2>1 DEF q
    <3>2. Secs * q <= MaxGets
      BY <1>1, <1>2, <2>2, <3>1 DEF q
    <3>3. q <= MaxGets \div Secs /\ MaxGets \div Secs \in Nat
      BY <1>1, <3>1, <3>2, DivLeast, DivBounds
    <3> QED BY <3>3 DEF q
  <2> QED BY <2>1, <2>3
<1>5. more <= PoolPulls
  <2> HIDE DEF last
  <2>1. Secs * more <= PoolPulls /\ more \in Nat
    BY <1>1, <1>3, DivBounds
  <2> HIDE DEF more
  <2>2. Secs * more = more + (Secs - 1) * more /\ (Secs - 1) * more \in Nat
    BY <1>1, <2>1
  <2> QED BY <1>3, <2>1, <2>2
<1>6. size \div 10 \in Nat /\ size \div 10 < size
  <2>1. size \div 10 \in Nat /\ 10 * (size \div 10) <= size
    BY <1>1, DivBounds
  <2> HIDE DEF size
  <2> QED BY <1>1, <2>1
<1>7. \/ Answer(size) = size + more \/ Answer(size) = size - size \div 10
      \/ Answer(size) = size
  BY DEF Answer
<1> HIDE DEF last, more, size
<1>8. size \in 1 .. Most /\ Answer(size) \in 1 .. Most /\ Answer(size) <= size + PoolPulls
  BY <1>1, <1>2, <1>3, <1>4, <1>5, <1>6, <1>7
<1> QED BY <1>1, <1>3, <1>8 DEF size

\* A tick of a BasicGrower is one with an answer that a Grower may give.
LEMMA BasicTick ==
  ASSUME BasicInv, BasicMeasure
  PROVE  GrowthMeasure
<1>1. CASE freelist = Nil
  <2>1. PICK v : v \in Answers
    BY AnswersAssumption
  <2>2. Tick(v)
    BY <1>1 DEF BasicMeasure, Tick
  <2> QED BY <1>1, <2>1, <2>2 DEF GrowthMeasure
<1>2. CASE freelist # Nil
  <2> DEFINE v == Answer(capacity[freelist])
  <2>1. v \in Answers /\ Grower(capacity[freelist], PoolPulls, v)
    BY <1>2, AnswerKept, GrowerAssumption DEF BasicMeasure, Basic
  <2>2. Tick(v)
    BY DEF BasicMeasure
  <2> QED BY <2>1, <2>2 DEF GrowthMeasure
<1> QED BY <1>1, <1>2

LEMMA BasicStep == BasicInv /\ [BasicNext]_basicVars => [Next]_vars /\ BasicInv'
<1> SUFFICES ASSUME BasicInv, [BasicNext]_basicVars PROVE [Next]_vars /\ BasicInv'
  OBVIOUS
<1>1. [Next]_vars
  BY BasicTick DEF BasicNext, PoolSteps, Next, basicVars, vars
<1>2. TypeOK /\ TypeOK'
  BY <1>1, TypeNext DEF BasicInv
<1>3. CapacityInv' /\ PullsInv'
  BY <1>1, <1>2, CapacityNext, PullsNext DEF BasicInv
<1> QED BY <1>1, <1>2, <1>3, GrowthNext DEF BasicInv

(***************************************************************************)
(* A pool with a BasicGrower is a ptrpool.Pool: a BasicGrower's answers    *)
(* are those that Grow.Grower may give, positive ones, though it divides,  *)
(* rounds and takes a tenth of whatever size the pool has come to.  So     *)
(* every theorem about PtrPool holds of it.                                *)
(***************************************************************************)
THEOREM BasicIsPool == BasicSpec => Spec
<1>1. BasicInit => Init /\ BasicInv
  BY BasicInvInit DEF BasicInit
<1> QED BY <1>1, BasicStep, PTL DEF BasicSpec, Spec

\* However often it has grown and shrunk, a freelist is larger than its Base by no
\* more than all the pulls from the sync.Pool, per second of a period.
THEOREM GrowthCovered == BasicSpec => []GrowthAccounted
<1>1. BasicInv => TypeOK /\ GrowthInv
  BY DEF BasicInv
<1>2. TypeOK /\ GrowthInv => GrowthAccounted
  <2> SUFFICES ASSUME TypeOK, GrowthInv, Basic
               PROVE  Larger(target, IF freelist = Nil THEN 0 ELSE capacity[freelist])
                        <= settings.base + stats["SyncPoolAllocated"] \div Secs
    BY DEF GrowthAccounted
  <2> DEFINE new == stats["SyncPoolAllocated"]
  <2>1. /\ settings.base \in Nat /\ lastPulls \in Nat /\ new \in Nat
        /\ new - lastPulls \in Nat /\ lastPulls + (new - lastPulls) = new
    BY ValidBase DEF TypeOK, GrowthInv, StatNames
  <2> HIDE DEF new
  <2>2. /\ lastPulls \div Secs \in Nat /\ new \div Secs \in Nat
        /\ lastPulls \div Secs <= new \div Secs
    <3> DEFINE more == new - lastPulls
    <3>1. /\ lastPulls \div Secs \in Nat /\ more \div Secs \in Nat /\ new \div Secs \in Nat
          /\ (lastPulls \div Secs) + (more \div Secs) <= new \div Secs
      BY <2>1, BasicAssumption, DivAdd
    <3> HIDE DEF more
    <3> QED BY <3>1
  <2>3. /\ target \in Nat /\ target <= settings.base + lastPulls \div Secs
        /\ freelist # Nil => /\ capacity[freelist] \in Nat
                             /\ capacity[freelist] <= settings.base + lastPulls \div Secs
    BY DEF TypeOK, GrowthInv, Grown
  <2> QED BY <2>1, <2>2, <2>3 DEF Larger, new
<1> QED BY <1>1, <1>2, BasicInvInit, BasicStep, PTL DEF BasicSpec

=============================================================================
