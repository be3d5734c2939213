------------------------- MODULE PtrPoolCountProofs -------------------------
(***************************************************************************)
(* The counters of ptrpool.Stats, and the population of a pool with        *)
(* DisableAllocs: proofs for any number of users, values, Gets and growths.*)
(***************************************************************************)
EXTENDS PtrPoolProofs, FiniteSetTheorems

\* The users at certain points, those outside the package apart.
At(S) == {u \in Users : pc[u] \in S}
Busy  == At(Phases \ {"idle"})

InUsePoints == (InHand \cup Pending) \ {"recv", "sync", "new", "putLoad", "putSend"}
Uncounted   == {"select", "recv", "recvUse", "sync", "syncUse", "new", "newUse", "panic"}

Sources == TotalAllocated - stats["SyncPoolMiss"]

(***************************************************************************)
(* The inductive invariant.  Only finitely many users have called yet; and *)
(* a put never panics, for without a freelist no Get has returned.         *)
(***************************************************************************)
CountInv ==
  /\ IsFiniteSet(Busy)
  /\ stats["InUse"] = Cardinality(At(InUsePoints))
  /\ gets = Sources - Cardinality(At({"miss"})) + Cardinality(At(Uncounted))
  /\ freelist = Nil => \A u \in Users : pc[u] \in {"idle", "panic"}

LEMMA AtFinite ==
  ASSUME IsFiniteSet(Busy), NEW S \in SUBSET (Phases \ {"idle"})
  PROVE  IsFiniteSet(At(S)) /\ Cardinality(At(S)) \in Nat
<1>1. At(S) \in SUBSET Busy
  BY DEF At, Busy
<1> QED BY <1>1, FS_Subset, FS_CardinalityType

Ind(p, S) == IF p \in S THEN 1 ELSE 0

\* When one user moves, the number of those at some points changes by at most one.
LEMMA AtMoves ==
  ASSUME pc \in [Users -> Phases], IsFiniteSet(Busy), NEW u \in Users, NEW to \in Phases,
         pc' = [pc EXCEPT ![u] = to], NEW S \in SUBSET (Phases \ {"idle"})
  PROVE  /\ IsFiniteSet(Busy')
         /\ Cardinality(At(S)') = Cardinality(At(S)) + Ind(to, S) - Ind(pc[u], S)
<1>1. \A w \in Users : pc'[w] = IF w = u THEN to ELSE pc[w]
  OBVIOUS
<1>2. IsFiniteSet(Busy')
  <2>1. IsFiniteSet(Busy \cup {u})
    BY FS_AddElement
  <2>2. Busy' \in SUBSET (Busy \cup {u})
    BY <1>1 DEF Busy, At
  <2> QED BY <2>1, <2>2, FS_Subset
<1>3. IsFiniteSet(At(S)) /\ Cardinality(At(S)) \in Nat
  BY AtFinite
<1>4. CASE to \in S <=> pc[u] \in S
  <2>1. At(S)' = At(S)
    BY <1>1, <1>4 DEF At
  <2> QED BY <1>2, <1>3, <1>4, <2>1 DEF Ind
<1>5. CASE to \in S /\ pc[u] \notin S
  <2>1. At(S)' = At(S) \cup {u} /\ u \notin At(S)
    BY <1>1, <1>5 DEF At
  <2>2. Cardinality(At(S)') = Cardinality(At(S)) + 1
    BY <1>3, <2>1, FS_AddElement
  <2> QED BY <1>2, <1>3, <1>5, <2>2 DEF Ind
<1>6. CASE to \notin S /\ pc[u] \in S
  <2>1. At(S)' = At(S) \ {u} /\ u \in At(S)
    BY <1>1, <1>6 DEF At
  <2>2. Cardinality(At(S)') = Cardinality(At(S)) - 1
    BY <1>3, <2>1, FS_RemoveElement
  <2> QED BY <1>2, <1>3, <1>6, <2>2 DEF Ind
<1> QED BY <1>4, <1>5, <1>6

LEMMA PointSets ==
  /\ InUsePoints \in SUBSET (Phases \ {"idle"}) /\ {"miss"} \in SUBSET (Phases \ {"idle"})
  /\ Uncounted \in SUBSET (Phases \ {"idle"})
BY DEF InUsePoints, Uncounted, Phases, InHand, Choosing, Taken, Pending, Giving

\* A step of user u to another point, with what it adds to the counters.
LEMMA CountStep ==
  ASSUME TypeOK, TypeOK', CountInv, NEW u \in Users, NEW to \in Phases,
         pc' = [pc EXCEPT ![u] = to], freelist' = freelist,
         freelist = Nil => to = "panic",
         stats'["InUse"] = stats["InUse"] + Ind(to, InUsePoints) - Ind(pc[u], InUsePoints),
         gets' - Sources' = gets - Sources - Ind(to, {"miss"}) + Ind(pc[u], {"miss"})
                              + Ind(to, Uncounted) - Ind(pc[u], Uncounted)
  PROVE  CountInv'
<1> USE DEF CountInv
<1>1. pc \in [Users -> Phases]
  BY DEF TypeOK
<1>2. /\ IsFiniteSet(Busy')
      /\ Cardinality(At(InUsePoints)') = Cardinality(At(InUsePoints)) + Ind(to, InUsePoints)
                                          - Ind(pc[u], InUsePoints)
      /\ Cardinality(At({"miss"})') = Cardinality(At({"miss"})) + Ind(to, {"miss"})
                                       - Ind(pc[u], {"miss"})
      /\ Cardinality(At(Uncounted)') = Cardinality(At(Uncounted)) + Ind(to, Uncounted)
                                        - Ind(pc[u], Uncounted)
  BY <1>1, PointSets, AtMoves
<1>3. /\ Cardinality(At(InUsePoints)) \in Nat /\ Cardinality(At({"miss"})) \in Nat
      /\ Cardinality(At(Uncounted)) \in Nat
  BY PointSets, AtFinite
<1>4. /\ Sources \in Int /\ Sources' \in Int /\ gets \in Int /\ gets' \in Int
      /\ \A S : Ind(to, S) \in Int /\ Ind(pc[u], S) \in Int
  <2>1. gets \in Int /\ gets' \in Int
    BY BoundsAssumption DEF TypeOK
  <2>2. Sources \in Int /\ Sources' \in Int
    <3>1. stats \in [StatNames -> Int] /\ stats' \in [StatNames -> Int]
      BY DEF TypeOK
    <3> QED BY <3>1 DEF Sources, TotalAllocated, StatNames
  <2> QED BY <2>1, <2>2 DEF Ind
<1>5. stats'["InUse"] = Cardinality(At(InUsePoints)')
  BY <1>2
<1>6. gets' = Sources' - Cardinality(At({"miss"})') + Cardinality(At(Uncounted)')
  BY <1>2, <1>3, <1>4
<1>7. freelist' = Nil => \A w \in Users : pc'[w] \in {"idle", "panic"}
  BY <1>1
<1> QED BY <1>2, <1>5, <1>6, <1>7

\* A step that leaves the users where they are and the counters alone.
LEMMA CountStays ==
  ASSUME CountInv, UNCHANGED <<pc, stats, gets>>, freelist' = Nil => freelist = Nil
  PROVE  CountInv'
BY DEF CountInv, Busy, At, Sources, TotalAllocated

LEMMA CountUser ==
  ASSUME TypeOK, TypeOK', CountInv, NEW u \in Users,
         GetLoad(u) \/ Get(u) \/ UserWrites(u) \/ Put(u)
  PROVE  CountInv'
<1> DEFINE Moves(from, to) ==
      /\ pc[u] = from /\ pc' = [pc EXCEPT ![u] = to] /\ freelist' = freelist
<1>0. stats \in [StatNames -> Int] /\ gets \in Int /\ gets' \in Int
  BY BoundsAssumption DEF TypeOK
<1>p. /\ \A p \in (InHand \cup Pending) \ {"recv", "sync", "new", "putLoad", "putSend"} :
           Ind(p, InUsePoints) = 1
      /\ \A p \in {"idle", "panic", "select", "recv", "sync", "new", "putLoad", "putSend"} :
           Ind(p, InUsePoints) = 0
      /\ Ind("miss", {"miss"}) = 1 /\ \A p \in Phases \ {"miss"} : Ind(p, {"miss"}) = 0
      /\ \A p \in Uncounted : Ind(p, Uncounted) = 1
      /\ \A p \in Phases \ Uncounted : Ind(p, Uncounted) = 0
  BY DEF Ind, InUsePoints, InHand, Pending, Taken, Giving
<1> USE DEF InHand, Taken, Pending, Giving, Uncounted
<1>a. \A p \in Choosing \cup Taken \cup Pending \cup Giving \cup {"holding", "panic"} : p \in Phases
  BY DEF Phases
<1>b. freelist = Nil => pc[u] \in {"idle", "panic"}
  BY DEF CountInv
<1>s. Sources \in Int /\ stats["InUse"] \in Int
  BY <1>0 DEF Sources, TotalAllocated, StatNames
<1>m. ASSUME NEW from \in Phases, NEW to \in Phases, Moves(from, to), stats' = stats,
             freelist = Nil => to = "panic",
             Ind(to, InUsePoints) = Ind(from, InUsePoints),
             gets' = gets - Ind(to, {"miss"}) + Ind(from, {"miss"})
                       + Ind(to, Uncounted) - Ind(from, Uncounted)
      PROVE  CountInv'
  <2>1. Sources' = Sources
    BY <1>m DEF Sources, TotalAllocated
  <2>2. /\ Ind(to, InUsePoints) \in Int /\ Ind(to, {"miss"}) \in Int
        /\ Ind(from, {"miss"}) \in Int /\ Ind(to, Uncounted) \in Int
        /\ Ind(from, Uncounted) \in Int
    BY DEF Ind
  <2>3. stats'["InUse"] = stats["InUse"] + Ind(to, InUsePoints) - Ind(from, InUsePoints)
    BY <1>s, <1>m, <2>2
  <2>4. gets' - Sources' = gets - Sources - Ind(to, {"miss"}) + Ind(from, {"miss"})
                             + Ind(to, Uncounted) - Ind(from, Uncounted)
    BY <1>0, <1>s, <1>m, <2>1, <2>2
  <2> QED BY <1>m, <2>3, <2>4, CountStep
<1>q. "idle" \in Phases
  BY DEF Phases
<1>1. CASE GetLoad(u)
  <2>1. gets' = gets + 1 /\ stats' = stats /\ pc[u] = "idle" /\ freelist' = freelist
    BY <1>1 DEF GetLoad
  <2>i. /\ Ind("idle", InUsePoints) = 0 /\ Ind("idle", {"miss"}) = 0
        /\ Ind("idle", Uncounted) = 0
        /\ \A p \in {"panic", "select"} : /\ Ind(p, InUsePoints) = 0 /\ Ind(p, {"miss"}) = 0
                                          /\ Ind(p, Uncounted) = 1
    BY <1>a, <1>p, <1>q DEF Choosing
  <2>2. ASSUME NEW to \in {"panic", "select"}, Moves("idle", to),
               freelist = Nil => to = "panic"
        PROVE  CountInv'
    <3>1. to \in Phases
      BY <2>2, <1>a DEF Choosing
    <3>2. Ind(to, InUsePoints) = Ind("idle", InUsePoints)
      BY <2>i
    <3>3. gets' = gets - Ind(to, {"miss"}) + Ind("idle", {"miss"})
                       + Ind(to, Uncounted) - Ind("idle", Uncounted)
      <4>1. /\ Ind(to, {"miss"}) = 0 /\ Ind("idle", {"miss"}) = 0
            /\ Ind(to, Uncounted) = 1 /\ Ind("idle", Uncounted) = 0
        BY <2>i
      <4> QED BY ONLY <4>1, <1>0, <2>1
    <3> QED BY <1>q, <1>m, <2>1, <2>2, <3>1, <3>2, <3>3
  <2>3. Moves("idle", IF freelist = Nil THEN "panic" ELSE "select")
    BY <1>1, <2>1 DEF GetLoad, Goto
  <2> QED BY <2>2, <2>3
<1>2. CASE GetReceive(u) \/ PutReset(u) \/ SyncPoolHit(u) \/ CallNewer(u)
  <2>1. /\ gets' = gets /\ stats' = stats
        /\ \/ Moves("select", "recv") \/ Moves("holding", "put") \/ Moves("syncGet", "holding")
           \/ Moves("syncGet", "missAlloc") \/ Moves("newer", "holding")
    BY <1>2 DEF GetReceive, PutReset, SyncPoolHit, CallNewer, Goto
  <2>2. freelist # Nil
    BY <1>b, <2>1
  <2> QED BY <1>0, <1>a, <1>p, <1>m, <2>1, <2>2 DEF Choosing
<1>3. CASE GetDefault(u)
  <2>1. /\ gets' = gets /\ stats' = stats
        /\ Moves("select", "sync") \/ Moves("select", "new")
    BY <1>3 DEF GetDefault, Goto
  <2>2. freelist # Nil
    BY <1>b, <2>1
  <2> QED BY <1>0, <1>a, <1>p, <1>m, <2>1, <2>2 DEF Choosing
<1>4. CASE GetTick(u) \/ UserWrites(u)
  BY <1>4, CountStays DEF GetTick, UserWrites, userVars
<1>5. CASE PutLoad(u) \/ PutSend(u)
  <2>1. /\ gets' = gets /\ stats' = stats /\ freelist # Nil
        /\ Moves("putLoad", "putSend") \/ Moves("putSend", "idle")
    BY <1>5, <1>b DEF PutLoad, PutSend, Goto
  <2>2. "idle" \in Phases
    BY DEF Phases
  <2> QED BY <1>0, <1>a, <1>p, <1>m, <2>1, <2>2
<1>6. CASE GetCount(u) \/ PutCount(u)
  <2>1. ASSUME NEW from, NEW stat \in StatNames, NEW delta \in Int, NEW to \in Phases,
               from \notin {"idle", "panic"}, Count(u, from, stat, delta, to),
               IF stat = "InUse"
               THEN /\ Ind(to, InUsePoints) - Ind(from, InUsePoints) = delta
                    /\ Ind(to, {"miss"}) = Ind(from, {"miss"})
                    /\ Ind(to, Uncounted) = Ind(from, Uncounted)
               ELSE /\ Ind(to, InUsePoints) = Ind(from, InUsePoints)
                    /\ (IF stat = "SyncPoolMiss" THEN -delta ELSE delta)
                         = Ind(to, {"miss"}) - Ind(from, {"miss"})
                             - Ind(to, Uncounted) + Ind(from, Uncounted)
        PROVE  CountInv'
    <3>1. /\ Moves(from, to) /\ gets' = gets
          /\ stats' = [stats EXCEPT ![stat] = stats[stat] + delta] /\ freelist # Nil
      BY <1>b, <2>1 DEF Count, Goto
    <3>2. stats'["InUse"] = stats["InUse"] + Ind(to, InUsePoints) - Ind(from, InUsePoints)
      <4>1. Ind(to, InUsePoints) \in Int /\ Ind(from, InUsePoints) \in Int
        BY DEF Ind
      <4>2. /\ stat = "InUse" => stats'["InUse"] = stats["InUse"] + delta
            /\ stat # "InUse" => stats'["InUse"] = stats["InUse"]
        BY <1>0, <3>1 DEF StatNames
      <4> QED BY <1>s, <2>1, <4>1, <4>2
    <3>3. Sources' = Sources + (IF stat = "InUse" THEN 0
                                ELSE IF stat = "SyncPoolMiss" THEN -delta ELSE delta)
      BY <1>0, <2>1, <3>1 DEF StatNames, Sources, TotalAllocated
    <3>4. Sources \in Int
      BY <1>0 DEF StatNames, Sources, TotalAllocated
    <3>5. gets' - Sources' = gets - Sources - Ind(to, {"miss"}) + Ind(from, {"miss"})
                               + Ind(to, Uncounted) - Ind(from, Uncounted)
      <4>1. /\ Ind(to, {"miss"}) \in Int /\ Ind(from, {"miss"}) \in Int
            /\ Ind(to, Uncounted) \in Int /\ Ind(from, Uncounted) \in Int
        BY DEF Ind
      <4> QED BY <1>0, <2>1, <3>1, <3>3, <3>4, <4>1
    <3> QED BY <2>1, <3>1, <3>2, <3>5, CountStep
  <2>2. {"InUse", "FreelListAllocated", "SyncPoolAllocated", "SyncPoolMiss", "NewAlloc"}
          \subseteq StatNames
    BY DEF StatNames
  <2>3. CASE \/ Count(u, "recv", "InUse", 1, "recvUse")
             \/ Count(u, "sync", "InUse", 1, "syncUse")
             \/ Count(u, "new", "InUse", 1, "newUse")
             \/ Count(u, "put", "InUse", -1, "putLoad")
    BY <1>a, <1>p, <2>1, <2>2, <2>3
  <2>4. CASE \/ Count(u, "recvUse", "FreelListAllocated", 1, "holding")
             \/ Count(u, "syncUse", "SyncPoolAllocated", 1, "syncGet")
             \/ Count(u, "missAlloc", "NewAlloc", 1, "miss")
             \/ Count(u, "miss", "SyncPoolMiss", 1, "holding")
             \/ Count(u, "newUse", "NewAlloc", 1, "newer")
    BY <1>a, <1>p, <2>1, <2>2, <2>4
  <2> QED BY <1>6, <2>3, <2>4 DEF GetCount, PutCount
<1> QED BY <1>1, <1>2, <1>3, <1>4, <1>5, <1>6 DEF Get, Put

LEMMA CountNext == TypeOK /\ CountInv /\ [Next]_vars => CountInv'
<1> SUFFICES ASSUME TypeOK, CountInv, [Next]_vars PROVE CountInv'
  OBVIOUS
<1>0. TypeOK'
  BY TypeNext
<1>1. CASE SyncPoolGC \/ GrowthMeasure \/ Growth \/ GrowerExit \/ Close
  <2>1. UNCHANGED <<pc, stats, gets>>
    BY <1>1 DEF SyncPoolGC, GrowthMeasure, Tick, Growth, GrowthSwap, DrainReceive,
                DrainSend, DrainEnd, GrowerExit, Close, userVars
  <2>2. freelist' = freelist \/ (gpc = "swap" /\ freelist' = freelist + 1)
    BY <1>1 DEF SyncPoolGC, GrowthMeasure, Tick, Growth, GrowthSwap, DrainReceive,
                DrainSend, DrainEnd, GrowerExit, Close
  <2>3. freelist' = Nil => freelist = Nil
    BY <2>2, BoundsAssumption DEF TypeOK, Nil, Chans
  <2> QED BY <2>1, <2>3, CountStays
<1>2. CASE UNCHANGED vars
  BY <1>2, CountStays DEF vars
<1> QED BY <1>0, <1>1, <1>2, CountUser DEF Next

LEMMA CountInit == Init => CountInv
<1> SUFFICES ASSUME Init PROVE CountInv
  OBVIOUS
<1>1. \A S \in SUBSET (Phases \ {"idle"}) : At(S) = {}
  BY DEF Init, At
<1>2. /\ stats["InUse"] = 0 /\ gets = 0 /\ Sources = 0
      /\ \A u \in Users : pc[u] = "idle"
  BY DEF Init, Sources, TotalAllocated, StatNames
<1>3. Busy = {} /\ At(InUsePoints) = {} /\ At({"miss"}) = {} /\ At(Uncounted) = {}
  BY <1>1, PointSets DEF Busy
<1> QED BY <1>2, <1>3, FS_EmptySet DEF CountInv

\* Stats.InUse is exactly the number of Gets that have counted themselves in and not
\* yet out, whatever the order in which the atomic adds of the users fall.
THEOREM InUseCounted == Spec => []InUseExact
<1>1. Init => TypeOK /\ CountInv
  BY TypeInit, CountInit
<1>2. TypeOK /\ CountInv /\ [Next]_vars => TypeOK' /\ CountInv'
  BY TypeNext, CountNext
<1>3. CountInv => InUseExact
  BY DEF CountInv, InUseExact, At, InUsePoints
<1> QED BY <1>1, <1>2, <1>3, PTL DEF Spec

\* Every Get that has returned is in exactly one of the counters that TotalAllocated
\* adds up; SyncPoolMiss is what that sum has too much.
THEOREM GetsCounted == Spec => []EveryGetCountedOnce
<1>1. Init => TypeOK /\ CountInv
  BY TypeInit, CountInit
<1>2. TypeOK /\ CountInv /\ [Next]_vars => TypeOK' /\ CountInv'
  BY TypeNext, CountNext
<1>3. CountInv => EveryGetCountedOnce
  <2>1. At({"miss"}) = {u \in Users : pc[u] = "miss"}
    BY DEF At
  <2> QED BY <2>1 DEF CountInv, EveryGetCountedOnce, At, Uncounted, Sources
<1> QED BY <1>1, <1>2, <1>3, PTL DEF Spec

(***************************************************************************)
(* The population of a pool with DisableAllocs.  What keeps put from       *)
(* dropping a value: the freelist has room for all the values there are,   *)
(* and the one that is being put is not in it.                             *)
(***************************************************************************)
Held == {val[u] : u \in {w \in Users : val[w] # None}}

FixedInv ==
  settings.disableAllocs =>
    /\ freelist = 1 /\ capacity[1] = settings.base /\ gpc = "none"
    /\ \A u \in Users : pc[u] \notin Pending \cup {"panic"}
    /\ IsFiniteSet(created) /\ Cardinality(created) = settings.base
    /\ created = Range(queue[1]) \cup Held

\* A channel that holds no value twice holds as many values as it is long.
LEMMA RangeCardinality ==
  ASSUME NEW S, NEW n \in Nat, NEW s \in [1 .. n -> S], IsInjective(s)
  PROVE  IsFiniteSet(Range(s)) /\ Cardinality(Range(s)) = n
<1>1. s \in Bijection(1 .. n, Range(s))
  BY DEF Bijection, Injection, Surjection, Range
<1>2. IsFiniteSet(1 .. n) /\ Cardinality(1 .. n) = n
  BY FS_Interval
<1> QED BY <1>1, <1>2, FS_Bijection DEF ExistsBijection

LEMMA FixedInit == Init => FixedInv
<1> SUFFICES ASSUME Init, settings.disableAllocs PROVE FixedInv
  BY DEF FixedInv
<1>1. /\ settings.base \in Nat /\ settings.base > 0 /\ ~settings.grow
  <2>1. settings \in Settings /\ Valid(settings) /\ settings.base \in Nat
    BY ValidBase DEF Init
  <2> QED BY <2>1, SettingsAssumption DEF Valid, ZeroFreeList
<1>2. PICK fill \in Injection(1 .. settings.base, Values) :
        /\ queue = [c \in Chans |-> IF c = 1 THEN fill ELSE <<>>]
        /\ created = Range(fill)
  BY DEF Init, Prefills
<1>3. IsFiniteSet(created) /\ Cardinality(created) = settings.base
  BY <1>1, <1>2, RangeCardinality DEF Injection
<1>4. 1 \in Chans
  BY BoundsAssumption DEF Chans
<1>5. /\ freelist = 1 /\ capacity[1] = settings.base /\ gpc = "none" /\ Held = {}
      /\ \A u \in Users : pc[u] \notin Pending \cup {"panic"}
  BY <1>1, <1>4 DEF Init, Held, Pending
<1> QED BY <1>2, <1>3, <1>4, <1>5 DEF FixedInv

\* The steps that move no value.
LEMMA FixedStays ==
  ASSUME FixedInv,
         UNCHANGED <<settings, freelist, queue, capacity, gpc, created, val>>,
         settings.disableAllocs =>
           \A u \in Users : pc'[u] \notin Pending \cup {"panic"}
  PROVE  FixedInv'
BY DEF FixedInv, Held

LEMMA FixedReceive ==
  ASSUME ExclusiveInv, FixedInv, NEW u \in Users, GetReceive(u)
  PROVE  FixedInv'
<1> SUFFICES ASSUME settings.disableAllocs PROVE FixedInv'
  BY DEF FixedInv, GetReceive, poolVars
<1> DEFINE q == queue[1]
<1>0. TypeOK
  BY DEF ExclusiveInv
<1>1. fl[u] = 1 /\ 1 \in Chans
  BY <1>0, UserFacts, BoundsAssumption DEF FixedInv, GetReceive, Chans, Nil
<1>2. /\ q \in Seq(Values) /\ q # <<>> /\ val[u] = None
      /\ queue'[1] = Tail(q) /\ val' = [val EXCEPT ![u] = Head(q)]
      /\ pc' = [pc EXCEPT ![u] = "recv"]
      /\ UNCHANGED <<settings, freelist, capacity, gpc, created>>
  BY <1>0, <1>1, UserFacts, PoolFacts, PhaseFacts
     DEF GetReceive, Goto, poolVars, growerVars
<1>3. Range(q) = Range(Tail(q)) \cup {Head(q)} /\ Head(q) # None
  <2>1. Head(q) \in Values
    BY <1>2
  <2>2. Range(q) = Range(Tail(q)) \cup {Head(q)}
    BY <1>2, TailRest
  <2> QED BY <2>1, <2>2, NoneAssumption
<1>4. Held' = Held \cup {Head(q)}
  <2>1. \A w \in Users : val'[w] = IF w = u THEN Head(q) ELSE val[w]
    BY <1>0, <1>2 DEF TypeOK
  <2> QED BY <1>2, <1>3, <2>1 DEF Held
<1>5. \A w \in Users : pc'[w] \notin Pending \cup {"panic"}
  BY <1>0, <1>2 DEF FixedInv, TypeOK, Pending
<1>6. created' = Range(queue'[1]) \cup Held'
  BY <1>2, <1>3, <1>4 DEF FixedInv
<1> QED BY <1>2, <1>5, <1>6 DEF FixedInv

\* put finds room: the freelist holds some of the other base - 1 values.
LEMMA FixedSend ==
  ASSUME ExclusiveInv, FixedInv, NEW u \in Users, PutSend(u)
  PROVE  FixedInv'
<1> SUFFICES ASSUME settings.disableAllocs PROVE FixedInv'
  BY DEF FixedInv, PutSend, poolVars
<1> DEFINE q == queue[1]
           v == val[u]
<1>0. TypeOK
  BY DEF ExclusiveInv
<1>1. fl[u] = 1 /\ 1 \in Chans
  BY <1>0, UserFacts, BoundsAssumption DEF FixedInv, PutSend, Chans, Nil
<1>2. /\ q \in Seq(Values) /\ v \in Values /\ v # None
      /\ val' = [val EXCEPT ![u] = None] /\ pc' = [pc EXCEPT ![u] = "idle"]
      /\ UNCHANGED <<settings, freelist, capacity, gpc, created>>
  BY <1>0, <1>1, UserFacts, PoolFacts, PhaseFacts, NoneAssumption
     DEF PutSend, Goto, poolVars, growerVars, Giving
<1>3. IsInjective(q) /\ v \notin Range(q)
  BY <1>1 DEF ExclusiveInv, Exclusive, OnceInQueues, HandsApartFromStores
<1>4. HasRoom(1)
  <2>1. IsFiniteSet(Range(q)) /\ Cardinality(Range(q)) = Len(q) /\ Len(q) \in Nat
    <3>1. q \in [1 .. Len(q) -> Values] /\ Len(q) \in Nat
      BY <1>2
    <3> QED BY <1>3, <3>1, RangeCardinality
  <2>2. v \in created /\ Range(q) \subseteq created
    BY <1>2 DEF FixedInv, Held
  <2>3. Cardinality(Range(q) \cup {v}) = Len(q) + 1
    BY <1>3, <2>1, FS_AddElement
  <2>4. Cardinality(Range(q) \cup {v}) <= Cardinality(created)
    BY <2>2, FS_Subset DEF FixedInv
  <2>5. settings.base \in Nat
    BY <1>0, ValidBase DEF TypeOK
  <2> QED BY <2>1, <2>3, <2>4, <2>5 DEF HasRoom, FixedInv
<1>5. queue'[1] = Append(q, v)
  BY <1>0, <1>1, <1>4, PoolFacts DEF PutSend
<1>6. Range(queue'[1]) = Range(q) \cup {v}
  BY <1>2, <1>5, AppendOnce
<1>7. \A w \in Users : val'[w] = IF w = u THEN None ELSE val[w]
  BY <1>0, <1>2 DEF TypeOK
<1>8. Range(q) \cup {v} \cup Held' = Range(q) \cup Held
  <2>1. Held \subseteq {v} \cup Held'
    BY <1>7 DEF Held
  <2>2. Held' \cup {v} \subseteq Held
    BY <1>2, <1>7 DEF Held
  <2> QED BY <2>1, <2>2
<1>9. \A w \in Users : pc'[w] \notin Pending \cup {"panic"}
  BY <1>0, <1>2 DEF FixedInv, TypeOK, Pending
<1>10. created' = Range(queue'[1]) \cup Held'
  BY <1>2, <1>6, <1>8 DEF FixedInv
<1> QED BY <1>2, <1>9, <1>10 DEF FixedInv

LEMMA FixedUser ==
  ASSUME ExclusiveInv, FixedInv, NEW u \in Users,
         GetLoad(u) \/ Get(u) \/ UserWrites(u) \/ Put(u)
  PROVE  FixedInv'
<1>0. TypeOK /\ pc \in [Users -> Phases]
  BY DEF ExclusiveInv, TypeOK
<1>1. CASE GetReceive(u)
  BY <1>1, FixedReceive
<1>2. CASE PutSend(u)
  BY <1>2, FixedSend
<1>3. CASE SyncPoolHit(u) \/ CallNewer(u) \/ GetDefault(u)
  <2>1. settings' = settings /\ ~settings.disableAllocs
    BY <1>3 DEF SyncPoolHit, CallNewer, GetDefault, FixedInv, Pending, poolVars
  <2> QED BY <2>1 DEF FixedInv
<1>4. CASE \/ GetLoad(u) \/ GetTick(u) \/ GetCount(u) \/ UserWrites(u)
           \/ PutReset(u) \/ PutCount(u) \/ PutLoad(u)
  <2>1. UNCHANGED <<settings, freelist, queue, capacity, gpc, created, val>>
    BY <1>4 DEF GetLoad, GetTick, GetCount, UserWrites, PutReset, PutCount, PutLoad, Count,
                poolVars, userVars, growerVars
  <2>2. ASSUME settings.disableAllocs
        PROVE  \A w \in Users : pc'[w] \notin Pending \cup {"panic"}
    <3>1. freelist # Nil /\ pc[u] \notin Pending \cup {"panic"}
      BY <2>2 DEF FixedInv, Nil
    <3>2. pc' = pc \/ \E to \in Phases \ (Pending \cup {"panic"}) : pc' = [pc EXCEPT ![u] = to]
      BY <1>4, <3>1 DEF GetLoad, GetTick, GetCount, UserWrites, PutReset, PutCount, PutLoad,
           Count, Goto, userVars, Pending, Phases, Choosing, Taken, Giving
    <3> QED BY <1>0, <2>2, <3>2 DEF FixedInv
  <2> QED BY <2>1, <2>2, FixedStays
<1> QED BY <1>1, <1>2, <1>3, <1>4 DEF Get, Put

LEMMA FixedNext == ExclusiveInv /\ FixedInv /\ [Next]_vars => FixedInv'
<1> SUFFICES ASSUME ExclusiveInv, FixedInv, [Next]_vars PROVE FixedInv'
  OBVIOUS
<1>1. CASE GrowthMeasure \/ Growth \/ GrowerExit
  <2>1. settings' = settings /\ gpc # "none"
    BY <1>1 DEF GrowthMeasure, Tick, Growth, GrowthSwap, DrainReceive, DrainSend,
                DrainEnd, GrowerExit, poolVars
  <2> QED BY <2>1 DEF FixedInv
<1>2. CASE SyncPoolGC \/ Close \/ UNCHANGED vars
  <2>1. UNCHANGED <<settings, freelist, queue, capacity, gpc, created, val, pc>>
    BY <1>2 DEF SyncPoolGC, Close, vars, poolVars, userVars, growerVars
  <2> QED BY <2>1, FixedStays DEF FixedInv
<1> QED BY <1>1, <1>2, FixedUser DEF Next

\* A pool with DisableAllocs never gains or loses a value: the Base values New made
\* are all there is, each in the freelist or in a user's hand.
THEOREM PopulationFixed == Spec => []FixedPopulation
<1>1. Init => ExclusiveInv /\ FixedInv
  BY ExclusiveInit, FixedInit
<1>2. ExclusiveInv /\ FixedInv /\ [Next]_vars => ExclusiveInv' /\ FixedInv'
  BY ExclusiveNext, FixedNext
<1>3. FixedInv => FixedPopulation
  BY DEF FixedInv, FixedPopulation, Held
<1> QED BY <1>1, <1>2, <1>3, PTL DEF Spec

=============================================================================
