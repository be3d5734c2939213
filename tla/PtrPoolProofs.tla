--------------------------- MODULE PtrPoolProofs ---------------------------
(***************************************************************************)
(* Theorems about PtrPool, for every number of users and values, every     *)
(* settings New accepts, every Grower and every bound.                     *)
(***************************************************************************)
EXTENDS PtrPool, TLAPS

(***************************************************************************)
(* The freelist that New makes, and the capacity growth settles on.        *)
(***************************************************************************)

\* validate accepts no negative Base.
LEMMA ValidBase ==
  ASSUME NEW s \in Settings, Valid(s)
  PROVE  s.base \in Nat
BY SettingsAssumption DEF Valid, ZeroFreeList

\* growth replaces the freelist only by a channel of positive capacity.
LEMMA NewSizeType ==
  ASSUME NEW s \in Settings, Valid(s), settings = s,
         NEW v \in Int, NEW size \in Nat
  PROVE  NewSize(v, size) \in Nat
BY ValidBase, SettingsAssumption DEF NewSize, Nil

LEMMA TypeInit == Init => TypeOK
<1> SUFFICES ASSUME Init PROVE TypeOK
  OBVIOUS
<1> USE NoneAssumption, BoundsAssumption
<1>1. settings \in Settings /\ Valid(settings) /\ settings.base \in Nat
  BY ValidBase DEF Init
<1>2. ASSUME NEW fill \in Prefills(settings)
      PROVE  fill \in Seq(Values) /\ Range(fill) \subseteq Values
  <2>1. CASE fill = <<>>
    BY <2>1 DEF Range
  <2>2. CASE fill \in Injection(1 .. settings.base, Values)
    BY <1>1, <2>2 DEF Injection, Range
  <2> QED BY <1>2, <2>1, <2>2 DEF Prefills
<1>3. /\ queue \in [Chans -> Seq(Values)]
      /\ created \subseteq Values
  BY <1>2 DEF Init
<1>4. freelist \in {Nil} \cup Chans
  BY DEF Init, Nil, Chans
<1>5. capacity \in [Chans -> Nat]
  BY <1>1 DEF Init
<1>6. stats \in [StatNames -> Int]
  BY DEF Init
<1>7. /\ pc \in [Users -> Phases]
      /\ fl \in [Users -> {Nil} \cup Chans]
      /\ val \in [Users -> Values \cup {None}]
      /\ \A u \in Users : /\ pc[u] # "panic" => (val[u] # None <=> pc[u] \in InHand)
                          /\ fl[u] # Nil <=> pc[u] \in {"select", "putSend"}
                          /\ fl[u] <= freelist
  BY DEF Init, Phases, InHand, Taken, Giving, Nil
<1>8. /\ gpc \in {"none", "waiting"}
      /\ old = Nil /\ moving = None /\ target = 0 /\ lastPulls = 0
      /\ clean = created /\ syncPool = {} /\ gets = 0
      /\ closed \in BOOLEAN
  BY DEF Init
<1>9. /\ gets \in 0 .. MaxGets
      /\ old \in {Nil} \cup Chans
      /\ clean \subseteq Values /\ syncPool \subseteq Values
      /\ gpc # "swap" /\ gpc # "move" /\ gpc \notin {"drain", "move"}
  BY <1>3, <1>8
<1> QED
  BY <1>1, <1>3, <1>4, <1>5, <1>6, <1>7, <1>8, <1>9 DEF TypeOK

\* A step of user u inside the package, which leaves it at point to with the
\* pointer f loaded and the value v in hand.
LEMMA TypeStep ==
  ASSUME TypeOK, NEW u \in Users,
         NEW to \in Phases, NEW f \in {Nil} \cup Chans, NEW v \in Values \cup {None},
         pc' = [pc EXCEPT ![u] = to],
         fl' = [fl EXCEPT ![u] = f],
         val' = [val EXCEPT ![u] = v],
         to # "panic" => (v # None <=> to \in InHand),
         f # Nil <=> to \in {"select", "putSend"},
         f <= freelist,
         queue' \in [Chans -> Seq(Values)],
         syncPool' \subseteq Values, created' \subseteq Values, clean' \subseteq Values,
         stats' \in [StatNames -> Int], gets' \in 0 .. MaxGets,
         UNCHANGED <<settings, freelist, capacity, closed, growerVars>>
  PROVE  TypeOK'
<1>1. /\ pc' \in [Users -> Phases]
      /\ fl' \in [Users -> {Nil} \cup Chans]
      /\ val' \in [Users -> Values \cup {None}]
  BY DEF TypeOK
<1>2. ASSUME NEW w \in Users
      PROVE  /\ pc'[w] # "panic" => (val'[w] # None <=> pc'[w] \in InHand)
             /\ fl'[w] # Nil <=> pc'[w] \in {"select", "putSend"}
             /\ fl'[w] <= freelist'
  <2>1. CASE w = u
    BY <2>1 DEF TypeOK
  <2>2. CASE w # u
    BY <2>2 DEF TypeOK
  <2> QED BY <2>1, <2>2
<1>3. UNCHANGED <<settings, freelist, capacity, closed, gpc, lastPulls, target, old,
                 moving>>
  BY DEF growerVars
<1> QED
  BY <1>1, <1>2, <1>3 DEF TypeOK

\* The points a user can be at, by what it has there.
LEMMA PhaseFacts ==
  /\ \A p \in Taken \cup {"holding"} \cup Giving : p \in Phases /\ p \in InHand
  /\ \A p \in Pending \cup {"idle", "select"} : p \in Phases /\ p \notin InHand
  /\ "panic" \in Phases
BY DEF Phases, InHand, Choosing, Taken, Pending, Giving

\* What TypeOK says of one user.
LEMMA UserFacts ==
  ASSUME TypeOK, NEW u \in Users
  PROVE  /\ fl[u] \in {Nil} \cup Chans /\ val[u] \in Values \cup {None}
         /\ pc[u] # "panic" => (val[u] # None <=> pc[u] \in InHand)
         /\ fl[u] # Nil <=> pc[u] \in {"select", "putSend"}
         /\ fl[u] <= freelist
         /\ pc = [pc EXCEPT ![u] = pc[u]]
         /\ fl = [fl EXCEPT ![u] = fl[u]]
         /\ val = [val EXCEPT ![u] = val[u]]
BY DEF TypeOK

\* What else TypeOK says that a step of a user may touch.
LEMMA PoolFacts ==
  ASSUME TypeOK
  PROVE  /\ queue \in [Chans -> Seq(Values)]
         /\ syncPool \subseteq Values /\ created \subseteq Values /\ clean \subseteq Values
         /\ stats \in [StatNames -> Int] /\ gets \in 0 .. MaxGets
         /\ freelist \in {Nil} \cup Chans
BY DEF TypeOK

LEMMA TypeCount ==
  ASSUME TypeOK, NEW u \in Users, NEW from, NEW stat \in StatNames, NEW delta \in Int,
         NEW to \in Phases, Count(u, from, stat, delta, to),
         from \in InHand <=> to \in InHand,
         from \notin {"select", "putSend", "panic"},
         to \notin {"select", "putSend", "panic"}
  PROVE  TypeOK'
<1>1. /\ pc[u] = from /\ pc' = [pc EXCEPT ![u] = to]
      /\ stats' = [stats EXCEPT ![stat] = @ + delta]
      /\ UNCHANGED <<freelist, queue, capacity, syncPool, clean, gets, fl, val,
                     settings, closed, created, growerVars>>
  BY DEF Count, Goto, poolVars
<1>2. stats' \in [StatNames -> Int]
  BY <1>1, PoolFacts
<1> QED
  BY <1>1, <1>2, UserFacts, PoolFacts, TypeStep

LEMMA TypeCounts ==
  ASSUME TypeOK, NEW u \in Users, GetCount(u) \/ PutCount(u) PROVE TypeOK'
<1>a. \A p \in {"recv", "recvUse", "missAlloc", "miss", "holding", "put", "putLoad"} :
        p \in Phases /\ p \in InHand /\ p \notin {"select", "putSend", "panic"}
  BY DEF Phases, InHand, Taken, Giving
<1>b. \A p \in {"sync", "syncUse", "syncGet", "new", "newUse", "newer"} :
        p \in Phases /\ p \notin InHand /\ p \notin {"select", "putSend", "panic"}
  BY DEF Phases, InHand, Taken, Pending, Giving
<1>c. {"InUse", "FreelListAllocated", "SyncPoolAllocated", "SyncPoolMiss", "NewAlloc"}
        \subseteq StatNames
  BY DEF StatNames
<1>1. CASE Count(u, "recv", "InUse", 1, "recvUse")
  BY <1>1, <1>a, <1>b, <1>c, TypeCount
<1>2. CASE Count(u, "recvUse", "FreelListAllocated", 1, "holding")
  BY <1>2, <1>a, <1>b, <1>c, TypeCount
<1>3. CASE Count(u, "sync", "InUse", 1, "syncUse")
  BY <1>3, <1>a, <1>b, <1>c, TypeCount
<1>4. CASE Count(u, "syncUse", "SyncPoolAllocated", 1, "syncGet")
  BY <1>4, <1>a, <1>b, <1>c, TypeCount
<1>5. CASE Count(u, "missAlloc", "NewAlloc", 1, "miss")
  BY <1>5, <1>a, <1>b, <1>c, TypeCount
<1>6. CASE Count(u, "miss", "SyncPoolMiss", 1, "holding")
  BY <1>6, <1>a, <1>b, <1>c, TypeCount
<1>7. CASE Count(u, "new", "InUse", 1, "newUse")
  BY <1>7, <1>a, <1>b, <1>c, TypeCount
<1>8. CASE Count(u, "newUse", "NewAlloc", 1, "newer")
  BY <1>8, <1>a, <1>b, <1>c, TypeCount
<1>9. CASE Count(u, "put", "InUse", -1, "putLoad")
  BY <1>9, <1>a, <1>b, <1>c, TypeCount
<1> QED
  BY <1>1, <1>2, <1>3, <1>4, <1>5, <1>6, <1>7, <1>8, <1>9 DEF GetCount, PutCount

\* The type invariant is inductive.  A step of a user:
LEMMA TypeUser ==
  ASSUME TypeOK, NEW u \in Users,
         GetLoad(u) \/ Get(u) \/ UserWrites(u) \/ Put(u)
  PROVE  TypeOK'
<1> USE PhaseFacts, UserFacts, PoolFacts DEF Goto, poolVars
<1>1. ASSUME GetLoad(u) PROVE TypeOK'
  <2>1. gets' \in 0 .. MaxGets
    BY <1>1, BoundsAssumption DEF GetLoad
  <2>2. /\ pc[u] = "idle" /\ fl' = [fl EXCEPT ![u] = freelist]
        /\ UNCHANGED <<settings, freelist, queue, capacity, syncPool, closed, created,
                       clean, stats, val, growerVars>>
    BY <1>1 DEF GetLoad
  <2>3. /\ val[u] = None /\ val' = [val EXCEPT ![u] = None] /\ freelist <= freelist
        /\ "select" \notin InHand /\ "select" \in Phases
    BY <2>2 DEF Nil, Chans
  <2>4. CASE freelist = Nil
    <3>1. pc' = [pc EXCEPT ![u] = "panic"]
      BY <1>1, <2>4 DEF GetLoad
    <3> QED BY <2>1, <2>2, <2>3, <2>4, <3>1, TypeStep
  <2>5. CASE freelist # Nil
    <3>1. pc' = [pc EXCEPT ![u] = "select"]
      BY <1>1, <2>5 DEF GetLoad
    <3> QED BY <2>1, <2>2, <2>3, <2>5, <3>1, TypeStep
  <2> QED BY <2>4, <2>5
<1>2. ASSUME GetReceive(u) PROVE TypeOK'
  <2> DEFINE h == Head(queue[fl[u]])
  <2>1. /\ pc' = [pc EXCEPT ![u] = "recv"] /\ fl' = [fl EXCEPT ![u] = Nil]
        /\ val' = [val EXCEPT ![u] = h]
        /\ UNCHANGED <<settings, freelist, capacity, syncPool, closed, created, clean,
                       stats, gets, growerVars>>
    BY <1>2 DEF GetReceive
  <2>2. fl[u] \in Chans /\ queue[fl[u]] # <<>> /\ Nil <= freelist
    BY <1>2 DEF GetReceive, Nil, Chans
  <2>3. h \in Values /\ queue' \in [Chans -> Seq(Values)]
    BY <1>2, <2>2 DEF GetReceive
  <2> HIDE DEF h
  <2>4. h # None /\ "recv" \in InHand /\ "recv" \in Phases
    BY <2>3, NoneAssumption DEF Taken
  <2> QED BY <2>1, <2>2, <2>3, <2>4, TypeStep
<1>3. ASSUME GetDefault(u) PROVE TypeOK'
  <2>1. PICK to \in {"sync", "new"} : pc' = [pc EXCEPT ![u] = to]
    BY <1>3 DEF GetDefault
  <2>2. /\ pc[u] = "select" /\ fl' = [fl EXCEPT ![u] = Nil]
        /\ UNCHANGED <<settings, freelist, queue, capacity, syncPool, closed, created,
                       clean, stats, gets, val, growerVars>>
    BY <1>3 DEF GetDefault
  <2>3. /\ to \in Phases /\ to \notin InHand /\ to \notin {"select", "putSend"}
        /\ "select" \notin InHand
    BY <2>1 DEF Pending
  <2>4. val[u] = None /\ Nil <= freelist
    BY <2>2, <2>3 DEF Nil, Chans
  <2> QED BY <2>1, <2>2, <2>3, <2>4, TypeStep
<1>4. ASSUME GetTick(u) PROVE TypeOK'
  <2>1. /\ pc[u] = "select" /\ fl' = [fl EXCEPT ![u] = freelist]
        /\ UNCHANGED <<settings, freelist, queue, capacity, syncPool, closed, created,
                       clean, stats, gets, pc, val, growerVars>>
    BY <1>4 DEF GetTick
  <2>2. freelist # Nil /\ freelist <= freelist
    BY <2>1 DEF Nil, Chans
  <2>3. "select" \notin InHand /\ "select" \in Phases /\ val[u] = None
    BY <2>1
  <2>4. /\ pc' = [pc EXCEPT ![u] = "select"] /\ val' = [val EXCEPT ![u] = None]
        /\ fl' = [fl EXCEPT ![u] = freelist]
    BY <2>1, <2>3
  <2>5. /\ queue' \in [Chans -> Seq(Values)]
        /\ syncPool' \subseteq Values /\ created' \subseteq Values /\ clean' \subseteq Values
        /\ stats' \in [StatNames -> Int] /\ gets' \in 0 .. MaxGets
        /\ freelist \in {Nil} \cup Chans /\ None \in Values \cup {None}
        /\ UNCHANGED <<settings, freelist, capacity, closed, growerVars>>
    BY <2>1
  <2> QED BY <2>2, <2>3, <2>4, <2>5, TypeStep
<1>5. ASSUME SyncPoolHit(u) PROVE TypeOK'
  <2>1. PICK v \in syncPool : val' = [val EXCEPT ![u] = v] /\ syncPool' = syncPool \ {v}
    BY <1>5 DEF SyncPoolHit
  <2>2. /\ pc[u] = "syncGet" /\ pc' = [pc EXCEPT ![u] = "holding"]
        /\ UNCHANGED <<settings, freelist, queue, capacity, closed, created,
                       clean, stats, gets, fl, growerVars>>
    BY <1>5 DEF SyncPoolHit
  <2>3. fl[u] = Nil /\ v \in Values /\ v # None /\ syncPool' \subseteq Values
    BY <2>1, <2>2, NoneAssumption
  <2> QED BY <2>1, <2>2, <2>3, TypeStep
<1>6. ASSUME CallNewer(u) PROVE TypeOK'
  <2>1. PICK v \in Fresh : /\ val' = [val EXCEPT ![u] = v]
                          /\ created' = created \cup {v} /\ clean' = clean \cup {v}
    BY <1>6 DEF CallNewer
  <2>2. PICK to \in {"missAlloc", "holding"} : pc' = [pc EXCEPT ![u] = to]
    BY <1>6 DEF CallNewer
  <2>3. /\ pc[u] \in {"syncGet", "newer"}
        /\ UNCHANGED <<settings, freelist, queue, capacity, syncPool, closed,
                       stats, gets, fl, growerVars>>
    BY <1>6 DEF CallNewer
  <2>4. v \in Values /\ v # None /\ created' \subseteq Values /\ clean' \subseteq Values
    BY <2>1, NoneAssumption DEF Fresh
  <2>5. fl[u] = Nil /\ to \in Phases /\ to \in InHand /\ to \notin {"select", "putSend"}
    BY <2>2, <2>3 DEF Taken
  <2> QED BY <2>1, <2>2, <2>3, <2>4, <2>5, TypeStep
<1>7. ASSUME GetCount(u) PROVE TypeOK'
  BY <1>7, TypeCounts
<1>8. ASSUME UserWrites(u) PROVE TypeOK'
  BY <1>8 DEF UserWrites, TypeOK, userVars, growerVars
<1>9. ASSUME PutReset(u) PROVE TypeOK'
  <2>1. /\ pc[u] = "holding" /\ pc' = [pc EXCEPT ![u] = "put"]
        /\ clean' \subseteq clean \cup {val[u]}
        /\ UNCHANGED <<settings, freelist, queue, capacity, syncPool, closed, created,
                       stats, gets, fl, val, growerVars>>
    BY <1>9 DEF PutReset
  <2>2. /\ fl[u] = Nil /\ val[u] \in Values /\ val[u] # None
        /\ "put" \in InHand /\ "put" \in Phases
    BY <2>1 DEF Giving
  <2>3. clean' \subseteq Values /\ fl' = [fl EXCEPT ![u] = Nil] /\ Nil <= freelist
    BY <2>1, <2>2
  <2> QED BY <2>1, <2>2, <2>3, TypeStep
<1>10. ASSUME PutCount(u) PROVE TypeOK'
  BY <1>10, TypeCounts
<1>11. ASSUME PutLoad(u) PROVE TypeOK'
  <2>1. /\ pc[u] = "putLoad" /\ fl' = [fl EXCEPT ![u] = freelist]
        /\ UNCHANGED <<settings, freelist, queue, capacity, syncPool, closed, created,
                       clean, stats, gets, val, growerVars>>
    BY <1>11 DEF PutLoad
  <2>2. /\ val[u] # None /\ freelist <= freelist
        /\ "putSend" \in InHand /\ "putSend" \in Phases
    BY <2>1 DEF Giving, Nil, Chans
  <2>3. CASE freelist = Nil
    <3>1. pc' = [pc EXCEPT ![u] = "panic"]
      BY <1>11, <2>3 DEF PutLoad
    <3> QED BY <2>1, <2>2, <2>3, <3>1, TypeStep
  <2>4. CASE freelist # Nil
    <3>1. pc' = [pc EXCEPT ![u] = "putSend"]
      BY <1>11, <2>4 DEF PutLoad
    <3> QED BY <2>1, <2>2, <2>4, <3>1, TypeStep
  <2> QED BY <2>3, <2>4
<1>12. ASSUME PutSend(u) PROVE TypeOK'
  <2>1. /\ pc[u] = "putSend" /\ pc' = [pc EXCEPT ![u] = "idle"]
        /\ fl' = [fl EXCEPT ![u] = Nil] /\ val' = [val EXCEPT ![u] = None]
        /\ UNCHANGED <<settings, freelist, capacity, closed, created, clean, stats, gets,
                       growerVars>>
    BY <1>12 DEF PutSend
  <2>2. fl[u] \in Chans /\ val[u] \in Values /\ Nil <= freelist
    BY <2>1 DEF Giving, Nil, Chans
  <2>3. queue' \in [Chans -> Seq(Values)]
    BY <1>12, <2>2 DEF PutSend
  <2>4. syncPool' \subseteq Values
    BY <1>12, <2>2 DEF PutSend
  <2> QED BY <2>1, <2>2, <2>3, <2>4, TypeStep
<1> QED
  BY <1>1, <1>2, <1>3, <1>4, <1>5, <1>6, <1>7, <1>8, <1>9, <1>10, <1>11, <1>12
  DEF Get, Put

\* A step of the grower, which ends at point to.
LEMMA TypeGrower ==
  ASSUME TypeOK,
         freelist' \in {Nil} \cup Chans, freelist <= freelist',
         queue' \in [Chans -> Seq(Values)], capacity' \in [Chans -> Nat],
         gpc' \in {"none", "waiting", "swap", "drain", "move", "exited", "panic"},
         lastPulls' \in Int, target' \in Nat,
         gpc' = "swap" => target' > 0 /\ freelist' \in 1 .. MaxGrowths,
         old' \in {Nil} \cup Chans, moving' \in Values \cup {None},
         gpc' \in {"drain", "move"} <=> old' # Nil,
         gpc' = "move" <=> moving' # None,
         old' # Nil => old' < freelist',
         UNCHANGED <<syncPool, stats, clean, poolVars, userVars>>
  PROVE  TypeOK'
<1>1. UNCHANGED <<settings, closed, created, gets, pc, fl, val, syncPool, stats, clean>>
  BY DEF poolVars, userVars
<1>2. ASSUME NEW u \in Users
      PROVE  /\ pc'[u] # "panic" => (val'[u] # None <=> pc'[u] \in InHand)
             /\ fl'[u] # Nil <=> pc'[u] \in {"select", "putSend"}
             /\ fl'[u] <= freelist'
  BY <1>1 DEF TypeOK, Nil, Chans
<1> QED
  BY <1>1, <1>2 DEF TypeOK

\* What TypeOK says of the grower.
LEMMA GrowerFacts ==
  ASSUME TypeOK
  PROVE  /\ freelist \in {Nil} \cup Chans /\ freelist \in Int
         /\ queue \in [Chans -> Seq(Values)] /\ capacity \in [Chans -> Nat]
         /\ lastPulls \in Int /\ target \in Nat
         /\ gpc = "swap" => target > 0 /\ freelist \in 1 .. MaxGrowths
         /\ old \in {Nil} \cup Chans /\ moving \in Values \cup {None}
         /\ gpc \in {"drain", "move"} <=> old # Nil
         /\ gpc = "move" <=> moving # None
         /\ old # Nil => old < freelist
BY DEF TypeOK, Nil, Chans

\* A step of the grower, of the garbage collector, or Close:
LEMMA TypeOther ==
  ASSUME TypeOK,
         SyncPoolGC \/ GrowthMeasure \/ Growth \/ GrowerExit \/ Close
  PROVE  TypeOK'
<1> USE NoneAssumption, BoundsAssumption
    DEF TypeOK, poolVars, userVars, growerVars, Nil, Chans
<1>1. ASSUME SyncPoolGC PROVE TypeOK'
  BY <1>1 DEF SyncPoolGC
<1>2. ASSUME GrowthMeasure PROVE TypeOK'
  <2>1. CASE freelist = Nil
    BY <1>2, <2>1 DEF GrowthMeasure, Tick
  <2>2. CASE freelist # Nil
    <3>1. PICK v \in Answers : /\ target' = NewSize(v, capacity[freelist])
                               /\ gpc' = IF target' = Nil THEN "waiting" ELSE "swap"
      BY <1>2, <2>2 DEF GrowthMeasure, Tick
    <3>2. target' \in Nat
      BY <2>2, <3>1, NewSizeType, AnswersAssumption
    <3>3. lastPulls' \in Int
      BY <1>2, <2>2 DEF GrowthMeasure, Tick, StatNames
    <3>4. /\ freelist \in 1 .. MaxGrowths
          /\ gpc = "waiting"
          /\ UNCHANGED <<freelist, queue, capacity, syncPool, stats, clean, old,
                         moving, poolVars, userVars>>
      BY <1>2, <2>2 DEF GrowthMeasure, Tick
    <3> QED BY <3>1, <3>2, <3>3, <3>4
  <2> QED BY <2>1, <2>2
<1>3. ASSUME GrowthSwap PROVE TypeOK'
  <2>1. /\ gpc = "swap" /\ freelist \in 1 .. MaxGrowths /\ target \in Nat
        /\ freelist' = freelist + 1 /\ old' = freelist /\ target' = 0
        /\ capacity' = [capacity EXCEPT ![freelist + 1] = target]
        /\ gpc' = "drain" /\ moving = None
        /\ UNCHANGED <<queue, syncPool, stats, clean, lastPulls, moving, poolVars,
                       userVars>>
    BY <1>3, GrowerFacts DEF GrowthSwap, Nil
  <2>2. /\ freelist' \in Chans /\ freelist <= freelist' /\ old' < freelist'
        /\ old' \in Chans /\ old' # Nil /\ target' \in Nat
    BY <2>1, BoundsAssumption DEF Nil, Chans
  <2>3. capacity' \in [Chans -> Nat]
    BY <2>1, GrowerFacts
  <2>4. /\ queue' \in [Chans -> Seq(Values)] /\ lastPulls' \in Int
        /\ moving' = None /\ gpc' # "move" /\ gpc' # "swap"
    BY <2>1, GrowerFacts
  <2> QED BY <2>1, <2>2, <2>3, <2>4, TypeGrower
<1>4. ASSUME DrainReceive PROVE TypeOK'
  <2>1. /\ gpc = "drain" /\ old \in Chans /\ queue[old] # <<>>
        /\ moving' = Head(queue[old]) /\ queue' = [queue EXCEPT ![old] = Tail(@)]
        /\ gpc' = "move"
        /\ UNCHANGED <<freelist, capacity, lastPulls, target, old>>
        /\ UNCHANGED <<syncPool, stats, clean, poolVars, userVars>>
    BY <1>4, GrowerFacts DEF DrainReceive
  <2>2. moving' \in Values /\ moving' # None /\ queue' \in [Chans -> Seq(Values)]
    BY <2>1, GrowerFacts, NoneAssumption
  <2>3. freelist <= freelist' /\ old' # Nil /\ old' < freelist'
    BY <2>1, GrowerFacts
  <2> QED BY <2>1, <2>2, <2>3, GrowerFacts, TypeGrower
<1>5. ASSUME DrainSend PROVE TypeOK'
  <2>1. /\ gpc = "move" /\ freelist \in Chans /\ moving \in Values /\ old # Nil
        /\ queue' = [queue EXCEPT ![freelist] = Append(@, moving)]
        /\ moving' = None /\ gpc' = "drain"
        /\ UNCHANGED <<freelist, capacity, lastPulls, target, old>>
        /\ UNCHANGED <<syncPool, stats, clean, poolVars, userVars>>
    BY <1>5, GrowerFacts DEF DrainSend
  <2>2. queue' \in [Chans -> Seq(Values)]
    BY <2>1, GrowerFacts
  <2>3. freelist <= freelist' /\ old' # Nil /\ old' < freelist'
    BY <2>1, GrowerFacts
  <2> QED BY <2>1, <2>2, <2>3, GrowerFacts, TypeGrower
<1>6. ASSUME DrainEnd PROVE TypeOK'
  <2>1. /\ moving' = None /\ old' = Nil /\ gpc' = "waiting"
        /\ UNCHANGED <<freelist, queue, capacity, lastPulls, target>>
        /\ UNCHANGED <<syncPool, stats, clean, poolVars, userVars>>
    BY <1>6 DEF DrainEnd
  <2>2. freelist <= freelist'
    BY <2>1, GrowerFacts
  <2> QED BY <2>1, <2>2, GrowerFacts, TypeGrower
<1>7. ASSUME GrowerExit PROVE TypeOK'
  BY <1>7 DEF GrowerExit
<1>8. ASSUME Close PROVE TypeOK'
  BY <1>8 DEF Close
<1> QED
  BY <1>1, <1>2, <1>3, <1>4, <1>5, <1>6, <1>7, <1>8 DEF Growth

LEMMA TypeNext == TypeOK /\ [Next]_vars => TypeOK'
<1> SUFFICES ASSUME TypeOK, [Next]_vars PROVE TypeOK'
  OBVIOUS
<1>1. CASE Next
  BY <1>1, TypeUser, TypeOther DEF Next
<1>2. CASE UNCHANGED vars
  BY <1>2 DEF vars, TypeOK
<1> QED BY <1>1, <1>2

\* TypeOK holds in every state of every behaviour of the pool.
THEOREM TypeCorrect == Spec => []TypeOK
BY TypeInit, TypeNext, PTL DEF Spec

-----------------------------------------------------------------------------
(***************************************************************************)
(* Exclusive ownership.  Alone it is not inductive: newer() returns a      *)
(* value that is not in the pool only because the pool holds nothing that  *)
(* newer() has not returned before.                                        *)
(***************************************************************************)

\* Sending to a channel adds the value at its end, receiving takes its head.
LEMMA AppendOnce ==
  ASSUME NEW S, NEW s \in Seq(S), NEW v \in S
  PROVE  /\ Range(Append(s, v)) = Range(s) \cup {v}
         /\ IsInjective(s) /\ v \notin Range(s) => IsInjective(Append(s, v))
<1>1. /\ DOMAIN Append(s, v) = 1 .. Len(s) + 1
      /\ \A i \in 1 .. Len(s) : Append(s, v)[i] = s[i]
      /\ Append(s, v)[Len(s) + 1] = v
      /\ DOMAIN s = 1 .. Len(s) /\ Len(s) \in Nat
  OBVIOUS
<1>2. Range(Append(s, v)) = Range(s) \cup {v}
  BY <1>1 DEF Range
<1>3. ASSUME IsInjective(s), v \notin Range(s) PROVE IsInjective(Append(s, v))
  BY <1>1, <1>3 DEF IsInjective, Range
<1> QED BY <1>2, <1>3

LEMMA TailOnce ==
  ASSUME NEW S, NEW s \in Seq(S), s # <<>>
  PROVE  /\ Head(s) \in S /\ Head(s) \in Range(s)
         /\ Range(Tail(s)) \subseteq Range(s)
         /\ IsInjective(s) => IsInjective(Tail(s)) /\ Head(s) \notin Range(Tail(s))
<1>1. /\ DOMAIN s = 1 .. Len(s) /\ Len(s) \in Nat /\ Len(s) > 0
      /\ DOMAIN Tail(s) = 1 .. Len(s) - 1
      /\ \A i \in 1 .. Len(s) - 1 : Tail(s)[i] = s[i + 1]
      /\ Head(s) = s[1] /\ Head(s) \in S
  OBVIOUS
<1>2. Head(s) \in Range(s) /\ Range(Tail(s)) \subseteq Range(s)
  BY <1>1 DEF Range
<1>3. ASSUME IsInjective(s)
      PROVE  IsInjective(Tail(s)) /\ Head(s) \notin Range(Tail(s))
  BY <1>1, <1>3 DEF IsInjective, Range
<1> QED BY <1>1, <1>2, <1>3

\* What the pool and its users hold came from newer().
FromNewer ==
  /\ \A c \in Chans : Range(queue[c]) \subseteq created
  /\ syncPool \subseteq created
  /\ \A u \in Users : val[u] # None => val[u] \in created
  /\ moving # None => moving \in created

ExclusiveInv == TypeOK /\ FromNewer /\ Exclusive

\* The empty channel holds nothing.
LEMMA EmptyOnce == Range(<<>>) = {} /\ IsInjective(<<>>)
BY DEF Range, IsInjective

LEMMA ExclusiveInit == Init => ExclusiveInv
<1> SUFFICES ASSUME Init PROVE FromNewer /\ Exclusive
  BY TypeInit DEF ExclusiveInv
<1> USE NoneAssumption, EmptyOnce
<1>1. PICK fill \in Prefills(settings) :
        /\ queue = [c \in Chans |-> IF c = 1 THEN fill ELSE <<>>]
        /\ created = Range(fill)
  BY DEF Init
<1>2. IsInjective(fill)
  BY DEF Prefills, Injection
<1>3. /\ syncPool = {} /\ moving = None
      /\ \A u \in Users : val[u] = None
  BY DEF Init
<1>4. created \subseteq Values
  BY TypeInit DEF TypeOK
<1>5. FromNewer
  BY <1>1, <1>3 DEF FromNewer
<1>6. OnceInQueues /\ OnceInHands
  BY <1>1, <1>2, <1>3 DEF OnceInQueues, OnceInHands
<1>7. HandsApartFromStores
  BY <1>3, <1>4, <1>5 DEF HandsApartFromStores, FromNewer
<1> QED BY <1>5, <1>6, <1>7 DEF Exclusive

\* What a receive from channel c does to the stores: the head is nowhere else.
LEMMA Receiving ==
  ASSUME ExclusiveInv, NEW c \in Chans, queue[c] # <<>>,
         queue' = [queue EXCEPT ![c] = Tail(@)]
  PROVE  /\ Head(queue[c]) \in created /\ Head(queue[c]) \in Values
         /\ \A d \in Chans : /\ Range(queue'[d]) \subseteq Range(queue[d])
                            /\ IsInjective(queue'[d])
                            /\ Head(queue[c]) \notin Range(queue'[d])
         /\ Head(queue[c]) \notin syncPool
         /\ \A u \in Users : Head(queue[c]) # val[u]
         /\ Head(queue[c]) # moving
<1> DEFINE h == Head(queue[c])
<1>1. /\ queue \in [Chans -> Seq(Values)]
      /\ queue'[c] = Tail(queue[c])
      /\ \A d \in Chans \ {c} : queue'[d] = queue[d]
  BY DEF ExclusiveInv, TypeOK
<1>2. /\ h \in Values /\ h \in Range(queue[c])
      /\ Range(queue'[c]) \subseteq Range(queue[c])
      /\ IsInjective(queue'[c]) /\ h \notin Range(queue'[c])
  BY <1>1, TailOnce DEF ExclusiveInv, Exclusive, OnceInQueues
<1>3. \A d \in Chans \ {c} : IsInjective(queue'[d]) /\ h \notin Range(queue'[d])
  BY <1>1, <1>2 DEF ExclusiveInv, Exclusive, OnceInQueues
<1>4. h \in created /\ h \notin syncPool
  BY <1>2 DEF ExclusiveInv, FromNewer, Exclusive, OnceInQueues
<1>5. (\A u \in Users : h # val[u]) /\ h # moving
  BY <1>2 DEF ExclusiveInv, Exclusive, HandsApartFromStores
<1> QED BY <1>1, <1>2, <1>3, <1>4, <1>5

\* What a send of v to channel c does to the stores, v being in none of them.
LEMMA Sending ==
  ASSUME ExclusiveInv, NEW c \in Chans, NEW v \in Values, v \in created,
         v \notin syncPool, \A d \in Chans : v \notin Range(queue[d]),
         queue' = [queue EXCEPT ![c] = Append(@, v)]
  PROVE  /\ Range(queue'[c]) = Range(queue[c]) \cup {v}
         /\ \A d \in Chans \ {c} : Range(queue'[d]) = Range(queue[d])
         /\ \A d \in Chans : Range(queue'[d]) \subseteq created
         /\ syncPool' \subseteq syncPool => OnceInQueues'
<1>1. /\ queue \in [Chans -> Seq(Values)]
      /\ queue'[c] = Append(queue[c], v)
      /\ \A d \in Chans \ {c} : queue'[d] = queue[d]
  BY DEF ExclusiveInv, TypeOK
<1>2. Range(queue'[c]) = Range(queue[c]) \cup {v} /\ IsInjective(queue'[c])
  BY <1>1, AppendOnce DEF ExclusiveInv, Exclusive, OnceInQueues
<1>3. \A d \in Chans : Range(queue'[d]) \subseteq created
  BY <1>1, <1>2 DEF ExclusiveInv, FromNewer
<1>4. ASSUME syncPool' \subseteq syncPool PROVE OnceInQueues'
  BY <1>1, <1>2, <1>4 DEF ExclusiveInv, Exclusive, OnceInQueues
<1> QED BY <1>1, <1>2, <1>3, <1>4

\* Most steps move no value.
LEMMA NothingMoves ==
  ASSUME ExclusiveInv, UNCHANGED <<queue, syncPool, val, moving, created>>
  PROVE  FromNewer' /\ Exclusive'
BY DEF ExclusiveInv, FromNewer, Exclusive, OnceInQueues, OnceInHands,
       HandsApartFromStores

LEMMA ExclusiveUser ==
  ASSUME ExclusiveInv, TypeOK', NEW u \in Users,
         GetLoad(u) \/ Get(u) \/ UserWrites(u) \/ Put(u)
  PROVE  FromNewer' /\ Exclusive'
<1> USE NoneAssumption
<1>0. TypeOK /\ FromNewer /\ OnceInQueues /\ OnceInHands /\ HandsApartFromStores
  BY DEF ExclusiveInv, Exclusive
<1>1. ASSUME \/ GetLoad(u) \/ GetDefault(u) \/ GetTick(u) \/ GetCount(u)
             \/ UserWrites(u) \/ PutReset(u) \/ PutCount(u) \/ PutLoad(u)
      PROVE  FromNewer' /\ Exclusive'
  <2>1. UNCHANGED <<queue, syncPool, val, moving, created>>
    BY <1>1 DEF GetLoad, GetDefault, GetTick, GetCount, UserWrites, PutReset,
                PutCount, PutLoad, Count, poolVars, growerVars, userVars
  <2> QED BY <2>1, NothingMoves
<1>2. ASSUME GetReceive(u) PROVE FromNewer' /\ Exclusive'
  <2> DEFINE c == fl[u]
             h == Head(queue[c])
  <2>1. /\ c \in Chans /\ queue[c] # <<>>
        /\ queue' = [queue EXCEPT ![c] = Tail(@)]
        /\ val' = [val EXCEPT ![u] = h]
        /\ UNCHANGED <<syncPool, moving, created>>
    BY <1>0, <1>2 DEF GetReceive, poolVars, growerVars, TypeOK
  <2>2. /\ h \in created /\ h \in Values /\ h \notin syncPool /\ h # moving
        /\ \A d \in Chans : /\ Range(queue'[d]) \subseteq Range(queue[d])
                           /\ IsInjective(queue'[d])
                           /\ h \notin Range(queue'[d])
        /\ \A w \in Users : h # val[w]
    BY <2>1, Receiving
  <2>3. /\ val'[u] = h
        /\ \A w \in Users \ {u} : val'[w] = val[w]
    BY <1>0, <2>1 DEF TypeOK
  <2>4. FromNewer'
    BY <1>0, <2>1, <2>2, <2>3 DEF FromNewer
  <2>5. OnceInQueues'
    BY <1>0, <2>1, <2>2 DEF OnceInQueues
  <2>6. OnceInHands'
    BY <1>0, <2>1, <2>2, <2>3 DEF OnceInHands
  <2>7. HandsApartFromStores'
    <3>1. \A g \in {val'[w] : w \in Users} \cup {moving} :
             g = h \/ g \in {val[w] : w \in Users} \cup {moving}
      BY <2>3
    <3>2. \A g \in {val[w] : w \in Users} \cup {moving} :
             g \notin syncPool /\ \A d \in Chans : g \notin Range(queue'[d])
      BY <1>0, <2>2 DEF HandsApartFromStores
    <3> QED BY <2>1, <2>2, <3>1, <3>2 DEF HandsApartFromStores
  <2> QED BY <2>4, <2>5, <2>6, <2>7 DEF Exclusive
<1>3. ASSUME SyncPoolHit(u) PROVE FromNewer' /\ Exclusive'
  <2>1. PICK v \in syncPool : /\ val' = [val EXCEPT ![u] = v]
                             /\ syncPool' = syncPool \ {v}
    BY <1>3 DEF SyncPoolHit
  <2>2. UNCHANGED <<queue, moving, created>>
    BY <1>3 DEF SyncPoolHit, poolVars, growerVars
  <2>3. val'[u] = v /\ \A w \in Users \ {u} : val'[w] = val[w]
    BY <1>0, <2>1 DEF TypeOK
  <2>4. FromNewer'
    BY <1>0, <2>1, <2>2, <2>3 DEF FromNewer
  <2>5. OnceInQueues'
    BY <1>0, <2>1, <2>2 DEF OnceInQueues
  <2>6. OnceInHands'
    BY <1>0, <2>1, <2>2, <2>3 DEF OnceInHands, HandsApartFromStores
  <2>7. HandsApartFromStores'
    BY <1>0, <2>1, <2>2, <2>3 DEF HandsApartFromStores, OnceInQueues
  <2> QED BY <2>4, <2>5, <2>6, <2>7 DEF Exclusive
<1>4. ASSUME CallNewer(u) PROVE FromNewer' /\ Exclusive'
  <2>1. PICK v \in Fresh : /\ val' = [val EXCEPT ![u] = v]
                          /\ created' = created \cup {v}
    BY <1>4 DEF CallNewer
  <2>2. UNCHANGED <<queue, syncPool, moving>> /\ v \in Values /\ v \notin created
    BY <1>4, <2>1 DEF CallNewer, growerVars, Fresh
  <2>3. val'[u] = v /\ \A w \in Users \ {u} : val'[w] = val[w]
    BY <1>0, <2>1 DEF TypeOK
  <2>4. FromNewer'
    BY <1>0, <2>1, <2>2, <2>3 DEF FromNewer
  <2>5. OnceInQueues'
    BY <1>0, <2>2 DEF OnceInQueues
  <2>6. OnceInHands'
    BY <1>0, <2>2, <2>3 DEF OnceInHands, FromNewer
  <2>7. HandsApartFromStores'
    BY <1>0, <2>2, <2>3 DEF HandsApartFromStores, FromNewer
  <2> QED BY <2>4, <2>5, <2>6, <2>7 DEF Exclusive
<1>5. ASSUME PutSend(u) PROVE FromNewer' /\ Exclusive'
  <2> DEFINE v == val[u]
             c == fl[u]
  <2>1. /\ c \in Chans /\ v \in Values /\ v \in created
        /\ v \notin syncPool /\ \A d \in Chans : v \notin Range(queue[d])
    BY <1>0, <1>5 DEF PutSend, TypeOK, InHand, Giving, FromNewer, HandsApartFromStores
  <2>2. /\ val' = [val EXCEPT ![u] = None]
        /\ UNCHANGED <<moving, created>>
    BY <1>5 DEF PutSend, poolVars, growerVars
  <2>3. val'[u] = None /\ \A w \in Users \ {u} : val'[w] = val[w] /\ val[w] # v
    BY <1>0, <2>1, <2>2 DEF TypeOK, OnceInHands
  <2>4. moving # v
    BY <1>0, <2>1 DEF OnceInHands
  <2>5. /\ syncPool' \subseteq Values /\ queue' \in [Chans -> Seq(Values)]
        /\ None \notin syncPool'
    BY DEF TypeOK
  <2>6. OnceInHands'
    BY <1>0, <2>2, <2>3 DEF OnceInHands
  <2>7. CASE HasRoom(c)
    <3>1. queue' = [queue EXCEPT ![c] = Append(@, v)] /\ syncPool' = syncPool
      BY <1>5, <2>7 DEF PutSend
    <3>2. /\ Range(queue'[c]) = Range(queue[c]) \cup {v}
          /\ \A d \in Chans \ {c} : Range(queue'[d]) = Range(queue[d])
          /\ \A d \in Chans : Range(queue'[d]) \subseteq created
          /\ OnceInQueues'
      BY <2>1, <3>1, Sending
    <3>3. FromNewer'
      BY <1>0, <2>2, <2>3, <3>1, <3>2 DEF FromNewer
    <3>4. HandsApartFromStores'
      <4>1. \A h \in {val'[w] : w \in Users} \cup {moving} :
               h = None \/ h \in {val[w] : w \in Users \ {u}} \cup {moving}
        BY <2>3
      <4>2. None \notin created
        BY <1>0 DEF TypeOK
      <4>3. \A h \in {val[w] : w \in Users \ {u}} \cup {moving} :
               /\ h # v /\ h \notin syncPool
               /\ \A d \in Chans : h \notin Range(queue[d])
        BY <1>0, <2>3, <2>4 DEF HandsApartFromStores
      <4>4. \A h \in {val'[w] : w \in Users} \cup {moving} :
               h \notin syncPool' /\ \A d \in Chans : h \notin Range(queue'[d])
        BY <2>5, <3>1, <3>2, <4>1, <4>2, <4>3
      <4> QED BY <2>2, <4>4 DEF HandsApartFromStores
    <3> QED BY <2>6, <3>2, <3>3, <3>4 DEF Exclusive
  <2>8. CASE ~HasRoom(c)
    <3>1. queue' = queue /\ syncPool \subseteq syncPool'
                         /\ syncPool' \subseteq syncPool \cup {v}
      BY <1>5, <2>8 DEF PutSend
    <3>2. FromNewer'
      BY <1>0, <2>1, <2>2, <2>3, <3>1 DEF FromNewer
    <3>3. OnceInQueues'
      BY <1>0, <2>1, <3>1 DEF OnceInQueues
    <3>4. HandsApartFromStores'
      <4>1. \A h \in {val'[w] : w \in Users} \cup {moving} :
               h = None \/ (h # v /\ h \in {val[w] : w \in Users} \cup {moving})
        BY <2>3, <2>4
      <4>2. \A d \in Chans : None \notin Range(queue[d])
        BY <1>0 DEF TypeOK, FromNewer
      <4> QED BY <1>0, <2>2, <2>5, <3>1, <4>1, <4>2 DEF HandsApartFromStores
    <3> QED BY <2>6, <3>2, <3>3, <3>4 DEF Exclusive
  <2> QED BY <2>7, <2>8
<1> QED
  BY <1>1, <1>2, <1>3, <1>4, <1>5 DEF Get, Put

LEMMA ExclusiveOther ==
  ASSUME ExclusiveInv, TypeOK',
         SyncPoolGC \/ GrowthMeasure \/ Growth \/ GrowerExit \/ Close
  PROVE  FromNewer' /\ Exclusive'
<1> USE NoneAssumption
<1>0. TypeOK /\ FromNewer /\ OnceInQueues /\ OnceInHands /\ HandsApartFromStores
  BY DEF ExclusiveInv, Exclusive
<1>1. ASSUME GrowthMeasure \/ GrowthSwap \/ GrowerExit \/ Close
      PROVE  FromNewer' /\ Exclusive'
  <2>1. UNCHANGED <<queue, syncPool, val, moving, created>>
    BY <1>1 DEF GrowthMeasure, Tick, GrowthSwap, GrowerExit, Close, poolVars, growerVars,
                userVars
  <2> QED BY <2>1, NothingMoves
<1>2. ASSUME SyncPoolGC PROVE FromNewer' /\ Exclusive'
  <2>1. syncPool' \subseteq syncPool /\ UNCHANGED <<queue, val, moving, created>>
    BY <1>2 DEF SyncPoolGC, poolVars, growerVars, userVars
  <2> QED BY <1>0, <2>1 DEF FromNewer, Exclusive, OnceInQueues, OnceInHands,
                            HandsApartFromStores
<1>3. ASSUME DrainReceive PROVE FromNewer' /\ Exclusive'
  <2> DEFINE h == Head(queue[old])
  <2>1. /\ old \in Chans /\ queue[old] # <<>>
        /\ queue' = [queue EXCEPT ![old] = Tail(@)]
        /\ moving' = h
        /\ UNCHANGED <<syncPool, val, created>>
    BY <1>0, <1>3 DEF DrainReceive, poolVars, userVars, TypeOK
  <2>2. /\ h \in created /\ h \in Values /\ h \notin syncPool
        /\ \A d \in Chans : /\ Range(queue'[d]) \subseteq Range(queue[d])
                           /\ IsInjective(queue'[d])
                           /\ h \notin Range(queue'[d])
        /\ \A w \in Users : h # val[w]
    BY <2>1, Receiving
  <2>3. FromNewer'
    BY <1>0, <2>1, <2>2 DEF FromNewer
  <2>4. OnceInQueues' /\ OnceInHands'
    BY <1>0, <2>1, <2>2 DEF OnceInQueues, OnceInHands
  <2>5. HandsApartFromStores'
    <3>1. \A g \in {val[w] : w \in Users} :
             g \notin syncPool /\ \A d \in Chans : g \notin Range(queue'[d])
      BY <1>0, <2>2 DEF HandsApartFromStores
    <3> QED BY <2>1, <2>2, <3>1 DEF HandsApartFromStores
  <2> QED BY <2>3, <2>4, <2>5 DEF Exclusive
<1>4. ASSUME DrainSend PROVE FromNewer' /\ Exclusive'
  <2>1. /\ freelist \in Chans /\ moving \in Values /\ moving \in created
        /\ moving \notin syncPool /\ \A d \in Chans : moving \notin Range(queue[d])
    <3>1. gpc = "move"
      BY <1>4 DEF DrainSend
    <3>2. moving # None /\ moving \in Values /\ old # Nil /\ freelist \in Chans
      BY <1>0, <3>1 DEF TypeOK, Nil, Chans
    <3> QED BY <1>0, <3>2 DEF FromNewer, HandsApartFromStores
  <2>2. /\ queue' = [queue EXCEPT ![freelist] = Append(@, moving)]
        /\ moving' = None
        /\ UNCHANGED <<syncPool, val, created>>
    BY <1>4 DEF DrainSend, poolVars, userVars
  <2>3. /\ Range(queue'[freelist]) = Range(queue[freelist]) \cup {moving}
        /\ \A d \in Chans \ {freelist} : Range(queue'[d]) = Range(queue[d])
        /\ \A d \in Chans : Range(queue'[d]) \subseteq created
        /\ OnceInQueues'
    BY <2>1, <2>2, Sending
  <2>4. FromNewer' /\ OnceInHands'
    BY <1>0, <2>2, <2>3 DEF FromNewer, OnceInHands
  <2>5. HandsApartFromStores'
    <3>1. None \notin created /\ None \notin syncPool
      BY <1>0 DEF TypeOK
    <3>2. \A g \in {val[w] : w \in Users} :
             g = None \/ (g # moving /\ \A d \in Chans : g \notin Range(queue[d]))
      BY <1>0 DEF OnceInHands, HandsApartFromStores
    <3>3. \A g \in {val[w] : w \in Users} \cup {None} :
             g \notin syncPool /\ \A d \in Chans : g \notin Range(queue'[d])
      BY <1>0, <2>3, <3>1, <3>2 DEF HandsApartFromStores
    <3> QED BY <2>2, <3>3 DEF HandsApartFromStores
  <2> QED BY <2>3, <2>4, <2>5 DEF Exclusive
<1>5. ASSUME DrainEnd PROVE FromNewer' /\ Exclusive'
  <2>1. moving' = None /\ UNCHANGED <<queue, syncPool, val, created>>
    BY <1>5 DEF DrainEnd, poolVars, userVars
  <2>2. None \notin syncPool /\ \A d \in Chans : None \notin Range(queue[d])
    BY <1>0 DEF TypeOK, FromNewer
  <2>3. FromNewer' /\ OnceInQueues' /\ OnceInHands'
    BY <1>0, <2>1 DEF FromNewer, OnceInQueues, OnceInHands
  <2>4. HandsApartFromStores'
    BY <1>0, <2>1, <2>2 DEF HandsApartFromStores
  <2> QED BY <2>3, <2>4 DEF Exclusive
<1> QED
  BY <1>1, <1>2, <1>3, <1>4, <1>5 DEF Growth

LEMMA ExclusiveNext == ExclusiveInv /\ [Next]_vars => ExclusiveInv'
<1> SUFFICES ASSUME ExclusiveInv, [Next]_vars PROVE ExclusiveInv'
  OBVIOUS
<1>1. TypeOK'
  BY TypeNext DEF ExclusiveInv
<1>2. CASE Next
  <2>1. FromNewer' /\ Exclusive'
    BY <1>1, <1>2, ExclusiveUser, ExclusiveOther DEF Next
  <2> QED BY <1>1, <2>1 DEF ExclusiveInv
<1>3. CASE UNCHANGED vars
  <2>1. FromNewer' /\ Exclusive'
    BY <1>3, NothingMoves DEF vars
  <2> QED BY <1>1, <2>1 DEF ExclusiveInv
<1> QED BY <1>2, <1>3

\* No value is ever in two places: whatever the order of the steps of Get, put
\* and growth, and however many freelists growth has replaced, two users never
\* hold the same pointer and none of them shares it with the pool.
THEOREM ExclusiveOwnership == Spec => []Exclusive
<1>1. ExclusiveInv => Exclusive
  BY DEF ExclusiveInv
<1> QED BY ExclusiveInit, ExclusiveNext, <1>1, PTL DEF Spec

-----------------------------------------------------------------------------
(***************************************************************************)
(* A pool with a Reseter.  The only step that takes a value out of its     *)
(* reset state is a user's write to the value it holds: exclusive          *)
(* ownership says that the value is then in no store and in nobody else's  *)
(* hand.                                                                   *)
(***************************************************************************)

CleanParts ==
  settings.reset =>
    /\ syncPool \subseteq clean
    /\ \A c \in Chans : Range(queue[c]) \subseteq clean
    /\ moving # None => moving \in clean
    /\ \A u \in Users : pc[u] \in Taken \cup Giving => val[u] \in clean

LEMMA CleanSplit == CleanWhenStored <=> CleanParts
BY DEF CleanWhenStored, CleanParts

\* A step that moves no value, leaves no value less clean and no user at a
\* new point with a value in hand.
LEMMA CleanStays ==
  ASSUME CleanParts,
         UNCHANGED <<settings, queue, syncPool, val, moving>>,
         clean \subseteq clean',
         \A u \in Users : pc'[u] \in Taken \cup Giving =>
                          pc[u] \in Taken \cup Giving \/ val[u] \in clean'
  PROVE  CleanParts'
BY DEF CleanParts

LEMMA CleanInit == Init => CleanParts
<1> SUFFICES ASSUME Init PROVE CleanParts
  OBVIOUS
<1>1. PICK fill \in Prefills(settings) :
        /\ queue = [c \in Chans |-> IF c = 1 THEN fill ELSE <<>>]
        /\ created = Range(fill)
  BY DEF Init
<1>2. /\ syncPool = {} /\ moving = None /\ clean = created
      /\ \A u \in Users : pc[u] = "idle"
  BY DEF Init
<1> QED BY <1>1, <1>2, EmptyOnce DEF CleanParts, Taken, Giving

LEMMA CleanUser ==
  ASSUME ExclusiveInv, CleanParts, NEW u \in Users,
         GetLoad(u) \/ Get(u) \/ UserWrites(u) \/ Put(u)
  PROVE  CleanParts'
<1>0. TypeOK /\ OnceInHands /\ HandsApartFromStores
  BY DEF ExclusiveInv, Exclusive
<1>a. /\ pc \in [Users -> Phases] /\ val \in [Users -> Values \cup {None}]
      /\ fl \in [Users -> {Nil} \cup Chans]
      /\ queue \in [Chans -> Seq(Values)]
  BY <1>0 DEF TypeOK
<1>b. {"idle", "panic", "select", "sync", "new", "holding"} \cap (Taken \cup Giving) = {}
  BY DEF Taken, Giving
<1>1. ASSUME GetLoad(u) \/ GetDefault(u) \/ GetTick(u) PROVE CleanParts'
  <2>1. /\ UNCHANGED <<settings, queue, syncPool, val, moving, clean>>
        /\ \E to \in {"idle", "panic", "select", "sync", "new"} :
             pc' = [pc EXCEPT ![u] = to]
    BY <1>1, <1>a DEF GetLoad, GetDefault, GetTick, Goto, poolVars, growerVars
  <2>2. \A w \in Users : pc'[w] \in Taken \cup Giving => pc[w] \in Taken \cup Giving
    BY <2>1, <1>a, <1>b
  <2> QED BY <2>1, <2>2, CleanStays
<1>2. ASSUME GetReceive(u) PROVE CleanParts'
  <2> DEFINE c == fl[u]
             h == Head(queue[c])
  <2>1. /\ c \in Chans /\ queue[c] # <<>>
        /\ queue' = [queue EXCEPT ![c] = Tail(@)]
        /\ val' = [val EXCEPT ![u] = h] /\ pc' = [pc EXCEPT ![u] = "recv"]
        /\ UNCHANGED <<settings, syncPool, moving, clean>>
    BY <1>0, <1>2 DEF GetReceive, Goto, poolVars, growerVars, TypeOK
  <2>2. h \in Range(queue[c]) /\ Range(Tail(queue[c])) \subseteq Range(queue[c])
    BY <1>a, <2>1, TailOnce
  <2>3. \A d \in Chans : Range(queue'[d]) \subseteq Range(queue[d])
    BY <1>a, <2>1, <2>2
  <2>4. /\ val'[u] = h
        /\ \A w \in Users \ {u} : val'[w] = val[w] /\ pc'[w] = pc[w]
    BY <1>a, <2>1
  <2> QED BY <2>1, <2>2, <2>3, <2>4 DEF CleanParts
<1>3. ASSUME SyncPoolHit(u) PROVE CleanParts'
  <2>1. PICK v \in syncPool : /\ val' = [val EXCEPT ![u] = v]
                             /\ syncPool' = syncPool \ {v}
    BY <1>3 DEF SyncPoolHit
  <2>2. /\ pc' = [pc EXCEPT ![u] = "holding"]
        /\ UNCHANGED <<settings, queue, moving, clean>>
    BY <1>3 DEF SyncPoolHit, Goto, poolVars, growerVars
  <2>3. /\ pc'[u] = "holding"
        /\ \A w \in Users \ {u} : val'[w] = val[w] /\ pc'[w] = pc[w]
    BY <1>a, <2>1, <2>2
  <2> QED BY <1>b, <2>1, <2>2, <2>3 DEF CleanParts
<1>4. ASSUME CallNewer(u) PROVE CleanParts'
  <2>1. PICK v \in Fresh : val' = [val EXCEPT ![u] = v] /\ clean' = clean \cup {v}
    BY <1>4 DEF CallNewer
  <2>2. UNCHANGED <<settings, queue, syncPool, moving>>
    BY <1>4 DEF CallNewer, growerVars
  <2>3. /\ val'[u] = v
        /\ \A w \in Users \ {u} : val'[w] = val[w] /\ pc'[w] = pc[w]
    BY <1>a, <1>4, <2>1 DEF CallNewer, Goto
  <2> QED BY <2>1, <2>2, <2>3 DEF CleanParts
<1>5. ASSUME GetCount(u) \/ PutCount(u) PROVE CleanParts'
  <2>1. PICK from \in Phases, to \in Phases :
          /\ pc[u] = from /\ pc' = [pc EXCEPT ![u] = to]
          /\ to \in Taken \cup Giving => from \in Taken \cup Giving
    <3>1. \A p, q : p \in Taken /\ q \in Taken \cup {"holding"} =>
                     p \in Phases /\ q \in Phases
      BY PhaseFacts
    <3> QED BY <1>5 DEF GetCount, PutCount, Count, Goto, Phases, Taken, Giving, Pending
  <2>2. UNCHANGED <<settings, queue, syncPool, val, moving, clean>>
    BY <1>5 DEF GetCount, PutCount, Count, poolVars, growerVars
  <2>3. \A w \in Users : pc'[w] \in Taken \cup Giving => pc[w] \in Taken \cup Giving
    BY <1>a, <2>1
  <2> QED BY <2>2, <2>3, CleanStays
<1>6. ASSUME UserWrites(u) PROVE CleanParts'
  <2> DEFINE v == val[u]
  <2>1. /\ pc[u] = "holding" /\ v # None /\ clean' = clean \ {v}
        /\ UNCHANGED <<settings, queue, syncPool, pc, val, moving>>
    BY <1>0, <1>6 DEF UserWrites, poolVars, userVars, growerVars, TypeOK, InHand
  <2>2. /\ v \notin syncPool /\ \A c \in Chans : v \notin Range(queue[c])
        /\ moving # v /\ \A w \in Users : w # u => val[w] # v
    BY <1>0, <2>1 DEF OnceInHands, HandsApartFromStores
  <2>3. \A w \in Users : pc[w] \in Taken \cup Giving => val[w] # v
    BY <1>b, <2>1, <2>2
  <2> QED BY <2>1, <2>2, <2>3 DEF CleanParts
<1>7. ASSUME PutReset(u) PROVE CleanParts'
  <2>1. /\ pc' = [pc EXCEPT ![u] = "put"] /\ clean \subseteq clean'
        /\ UNCHANGED <<settings, queue, syncPool, val, moving>>
    BY <1>7 DEF PutReset, Goto, poolVars, growerVars
  <2>2. \A w \in Users \ {u} : pc'[w] = pc[w]
    BY <1>a, <2>1
  <2>3. CASE ~settings.reset
    BY <2>1, <2>3 DEF CleanParts
  <2>4. CASE settings.reset
    <3>1. val[u] \in clean'
      BY <1>7, <2>4 DEF PutReset
    <3>2. \A w \in Users : pc'[w] \in Taken \cup Giving =>
                           pc[w] \in Taken \cup Giving \/ val[w] \in clean'
      BY <2>2, <3>1
    <3>3. clean \subseteq clean' /\ UNCHANGED <<settings, queue, syncPool, val, moving>>
      BY <2>1
    <3> QED BY <3>2, <3>3, CleanStays
  <2> QED BY <2>3, <2>4
<1>8. ASSUME PutLoad(u) PROVE CleanParts'
  <2>1. /\ pc[u] = "putLoad" /\ \A w \in Users \ {u} : pc'[w] = pc[w]
        /\ UNCHANGED <<settings, queue, syncPool, val, moving, clean>>
    BY <1>a, <1>8 DEF PutLoad, Goto, poolVars, growerVars
  <2>2. pc[u] \in Taken \cup Giving
    BY <2>1 DEF Giving
  <2> QED BY <2>1, <2>2, CleanStays
<1>9. ASSUME PutSend(u) PROVE CleanParts'
  <2> DEFINE c == fl[u]
             v == val[u]
  <2>1. /\ pc[u] = "putSend" /\ v \in Values /\ c \in Chans
        /\ pc' = [pc EXCEPT ![u] = "idle"] /\ val' = [val EXCEPT ![u] = None]
        /\ UNCHANGED <<settings, moving, clean>>
    BY <1>0, <1>9 DEF PutSend, Goto, poolVars, growerVars, TypeOK, InHand, Giving
  <2>2. settings.reset => v \in clean
    BY <2>1 DEF CleanParts, Giving
  <2>3. \A d \in Chans : Range(queue'[d]) \subseteq Range(queue[d]) \cup {v}
    <3>1. queue' \in {queue, [queue EXCEPT ![c] = Append(@, v)]}
      BY <1>9 DEF PutSend
    <3>2. Range(Append(queue[c], v)) = Range(queue[c]) \cup {v}
      BY <1>a, <2>1, AppendOnce
    <3> QED BY <1>a, <3>1, <3>2
  <2>4. syncPool' \subseteq syncPool \cup {v}
    BY <1>9 DEF PutSend
  <2>5. /\ pc'[u] = "idle"
        /\ \A w \in Users \ {u} : val'[w] = val[w] /\ pc'[w] = pc[w]
    BY <1>a, <2>1
  <2> QED BY <1>b, <2>1, <2>2, <2>3, <2>4, <2>5 DEF CleanParts
<1> QED
  BY <1>1, <1>2, <1>3, <1>4, <1>5, <1>6, <1>7, <1>8, <1>9 DEF Get, Put

LEMMA CleanOther ==
  ASSUME ExclusiveInv, CleanParts,
         SyncPoolGC \/ GrowthMeasure \/ Growth \/ GrowerExit \/ Close
  PROVE  CleanParts'
<1>0. TypeOK
  BY DEF ExclusiveInv
<1>1. ASSUME GrowthMeasure \/ GrowthSwap \/ GrowerExit \/ Close PROVE CleanParts'
  BY <1>1 DEF GrowthMeasure, Tick, GrowthSwap, GrowerExit, Close, poolVars, growerVars,
              userVars, CleanParts
<1>2. ASSUME SyncPoolGC PROVE CleanParts'
  BY <1>2 DEF SyncPoolGC, poolVars, growerVars, userVars, CleanParts
<1>3. ASSUME DrainReceive PROVE CleanParts'
  <2> DEFINE h == Head(queue[old])
  <2>1. /\ old \in Chans /\ queue[old] # <<>> /\ moving' = h
        /\ queue' = [queue EXCEPT ![old] = Tail(@)]
        /\ UNCHANGED <<settings, syncPool, clean, pc, val>>
    BY <1>0, <1>3 DEF DrainReceive, poolVars, userVars, TypeOK
  <2>2. h \in Range(queue[old]) /\ Range(Tail(queue[old])) \subseteq Range(queue[old])
    BY <1>0, <2>1, TailOnce DEF TypeOK
  <2>3. \A d \in Chans : Range(queue'[d]) \subseteq Range(queue[d])
    BY <1>0, <2>1, <2>2 DEF TypeOK
  <2> QED BY <2>1, <2>2, <2>3 DEF CleanParts
<1>4. ASSUME DrainSend PROVE CleanParts'
  <2>1. /\ gpc = "move" /\ moving' = None
        /\ queue' = [queue EXCEPT ![freelist] = Append(@, moving)]
        /\ UNCHANGED <<settings, syncPool, clean, pc, val>>
    BY <1>4 DEF DrainSend, poolVars, userVars
  <2>2. moving \in Values /\ freelist \in Chans /\ moving # None
    BY <1>0, <2>1, GrowerFacts DEF Nil, Chans
  <2>3. Range(Append(queue[freelist], moving)) = Range(queue[freelist]) \cup {moving}
    BY <1>0, <2>2, AppendOnce DEF TypeOK
  <2>4. \A d \in Chans : Range(queue'[d]) \subseteq Range(queue[d]) \cup {moving}
    BY <1>0, <2>1, <2>2, <2>3 DEF TypeOK
  <2> QED BY <2>1, <2>2, <2>4 DEF CleanParts
<1>5. ASSUME DrainEnd PROVE CleanParts'
  BY <1>5 DEF DrainEnd, poolVars, userVars, CleanParts
<1> QED
  BY <1>1, <1>2, <1>3, <1>4, <1>5 DEF Growth

\* With a Reseter, every value in the freelist, in the sync.Pool, on its way
\* between two freelists or just taken by a Get is in its reset state, however
\* puts, growths and the writes of other users interleave.
THEOREM StoredClean == Spec => []CleanWhenStored
<1>1. Init => ExclusiveInv /\ CleanParts
  BY ExclusiveInit, CleanInit
<1>2. ExclusiveInv /\ CleanParts /\ [Next]_vars => (ExclusiveInv /\ CleanParts)'
  <2> SUFFICES ASSUME ExclusiveInv, CleanParts, [Next]_vars PROVE CleanParts'
    BY ExclusiveNext
  <2>1. CASE Next
    BY <2>1, CleanUser, CleanOther DEF Next
  <2>2. CASE UNCHANGED vars
    BY <2>2 DEF vars, CleanParts
  <2> QED BY <2>1, <2>2
<1>3. CleanParts => CleanWhenStored
  BY CleanSplit
<1> QED BY <1>1, <1>2, <1>3, PTL DEF Spec

-----------------------------------------------------------------------------
(***************************************************************************)
(* The capacity of the freelist.  A channel that is not made yet is empty, *)
(* and what growth has settled on is already within the limits.            *)
(***************************************************************************)
WithinLimits(n) ==
  /\ n >= settings.base /\ n > 0
  /\ settings.grow /\ settings.maximum > 0 => n <= settings.maximum

CapacityInv ==
  /\ freelist # Nil => WithinLimits(capacity[freelist])
  /\ \A c \in Chans : Len(queue[c]) <= capacity[c]
  /\ \A c \in Chans : c > freelist => queue[c] = <<>>
  /\ gpc = "swap" => WithinLimits(target)

\* growth clamps whatever the Grower answers.
LEMMA NewSizeInLimits ==
  ASSUME settings \in Settings, Valid(settings), NEW v \in Int, NEW size \in Nat,
         NewSize(v, size) # Nil
  PROVE  WithinLimits(NewSize(v, size))
<1>1. /\ settings.base \in Nat /\ settings.maximum \in Int
      /\ settings.grow \in BOOLEAN
  BY ValidBase, SettingsAssumption
<1>2. settings.grow /\ settings.maximum > 0 => settings.base < settings.maximum
  BY <1>1 DEF Valid, ZeroFreeList
<1> QED BY <1>1, <1>2 DEF NewSize, WithinLimits, Nil

\* A step that leaves the channels, their capacities and the settings alone.
LEMMA CapacityStays ==
  ASSUME CapacityInv, UNCHANGED <<settings, freelist, queue, capacity>>,
         gpc' = "swap" => WithinLimits(target)'
  PROVE  CapacityInv'
BY DEF CapacityInv, WithinLimits

LEMMA CapacityInit == Init => CapacityInv
<1> SUFFICES ASSUME Init PROVE CapacityInv
  OBVIOUS
<1>1. /\ settings \in Settings /\ Valid(settings)
      /\ settings.base \in Nat /\ settings.maximum \in Int
  BY ValidBase, SettingsAssumption DEF Init
<1>2. settings.grow /\ settings.maximum > 0 => settings.base < settings.maximum
  BY <1>1 DEF Valid, ZeroFreeList
<1>3. freelist = (IF settings.base > 0 THEN 1 ELSE 0) /\ gpc # "swap"
  BY DEF Init, Nil
<1>4. capacity = [c \in Chans |-> IF c = 1 /\ settings.base > 0
                                  THEN settings.base ELSE 0]
  BY DEF Init
<1>5. PICK fill \in Prefills(settings) :
        queue = [c \in Chans |-> IF c = 1 THEN fill ELSE <<>>]
  BY DEF Init
<1>6. fill = <<>> \/ fill \in [1 .. settings.base -> Values]
  BY <1>5 DEF Prefills, Injection
<1>7. fill \in Seq(Values) /\ Len(fill) <= settings.base
  <2>1. CASE fill = <<>>
    BY <1>1, <2>1
  <2>2. CASE fill \in [1 .. settings.base -> Values]
    BY <1>1, <2>2
  <2> QED BY <1>6, <2>1, <2>2
<1>8. settings.base = 0 => fill = <<>>
  BY <1>1, <1>7
<1>9. /\ freelist # Nil => WithinLimits(capacity[freelist])
      /\ \A c \in Chans : Len(queue[c]) <= capacity[c]
  BY <1>1, <1>2, <1>3, <1>4, <1>5, <1>7, <1>8, BoundsAssumption
  DEF WithinLimits, Nil, Chans
<1>10. \A c \in Chans : c > freelist => queue[c] = <<>>
  <2>1. CASE settings.base = 0
    BY <1>5, <1>8, <2>1
  <2>2. CASE settings.base # 0
    BY <1>1, <1>3, <1>5, <2>2 DEF Chans
  <2> QED BY <2>1, <2>2
<1> QED BY <1>3, <1>9, <1>10 DEF CapacityInv

\* Receiving from a channel makes room, sending to one takes it.
LEMMA CapacityQueue ==
  ASSUME TypeOK, CapacityInv, NEW c \in Chans, c <= freelist, NEW q \in Seq(Values),
         Len(q) <= capacity[c], queue' = [queue EXCEPT ![c] = q],
         UNCHANGED <<settings, freelist, capacity>>,
         gpc' = "swap" => gpc = "swap" /\ target' = target
  PROVE  CapacityInv'
<1>1. queue \in [Chans -> Seq(Values)]
  BY PoolFacts
<1>2. /\ queue'[c] = q /\ ~(c > freelist)
      /\ \A d \in Chans \ {c} : queue'[d] = queue[d]
  BY <1>1, GrowerFacts DEF Chans
<1> QED BY <1>2 DEF CapacityInv, WithinLimits

LEMMA CapacityUser ==
  ASSUME TypeOK, CapacityInv, NEW u \in Users,
         GetLoad(u) \/ Get(u) \/ UserWrites(u) \/ Put(u)
  PROVE  CapacityInv'
<1>1. ASSUME GetReceive(u) PROVE CapacityInv'
  <2> DEFINE c == fl[u]
  <2>1. /\ c \in Chans /\ c <= freelist /\ queue[c] # <<>> /\ queue[c] \in Seq(Values)
        /\ queue' = [queue EXCEPT ![c] = Tail(@)]
        /\ UNCHANGED <<settings, freelist, capacity, gpc, target>>
    BY <1>1, UserFacts, PoolFacts DEF GetReceive, poolVars, growerVars, Nil
  <2>2. Tail(queue[c]) \in Seq(Values) /\ Len(Tail(queue[c])) <= capacity[c]
    BY <2>1, GrowerFacts DEF CapacityInv
  <2> QED BY <2>1, <2>2, CapacityQueue
<1>2. ASSUME PutSend(u) PROVE CapacityInv'
  <2> DEFINE c == fl[u]
  <2>1. /\ c \in Chans /\ c <= freelist /\ val[u] \in Values /\ queue[c] \in Seq(Values)
        /\ UNCHANGED <<settings, freelist, capacity, gpc, target>>
    BY <1>2, UserFacts, PoolFacts DEF PutSend, poolVars, growerVars, InHand, Giving
  <2>2. CASE HasRoom(c)
    <3>1. queue' = [queue EXCEPT ![c] = Append(queue[c], val[u])]
      BY <1>2, <2>2 DEF PutSend
    <3>2. /\ Append(queue[c], val[u]) \in Seq(Values)
          /\ Len(Append(queue[c], val[u])) <= capacity[c]
      BY <2>1, <2>2, GrowerFacts DEF HasRoom
    <3> QED BY <2>1, <3>1, <3>2, CapacityQueue
  <2>3. CASE ~HasRoom(c)
    <3>1. queue' = queue
      BY <1>2, <2>3 DEF PutSend
    <3> QED BY <2>1, <3>1, CapacityStays DEF CapacityInv, WithinLimits
  <2> QED BY <2>2, <2>3
<1>3. ASSUME ~GetReceive(u), ~PutSend(u) PROVE CapacityInv'
  <2>1. UNCHANGED <<settings, freelist, queue, capacity, gpc, target>>
    BY <1>3 DEF Get, Put, GetLoad, GetDefault, GetTick, SyncPoolHit, CallNewer, GetCount,
                UserWrites, PutReset, PutCount, PutLoad, Count, poolVars, growerVars,
                userVars
  <2> QED BY <2>1 DEF CapacityInv, WithinLimits
<1> QED BY <1>1, <1>2, <1>3

LEMMA CapacityOther ==
  ASSUME TypeOK, CapacityInv,
         SyncPoolGC \/ GrowthMeasure \/ Growth \/ GrowerExit \/ Close
  PROVE  CapacityInv'
<1>1. ASSUME SyncPoolGC \/ GrowerExit \/ DrainEnd \/ Close PROVE CapacityInv'
  <2>1. /\ UNCHANGED <<settings, freelist, queue, capacity>>
        /\ gpc' = "swap" => gpc = "swap" /\ target' = target
    BY <1>1 DEF SyncPoolGC, GrowerExit, DrainEnd, Close, poolVars, growerVars, userVars
  <2> QED BY <2>1 DEF CapacityInv, WithinLimits
<1>2. ASSUME GrowthMeasure PROVE CapacityInv'
  <2>1. UNCHANGED <<settings, freelist, queue, capacity>>
    BY <1>2 DEF GrowthMeasure, Tick, poolVars
  <2>2. ASSUME gpc' = "swap" PROVE WithinLimits(target')
    <3>1. PICK v \in Answers : /\ target' = NewSize(v, capacity[freelist])
                               /\ target' # Nil
      BY <1>2, <2>2 DEF GrowthMeasure, Tick
    <3>2. freelist \in Chans
      BY <1>2, <2>2, GrowerFacts DEF GrowthMeasure, Tick
    <3>3. /\ settings \in Settings /\ Valid(settings)
          /\ v \in Int /\ capacity[freelist] \in Nat
      BY <3>2, AnswersAssumption, GrowerFacts DEF TypeOK
    <3> QED BY <3>1, <3>3, NewSizeInLimits
  <2> QED BY <2>1, <2>2 DEF CapacityInv, WithinLimits
<1>3. ASSUME GrowthSwap PROVE CapacityInv'
  <2>1. /\ gpc = "swap" /\ freelist \in 1 .. MaxGrowths
        /\ freelist' = freelist + 1 /\ gpc' = "drain"
        /\ capacity' = [capacity EXCEPT ![freelist + 1] = target]
        /\ UNCHANGED <<settings, queue>>
    BY <1>3, GrowerFacts DEF GrowthSwap, poolVars
  <2>2. /\ freelist + 1 \in Chans /\ target \in Nat
        /\ capacity'[freelist + 1] = target
        /\ \A c \in Chans \ {freelist + 1} : capacity'[c] = capacity[c]
    BY <2>1, GrowerFacts, BoundsAssumption DEF Chans
  <2>3. queue[freelist + 1] = <<>> /\ WithinLimits(target)
    BY <2>1, <2>2 DEF CapacityInv
  <2>4. \A c \in Chans : Len(queue[c]) <= capacity'[c]
    BY <2>2, <2>3 DEF CapacityInv
  <2>5. \A c \in Chans : c > freelist' => queue[c] = <<>>
    BY <2>1 DEF CapacityInv, Chans
  <2> QED BY <2>1, <2>2, <2>3, <2>4, <2>5 DEF CapacityInv, WithinLimits
<1>4. ASSUME DrainReceive PROVE CapacityInv'
  <2>1. /\ old \in Chans /\ old <= freelist /\ queue[old] # <<>>
        /\ queue[old] \in Seq(Values)
        /\ queue' = [queue EXCEPT ![old] = Tail(@)] /\ gpc' # "swap"
        /\ UNCHANGED <<settings, freelist, capacity>>
    BY <1>4, GrowerFacts DEF DrainReceive, poolVars, Nil, Chans
  <2>2. /\ Tail(queue[old]) \in Seq(Values) /\ Len(Tail(queue[old])) <= capacity[old]
        /\ queue' = [queue EXCEPT ![old] = Tail(queue[old])]
    BY <2>1, GrowerFacts DEF CapacityInv
  <2> QED BY <2>1, <2>2, CapacityQueue
<1>5. ASSUME DrainSend PROVE CapacityInv'
  <2>1. /\ freelist \in Chans /\ HasRoom(freelist) /\ moving \in Values
        /\ queue[freelist] \in Seq(Values)
        /\ queue' = [queue EXCEPT ![freelist] = Append(queue[freelist], moving)]
        /\ gpc' # "swap" /\ UNCHANGED <<settings, freelist, capacity>>
    BY <1>5, GrowerFacts DEF DrainSend, poolVars, Nil, Chans
  <2>2. /\ Append(queue[freelist], moving) \in Seq(Values)
        /\ Len(Append(queue[freelist], moving)) <= capacity[freelist]
    BY <2>1, GrowerFacts DEF HasRoom
  <2>3. freelist <= freelist
    BY <2>1 DEF Chans
  <2> QED BY <2>1, <2>2, <2>3, CapacityQueue
<1> QED
  BY <1>1, <1>2, <1>3, <1>4, <1>5 DEF Growth

LEMMA CapacityNext == TypeOK /\ CapacityInv /\ [Next]_vars => CapacityInv'
<1> SUFFICES ASSUME TypeOK, CapacityInv, [Next]_vars PROVE CapacityInv'
  OBVIOUS
<1>1. CASE Next
  BY <1>1, CapacityUser, CapacityOther DEF Next
<1>2. CASE UNCHANGED vars
  BY <1>2 DEF vars, CapacityInv, WithinLimits
<1> QED BY <1>1, <1>2

\* Whatever integer the Grower answers, the freelist that growth makes has a
\* capacity from Base to Maximum, and no freelist, the replaced ones included,
\* ever holds more than its capacity.
THEOREM CapacityBounded == Spec => []CapacityInBounds
<1>1. Init => TypeOK /\ CapacityInv
  BY TypeInit, CapacityInit
<1>2. TypeOK /\ CapacityInv /\ [Next]_vars => TypeOK' /\ CapacityInv'
  BY TypeNext, CapacityNext
<1>3. CapacityInv => CapacityInBounds
  BY DEF CapacityInv, CapacityInBounds, WithinLimits
<1> QED BY <1>1, <1>2, <1>3, PTL DEF Spec

-----------------------------------------------------------------------------
(***************************************************************************)
(* The pool implements ValuePool.  Its receives, hits of the sync.Pool and *)
(* calls of newer() are the Gets, its send is the Put; what the garbage    *)
(* collector takes, and what growth drops, is lost.                        *)
(***************************************************************************)

Pooled == syncPool \cup (UNION {Range(queue[c]) : c \in Chans}) \cup ({moving} \ {None})

InQueue(v) == \E c \in Chans : v \in Range(queue[c])

LEMMA PooledHas ==
  /\ \A v : v \in Pooled <=> v \in syncPool \/ InQueue(v) \/ (v = moving /\ v # None)
  /\ \A v : v \in Pooled' <=> v \in syncPool' \/ InQueue(v)' \/ (v = moving' /\ v # None)
<1>1. ASSUME NEW v
      PROVE  /\ v \in UNION {Range(queue[c]) : c \in Chans} <=> InQueue(v)
             /\ v \in UNION {Range(queue'[c]) : c \in Chans} <=> InQueue(v)'
  BY DEF InQueue
<1>2. \A v : v \in Pooled <=> v \in syncPool \/ InQueue(v) \/ (v = moving /\ v # None)
  BY <1>1 DEF Pooled
<1>3. \A v : v \in Pooled' <=> v \in syncPool' \/ InQueue(v)' \/ (v = moving' /\ v # None)
  BY <1>1 DEF Pooled
<1> QED BY <1>2, <1>3

\* What a receive leaves in a channel is all but the value that was received.
LEMMA TailRest ==
  ASSUME NEW S, NEW s \in Seq(S), s # <<>>
  PROVE  Range(s) = Range(Tail(s)) \cup {Head(s)}
<1>1. /\ DOMAIN s = 1 .. Len(s) /\ Len(s) \in Nat /\ Len(s) > 0
      /\ DOMAIN Tail(s) = 1 .. Len(s) - 1
      /\ \A i \in 1 .. Len(s) - 1 : Tail(s)[i] = s[i + 1]
      /\ Head(s) = s[1]
  OBVIOUS
<1>2. ASSUME NEW i \in 1 .. Len(s) PROVE s[i] = Head(s) \/ s[i] \in Range(Tail(s))
  <2>1. CASE i = 1
    BY <1>1, <2>1
  <2>2. CASE i # 1
    <3>1. i - 1 \in 1 .. Len(s) - 1 /\ Tail(s)[i - 1] = s[(i - 1) + 1] /\ (i - 1) + 1 = i
      BY <1>1, <2>2
    <3> QED BY <1>1, <3>1 DEF Range
  <2> QED BY <2>1, <2>2
<1>3. Range(Tail(s)) \cup {Head(s)} \subseteq Range(s)
  BY TailOnce
<1>4. Range(s) = {s[i] : i \in 1 .. Len(s)}
  BY <1>1 DEF Range
<1> QED BY <1>2, <1>3, <1>4

\* A step that moves no value.
LEMMA StutterVP ==
  ASSUME UNCHANGED <<queue, syncPool, val, moving>>
  PROVE  [VP!Next]_VP!vars
BY DEF VP!vars

\* A Get ends with a value in hand that nobody else has and the pool no longer has.
LEMMA GetVP ==
  ASSUME TypeOK, NEW u \in Users, pc[u] \notin InHand, pc[u] # "panic", NEW v \in Values,
         \A w \in Users : val[w] # v,
         val' = [val EXCEPT ![u] = v], Pooled' = Pooled \ {v}
  PROVE  [VP!Next]_VP!vars
<1>1. val[u] = None
  BY DEF TypeOK
<1>2. VP!Get(u)
  BY <1>1 DEF VP!Get, VP!Free, Pooled
<1> QED BY <1>2 DEF VP!Next

LEMMA UserVP ==
  ASSUME ExclusiveInv, NEW u \in Users,
         GetLoad(u) \/ Get(u) \/ UserWrites(u) \/ Put(u)
  PROVE  [VP!Next]_VP!vars
<1> USE NoneAssumption
<1>0. TypeOK /\ FromNewer /\ OnceInQueues /\ OnceInHands /\ HandsApartFromStores
  BY DEF ExclusiveInv, Exclusive
<1>1. CASE \/ GetLoad(u) \/ GetDefault(u) \/ GetTick(u) \/ GetCount(u)
           \/ UserWrites(u) \/ PutReset(u) \/ PutCount(u) \/ PutLoad(u)
  <2>1. UNCHANGED <<queue, syncPool, val, moving>>
    BY <1>1 DEF GetLoad, GetDefault, GetTick, GetCount, UserWrites, PutReset,
                PutCount, PutLoad, Count, poolVars, growerVars, userVars
  <2> QED BY <2>1, StutterVP
<1>2. CASE GetReceive(u)
  <2> DEFINE c == fl[u]
             h == Head(queue[c])
  <2>1. /\ c \in Chans /\ queue[c] # <<>> /\ pc[u] = "select"
        /\ queue' = [queue EXCEPT ![c] = Tail(@)]
        /\ val' = [val EXCEPT ![u] = h]
        /\ UNCHANGED <<syncPool, moving>>
    BY <1>0, <1>2 DEF GetReceive, growerVars, TypeOK
  <2>2. /\ h \in Values /\ h \notin syncPool /\ h # moving
        /\ \A d \in Chans : h \notin Range(queue'[d])
        /\ \A w \in Users : h # val[w]
    BY <2>1, Receiving
  <2>3. /\ Range(queue[c]) = Range(queue'[c]) \cup {h}
        /\ \A d \in Chans \ {c} : queue'[d] = queue[d]
    BY <1>0, <2>1, TailRest DEF TypeOK
  <2>4. \A v : InQueue(v)' <=> v # h /\ InQueue(v)
    BY <2>1, <2>2, <2>3 DEF InQueue
  <2> HIDE DEF c, h
  <2>5. Pooled' = Pooled \ {h}
    BY <2>1, <2>2, <2>4, PooledHas
  <2>6. pc[u] \notin InHand /\ pc[u] # "panic"
    BY <2>1 DEF InHand, Taken, Giving
  <2> QED BY <1>0, <2>1, <2>2, <2>5, <2>6, GetVP
<1>3. CASE SyncPoolHit(u)
  <2>1. PICK v \in syncPool : /\ val' = [val EXCEPT ![u] = v]
                             /\ syncPool' = syncPool \ {v}
    BY <1>3 DEF SyncPoolHit
  <2>2. UNCHANGED <<queue, moving>> /\ pc[u] = "syncGet" /\ v \in Values
    BY <1>0, <1>3, <2>1 DEF SyncPoolHit, growerVars, TypeOK
  <2>3. /\ v # moving /\ \A w \in Users : val[w] # v
        /\ \A d \in Chans : v \notin Range(queue[d])
    BY <1>0, <2>1 DEF HandsApartFromStores, OnceInQueues
  <2>4. Pooled' = Pooled \ {v}
    <3>1. \A w : InQueue(w)' <=> InQueue(w)
      BY <2>2 DEF InQueue
    <3>2. ~InQueue(v)
      BY <2>3 DEF InQueue
    <3> QED BY <2>1, <2>2, <2>3, <3>1, <3>2, PooledHas
  <2>5. pc[u] \notin InHand /\ pc[u] # "panic"
    BY <2>2 DEF InHand, Taken, Giving
  <2> QED BY <1>0, <2>1, <2>2, <2>3, <2>4, <2>5, GetVP
<1>4. CASE CallNewer(u)
  <2>1. PICK v \in Fresh : val' = [val EXCEPT ![u] = v]
    BY <1>4 DEF CallNewer
  <2>2. /\ UNCHANGED <<queue, syncPool, moving>> /\ pc[u] \in {"syncGet", "newer"}
        /\ v \in Values /\ v \notin created
    BY <1>4, <2>1 DEF CallNewer, growerVars, Fresh
  <2>3. /\ v \notin syncPool /\ v # moving /\ \A w \in Users : val[w] # v
        /\ \A d \in Chans : v \notin Range(queue[d])
    BY <1>0, <2>2 DEF FromNewer
  <2>4. Pooled' = Pooled \ {v}
    <3>1. \A w : InQueue(w)' <=> InQueue(w)
      BY <2>2 DEF InQueue
    <3>2. ~InQueue(v)
      BY <2>3 DEF InQueue
    <3> QED BY <2>2, <2>3, <3>1, <3>2, PooledHas
  <2>5. pc[u] \notin InHand /\ pc[u] # "panic"
    BY <2>2 DEF InHand, Taken, Giving
  <2> QED BY <1>0, <2>1, <2>2, <2>3, <2>4, <2>5, GetVP
<1>5. CASE PutSend(u)
  <2> DEFINE v == val[u]
             c == fl[u]
  <2>1. /\ c \in Chans /\ v \in Values /\ v # None /\ moving' = moving
        /\ val' = [val EXCEPT ![u] = None] /\ queue[c] \in Seq(Values)
    BY <1>0, <1>5 DEF PutSend, TypeOK, InHand, Giving, growerVars
  <2>2. CASE HasRoom(c)
    <3>1. queue' = [queue EXCEPT ![c] = Append(@, v)] /\ syncPool' = syncPool
      BY <1>5, <2>2 DEF PutSend
    <3>2. queue'[c] = Append(queue[c], v) /\ \A d \in Chans \ {c} : queue'[d] = queue[d]
      BY <1>0, <2>1, <3>1 DEF TypeOK
    <3>3. Range(queue'[c]) = Range(queue[c]) \cup {v}
      BY <2>1, <3>2, AppendOnce
    <3>4. \A w : InQueue(w)' <=> InQueue(w) \/ w = v
      BY <2>1, <3>2, <3>3 DEF InQueue
    <3> HIDE DEF v, c
    <3>5. Pooled' = Pooled \cup {v}
      BY <2>1, <3>1, <3>4, PooledHas
    <3>6. VP!Put(u)
      BY <2>1, <3>5 DEF VP!Put, Pooled, v
    <3> QED BY <3>6 DEF VP!Next
  <2>3. CASE ~HasRoom(c)
    <3>1. queue' = queue /\ syncPool' \in {syncPool, syncPool \cup {v}}
      BY <1>5, <2>3 DEF PutSend
    <3>a. \A w : InQueue(w)' <=> InQueue(w)
      BY <3>1 DEF InQueue
    <3> HIDE DEF v, c
    <3>2. Pooled' = Pooled \cup {v} \/ Pooled' = Pooled
      <4>1. CASE syncPool' = syncPool
        <5>1. \A w : w \in Pooled' <=> w \in Pooled
          BY <2>1, <3>a, <4>1, PooledHas
        <5>2. Pooled' = Pooled
          BY <5>1
        <5> QED BY <5>2
      <4>2. CASE syncPool' = syncPool \cup {v}
        BY <2>1, <3>a, <4>2, PooledHas
      <4> QED BY <3>1, <4>1, <4>2
    <3>3. VP!Put(u)
      BY <2>1, <3>2 DEF VP!Put, Pooled, v
    <3> QED BY <3>3 DEF VP!Next
  <2> QED BY <2>2, <2>3
<1> QED BY <1>1, <1>2, <1>3, <1>4, <1>5 DEF Get, Put

LEMMA OtherVP ==
  ASSUME ExclusiveInv, SyncPoolGC \/ GrowthMeasure \/ Growth \/ GrowerExit \/ Close
  PROVE  [VP!Next]_VP!vars
<1> USE NoneAssumption
<1>0. TypeOK /\ FromNewer /\ OnceInQueues /\ OnceInHands /\ HandsApartFromStores
  BY DEF ExclusiveInv, Exclusive
<1>a. ASSUME UNCHANGED val, NEW v \in Pooled, Pooled' = Pooled \ {v}
      PROVE  [VP!Next]_VP!vars
  <2>1. VP!Lose
    BY <1>a DEF VP!Lose, Pooled
  <2> QED BY <2>1 DEF VP!Next
<1>1. CASE GrowthMeasure \/ GrowthSwap \/ GrowerExit \/ Close
  <2>1. UNCHANGED <<queue, syncPool, val, moving>>
    BY <1>1 DEF GrowthMeasure, Tick, GrowthSwap, GrowerExit, Close, poolVars, growerVars, userVars
  <2> QED BY <2>1, StutterVP
<1>2. CASE SyncPoolGC
  <2>1. PICK v \in syncPool : syncPool' = syncPool \ {v}
    BY <1>2 DEF SyncPoolGC
  <2>2. UNCHANGED <<queue, val, moving>>
    BY <1>2 DEF SyncPoolGC, growerVars, userVars
  <2>3. v # moving /\ \A d \in Chans : v \notin Range(queue[d])
    BY <1>0 DEF HandsApartFromStores, OnceInQueues
  <2>4. v \in Pooled /\ Pooled' = Pooled \ {v}
    <3>1. (\A w : InQueue(w)' <=> InQueue(w)) /\ ~InQueue(v)
      BY <2>2, <2>3 DEF InQueue
    <3> QED BY <2>1, <2>2, <2>3, <3>1, PooledHas
  <2> QED BY <1>a, <2>2, <2>4
<1>3. CASE DrainReceive
  <2> DEFINE h == Head(queue[old])
  <2>1. /\ old \in Chans /\ queue[old] # <<>> /\ moving = None /\ moving' = h
        /\ queue' = [queue EXCEPT ![old] = Tail(@)] /\ UNCHANGED <<syncPool, val>>
    BY <1>0, <1>3 DEF DrainReceive, TypeOK, userVars
  <2>2. Range(queue[old]) = Range(queue'[old]) \cup {h} /\ h # None
        /\ \A d \in Chans \ {old} : queue'[d] = queue[d]
    BY <1>0, <2>1, TailRest, TailOnce DEF TypeOK
  <2>3. \A v : InQueue(v) <=> InQueue(v)' \/ v = h
    BY <2>1, <2>2 DEF InQueue
  <2> HIDE DEF h
  <2>4. Pooled' = Pooled
    BY <2>1, <2>2, <2>3, PooledHas
  <2> QED BY <2>1, <2>4 DEF VP!vars, Pooled
<1>4. CASE DrainSend
  <2>1. /\ freelist \in Chans /\ moving \in Values /\ moving' = None
        /\ queue' = [queue EXCEPT ![freelist] = Append(@, moving)] /\ UNCHANGED <<syncPool, val>>
    BY <1>0, <1>4, BoundsAssumption DEF DrainSend, TypeOK, userVars, Nil, Chans
  <2>2. /\ Range(queue'[freelist]) = Range(queue[freelist]) \cup {moving}
        /\ \A d \in Chans \ {freelist} : queue'[d] = queue[d]
    BY <1>0, <2>1, AppendOnce DEF TypeOK
  <2>3. \A v : InQueue(v)' <=> InQueue(v) \/ v = moving
    BY <2>1, <2>2 DEF InQueue
  <2>4. Pooled' = Pooled
    BY <2>1, <2>3, PooledHas
  <2> QED BY <2>1, <2>4 DEF VP!vars, Pooled
<1>5. CASE DrainEnd
  <2>1. moving' = None /\ UNCHANGED <<queue, syncPool, val>>
    BY <1>5 DEF DrainEnd, userVars
  <2>2. CASE moving = None
    BY <2>1, <2>2, StutterVP
  <2>3. CASE moving # None
    <3>1. moving \notin syncPool /\ \A d \in Chans : moving \notin Range(queue[d])
      BY <1>0 DEF HandsApartFromStores
    <3>a. (\A w : InQueue(w)' <=> InQueue(w)) /\ ~InQueue(moving)
      BY <2>1, <3>1 DEF InQueue
    <3>2. moving \in Pooled /\ Pooled' = Pooled \ {moving}
      BY <2>1, <2>3, <3>1, <3>a, PooledHas
    <3> QED BY <1>a, <2>1, <3>2
  <2> QED BY <2>2, <2>3
<1> QED BY <1>1, <1>2, <1>3, <1>4, <1>5 DEF Growth

LEMMA InitVP == Init => VP!Init
<1> SUFFICES ASSUME Init PROVE VP!Init
  OBVIOUS
<1>1. TypeOK
  BY TypeInit
<1>2. \A c \in Chans : Range(queue[c]) \subseteq Values
  BY <1>1 DEF TypeOK, Range
<1> QED BY <1>1, <1>2 DEF VP!Init, Init, TypeOK

LEMMA NextVP == ExclusiveInv /\ [Next]_vars => [VP!Next]_VP!vars
<1> SUFFICES ASSUME ExclusiveInv, [Next]_vars PROVE [VP!Next]_VP!vars
  OBVIOUS
<1>1. CASE UNCHANGED vars
  BY <1>1, StutterVP DEF vars
<1> QED BY <1>1, UserVP, OtherVP DEF Next

\* The pool promises what ValuePool does: whatever is replaced and drained meanwhile,
\* a value enters the pool only from the hand of its one user, and a Get takes one
\* that nobody has.
THEOREM PoolRefines == Spec => Implements
<1>1. Init => ExclusiveInv /\ VP!Init
  BY ExclusiveInit, InitVP
<1>2. ExclusiveInv /\ [Next]_vars => ExclusiveInv' /\ [VP!Next]_VP!vars
  BY ExclusiveNext, NextVP
<1> QED BY <1>1, <1>2, PTL DEF Spec, Implements, VP!Spec


=============================================================================
