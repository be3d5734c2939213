--------------------------- MODULE DiffSizeProofs ---------------------------
(***************************************************************************)
(* Theorems about DiffSize, for every number of users and buffers, every   *)
(* finite configuration New accepts, and every request and capacity.       *)
(***************************************************************************)
EXTENDS DiffSize, FiniteSetTheorems, WellFoundedInduction, TLAPS

(***************************************************************************)
(* The stores: there is a largest, and a smallest that is large enough.    *)
(***************************************************************************)
LEMMA LeastExists ==
  ASSUME NEW S \in SUBSET Nat, S # {}
  PROVE  Min(S) \in S /\ \A y \in S : Min(S) <= y
<1> DEFINE less == OpToRel(<, Nat)
<1>1. \A x, y \in Nat : x < y => <<x, y>> \in less
  BY Zenon DEF OpToRel
<1>2. IsWellFoundedOn(less, Nat)
  BY NatLessThanWellFounded DEF OpToRel
<1> HIDE DEF less
<1>3. PICK x \in S : \A y \in S : <<y, x>> \notin less
  BY <1>2, WFMin
<1>4. ASSUME NEW y \in S PROVE x <= y
  <2>1. ~(y < x)
    BY <1>1, <1>3
  <2> QED BY <2>1
<1> QED BY <1>4 DEF Min

LEMMA GreatestExists ==
  ASSUME NEW S \in SUBSET Nat, IsFiniteSet(S), S # {}
  PROVE  Max(S) \in S /\ \A y \in S : y <= Max(S)
<1> DEFINE HasMax(T) == \E x \in T : \A y \in T : y <= x
           Sizes == {n \in Nat : \E T \in SUBSET S : T # {} /\ Cardinality(T) = n /\ ~HasMax(T)}
<1>1. SUFFICES ASSUME ~HasMax(S) PROVE FALSE
  BY DEF Max
<1>2. Cardinality(S) \in Sizes
  BY <1>1, FS_CardinalityType
<1> HIDE DEF Sizes
<1>3. Sizes \subseteq Nat /\ Sizes # {}
  BY <1>2 DEF Sizes
<1>4. PICK n \in Sizes : \A m \in Sizes : n <= m
  BY <1>3, LeastExists
<1> USE DEF Sizes
<1>5. PICK T \in SUBSET S : T # {} /\ Cardinality(T) = n /\ ~HasMax(T)
  BY <1>4
<1>6. PICK x \in T : TRUE
  BY <1>5
<1> DEFINE R == T \ {x}
<1>7. /\ IsFiniteSet(T) /\ IsFiniteSet(R) /\ Cardinality(R) = n - 1
      /\ Cardinality(R) \in Nat /\ n \in Nat
  BY <1>5, FS_Subset, FS_RemoveElement, FS_CardinalityType
<1>8. HasMax(R) \/ R = {}
  <2>1. Cardinality(R) \notin Sizes
    BY <1>4, <1>7
  <2> QED BY <1>7, <2>1
<1>9. CASE R = {}
  <2>1. \A y \in T : y <= x
    BY <1>5, <1>9
  <2> QED BY <1>5, <2>1
<1>10. CASE HasMax(R)
  <2>1. PICK y \in R : \A z \in R : z <= y
    BY <1>10
  <2>2. x \in Nat /\ y \in Nat /\ R \subseteq Nat
    BY <1>5
  <2>3. CASE x <= y
    BY <1>5, <2>1, <2>3
  <2>4. CASE y <= x
    <3>1. \A z \in T : z <= x
      BY <1>5, <2>1, <2>2, <2>4
    <3> QED BY <1>5, <3>1
  <2> QED BY <2>2, <2>3, <2>4
<1> QED BY <1>8, <1>9, <1>10

Configured == settings \in Settings /\ Valid(settings.sizes)

LEMMA StoreFacts ==
  ASSUME Configured
  PROVE  /\ Stores \in SUBSET Nat /\ 0 \notin Stores
         /\ Largest \in Stores /\ \A s \in Stores : s <= Largest
         /\ \A n \in Nat : n <= Largest => GetStore(n) \in Stores /\ n <= GetStore(n)
         /\ \A s \in Stores : /\ Of(s) \in settings.sizes /\ Of(s).size = s
                              /\ Of(s) \in SizeRecords /\ ValidSize(Of(s))
<1>1. /\ settings.sizes \in SUBSET SizeRecords /\ IsFiniteSet(settings.sizes)
      /\ settings.sizes # {} /\ \A z \in settings.sizes : ValidSize(z)
  BY SettingsAssumption, SizesAssumption DEF Configured, Valid
<1>2. Stores \in SUBSET Nat /\ 0 \notin Stores /\ Stores # {}
  BY <1>1 DEF Stores, SizeRecords, ValidSize
<1>3. IsFiniteSet(Stores)
  <2> DEFINE f == [z \in settings.sizes |-> z.size]
  <2>1. f \in Surjection(settings.sizes, Stores)
    BY DEF Surjection, Stores
  <2> QED BY <1>1, <2>1, FS_Surjection DEF ExistsSurjection
<1>4. Largest \in Stores /\ \A s \in Stores : s <= Largest
  BY <1>2, <1>3, GreatestExists DEF Largest
<1>5. ASSUME NEW n \in Nat, n <= Largest
      PROVE  GetStore(n) \in Stores /\ n <= GetStore(n)
  <2> DEFINE S == {s \in Stores : s >= n}
  <2>1. S \in SUBSET Nat /\ S # {}
    BY <1>2, <1>4, <1>5
  <2>2. Min(S) \in S
    BY <2>1, LeastExists
  <2> QED BY <2>2 DEF GetStore
<1>6. ASSUME NEW s \in Stores
      PROVE  /\ Of(s) \in settings.sizes /\ Of(s).size = s
             /\ Of(s) \in SizeRecords /\ ValidSize(Of(s))
  <2>1. \E z \in settings.sizes : z.size = s
    BY DEF Stores
  <2> QED BY <1>1, <2>1 DEF Of
<1> QED BY <1>2, <1>4, <1>5, <1>6

\* A step changes no settings: the stores stay what they are.
LEMMA StoresStay ==
  ASSUME settings' = settings
  PROVE  /\ Stores' = Stores /\ Largest' = Largest /\ \A s : Of(s)' = Of(s)
         /\ Configured' <=> Configured
BY DEF Stores, Largest, Of, Configured

-----------------------------------------------------------------------------
(***************************************************************************)
(* The type invariant.  It says that put finds a store: a buffer that      *)
(* names a pool names a store of that pool.                                *)
(***************************************************************************)
BufRecords == [cap : Nat, full : BOOLEAN, belongs : Nat, attached : BOOLEAN]
Phases == {"idle"} \cup InPackage \cup InHand

LEMMA TypeInit == Init => TypeOK
<1> SUFFICES ASSUME Init PROVE TypeOK
  OBVIOUS
<1>1. Configured
  BY DEF Init, Configured
<1>2. /\ settings \in {x \in Settings : Valid(x.sizes)}
      /\ \A u \in Users : pc[u] = "idle" /\ hold[u] = None /\ want[u] = 0 /\ store[u] = 0
      /\ pc \in [Users -> {"idle"}] /\ hold \in [Users -> {None}]
      /\ want \in [Users -> {0}] /\ store \in [Users -> {0}]
  BY DEF Init
<1>3. buff \in [Stores -> Seq(Buffers)]
  <2>1. /\ buff \in [Stores -> UNION {[1 .. n -> Buffers] :
                                        n \in {Preallocated(z) : z \in settings.sizes}}]
        /\ \A s \in Stores : DOMAIN buff[s] = 1 .. Preallocated(Of(s))
    BY DEF Init, Fillings
  <2>2. ASSUME NEW s \in Stores PROVE buff[s] \in Seq(Buffers)
    <3>1. Preallocated(Of(s)) \in Nat
      BY <1>1, StoreFacts DEF Preallocated, SizeRecords, ValidSize
    <3>2. PICK n \in {Preallocated(z) : z \in settings.sizes} : buff[s] \in [1 .. n -> Buffers]
      BY <2>1
    <3>3. buff[s] \in [1 .. Preallocated(Of(s)) -> Buffers]
      BY <2>1, <3>2
    <3> QED BY <3>1, <3>3
  <2> QED BY <2>1, <2>2
<1>4. pool \in [Stores -> [Buffers -> Nat]]
  BY DEF Init
<1>5. buf \in [Buffers -> BufRecords] /\ \A b \in Buffers : buf[b].attached = FALSE
  <2>1. ASSUME NEW b \in Buffers
        PROVE  buf[b] \in BufRecords /\ buf[b].attached = FALSE
    <3> DEFINE c == IF \E s \in Stores : b \in Range(buff[s])
                    THEN CHOOSE s \in Stores : b \in Range(buff[s]) ELSE 0
    <3>1. c \in Nat
      <4>1. CASE \E s \in Stores : b \in Range(buff[s])
        <5>1. (CHOOSE s \in Stores : b \in Range(buff[s])) \in Stores
          BY <4>1
        <5> QED BY <1>1, <4>1, <5>1, StoreFacts
      <4>2. CASE ~(\E s \in Stores : b \in Range(buff[s]))
        BY <4>2
      <4> QED BY <4>1, <4>2
    <3>2. buf[b] = Allocated(c, 0, FALSE)
      BY DEF Init
    <3> HIDE DEF c
    <3> QED BY <3>1, <3>2 DEF Allocated, BufRecords
  <2>2. buf = [b \in Buffers |-> buf[b]]
    BY DEF Init
  <2> QED BY <2>1, <2>2
<1> QED BY <1>2, <1>3, <1>4, <1>5 DEF TypeOK, BufRecords, InHand, InPackage

\* What TypeOK says of the parts a step touches.
LEMMA TypeFacts ==
  ASSUME TypeOK
  PROVE  /\ Configured
         /\ buff \in [Stores -> Seq(Buffers)] /\ pool \in [Stores -> [Buffers -> Nat]]
         /\ buf \in [Buffers -> BufRecords] /\ pc \in [Users -> Phases]
         /\ hold \in [Users -> Buffers \cup {None}] /\ want \in [Users -> Nat]
         /\ store \in [Users -> Stores \cup {0}]
         /\ \A b \in Buffers : buf[b].attached => buf[b].belongs \in Stores
         /\ \A u \in Users :
              /\ hold[u] # None <=> pc[u] \in InHand
              /\ pc[u] \in InHand => hold[u] \in Buffers
              /\ pc[u] \in InPackage \cup {"insert", "poolPut"} => store[u] \in Stores
BY DEF TypeOK, Configured, BufRecords, Phases

\* A step of user u, which is then at point to with buffer h in hand, on store s.
LEMMA TypeStep ==
  ASSUME TypeOK, NEW u \in Users, NEW to \in Phases, NEW h \in Buffers \cup {None},
         NEW n \in Nat, NEW s \in Stores \cup {0},
         pc' = [pc EXCEPT ![u] = to], hold' = [hold EXCEPT ![u] = h],
         want' = [want EXCEPT ![u] = n], store' = [store EXCEPT ![u] = s],
         h # None <=> to \in InHand,
         to \in InPackage \cup {"insert", "poolPut"} => s \in Stores,
         settings' = settings,
         buff' \in [Stores -> Seq(Buffers)], pool' \in [Stores -> [Buffers -> Nat]],
         buf' \in [Buffers -> BufRecords],
         \A b \in Buffers : buf'[b].attached => buf'[b].belongs \in Stores
  PROVE  TypeOK'
<1>1. /\ pc' \in [Users -> Phases] /\ hold' \in [Users -> Buffers \cup {None}]
      /\ want' \in [Users -> Nat] /\ store' \in [Users -> Stores \cup {0}]
  BY TypeFacts
<1>2. ASSUME NEW w \in Users
      PROVE  /\ hold'[w] # None <=> pc'[w] \in InHand
             /\ pc'[w] \in InPackage \cup {"insert", "poolPut"} => store'[w] \in Stores
  <2>1. CASE w = u
    BY <2>1, TypeFacts
  <2>2. CASE w # u
    <3>1. pc'[w] = pc[w] /\ hold'[w] = hold[w] /\ store'[w] = store[w]
      BY <2>2, TypeFacts
    <3> QED BY <3>1, TypeFacts
  <2> QED BY <2>1, <2>2
<1>3. settings' \in {x \in Settings : Valid(x.sizes)}
  BY TypeFacts DEF Configured
<1> QED BY <1>1, <1>2, <1>3, StoresStay DEF TypeOK, Phases, BufRecords

\* One buffer gets a new record.
LEMMA BufStep ==
  ASSUME TypeOK, NEW b \in Buffers, NEW r \in BufRecords, buf' = [buf EXCEPT ![b] = r],
         r.attached => r.belongs \in Stores
  PROVE  /\ buf' \in [Buffers -> BufRecords] /\ buf'[b] = r
         /\ \A c \in Buffers \ {b} : buf'[c] = buf[c]
         /\ \A c \in Buffers : buf'[c].attached => buf'[c].belongs \in Stores
<1>1. /\ buf' \in [Buffers -> BufRecords] /\ buf'[b] = r
      /\ \A c \in Buffers \ {b} : buf'[c] = buf[c]
  BY TypeFacts
<1> QED BY <1>1, TypeFacts

\* What a user had stays what it was.
LEMMA SameUser ==
  ASSUME TypeOK, NEW u \in Users
  PROVE  /\ hold = [hold EXCEPT ![u] = hold[u]] /\ want = [want EXCEPT ![u] = want[u]]
         /\ store = [store EXCEPT ![u] = store[u]]
         /\ hold[u] \in Buffers \cup {None} /\ want[u] \in Nat /\ store[u] \in Stores \cup {0}
BY TypeFacts

\* put's store for a buffer that names one.
LEMMA PutStoreFacts ==
  ASSUME Configured, NEW r \in BufRecords, r.belongs \in Stores
  PROVE  PutStore(r) \in Stores
BY StoreFacts DEF PutStore

LEMMA ResetFacts ==
  ASSUME NEW r \in BufRecords
  PROVE  /\ Reset(r) \in BufRecords /\ Reset(r).cap = r.cap
         /\ Reset(r).belongs = r.belongs /\ Reset(r).attached = r.attached
         /\ settings.kind = "slice" => Reset(r).full = TRUE
<1>1. (settings.kind = "slice" \/ r.cap = 0) \in BOOLEAN
  OBVIOUS
<1> QED BY <1>1 DEF Reset, BufRecords

-----------------------------------------------------------------------------
(***************************************************************************)
(* What the steps do, record by record: the form the invariants need.      *)
(***************************************************************************)
Named(r, s) == [r EXCEPT !.belongs = s, !.attached = TRUE]

LEMMA NamedFacts ==
  ASSUME NEW r \in BufRecords, NEW s \in Nat
  PROVE  /\ Named(r, s) \in BufRecords /\ Named(r, s).cap = r.cap
         /\ Named(r, s).full = r.full
         /\ Named(r, s).belongs = s /\ Named(r, s).attached = TRUE
BY DEF Named, BufRecords

\* User u, who had nothing, has b with the record r.
Takes(u, b, r) ==
  /\ pc[u] \notin InHand /\ hold[u] = None /\ b \in Buffers /\ r \in BufRecords
  /\ pc' = [pc EXCEPT ![u] = "got"] /\ hold' = [hold EXCEPT ![u] = b]
  /\ buf' = [buf EXCEPT ![b] = r] /\ settings' = settings
  /\ r.attached => r.belongs \in Stores

LEMMA ReceiveIs ==
  ASSUME TypeOK, NEW u \in Users, GetReceive(u)
  PROVE  LET s == store[u]
             b == Head(buff[s])
         IN  /\ s \in Stores /\ buff[s] # <<>> /\ buff[s] \in Seq(Buffers)
             /\ Takes(u, b, Named(buf[b], s))
             /\ buff' = [buff EXCEPT ![s] = Tail(buff[s])]
             /\ UNCHANGED <<pool, want, store>>
<1> DEFINE s == store[u]
           b == Head(buff[s])
<1>1. /\ pc[u] = "get" /\ buff[s] # <<>> /\ buff' = [buff EXCEPT ![s] = Tail(buff[s])]
      /\ buf' = [buf EXCEPT ![b] = Named(buf[b], s)]
      /\ pc' = [pc EXCEPT ![u] = "got"] /\ hold' = [hold EXCEPT ![u] = b]
      /\ UNCHANGED <<settings, pool, want, store>>
  BY DEF GetReceive, Take, Goto, Named
<1>2. s \in Stores /\ s \in Nat /\ buff[s] \in Seq(Buffers)
  BY <1>1, TypeFacts, StoreFacts DEF InPackage
<1>3. b \in Buffers /\ buf[b] \in BufRecords
  BY <1>1, <1>2, TypeFacts
<1>4. pc[u] \notin InHand /\ hold[u] = None
  BY <1>1, TypeFacts DEF InHand
<1> QED BY <1>1, <1>2, <1>3, <1>4, NamedFacts DEF Takes

LEMMA HitIs ==
  ASSUME TypeOK, NEW u \in Users, SyncPoolHit(u)
  PROVE  LET s == store[u]
         IN  /\ s \in Stores /\ pc[u] = "sync"
             /\ UNCHANGED <<buff, want, store>>
             /\ \E b \in Buffers :
                  /\ pool[s][b] > 0 /\ Takes(u, b, Named(buf[b], s))
                  /\ pool' = [pool EXCEPT ![s] = [pool[s] EXCEPT ![b] = pool[s][b] - 1]]
<1> DEFINE s == store[u]
<1>0. PICK b \in Buffers :
        /\ pool[s][b] > 0
        /\ pool' = [pool EXCEPT ![s][b] = @ - 1]
        /\ buf' = [buf EXCEPT ![b].belongs = s, ![b].attached = TRUE]
        /\ Take(u, b)
  BY Zenon DEF SyncPoolHit
<1>1. /\ pool[s][b] > 0
      /\ pool' = [pool EXCEPT ![s] = [pool[s] EXCEPT ![b] = pool[s][b] - 1]]
      /\ buf' = [buf EXCEPT ![b] = Named(buf[b], s)]
      /\ pc' = [pc EXCEPT ![u] = "got"] /\ hold' = [hold EXCEPT ![u] = b]
  BY <1>0 DEF Take, Goto, Named
<1>2. pc[u] = "sync" /\ UNCHANGED <<settings, buff, want, store>>
  BY DEF SyncPoolHit
<1>3. s \in Stores /\ s \in Nat /\ buf[b] \in BufRecords
  BY <1>2, TypeFacts, StoreFacts DEF InPackage
<1>4. pc[u] \notin InHand /\ hold[u] = None
  BY <1>2, TypeFacts DEF InHand
<1>5. Takes(u, b, Named(buf[b], s))
  BY <1>1, <1>2, <1>3, <1>4, NamedFacts DEF Takes
<1> QED BY <1>1, <1>2, <1>3, <1>5

LEMMA FreshIs ==
  ASSUME TypeOK, NEW u \in Users,
         GetAlloc(u) \/ \E n \in Requests : GetOversize(u, n)
  PROVE  /\ UNCHANGED <<buff, pool, store>>
         /\ want' \in [Users -> Nat]
         /\ \A w \in Users \ {u} : want'[w] = want[w]
         /\ \E b \in Fresh, r \in BufRecords :
              /\ Takes(u, b, r) /\ r.full = TRUE
              /\ r.attached => r.belongs <= r.cap
              /\ IF GetAlloc(u)
                 THEN want' = want /\ r.cap = store[u] /\ store[u] \in Stores
                 ELSE r.cap = want'[u]
<1>1. CASE GetAlloc(u)
  <2>1. PICK b \in Fresh : /\ buf' = [buf EXCEPT ![b] = Allocated(store[u], store[u], TRUE)]
                           /\ pc' = [pc EXCEPT ![u] = "got"]
                           /\ hold' = [hold EXCEPT ![u] = b]
    BY <1>1 DEF GetAlloc, Take, Goto
  <2>2. pc[u] \in {"sync", "alloc"} /\ UNCHANGED <<settings, buff, pool, want, store>>
    BY <1>1 DEF GetAlloc
  <2>3. store[u] \in Stores /\ store[u] \in Nat
    BY <2>2, TypeFacts, StoreFacts DEF InPackage
  <2> DEFINE r == Allocated(store[u], store[u], TRUE)
  <2>4. /\ r \in BufRecords /\ r.full = TRUE /\ r.cap = store[u] /\ r.belongs = store[u]
        /\ b \in Buffers
    BY <2>3 DEF Allocated, BufRecords, Fresh
  <2>5. pc[u] \notin InHand /\ hold[u] = None
    BY <2>2, TypeFacts DEF InHand
  <2>6. Takes(u, b, r)
    BY <2>1, <2>2, <2>3, <2>4, <2>5 DEF Takes
  <2> HIDE DEF r
  <2>7. r.belongs <= r.cap
    BY <2>3, <2>4
  <2> QED BY <1>1, <2>2, <2>3, <2>4, <2>6, <2>7, TypeFacts
<1>2. CASE ~GetAlloc(u)
  <2>1. PICK n \in Requests : GetOversize(u, n)
    BY <1>2
  <2>2. n \in Nat
    BY CapacityAssumption
  <2> DEFINE r == IF Of(Largest).disallowAlloc THEN Allocated(n, 0, FALSE)
                                               ELSE Allocated(n, Largest, TRUE)
  <2>3. PICK b \in Fresh : /\ buf' = [buf EXCEPT ![b] = r]
                           /\ pc' = [pc EXCEPT ![u] = "got"]
                           /\ hold' = [hold EXCEPT ![u] = b]
    BY <2>1 DEF GetOversize, Take, Goto
  <2>4. /\ pc[u] = "idle" /\ n > Largest /\ want' = [want EXCEPT ![u] = n]
        /\ UNCHANGED <<settings, buff, pool, store>>
    BY <2>1 DEF GetOversize
  <2>5. Largest \in Nat /\ Largest \in Stores
    BY TypeFacts, StoreFacts
  <2>6. /\ r \in BufRecords /\ r.full = TRUE /\ r.cap = n /\ b \in Buffers
        /\ r.attached => r.belongs = Largest
    BY <2>2, <2>5 DEF Allocated, BufRecords, Fresh
  <2>7. pc[u] \notin InHand /\ hold[u] = None
    BY <2>4, TypeFacts DEF InHand
  <2> HIDE DEF r
  <2>8. Takes(u, b, r) /\ (r.attached => r.belongs <= r.cap)
    BY <2>2, <2>3, <2>4, <2>5, <2>6, <2>7 DEF Takes
  <2>9. /\ want' \in [Users -> Nat] /\ want'[u] = n
        /\ \A w \in Users \ {u} : want'[w] = want[w]
    BY <2>2, <2>4, TypeFacts
  <2> QED BY <1>2, <2>4, <2>6, <2>8, <2>9
<1> QED BY <1>1, <1>2

\* What Close makes of the buffer in hand.
Closed(r) == [Reset(r) EXCEPT !.belongs = PutStore(Reset(r))]

LEMMA ClosedFacts ==
  ASSUME Configured, NEW r \in BufRecords, r.attached, r.belongs \in Stores
  PROVE  /\ Closed(r) \in BufRecords /\ Closed(r).attached
         /\ Closed(r).cap = r.cap /\ Closed(r).belongs \in Stores
         /\ Closed(r).belongs = PutStore(Reset(r)) /\ PutStore(Reset(r)) \in Stores
         /\ settings.kind = "slice" => Closed(r).full = TRUE
<1>1. /\ Reset(r) \in BufRecords /\ Reset(r).cap = r.cap /\ Reset(r).belongs = r.belongs
      /\ Reset(r).attached = r.attached
      /\ settings.kind = "slice" => Reset(r).full = TRUE
  BY ResetFacts
<1>2. PutStore(Reset(r)) \in Stores /\ PutStore(Reset(r)) \in Nat
  BY <1>1, PutStoreFacts, StoreFacts
<1> QED BY <1>1, <1>2 DEF Closed, BufRecords

\* The user has no buffer any more.
Leaves(u) ==
  /\ pc' = [pc EXCEPT ![u] = "idle"] /\ hold' = [hold EXCEPT ![u] = None]
  /\ want' = [want EXCEPT ![u] = 0] /\ store' = [store EXCEPT ![u] = 0]

LEMMA CloseIs ==
  ASSUME TypeOK, NEW u \in Users, Close(u)
  PROVE  LET b == hold[u]
             r == Closed(buf[b])
         IN  /\ pc[u] \in {"got", "using"} /\ b \in Buffers /\ b # None
             /\ buf[b] \in BufRecords /\ buf[b].attached /\ buf[b].belongs \in Stores
             /\ r \in BufRecords /\ r.belongs \in Stores
             /\ buf' = [buf EXCEPT ![b] = r]
             /\ UNCHANGED <<settings, buff, pool>>
             /\ IF TooLarge(r.belongs, r.cap)
                THEN Leaves(u)
                ELSE /\ pc' = [pc EXCEPT ![u] = "insert"]
                     /\ store' = [store EXCEPT ![u] = r.belongs]
                     /\ UNCHANGED <<hold, want>>
<1> DEFINE b == hold[u]
           r == Closed(buf[b])
           s == PutStore(Reset(buf[b]))
<1>1. pc[u] \in {"got", "using"} /\ buf[b].attached /\ UNCHANGED <<settings, buff, pool>>
  BY DEF Close
<1>2. b \in Buffers /\ b # None /\ buf[b] \in BufRecords /\ buf[b].belongs \in Stores
  BY <1>1, TypeFacts DEF InHand
<1>3. Configured
  BY TypeFacts
<1>4. /\ r \in BufRecords /\ r.belongs = s /\ s \in Stores
      /\ r.cap = buf[b].cap /\ Reset(buf[b]).cap = buf[b].cap
  BY <1>1, <1>2, <1>3, ClosedFacts, ResetFacts
<1>5. /\ buf' = [buf EXCEPT ![b] = r]
      /\ IF TooLarge(s, Reset(buf[b]).cap)
         THEN Leaves(u)
         ELSE /\ pc' = [pc EXCEPT ![u] = "insert"]
              /\ store' = [store EXCEPT ![u] = s]
              /\ UNCHANGED <<hold, want>>
  BY <1>4 DEF Close, Closed, Leave, Leaves, Goto
<1> QED BY <1>1, <1>2, <1>4, <1>5

LEMMA UseIs ==
  ASSUME TypeOK, NEW u \in Users, Use(u)
  PROVE  /\ pc[u] = "got" /\ hold[u] \in Buffers /\ hold[u] # None
         /\ pc' = [pc EXCEPT ![u] = "using"]
         /\ UNCHANGED <<settings, buff, pool, hold, want, store>>
         /\ \E r \in BufRecords :
              /\ buf' = [buf EXCEPT ![hold[u]] = r]
              /\ r.belongs = buf[hold[u]].belongs /\ r.attached = buf[hold[u]].attached
              /\ ~settings.shrink => r.cap >= buf[hold[u]].cap
<1>1. /\ pc[u] = "got" /\ pc' = [pc EXCEPT ![u] = "using"]
      /\ UNCHANGED <<settings, buff, pool, hold, want, store>>
  BY DEF Use, Goto
<1>2. hold[u] \in Buffers /\ hold[u] # None /\ buf[hold[u]] \in BufRecords
  BY <1>1, TypeFacts DEF InHand
<1>3. PICK c \in Capacities \cup {buf[hold[u]].cap}, full \in BOOLEAN :
        /\ c < buf[hold[u]].cap => settings.shrink
        /\ buf' = [buf EXCEPT ![hold[u]].cap = c, ![hold[u]].full = full]
  BY Zenon DEF Use
<1> DEFINE r == [buf[hold[u]] EXCEPT !.cap = c, !.full = full]
<1>4. c \in Nat
  BY <1>2, CapacityAssumption DEF BufRecords
<1>5. /\ r \in BufRecords /\ r.belongs = buf[hold[u]].belongs
      /\ r.attached = buf[hold[u]].attached /\ r.cap = c
  BY <1>2, <1>4 DEF BufRecords
<1>6. buf' = [buf EXCEPT ![hold[u]] = r]
  BY <1>2, <1>3
<1>7. ~settings.shrink => c >= buf[hold[u]].cap
  BY <1>2, <1>3, <1>4 DEF BufRecords
<1> QED BY <1>1, <1>2, <1>5, <1>6, <1>7

LEMMA InsertIs ==
  ASSUME TypeOK, NEW u \in Users, Insert(u)
  PROVE  LET s == store[u]
             b == hold[u]
         IN  /\ pc[u] = "insert" /\ s \in Stores /\ b \in Buffers /\ b # None
             /\ buff[s] \in Seq(Buffers)
             /\ buff' = IF HasRoom(s) THEN [buff EXCEPT ![s] = Append(buff[s], b)] ELSE buff
             /\ UNCHANGED <<settings, pool, buf>>
             /\ IF Of(s).syncPool
                THEN pc' = [pc EXCEPT ![u] = "poolPut"] /\ UNCHANGED <<hold, want, store>>
                ELSE Leaves(u)
<1>1. pc[u] = "insert"
  BY DEF Insert
<1>2. store[u] \in Stores /\ hold[u] \in Buffers /\ hold[u] # None
  BY <1>1, TypeFacts DEF InHand
<1>3. buff[store[u]] \in Seq(Buffers)
  BY <1>2, TypeFacts
<1> QED BY <1>1, <1>2, <1>3 DEF Insert, Leave, Leaves, Goto

LEMMA PoolPutIs ==
  ASSUME TypeOK, NEW u \in Users, SyncPoolPut(u)
  PROVE  LET s == store[u]
             b == hold[u]
         IN  /\ pc[u] = "poolPut" /\ s \in Stores /\ b \in Buffers /\ b # None
             /\ pool' = [pool EXCEPT ![s] = [pool[s] EXCEPT ![b] = pool[s][b] + 1]]
             /\ UNCHANGED <<settings, buff, buf>> /\ Leaves(u)
<1>1. pc[u] = "poolPut"
  BY DEF SyncPoolPut
<1>2. store[u] \in Stores /\ hold[u] \in Buffers /\ hold[u] # None
  BY <1>1, TypeFacts DEF InHand
<1> QED BY <1>1, <1>2 DEF SyncPoolPut, Leave, Leaves, Goto

LEMMA GCIs ==
  ASSUME SyncPoolGC
  PROVE  /\ UNCHANGED <<settings, buff, buf, pc, hold, want, store>>
         /\ \E s \in Stores, b \in Buffers :
              /\ pool[s][b] > 0
              /\ pool' = [pool EXCEPT ![s] = [pool[s] EXCEPT ![b] = pool[s][b] - 1]]
<1>1. PICK s \in Stores, b \in Buffers : pool[s][b] > 0 /\ pool' = [pool EXCEPT ![s][b] = @ - 1]
  BY Zenon DEF SyncPoolGC
<1>2. pool' = [pool EXCEPT ![s] = [pool[s] EXCEPT ![b] = pool[s][b] - 1]]
  BY <1>1
<1> QED BY <1>1, <1>2 DEF SyncPoolGC

-----------------------------------------------------------------------------
\* The steps keep the types.
LEMMA PoolCount ==
  ASSUME TypeOK, NEW s \in Stores, NEW b \in Buffers, NEW n \in Nat,
         pool' = [pool EXCEPT ![s] = [pool[s] EXCEPT ![b] = n]]
  PROVE  /\ pool' \in [Stores -> [Buffers -> Nat]] /\ pool'[s][b] = n
         /\ \A t \in Stores, c \in Buffers : t # s \/ c # b => pool'[t][c] = pool[t][c]
<1>1. pool \in [Stores -> [Buffers -> Nat]]
  BY TypeFacts
<1>2. pool[s] \in [Buffers -> Nat]
  BY <1>1
<1>3. [pool[s] EXCEPT ![b] = n] \in [Buffers -> Nat]
  BY <1>2
<1>4. pool'[s] = [pool[s] EXCEPT ![b] = n] /\ \A t \in Stores \ {s} : pool'[t] = pool[t]
  BY <1>1
<1>5. pool' \in [Stores -> [Buffers -> Nat]]
  BY <1>1, <1>3
<1> QED BY <1>2, <1>4, <1>5

LEMMA TypeTakes ==
  ASSUME TypeOK, NEW u \in Users, NEW b, NEW r, Takes(u, b, r),
         buff' \in [Stores -> Seq(Buffers)], pool' \in [Stores -> [Buffers -> Nat]],
         NEW n \in Nat, want' = [want EXCEPT ![u] = n], store' = store
  PROVE  TypeOK'
<1>1. /\ b \in Buffers /\ r \in BufRecords /\ (r.attached => r.belongs \in Stores)
      /\ pc' = [pc EXCEPT ![u] = "got"] /\ hold' = [hold EXCEPT ![u] = b]
      /\ buf' = [buf EXCEPT ![b] = r] /\ settings' = settings
  BY DEF Takes
<1>2. b # None /\ "got" \in Phases /\ "got" \in InHand
      /\ "got" \notin InPackage \cup {"insert", "poolPut"}
  BY <1>1, NoneAssumption DEF Phases, InHand, InPackage
<1>3. buf' \in [Buffers -> BufRecords] /\ \A c \in Buffers : buf'[c].attached => buf'[c].belongs \in Stores
  BY <1>1, BufStep
<1> QED BY <1>1, <1>2, <1>3, SameUser, TypeStep

\* The user goes on with what it has in hand.
LEMMA TypeMoves ==
  ASSUME TypeOK, NEW u \in Users, NEW to \in Phases, NEW s \in Stores \cup {0},
         pc' = [pc EXCEPT ![u] = to], store' = [store EXCEPT ![u] = s],
         UNCHANGED <<settings, hold, want>>,
         pc[u] \in InHand <=> to \in InHand,
         to \in InPackage \cup {"insert", "poolPut"} => s \in Stores,
         buff' \in [Stores -> Seq(Buffers)], pool' \in [Stores -> [Buffers -> Nat]],
         buf' \in [Buffers -> BufRecords],
         \A b \in Buffers : buf'[b].attached => buf'[b].belongs \in Stores
  PROVE  TypeOK'
<1>1. hold' = [hold EXCEPT ![u] = hold[u]] /\ want' = [want EXCEPT ![u] = want[u]]
  BY SameUser
<1>2. /\ hold[u] \in Buffers \cup {None} /\ want[u] \in Nat
      /\ hold[u] # None <=> to \in InHand
  BY TypeFacts
<1> QED BY <1>1, <1>2, TypeStep

LEMMA TypeLeaves ==
  ASSUME TypeOK, NEW u \in Users, Leaves(u), settings' = settings,
         buff' \in [Stores -> Seq(Buffers)], pool' \in [Stores -> [Buffers -> Nat]],
         buf' \in [Buffers -> BufRecords],
         \A b \in Buffers : buf'[b].attached => buf'[b].belongs \in Stores
  PROVE  TypeOK'
<1>1. /\ "idle" \in Phases /\ "idle" \notin InHand
      /\ "idle" \notin InPackage \cup {"insert", "poolPut"}
  BY DEF Phases, InHand, InPackage
<1> QED BY <1>1, TypeStep DEF Leaves

LEMMA TypeUser ==
  ASSUME TypeOK, NEW u \in Users,
         \/ \E n \in Requests : GetCall(u, n) \/ GetOversize(u, n)
         \/ GetStep(u) \/ Use(u) \/ PutStep(u)
  PROVE  TypeOK'
<1>0. /\ Configured /\ buff \in [Stores -> Seq(Buffers)]
      /\ pool \in [Stores -> [Buffers -> Nat]] /\ buf \in [Buffers -> BufRecords]
      /\ \A b \in Buffers : buf[b].attached => buf[b].belongs \in Stores
  BY TypeFacts
<1>p. /\ {"idle", "get", "sync", "alloc", "got", "using", "insert", "poolPut"} \subseteq Phases
      /\ {"got", "using", "insert", "poolPut"} \subseteq InHand
      /\ \A p \in {"idle", "get", "sync", "alloc"} : p \notin InHand
      /\ \A p \in {"idle", "got", "using"} : p \notin InPackage \cup {"insert", "poolPut"}
  BY DEF Phases, InHand, InPackage
<1>1. ASSUME NEW n \in Requests, GetCall(u, n) PROVE TypeOK'
  <2>1. n \in Nat /\ GetStore(n) \in Stores
    BY <1>0, <1>1, CapacityAssumption, StoreFacts DEF GetCall
  <2>2. /\ want' = [want EXCEPT ![u] = n] /\ store' = [store EXCEPT ![u] = GetStore(n)]
        /\ pc' = [pc EXCEPT ![u] = "get"] /\ pc[u] = "idle"
        /\ UNCHANGED <<settings, buff, pool, buf, hold>>
    BY <1>1 DEF GetCall, Goto
  <2>3. hold[u] = None
    BY <1>p, <2>2, TypeFacts
  <2> QED BY <1>0, <1>p, <2>1, <2>2, <2>3, SameUser, TypeStep
<1>2. ASSUME GetDefault(u) PROVE TypeOK'
  <2> DEFINE to == IF Of(store[u]).syncPool THEN "sync" ELSE "alloc"
  <2>1. /\ pc[u] = "get" /\ pc' = [pc EXCEPT ![u] = to]
        /\ UNCHANGED <<settings, buff, pool, buf, hold, want, store>>
    BY <1>2 DEF GetDefault, Goto
  <2>2. to \in Phases /\ to \notin InHand
    BY <1>p
  <2>3. /\ store[u] \in Stores /\ store' = [store EXCEPT ![u] = store[u]]
        /\ pc[u] \notin InHand
    BY <1>p, <2>1, TypeFacts DEF InPackage
  <2> HIDE DEF to
  <2> QED BY <1>0, <2>1, <2>2, <2>3, TypeMoves
<1>3. ASSUME GetReceive(u) PROVE TypeOK'
  <2> DEFINE s == store[u]
  <2>1. /\ s \in Stores /\ buff[s] # <<>> /\ buff[s] \in Seq(Buffers)
        /\ Takes(u, Head(buff[s]), Named(buf[Head(buff[s])], s))
        /\ buff' = [buff EXCEPT ![s] = Tail(buff[s])] /\ UNCHANGED <<pool, want, store>>
    BY <1>3, ReceiveIs
  <2>2. buff' \in [Stores -> Seq(Buffers)]
    BY <1>0, <2>1
  <2> QED BY <1>0, <2>1, <2>2, SameUser, TypeTakes
<1>4. ASSUME SyncPoolHit(u) PROVE TypeOK'
  <2> DEFINE s == store[u]
  <2>1. s \in Stores /\ UNCHANGED <<buff, want, store>>
    BY <1>4, HitIs
  <2>2. PICK b \in Buffers :
          /\ pool[s][b] > 0 /\ Takes(u, b, Named(buf[b], s))
          /\ pool' = [pool EXCEPT ![s] = [pool[s] EXCEPT ![b] = pool[s][b] - 1]]
    BY <1>4, HitIs
  <2>3. pool' \in [Stores -> [Buffers -> Nat]]
    <3>1. pool[s][b] - 1 \in Nat
      BY <1>0, <2>1, <2>2
    <3> QED BY <2>1, <2>2, <3>1, PoolCount
  <2> QED BY <1>0, <2>1, <2>2, <2>3, SameUser, TypeTakes
<1>5. ASSUME GetAlloc(u) \/ \E n \in Requests : GetOversize(u, n) PROVE TypeOK'
  <2>1. /\ UNCHANGED <<buff, pool, store>> /\ want' \in [Users -> Nat]
        /\ \A w \in Users \ {u} : want'[w] = want[w]
    BY <1>5, FreshIs
  <2>2. PICK b \in Fresh, r \in BufRecords : Takes(u, b, r)
    BY <1>5, FreshIs
  <2>3. want' = [want EXCEPT ![u] = want'[u]] /\ want'[u] \in Nat
    BY <2>1, TypeFacts
  <2> QED BY <1>0, <2>1, <2>2, <2>3, TypeTakes
<1>6. ASSUME Use(u) PROVE TypeOK'
  <2>1. /\ hold[u] \in Buffers /\ pc[u] = "got" /\ pc' = [pc EXCEPT ![u] = "using"]
        /\ UNCHANGED <<settings, buff, pool, hold, want, store>>
    BY <1>6, UseIs
  <2>2. PICK r \in BufRecords :
          /\ buf' = [buf EXCEPT ![hold[u]] = r]
          /\ r.belongs = buf[hold[u]].belongs /\ r.attached = buf[hold[u]].attached
    BY <1>6, UseIs
  <2>3. /\ buf' \in [Buffers -> BufRecords]
        /\ \A b \in Buffers : buf'[b].attached => buf'[b].belongs \in Stores
    BY <1>0, <2>1, <2>2, BufStep
  <2>4. store' = [store EXCEPT ![u] = store[u]] /\ store[u] \in Stores \cup {0}
    BY <2>1, SameUser
  <2> QED BY <1>0, <1>p, <2>1, <2>3, <2>4, TypeMoves
<1>7. ASSUME CloseDetached(u) PROVE TypeOK'
  <2>1. Leaves(u) /\ UNCHANGED <<settings, buff, pool, buf>>
    BY <1>7 DEF CloseDetached, Leave, Leaves, Goto
  <2> QED BY <1>0, <2>1, TypeLeaves
<1>8. ASSUME Close(u) PROVE TypeOK'
  <2> DEFINE b == hold[u]
             r == Closed(buf[b])
  <2>1. /\ b \in Buffers /\ b # None /\ r \in BufRecords /\ r.belongs \in Stores
        /\ buf' = [buf EXCEPT ![b] = r] /\ UNCHANGED <<settings, buff, pool>>
        /\ \/ Leaves(u)
           \/ /\ pc' = [pc EXCEPT ![u] = "insert"]
              /\ store' = [store EXCEPT ![u] = r.belongs]
              /\ UNCHANGED <<hold, want>>
    BY <1>8, CloseIs
  <2> HIDE DEF r
  <2>2. /\ buf' \in [Buffers -> BufRecords]
        /\ \A c \in Buffers : buf'[c].attached => buf'[c].belongs \in Stores
    BY <2>1, BufStep
  <2>3. CASE Leaves(u)
    BY <1>0, <2>1, <2>2, <2>3, TypeLeaves
  <2>4. CASE ~Leaves(u)
    <3>1. pc[u] \in InHand /\ "insert" \in InHand /\ "insert" \in Phases
      BY <1>p, <2>1, TypeFacts
    <3> QED BY <1>0, <2>1, <2>2, <2>4, <3>1, TypeMoves
  <2> QED BY <2>3, <2>4
<1>9. ASSUME Insert(u) PROVE TypeOK'
  <2> DEFINE s == store[u]
             b == hold[u]
  <2>1. /\ s \in Stores /\ b \in Buffers /\ b # None /\ buff[s] \in Seq(Buffers)
        /\ buff' = IF HasRoom(s) THEN [buff EXCEPT ![s] = Append(buff[s], b)] ELSE buff
        /\ UNCHANGED <<settings, pool, buf>>
        /\ \/ pc' = [pc EXCEPT ![u] = "poolPut"] /\ UNCHANGED <<hold, want, store>>
           \/ Leaves(u)
    BY <1>9, InsertIs
  <2>2. buff' \in [Stores -> Seq(Buffers)]
    <3>1. Append(buff[s], b) \in Seq(Buffers)
      BY <2>1
    <3> QED BY <1>0, <2>1, <3>1
  <2>3. CASE Leaves(u)
    BY <1>0, <2>1, <2>2, <2>3, TypeLeaves
  <2>4. CASE ~Leaves(u)
    <3>1. pc[u] \in InHand /\ "poolPut" \in InHand /\ "poolPut" \in Phases
      BY <1>p, <2>1, TypeFacts
    <3>2. store' = [store EXCEPT ![u] = s]
      BY <2>1, <2>4, SameUser
    <3> QED BY <1>0, <2>1, <2>2, <2>4, <3>1, <3>2, TypeMoves
  <2> QED BY <2>3, <2>4
<1>10. ASSUME SyncPoolPut(u) PROVE TypeOK'
  <2> DEFINE s == store[u]
             b == hold[u]
  <2>1. /\ s \in Stores /\ b \in Buffers
        /\ pool' = [pool EXCEPT ![s] = [pool[s] EXCEPT ![b] = pool[s][b] + 1]]
        /\ UNCHANGED <<settings, buff, buf>> /\ Leaves(u)
    BY <1>10, PoolPutIs
  <2>2. pool' \in [Stores -> [Buffers -> Nat]]
    <3>1. pool[s][b] + 1 \in Nat
      BY <1>0, <2>1
    <3> QED BY <2>1, <3>1, PoolCount
  <2> QED BY <1>0, <2>1, <2>2, TypeLeaves
<1> QED BY <1>1, <1>2, <1>3, <1>4, <1>5, <1>6, <1>7, <1>8, <1>9, <1>10 DEF GetStep, PutStep

LEMMA TypeNext == TypeOK /\ [Next]_vars => TypeOK'
<1> SUFFICES ASSUME TypeOK, [Next]_vars PROVE TypeOK'
  OBVIOUS
<1>1. CASE SyncPoolGC
  <2>1. UNCHANGED <<settings, buff, buf, pc, hold, want, store>>
    BY <1>1, GCIs
  <2>2. PICK s \in Stores, b \in Buffers :
          /\ pool[s][b] > 0
          /\ pool' = [pool EXCEPT ![s] = [pool[s] EXCEPT ![b] = pool[s][b] - 1]]
    BY <1>1, GCIs
  <2>3. pool[s][b] - 1 \in Nat
    BY <2>2, TypeFacts
  <2>4. pool' \in [Stores -> [Buffers -> Nat]]
    BY <2>2, <2>3, PoolCount
  <2> QED BY <2>1, <2>4, StoresStay DEF TypeOK
<1>2. CASE UNCHANGED vars
  BY <1>2, StoresStay DEF vars, TypeOK
<1> QED BY <1>1, <1>2, TypeUser DEF Next

\* Every reachable state is typed, and put never meets a buffer that belongs to a
\* store the pool does not have: it does not panic.
THEOREM TypeCorrect == Spec => []TypeOK
BY TypeInit, TypeNext, PTL DEF Spec

-----------------------------------------------------------------------------
(***************************************************************************)
(* What the stores have before and after a step.                           *)
(***************************************************************************)
LEMMA ChannelAppend ==
  ASSUME NEW S, NEW q \in Seq(S), NEW v \in S
  PROVE  /\ Range(Append(q, v)) = Range(q) \cup {v}
         /\ IsInjective(q) /\ v \notin Range(q) => IsInjective(Append(q, v))
<1>1. /\ DOMAIN Append(q, v) = 1 .. Len(q) + 1
      /\ \A i \in 1 .. Len(q) : Append(q, v)[i] = q[i]
      /\ Append(q, v)[Len(q) + 1] = v
      /\ DOMAIN q = 1 .. Len(q) /\ Len(q) \in Nat
  OBVIOUS
<1>2. Range(Append(q, v)) = Range(q) \cup {v}
  BY <1>1 DEF Range
<1>3. ASSUME IsInjective(q), v \notin Range(q) PROVE IsInjective(Append(q, v))
  BY <1>1, <1>3 DEF IsInjective, Range
<1> QED BY <1>2, <1>3

LEMMA ChannelTail ==
  ASSUME NEW S, NEW q \in Seq(S), q # <<>>
  PROVE  /\ Head(q) \in S
         /\ Range(q) = Range(Tail(q)) \cup {Head(q)}
         /\ IsInjective(q) => IsInjective(Tail(q)) /\ Head(q) \notin Range(Tail(q))
<1>1. /\ DOMAIN q = 1 .. Len(q) /\ Len(q) \in Nat /\ Len(q) > 0
      /\ DOMAIN Tail(q) = 1 .. Len(q) - 1
      /\ \A i \in 1 .. Len(q) - 1 : Tail(q)[i] = q[i + 1]
      /\ Head(q) = q[1] /\ Head(q) \in S
  OBVIOUS
<1>2. Range(Tail(q)) \cup {Head(q)} \subseteq Range(q)
  BY <1>1 DEF Range
<1>3. ASSUME NEW i \in 1 .. Len(q) PROVE q[i] = Head(q) \/ q[i] \in Range(Tail(q))
  <2>1. CASE i = 1
    BY <1>1, <2>1
  <2>2. CASE i # 1
    <3>1. i - 1 \in 1 .. Len(q) - 1 /\ Tail(q)[i - 1] = q[(i - 1) + 1] /\ (i - 1) + 1 = i
      BY <1>1, <2>2
    <3> QED BY <1>1, <3>1 DEF Range
  <2> QED BY <2>1, <2>2
<1>4. Range(q) = {q[i] : i \in 1 .. Len(q)}
  BY <1>1 DEF Range
<1>5. ASSUME IsInjective(q)
      PROVE  IsInjective(Tail(q)) /\ Head(q) \notin Range(Tail(q))
  BY <1>1, <1>5 DEF IsInjective, Range
<1> QED BY <1>1, <1>2, <1>3, <1>4, <1>5

\* A receive takes from one store; with exclusive ownership nothing is left of it there.
LEMMA StoredReceive ==
  ASSUME TypeOK, NEW s \in Stores, buff[s] # <<>>, NEW b, b = Head(buff[s]),
         buff' = [buff EXCEPT ![s] = Tail(buff[s])], pool' = pool
  PROVE  /\ b \in Buffers /\ Stored(b, s)
         /\ \A t \in Stores : Range(buff'[t]) \subseteq Range(buff[t])
         /\ \A t \in Stores, c \in Buffers : Stored(c, t)' => Stored(c, t)
         /\ \A t \in Stores, c \in Buffers : t # s \/ c # b => (Stored(c, t)' <=> Stored(c, t))
         /\ OnceInStores => (\A t \in Stores : IsInjective(buff'[t])) /\ ~Stored(b, s)'
<1>1. buff[s] \in Seq(Buffers) /\ buff'[s] = Tail(buff[s])
      /\ \A t \in Stores \ {s} : buff'[t] = buff[t]
  BY TypeFacts
<1>2. /\ b \in Buffers /\ Range(buff[s]) = Range(buff'[s]) \cup {b}
      /\ IsInjective(buff[s]) => IsInjective(buff'[s]) /\ b \notin Range(buff'[s])
  BY <1>1, ChannelTail
<1>3. \A t \in Stores : Range(buff'[t]) \subseteq Range(buff[t])
  BY <1>1, <1>2
<1>4. ASSUME OnceInStores
      PROVE  (\A t \in Stores : IsInjective(buff'[t])) /\ ~Stored(b, s)'
  <2>1. /\ \A t \in Stores : IsInjective(buff[t])
        /\ pool[s][b] > 0 => b \notin Range(buff[s])
    BY <1>2, <1>4 DEF OnceInStores
  <2>2. \A t \in Stores : IsInjective(buff'[t])
    BY <1>1, <1>2, <2>1
  <2> QED BY <1>2, <2>1, <2>2 DEF Stored
<1> QED BY <1>1, <1>2, <1>3, <1>4 DEF Stored

\* The sync.Pool gives one away, to a user or to the garbage collector.
LEMMA StoredLess ==
  ASSUME TypeOK, NEW s \in Stores, NEW b \in Buffers, pool[s][b] > 0, buff' = buff,
         pool' = [pool EXCEPT ![s] = [pool[s] EXCEPT ![b] = pool[s][b] - 1]]
  PROVE  /\ Stored(b, s) /\ pool'[s][b] = pool[s][b] - 1 /\ pool[s][b] \in Nat
         /\ \A t \in Stores, c \in Buffers : t # s \/ c # b => pool'[t][c] = pool[t][c]
         /\ \A t \in Stores, c \in Buffers : Stored(c, t)' => Stored(c, t)
         /\ \A t \in Stores, c \in Buffers : t # s \/ c # b => (Stored(c, t)' <=> Stored(c, t))
         /\ OnceInStores => ~Stored(b, s)'
<1>1. pool[s][b] \in Nat
  BY TypeFacts
<1>2. /\ pool'[s][b] = pool[s][b] - 1
      /\ \A t \in Stores, c \in Buffers : t # s \/ c # b => pool'[t][c] = pool[t][c]
  <2> DEFINE f == [pool[s] EXCEPT ![b] = pool[s][b] - 1]
  <2>1. pool \in [Stores -> [Buffers -> Nat]] /\ pool[s] \in [Buffers -> Nat]
    BY TypeFacts
  <2>2. f[b] = pool[s][b] - 1 /\ \A c \in Buffers : c # b => f[c] = pool[s][c]
    BY <2>1
  <2>3. pool'[s] = f /\ \A t \in Stores \ {s} : pool'[t] = pool[t]
    BY <2>1
  <2> HIDE DEF f
  <2> QED BY <2>2, <2>3
<1>3. ASSUME OnceInStores PROVE ~Stored(b, s)'
  <2>1. pool[s][b] = 1 /\ b \notin Range(buff[s])
    BY <1>3 DEF OnceInStores
  <2> QED BY <1>2, <2>1 DEF Stored
<1>4. Stored(b, s) /\ \A t \in Stores, c \in Buffers : Stored(c, t)' => Stored(c, t)
  BY <1>1, <1>2 DEF Stored
<1> QED BY <1>1, <1>2, <1>3, <1>4 DEF Stored

LEMMA StoredAppend ==
  ASSUME TypeOK, NEW s \in Stores, NEW b \in Buffers,
         buff' = [buff EXCEPT ![s] = Append(buff[s], b)], pool' = pool
  PROVE  /\ \A t \in Stores, c \in Buffers :
              Stored(c, t)' <=> Stored(c, t) \/ (t = s /\ c = b)
         /\ \A t \in Stores \ {s} : buff'[t] = buff[t]
         /\ buff'[s] = Append(buff[s], b) /\ Range(buff'[s]) = Range(buff[s]) \cup {b}
         /\ IsInjective(buff[s]) /\ b \notin Range(buff[s]) => IsInjective(buff'[s])
<1>1. /\ buff[s] \in Seq(Buffers) /\ buff'[s] = Append(buff[s], b)
      /\ \A t \in Stores \ {s} : buff'[t] = buff[t]
  BY TypeFacts
<1>2. /\ Range(buff'[s]) = Range(buff[s]) \cup {b}
      /\ IsInjective(buff[s]) /\ b \notin Range(buff[s]) => IsInjective(buff'[s])
  BY <1>1, ChannelAppend
<1> QED BY <1>1, <1>2 DEF Stored

LEMMA StoredMore ==
  ASSUME TypeOK, NEW s \in Stores, NEW b \in Buffers, buff' = buff,
         pool' = [pool EXCEPT ![s] = [pool[s] EXCEPT ![b] = pool[s][b] + 1]]
  PROVE  /\ \A t \in Stores, c \in Buffers :
              Stored(c, t)' <=> Stored(c, t) \/ (t = s /\ c = b)
         /\ pool'[s][b] = pool[s][b] + 1 /\ pool[s][b] \in Nat
         /\ \A t \in Stores, c \in Buffers : t # s \/ c # b => pool'[t][c] = pool[t][c]
<1>1. pool[s][b] \in Nat
  BY TypeFacts
<1>2. /\ pool'[s][b] = pool[s][b] + 1
      /\ \A t \in Stores, c \in Buffers : t # s \/ c # b => pool'[t][c] = pool[t][c]
  <2> DEFINE f == [pool[s] EXCEPT ![b] = pool[s][b] + 1]
  <2>1. pool \in [Stores -> [Buffers -> Nat]] /\ pool[s] \in [Buffers -> Nat]
    BY TypeFacts
  <2>2. f[b] = pool[s][b] + 1 /\ \A c \in Buffers : c # b => f[c] = pool[s][c]
    BY <2>1
  <2>3. pool'[s] = f /\ \A t \in Stores \ {s} : pool'[t] = pool[t]
    BY <2>1
  <2> HIDE DEF f
  <2> QED BY <2>2, <2>3
<1>3. pool'[s][b] > 0
  BY <1>1, <1>2
<1> QED BY <1>1, <1>2, <1>3 DEF Stored

\* Fresh buffers are nowhere; the others stay where they are.
LEMMA StoredStays ==
  ASSUME UNCHANGED <<buff, pool>>
  PROVE  \A t, c : Stored(c, t)' <=> Stored(c, t)
BY DEF Stored

-----------------------------------------------------------------------------
(***************************************************************************)
(* Get returns enough.  A buffer that only grows never has less than the   *)
(* store it names, than the store that keeps it and than its user wants.   *)
(***************************************************************************)
LeastInv ==
  ~settings.shrink =>
    /\ \A b \in Buffers : buf[b].attached => buf[b].cap >= buf[b].belongs
    /\ \A s \in Stores, b \in Buffers : Stored(b, s) => buf[b].cap >= s
    /\ \A u \in Users : pc[u] \in {"insert", "poolPut"} => buf[hold[u]].cap >= store[u]
    /\ \A u \in Users : pc[u] \in InPackage => store[u] >= want[u]
    /\ \A u \in Users : pc[u] = "got" => buf[hold[u]].cap >= want[u]

LEMMA FillingsOnce ==
  ASSUME Init
  PROVE  /\ \A s \in Stores : IsInjective(buff[s])
         /\ \A s, t \in Stores : \A b : b \in Range(buff[s]) /\ b \in Range(buff[t]) => s = t
         /\ \A s \in Stores, b \in Buffers : pool[s][b] = 0
         /\ \A s \in Stores, b \in Buffers : Stored(b, s) => buf[b].cap = s /\ buf[b].full = TRUE
<1>1. \A s, t \in Stores : \A i \in DOMAIN buff[s], j \in DOMAIN buff[t] :
        buff[s][i] = buff[t][j] => s = t /\ i = j
  BY DEF Init, Fillings
<1>2. \A s \in Stores : IsInjective(buff[s])
  BY <1>1 DEF IsInjective
<1>3. \A s, t \in Stores : \A b : b \in Range(buff[s]) /\ b \in Range(buff[t]) => s = t
  BY <1>1 DEF Range
<1>4. \A s \in Stores, b \in Buffers : pool[s][b] = 0
  BY DEF Init
<1>5. ASSUME NEW s \in Stores, NEW b \in Buffers, Stored(b, s)
      PROVE  buf[b].cap = s /\ buf[b].full = TRUE
  <2>1. b \in Range(buff[s])
    BY <1>4, <1>5 DEF Stored
  <2> DEFINE c == CHOOSE t \in Stores : b \in Range(buff[t])
  <2>2. c \in Stores /\ b \in Range(buff[c])
    BY <2>1
  <2> HIDE DEF c
  <2>3. c = s
    BY <1>3, <2>1, <2>2
  <2>4. buf[b] = Allocated(IF \E t \in Stores : b \in Range(buff[t]) THEN c ELSE 0, 0, FALSE)
    BY DEF Init, c
  <2>5. buf[b] = Allocated(s, 0, FALSE)
    BY <2>1, <2>3, <2>4
  <2> QED BY <2>5 DEF Allocated
<1> QED BY <1>2, <1>3, <1>4, <1>5

LEMMA LeastInit == Init => LeastInv
<1> SUFFICES ASSUME Init PROVE LeastInv
  OBVIOUS
<1>1. TypeOK
  BY TypeInit
<1>2. \A u \in Users : pc[u] = "idle"
  BY DEF Init
<1>3. \A b \in Buffers : ~buf[b].attached
  BY DEF Init, Allocated
<1>4. \A s \in Stores, b \in Buffers : Stored(b, s) => buf[b].cap >= s
  <2>1. Stores \in SUBSET Nat
    BY <1>1, TypeFacts, StoreFacts
  <2>2. ASSUME NEW s \in Stores, NEW b \in Buffers, Stored(b, s) PROVE buf[b].cap >= s
    <3>1. buf[b].cap = s
      BY <2>2, FillingsOnce
    <3>2. s \in Nat
      BY <2>1
    <3> QED BY <3>1, <3>2
  <2> QED BY <2>2
<1> QED BY <1>2, <1>3, <1>4 DEF LeastInv, InPackage

LEMMA LeastStep ==
  ASSUME TypeOK, TypeOK', LeastInv, NEW u \in Users, settings' = settings,
         ~settings.shrink => \A b \in Buffers :
           buf'[b] # buf[b] => /\ buf'[b].cap >= buf[b].cap \/ b \in Fresh
                               /\ buf'[b].attached => buf'[b].cap >= buf'[b].belongs,
         \A s \in Stores, b \in Buffers :
           Stored(b, s)' => Stored(b, s) \/ (~settings.shrink => buf'[b].cap >= s),
         \A w \in Users \ {u} :
           pc'[w] = pc[w] /\ hold'[w] = hold[w] /\ want'[w] = want[w] /\ store'[w] = store[w],
         ~settings.shrink =>
           /\ pc'[u] \in {"insert", "poolPut"} => buf'[hold'[u]].cap >= store'[u]
           /\ pc'[u] \in InPackage => store'[u] >= want'[u]
           /\ pc'[u] = "got" => buf'[hold'[u]].cap >= want'[u]
  PROVE  LeastInv'
<1> SUFFICES ASSUME ~settings.shrink PROVE LeastInv'
  BY DEF LeastInv
<1>1. /\ \A b \in Buffers : buf[b].cap \in Nat /\ buf'[b].cap \in Nat
      /\ Stores' = Stores /\ Stores \in SUBSET Nat
      /\ \A w \in Users : want[w] \in Nat /\ store[w] \in Nat
  <2>1. /\ buf \in [Buffers -> BufRecords] /\ buf' \in [Buffers -> BufRecords]
        /\ Stores \in SUBSET Nat /\ want \in [Users -> Nat] /\ store \in [Users -> Stores \cup {0}]
    BY TypeFacts, StoreFacts DEF TypeOK, BufRecords
  <2>2. \A b \in Buffers : buf[b].cap \in Nat /\ buf'[b].cap \in Nat
    BY <2>1 DEF BufRecords
  <2>3. ASSUME NEW w \in Users PROVE want[w] \in Nat /\ store[w] \in Nat
    <3>1. (store[w] \in Stores \/ store[w] = 0) /\ want[w] \in Nat
      BY <2>1
    <3>2. \A s \in Stores : s \in Nat
      BY <2>1
    <3> QED BY <3>1, <3>2
  <2>4. Stores' = Stores
    BY DEF Stores
  <2> QED BY <2>1, <2>2, <2>3, <2>4
<1>2. \A b \in Buffers : (b \in Fresh => /\ \A s \in Stores : ~Stored(b, s)
                                        /\ \A w \in Users : hold[w] # b)
  BY DEF Fresh
<1>3. \A b \in Buffers : buf'[b].attached => buf'[b].cap >= buf'[b].belongs
  BY DEF LeastInv
<1>4. ASSUME NEW s \in Stores, NEW b \in Buffers, Stored(b, s)' PROVE buf'[b].cap >= s
  <2>1. CASE Stored(b, s)
    <3>1. buf[b].cap >= s
      BY <2>1 DEF LeastInv
    <3>2. buf'[b].cap >= buf[b].cap
      BY <1>1, <1>2, <2>1
    <3>3. buf'[b].cap \in Nat /\ buf[b].cap \in Nat /\ s \in Nat
      BY <1>1
    <3> QED BY <3>1, <3>2, <3>3
  <2>2. CASE ~Stored(b, s)
    BY <1>4, <2>2
  <2> QED BY <2>1, <2>2
<1>5. ASSUME NEW w \in Users \ {u}
      PROVE  /\ pc'[w] \in {"insert", "poolPut"} => buf'[hold'[w]].cap >= store'[w]
             /\ pc'[w] \in InPackage => store'[w] >= want'[w]
             /\ pc'[w] = "got" => buf'[hold'[w]].cap >= want'[w]
  <2>1. /\ pc'[w] = pc[w] /\ hold'[w] = hold[w] /\ want'[w] = want[w]
        /\ store'[w] = store[w]
    OBVIOUS
  <2>2. pc[w] \in {"insert", "poolPut", "got"} =>
          hold[w] \in Buffers /\ buf'[hold[w]].cap >= buf[hold[w]].cap
    <3>1. pc[w] \in {"insert", "poolPut", "got"} => hold[w] \in Buffers
      BY TypeFacts DEF InHand
    <3> QED BY <1>1, <1>2, <3>1
  <2>3. /\ pc[w] \in {"insert", "poolPut"} => buf[hold[w]].cap >= store[w]
        /\ pc[w] \in InPackage => store[w] >= want[w]
        /\ pc[w] = "got" => buf[hold[w]].cap >= want[w]
    BY DEF LeastInv
  <2> QED BY <1>1, <2>1, <2>2, <2>3
<1>6. \A w \in Users :
        /\ pc'[w] \in {"insert", "poolPut"} => buf'[hold'[w]].cap >= store'[w]
        /\ pc'[w] \in InPackage => store'[w] >= want'[w]
        /\ pc'[w] = "got" => buf'[hold'[w]].cap >= want'[w]
  BY <1>5
<1> QED BY <1>1, <1>3, <1>4, <1>6 DEF LeastInv

\* What other users have is left alone.
Others(u) ==
  \A w \in Users \ {u} :
    pc'[w] = pc[w] /\ hold'[w] = hold[w] /\ want'[w] = want[w] /\ store'[w] = store[w]

LEMMA TakesUser ==
  ASSUME TypeOK, NEW u \in Users, NEW b, NEW r, Takes(u, b, r), store' = store,
         \A w \in Users \ {u} : want'[w] = want[w]
  PROVE  /\ Others(u) /\ pc'[u] = "got" /\ hold'[u] = b /\ store'[u] = store[u]
         /\ buf'[b] = r /\ \A c \in Buffers \ {b} : buf'[c] = buf[c]
BY TypeFacts DEF Takes, Others

LEMMA LeavesUser ==
  ASSUME TypeOK, NEW u \in Users, Leaves(u)
  PROVE  /\ Others(u) /\ pc'[u] = "idle" /\ hold'[u] = None
         /\ want'[u] = 0 /\ store'[u] = 0
BY TypeFacts DEF Leaves, Others

LEMMA MovesUser ==
  ASSUME TypeOK, NEW u \in Users, NEW to, NEW s, NEW n, pc' = [pc EXCEPT ![u] = to],
         hold' = hold, want' = [want EXCEPT ![u] = n], store' = [store EXCEPT ![u] = s]
  PROVE  /\ Others(u) /\ pc'[u] = to /\ hold'[u] = hold[u]
         /\ want'[u] = n /\ store'[u] = s
BY TypeFacts DEF Others

\* Only u moves, and the buffers and the stores stay.
LEMMA LeastQuiet ==
  ASSUME TypeOK, TypeOK', LeastInv, NEW u \in Users, Others(u),
         UNCHANGED <<settings, buff, pool, buf>>,
         pc'[u] \notin {"insert", "poolPut", "got"},
         pc'[u] \in InPackage => store'[u] >= want'[u] \/ settings.shrink
  PROVE  LeastInv'
BY StoredStays, LeastStep DEF Others

\* put's store never has more than the buffer.
LEMMA PutStoreLeast ==
  ASSUME Configured, NEW r \in BufRecords, r.attached, r.belongs \in Stores,
         r.cap >= r.belongs
  PROVE  Closed(r).belongs <= Closed(r).cap
<1>1. /\ Reset(r) \in BufRecords /\ Reset(r).cap = r.cap /\ Reset(r).belongs = r.belongs
      /\ Closed(r).cap = r.cap /\ Closed(r).belongs = PutStore(Reset(r))
  BY ResetFacts, ClosedFacts
<1>2. Stores \in SUBSET Nat /\ Largest \in Nat /\ r.cap \in Nat
  BY StoreFacts DEF BufRecords
<1> QED BY <1>1, <1>2 DEF PutStore

LEMMA LeastUser ==
  ASSUME TypeOK, TypeOK', LeastInv, NEW u \in Users,
         \/ \E n \in Requests : GetCall(u, n) \/ GetOversize(u, n)
         \/ GetStep(u) \/ Use(u) \/ PutStep(u)
  PROVE  LeastInv'
<1>0. /\ Configured /\ Stores \in SUBSET Nat /\ buf \in [Buffers -> BufRecords]
      /\ \A w \in Users : want[w] \in Nat
  BY TypeFacts, StoreFacts
<1>p. "got" \notin InPackage /\ "insert" \notin InPackage /\ "poolPut" \notin InPackage
      /\ "idle" \notin InPackage /\ "using" \notin InPackage /\ "get" \in InPackage
      /\ "sync" \in InPackage /\ "alloc" \in InPackage
  BY DEF InPackage
<1>1. ASSUME NEW n \in Requests, GetCall(u, n) PROVE LeastInv'
  <2>1. n \in Nat /\ n <= GetStore(n)
    BY <1>0, <1>1, CapacityAssumption, StoreFacts DEF GetCall
  <2>2. /\ want' = [want EXCEPT ![u] = n] /\ store' = [store EXCEPT ![u] = GetStore(n)]
        /\ pc' = [pc EXCEPT ![u] = "get"] /\ UNCHANGED <<settings, buff, pool, buf, hold>>
    BY <1>1 DEF GetCall, Goto
  <2>3. Others(u) /\ pc'[u] = "get" /\ want'[u] = n /\ store'[u] = GetStore(n)
    BY <2>2, MovesUser
  <2>4. GetStore(n) \in Nat
    BY <1>0, <1>1, <2>1, StoreFacts DEF GetCall
  <2>5. store'[u] >= want'[u]
    BY <2>1, <2>3, <2>4
  <2> QED BY <2>2, <2>3, <2>5, LeastQuiet
<1>2. ASSUME GetDefault(u) PROVE LeastInv'
  <2> DEFINE to == IF Of(store[u]).syncPool THEN "sync" ELSE "alloc"
  <2>1. /\ pc[u] = "get" /\ pc' = [pc EXCEPT ![u] = to]
        /\ UNCHANGED <<settings, buff, pool, buf, hold, want, store>>
    BY <1>2 DEF GetDefault, Goto
  <2>2. to \notin {"insert", "poolPut", "got"}
    OBVIOUS
  <2> HIDE DEF to
  <2>3. Others(u) /\ pc'[u] = to
    BY <2>1, TypeFacts DEF Others
  <2>4. ~settings.shrink => store[u] >= want[u]
    BY <1>p, <2>1 DEF LeastInv
  <2> QED BY <2>1, <2>2, <2>3, <2>4, LeastQuiet
<1>3. ASSUME GetReceive(u) \/ SyncPoolHit(u) PROVE LeastInv'
  <2> DEFINE s == store[u]
  <2>1. /\ s \in Stores /\ UNCHANGED <<want, store>>
        /\ \A t \in Stores, c \in Buffers : Stored(c, t)' => Stored(c, t)
        /\ \E b \in Buffers : Stored(b, s) /\ Takes(u, b, Named(buf[b], s))
    <3>1. CASE GetReceive(u)
      <4>1. PICK b \in Buffers : b = Head(buff[s])
        BY <3>1, ReceiveIs DEF Takes
      <4>2. /\ s \in Stores /\ buff[s] # <<>> /\ Takes(u, b, Named(buf[b], s))
            /\ buff' = [buff EXCEPT ![s] = Tail(buff[s])] /\ UNCHANGED <<pool, want, store>>
        BY <3>1, <4>1, ReceiveIs
      <4> QED BY <4>1, <4>2, StoredReceive
    <3>2. CASE SyncPoolHit(u)
      <4>1. s \in Stores /\ UNCHANGED <<buff, want, store>>
        BY <3>2, HitIs
      <4>2. PICK b \in Buffers :
              /\ pool[s][b] > 0 /\ Takes(u, b, Named(buf[b], s))
              /\ pool' = [pool EXCEPT ![s] = [pool[s] EXCEPT ![b] = pool[s][b] - 1]]
        BY <3>2, HitIs
      <4> QED BY <4>1, <4>2, StoredLess
    <3> QED BY <1>3, <3>1, <3>2
  <2>2. PICK b \in Buffers : Stored(b, s) /\ Takes(u, b, Named(buf[b], s))
    BY <2>1
  <2> DEFINE r == Named(buf[b], s)
  <2>3. /\ r.cap = buf[b].cap /\ r.belongs = s /\ r.attached
    BY <1>0, <2>1, NamedFacts
  <2> HIDE DEF r
  <2>4. /\ Others(u) /\ pc'[u] = "got" /\ hold'[u] = b /\ store'[u] = s /\ settings' = settings
        /\ buf'[b] = r /\ \A c \in Buffers \ {b} : buf'[c] = buf[c]
    <3>1. settings' = settings
      BY <2>2 DEF Takes
    <3> QED BY <2>1, <2>2, <3>1, TakesUser DEF r
  <2>5. pc[u] \in InPackage
    BY <1>3, <1>p DEF GetReceive, SyncPoolHit
  <2>6. ~settings.shrink => buf[b].cap >= s /\ s >= want[u]
    BY <2>1, <2>2, <2>5 DEF LeastInv
  <2>7. s \in Nat /\ want[u] \in Nat /\ want'[u] = want[u] /\ buf[b].cap \in Nat
    BY <1>0, <2>1 DEF BufRecords
  <2>8. \A c \in Buffers : buf'[c] # buf[c] => c = b
    BY <2>4
  <2>9. ~settings.shrink => /\ buf'[b].cap >= buf[b].cap /\ buf'[b].cap >= buf'[b].belongs
                            /\ buf'[b].cap >= want'[u]
    BY <2>3, <2>4, <2>6, <2>7
  <2> HIDE DEF s
  <2> QED BY <1>p, <2>1, <2>4, <2>8, <2>9, LeastStep DEF Others
<1>4. ASSUME GetAlloc(u) \/ \E n \in Requests : GetOversize(u, n) PROVE LeastInv'
  <2>1. /\ UNCHANGED <<buff, pool, store>>
        /\ \A w \in Users \ {u} : want'[w] = want[w]
    BY <1>4, FreshIs
  <2>2. PICK b \in Fresh, r \in BufRecords :
          /\ Takes(u, b, r) /\ (r.attached => r.belongs <= r.cap)
          /\ IF GetAlloc(u) THEN want' = want /\ r.cap = store[u] /\ store[u] \in Stores
                            ELSE r.cap = want'[u]
    BY <1>4, FreshIs
  <2>3. /\ Others(u) /\ pc'[u] = "got" /\ hold'[u] = b /\ settings' = settings
        /\ buf'[b] = r /\ \A c \in Buffers \ {b} : buf'[c] = buf[c]
    <3>1. settings' = settings
      BY <2>2 DEF Takes
    <3> QED BY <2>1, <2>2, <3>1, TakesUser
  <2>4. r.cap \in Nat /\ r.belongs \in Nat
    BY DEF BufRecords
  <2>5. ~settings.shrink => r.cap >= want'[u]
    <3>1. CASE GetAlloc(u)
      <4>1. pc[u] \in InPackage
        BY <3>1, <1>p DEF GetAlloc
      <4> QED BY <2>2, <3>1, <4>1 DEF LeastInv
    <3>2. CASE ~GetAlloc(u)
      BY <2>2, <2>4, <3>2
    <3> QED BY <3>1, <3>2
  <2>6. r.attached => r.cap >= r.belongs
    BY <2>2, <2>4
  <2> QED BY <1>p, <2>1, <2>3, <2>5, <2>6, StoredStays, LeastStep DEF Others
<1>5. ASSUME Use(u) PROVE LeastInv'
  <2>1. /\ hold[u] \in Buffers /\ pc' = [pc EXCEPT ![u] = "using"]
        /\ UNCHANGED <<settings, buff, pool, hold, want, store>>
    BY <1>5, UseIs
  <2>2. PICK r \in BufRecords :
          /\ buf' = [buf EXCEPT ![hold[u]] = r]
          /\ r.belongs = buf[hold[u]].belongs /\ r.attached = buf[hold[u]].attached
          /\ ~settings.shrink => r.cap >= buf[hold[u]].cap
    BY <1>5, UseIs
  <2>3. Others(u) /\ pc'[u] = "using"
    BY <2>1, TypeFacts DEF Others
  <2>4. buf'[hold[u]] = r /\ \A c \in Buffers \ {hold[u]} : buf'[c] = buf[c]
    BY <1>0, <2>1, <2>2
  <2>5. /\ r.cap \in Nat /\ r.belongs \in Nat
        /\ buf[hold[u]].cap \in Nat /\ buf[hold[u]].belongs \in Nat
    BY <1>0, <2>1 DEF BufRecords
  <2>6. ~settings.shrink => (r.attached => r.cap >= r.belongs)
    <3>1. ~settings.shrink /\ buf[hold[u]].attached => buf[hold[u]].cap >= buf[hold[u]].belongs
      BY <2>1 DEF LeastInv
    <3> QED BY <2>2, <2>5, <3>1
  <2> QED BY <1>p, <2>1, <2>2, <2>3, <2>4, <2>6, StoredStays, LeastStep DEF Others
<1>6. ASSUME CloseDetached(u) PROVE LeastInv'
  <2>1. Leaves(u) /\ UNCHANGED <<settings, buff, pool, buf>>
    BY <1>6 DEF CloseDetached, Leave, Leaves, Goto
  <2> QED BY <1>p, <2>1, LeavesUser, LeastQuiet
<1>7. ASSUME Close(u) PROVE LeastInv'
  <2> DEFINE b == hold[u]
             r == Closed(buf[b])
  <2>1. /\ b \in Buffers /\ buf[b].attached /\ buf[b].belongs \in Stores
        /\ r.belongs \in Stores
        /\ buf' = [buf EXCEPT ![b] = r] /\ UNCHANGED <<settings, buff, pool>>
        /\ \/ Leaves(u)
           \/ /\ pc' = [pc EXCEPT ![u] = "insert"]
              /\ store' = [store EXCEPT ![u] = r.belongs]
              /\ UNCHANGED <<hold, want>>
    BY <1>7, CloseIs
  <2>2. r.cap = buf[b].cap /\ buf[b].cap \in Nat
    BY <1>0, <2>1, ClosedFacts DEF BufRecords
  <2>3. ~settings.shrink => r.cap >= r.belongs
    <3>1. ~settings.shrink => buf[b].cap >= buf[b].belongs
      BY <2>1 DEF LeastInv
    <3>2. ~settings.shrink => r.belongs <= r.cap
      BY <1>0, <2>1, <3>1, PutStoreLeast
    <3> QED BY <1>0, <2>1, <2>2, <3>2
  <2> HIDE DEF r
  <2>4. buf'[b] = r /\ \A c \in Buffers \ {b} : buf'[c] = buf[c]
    BY <1>0, <2>1
  <2>5. CASE Leaves(u)
    <3>1. Others(u) /\ pc'[u] = "idle"
      BY <2>5, LeavesUser
    <3> QED BY <1>p, <2>1, <2>2, <2>3, <2>4, <3>1, StoredStays, LeastStep DEF Others
  <2>6. CASE ~Leaves(u)
    <3>1. Others(u) /\ pc'[u] = "insert" /\ store'[u] = r.belongs /\ hold'[u] = b
      BY <2>1, <2>6, TypeFacts DEF Others
    <3> QED BY <1>p, <2>1, <2>2, <2>3, <2>4, <3>1, StoredStays, LeastStep DEF Others
  <2> QED BY <2>5, <2>6
<1>8. ASSUME Insert(u) \/ SyncPoolPut(u) PROVE LeastInv'
  <2> DEFINE s == store[u]
             b == hold[u]
  <2>1. /\ pc[u] \in {"insert", "poolPut"} /\ s \in Stores /\ b \in Buffers
        /\ UNCHANGED <<settings, buf>>
        /\ \A t \in Stores, c \in Buffers :
             Stored(c, t)' => Stored(c, t) \/ (t = s /\ c = b)
        /\ \/ Leaves(u)
           \/ pc' = [pc EXCEPT ![u] = "poolPut"] /\ UNCHANGED <<hold, want, store>>
    <3>1. CASE Insert(u)
      <4>1. /\ pc[u] = "insert" /\ s \in Stores /\ b \in Buffers
            /\ buff' = IF HasRoom(s) THEN [buff EXCEPT ![s] = Append(buff[s], b)] ELSE buff
            /\ UNCHANGED <<settings, pool, buf>>
            /\ \/ Leaves(u)
               \/ pc' = [pc EXCEPT ![u] = "poolPut"] /\ UNCHANGED <<hold, want, store>>
        BY <3>1, InsertIs
      <4> HIDE DEF s, b
      <4>2. CASE HasRoom(s)
        BY <4>1, <4>2, StoredAppend
      <4>3. CASE ~HasRoom(s)
        BY <4>1, <4>3, StoredStays
      <4> QED BY <4>2, <4>3
    <3>2. CASE SyncPoolPut(u)
      <4>1. /\ pc[u] = "poolPut" /\ s \in Stores /\ b \in Buffers
            /\ pool' = [pool EXCEPT ![s] = [pool[s] EXCEPT ![b] = pool[s][b] + 1]]
            /\ UNCHANGED <<settings, buff, buf>> /\ Leaves(u)
        BY <3>2, PoolPutIs
      <4> HIDE DEF s, b
      <4> QED BY <4>1, StoredMore
    <3> QED BY <1>8, <3>1, <3>2
  <2>2. ~settings.shrink => buf[b].cap >= s
    BY <2>1 DEF LeastInv
  <2>3. CASE Leaves(u)
    <3>1. Others(u) /\ pc'[u] = "idle"
      BY <2>3, LeavesUser
    <3> HIDE DEF s, b
    <3> QED BY <1>p, <2>1, <2>2, <3>1, LeastStep DEF Others
  <2>4. CASE ~Leaves(u)
    <3>1. Others(u) /\ pc'[u] = "poolPut" /\ store'[u] = s /\ hold'[u] = b
      BY <2>1, <2>4, TypeFacts DEF Others
    <3> HIDE DEF s, b
    <3> QED BY <1>p, <2>1, <2>2, <3>1, LeastStep DEF Others
  <2> QED BY <2>3, <2>4
<1> QED BY <1>1, <1>2, <1>3, <1>4, <1>5, <1>6, <1>7, <1>8 DEF GetStep, PutStep

LEMMA LeastNext == TypeOK /\ LeastInv /\ [Next]_vars => LeastInv'
<1> SUFFICES ASSUME TypeOK, LeastInv, [Next]_vars PROVE LeastInv'
  OBVIOUS
<1>0. TypeOK'
  BY TypeNext
<1>1. CASE SyncPoolGC
  <2>1. UNCHANGED <<settings, buff, buf, pc, hold, want, store>>
    BY <1>1, GCIs
  <2>2. PICK s \in Stores, b \in Buffers :
          /\ pool[s][b] > 0
          /\ pool' = [pool EXCEPT ![s] = [pool[s] EXCEPT ![b] = pool[s][b] - 1]]
    BY <1>1, GCIs
  <2>3. \A t \in Stores, c \in Buffers : Stored(c, t)' => Stored(c, t)
    BY <2>1, <2>2, StoredLess
  <2> QED BY <2>1, <2>3, StoresStay DEF LeastInv
<1>2. CASE UNCHANGED vars
  <2>1. \A t, c : Stored(c, t)' <=> Stored(c, t)
    BY <1>2, StoredStays DEF vars
  <2> QED BY <1>2, <2>1, StoresStay DEF vars, LeastInv
<1> QED BY <1>0, <1>1, <1>2, LeastUser DEF Next

\* As long as users only let buffers grow, Get returns at least what was asked for:
\* no store ever keeps a buffer that is smaller than the store.
THEOREM GetReturnsEnough == Spec => []AtLeast
<1>1. Init => TypeOK /\ LeastInv
  BY TypeInit, LeastInit
<1>2. TypeOK /\ LeastInv /\ [Next]_vars => TypeOK' /\ LeastInv'
  BY TypeNext, LeastNext
<1>3. LeastInv => AtLeast
  BY DEF LeastInv, AtLeast
<1> QED BY <1>1, <1>2, <1>3, PTL DEF Spec

-----------------------------------------------------------------------------
(***************************************************************************)
(* Exclusive ownership.  It holds of pools whose stores keep their buffers *)
(* in one place: with both, insert puts a buffer in the channel and in the *)
(* sync.Pool, which is the package's finding.                              *)
(***************************************************************************)
OnePlace == \A z \in settings.sizes : ~(z.syncPool /\ z.constBuff > 0)

\* The stores have one buffer less, one more, or the same.
StoresLose(b, s) ==
  /\ OnceInStores' /\ s \in Stores /\ b \in Buffers /\ Stored(b, s)
  /\ \A t \in Stores, c \in Buffers : Stored(c, t)' <=> Stored(c, t) /\ ~(c = b /\ t = s)

StoresGain(b, s) ==
  /\ OnceInStores' /\ s \in Stores /\ b \in Buffers
  /\ \A t \in Stores, c \in Buffers : Stored(c, t)' <=> Stored(c, t) \/ (c = b /\ t = s)

StoresKeep ==
  /\ OnceInStores'
  /\ \A t \in Stores, c \in Buffers : Stored(c, t)' <=> Stored(c, t)

LEMMA OnceKeeps ==
  ASSUME OnceInStores, UNCHANGED <<settings, buff, pool>>
  PROVE  StoresKeep
<1>1. Stores' = Stores
  BY StoresStay
<1>2. \A t, c : Stored(c, t)' <=> Stored(c, t)
  BY StoredStays
<1> QED BY <1>1, <1>2 DEF OnceInStores, StoresKeep

LEMMA OnceReceive ==
  ASSUME TypeOK, OnceInStores, settings' = settings, NEW s \in Stores, buff[s] # <<>>,
         NEW b, b = Head(buff[s]),
         buff' = [buff EXCEPT ![s] = Tail(buff[s])], pool' = pool
  PROVE  StoresLose(b, s)
<1>1. /\ b \in Buffers /\ Stored(b, s)
      /\ \A t \in Stores : Range(buff'[t]) \subseteq Range(buff[t])
      /\ \A t \in Stores, c \in Buffers : Stored(c, t)' => Stored(c, t)
      /\ \A t \in Stores, c \in Buffers : t # s \/ c # b => (Stored(c, t)' <=> Stored(c, t))
      /\ \A t \in Stores : IsInjective(buff'[t])
      /\ ~Stored(b, s)'
  BY StoredReceive
<1>2. Stores' = Stores
  BY StoresStay
<1>3. /\ \A t \in Stores, c \in Buffers :
           pool[t][c] > 0 => pool[t][c] = 1 /\ c \notin Range(buff[t])
      /\ \A t, x \in Stores, c \in Buffers : Stored(c, t) /\ Stored(c, x) => t = x
  BY DEF OnceInStores
<1>4. \A t \in Stores, c \in Buffers :
        pool'[t][c] > 0 => pool'[t][c] = 1 /\ c \notin Range(buff'[t])
  BY <1>1, <1>3
<1>5. \A t, x \in Stores, c \in Buffers : Stored(c, t)' /\ Stored(c, x)' => t = x
  BY <1>1, <1>3
<1>6. OnceInStores'
  BY <1>1, <1>2, <1>4, <1>5 DEF OnceInStores
<1> QED BY <1>1, <1>6 DEF StoresLose

LEMMA OnceLess ==
  ASSUME TypeOK, OnceInStores, settings' = settings, NEW s \in Stores, NEW b \in Buffers,
         pool[s][b] > 0, buff' = buff,
         pool' = [pool EXCEPT ![s] = [pool[s] EXCEPT ![b] = pool[s][b] - 1]]
  PROVE  StoresLose(b, s)
<1>1. /\ Stored(b, s) /\ pool'[s][b] = pool[s][b] - 1 /\ pool[s][b] \in Nat
      /\ \A t \in Stores, c \in Buffers : t # s \/ c # b => pool'[t][c] = pool[t][c]
      /\ \A t \in Stores, c \in Buffers : Stored(c, t)' => Stored(c, t)
      /\ \A t \in Stores, c \in Buffers : t # s \/ c # b => (Stored(c, t)' <=> Stored(c, t))
      /\ ~Stored(b, s)'
  BY StoredLess
<1>2. Stores' = Stores
  BY StoresStay
<1>3. /\ \A t \in Stores, c \in Buffers :
           pool[t][c] > 0 => pool[t][c] = 1 /\ c \notin Range(buff[t])
      /\ \A t, x \in Stores, c \in Buffers : Stored(c, t) /\ Stored(c, x) => t = x
      /\ \A t \in Stores : IsInjective(buff[t])
  BY DEF OnceInStores
<1>4. \A t \in Stores, c \in Buffers :
        pool'[t][c] > 0 => pool'[t][c] = 1 /\ c \notin Range(buff'[t])
  <2>1. ~(pool'[s][b] > 0)
    BY <1>1, <1>3
  <2> QED BY <1>1, <1>3, <2>1
<1>5. \A t, x \in Stores, c \in Buffers : Stored(c, t)' /\ Stored(c, x)' => t = x
  BY <1>1, <1>3
<1>6. OnceInStores'
  BY <1>2, <1>3, <1>4, <1>5 DEF OnceInStores
<1> QED BY <1>1, <1>6 DEF StoresLose

LEMMA OnceAppend ==
  ASSUME TypeOK, OnceInStores, settings' = settings, NEW s \in Stores, NEW b \in Buffers,
         \A t \in Stores : ~Stored(b, t),
         buff' = [buff EXCEPT ![s] = Append(buff[s], b)], pool' = pool
  PROVE  StoresGain(b, s)
<1>1. /\ \A t \in Stores, c \in Buffers :
           Stored(c, t)' <=> Stored(c, t) \/ (t = s /\ c = b)
      /\ \A t \in Stores \ {s} : buff'[t] = buff[t]
      /\ Range(buff'[s]) = Range(buff[s]) \cup {b}
      /\ IsInjective(buff[s]) /\ b \notin Range(buff[s]) => IsInjective(buff'[s])
  BY StoredAppend
<1>2. Stores' = Stores
  BY StoresStay
<1>3. /\ \A t \in Stores, c \in Buffers :
           pool[t][c] > 0 => pool[t][c] = 1 /\ c \notin Range(buff[t])
      /\ \A t, x \in Stores, c \in Buffers : Stored(c, t) /\ Stored(c, x) => t = x
      /\ \A t \in Stores : IsInjective(buff[t])
  BY DEF OnceInStores
<1>4. \A t \in Stores : b \notin Range(buff[t]) /\ ~(pool[t][b] > 0)
  BY DEF Stored
<1>5. \A t \in Stores : IsInjective(buff'[t])
  BY <1>1, <1>3, <1>4
<1>6. \A t \in Stores, c \in Buffers :
        pool'[t][c] > 0 => pool'[t][c] = 1 /\ c \notin Range(buff'[t])
  BY <1>1, <1>3, <1>4
<1>7. \A t, x \in Stores, c \in Buffers : Stored(c, t)' /\ Stored(c, x)' => t = x
  BY <1>1, <1>3
<1>8. OnceInStores'
  BY <1>2, <1>5, <1>6, <1>7 DEF OnceInStores
<1> QED BY <1>1, <1>8 DEF StoresGain

LEMMA OnceMore ==
  ASSUME TypeOK, OnceInStores, settings' = settings, NEW s \in Stores, NEW b \in Buffers,
         \A t \in Stores : ~Stored(b, t), buff' = buff,
         pool' = [pool EXCEPT ![s] = [pool[s] EXCEPT ![b] = pool[s][b] + 1]]
  PROVE  StoresGain(b, s)
<1>1. /\ \A t \in Stores, c \in Buffers :
           Stored(c, t)' <=> Stored(c, t) \/ (t = s /\ c = b)
      /\ pool'[s][b] = pool[s][b] + 1 /\ pool[s][b] \in Nat
      /\ \A t \in Stores, c \in Buffers : t # s \/ c # b => pool'[t][c] = pool[t][c]
  BY StoredMore
<1>2. Stores' = Stores
  BY StoresStay
<1>3. /\ \A t \in Stores, c \in Buffers :
           pool[t][c] > 0 => pool[t][c] = 1 /\ c \notin Range(buff[t])
      /\ \A t, x \in Stores, c \in Buffers : Stored(c, t) /\ Stored(c, x) => t = x
      /\ \A t \in Stores : IsInjective(buff[t])
  BY DEF OnceInStores
<1>4. \A t \in Stores : b \notin Range(buff[t]) /\ ~(pool[t][b] > 0)
  BY DEF Stored
<1>5. pool'[s][b] = 1
  BY <1>1, <1>4
<1>6. \A t \in Stores, c \in Buffers :
        pool'[t][c] > 0 => pool'[t][c] = 1 /\ c \notin Range(buff'[t])
  BY <1>1, <1>3, <1>4, <1>5
<1>7. \A t, x \in Stores, c \in Buffers : Stored(c, t)' /\ Stored(c, x)' => t = x
  BY <1>1, <1>3
<1>8. OnceInStores'
  BY <1>2, <1>3, <1>6, <1>7 DEF OnceInStores
<1> QED BY <1>1, <1>8 DEF StoresGain

\* A Get ends with a buffer that is in nobody's hands, and in no store any more.
LEMMA Gets ==
  ASSUME TypeOK, Exclusive, NEW u \in Users,
         \/ GetReceive(u) \/ SyncPoolHit(u) \/ GetAlloc(u)
         \/ \E n \in Requests : GetOversize(u, n)
  PROVE  /\ settings' = settings /\ store' = store
         /\ \A w \in Users \ {u} : want'[w] = want[w]
         /\ \E b \in Buffers, r \in BufRecords :
              /\ Takes(u, b, r)
              /\ \A w \in Users : hold[w] # b
              /\ \A t \in Stores : ~Stored(b, t)'
              /\ \/ /\ \E s \in Stores : StoresLose(b, s)
                    /\ r.full = buf[b].full /\ r.cap = buf[b].cap
                 \/ StoresKeep /\ r.full = TRUE
<1>0. /\ OnceInStores
      /\ \A s \in Stores, b \in Buffers, w \in Users : Stored(b, s) => hold[w] # b
  <2>1. ASSUME NEW s \in Stores, NEW b \in Buffers, NEW w \in Users, Stored(b, s)
        PROVE  hold[w] # b
    BY <2>1, NoneAssumption DEF Exclusive, OnceInHands
  <2> QED BY <2>1 DEF Exclusive
<1>1. CASE GetReceive(u)
  <2> DEFINE s == store[u]
  <2>1. PICK b \in Buffers : b = Head(buff[s])
    BY <1>1, ReceiveIs DEF Takes
  <2>2. /\ s \in Stores /\ buff[s] # <<>> /\ Takes(u, b, Named(buf[b], s))
        /\ buff' = [buff EXCEPT ![s] = Tail(buff[s])] /\ UNCHANGED <<pool, want, store>>
    BY <1>1, <2>1, ReceiveIs
  <2>3. settings' = settings /\ buf[b] \in BufRecords /\ s \in Nat
    BY <2>2, TypeFacts, StoreFacts DEF Takes
  <2>4. StoresLose(b, s)
    BY <1>0, <2>1, <2>2, <2>3, OnceReceive
  <2>5. /\ Named(buf[b], s) \in BufRecords
        /\ Named(buf[b], s).cap = buf[b].cap /\ Named(buf[b], s).full = buf[b].full
    BY <2>3, NamedFacts
  <2>6. \A t \in Stores : ~Stored(b, t)'
    BY <1>0, <2>4 DEF StoresLose, OnceInStores
  <2>7. \A w \in Users : hold[w] # b
    BY <1>0, <2>4 DEF StoresLose
  <2> HIDE DEF s
  <2> QED BY <2>2, <2>3, <2>4, <2>5, <2>6, <2>7
<1>2. CASE SyncPoolHit(u)
  <2> DEFINE s == store[u]
  <2>1. s \in Stores /\ UNCHANGED <<buff, want, store>>
    BY <1>2, HitIs
  <2>2. PICK b \in Buffers :
          /\ pool[s][b] > 0 /\ Takes(u, b, Named(buf[b], s))
          /\ pool' = [pool EXCEPT ![s] = [pool[s] EXCEPT ![b] = pool[s][b] - 1]]
    BY <1>2, HitIs
  <2>3. settings' = settings /\ buf[b] \in BufRecords /\ s \in Nat
    BY <2>1, <2>2, TypeFacts, StoreFacts DEF Takes
  <2>4. StoresLose(b, s)
    BY <1>0, <2>1, <2>2, <2>3, OnceLess
  <2>5. /\ Named(buf[b], s) \in BufRecords
        /\ Named(buf[b], s).cap = buf[b].cap /\ Named(buf[b], s).full = buf[b].full
    BY <2>3, NamedFacts
  <2>6. \A t \in Stores : ~Stored(b, t)'
    BY <1>0, <2>4 DEF StoresLose, OnceInStores
  <2>7. \A w \in Users : hold[w] # b
    BY <1>0, <2>4 DEF StoresLose
  <2> HIDE DEF s
  <2> QED BY <2>1, <2>2, <2>3, <2>4, <2>5, <2>6, <2>7
<1>3. CASE GetAlloc(u) \/ \E n \in Requests : GetOversize(u, n)
  <2>1. /\ UNCHANGED <<buff, pool, store>>
        /\ \A w \in Users \ {u} : want'[w] = want[w]
    BY <1>3, FreshIs
  <2>2. PICK b \in Fresh, r \in BufRecords : Takes(u, b, r) /\ r.full = TRUE
    BY <1>3, FreshIs
  <2>3. settings' = settings
    BY <2>2 DEF Takes
  <2>4. StoresKeep
    BY <1>0, <2>1, <2>3, OnceKeeps
  <2>5. /\ b \in Buffers /\ \A w \in Users : hold[w] # b
        /\ \A t \in Stores : ~Stored(b, t)
    BY DEF Fresh
  <2>6. \A t \in Stores : ~Stored(b, t)'
    BY <2>4, <2>5 DEF StoresKeep
  <2> QED BY <2>1, <2>2, <2>3, <2>4, <2>5, <2>6
<1> QED BY <1>1, <1>2, <1>3

\* Users and Close change only the buffer in hand.
LEMMA Alters ==
  ASSUME TypeOK, NEW u \in Users, Use(u) \/ CloseDetached(u) \/ Close(u)
  PROVE  /\ hold[u] \in Buffers /\ hold[u] # None /\ pc[u] \in {"got", "using"}
         /\ UNCHANGED <<settings, buff, pool>>
         /\ \A c \in Buffers \ {hold[u]} : buf'[c] = buf[c]
         /\ \/ Leaves(u)
            \/ Use(u) /\ pc' = [pc EXCEPT ![u] = "using"] /\ UNCHANGED <<hold, want, store>>
            \/ /\ Close(u) /\ ~TooLarge(buf'[hold[u]].belongs, buf'[hold[u]].cap)
               /\ pc' = [pc EXCEPT ![u] = "insert"]
               /\ store' = [store EXCEPT ![u] = buf'[hold[u]].belongs]
               /\ UNCHANGED <<hold, want>>
<1>1. CASE Use(u)
  <2>1. /\ pc[u] = "got" /\ hold[u] \in Buffers /\ hold[u] # None
        /\ pc' = [pc EXCEPT ![u] = "using"]
        /\ UNCHANGED <<settings, buff, pool, hold, want, store>>
        /\ \E r \in BufRecords : buf' = [buf EXCEPT ![hold[u]] = r]
    BY <1>1, UseIs
  <2>2. \A c \in Buffers \ {hold[u]} : buf'[c] = buf[c]
    BY <2>1, BufStep, TypeFacts
  <2> QED BY <1>1, <2>1, <2>2
<1>2. CASE CloseDetached(u)
  <2>1. /\ pc[u] \in {"got", "using"} /\ Leaves(u) /\ UNCHANGED <<settings, buff, pool, buf>>
    BY <1>2 DEF CloseDetached, Leave, Leaves, Goto
  <2>2. hold[u] \in Buffers /\ hold[u] # None
    BY <2>1, TypeFacts DEF InHand
  <2> QED BY <2>1, <2>2
<1>3. CASE Close(u)
  <2> DEFINE b == hold[u]
             r == Closed(buf[b])
  <2>1. /\ pc[u] \in {"got", "using"} /\ b \in Buffers /\ b # None
        /\ r \in BufRecords /\ r.belongs \in Stores
        /\ buf' = [buf EXCEPT ![b] = r] /\ UNCHANGED <<settings, buff, pool>>
        /\ IF TooLarge(r.belongs, r.cap)
           THEN Leaves(u)
           ELSE /\ pc' = [pc EXCEPT ![u] = "insert"]
                /\ store' = [store EXCEPT ![u] = r.belongs]
                /\ UNCHANGED <<hold, want>>
    BY <1>3, CloseIs
  <2> HIDE DEF r
  <2>2. buf'[b] = r /\ \A c \in Buffers \ {b} : buf'[c] = buf[c]
    BY <2>1, BufStep
  <2> QED BY <1>3, <2>1, <2>2
<1> QED BY <1>1, <1>2, <1>3

\* insert gives the buffer to the channel, to the sync.Pool or up.
LEMMA Puts ==
  ASSUME TypeOK, Exclusive, OnePlace, NEW u \in Users, Insert(u) \/ SyncPoolPut(u)
  PROVE  /\ hold[u] \in Buffers /\ hold[u] # None /\ store[u] \in Stores
         /\ pc[u] \in {"insert", "poolPut"} /\ UNCHANGED <<settings, buf>>
         /\ \/ /\ StoresKeep /\ buff' = buff
               /\ Insert(u) /\ Of(store[u]).syncPool
               /\ pc' = [pc EXCEPT ![u] = "poolPut"] /\ UNCHANGED <<hold, want, store>>
            \/ StoresKeep /\ ~HasRoom(store[u]) /\ buff' = buff /\ Leaves(u)
            \/ /\ StoresGain(hold[u], store[u]) /\ Leaves(u)
               /\ \/ Insert(u) /\ buff' = [buff EXCEPT ![store[u]] = Append(buff[store[u]], hold[u])]
                  \/ SyncPoolPut(u) /\ buff' = buff
<1> DEFINE s == store[u]
           b == hold[u]
<1>0. OnceInStores /\ (hold[u] # None => \A t \in Stores : ~Stored(b, t))
  BY DEF Exclusive, OnceInHands
<1>1. CASE Insert(u)
  <2>1. /\ pc[u] = "insert" /\ s \in Stores /\ b \in Buffers /\ b # None
        /\ buff[s] \in Seq(Buffers)
        /\ buff' = IF HasRoom(s) THEN [buff EXCEPT ![s] = Append(buff[s], b)] ELSE buff
        /\ UNCHANGED <<settings, pool, buf>>
        /\ IF Of(s).syncPool
           THEN pc' = [pc EXCEPT ![u] = "poolPut"] /\ UNCHANGED <<hold, want, store>>
           ELSE Leaves(u)
    BY <1>1, InsertIs
  <2>2. Of(s).syncPool => ~HasRoom(s)
    <3>1. Of(s) \in settings.sizes /\ Of(s).constBuff \in Int
      BY <2>1, TypeFacts, StoreFacts DEF SizeRecords
    <3>2. Of(s).syncPool => ~(Of(s).constBuff > 0)
      BY <3>1 DEF OnePlace
    <3>3. Len(buff[s]) \in Nat
      BY <2>1
    <3> QED BY <3>1, <3>2, <3>3 DEF HasRoom
  <2> HIDE DEF s, b
  <2>3. CASE HasRoom(s)
    <3>1. StoresGain(b, s)
      BY <1>0, <2>1, <2>3, OnceAppend DEF b
    <3> QED BY <1>1, <2>1, <2>2, <2>3, <3>1 DEF b, s
  <2>4. CASE ~HasRoom(s)
    <3>1. StoresKeep
      BY <1>0, <2>1, <2>4, OnceKeeps
    <3> QED BY <1>1, <2>1, <2>4, <3>1 DEF b, s
  <2> QED BY <2>3, <2>4
<1>2. CASE SyncPoolPut(u)
  <2>1. /\ pc[u] = "poolPut" /\ s \in Stores /\ b \in Buffers /\ b # None
        /\ pool' = [pool EXCEPT ![s] = [pool[s] EXCEPT ![b] = pool[s][b] + 1]]
        /\ UNCHANGED <<settings, buff, buf>> /\ Leaves(u)
    BY <1>2, PoolPutIs
  <2>2. StoresGain(b, s)
    BY <1>0, <2>1, OnceMore
  <2> QED BY <1>2, <2>1, <2>2
<1> QED BY <1>1, <1>2

LEMMA Collects ==
  ASSUME TypeOK, OnceInStores, SyncPoolGC
  PROVE  /\ UNCHANGED <<settings, buff, buf, pc, hold, want, store>>
         /\ \E s \in Stores, b \in Buffers : StoresLose(b, s)
<1>1. UNCHANGED <<settings, buff, buf, pc, hold, want, store>>
  BY GCIs
<1>2. PICK s \in Stores, b \in Buffers :
        /\ pool[s][b] > 0
        /\ pool' = [pool EXCEPT ![s] = [pool[s] EXCEPT ![b] = pool[s][b] - 1]]
  BY GCIs
<1>3. StoresLose(b, s)
  BY <1>1, <1>2, OnceLess
<1> QED BY <1>1, <1>3

-----------------------------------------------------------------------------
LEMMA ExclusiveInit == Init => Exclusive
<1> SUFFICES ASSUME Init PROVE Exclusive
  OBVIOUS
<1>1. /\ \A s \in Stores : IsInjective(buff[s])
      /\ \A s, t \in Stores : \A b : b \in Range(buff[s]) /\ b \in Range(buff[t]) => s = t
      /\ \A s \in Stores, b \in Buffers : pool[s][b] = 0
  BY FillingsOnce
<1>2. OnceInStores
  BY <1>1 DEF OnceInStores, Stored
<1>3. OnceInHands
  BY DEF Init, OnceInHands
<1> QED BY <1>2, <1>3 DEF Exclusive

\* What u has in hand next nobody else has, and no store; what the stores have
\* more u has given away.
LEMMA HandsStep ==
  ASSUME OnceInHands, settings' = settings, NEW u \in Users, NEW h, hold'[u] = h,
         \A w \in Users : hold[w] \in Buffers \cup {None},
         \A w \in Users \ {u} : hold'[w] = hold[w],
         h # None => \A w \in Users \ {u} : hold[w] # h,
         h # None => \A t \in Stores : ~Stored(h, t)',
         \A t \in Stores, b \in Buffers : Stored(b, t)' => Stored(b, t) \/ b = hold[u]
  PROVE  OnceInHands'
<1>1. Stores' = Stores
  BY StoresStay
<1>2. ASSUME NEW w \in Users, NEW b, b = hold'[w], b # None
      PROVE  /\ \A x \in Users : hold'[x] = b => x = w
             /\ \A t \in Stores : ~Stored(b, t)'
  <2>1. CASE w = u
    BY <1>2, <2>1
  <2>2. CASE w # u
    <3>1. b = hold[w] /\ b \in Buffers
      BY <1>2, <2>2
    <3>2. \A x \in Users : hold[x] = b => x = w
      BY <1>2, <3>1 DEF OnceInHands
    <3>3. \A t \in Stores : ~Stored(b, t)
      BY <1>2, <3>1 DEF OnceInHands
    <3>4. \A x \in Users : hold'[x] = b => x = w
      BY <1>2, <2>2, <3>1, <3>2
    <3>5. \A t \in Stores : ~Stored(b, t)'
      BY <2>2, <3>1, <3>2, <3>3
    <3> QED BY <3>4, <3>5
  <2> QED BY <2>1, <2>2
<1> QED BY <1>1, <1>2 DEF OnceInHands

LEMMA ExclusiveUser ==
  ASSUME TypeOK, Exclusive, OnePlace, NEW u \in Users,
         \/ \E n \in Requests : GetCall(u, n) \/ GetOversize(u, n)
         \/ GetStep(u) \/ Use(u) \/ PutStep(u)
  PROVE  Exclusive'
<1>0. /\ OnceInStores /\ OnceInHands /\ hold \in [Users -> Buffers \cup {None}]
      /\ \A w \in Users : hold[w] # None =>
           /\ \A x \in Users : hold[x] = hold[w] => x = w
           /\ \A t \in Stores : ~Stored(hold[w], t)
  BY TypeFacts DEF Exclusive, OnceInHands
<1>1. ASSUME GetDefault(u) \/ \E n \in Requests : GetCall(u, n) PROVE Exclusive'
  <2>1. UNCHANGED <<settings, buff, pool, hold>>
    BY <1>1 DEF GetDefault, GetCall
  <2>2. StoresKeep
    BY <1>0, <2>1, OnceKeeps
  <2>3. \A b : \A t \in Stores : Stored(b, t)' <=> Stored(b, t)
    BY <2>1, StoredStays
  <2>4. OnceInHands'
    BY <1>0, <2>1, <2>3, HandsStep
  <2> QED BY <2>2, <2>4 DEF StoresKeep, Exclusive
<1>2. ASSUME \/ GetReceive(u) \/ SyncPoolHit(u) \/ GetAlloc(u)
             \/ \E n \in Requests : GetOversize(u, n)
      PROVE  Exclusive'
  <2>1. settings' = settings
    BY <1>2, Gets
  <2>2. PICK b \in Buffers, r \in BufRecords :
          /\ Takes(u, b, r)
          /\ \A w \in Users : hold[w] # b
          /\ \A t \in Stores : ~Stored(b, t)'
          /\ (\E s \in Stores : StoresLose(b, s)) \/ StoresKeep
    BY <1>2, Gets
  <2>3. OnceInStores' /\ \A t \in Stores, c \in Buffers : Stored(c, t)' => Stored(c, t)
    BY <2>2 DEF StoresLose, StoresKeep
  <2>4. hold'[u] = b /\ \A w \in Users \ {u} : hold'[w] = hold[w]
    BY <1>0, <2>2 DEF Takes
  <2>5. OnceInHands'
    BY <1>0, <2>1, <2>2, <2>3, <2>4, HandsStep
  <2> QED BY <2>3, <2>5 DEF Exclusive
<1>3. ASSUME Use(u) \/ CloseDetached(u) \/ Close(u) PROVE Exclusive'
  <2>1. /\ UNCHANGED <<settings, buff, pool>>
        /\ Leaves(u) \/ hold' = hold
    BY <1>3, Alters
  <2>2. StoresKeep /\ \A b : \A t \in Stores : Stored(b, t)' <=> Stored(b, t)
    BY <1>0, <2>1, OnceKeeps, StoredStays
  <2>3. (hold'[u] = None \/ hold'[u] = hold[u]) /\ \A w \in Users \ {u} : hold'[w] = hold[w]
    BY <1>0, <2>1 DEF Leaves
  <2>4. OnceInHands'
    BY <1>0, <2>1, <2>2, <2>3, HandsStep
  <2> QED BY <2>2, <2>4 DEF StoresKeep, Exclusive
<1>4. ASSUME Insert(u) \/ SyncPoolPut(u) PROVE Exclusive'
  <2>1. /\ settings' = settings /\ hold[u] # None
        /\ \/ StoresKeep /\ hold' = hold
           \/ (StoresKeep \/ StoresGain(hold[u], store[u])) /\ Leaves(u)
    BY <1>4, Puts
  <2>2. /\ OnceInStores'
        /\ \A t \in Stores, c \in Buffers : Stored(c, t)' => Stored(c, t) \/ c = hold[u]
    BY <2>1 DEF StoresKeep, StoresGain
  <2>3. (hold'[u] = None \/ hold' = hold) /\ \A w \in Users \ {u} : hold'[w] = hold[w]
    BY <1>0, <2>1 DEF Leaves
  <2>4. \A w \in Users : hold[w] # None => hold[w] \in Buffers
    BY <1>0
  <2>5. hold'[u] # None => StoresKeep /\ hold'[u] = hold[u] /\ hold[u] \in Buffers
    BY <1>0, <2>1, <2>3, <2>4 DEF Leaves
  <2>6. ASSUME NEW h, h = hold'[u] PROVE OnceInHands'
    <3>1. h # None => \A t \in Stores : ~Stored(h, t)'
      BY <1>0, <2>5, <2>6 DEF StoresKeep
    <3>2. h # None => \A w \in Users \ {u} : hold[w] # h
      BY <1>0, <2>5, <2>6
    <3>3. \A t \in Stores, b \in Buffers : Stored(b, t)' => Stored(b, t) \/ b = hold[u]
      BY <2>2
    <3>4. \A w \in Users : hold[w] \in Buffers \cup {None}
      BY <1>0
    <3> QED BY Zenon, <1>0, <2>1, <2>3, <2>6, <3>1, <3>2, <3>3, <3>4, HandsStep
  <2>7. OnceInHands'
    BY <2>6
  <2> QED BY <2>2, <2>7 DEF Exclusive
<1> QED BY <1>1, <1>2, <1>3, <1>4 DEF GetStep, PutStep

LEMMA OnePlaceStays ==
  ASSUME [Next]_vars
  PROVE  settings' = settings /\ (OnePlace' <=> OnePlace)
<1>1. settings' = settings
  BY Zenon DEF Next, vars, GetCall, GetOversize, GetStep, GetReceive, GetDefault,
         SyncPoolHit, GetAlloc, Use, PutStep, CloseDetached, Close, Insert, SyncPoolPut,
         SyncPoolGC
<1>2. OnePlace' <=> OnePlace
  BY Zenon, <1>1 DEF OnePlace
<1> QED BY <1>1, <1>2

LEMMA ExclusiveNext == TypeOK /\ Exclusive /\ OnePlace /\ [Next]_vars => Exclusive'
<1> SUFFICES ASSUME TypeOK, Exclusive, OnePlace, [Next]_vars PROVE Exclusive'
  OBVIOUS
<1>0. OnceInStores /\ OnceInHands /\ Stores' = Stores /\ settings' = settings
  BY OnePlaceStays, StoresStay DEF Exclusive
<1>1. CASE SyncPoolGC
  <2>1. UNCHANGED <<hold>>
    BY <1>0, <1>1, Collects
  <2>2. PICK s \in Stores, b \in Buffers : StoresLose(b, s)
    BY <1>0, <1>1, Collects
  <2>3. OnceInStores' /\ \A t \in Stores, c \in Buffers : Stored(c, t)' => Stored(c, t)
    BY <2>2 DEF StoresLose
  <2>4. \A w \in Users : hold[w] # None => hold[w] \in Buffers
    BY TypeFacts
  <2>5. OnceInHands'
    BY <1>0, <2>1, <2>3, <2>4 DEF OnceInHands
  <2> QED BY <2>3, <2>5 DEF Exclusive
<1>2. CASE UNCHANGED vars
  <2>1. StoresKeep /\ \A t, c : Stored(c, t)' <=> Stored(c, t)
    BY <1>0, <1>2, OnceKeeps, StoredStays DEF vars
  <2>2. OnceInHands'
    BY <1>0, <1>2, <2>1 DEF OnceInHands, vars
  <2> QED BY <2>1, <2>2 DEF StoresKeep, Exclusive
<1> QED BY <1>1, <1>2, ExclusiveUser DEF Next

\* In a pool whose stores keep their buffers in one place, no buffer is in two
\* places at once: two Gets never return the same memory.
THEOREM Exclusion == Spec => [](OnePlace => Exclusive)
<1> DEFINE Inv == TypeOK /\ (OnePlace => Exclusive)
<1>1. Init => Inv
  BY TypeInit, ExclusiveInit
<1>2. Inv /\ [Next]_vars => Inv'
  BY TypeNext, ExclusiveNext, OnePlaceStays
<1> QED BY <1>1, <1>2, PTL DEF Spec

-----------------------------------------------------------------------------
(***************************************************************************)
(* The refinement of ValuePool: what a step does to what users hold and    *)
(* the stores have.                                                        *)
(***************************************************************************)
Pooled == {b \in Buffers : \E s \in Stores : Stored(b, s)}

LEMMA PooledKeeps ==
  ASSUME settings' = settings
  PROVE  /\ StoresKeep => Pooled' = Pooled
         /\ \A b \in Buffers, s \in Stores : StoresGain(b, s) => Pooled' = Pooled \cup {b}
         /\ \A b \in Buffers, s \in Stores :
              OnceInStores /\ StoresLose(b, s) => b \in Pooled /\ Pooled' = Pooled \ {b}
<1>1. Stores' = Stores
  BY StoresStay
<1>2. ASSUME StoresKeep PROVE Pooled' = Pooled
  BY <1>1, <1>2 DEF Pooled, StoresKeep
<1>3. ASSUME NEW b \in Buffers, NEW s \in Stores, StoresGain(b, s)
      PROVE  Pooled' = Pooled \cup {b}
  BY <1>1, <1>3 DEF Pooled, StoresGain
<1>4. ASSUME NEW b \in Buffers, NEW s \in Stores, OnceInStores, StoresLose(b, s)
      PROVE  b \in Pooled /\ Pooled' = Pooled \ {b}
  <2>1. /\ Stored(b, s) /\ \A t \in Stores : Stored(b, t) => t = s
    BY <1>4 DEF StoresLose, OnceInStores
  <2>2. \A c \in Buffers : (\E t \in Stores : Stored(c, t)') <=> c # b /\ \E t \in Stores : Stored(c, t)
    BY <1>4, <2>1 DEF StoresLose
  <2> QED BY <1>1, <2>1, <2>2 DEF Pooled
<1> QED BY <1>2, <1>3, <1>4

LEMMA GetVP ==
  ASSUME TypeOK, NEW u \in Users, hold[u] = None, NEW b \in Buffers,
         \A w \in Users : hold[w] # b,
         hold' = [hold EXCEPT ![u] = b], Pooled' = Pooled \ {b}
  PROVE  [VP!Next]_VP!vars
<1>1. VP!Get(u)
  BY DEF VP!Get, VP!Free, Pooled
<1> QED BY <1>1 DEF VP!Next

LEMMA PutVP ==
  ASSUME NEW u \in Users, hold[u] # None, hold' = [hold EXCEPT ![u] = None],
         Pooled' = Pooled \cup {hold[u]} \/ Pooled' = Pooled
  PROVE  [VP!Next]_VP!vars
<1>1. VP!Put(u)
  BY DEF VP!Put, Pooled
<1> QED BY <1>1 DEF VP!Next

LEMMA StutterVP ==
  ASSUME hold' = hold, Pooled' = Pooled
  PROVE  [VP!Next]_VP!vars
BY DEF VP!vars, Pooled

LEMMA UserVP ==
  ASSUME TypeOK, Exclusive, OnePlace, NEW u \in Users,
         \/ \E n \in Requests : GetCall(u, n) \/ GetOversize(u, n)
         \/ GetStep(u) \/ Use(u) \/ PutStep(u)
  PROVE  [VP!Next]_VP!vars
<1>0. OnceInStores
  BY DEF Exclusive
<1>1. ASSUME GetDefault(u) \/ \E n \in Requests : GetCall(u, n) PROVE [VP!Next]_VP!vars
  <2>1. UNCHANGED <<settings, buff, pool, hold>>
    BY <1>1 DEF GetDefault, GetCall
  <2>2. Pooled' = Pooled
    BY <1>0, <2>1, OnceKeeps, PooledKeeps
  <2> QED BY <2>1, <2>2, StutterVP
<1>2. ASSUME \/ GetReceive(u) \/ SyncPoolHit(u) \/ GetAlloc(u)
             \/ \E n \in Requests : GetOversize(u, n)
      PROVE  [VP!Next]_VP!vars
  <2>1. settings' = settings
    BY <1>2, Gets
  <2>2. PICK b \in Buffers, r \in BufRecords :
          /\ Takes(u, b, r)
          /\ \A w \in Users : hold[w] # b
          /\ \A t \in Stores : ~Stored(b, t)'
          /\ (\E s \in Stores : StoresLose(b, s)) \/ StoresKeep
    BY <1>2, Gets
  <2>3. Pooled' = Pooled \ {b}
    <3>1. CASE \E s \in Stores : StoresLose(b, s)
      BY <1>0, <2>1, <3>1, PooledKeeps
    <3>2. CASE StoresKeep
      <4>1. Pooled' = Pooled
        BY <2>1, <3>2, PooledKeeps
      <4>2. b \notin Pooled
        BY <2>2, <3>2 DEF Pooled, StoresKeep
      <4> QED BY <4>1, <4>2
    <3> QED BY <2>2, <3>1, <3>2
  <2>4. hold[u] = None /\ hold' = [hold EXCEPT ![u] = b]
    BY <2>2 DEF Takes
  <2> QED BY <2>2, <2>3, <2>4, GetVP
<1>3. ASSUME Use(u) \/ CloseDetached(u) \/ Close(u) PROVE [VP!Next]_VP!vars
  <2>1. /\ UNCHANGED <<settings, buff, pool>> /\ hold[u] # None
        /\ hold' = [hold EXCEPT ![u] = None] \/ hold' = hold
    BY <1>3, Alters DEF Leaves
  <2>2. Pooled' = Pooled
    BY <1>0, <2>1, OnceKeeps, PooledKeeps
  <2> QED BY <2>1, <2>2, PutVP, StutterVP
<1>4. ASSUME Insert(u) \/ SyncPoolPut(u) PROVE [VP!Next]_VP!vars
  <2>1. /\ settings' = settings /\ hold[u] # None /\ hold[u] \in Buffers /\ store[u] \in Stores
        /\ \/ StoresKeep /\ hold' = hold
           \/ /\ StoresKeep \/ StoresGain(hold[u], store[u])
              /\ hold' = [hold EXCEPT ![u] = None]
    BY <1>4, Puts DEF Leaves
  <2>2. StoresKeep => Pooled' = Pooled
    BY <2>1, PooledKeeps
  <2>3. StoresGain(hold[u], store[u]) => Pooled' = Pooled \cup {hold[u]}
    BY <2>1, PooledKeeps
  <2> QED BY <2>1, <2>2, <2>3, PutVP, StutterVP
<1> QED BY <1>1, <1>2, <1>3, <1>4 DEF GetStep, PutStep

LEMMA InitVP == Init => VP!Init
BY DEF Init, VP!Init

LEMMA NextVP == TypeOK /\ Exclusive /\ OnePlace /\ [Next]_vars => [VP!Next]_VP!vars
<1> SUFFICES ASSUME TypeOK, Exclusive, OnePlace, [Next]_vars PROVE [VP!Next]_VP!vars
  OBVIOUS
<1>0. OnceInStores /\ settings' = settings
  BY OnePlaceStays DEF Exclusive
<1>1. CASE SyncPoolGC
  <2>1. hold' = hold
    BY <1>0, <1>1, Collects
  <2>2. PICK s \in Stores, b \in Buffers : StoresLose(b, s)
    BY <1>0, <1>1, Collects
  <2>3. b \in Pooled /\ Pooled' = Pooled \ {b}
    BY <1>0, <2>2, PooledKeeps
  <2>4. VP!Lose
    BY <2>1, <2>3 DEF VP!Lose, Pooled
  <2> QED BY <2>4 DEF VP!Next
<1>2. CASE UNCHANGED vars
  <2>1. Pooled' = Pooled /\ hold' = hold
    BY <1>0, <1>2, OnceKeeps, PooledKeeps DEF vars
  <2> QED BY <2>1, StutterVP
<1> QED BY <1>1, <1>2, UserVP DEF Next

\* A pool whose stores keep their buffers in one place implements ValuePool: a
\* buffer is lent to one user at a time and comes back from that user, whichever
\* store put chooses.
THEOREM PoolRefines == Spec => (OnePlace => Implements)
<1> SUFFICES Spec /\ OnePlace => Implements
  OBVIOUS
<1> DEFINE Inv == TypeOK /\ OnePlace /\ Exclusive
<1>1. Init /\ OnePlace => Inv /\ VP!Init
  BY TypeInit, ExclusiveInit, InitVP
<1>2. Inv /\ [Next]_vars => Inv' /\ [VP!Next]_VP!vars
  BY TypeNext, ExclusiveNext, OnePlaceStays, NextVP
<1> QED BY <1>1, <1>2, PTL DEF Spec, Implements, VP!Spec

-----------------------------------------------------------------------------
(***************************************************************************)
(* What the stores keep.  Nobody touches the record of a buffer in a       *)
(* store, and the buffer that insert adds is as Close left it.             *)
(***************************************************************************)
Inserting == {"insert", "poolPut"}

\* User u is now at a point where the invariants say something of it.
Arrives(u) ==
  \/ pc'[u] \notin {"got"} \cup Inserting
  \/ /\ pc'[u] = "got"
     /\ \E b \in Buffers :
          /\ hold'[u] = b
          /\ \/ buf'[b].full = TRUE
             \/ buf'[b].full = buf[b].full /\ \E s \in Stores : Stored(b, s)
  \/ /\ pc'[u] = "insert"
     /\ \E b \in Buffers : /\ hold'[u] = b
                           /\ settings.kind = "slice" => buf'[b].full = TRUE
                           /\ ~TooLarge(store'[u], buf'[b].cap)
                           /\ buf'[b].belongs = store'[u]
  \/ /\ pc'[u] = "poolPut" /\ pc[u] = "insert"
     /\ hold'[u] = hold[u] /\ hold[u] \in Buffers /\ store'[u] = store[u]
     /\ buf'[hold[u]] = buf[hold[u]] /\ Of(store[u]).syncPool

\* What another user has in hand, and its record, stay.
Undisturbed(w) ==
  /\ pc'[w] = pc[w] /\ hold'[w] = hold[w] /\ store'[w] = store[w]
  /\ hold[w] \in Buffers => buf'[hold[w]] = buf[hold[w]]

\* Every stored buffer was there, or is what u inserts.
Keeping(u) ==
  \A s \in Stores, b \in Buffers : Stored(b, s)' =>
    /\ buf'[b] = buf[b]
    /\ Stored(b, s) \/ (pc[u] \in Inserting /\ hold[u] = b /\ store[u] = s)

LEMMA RecordsStep ==
  ASSUME TypeOK, Exclusive, OnePlace, NEW u \in Users,
         \/ \E n \in Requests : GetCall(u, n) \/ GetOversize(u, n)
         \/ GetStep(u) \/ Use(u) \/ PutStep(u)
  PROVE  Arrives(u) /\ Keeping(u) /\ \A w \in Users \ {u} : Undisturbed(w)
<1>0. /\ OnceInStores
      /\ \A w \in Users : hold[w] # None =>
           /\ \A x \in Users : hold[x] = hold[w] => x = w
           /\ \A t \in Stores : ~Stored(hold[w], t)
      /\ \A w \in Users : hold[w] \in Buffers \cup {None}
      /\ None \notin Buffers
  BY TypeFacts, NoneAssumption DEF Exclusive, OnceInHands
<1>1. ASSUME GetDefault(u) \/ \E n \in Requests : GetCall(u, n)
      PROVE  Arrives(u) /\ Keeping(u) /\ \A w \in Users \ {u} : Undisturbed(w)
  <2>1. /\ UNCHANGED <<settings, buff, pool, buf, hold>> /\ pc'[u] \in {"get", "sync", "alloc"}
        /\ \A w \in Users \ {u} : pc'[w] = pc[w] /\ store'[w] = store[w]
    BY <1>1, TypeFacts DEF GetDefault, GetCall, Goto
  <2>2. \A t \in Stores, c \in Buffers : Stored(c, t)' <=> Stored(c, t)
    BY <2>1, StoredStays
  <2> QED BY <2>1, <2>2 DEF Arrives, Inserting, Keeping, Undisturbed
<1>2. ASSUME \/ GetReceive(u) \/ SyncPoolHit(u) \/ GetAlloc(u)
             \/ \E n \in Requests : GetOversize(u, n)
      PROVE  Arrives(u) /\ Keeping(u) /\ \A w \in Users \ {u} : Undisturbed(w)
  <2>1. settings' = settings /\ store' = store /\ \A w \in Users \ {u} : want'[w] = want[w]
    BY <1>2, Gets
  <2>2. PICK b \in Buffers, r \in BufRecords :
          /\ Takes(u, b, r)
          /\ \A w \in Users : hold[w] # b
          /\ \A t \in Stores : ~Stored(b, t)'
          /\ \/ (\E s \in Stores : StoresLose(b, s)) /\ r.full = buf[b].full /\ r.cap = buf[b].cap
             \/ StoresKeep /\ r.full = TRUE
    BY <1>2, Gets
  <2>3. /\ Others(u) /\ pc'[u] = "got" /\ hold'[u] = b
        /\ buf'[b] = r /\ \A c \in Buffers \ {b} : buf'[c] = buf[c]
    BY <2>1, <2>2, TakesUser
  <2>4. Arrives(u)
    BY <2>2, <2>3 DEF Arrives, StoresLose
  <2>5. \A t \in Stores, c \in Buffers : Stored(c, t)' => Stored(c, t) /\ c # b
    BY <2>2 DEF StoresLose, StoresKeep
  <2>6. Keeping(u)
    BY <2>3, <2>5 DEF Keeping
  <2> QED BY <2>2, <2>3, <2>4, <2>6 DEF Undisturbed, Others
<1>3. ASSUME Use(u) \/ CloseDetached(u) \/ Close(u)
      PROVE  Arrives(u) /\ Keeping(u) /\ \A w \in Users \ {u} : Undisturbed(w)
  <2> DEFINE b == hold[u]
  <2>1. /\ b \in Buffers /\ b # None /\ UNCHANGED <<settings, buff, pool>>
        /\ \A c \in Buffers \ {b} : buf'[c] = buf[c]
        /\ \/ Leaves(u)
           \/ pc' = [pc EXCEPT ![u] = "using"] /\ UNCHANGED <<hold, want, store>>
           \/ /\ Close(u) /\ ~TooLarge(buf'[b].belongs, buf'[b].cap)
              /\ pc' = [pc EXCEPT ![u] = "insert"]
              /\ store' = [store EXCEPT ![u] = buf'[b].belongs]
              /\ UNCHANGED <<hold, want>>
    BY <1>3, Alters
  <2>2. Close(u) => (settings.kind = "slice" => buf'[b].full = TRUE)
    <3>1. ASSUME Close(u)
          PROVE  /\ buf[b] \in BufRecords /\ buf[b].attached /\ buf[b].belongs \in Stores
                 /\ Closed(buf[b]) \in BufRecords /\ buf' = [buf EXCEPT ![b] = Closed(buf[b])]
      BY <3>1, CloseIs
    <3>2. Close(u) => buf'[b] = Closed(buf[b])
      BY <2>1, <3>1, TypeFacts
    <3> QED BY <3>1, <3>2, ClosedFacts, TypeFacts
  <2>3. Arrives(u)
    <3>1. CASE Leaves(u)
      <4>1. pc'[u] = "idle"
        BY <3>1, LeavesUser
      <4> QED BY <4>1 DEF Arrives, Inserting
    <3>2. CASE pc' = [pc EXCEPT ![u] = "using"]
      <4>1. pc'[u] = "using"
        BY <3>2, TypeFacts
      <4> QED BY <4>1 DEF Arrives, Inserting
    <3>3. CASE /\ Close(u) /\ ~TooLarge(buf'[b].belongs, buf'[b].cap)
               /\ pc' = [pc EXCEPT ![u] = "insert"]
               /\ store' = [store EXCEPT ![u] = buf'[b].belongs]
               /\ UNCHANGED <<hold, want>>
      <4>1. pc'[u] = "insert" /\ hold'[u] = b /\ store'[u] = buf'[b].belongs
        BY <3>3, TypeFacts
      <4> QED BY <2>1, <2>2, <3>3, <4>1 DEF Arrives
    <3> QED BY <2>1, <3>1, <3>2, <3>3
  <2>4. \A t \in Stores, c \in Buffers : Stored(c, t)' => Stored(c, t) /\ c # b
    BY <1>0, <2>1, StoredStays
  <2>5. Keeping(u)
    BY <2>1, <2>4 DEF Keeping
  <2>6. \A w \in Users \ {u} : pc'[w] = pc[w] /\ hold'[w] = hold[w] /\ store'[w] = store[w]
    BY <2>1, TypeFacts DEF Leaves
  <2>7. \A w \in Users \ {u} : hold[w] # b
    BY <1>0, <2>1
  <2> HIDE DEF b
  <2> QED BY <2>1, <2>3, <2>5, <2>6, <2>7 DEF Undisturbed
<1>4. ASSUME Insert(u) \/ SyncPoolPut(u)
      PROVE  Arrives(u) /\ Keeping(u) /\ \A w \in Users \ {u} : Undisturbed(w)
  <2>1. /\ hold[u] \in Buffers /\ store[u] \in Stores
        /\ pc[u] \in Inserting /\ UNCHANGED <<settings, buf>>
        /\ \/ /\ StoresKeep /\ pc[u] = "insert" /\ Of(store[u]).syncPool
              /\ pc' = [pc EXCEPT ![u] = "poolPut"] /\ UNCHANGED <<hold, want, store>>
           \/ (StoresKeep \/ StoresGain(hold[u], store[u])) /\ Leaves(u)
    BY <1>4, Puts DEF Inserting, Insert
  <2>2. Arrives(u)
    <3>1. CASE Leaves(u)
      <4>1. pc'[u] = "idle"
        BY <3>1, LeavesUser
      <4> QED BY <4>1 DEF Arrives, Inserting
    <3>2. CASE ~Leaves(u)
      <4>1. pc'[u] = "poolPut"
        BY <2>1, <3>2, TypeFacts
      <4> QED BY <2>1, <3>2, <4>1 DEF Arrives
    <3> QED BY <3>1, <3>2
  <2>3. Keeping(u)
    BY <2>1 DEF Keeping, StoresKeep, StoresGain
  <2>4. \A w \in Users \ {u} : pc'[w] = pc[w] /\ hold'[w] = hold[w] /\ store'[w] = store[w]
    BY <2>1, TypeFacts DEF Leaves
  <2> QED BY <2>1, <2>2, <2>3, <2>4 DEF Undisturbed
<1> QED BY <1>1, <1>2, <1>3, <1>4 DEF GetStep, PutStep

\* A slice in a store, on its way there, or just out of Get has its capacity as
\* length.
FullInv ==
  settings.kind = "slice" =>
    /\ \A s \in Stores, b \in Buffers : Stored(b, s) => buf[b].full = TRUE
    /\ \A u \in Users : pc[u] \in {"got"} \cup Inserting => buf[hold[u]].full = TRUE

\* A buffer in a store, or on its way there, is not of more than the MaxSize.
MaxInv ==
  /\ \A s \in Stores, b \in Buffers : Stored(b, s) => ~TooLarge(s, buf[b].cap)
  /\ \A u \in Users : pc[u] \in Inserting => ~TooLarge(store[u], buf[hold[u]].cap)

\* A buffer on its way to a store belongs to that store.
WayInv ==
  \A u \in Users :
    /\ pc[u] \in Inserting => buf[hold[u]].belongs = store[u]
    /\ pc[u] = "poolPut" => Of(store[u]).syncPool

KeptInv == FullInv /\ MaxInv /\ WayInv

LEMMA KeptInit == Init => KeptInv
<1> SUFFICES ASSUME Init PROVE KeptInv
  OBVIOUS
<1>1. \A u \in Users : pc[u] = "idle"
  BY DEF Init
<1>2. \A s \in Stores, b \in Buffers : Stored(b, s) => buf[b].cap = s /\ buf[b].full = TRUE
  BY FillingsOnce
<1>3. Configured
  BY TypeInit, TypeFacts
<1>4. ASSUME NEW s \in Stores, NEW b \in Buffers, Stored(b, s)
      PROVE  ~TooLarge(s, buf[b].cap)
  <2>1. /\ Of(s).maxSize \in Int /\ s \in Nat
        /\ Of(s).maxSize > 0 => Of(s).maxSize >= s
    BY <1>3, StoreFacts DEF ValidSize, SizeRecords
  <2> QED BY <1>2, <1>4, <2>1 DEF TooLarge
<1> QED BY <1>1, <1>2, <1>4 DEF KeptInv, FullInv, MaxInv, WayInv, Inserting

LEMMA KeptUser ==
  ASSUME TypeOK, Exclusive, OnePlace, KeptInv, settings' = settings, NEW u \in Users,
         Arrives(u), Keeping(u), \A w \in Users \ {u} : Undisturbed(w)
  PROVE  KeptInv'
<1>0. Stores' = Stores /\ \A s, c : TooLarge(s, c)' <=> TooLarge(s, c)
  BY StoresStay DEF TooLarge
<1>1. \A w \in Users : pc[w] \in {"got"} \cup Inserting => hold[w] \in Buffers
  BY TypeFacts DEF InHand, Inserting
<1>2. ASSUME settings.kind = "slice"
      PROVE  /\ \A s \in Stores, b \in Buffers : Stored(b, s)' => buf'[b].full = TRUE
             /\ \A w \in Users : pc'[w] \in {"got"} \cup Inserting => buf'[hold'[w]].full = TRUE
  <2>1. /\ \A s \in Stores, b \in Buffers : Stored(b, s) => buf[b].full = TRUE
        /\ \A w \in Users : pc[w] \in {"got"} \cup Inserting => buf[hold[w]].full = TRUE
    BY <1>2 DEF KeptInv, FullInv
  <2>2. \A s \in Stores, b \in Buffers : Stored(b, s)' => buf'[b].full = TRUE
    BY <2>1 DEF Keeping
  <2>3. ASSUME pc'[u] \in {"got"} \cup Inserting PROVE buf'[hold'[u]].full = TRUE
    BY <1>2, <2>1, <2>3 DEF Arrives, Inserting
  <2>4. ASSUME NEW w \in Users \ {u}, pc'[w] \in {"got"} \cup Inserting
        PROVE  buf'[hold'[w]].full = TRUE
    BY <1>1, <2>1, <2>4 DEF Undisturbed
  <2> QED BY <2>2, <2>3, <2>4
<1>3. FullInv'
  BY <1>0, <1>2 DEF FullInv
<1>4. \A s \in Stores, b \in Buffers : Stored(b, s)' => ~TooLarge(s, buf'[b].cap)
  BY DEF Keeping, KeptInv, MaxInv
<1>5. ASSUME NEW w \in Users, pc'[w] \in Inserting
      PROVE  /\ ~TooLarge(store'[w], buf'[hold'[w]].cap)
             /\ buf'[hold'[w]].belongs = store'[w]
             /\ pc'[w] = "poolPut" => Of(store'[w]).syncPool
  <2>1. CASE w # u
    BY <1>1, <1>5, <2>1 DEF Undisturbed, KeptInv, MaxInv, WayInv
  <2>2. CASE w = u
    <3>1. CASE pc'[u] = "insert"
      BY <2>2, <3>1 DEF Arrives, Inserting
    <3>2. CASE pc'[u] = "poolPut"
      <4>1. /\ pc[u] = "insert" /\ hold'[u] = hold[u] /\ store'[u] = store[u]
            /\ buf'[hold[u]] = buf[hold[u]] /\ Of(store[u]).syncPool
        BY <3>2 DEF Arrives, Inserting
      <4>2. /\ ~TooLarge(store[u], buf[hold[u]].cap) /\ buf[hold[u]].belongs = store[u]
        BY <4>1 DEF KeptInv, MaxInv, WayInv, Inserting
      <4> QED BY <2>2, <4>1, <4>2
    <3> QED BY <1>5, <2>2, <3>1, <3>2 DEF Inserting
  <2> QED BY <2>1, <2>2
<1>6. MaxInv'
  BY <1>0, <1>4, <1>5 DEF MaxInv
<1>7. WayInv'
  <2>1. \A s : Of(s)' = Of(s)
    BY StoresStay
  <2> QED BY <1>5, <2>1 DEF WayInv, Inserting
<1> QED BY <1>3, <1>6, <1>7 DEF KeptInv

LEMMA KeptNext == TypeOK /\ Exclusive /\ OnePlace /\ KeptInv /\ [Next]_vars => KeptInv'
<1> SUFFICES ASSUME TypeOK, Exclusive, OnePlace, KeptInv, [Next]_vars PROVE KeptInv'
  OBVIOUS
<1>0. /\ OnceInStores /\ Stores' = Stores /\ settings' = settings
      /\ \A s, c : TooLarge(s, c)' <=> TooLarge(s, c)
      /\ \A s : Of(s)' = Of(s)
  BY OnePlaceStays, StoresStay DEF Exclusive, TooLarge
<1>1. CASE SyncPoolGC \/ UNCHANGED vars
  <2>1. UNCHANGED <<buf, pc, hold, store>>
    BY <1>0, <1>1, Collects DEF vars
  <2>2. \A s \in Stores, b \in Buffers : Stored(b, s)' => Stored(b, s)
    <3>1. SyncPoolGC => \E s \in Stores, b \in Buffers : StoresLose(b, s)
      BY <1>0, Collects
    <3>2. UNCHANGED vars => \A s, b : Stored(b, s)' <=> Stored(b, s)
      BY StoredStays DEF vars
    <3> QED BY <1>1, <3>1, <3>2 DEF StoresLose
  <2>3. FullInv' /\ MaxInv'
    BY <1>0, <2>1, <2>2 DEF KeptInv, FullInv, MaxInv
  <2>4. WayInv'
    BY <1>0, <2>1 DEF KeptInv, WayInv
  <2> QED BY <2>3, <2>4 DEF KeptInv
<1>2. CASE ~(SyncPoolGC \/ UNCHANGED vars)
  <2>1. PICK u \in Users : \/ \E n \in Requests : GetCall(u, n) \/ GetOversize(u, n)
                           \/ GetStep(u) \/ Use(u) \/ PutStep(u)
    BY <1>2 DEF Next
  <2> QED BY <1>0, <2>1, RecordsStep, KeptUser
<1> QED BY <1>1, <1>2

\* The invariant of a pool whose stores keep their buffers in one place.
StoresInv == TypeOK /\ (OnePlace => Exclusive /\ KeptInv)

LEMMA StoresInvariant == Spec => []StoresInv
<1>1. Init => StoresInv
  BY TypeInit, ExclusiveInit, KeptInit DEF StoresInv
<1>2. StoresInv /\ [Next]_vars => StoresInv'
  BY TypeNext, ExclusiveNext, KeptNext, OnePlaceStays DEF StoresInv
<1> QED BY <1>1, <1>2, PTL DEF Spec

\* Get hands out every slice with its capacity as length, whatever its last user
\* did to it, when the stores keep their buffers in one place.
THEOREM SlicesReset == Spec => [](OnePlace => SlicesFull)
<1>1. StoresInv => (OnePlace => SlicesFull)
  BY DEF StoresInv, KeptInv, FullInv, SlicesFull
<1> QED BY <1>1, StoresInvariant, PTL

\* No store keeps a buffer of more than its MaxSize, when the stores keep their
\* buffers in one place: nobody makes a stored buffer grow.
THEOREM LimitsKept == Spec => [](OnePlace => MaxSizeKept)
<1>1. ASSUME TypeOK, KeptInv PROVE MaxSizeKept
  <2>1. ASSUME NEW s \in Stores, NEW b \in Buffers, Of(s).maxSize > 0, Stored(b, s)
        PROVE  buf[b].cap <= Of(s).maxSize
    <3>1. Of(s).maxSize \in Int /\ buf[b].cap \in Nat
      BY <1>1, TypeFacts, StoreFacts DEF SizeRecords, BufRecords
    <3>2. ~TooLarge(s, buf[b].cap)
      BY <1>1, <2>1 DEF KeptInv, MaxInv
    <3> QED BY <2>1, <3>1, <3>2 DEF TooLarge
  <2> QED BY <2>1 DEF MaxSizeKept
<1>2. StoresInv => (OnePlace => MaxSizeKept)
  BY <1>1 DEF StoresInv
<1> QED BY <1>2, StoresInvariant, PTL

-----------------------------------------------------------------------------
(***************************************************************************)
(* The static buffers of the largest store.  A buffer leaves the channel   *)
(* for a user, who brings it back: put never sends a buffer of the largest *)
(* store to another one, and without MaxSize never throws it away.         *)
(***************************************************************************)
Busy == {u \in Users : hold[u] # None}

CountInv == IsFiniteSet(Busy) /\ NotDrained

Lasting == ~Of(Largest).syncPool /\ Of(Largest).maxSize <= 0

LEMMA CountInit == Init => CountInv
<1> SUFFICES ASSUME Init PROVE CountInv
  OBVIOUS
<1>1. TypeOK /\ Configured
  BY TypeInit, TypeFacts
<1>2. Busy = {} /\ Out(Largest) = {}
  BY DEF Busy, Out, Init
<1>3. Largest \in Stores /\ Of(Largest).constBuff \in Int /\ ValidSize(Of(Largest))
  BY <1>1, StoreFacts DEF SizeRecords
<1>4. ASSUME Lasting PROVE Len(buff[Largest]) >= Of(Largest).constBuff
  <2>1. Of(Largest).constBuff > 0 /\ Preallocated(Of(Largest)) = Of(Largest).constBuff
    BY <1>3, <1>4 DEF Lasting, ValidSize, Preallocated
  <2>2. buff[Largest] \in Seq(Buffers) /\ DOMAIN buff[Largest] = 1 .. Preallocated(Of(Largest))
    BY <1>1, <1>3, TypeFacts DEF Init, Fillings
  <2> QED BY <1>3, <2>1, <2>2
<1>5. IsFiniteSet({}) /\ Cardinality({}) = 0
  BY FS_EmptySet
<1>6. \A n \in Nat, m \in Int : n >= m => n + 0 >= m
  OBVIOUS
<1>7. Len(buff[Largest]) \in Nat
  BY <1>1, <1>3, TypeFacts
<1> QED BY <1>2, <1>3, <1>4, <1>5, <1>6, <1>7 DEF CountInv, NotDrained, Lasting

\* One user more, or one less, is out with buffers of the store.
LEMMA OutCounts ==
  ASSUME NEW A, NEW B, IsFiniteSet(A), IsFiniteSet(B), NEW u, A \ {u} \subseteq B
  PROVE  /\ Cardinality(A) \in Nat /\ Cardinality(B) \in Nat
         /\ Cardinality(B) >= Cardinality(A) - 1
         /\ A \subseteq B => Cardinality(B) >= Cardinality(A)
         /\ A \subseteq B /\ u \in B /\ u \notin A => Cardinality(B) >= Cardinality(A) + 1
<1>1. /\ Cardinality(A) \in Nat /\ Cardinality(B) \in Nat
      /\ IsFiniteSet(A \ {u}) /\ Cardinality(A \ {u}) \in Nat
      /\ Cardinality(A \ {u}) = IF u \in A THEN Cardinality(A) - 1 ELSE Cardinality(A)
  BY FS_CardinalityType, FS_RemoveElement, FS_Subset
<1>2. Cardinality(A \ {u}) <= Cardinality(B)
  BY FS_Subset
<1>3. A \subseteq B => Cardinality(A) <= Cardinality(B)
  BY FS_Subset
<1>4. ASSUME A \subseteq B, u \in B, u \notin A PROVE Cardinality(B) >= Cardinality(A) + 1
  <2>1. IsFiniteSet(A \cup {u}) /\ Cardinality(A \cup {u}) = Cardinality(A) + 1
    BY <1>4, FS_AddElement
  <2>2. A \cup {u} \subseteq B
    BY <1>4
  <2>3. Cardinality(A \cup {u}) <= Cardinality(B)
    BY <2>2, FS_Subset
  <2> QED BY <1>1, <2>1, <2>3
<1> QED BY <1>1, <1>2, <1>3, <1>4

LEMMA CountStep ==
  ASSUME TypeOK, TypeOK', CountInv, settings' = settings, NEW u \in Users,
         \A w \in Users \ {u} : Undisturbed(w),
         Lasting =>
           \/ buff'[Largest] = buff[Largest] /\ (u \in Out(Largest) => u \in Out(Largest)')
           \/ /\ Len(buff'[Largest]) = Len(buff[Largest]) - 1
              /\ u \notin Out(Largest) /\ u \in Out(Largest)'
           \/ Len(buff'[Largest]) = Len(buff[Largest]) + 1
           \/ Len(buff'[Largest]) >= Of(Largest).constBuff
  PROVE  CountInv'
<1> DEFINE A == Out(Largest)
           B == Out(Largest)'
           n == Len(buff[Largest])
           m == Len(buff'[Largest])
           k == Of(Largest).constBuff
<1>1. Largest' = Largest /\ Of(Largest)' = Of(Largest) /\ (Lasting' <=> Lasting)
  BY StoresStay DEF Lasting
<1>2. Configured /\ Largest \in Stores /\ k \in Int /\ n \in Nat /\ m \in Nat
  <2>1. Configured /\ Largest \in Stores /\ k \in Int /\ Stores' = Stores
    BY TypeFacts, StoreFacts, StoresStay DEF SizeRecords
  <2>2. buff \in [Stores -> Seq(Buffers)] /\ buff' \in [Stores -> Seq(Buffers)]
    BY <2>1 DEF TypeOK
  <2> QED BY <2>1, <2>2
<1>3. A \ {u} \subseteq B
  <2>1. ASSUME NEW w \in Users \ {u}, w \in A PROVE w \in B
    <3>1. hold[w] # None /\ hold[w] \in Buffers /\ buf[hold[w]].attached /\ buf[hold[w]].belongs = Largest
      BY <2>1, TypeFacts DEF Out
    <3>2. hold'[w] = hold[w] /\ buf'[hold[w]] = buf[hold[w]]
      BY <3>1 DEF Undisturbed
    <3> QED BY <1>1, <3>1, <3>2 DEF Out
  <2> QED BY <2>1 DEF Out
<1>4. IsFiniteSet(Busy) /\ IsFiniteSet(Busy')
  <2>1. IsFiniteSet(Busy) /\ IsFiniteSet(Busy \cup {u})
    BY FS_AddElement DEF CountInv
  <2>2. Busy' \subseteq Busy \cup {u}
    BY DEF Busy, Undisturbed
  <2> QED BY <2>1, <2>2, FS_Subset
<1>5. IsFiniteSet(A) /\ IsFiniteSet(B)
  <2>1. A \subseteq Busy /\ B \subseteq Busy'
    BY DEF Out, Busy
  <2> QED BY <1>4, <2>1, FS_Subset
<1>6. /\ Cardinality(A) \in Nat /\ Cardinality(B) \in Nat
      /\ Cardinality(B) >= Cardinality(A) - 1
      /\ A \subseteq B => Cardinality(B) >= Cardinality(A)
      /\ A \subseteq B /\ u \in B /\ u \notin A => Cardinality(B) >= Cardinality(A) + 1
  BY <1>3, <1>5, OutCounts
<1>7. Lasting => n + Cardinality(A) >= k
  BY DEF CountInv, NotDrained, Lasting
<1>8. Lasting => \/ m = n /\ (u \in A => u \in B)
                 \/ m = n - 1 /\ u \notin A /\ u \in B
                 \/ m = n + 1
                 \/ m >= k
  OBVIOUS
<1> HIDE DEF A, B, n, m, k
<1>9. Lasting => m + Cardinality(B) >= k
  <2>1. CASE m = n /\ (u \in A => u \in B)
    <3>1. A \subseteq B
      BY <1>3, <2>1
    <3> QED BY <1>2, <1>6, <1>7, <2>1, <3>1
  <2>2. CASE m = n - 1 /\ u \notin A /\ u \in B
    <3>1. A \subseteq B
      BY <1>3, <2>2
    <3> QED BY <1>2, <1>6, <1>7, <2>2, <3>1
  <2>3. CASE m = n + 1
    BY <1>2, <1>6, <1>7, <2>3
  <2>4. CASE m >= k
    BY <1>2, <1>6, <2>4
  <2> QED BY <1>8, <2>1, <2>2, <2>3, <2>4
<1>10. Len(buff[Largest])' = m /\ Cardinality(Out(Largest))' = Cardinality(B) /\ Of(Largest).constBuff' = k
  BY <1>1 DEF m, B, k
<1>11. NotDrained'
  BY <1>1, <1>9, <1>10 DEF NotDrained, Lasting
<1> QED BY <1>4, <1>11 DEF CountInv

\* Close sends a buffer that belongs to the largest store back to it.
LEMMA LargestCloses ==
  ASSUME TypeOK, Lasting, NEW u \in Users, Close(u), u \in Out(Largest)
  PROVE  u \in Out(Largest)'
<1> DEFINE b == hold[u]
           r == Closed(buf[b])
<1>1. /\ b \in Buffers /\ b # None /\ buf[b] \in BufRecords /\ buf[b].attached
      /\ buf[b].belongs \in Stores /\ r \in BufRecords
      /\ buf' = [buf EXCEPT ![b] = r] /\ settings' = settings
      /\ IF TooLarge(r.belongs, r.cap) THEN Leaves(u) ELSE hold' = hold
  BY CloseIs
<1>2. Configured /\ Largest' = Largest
  BY <1>1, TypeFacts, StoresStay
<1>3. /\ Stores \in SUBSET Nat /\ Largest \in Stores /\ \A s \in Stores : s <= Largest
      /\ Of(Largest).maxSize \in Int
  BY <1>2, StoreFacts DEF SizeRecords
<1>4. buf[b].belongs = Largest /\ buf[b].cap \in Nat
  BY <1>1 DEF Out, BufRecords
<1>5. /\ Reset(buf[b]).cap = buf[b].cap /\ Reset(buf[b]).belongs = Largest
      /\ r.belongs = PutStore(Reset(buf[b])) /\ r.attached
  BY <1>1, <1>2, <1>4, ResetFacts, ClosedFacts
<1>6. PutStore(Reset(buf[b])) = Largest
  BY <1>3, <1>4, <1>5 DEF PutStore
<1>7. ~TooLarge(Largest, r.cap)
  BY <1>3 DEF Lasting, TooLarge
<1>8. hold' = hold /\ buf'[b] = r /\ r.belongs = Largest
  BY <1>1, <1>5, <1>6, <1>7, TypeFacts
<1> HIDE DEF r
<1>9. hold'[u] = b /\ buf'[hold'[u]] = r
  BY <1>8
<1> QED BY <1>1, <1>2, <1>5, <1>8, <1>9 DEF Out

LEMMA CountUser ==
  ASSUME TypeOK, TypeOK', Exclusive, OnePlace, KeptInv, CountInv, NEW u \in Users,
         settings' = settings,
         \/ \E n \in Requests : GetCall(u, n) \/ GetOversize(u, n)
         \/ GetStep(u) \/ Use(u) \/ PutStep(u)
  PROVE  CountInv'
<1> DEFINE L == Largest
           Same == buff'[L] = buff[L] /\ (u \in Out(L) => u \in Out(L)')
           Received == /\ Len(buff'[L]) = Len(buff[L]) - 1
                       /\ u \notin Out(L) /\ u \in Out(L)'
           Sent == Len(buff'[L]) = Len(buff[L]) + 1
           Full == Len(buff'[L]) >= Of(L).constBuff
<1>0. /\ \A w \in Users \ {u} : Undisturbed(w)
      /\ Largest' = Largest /\ Configured /\ L \in Stores /\ L \in Nat
      /\ buff \in [Stores -> Seq(Buffers)]
  BY RecordsStep, StoresStay, TypeFacts, StoreFacts
<1> SUFFICES ASSUME Lasting PROVE Same \/ Received \/ Sent \/ Full
  BY <1>0, CountStep
<1>1. ASSUME GetDefault(u) \/ \E n \in Requests : GetCall(u, n)
      PROVE  Same
  <2>1. UNCHANGED <<buff, buf, hold>>
    BY <1>1 DEF GetDefault, GetCall
  <2> QED BY <1>0, <2>1 DEF Out
<1>2. ASSUME GetReceive(u) PROVE Same \/ Received
  <2> DEFINE s == store[u]
             b == Head(buff[s])
             r == Named(buf[b], s)
  <2>1. /\ s \in Stores /\ buff[s] # <<>> /\ buff[s] \in Seq(Buffers)
        /\ Takes(u, b, r)
        /\ buff' = [buff EXCEPT ![s] = Tail(buff[s])]
    BY <1>2, ReceiveIs
  <2>2. u \notin Out(L)
    BY <2>1 DEF Takes, Out
  <2>3. CASE s # L
    BY <1>0, <2>1, <2>2, <2>3
  <2>4. CASE s = L
    <3>1. buff'[L] = Tail(buff[L]) /\ Len(buff'[L]) = Len(buff[L]) - 1
      BY <1>0, <2>1, <2>4
    <3>2. b \in Buffers /\ b # None /\ buf[b] \in BufRecords
      BY <2>1, TypeFacts, NoneAssumption DEF Takes
    <3>3. r.belongs = s /\ r.attached = TRUE
      BY <1>0, <2>4, <3>2, NamedFacts
    <3> HIDE DEF r
    <3>4. hold'[u] = b /\ buf'[b] = r
      BY <2>1, <3>2, TypeFacts DEF Takes
    <3> HIDE DEF b, s
    <3>5. u \in Out(L)'
      BY <1>0, <2>4, <3>2, <3>3, <3>4 DEF Out
    <3> QED BY <2>2, <3>1, <3>5
  <2> QED BY <2>3, <2>4
<1>3. ASSUME SyncPoolHit(u) \/ GetAlloc(u) \/ \E n \in Requests : GetOversize(u, n)
      PROVE  Same
  <2>1. buff' = buff
    BY <1>3 DEF SyncPoolHit, GetAlloc, GetOversize
  <2>2. hold[u] = None
    BY <1>3, Gets DEF Takes
  <2> QED BY <2>1, <2>2 DEF Out
<1>4. ASSUME Use(u) PROVE Same
  <2>1. /\ hold[u] \in Buffers /\ UNCHANGED <<buff, hold>>
        /\ \E r \in BufRecords :
              /\ buf' = [buf EXCEPT ![hold[u]] = r]
              /\ r.belongs = buf[hold[u]].belongs /\ r.attached = buf[hold[u]].attached
    BY <1>4, UseIs
  <2>2. /\ buf'[hold[u]].belongs = buf[hold[u]].belongs
        /\ buf'[hold[u]].attached = buf[hold[u]].attached
    BY <2>1, TypeFacts
  <2> QED BY <1>0, <2>1, <2>2 DEF Out
<1>5. ASSUME CloseDetached(u) PROVE Same
  <2>1. buff' = buff /\ ~buf[hold[u]].attached
    BY <1>5 DEF CloseDetached
  <2> QED BY <2>1 DEF Out
<1>6. ASSUME Close(u) PROVE Same
  <2>1. buff' = buff
    BY <1>6, CloseIs
  <2> QED BY <1>6, <2>1, LargestCloses
<1>7. ASSUME Insert(u) \/ SyncPoolPut(u), store[u] # L PROVE Same
  <2>1. buf[hold[u]].belongs = store[u] /\ store[u] \in Stores
    BY <1>7, Puts DEF KeptInv, WayInv, Inserting
  <2>2. u \notin Out(L)
    BY <1>7, <2>1 DEF Out
  <2>3. \/ buff' = buff
        \/ buff' = [buff EXCEPT ![store[u]] = Append(buff[store[u]], hold[u])]
    BY <1>7, Puts
  <2> QED BY <1>0, <1>7, <2>1, <2>2, <2>3
<1>8. ASSUME Insert(u), store[u] = L PROVE Sent \/ Full
  <2>1. /\ hold[u] \in Buffers /\ ~Of(store[u]).syncPool
        /\ buff' = IF HasRoom(L) THEN [buff EXCEPT ![L] = Append(buff[L], hold[u])] ELSE buff
    BY <1>8, InsertIs DEF Lasting
  <2>2. CASE HasRoom(L)
    <3>1. buff'[L] = Append(buff[L], hold[u]) /\ buff[L] \in Seq(Buffers)
      BY <1>0, <2>1, <2>2
    <3> QED BY <2>1, <3>1
  <2>3. CASE ~HasRoom(L)
    <3>1. Of(L).constBuff \in Int /\ Len(buff[L]) \in Nat
      BY <1>0, StoreFacts DEF SizeRecords
    <3> QED BY <2>1, <2>3, <3>1 DEF HasRoom
  <2> QED BY <2>2, <2>3
<1>9. ASSUME SyncPoolPut(u) PROVE store[u] # L
  <2>1. Of(store[u]).syncPool
    BY <1>9 DEF KeptInv, WayInv, SyncPoolPut
  <2> QED BY <2>1 DEF Lasting
<1> HIDE DEF Same, Received, Sent, Full, L
<1> QED BY <1>1, <1>2, <1>3, <1>4, <1>5, <1>6, <1>7, <1>8, <1>9 DEF GetStep, PutStep

LEMMA CountNext ==
  TypeOK /\ Exclusive /\ OnePlace /\ KeptInv /\ CountInv /\ [Next]_vars => CountInv'
<1> SUFFICES ASSUME TypeOK, Exclusive, OnePlace, KeptInv, CountInv, [Next]_vars PROVE CountInv'
  OBVIOUS
<1>0. settings' = settings /\ TypeOK' /\ OnceInStores
  BY OnePlaceStays, TypeNext DEF Exclusive
<1>1. CASE SyncPoolGC \/ UNCHANGED vars
  <2>1. UNCHANGED <<settings, buff, buf, hold>>
    BY <1>0, <1>1, Collects DEF vars
  <2>2. Largest' = Largest /\ Of(Largest)' = Of(Largest)
    BY <1>0, StoresStay
  <2>3. Busy' = Busy /\ Out(Largest)' = Out(Largest)
    BY <2>1, <2>2 DEF Busy, Out
  <2> QED BY <2>1, <2>2, <2>3 DEF CountInv, NotDrained
<1>2. CASE ~(SyncPoolGC \/ UNCHANGED vars)
  <2>1. PICK u \in Users : \/ \E n \in Requests : GetCall(u, n) \/ GetOversize(u, n)
                           \/ GetStep(u) \/ Use(u) \/ PutStep(u)
    BY <1>2 DEF Next
  <2> QED BY <1>0, <2>1, CountUser
<1> QED BY <1>1, <1>2

\* The static buffers of the largest store are never lost: without a sync.Pool and
\* MaxSize it always has ConstBuff of them in its channel or out with users,
\* when the stores keep their buffers in one place.
THEOREM StaticBuffersLast == Spec => [](OnePlace => NotDrained)
<1> DEFINE Inv == TypeOK /\ (OnePlace => Exclusive /\ KeptInv /\ CountInv)
<1>1. Init => Inv
  BY TypeInit, ExclusiveInit, KeptInit, CountInit
<1>2. Inv /\ [Next]_vars => Inv'
  BY TypeNext, ExclusiveNext, KeptNext, CountNext, OnePlaceStays
<1>3. Inv => (OnePlace => NotDrained)
  BY DEF CountInv
<1> QED BY <1>1, <1>2, <1>3, PTL DEF Spec

=============================================================================
