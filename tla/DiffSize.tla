------------------------------ MODULE DiffSize ------------------------------
(***************************************************************************)
(* Package memory/buffers/diffsize: a pool of buffers in stores of         *)
(* different sizes.  Each store keeps its buffers in a channel (the static *)
(* ones), in a sync.Pool, or in both.  Users are the goroutines calling    *)
(* Get and Buffer.Close.  The stores themselves never change after New, so *)
(* only channel operations and sync.Pool calls can interleave: each is a   *)
(* step of its own.  Of a buffer the model keeps its capacity, whether its *)
(* length is its capacity, and the fields of Buffer the code reads.        *)
(***************************************************************************)
EXTENDS Integers, Sequences, FiniteSets, FiniteSetsExt, Functions

CONSTANTS
  Users,      \* goroutines that get buffers and close them
  Buffers,    \* the *Buffer pointers, enough for all that are in use at once
  None,       \* "no buffer"
  Settings,   \* what New may be called with, and what users do to buffers
  Requests,   \* the arguments of Get
  Capacities  \* the capacities users may give a buffer

\* Size, and a pool's whole configuration.  kind is the BufferType: "slice"
\* is []byte or *[]byte, "bytesBuffer" is *bytes.Buffer.  shrink says that
\* users may close a buffer of less capacity than Get gave them.
SizeRecords == [size : Nat, constBuff : Int, syncPool : BOOLEAN,
                disallowAlloc : BOOLEAN, maxSize : Int]

ASSUME NoneAssumption == None \notin Buffers
ASSUME SettingsAssumption ==
  Settings \subseteq [kind : {"slice", "bytesBuffer"}, sizes : SUBSET SizeRecords,
                      shrink : BOOLEAN]
ASSUME SizesAssumption == \A x \in Settings : IsFiniteSet(x.sizes)
ASSUME CapacityAssumption == Requests \subseteq Nat /\ Capacities \subseteq Nat

VARIABLES
  settings,  \* the configuration
  buff,      \* per store: the channel of static buffers
  pool,      \* per store: how often each buffer is in the sync.Pool
  buf,       \* per buffer: its record
  pc,        \* per user: where it is
  hold,      \* per user: the buffer it has in hand
  want,      \* per user: the argument of its Get
  store      \* per user: the store get or insert works on

vars == <<settings, buff, pool, buf, pc, hold, want, store>>

Stores  == {z.size : z \in settings.sizes}  \* a store is named by its capSize
Of(s)   == CHOOSE z \in settings.sizes : z.size = s
Largest == Max(Stores)                      \* largestSize

Goto(u, phase) == pc' = [pc EXCEPT ![u] = phase]

\* s.buff is nil without ConstBuff: a send to it is never ready.
HasRoom(s) == Len(buff[s]) < Of(s).constBuff

\* Buffers nobody can reach: what an allocation returns, the garbage
\* collector having taken them back.
Stored(b, s) == b \in Range(buff[s]) \/ pool[s][b] > 0
Fresh == {b \in Buffers : /\ \A s \in Stores : ~Stored(b, s)
                          /\ \A u \in Users : hold[u] # b}

\* Buffer.alloc: make([]byte, size) has the length size, and so has the
\* bytes.Buffer made of it.
Allocated(size, belongs, attached) ==
  [cap |-> size, full |-> TRUE, belongs |-> belongs, attached |-> attached]

-----------------------------------------------------------------------------
(***************************************************************************)
(* New, Sizes.validate and Size.validate.                                  *)
(***************************************************************************)
ValidSize(z) ==
  /\ z.size # 0
  /\ z.constBuff > 0 \/ z.syncPool
  /\ ~(z.disallowAlloc /\ z.syncPool)
  /\ z.maxSize > 0 => z.maxSize >= z.size

Valid(sizes) ==
  /\ sizes # {}
  /\ \A y, z \in sizes : y.size = z.size => y = z
  /\ \A z \in sizes : ValidSize(z)

\* Mutant: the stores are left to fill lazily.
PreallocatedNone(z) == 0

\* A store without a sync.Pool starts with its channel full.
Preallocated(z) == IF z.syncPool THEN 0 ELSE z.constBuff

\* Every way to fill the channels with different buffers.
Fillings ==
  {f \in [Stores -> UNION {[1 .. n -> Buffers] :
                             n \in {Preallocated(z) : z \in settings.sizes}}] :
     /\ \A s \in Stores : DOMAIN f[s] = 1 .. Preallocated(Of(s))
     /\ \A s, t \in Stores : \A i \in DOMAIN f[s], j \in DOMAIN f[t] :
          f[s][i] = f[t][j] => s = t /\ i = j}

Init ==
  /\ settings \in {x \in Settings : Valid(x.sizes)}
  /\ buff \in Fillings
  /\ pool = [s \in Stores |-> [b \in Buffers |-> 0]]
  /\ buf = [b \in Buffers |-> Allocated(IF \E s \in Stores : b \in Range(buff[s])
                                        THEN CHOOSE s \in Stores : b \in Range(buff[s])
                                        ELSE 0, 0, FALSE)]
  /\ pc = [u \in Users |-> "idle"]
  /\ hold = [u \in Users |-> None]
  /\ want = [u \in Users |-> 0]
  /\ store = [u \in Users |-> 0]

-----------------------------------------------------------------------------
(***************************************************************************)
(* Get.                                                                    *)
(***************************************************************************)

\* getStore: the smallest store of at least that size.
GetStore(atLeast) == Min({s \in Stores : s >= atLeast})

GetCall(u, atLeast) ==
  /\ pc[u] = "idle"
  /\ atLeast <= Largest
  /\ want' = [want EXCEPT ![u] = atLeast]
  /\ store' = [store EXCEPT ![u] = GetStore(atLeast)]
  /\ Goto(u, "get")
  /\ UNCHANGED <<settings, buff, pool, buf, hold>>

\* Get takes b: it names the store it came from and the pool.
Take(u, b) ==
  /\ hold' = [hold EXCEPT ![u] = b]
  /\ Goto(u, "got")

\* <-s.buff, blocking with disallowAlloc and in a select without.
GetReceive(u) ==
  LET s == store[u]
      b == Head(buff[s])
  IN  /\ pc[u] = "get"
      /\ buff[s] # <<>>
      /\ buff' = [buff EXCEPT ![s] = Tail(@)]
      /\ buf' = [buf EXCEPT ![b].belongs = s, ![b].attached = TRUE]
      /\ Take(u, b)
      /\ UNCHANGED <<settings, pool, want, store>>

\* default: on to the sync.Pool, when there is one.
GetDefault(u) ==
  /\ pc[u] = "get"
  /\ buff[store[u]] = <<>>
  /\ ~Of(store[u]).disallowAlloc
  /\ Goto(u, IF Of(store[u]).syncPool THEN "sync" ELSE "alloc")
  /\ UNCHANGED <<settings, buff, pool, buf, hold, want, store>>

SyncPoolHit(u) ==
  /\ pc[u] = "sync"
  /\ \E b \in Buffers :
       /\ pool[store[u]][b] > 0
       /\ pool' = [pool EXCEPT ![store[u]][b] = @ - 1]
       /\ buf' = [buf EXCEPT ![b].belongs = store[u], ![b].attached = TRUE]
       /\ Take(u, b)
  /\ UNCHANGED <<settings, buff, want, store>>

\* A new buffer of the store's size, from the sync.Pool's New (which may be
\* called while the sync.Pool is not empty) or from get itself.
GetAlloc(u) ==
  /\ pc[u] \in {"sync", "alloc"}
  /\ \E b \in Fresh :
       /\ buf' = [buf EXCEPT ![b] = Allocated(store[u], store[u], TRUE)]
       /\ Take(u, b)
  /\ UNCHANGED <<settings, buff, pool, want, store>>

\* More than any store has: a new buffer, which belongs to the largest store
\* unless that one has disallowAlloc; then the buffer has no pool.
GetOversize(u, atLeast) ==
  /\ pc[u] = "idle"
  /\ atLeast > Largest
  /\ want' = [want EXCEPT ![u] = atLeast]
  /\ \E b \in Fresh :
       /\ buf' = [buf EXCEPT ![b] = IF Of(Largest).disallowAlloc
                                    THEN Allocated(atLeast, 0, FALSE)
                                    ELSE Allocated(atLeast, Largest, TRUE)]
       /\ Take(u, b)
  /\ UNCHANGED <<settings, buff, pool, store>>

-----------------------------------------------------------------------------
(***************************************************************************)
(* What the user does with the buffer: write to it, change its length, let *)
(* append give it another backing array.                                   *)
(***************************************************************************)
Use(u) ==
  /\ pc[u] = "got"
  /\ \E c \in Capacities \cup {buf[hold[u]].cap}, full \in BOOLEAN :
       /\ c < buf[hold[u]].cap => settings.shrink
       /\ buf' = [buf EXCEPT ![hold[u]].cap = c, ![hold[u]].full = full]
  /\ Goto(u, "using")
  /\ UNCHANGED <<settings, buff, pool, hold, want, store>>

-----------------------------------------------------------------------------
(***************************************************************************)
(* Buffer.Close and put.                                                   *)
(***************************************************************************)

\* Mutant: a slice is reset only when it goes back where it came from.
ResetSame(r) == [r EXCEPT !.full = r.cap = r.belongs /\ settings.kind = "slice"]

\* reset: a slice is given its capacity as length, a bytes.Buffer is emptied.
Reset(r) == [r EXCEPT !.full = settings.kind = "slice" \/ r.cap = 0]

\* Mutant: a resized buffer goes to the next category of size.
PutStoreNext(r) == IF r.cap >= Largest THEN Largest ELSE GetStore(r.cap)

\* Mutant: put looks for the store of the new capacity.
PutStoreExact(r) == IF r.cap >= Largest THEN Largest ELSE r.cap

\* put: back to the store of its own size, or to the largest store, or to
\* the store the buffer came from.
PutStore(r) ==
  IF r.cap = r.belongs /\ r.cap \in Stores THEN r.cap
  ELSE IF r.cap >= Largest THEN Largest
  ELSE r.belongs

\* Mutant: MaxSize is compared with the size of the store.
TooLargeStore(s, cap) == Of(s).maxSize > 0 /\ s > Of(s).maxSize

\* insert throws away what exceeds MaxSize.
TooLarge(s, cap) == Of(s).maxSize > 0 /\ cap > Of(s).maxSize

\* The user is done with the buffer and has none in hand.
Leave(u) ==
  /\ hold' = [hold EXCEPT ![u] = None]
  /\ want' = [want EXCEPT ![u] = 0]
  /\ store' = [store EXCEPT ![u] = 0]
  /\ Goto(u, "idle")

\* Close of a buffer without a pool: only a line in the log.
CloseDetached(u) ==
  /\ pc[u] \in {"got", "using"}
  /\ ~buf[hold[u]].attached
  /\ Leave(u)
  /\ UNCHANGED <<settings, buff, pool, buf>>

\* Close and the start of put, up to the channel.  put panics when it does
\* not find the store the buffer belongs to.
Close(u) ==
  LET r == Reset(buf[hold[u]])
      s == PutStore(r)
  IN  /\ pc[u] \in {"got", "using"}
      /\ buf[hold[u]].attached
      /\ IF s \notin Stores
         THEN Goto(u, "panic") /\ UNCHANGED <<buf, hold, want, store>>
         ELSE /\ buf' = [buf EXCEPT ![hold[u]] = [r EXCEPT !.belongs = s]]
              /\ IF TooLarge(s, r.cap)
                 THEN Leave(u)
                 ELSE /\ Goto(u, "insert")
                      /\ store' = [store EXCEPT ![u] = s]
                      /\ UNCHANGED <<hold, want>>
      /\ UNCHANGED <<settings, buff, pool>>

\* Mutant: put has no return after the first insert, so it inserts again.
InsertTwice(u) ==
  LET s == store[u]
  IN  /\ pc[u] = "insert"
      /\ buff' = IF Len(buff[s]) + 1 < Of(s).constBuff
                 THEN [buff EXCEPT ![s] = @ \o <<hold[u], hold[u]>>]
                 ELSE IF HasRoom(s) THEN [buff EXCEPT ![s] = Append(@, hold[u])] ELSE buff
      /\ IF Of(s).syncPool
         THEN Goto(u, "poolPut") /\ UNCHANGED <<hold, want, store>>
         ELSE Leave(u)
      /\ UNCHANGED <<settings, pool, buf>>

\* Mutant: a buffer that is not of the store's size is not kept.
InsertExact(u) ==
  LET s == store[u]
  IN  /\ pc[u] = "insert"
      /\ buff' = IF HasRoom(s) /\ buf[hold[u]].cap = s
                 THEN [buff EXCEPT ![s] = Append(@, hold[u])] ELSE buff
      /\ IF Of(s).syncPool
         THEN Goto(u, "poolPut") /\ UNCHANGED <<hold, want, store>>
         ELSE Leave(u)
      /\ UNCHANGED <<settings, pool, buf>>

\* insert sends the buffer to the channel if that has room, and without a
\* sync.Pool is done, even if the buffer is thereby dropped.  With one it
\* goes on to put the buffer there, too.
Insert(u) ==
  LET s == store[u]
  IN  /\ pc[u] = "insert"
      /\ buff' = IF HasRoom(s) THEN [buff EXCEPT ![s] = Append(@, hold[u])] ELSE buff
      /\ IF Of(s).syncPool
         THEN Goto(u, "poolPut") /\ UNCHANGED <<hold, want, store>>
         ELSE Leave(u)
      /\ UNCHANGED <<settings, pool, buf>>

SyncPoolPut(u) ==
  /\ pc[u] = "poolPut"
  /\ pool' = [pool EXCEPT ![store[u]][hold[u]] = @ + 1]
  /\ Leave(u)
  /\ UNCHANGED <<settings, buff, buf>>

\* The garbage collector empties a sync.Pool as it likes.
SyncPoolGC ==
  /\ \E s \in Stores, b \in Buffers :
       /\ pool[s][b] > 0
       /\ pool' = [pool EXCEPT ![s][b] = @ - 1]
  /\ UNCHANGED <<settings, buff, buf, pc, hold, want, store>>

-----------------------------------------------------------------------------
GetStep(u) == GetReceive(u) \/ GetDefault(u) \/ SyncPoolHit(u) \/ GetAlloc(u)

PutStep(u) == CloseDetached(u) \/ Close(u) \/ Insert(u) \/ SyncPoolPut(u)

Next ==
  \/ \E u \in Users : \/ \E n \in Requests : GetCall(u, n) \/ GetOversize(u, n)
                      \/ GetStep(u) \/ Use(u) \/ PutStep(u)
  \/ SyncPoolGC

Spec == Init /\ [][Next]_vars

(***************************************************************************)
(* Goroutines inside the package keep running and users close the buffers  *)
(* they got.  A channel serves the receivers that wait for it in the order *)
(* they came, so a receive that is possible again and again happens.       *)
(***************************************************************************)
Fairness == \A u \in Users : /\ WF_vars(GetStep(u)) /\ WF_vars(PutStep(u))
                             /\ SF_vars(GetReceive(u))

FairSpec == Spec /\ Fairness

(***************************************************************************)
(* Properties.                                                             *)
(***************************************************************************)

InPackage == {"get", "sync", "alloc"}
InHand    == {"got", "using", "insert", "poolPut"}

\* Every variable has its type, a user has a buffer in hand exactly where the
\* code holds one, and a buffer that will return to the pool names a store: put
\* always finds one, and does not panic.
TypeOK ==
  /\ settings \in {x \in Settings : Valid(x.sizes)}
  /\ buff \in [Stores -> Seq(Buffers)]
  /\ pool \in [Stores -> [Buffers -> Nat]]
  /\ buf \in [Buffers -> [cap : Nat, full : BOOLEAN, belongs : Nat,
                          attached : BOOLEAN]]
  /\ pc \in [Users -> {"idle"} \cup InPackage \cup InHand]
  /\ hold \in [Users -> Buffers \cup {None}]
  /\ want \in [Users -> Nat]
  /\ store \in [Users -> Stores \cup {0}]
  /\ \A u \in Users :
       /\ hold[u] # None <=> pc[u] \in InHand
       /\ pc[u] \in InPackage \cup {"insert", "poolPut"} => store[u] \in Stores
  /\ \A b \in Buffers : buf[b].attached => buf[b].belongs \in Stores

(***************************************************************************)
(* Exclusive ownership: a buffer is in one place at most, and there once.  *)
(* The places are those in the channels, those in the sync.Pools and the   *)
(* users' hands.  Two of them would hand the same memory to two users.     *)
(***************************************************************************)
OnceInStores ==
  /\ \A s \in Stores : IsInjective(buff[s])
  /\ \A s \in Stores, b \in Buffers :
       pool[s][b] > 0 => pool[s][b] = 1 /\ b \notin Range(buff[s])
  /\ \A s, t \in Stores, b \in Buffers : Stored(b, s) /\ Stored(b, t) => s = t

OnceInHands ==
  \A u \in Users : hold[u] # None =>
    /\ \A w \in Users : hold[w] = hold[u] => w = u
    /\ \A s \in Stores : ~Stored(hold[u], s)

Exclusive == OnceInStores /\ OnceInHands

\* The abstract pool: what the channels and the sync.Pools have.
VP == INSTANCE ValuePool WITH
        Values <- Buffers,
        held   <- hold,
        pooled <- {b \in Buffers : \E s \in Stores : Stored(b, s)}

(***************************************************************************)
(* The pool does what ValuePool promises: whichever store put chooses, a   *)
(* buffer is lent to one user at a time and comes back from that user.     *)
(***************************************************************************)
Implements == VP!Spec

(***************************************************************************)
(* Get "returns a Buffer from the pool that is at least atLeast in         *)
(* capacity", whatever put has stored in which category, as long as users  *)
(* only ever let buffers grow.                                             *)
(***************************************************************************)
AtLeast ==
  ~settings.shrink =>
    \A u \in Users : pc[u] = "got" => buf[hold[u]].cap >= want[u]

\* A slice comes out of Get with its capacity as length, whatever the last
\* user did to it and whichever store it came back to.
SlicesFull ==
  settings.kind = "slice" =>
    \A u \in Users : pc[u] = "got" => buf[hold[u]].full

\* No store keeps a buffer of more than its MaxSize, not even one it was
\* given because no other store would do.
MaxSizeKept ==
  \A s \in Stores : Of(s).maxSize > 0 =>
    \A b \in Buffers : Stored(b, s) => buf[b].cap <= Of(s).maxSize

(***************************************************************************)
(* The static buffers "are never collected": without a sync.Pool and       *)
(* MaxSize the largest store always has ConstBuff buffers in its channel   *)
(* or out with users, however buffers change size and category.  It does   *)
(* not hold of a smaller store, whose buffers leave it for good when they  *)
(* grow to the largest size, nor of one with MaxSize.                      *)
(***************************************************************************)
Out(s) == {u \in Users : hold[u] # None /\ buf[hold[u]].attached
                                       /\ buf[hold[u]].belongs = s}

NotDrained ==
  ~Of(Largest).syncPool /\ Of(Largest).maxSize <= 0 =>
    Len(buff[Largest]) + Cardinality(Out(Largest)) >= Of(Largest).constBuff

\* A Get returns when users close what they hold, provided that its store
\* may allocate, or is the largest one and has no MaxSize.
MayRunDry(s) == Of(s).disallowAlloc /\ (s # Largest \/ Of(s).maxSize > 0)

GetReturns ==
  \A u \in Users : pc[u] = "get" /\ ~MayRunDry(store[u]) ~> pc[u] = "got"

(***************************************************************************)
(* What the comments of the package say and the code does not do; see the  *)
(* findings.  The sync.Pool "is an overflow holding of Buffers": what is   *)
(* in it is neither in a channel nor with a user.                          *)
(***************************************************************************)
OverflowOnly ==
  \A s \in Stores, b \in Buffers : pool[s][b] > 0 =>
    /\ \A t \in Stores : b \notin Range(buff[t])
    /\ \A u \in Users : hold[u] # b

=============================================================================
