------------------------------ MODULE PtrPool ------------------------------
(***************************************************************************)
(* Package memory/ptrpool: a pool of pointers kept in a freelist (a        *)
(* buffered channel behind an atomic pointer), in a sync.Pool, or in both. *)
(* Users are the goroutines calling Get, Value.Close and Put; one more     *)
(* goroutine, the grower, measures the pool and replaces the freelist by a *)
(* channel of another capacity, draining the old one into the new one      *)
(* while the users go on with whichever of the two they have loaded.       *)
(* Every atomic operation, channel operation and sync.Pool call of the     *)
(* code is a step of its own.                                              *)
(***************************************************************************)
EXTENDS Integers, Sequences, FiniteSets, Functions

CONSTANTS
  Users,           \* goroutines that take values and give them back
  Values,          \* the pointers newer() can return
  None,            \* "no value"
  Settings,        \* the arguments and options New may be called with
  Answers,         \* the integers FreeList.Grow.Grower, user code, returns
  Grower(_, _, _), \* whether it may return its third argument, given the
                   \* CurrentSize and the PoolPulls of the first two
  MaxGets,         \* bound on the Gets of a behaviour
  MaxGrowths       \* bound on the replacements of the freelist

Nil   == 0                     \* the freelist pointer before any channel
Chans == 1 .. (MaxGrowths + 1) \* the freelist channels, in creation order

ASSUME NoneAssumption == None \notin Values
ASSUME BoundsAssumption == MaxGets \in Nat /\ MaxGrowths \in Nat
ASSUME SettingsAssumption ==
  Settings \subseteq [base : Int, disableAllocs : BOOLEAN, grow : BOOLEAN,
                      maximum : Int, syncPool : BOOLEAN, reset : BOOLEAN]
ASSUME AnswersAssumption == Answers \subseteq Int /\ Answers # {}

VARIABLES
  settings,   \* freelistSettings, and whether there is a sync.Pool, a reset
  freelist,   \* the freelist pointer: a channel, or Nil
  queue,      \* what each channel holds
  capacity,   \* the capacity each channel was made with
  syncPool,   \* what the sync.Pool holds
  closed,     \* the close channel is closed
  stats,      \* the counters of the stats struct
  created,    \* the values newer() has returned
  clean,      \* the values in their reset state
  gets,       \* Gets started, for MaxGets
  pc,         \* per user: where it is
  fl,         \* per user: the freelist pointer it has loaded
  val,        \* per user: the value it has in hand
  gpc,        \* where the grower is
  lastPulls,  \* lastStats.SyncPoolAllocated
  target,     \* the capacity growth has settled on
  old,        \* the channel growth is draining
  moving      \* the value growth has taken from old

poolVars   == <<settings, closed, created>>
userVars   == <<gets, pc, fl, val>>
growerVars == <<gpc, lastPulls, target, old, moving>>
vars == <<settings, freelist, queue, capacity, syncPool, closed, stats, created,
          clean, gets, pc, fl, val, gpc, lastPulls, target, old, moving>>

StatNames == {"InUse", "FreelListAllocated", "SyncPoolAllocated",
              "SyncPoolMiss", "NewAlloc"}

(***************************************************************************)
(* Where a user can be.  "idle" and "holding" are outside the package.     *)
(***************************************************************************)
Choosing == {"select"}                              \* in Get's select
Taken    == {"recv", "recvUse", "missAlloc", "miss"} \* Get has the value
Pending  == {"sync", "syncUse", "syncGet", "new", "newUse", "newer"}
Giving   == {"put", "putLoad", "putSend"}           \* in put
Phases   == {"idle", "holding", "panic"} \cup Choosing \cup Taken
              \cup Pending \cup Giving

InHand == Taken \cup {"holding"} \cup Giving        \* phases with a value

Goto(u, phase) == pc' = [pc EXCEPT ![u] = phase]

\* Mutant: one place too few.
HasRoomOffByOne(c) == Len(queue[c]) + 1 < capacity[c]

HasRoom(c) == Len(queue[c]) < capacity[c]

Fresh == Values \ created

-----------------------------------------------------------------------------
(***************************************************************************)
(* New: which settings FreeList.validate accepts, and the pool it returns. *)
(***************************************************************************)
ZeroFreeList(s) == s.base = 0 /\ ~s.disableAllocs /\ ~s.grow

Valid(s) ==
  \/ ZeroFreeList(s)
  \/ /\ ~(s.disableAllocs /\ s.grow)
     /\ ~(s.disableAllocs /\ s.syncPool)
     /\ s.base >= 0
     /\ ~(s.base = 0 /\ ~s.grow /\ ~s.syncPool)
     /\ s.grow /\ s.maximum > 0 => s.base < s.maximum

\* Mutant: the freelist is left to fill lazily.
PrefillsNothing(s) == {<<>>}

\* What New puts in the freelist: with DisableAllocs, Base different values
\* made by newer(); otherwise nothing.
Prefills(s) ==
  IF s.disableAllocs THEN Injection(1 .. s.base, Values) ELSE {<<>>}

Init ==
  /\ settings \in {s \in Settings : Valid(s)}
  /\ freelist = IF settings.base > 0 THEN 1 ELSE Nil
  /\ \E fill \in Prefills(settings) :
       /\ queue = [c \in Chans |-> IF c = 1 THEN fill ELSE <<>>]
       /\ created = Range(fill)
  /\ capacity = [c \in Chans |-> IF c = 1 /\ settings.base > 0
                                 THEN settings.base ELSE 0]
  /\ clean = created
  /\ syncPool = {}
  /\ closed = FALSE
  /\ stats = [s \in StatNames |-> 0]
  /\ gets = 0
  /\ pc = [u \in Users |-> "idle"]
  /\ fl = [u \in Users |-> Nil]
  /\ val = [u \in Users |-> None]
  /\ gpc = IF settings.grow THEN "waiting" ELSE "none"
  /\ lastPulls = 0
  /\ target = 0
  /\ old = Nil
  /\ moving = None

-----------------------------------------------------------------------------
(***************************************************************************)
(* Get.                                                                    *)
(***************************************************************************)

\* Stats.TotalAllocated, as toStats adds it up.
TotalAllocated ==
  stats["FreelListAllocated"] + stats["SyncPoolAllocated"] + stats["NewAlloc"]

\* A step that only adds to one counter.
Count(u, from, stat, delta, to) ==
  /\ pc[u] = from
  /\ stats' = [stats EXCEPT ![stat] = @ + delta]
  /\ Goto(u, to)
  /\ UNCHANGED <<freelist, queue, capacity, syncPool, clean, gets, fl, val,
                 poolVars, growerVars>>

\* Get loads the freelist pointer.  A nil pointer falls through to the case
\* "*fl == nil", which dereferences it.
GetLoad(u) ==
  /\ pc[u] = "idle"
  /\ gets < MaxGets
  /\ gets' = gets + 1
  /\ fl' = [fl EXCEPT ![u] = freelist]
  /\ Goto(u, IF freelist = Nil THEN "panic" ELSE "select")
  /\ UNCHANGED <<freelist, queue, capacity, syncPool, stats, clean, val,
                 poolVars, growerVars>>

\* case x := <-*fl, the same in all three selects.
GetReceive(u) ==
  /\ pc[u] = "select"
  /\ queue[fl[u]] # <<>>
  /\ val' = [val EXCEPT ![u] = Head(queue[fl[u]])]
  /\ queue' = [queue EXCEPT ![fl[u]] = Tail(@)]
  /\ fl' = [fl EXCEPT ![u] = Nil]
  /\ Goto(u, "recv")
  /\ UNCHANGED <<freelist, capacity, syncPool, stats, clean, gets,
                 poolVars, growerVars>>

\* default: nothing in the freelist, so go to the sync.Pool or to newer().
GetDefault(u) ==
  /\ pc[u] = "select"
  /\ queue[fl[u]] = <<>>
  /\ ~settings.disableAllocs
  /\ fl' = [fl EXCEPT ![u] = Nil]
  /\ Goto(u, IF settings.syncPool THEN "sync" ELSE "new")
  /\ UNCHANGED <<freelist, queue, capacity, syncPool, stats, clean, gets, val,
                 poolVars, growerVars>>

\* case <-t.C: with DisableAllocs, reload the pointer and select again.
GetTick(u) ==
  /\ pc[u] = "select"
  /\ settings.disableAllocs
  /\ fl' = [fl EXCEPT ![u] = freelist]
  /\ UNCHANGED <<freelist, queue, capacity, syncPool, stats, clean, gets, pc,
                 val, poolVars, growerVars>>

\* p.pool.Get() finds a value ...
SyncPoolHit(u) ==
  /\ pc[u] = "syncGet"
  /\ \E v \in syncPool :
       /\ val' = [val EXCEPT ![u] = v]
       /\ syncPool' = syncPool \ {v}
  /\ Goto(u, "holding")
  /\ UNCHANGED <<freelist, queue, capacity, stats, clean, gets, fl,
                 poolVars, growerVars>>

\* ... or calls New, which calls newer(): sync.Pool may do so even when it
\* is not empty.  Without a sync.Pool, Get calls newer() itself.
CallNewer(u) ==
  /\ pc[u] \in {"syncGet", "newer"}
  /\ \E v \in Fresh :
       /\ val' = [val EXCEPT ![u] = v]
       /\ created' = created \cup {v}
       /\ clean' = clean \cup {v}
  /\ Goto(u, IF pc[u] = "syncGet" THEN "missAlloc" ELSE "holding")
  /\ UNCHANGED <<settings, freelist, queue, capacity, syncPool, closed, stats,
                 gets, fl, growerVars>>

\* Mutant: the sync.Pool's New forgets SyncPoolMiss.
GetCountNoMiss(u) ==
  \/ Count(u, "recv", "InUse", 1, "recvUse")
  \/ Count(u, "recvUse", "FreelListAllocated", 1, "holding")
  \/ Count(u, "sync", "InUse", 1, "syncUse")
  \/ Count(u, "syncUse", "SyncPoolAllocated", 1, "syncGet")
  \/ Count(u, "missAlloc", "NewAlloc", 1, "holding")
  \/ Count(u, "new", "InUse", 1, "newUse")
  \/ Count(u, "newUse", "NewAlloc", 1, "newer")

\* The counters, each an atomic add, in the order Get touches them.
GetCount(u) ==
  \/ Count(u, "recv", "InUse", 1, "recvUse")
  \/ Count(u, "recvUse", "FreelListAllocated", 1, "holding")
  \/ Count(u, "sync", "InUse", 1, "syncUse")
  \/ Count(u, "syncUse", "SyncPoolAllocated", 1, "syncGet")
  \/ Count(u, "missAlloc", "NewAlloc", 1, "miss")
  \/ Count(u, "miss", "SyncPoolMiss", 1, "holding")
  \/ Count(u, "new", "InUse", 1, "newUse")
  \/ Count(u, "newUse", "NewAlloc", 1, "newer")

\* The user writes to the value it holds.
UserWrites(u) ==
  /\ pc[u] = "holding"
  /\ val[u] \in clean
  /\ clean' = clean \ {val[u]}
  /\ UNCHANGED <<freelist, queue, capacity, syncPool, stats, poolVars,
                 userVars, growerVars>>

-----------------------------------------------------------------------------
(***************************************************************************)
(* put, reached from Value.Close and from Put.                             *)
(***************************************************************************)
\* Mutant: reset only what the sync.Pool will not take.
PutResetSome(u) ==
  /\ pc[u] = "holding"
  /\ clean' = IF settings.reset /\ ~settings.syncPool
              THEN clean \cup {val[u]} ELSE clean
  /\ Goto(u, "put")
  /\ UNCHANGED <<freelist, queue, capacity, syncPool, stats, gets, fl, val,
                 poolVars, growerVars>>

PutReset(u) ==
  /\ pc[u] = "holding"
  /\ clean' = IF settings.reset THEN clean \cup {val[u]} ELSE clean
  /\ Goto(u, "put")
  /\ UNCHANGED <<freelist, queue, capacity, syncPool, stats, gets, fl, val,
                 poolVars, growerVars>>

\* Mutant: put without the sync.Pool returns before it counts.
PutCountSome(u) == Count(u, "put", "InUse", IF settings.syncPool THEN -1 ELSE 0,
                         "putLoad")

PutCount(u) == Count(u, "put", "InUse", -1, "putLoad")

PutLoad(u) ==
  /\ pc[u] = "putLoad"
  /\ fl' = [fl EXCEPT ![u] = freelist]
  /\ Goto(u, IF freelist = Nil THEN "panic" ELSE "putSend")
  /\ UNCHANGED <<freelist, queue, capacity, syncPool, stats, clean, gets, val,
                 poolVars, growerVars>>

\* Mutant: no return between the freelist and the sync.Pool.
PutSendTwice(u) ==
  /\ pc[u] = "putSend"
  /\ queue' = IF HasRoom(fl[u])
              THEN [queue EXCEPT ![fl[u]] = Append(@, val[u])] ELSE queue
  /\ syncPool' = IF settings.syncPool THEN syncPool \cup {val[u]} ELSE syncPool
  /\ val' = [val EXCEPT ![u] = None]
  /\ fl' = [fl EXCEPT ![u] = Nil]
  /\ Goto(u, "idle")
  /\ UNCHANGED <<freelist, capacity, stats, clean, gets, poolVars, growerVars>>

\* The select: into the freelist if it has room, else into the sync.Pool,
\* else dropped.
PutSend(u) ==
  /\ pc[u] = "putSend"
  /\ queue' = IF HasRoom(fl[u])
              THEN [queue EXCEPT ![fl[u]] = Append(@, val[u])] ELSE queue
  /\ syncPool' = IF ~HasRoom(fl[u]) /\ settings.syncPool
                 THEN syncPool \cup {val[u]} ELSE syncPool
  /\ val' = [val EXCEPT ![u] = None]
  /\ fl' = [fl EXCEPT ![u] = Nil]
  /\ Goto(u, "idle")
  /\ UNCHANGED <<freelist, capacity, stats, clean, gets, poolVars, growerVars>>

\* The garbage collector empties a sync.Pool as it likes.
SyncPoolGC ==
  /\ \E v \in syncPool : syncPool' = syncPool \ {v}
  /\ UNCHANGED <<freelist, queue, capacity, stats, clean, poolVars, userVars,
                 growerVars>>

-----------------------------------------------------------------------------
(***************************************************************************)
(* The grower goroutine: a select on the ticker and the close channel.     *)
(***************************************************************************)

\* Mutant: no clamp to Base.
NewSizeUnclamped(v, size) ==
  LET capped == IF settings.maximum > 0 /\ v > settings.maximum
                THEN settings.maximum ELSE v
  IN  IF v = size \/ v <= 0 \/ capped = size THEN Nil ELSE capped

\* The capacity growth settles on when the Grower answers v to the current
\* capacity size; Nil when it leaves the freelist alone.
NewSize(v, size) ==
  LET bounded == settings.maximum > 0
      capped  == IF bounded /\ v > settings.maximum THEN settings.maximum ELSE v
  IN  IF v = size \/ v <= 0 \/ capped = size THEN Nil
      ELSE IF capped < settings.base THEN settings.base ELSE capped

\* Mutant: lastStats is not brought up to date.
TickNoLast(v) ==
  /\ gpc = "waiting"
  /\ freelist \in 0 .. MaxGrowths
  /\ IF freelist = Nil
     THEN gpc' = "panic" /\ UNCHANGED target
     ELSE /\ target' = NewSize(v, capacity[freelist])
          /\ gpc' = IF target' = Nil THEN "waiting" ELSE "swap"
  /\ UNCHANGED <<freelist, queue, capacity, syncPool, stats, clean, lastPulls,
                 old, moving, poolVars, userVars>>

\* A tick: read the counters and ask the Grower, which answers v.
Tick(v) ==
  /\ gpc = "waiting"
  /\ freelist \in 0 .. MaxGrowths
  /\ IF freelist = Nil
     THEN gpc' = "panic" /\ UNCHANGED <<lastPulls, target>>
     ELSE /\ lastPulls' = stats["SyncPoolAllocated"]
          /\ target' = NewSize(v, capacity[freelist])
          /\ gpc' = IF target' = Nil THEN "waiting" ELSE "swap"
  /\ UNCHANGED <<freelist, queue, capacity, syncPool, stats, clean, old,
                 moving, poolVars, userVars>>

\* The pulls from the sync.Pool since the last tick.
PoolPulls == stats["SyncPoolAllocated"] - lastPulls

\* A tick with any answer the Grower may give.
GrowthMeasure ==
  \E v \in Answers :
    /\ freelist # Nil => Grower(capacity[freelist], PoolPulls, v)
    /\ Tick(v)

\* Make the new channel and swap the pointer.
GrowthSwap ==
  /\ gpc = "swap"
  /\ freelist' = freelist + 1
  /\ capacity' = [capacity EXCEPT ![freelist + 1] = target]
  /\ old' = freelist
  /\ target' = Nil
  /\ gpc' = "drain"
  /\ UNCHANGED <<queue, syncPool, stats, clean, lastPulls, moving, poolVars,
                 userVars>>

\* case e := <-*old.
DrainReceive ==
  /\ gpc = "drain"
  /\ queue[old] # <<>>
  /\ moving' = Head(queue[old])
  /\ queue' = [queue EXCEPT ![old] = Tail(@)]
  /\ gpc' = "move"
  /\ UNCHANGED <<freelist, capacity, syncPool, stats, clean, lastPulls, target,
                 old, poolVars, userVars>>

\* Mutant: the value that was moved stays in the grower's hand.
DrainSendKeeps ==
  /\ gpc = "move"
  /\ HasRoom(freelist)
  /\ queue' = [queue EXCEPT ![freelist] = Append(@, moving)]
  /\ gpc' = "drain"
  /\ UNCHANGED <<freelist, capacity, syncPool, stats, clean, lastPulls, target,
                 old, moving, poolVars, userVars>>

\* case n <- e, and on to the next one.
DrainSend ==
  /\ gpc = "move"
  /\ HasRoom(freelist)
  /\ queue' = [queue EXCEPT ![freelist] = Append(@, moving)]
  /\ moving' = None
  /\ gpc' = "drain"
  /\ UNCHANGED <<freelist, capacity, syncPool, stats, clean, lastPulls, target,
                 old, poolVars, userVars>>

\* Mutant: no default in the inner select, so the drain waits for room.
DrainEndBlocking ==
  /\ gpc = "drain" /\ queue[old] = <<>>
  /\ moving' = None
  /\ old' = Nil
  /\ gpc' = "waiting"
  /\ UNCHANGED <<freelist, queue, capacity, syncPool, stats, clean, lastPulls,
                 target, poolVars, userVars>>

\* Nothing left in the old channel, or no more room in the new one: growth
\* is over and what it has in hand is dropped.
DrainEnd ==
  /\ \/ gpc = "drain" /\ queue[old] = <<>>
     \/ gpc = "move" /\ ~HasRoom(freelist)
  /\ moving' = None
  /\ old' = Nil
  /\ gpc' = "waiting"
  /\ UNCHANGED <<freelist, queue, capacity, syncPool, stats, clean, lastPulls,
                 target, poolVars, userVars>>

\* case <-p.close.
GrowerExit ==
  /\ gpc = "waiting"
  /\ closed
  /\ gpc' = "exited"
  /\ UNCHANGED <<freelist, queue, capacity, syncPool, stats, clean, lastPulls,
                 target, old, moving, poolVars, userVars>>

\* Pool.Close; a second call is a misuse and is not modelled.
Close ==
  /\ ~closed
  /\ closed' = TRUE
  /\ UNCHANGED <<settings, freelist, queue, capacity, syncPool, stats, created,
                 clean, userVars, growerVars>>

-----------------------------------------------------------------------------
Get(u) == \/ GetReceive(u) \/ GetDefault(u) \/ GetTick(u)
          \/ SyncPoolHit(u) \/ CallNewer(u) \/ GetCount(u)

Put(u) == PutReset(u) \/ PutCount(u) \/ PutLoad(u) \/ PutSend(u)

Growth == GrowthSwap \/ DrainReceive \/ DrainSend \/ DrainEnd

Next ==
  \/ \E u \in Users : GetLoad(u) \/ Get(u) \/ UserWrites(u) \/ Put(u)
  \/ SyncPoolGC
  \/ GrowthMeasure \/ Growth \/ GrowerExit
  \/ Close

Spec == Init /\ [][Next]_vars

(***************************************************************************)
(* Goroutines inside the package keep running, and users give back what    *)
(* they took, as DisableAllocs demands of them.  A select with several     *)
(* ready cases picks one at random, so a case that is ready again and      *)
(* again is taken: strong fairness of the receive against the ticker and   *)
(* the other receivers, and of the close case against the ticker.          *)
(***************************************************************************)
Fairness ==
  /\ \A u \in Users : /\ WF_vars(Get(u)) /\ WF_vars(Put(u))
                      /\ SF_vars(GetReceive(u))
  /\ WF_vars(Growth)
  /\ SF_vars(GrowerExit)

FairSpec == Spec /\ Fairness

-----------------------------------------------------------------------------
(***************************************************************************)
(* Properties.                                                             *)
(***************************************************************************)

\* The abstract pool: all that a Get, a put or growth has or may still reach.
VP == INSTANCE ValuePool WITH
        held   <- val,
        pooled <- syncPool \cup (UNION {Range(queue[c]) : c \in Chans})
                    \cup ({moving} \ {None})

(***************************************************************************)
(* The pool does what ValuePool promises: however the freelist is replaced *)
(* and drained meanwhile, a value enters the pool only when its one user   *)
(* gives it back, and leaves it when it is lent.                           *)
(***************************************************************************)
Implements == VP!Spec

\* Every variable has its type, and a user or the grower has a value in hand
\* exactly at the points where the code holds one.
TypeOK ==
  /\ settings \in {s \in Settings : Valid(s)}
  /\ freelist \in {Nil} \cup Chans
  /\ queue \in [Chans -> Seq(Values)]
  /\ capacity \in [Chans -> Nat]
  /\ syncPool \subseteq Values
  /\ closed \in BOOLEAN
  /\ stats \in [StatNames -> Int]
  /\ created \subseteq Values
  /\ clean \subseteq Values
  /\ gets \in 0 .. MaxGets
  /\ pc \in [Users -> Phases]
  /\ fl \in [Users -> {Nil} \cup Chans]
  /\ val \in [Users -> Values \cup {None}]
  /\ \A u \in Users :
       /\ pc[u] # "panic" => (val[u] # None <=> pc[u] \in InHand)
       /\ fl[u] # Nil <=> pc[u] \in {"select", "putSend"}
       /\ fl[u] <= freelist
  /\ gpc \in {"none", "waiting", "swap", "drain", "move", "exited", "panic"}
  /\ lastPulls \in Int
  /\ target \in Nat
  /\ gpc = "swap" => target > 0 /\ freelist \in 1 .. MaxGrowths
  /\ old \in {Nil} \cup Chans
  /\ moving \in Values \cup {None}
  /\ gpc \in {"drain", "move"} <=> old # Nil
  /\ gpc = "move" <=> moving # None
  /\ old # Nil => old < freelist

(***************************************************************************)
(* Exclusive ownership: a value is in at most one place, once.  The places *)
(* are the channels (replaced ones included), the sync.Pool, the users'    *)
(* hands and the grower's hand.  If Get, put or the drain of growth left a *)
(* value behind where they took it from, or put it in two places, two      *)
(* users would in the end hold the same pointer.                           *)
(***************************************************************************)
OnceInQueues ==
  /\ \A c \in Chans : IsInjective(queue[c])
  /\ \A c, d \in Chans : c # d => Range(queue[c]) \cap Range(queue[d]) = {}
  /\ \A c \in Chans : Range(queue[c]) \cap syncPool = {}

OnceInHands ==
  /\ \A u, w \in Users : u # w /\ val[u] # None => val[u] # val[w]
  /\ \A u \in Users : val[u] # None => val[u] # moving

HandsApartFromStores ==
  \A h \in {val[u] : u \in Users} \cup {moving} :
    /\ h \notin syncPool
    /\ \A c \in Chans : h \notin Range(queue[c])

Exclusive == OnceInQueues /\ OnceInHands /\ HandsApartFromStores

(***************************************************************************)
(* A pool with a Reseter only ever stores, moves and hands out values that *)
(* are in their reset state: what the ETOE test asserts of Get's results.  *)
(***************************************************************************)
CleanWhenStored ==
  settings.reset =>
    /\ syncPool \cup UNION {Range(queue[c]) : c \in Chans} \subseteq clean
    /\ moving # None => moving \in clean
    /\ \A u \in Users : pc[u] \in Taken \cup Giving => val[u] \in clean

(***************************************************************************)
(* Stats.InUse is the number of Gets that have counted themselves in and   *)
(* whose put has not counted itself out: it is neither lost nor counted    *)
(* twice, whatever the order in which the atomic adds of different users   *)
(* fall.                                                                   *)
(***************************************************************************)
InUseExact ==
  stats["InUse"] =
    Cardinality({u \in Users : pc[u] \in (InHand \cup Pending) \ 
                    {"recv", "sync", "new", "putLoad", "putSend"}})

(***************************************************************************)
(* Every Get is counted by exactly one of the three sources: freelist,     *)
(* sync.Pool, or newer() called by Get itself.  The calls newer() makes    *)
(* for the sync.Pool are in NewAlloc too, and SyncPoolMiss is their        *)
(* number: by it TotalAllocated exceeds the number of Gets.  Gets under    *)
(* way and Gets that panicked are not counted yet.                         *)
(***************************************************************************)
EveryGetCountedOnce ==
  gets = TotalAllocated - stats["SyncPoolMiss"]
         - Cardinality({u \in Users : pc[u] = "miss"})
         + Cardinality({u \in Users : pc[u] \in
              {"select", "recv", "recvUse", "sync", "syncUse", "new", "newUse", "panic"}})

(***************************************************************************)
(* Whatever the Grower answers, the freelist keeps a capacity from Base to *)
(* Maximum, and no channel holds more than its capacity.                   *)
(***************************************************************************)
CapacityInBounds ==
  /\ freelist # Nil =>
       /\ capacity[freelist] >= settings.base
       /\ capacity[freelist] > 0
       /\ settings.grow /\ settings.maximum > 0
            => capacity[freelist] <= settings.maximum
  /\ \A c \in Chans : Len(queue[c]) <= capacity[c]

(***************************************************************************)
(* With DisableAllocs the pool lives on the Base values New made: none is  *)
(* added, none is lost, each is in the freelist or in a user's hand.  A    *)
(* value lost by put would block some later Get for ever.                  *)
(***************************************************************************)
FixedPopulation ==
  settings.disableAllocs =>
    /\ Cardinality(created) = settings.base
    /\ created = Range(queue[freelist])
                    \cup {val[u] : u \in {w \in Users : val[w] # None}}

\* A Get that has reached its select returns, DisableAllocs or not, when
\* users close what they hold.
GetReturns == \A u \in Users : pc[u] = "select" ~> pc[u] = "holding"

\* After Pool.Close the grower goroutine ends, though the ticker goes on
\* ticking and a growth may be under way.
GrowerStops == closed ~> gpc \in {"none", "exited"}

(***************************************************************************)
(* What the comments of the package say and the code does not do; see the  *)
(* findings.                                                               *)
(***************************************************************************)

\* "A zero value here disables the freelist": Get and put work without one.
NeverPanics == /\ \A u \in Users : pc[u] # "panic"
               /\ gpc # "panic"

\* put stores the value "in our freelist or sync.Pool or drops it if neither
\* have space": nothing is left in a channel that no Get, put or growth can
\* reach any more.
NothingStranded ==
  \A c \in Chans :
    c \notin {freelist, old} \cup Range(fl) => queue[c] = <<>>

=============================================================================
