# TLA+ models of github.com/johnsiilver/pools

The repository holds pools for Go programs: pools of values that save
allocations (`memory/...`) and pools of goroutines that limit or reuse them
(`goroutines/...`). This directory models them in TLA+, checks the models on
small instances with TLC and proves what matters most with TLAPS. Paths and
line numbers below are those of the repository; `PROJECT.json` maps every
definition to the lines it models.

## Inventory

| Component | State | Operations | Interacts with |
|---|---|---|---|
| `memory/ptrpool.Pool` | the freelist (a channel behind an atomic pointer), a `sync.Pool`, counters, the close channel | `New`, `Get`, `Value.Close`/`Put` (both `put`), `Close`, `Stats`; the goroutine `grower`, which runs `growth` at every tick | user code: `newer`, `reset`, `Grow.Grower` |
| `memory/ptrpool.BasicGrower` | `noGrowth`, a counter of periods | `Grower` | called by `growth` |
| `memory/buffers/diffsize.Pool` | one store per size: a channel of `ConstBuff` buffers, a `sync.Pool`, the limits `MaxSize` and `DisallowAlloc` | `New`, `Get`, `Buffer.Close` (`put`, `insert`) | buffers know the store they came from |
| `memory/buffers/diffsize.PoolBuffer` | a byte slice, a read offset, the last read operation, a pooled buffer behind it | the methods of `bytes.Buffer`, `Close` | gets a larger buffer from the `Pool` when it grows |
| `goroutines.Pool`, `goroutines.Errors` | the interface of the goroutine pools; a recorder of job errors | `Submit`, `Wait`, `Close`, `Len`, `Running`; `Record`, `Error`, `Errors` | jobs, user code |
| `goroutines/limited.Pool` | a channel of slots, a wait group, a counter of running jobs | `Submit` (also `NonBlocking`), `Wait`, `Close` | a goroutine per job |
| `goroutines/pooled.Pool` | a channel of jobs, a wait group, a counter of running jobs | `Submit` (also `NonBlocking`), `Wait`, `Close` | worker goroutines made by `New`; a goroutine for a job that finds the channel full |
| `goroutines/internal/pool` | none: the options of `Submit` | | read by the two pools |
| `benchmarks`, `allocs` | none | | not part of the library |

What is hard in each of them, and what makes it correct:

* **ptrpool.Pool.** Users load the freelist pointer and use the channel later;
  `growth` swaps the pointer and drains the old channel meanwhile. Counters are
  separate atomic adds. The Grower is user code. Correct means: a pointer has one
  owner, values are reset when stored, the counters count, the capacity respects
  the options, a pool that may not allocate loses nothing, `Get` and the grower
  goroutine end.
* **diffsize.Pool.** Where a buffer goes back to depends on what its user did to
  its capacity; a store can have two homes for a buffer, drop one, or block.
  Correct means: a buffer has one owner, `Get` returns enough capacity and full
  length, `MaxSize` holds, the static buffers are not lost, `Get` returns.
* **goroutine pools.** `Submit`, the job, `Wait` and `Close` touch a wait group, a
  counter and a channel in an order that matters, and jobs submit jobs. Correct
  means: a job runs once, `Wait` waits for all of them, nothing sends on a closed
  channel, slots do not leak, everybody returns.
* **PoolBuffer.** One goroutine each: offsets, lengths and capacities that some twenty
  methods move. Several share a pool, and `growSlice` holds one of its buffers while
  it waits for another. Correct means: the bytes are those the caller wrote, in
  order; `Grow` keeps its promise; growth is bounded, does not overflow, loses no
  buffer and returns.
* **BasicGrower.** Measures what users change meanwhile. Correct means: no pull is
  counted towards two growths, and a pool that is no longer used shrinks again.
* **Errors.** A mutex that two of the three methods do not take. Correct means: after
  `Wait` every recorded error is there once, and the first stays the first.

`PROJECT.json` lists each hazard at its line.

## Plan

In order of importance:

1. `PtrPool`: freelist, `sync.Pool`, growth; safety, liveness, type correctness
   and exclusive ownership proved. *Done.*
2. `JobPool` (abstract), `PoolCalls`, `LimitedPool`, `PooledPool`: the goroutine
   pools, shown to implement the abstract one. *Done.*
3. `DiffSize`: the buffer pool. *Done.*
4. `PoolBuffer` over an abstract stock of buffers: read and write offsets, unread,
   growth, the hold-and-wait of `growSlice`, against a reference queue of bytes.
   *Done.*
5. `BasicGrower`, composed with the steps of `growth`; `Errors`, composed with the
   jobs of a limited pool. *Done.*
6. `ValuePool`, the abstract pool of exclusive values, which `PtrPool` and
   `DiffSize` implement: a value is out with one user, in, or dropped. *Done.*
7. Proofs: every safety invariant and safety action property of the passing runs, and
   that `PtrPool`, `DiffSize`, `LimitedPool` and `PooledPool` implement their abstract
   specifications, as far as that is safety. *Done*; see Proofs.
8. To come: the properties that the findings refute, under the conditions under which
   they do hold.

## Modules

### PtrPool

Models `memory/ptrpool/ptrpool.go`. `settings` are the arguments of `New`
(`Valid` is `FreeList.validate`). A freelist channel is a number, in the order in
which `growth` makes them, and `freelist` is the atomic pointer; `queue` and
`capacity` are the channels' contents and capacities, replaced channels included.
`pc`, `fl` and `val` are a user's program point, the pointer it has loaded and the
value it has; `gpc`, `target`, `old` and `moving` are the same for the grower.

| Action | Code |
|---|---|
| `GetLoad`, `GetReceive`, `GetDefault`, `GetTick` | `Get`: `p.freelist.Load()`, then the cases of its three selects |
| `SyncPoolHit`, `CallNewer` | `p.pool.Get()`, its `New`, or `newer` called directly |
| `GetCount` | the atomic adds of `Get` and of the `sync.Pool`'s `New`, one step each |
| `PutReset`, `PutCount`, `PutLoad`, `PutSend` | `put`, in its order: `reset`, `InUse`, `Load`, the select |
| `GrowthMeasure`, `GrowthSwap`, `DrainReceive`, `DrainSend`, `DrainEnd` | `growth`: the Grower's answer to the size and `PoolPulls`, what becomes of it (`Tick`, with the clamping in `NewSize`), the swap, the drain |
| `GrowerExit`, `Close` | the close channel |
| `UserWrites`, `SyncPoolGC` | the environment |

The Grower may give any answer that the constant `Grower` allows. A nil freelist
pointer leads to the point `"panic"`. A second `Close`, which panics, is a misuse
and not modelled, and neither is closing a `Value` twice. The `sync.Pool` may call
its `New` while it holds values and lose values at any time, as its documentation
allows. Values are never taken back once dropped, so `Values` and `MaxGets` bound
a behaviour.

### BasicGrower

Models `BasicGrower` in `ptrpool.go`, together with the grower goroutine that calls
it: it EXTENDS `PtrPool`, adds `noGrowth`, and replaces `GrowthMeasure`, for the
settings in `BasicSettings`, by `BasicMeasure`: a `Tick` with `Answer`, whatever `Grower`
allows. `Secs` is the MeasurementSpan in seconds; `validate` wants at least one, so the
protection against a division by 0 is never taken. `GrowerAssumption` says that `PtrPool`
was instantiated to allow positive answers that are at most the pulls above a size the
pool can have. That `Answer` only gives such, and that every behaviour is therefore
one of `PtrPool`, is the theorem `BasicIsPool`.

### ValuePool

The abstract specification of the two pools of values: `held` is what each user has
and `pooled` what the pool has. A value is lent to a user who has none and that
nobody else has, leaves the pool with it, and comes back only from that user; the
pool may lose values and make new ones. `PtrPool` implements it with `val` as `held`
and, as `pooled`, what is in the channels, the `sync.Pool` and the grower's hand;
`DiffSize` with `hold`, its channels and its `sync.Pool`s.

### JobPool, PoolCalls, LimitedPool, PooledPool

`JobPool` says what `goroutines.Pool` promises: a submitted job is run once, and
`Wait` and `Close` return when, and only when, all jobs are done. `PoolCalls` holds
what `limited` and `pooled` have in common: callers, the wait group `wg`, the
counter `running`, and the phases of a job. A thread is a client or a job, since
jobs may call `Submit`. `LimitedPool` adds the channel of slots (`Acquire`,
`Release`), `PooledPool` the channel of jobs and the workers (`Send`, `Spawn`,
`Take`, `Work`, `Exit`). Each operation on the channel, the wait group or the
counter is a step. `TypeOK` of the two pools also says where each slot and each job is
(`SlotsBalanced`, `OnePlace`): a slot is held by exactly one Submit, a job is in exactly
one place. `sync.WaitGroup` is modelled with its own panics: below zero,
and in use again before a woken waiter has run.

Callers keep to the interface: clients stop calling `Submit` before `Wait` or
`Close` is called, and `Close` comes last; jobs go on submitting. A nil
job or a wrong option makes `Submit` return before it changes anything; both are
left out. `Submit` does not look at the context, it hands it to the job. `Len` and
`Running` read one variable each; `RunningAccounted` says what the second one counts.

### Errors, LimitedErrors

`Errors` models the type of that name in `goroutines/goroutines.go`. `Record` is four
steps: the mutex (`Lock`, `Unlock`), the read of the slice (`Read`) and its write
(`AppendErr`). `Error` and `AllErrors` are what the two other methods return.
`LimitedErrors` EXTENDS it and `LimitedPool`: a job may call `Record` once while it runs
and does nothing else meanwhile. A client reads after `Wait`. A read while jobs still
record is a data race, though the type is called concurrency safe (see Findings); the
model does not have it.

### DiffSize

Models `memory/buffers/diffsize/diffsize.go`. A store is named by its size;
`buff[s]` is its channel and `pool[s]` its `sync.Pool`, a bag. `buf` has, of every
buffer, its capacity, whether its length is its capacity, `belongsToPool` and
whether it has a pool. The stores themselves do not change after `New`, so `Get`
and `put` only interleave at channel and `sync.Pool` operations: `GetCall`
(`getStore`), `GetReceive`, `GetDefault`, `SyncPoolHit`, `GetAlloc`, `GetOversize`;
`Close` (`put` with its two `reset`s, `findStore`, and `insert` up to the select),
`Insert` (the select), `SyncPoolPut`; `CloseDetached` for a buffer without a pool.
`Use` is the user: any length, any capacity of `Capacities`, smaller ones only when
`settings.shrink`. Buffers nobody can reach any more are what an allocation
returns, so behaviours are unbounded and `Buffers` only bounds how many exist at
once. `New`'s list of sizes is a set, since `New` sorts it; sizes are naturals.
`fromSyncPool` is never read and left out.

### PoolBuffer

Models `memory/buffers/diffsize/buffer.go`. `pb[p]` is a struct: `buf` (its bytes up to
its length), `off`, `lastRead`, the capacity, and the store that `buffHolder` belongs
to. Of the pool there is what a PoolBuffer can tell: `free` has the number of buffers
of each store, and a `Get` returns a slice of the store's capacity or a little more
(`AtLeast` and `SlicesFull` of `DiffSize`). The stores have `DisallowAlloc` and no
`MaxSize`, the case in which a `Get` waits; a PoolBuffer never changes the capacity of
the slice in its `buffHolder`, so a buffer goes back to the store it came from. A
larger request is allocated without a pool (`Own`), and that may fail.

A method is one step, but for its waits: `pc` is `"get"` in `pool.Get`, with what the
method still has to do in `pend`, and `"grow"` and `"read"` in the loop of `ReadFrom`.
`Grown` is `grow`, in its order: the reset of an empty buffer (`Recovered`), the reslice
(`Fits`), the slide (`Slides`), `ErrTooLarge` (`TooLarge`), `growSlice` (`GrowSize`, `Moved`).
`GetReturns` is the rest of `growSlice` and of the method. Writers, readers and
callers may do what their interfaces allow: take fewer bytes, fail, stop anywhere.

`content`, `taken` and `promise` are what a caller knows: the bytes it wrote and has not
read, the last it read, and what a `Grow` still allows it to write. No action reads
them but to update them. Bytes far behind the offset are forgotten (`Forget`), which
`ContentKept` checks to be harmless. `WriteByte`, `WriteString` and `ReadByte` are a `Write`
and a `Read` of one byte or of a string; `ReadBytes` and `ReadString` are `ReadSlice`.
Runes are ASCII or of two bytes, and either byte of those may be read alone.
`MinRead` and `utf8.UTFMax` are constants, scaled down. Use after `Close`, a nil
PoolBuffer and writers that take a negative number of bytes are left out.

## Runs

| Run | Question | Bounds |
|---|---|---|
| `ptrpool_safety` | ownership, reset, counters, capacity, population, and `ValuePool`, under seven accepted settings | 2 users, 3 values, 3 Gets, 2 growths |
| `ptrpool_fair` | do `Get` and the grower goroutine end? does a BasicGrower grow by what was missed, and shrink again? | 2 users, 2 values, 2 Gets, 2 growths, periods of 2 s |
| `ptrpool_no_freelist` | finding: the zero FreeList panics | |
| `ptrpool_stranded` | finding: `put` into a replaced channel | |
| `limited` | all properties of the limited pool, `JobPool`, and `Errors` with the jobs | 2 clients, 2 jobs, 1 slot, nested Submits of both modes, one error per job |
| `limited_limit` | finding: jobs are not limited | |
| `pooled` | all properties of the pooled version, and `JobPool` | 1 client, 3 jobs, 1 worker, nested NonBlocking Submits |
| `pooled_nonblocking` | finding: a NonBlocking job queues behind a busy worker | |
| `diffsize` | ownership, capacity, length, `MaxSize`, static buffers, and `ValuePool` | 2 users, 4 buffers, up to 2 stores, five accepted configurations |
| `diffsize_fair` | does `Get` of a blocking store return? | 2 users, 4 buffers, 2 stores |
| `diffsize_both` | finding: a buffer in the channel and in the `sync.Pool` | |
| `poolbuffer` | contents, `Grow`, growth, overflow, the pool's stock; does every call end? | three scenarios: one PoolBuffer, stores of 2 and 4, up to 3 unread bytes; two that contend for one buffer of 1 and one of 2; one that asks for 6 of the 8 an int can count |

Why these are enough: two users and the grower are all the actors that can meet
at a freelist pointer or a channel; two growths let a user hold a pointer that is
two channels old and a drain fill its new channel; three values overfill every
channel of the small settings. One slot or one worker makes every Submit wait for
another one, and with two or three jobs a job submits a job while `Close` waits.
Two users and one or two static buffers empty every store and overfill it, and
two sizes with capacities below, between, at and above them take `put` through
each of its branches. A freelist of Base 9 that has grown by one is the smallest that
a BasicGrower shrinks, two pulls in one period of two seconds grow it, and one is
not enough to. Two jobs that record at once can lose an error. A PoolBuffer of up to 5
places slides, grows twice and outgrows the pool, with offsets at every place;
three unread bytes are a rune and a part of one. With one buffer of 1 and one of 2, the
PoolBuffer that holds the first waits in `growSlice` for the second, which the other
one holds, and a new PoolBuffer waits for the first. Symmetry is used for users, values and buffers, in
safety runs only.

**Fairness.** Goroutines that can take a step inside the package take it, jobs
return, and users give back what they took: the doc of `DisableAllocs` and the
interface of the goroutine pools ask it of them. Nobody is forced to call `Get`,
`Submit`, `Wait` or `Close`. Strong fairness is assumed of a receive from a channel
(Go serves the receivers of a channel in the order of arrival, and picks among
the ready cases of a select at random), and of the close case in the grower's
select against its ticker. Finding that growth ends needs no fairness on ticks;
that an idle freelist shrinks (`IdleShrinks`) needs that the ticker goes on until the
pool is closed. `CallsEnd` of `PoolBuffer` assumes that readers end, and that callers
close their PoolBuffers: a pool with `DisallowAlloc` blocks for ever otherwise.

## Findings

* `ptrpool_no_freelist`: `ptrpool.go:177-178` says that a zero `FreeList` disables
  the freelist; the first `Get` dereferences the nil pointer.
* `ptrpool_stranded`: `ptrpool.go:456-457` says that `put` stores a value unless
  neither the freelist nor the `sync.Pool` has room; a `put` that has loaded the
  pointer before `growth` swaps it leaves the value in a channel nobody reads.
* `limited_limit`: `limited` gives its slot back when `Submit` returns and not when
  the job ends, so the number of running jobs is not limited.
* `pooled_nonblocking`: a NonBlocking job goes into the channel of capacity 1 when
  every worker is busy.
* `diffsize_both`: `insert` puts a buffer into the `sync.Pool` also when the channel
  has taken it; the store of the package's own example then hands it out twice.
  The other runs of `DiffSize` therefore use stores with one home only.

Further differences between the code and what is said of it, which no run
refutes: the `Running()` of `pooled` is not "the number of running jobs" (`pooled/goroutines.go:61`)
or of goroutines "currently in flight" (`goroutines.go:150`), since it also counts the
jobs in the channel and those whose `Submit` is blocked at its send, which is what
`RunningAccounted` states; `Len` is not "how big the pool is" (`goroutines.go:148`,
`pooled/goroutines.go:56`, `limited/goroutines.go:53`) but the number of jobs in the channel, or
of slots taken; `Errors` is called concurrency safe (`goroutines.go:154`), but `Error` and
`Errors` read the slice without the mutex; `Get` can return less than asked for after a user closed a shrunk buffer; a grown buffer below the largest
size does not move to the next category; a new `*bytes.Buffer` is not empty;
`validate` accepts negative sizes; `BasicGrower` shrinks after four periods without
misses that need not be consecutive (`ptrpool.go:285-286`), and never grows a pool
without a `sync.Pool` (261-262); a `WriteRune` may allocate after a `Grow` of the rune's
length (`buffer.go:168-169`); an `UnreadByte` succeeds after a `ReadBytes` that read nothing
(`buffer.go:431-433`), and an Unread after a `Grow` that moved the bytes does nothing and
reports success; a `DisallowAlloc` store that is not the largest
one can run dry, as can one with `MaxSize` (`MayRunDry` excludes exactly these from
`GetReturns`).

## Proofs

Every safety property that a passing run checks is also a theorem, for every value of
the constants that the named assumptions allow. A component's theorems are in the
module named after it with `Proofs` at the end. Each of them rests on an inductive
invariant: a formula that holds at first, that every action keeps, and that implies
the property. The proofs that an action keeps it go action by action; what several
actions do alike is a lemma about the common part (`Receiving`, `Takes`, `BecomesStep`).

`PtrPoolProofs` (`None` is not a value, the bounds are naturals, settings and answers
have their types; any number of users and values, any Grower):

* `TypeCorrect`: `TypeOK` is inductive by itself; it also says that a value is in hand
  exactly at the points where the code has one, and that no user has loaded a pointer
  newer than the current one. `TypeStep` and `TypeGrower` state once what a step of a
  user and of the grower has to keep.
* `ExclusiveOwnership`: alone, `Exclusive` is not inductive: `newer()` gives a value that
  is in no store only because everything in a store came from `newer()` before. The
  invariant is `ExclusiveInv`, which adds `FromNewer`. `Receiving` and `Sending` say what
  a receive and a send do to all the channels.
* `StoredClean`: a write to a value spoils only that value's cleanness; by
  `ExclusiveInv` it is in no store and in no other hand.
* `CapacityBounded`: `CapacityInv` adds that channels not made yet are empty and that
  what `growth` has settled on is within the limits; `NewSizeInLimits` is the lemma
  about the clamping.
* `PoolRefines`: `Spec => Implements`. By `ExclusiveInv` a receive is a Get of `ValuePool`
  or, in the grower's hand, a stutter; what a `put` leaves in a replaced channel stays
  in `pooled`.

`PtrPoolCountProofs`, from the same assumptions:

* `InUseCounted` and `GetsCounted`: `CountInv` says at which program points a user has
  been added to a counter and not to the next one, and that each counter is off by
  exactly the number of users there. Counting them needs that only finitely many users
  have called (`Busy` is finite), which is an invariant although `Users` need not be
  finite; and that a pool without a freelist, where a Get panics, has no Get that returned.
* `PopulationFixed`: `FixedInv` adds that such a pool has one freelist for ever, with
  room for all that was created, so that no `put` ever finds it full.

`BasicGrowerProofs` (`Secs` is positive, the settings are settings of `PtrPool`, and
`PtrPool` allows the answers that `GrowerAssumption` lists):

* `BasicIsPool`: `BasicSpec => Spec`, so that the theorems about `PtrPool` hold. It is
  about what `Answer` computes: `AnswerKept` shows that an answer is positive, which needs
  that the size is (`CapacityInv`), that it is at most the pulls above the size, and that no
  growth gets beyond Base and all the pulls there can be, which needs `GrowthInv` and that
  pulls are no more than Gets (`PullsInv`). `BasicInv` is all of these together.
* `GrowthCovered`: `GrowthInv` bounds the capacity by the pulls at the last measurement,
  `lastPulls`, and not by those at present; the pulls since then are what the next
  growth may use. The lemmas about `\div` are its arithmetic: what each growth rounds
  down is not lost to the sum.

`PoolCallsProofs` has what both goroutine pools need (finitely many clients and jobs, no
client is a job); `LimitedErrorsProofs` (a positive `Size`) and `PooledPoolProofs`
(finitely many workers, and at least one) use it.

* `CallsInv` is the common invariant. `Counts`: the wait group and the counter behind
  `Running()` are the numbers of the jobs between the two calls that change them.
  `Linked`: a job that is called, or added and not yet handed over, belongs to exactly one
  Submit, and a Submit by a job is made while that job runs. It gives what `Running()`
  counts (`CountedParts`): a Submit that waits at its send stands for exactly one job. `Orderly`: while a client waits no
  client submits, and when one has waited all is quiet. `Orderly` is what
  `WaitMeansDone` and `NoPanic` need, and it is inductive only with the other two: the
  entry in the wait group of the job that submits is what keeps `Wait` from returning
  before the new job has its own.
* `LimitedErrorsProofs`: `PoolSafe` adds that the slots taken are those of the blocking
  Submits under way. Those are not all that hold a job: the findings say why
  `HardLimit` is not a theorem. For the jobs that record errors `ErrorsInv` says who has
  the mutex, that the slice a `Record` has read is still the current one, and that
  exactly the jobs past their append are in it. `NoErrorLost` and `FirstErrorStays`
  follow, and `JobsTypeCorrect` and `JobsDoneAfterWait` are the properties of the pool in
  this larger system.
* `PooledPoolProofs`: `TypeCorrect`, `DoneAfterWait`, `RunningCounts` and `NothingPanics`
  from `PooledInv`, which adds where each job is, and that workers end only when the
  channel is closed.
* `PoolRefines`, `JobsRefine`: the pools take no step that `JobPool` forbids
  (`Spec => JP!Spec`); the steps on slots, channels and counters are stutters.

`DiffSizeProofs` (each configuration has finitely many sizes, requests and capacities
are naturals; any number of users and buffers):

* `TypeCorrect`: `TypeOK` is inductive by itself; part of it is that a buffer that has a
  pool, and one on its way back, names a store the pool has. That `getStore` finds a least store that is large enough is `LeastExists`, from
  the well-foundedness of the naturals.
* `GetReturnsEnough`: `LeastInv` follows a buffer all the way, since `put` decides by
  where it came from and what it is now.
* The other five have the hypothesis `OnePlace`: no store has both a channel and a
  `sync.Pool`. That is no convenience: the run `diffsize_both` shows that a buffer is
  in two places without it, and two users of one buffer undo for each other
  what the other four rest on. Every other configuration that `New` accepts is covered. `Exclusion` needs only types besides;
  `PoolRefines` follows from it; `SlicesReset` and `LimitsKept` follow from `KeptInv`, which
  relates what is in a store to what is on its way there, and needs `Exclusive` so that
  no user changes a stored buffer; `StaticBuffersLast` counts the buffers of the largest
  store in the channel and in hand.

`Exclusive` is stated with quantifiers (`OnceInStores`, `OnceInHands`) and not by counting
copies: the two say the same, and only the first can be reasoned about for
any number of users and stores.

`PoolBufferProofs` (`MinRead` is positive, a rune has two bytes at least, no store is of
size 0; any number of PoolBuffers, any bytes, stores, sizes and largest int):

* `Inv` is the invariant behind all six theorems; `Good` is its part about one
  PoolBuffer. Besides what the properties say it has that the last bytes before the
  offset are those the last read took (`Took`), without which an Unread would not give
  them back, and that a call that waits has found its buffer too small, too full to
  slide and small enough to double (`Waits`), without which nothing could be said of what
  `growSlice` asks for. Each of the parts the methods are made of (`Reset`, `Slid`,
  `Moved`, `Extended`, ...) has a lemma that it keeps a struct `Good`.
* `TypeCorrect`, `QueueOfBytes` and `GrowIsKept` are parts of `Inv`, and `SizesFit`
  follows from `Waits` by arithmetic (`WaitingFor`).
* `StockIsKept`: `HeldInv` adds that only finitely many PoolBuffers have a buffer of each
  store, and that a buffer has at least the size of its store (`HasRoom`). Every step
  `Trades` one buffer for another; all but the two ends of `pool.Get` and `Close` are
  `Local`: they trade a buffer for itself.
* `GrowthIsBounded`, with `NoCircle`: the bounds are arithmetic again. Who waits wants a
  store larger than its own buffer, and by `HasRoom` the holders of that store's
  buffers have larger ones (`WaitsForLarger`). What is left from the capacity to the
  largest int is a natural that becomes less from one who waits to the next, so every set
  of PoolBuffers, also an infinite one, has one that waits for none of them.

**What only TLC checks.** Liveness (`GetReturns`, `GrowerStops`, `IdleShrinks`,
`SubmitReturns`, `WorkersExit`, `CallsEnd`) and the fairness conditions of `JobPool!FairSpec`,
which is what `Implements` of the goroutine pools means: the prover has neither
`ENABLED` nor fairness. What the findings refute is of course not proved. Nothing was
assumed but the named assumptions, which TLC evaluates in the runs.

## Not modelled

`Stats` copies five counters one after the other and changes nothing; only the sum
it makes, `TotalAllocated`, is modelled. Benchmarks and the allocation demos have no
state of their own. Jobs of the pooled version that submit without NonBlocking
block each other for ever when the channel is full, so the runs have none. Reads of an
`Errors` while jobs record are data races. Use of a `PoolBuffer` after `Close`, double
closes and sizes below zero are misuses. All of these are left out. Log lines, error texts and contexts are left out.
