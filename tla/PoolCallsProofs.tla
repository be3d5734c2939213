--------------------------- MODULE PoolCallsProofs ---------------------------
(***************************************************************************)
(* What the goroutine pools have in common, proved once for both: the      *)
(* wait group counts the jobs that Wait has to wait for, the counter       *)
(* behind Running() the jobs between its two adds, and whoever has waited  *)
(* finds all jobs done, for any number of clients and jobs.                *)
(***************************************************************************)
EXTENDS PoolCalls, FiniteSetTheorems, TLAPS

Calling == {"acquire", "add"}        \* Submit has its job, and not counted it
Placing == {"count", "go", "send"}   \* it has counted it, and still has it
Owning  == Calling \cup Placing

Quiet == \A j \in Jobs : phase[j] \in {"new", "done"}

(***************************************************************************)
(* The inductive invariant.  A job between its call and its start belongs  *)
(* to one Submit, and a Submit that a job makes is made while it runs, so  *)
(* that its own entry in the wait group covers the new job.                *)
(***************************************************************************)
Linked ==
  /\ \A s \in Threads : pc[s] \in Calling => phase[arg[s]] = "called"
  /\ \A s \in Threads : pc[s] \in Placing => phase[arg[s]] = "added"
  /\ \A s, t \in Threads :
       s # t /\ pc[s] \in Owning /\ pc[t] \in Owning => arg[s] # arg[t]
  /\ \A j \in Jobs : phase[j] \in {"called", "added"} =>
       \E s \in Threads : pc[s] \in Owning /\ arg[s] = j
  /\ \A j \in Jobs : pc[j] \in InSubmit => phase[j] = "running"

\* Clients do not submit while one of them waits; after Close nobody does.
Orderly ==
  /\ (\E c \in Clients : pc[c] \in InWait) \/ closer # None =>
       \A d \in Clients : pc[d] \notin InSubmit
  /\ \A c \in Clients : pc[c] \in {"woken", "waited"} => Quiet
  /\ closed => Quiet /\ closer # None
  /\ NoPanic

\* The jobs between running.Add(1) and running.Add(-1).
Counted == {j \in Jobs : /\ phase[j] \in {"added", "queued", "ready", "running", "ran"}
                         /\ ~\E s \in Threads : arg[s] = j /\ pc[s] = "count"}

Counts == wg = Cardinality(Pending) /\ running = Cardinality(Counted)

CallsInv == CallsTypeOK /\ Linked /\ Orderly /\ Counts

-----------------------------------------------------------------------------
(***************************************************************************)
(* Consequences of the invariant.                                          *)
(***************************************************************************)
LEMMA PointFacts ==
  /\ Owning \subseteq InSubmit /\ InSubmit \subseteq Points /\ InWait \subseteq Points
  /\ "out" \in Points /\ "out" \notin InSubmit /\ "out" \notin InWait
  /\ "release" \in InSubmit /\ "release" \notin Owning
  /\ InSubmit \cap InWait = {} /\ "panic" \notin InSubmit \cup InWait
BY DEF Owning, Calling, Placing, InSubmit, InWait, Points

LEMMA SetsFinite ==
  /\ IsFiniteSet(Pending) /\ IsFiniteSet(Counted)
  /\ Cardinality(Pending) \in Nat /\ Cardinality(Counted) \in Nat
<1>1. Pending \in SUBSET Jobs /\ Counted \in SUBSET Jobs
  BY DEF Pending, Counted
<1>2. IsFiniteSet(Jobs)
  BY ThreadsAssumption
<1>3. IsFiniteSet(Pending) /\ IsFiniteSet(Counted)
  BY <1>1, <1>2, FS_Subset
<1> QED BY <1>3, FS_CardinalityType

\* A thread in Submit is a client or a job of the pool.
LEMMA Submitter ==
  ASSUME CallsInv, NEW s \in Threads, pc[s] \in InSubmit
  PROVE  /\ arg[s] \in Jobs
         /\ s \in Clients \/ (s \in Jobs /\ phase[s] = "running")
BY DEF CallsInv, CallsTypeOK, Linked, Threads

\* While a Submit is under way the pool is open and nobody has finished waiting.
LEMMA SubmitOpen ==
  ASSUME CallsInv, NEW s \in Threads, pc[s] \in Owning
  PROVE  /\ ~Quiet /\ ~closed
         /\ \A c \in Clients : pc[c] \notin {"woken", "waited"}
         /\ arg[s] \in Jobs /\ arg[s] # s
         /\ phase[arg[s]] \in {"called", "added"}
<1>1. pc[s] \in InSubmit
  BY DEF Owning, Calling, Placing, InSubmit
<1>2. phase[arg[s]] \in {"called", "added"} /\ arg[s] \in Jobs
  BY <1>1, Submitter DEF CallsInv, Linked, Owning
<1>3. ~Quiet
  BY <1>2 DEF Quiet
<1>4. arg[s] # s
  BY <1>1, <1>2, Submitter, ThreadsAssumption
<1> QED BY <1>2, <1>3, <1>4 DEF CallsInv, Orderly

\* When the wait group is at zero and no client is in Submit, no job is left.
LEMMA ZeroIsQuiet ==
  ASSUME CallsInv, wg = 0, \A d \in Clients : pc[d] \notin InSubmit
  PROVE  Quiet /\ running = 0
<1>1. Pending = {}
  BY SetsFinite, FS_EmptySet DEF CallsInv, Counts
<1>2. \A j \in Jobs : phase[j] \in {"new", "called", "done"}
  BY <1>1 DEF Pending
<1>3. ASSUME NEW j \in Jobs, phase[j] = "called" PROVE FALSE
  <2>1. PICK s \in Threads : pc[s] \in Owning
    BY <1>3 DEF CallsInv, Linked
  <2>2. pc[s] \in InSubmit
    BY <2>1, PointFacts
  <2>3. s \in Jobs /\ phase[s] = "running"
    BY <2>2, Submitter
  <2> QED BY <1>2, <2>3
<1>4. Counted = {}
  BY <1>2 DEF Counted
<1>5. running = 0
  BY <1>4, FS_EmptySet DEF CallsInv, Counts
<1> QED BY <1>2, <1>3, <1>5 DEF Quiet

\* A quiet pool has counted everything back.
LEMMA QuietCounts ==
  ASSUME CallsInv, Quiet
  PROVE  wg = 0 /\ running = 0
<1>1. Pending = {} /\ Counted = {}
  BY DEF Quiet, Pending, Counted
<1> QED BY <1>1, FS_EmptySet DEF CallsInv, Counts

\* The jobs that are counted: a goroutine has them, the channel, or one Submit each.
LEMMA CountedParts ==
  ASSUME CallsInv
  PROVE  RunningAccounted
<1> DEFINE Carried == {arg[s] : s \in Handing}
           Sent    == InFlight \cup Queued
<1>1. IsFiniteSet(Jobs) /\ IsFiniteSet(Threads)
  BY ThreadsAssumption, FS_Union DEF Threads
<1>2. /\ InFlight \in SUBSET Jobs /\ Queued \in SUBSET Jobs /\ Handing \in SUBSET Threads
      /\ InFlight \cap Queued = {}
  BY DEF InFlight, Queued, Handing
<1>3. /\ IsFiniteSet(InFlight) /\ IsFiniteSet(Queued) /\ IsFiniteSet(Handing)
      /\ Cardinality(InFlight) \in Nat /\ Cardinality(Queued) \in Nat
      /\ Cardinality(Handing) \in Nat
  BY <1>1, <1>2, FS_Subset, FS_CardinalityType
<1>4. \A s \in Handing : /\ s \in Threads /\ pc[s] \in Placing /\ pc[s] \in Owning
                          /\ pc[s] # "count" /\ arg[s] \in Jobs /\ phase[arg[s]] = "added"
  <2> SUFFICES ASSUME NEW s \in Handing
               PROVE  /\ s \in Threads /\ pc[s] \in Placing /\ pc[s] \in Owning
                      /\ pc[s] # "count" /\ arg[s] \in Jobs /\ phase[arg[s]] = "added"
    OBVIOUS
  <2>1. s \in Threads /\ pc[s] \in Placing /\ pc[s] \in Owning /\ pc[s] # "count"
    BY DEF Handing, Placing, Owning
  <2> QED BY <2>1, SubmitOpen DEF CallsInv, Linked
<1>5. IsFiniteSet(Carried) /\ Cardinality(Carried) = Cardinality(Handing)
  <2> DEFINE f == [s \in Handing |-> arg[s]]
  <2>1. \A s, t \in Handing : arg[s] = arg[t] => s = t
    BY <1>4 DEF CallsInv, Linked
  <2>2. f \in Bijection(Handing, Carried)
    BY <2>1 DEF Bijection, Injection, Surjection, IsInjective
  <2> QED BY <1>3, <2>2, FS_Bijection DEF ExistsBijection
<1>6. /\ IsFiniteSet(Sent) /\ Cardinality(Sent) \in Nat
      /\ Cardinality(Sent) = Cardinality(InFlight) + Cardinality(Queued)
  <2>1. /\ IsFiniteSet(Sent)
        /\ Cardinality(Sent) = Cardinality(InFlight) + Cardinality(Queued)
                               - Cardinality(InFlight \cap Queued)
    BY <1>3, FS_Union
  <2>2. Cardinality(InFlight \cap Queued) = 0
    BY <1>2, FS_EmptySet
  <2>3. Cardinality(Sent) = Cardinality(InFlight) + Cardinality(Queued)
    BY <1>3, <2>1, <2>2
  <2> QED BY <1>3, <2>1, <2>3
<1>7. Sent \cap Carried = {}
  BY <1>4 DEF InFlight, Queued
<1>8. Counted = Sent \cup Carried
  <2>1. ASSUME NEW j \in Counted, phase[j] = "added" PROVE j \in Carried
    <3>1. j \in Jobs /\ ~\E s \in Threads : arg[s] = j /\ pc[s] = "count"
      BY DEF Counted
    <3>2. PICK s \in Threads : pc[s] \in Owning /\ arg[s] = j
      BY <2>1, <3>1 DEF CallsInv, Linked
    <3>3. pc[s] \notin Calling /\ pc[s] # "count"
      BY <2>1, <3>1, <3>2 DEF CallsInv, Linked
    <3>4. s \in Handing
      BY <3>2, <3>3 DEF Handing, Owning, Placing
    <3> QED BY <3>2, <3>4
  <2>2. \A j \in Counted : phase[j] # "added" => j \in Sent
    BY DEF Counted, InFlight, Queued
  <2>3. \A j \in Sent : j \in Counted
    <3> SUFFICES ASSUME NEW j \in Sent PROVE j \in Counted
      OBVIOUS
    <3>1. j \in Jobs /\ phase[j] \in {"queued", "ready", "running", "ran"}
      BY DEF InFlight, Queued
    <3>2. \A s \in Threads : pc[s] = "count" => phase[arg[s]] = "added"
      BY DEF CallsInv, Linked, Placing
    <3> QED BY <3>1, <3>2 DEF Counted
  <2>4. \A s \in Handing : arg[s] \in Counted
    <3> SUFFICES ASSUME NEW s \in Handing PROVE arg[s] \in Counted
      OBVIOUS
    <3>1. \A t \in Threads : pc[t] = "count" => pc[t] \in Owning
      BY DEF Owning, Placing
    <3>2. \A t \in Threads : pc[t] = "count" => arg[t] # arg[s]
      BY <1>4, <3>1 DEF CallsInv, Linked
    <3> QED BY <1>4, <3>2 DEF Counted
  <2> QED BY <2>1, <2>2, <2>3, <2>4
<1>9. Cardinality(Counted) = Cardinality(Sent) + Cardinality(Carried)
  <2>1. Cardinality(Sent \cup Carried) = Cardinality(Sent) + Cardinality(Carried)
                                         - Cardinality(Sent \cap Carried)
    BY <1>5, <1>6, FS_Union
  <2>2. Cardinality(Sent \cap Carried) = 0
    BY <1>7, FS_EmptySet
  <2> QED BY <1>3, <1>5, <1>6, <1>8, <2>1, <2>2
<1> QED BY <1>3, <1>5, <1>6, <1>9 DEF CallsInv, Counts, RunningAccounted

LEMMA CallsProperties ==
  ASSUME CallsInv
  PROVE  WaitMeansDone /\ RunningAccounted /\ NoPanic
BY QuietCounts, CountedParts DEF CallsInv, Orderly, WaitMeansDone, Quiet

LEMMA CallsInvInit == CallsInit => CallsInv
<1> SUFFICES ASSUME CallsInit PROVE CallsInv
  OBVIOUS
<1>1. Pending = {} /\ Counted = {}
  BY DEF CallsInit, Pending, Counted
<1>2. Counts
  BY <1>1, FS_EmptySet DEF Counts, CallsInit
<1>3. CallsTypeOK
  <2>1. "new" \in JobPhases /\ "blocking" \in Modes /\ "out" \in Points
        /\ "out" \notin InSubmit
    BY DEF JobPhases, Modes, Points, InSubmit
  <2>2. closed \in BOOLEAN
    BY DEF CallsInit
  <2> QED BY <2>1, <2>2 DEF CallsInit, CallsTypeOK
<1>4. Linked /\ Orderly
  BY ThreadsAssumption DEF CallsInit, Linked, Orderly, Calling, Placing, Owning, InSubmit,
     InWait, NoPanic, Threads
<1> QED BY <1>2, <1>3, <1>4 DEF CallsInv

-----------------------------------------------------------------------------
(***************************************************************************)
(* The steps of a Submit.                                                  *)
(***************************************************************************)
\* Submit is called: nothing is counted yet.
LEMMA CallKeeps ==
  ASSUME CallsInv, NEW s \in Threads, NEW j \in Jobs, NEW m \in Modes,
         NEW point \in Calling, Call(s, j, m, point)
  PROVE  CallsInv'
<1> USE PointFacts DEF CallsInv
<1>1. /\ pc[s] = "out" /\ phase[j] = "new" /\ MaySubmit(s, m)
      /\ phase' = [phase EXCEPT ![j] = "called"]
      /\ mode' = [mode EXCEPT ![j] = m]
      /\ arg' = [arg EXCEPT ![s] = j] /\ pc' = [pc EXCEPT ![s] = point]
      /\ UNCHANGED <<wg, running, closed, closer>>
  BY DEF Call, Reach, Goto
<1>2. /\ \A t \in Threads : pc'[t] = IF t = s THEN point ELSE pc[t]
      /\ \A t \in Threads : arg'[t] = IF t = s THEN j ELSE arg[t]
      /\ \A k \in Jobs : phase'[k] = IF k = j THEN "called" ELSE phase[k]
  BY <1>1 DEF CallsTypeOK
<1>3. CallsTypeOK'
  <2>1. "called" \in JobPhases /\ point \in Points /\ j # None
    BY ThreadsAssumption DEF JobPhases, Threads, Owning
  <2>2. /\ wg' \in Int /\ running' \in Int /\ closer' \in Clients \cup {None}
        /\ phase' \in [Jobs -> JobPhases] /\ mode' \in [Jobs -> Modes]
        /\ pc' \in [Threads -> Points] /\ arg' \in [Threads -> Jobs \cup {None}]
    BY <1>1, <2>1 DEF CallsTypeOK
  <2>3. closed' \in BOOLEAN
    BY <1>1 DEF CallsTypeOK
  <2>4. \A t \in Threads : pc'[t] \in InSubmit => arg'[t] # None
    BY <1>2, <2>1 DEF CallsTypeOK
  <2> QED BY <2>2, <2>3, <2>4 DEF CallsTypeOK
<1>4. s \in Clients \/ (s \in Jobs /\ phase[s] = "running")
  BY <1>1 DEF MaySubmit
<1>5. Linked'
  <2>1. \A t \in Threads : pc[t] \in Owning => arg[t] # j
    BY <1>1 DEF Linked, Owning
  <2>2. /\ \A t \in Threads : pc'[t] \in Calling => phase'[arg'[t]] = "called"
        /\ \A t \in Threads : pc'[t] \in Placing => phase'[arg'[t]] = "added"
    BY <1>1, <1>2, <2>1 DEF Linked, Owning, CallsTypeOK, Calling, Placing
  <2>3. \A t, u \in Threads :
          t # u /\ pc'[t] \in Owning /\ pc'[u] \in Owning => arg'[t] # arg'[u]
    BY <1>2, <2>1 DEF Linked
  <2>4. \A k \in Jobs : phase'[k] \in {"called", "added"} =>
          \E t \in Threads : pc'[t] \in Owning /\ arg'[t] = k
    BY <1>1, <1>2 DEF Linked, Owning
  <2>5. \A k \in Jobs : pc'[k] \in InSubmit => phase'[k] = "running"
    BY <1>1, <1>2, <1>4, ThreadsAssumption DEF Linked, Threads
  <2> QED BY <2>2, <2>3, <2>4, <2>5 DEF Linked
<1>6. Orderly'
  <2>1. ~Quiet \/ (s \in Clients /\ closer = None /\ \A c \in Clients : pc[c] \notin InWait)
    BY <1>1 DEF MaySubmit, Quiet
  <2>2. /\ \A c \in Clients : pc[c] \notin {"woken", "waited"}
        /\ ~closed
    BY <2>1 DEF Orderly, InWait
  <2>3. point \notin InWait /\ point # "panic"
    BY DEF Calling, InWait
  <2>4. /\ \A c \in Clients : pc'[c] \notin {"woken", "waited"}
        /\ ~closed' /\ NoPanic'
    BY <1>1, <1>2, <2>2, <2>3 DEF Orderly, NoPanic, InWait, Threads
  <2>5. (\E c \in Clients : pc'[c] \in InWait) \/ closer' # None =>
           \A d \in Clients : pc'[d] \notin InSubmit
    BY <1>1, <1>2, <2>3, ThreadsAssumption DEF Orderly, MaySubmit, Threads
  <2> QED BY <2>4, <2>5 DEF Orderly
<1>7. Counts'
  <2>1. Pending' = Pending
    BY <1>1, <1>2 DEF Pending
  <2>2. \A k \in Jobs : (\E t \in Threads : arg'[t] = k /\ pc'[t] = "count")
                          <=> (\E t \in Threads : arg[t] = k /\ pc[t] = "count")
    BY <1>1, <1>2 DEF Calling
  <2>3. Counted' = Counted
    BY <1>1, <1>2, <2>2 DEF Counted
  <2> QED BY <1>1, <2>1, <2>3 DEF Counts
<1> QED BY <1>3, <1>5, <1>6, <1>7

\* A Submit that goes on with the job it has, or is done with it, moves from one
\* point to another and nothing else: a slot taken or given back.
LEMMA MoveKeeps ==
  ASSUME CallsInv, NEW s \in Threads, NEW point \in {"add", "out"},
         pc[s] = IF point = "add" THEN "acquire" ELSE "release",
         pc' = [pc EXCEPT ![s] = point],
         UNCHANGED <<wg, running, closed, closer, phase, mode, arg>>
  PROVE  CallsInv'
<1> USE PointFacts DEF CallsInv
<1>1. \A t \in Threads : pc'[t] = IF t = s THEN point ELSE pc[t]
  BY DEF CallsTypeOK
<1>2. point \in Points /\ point \notin InWait /\ point # "panic" /\ point # "count"
      /\ pc[s] # "count" /\ pc[s] \in InSubmit
      /\ (pc[s] \in Calling <=> point \in Calling)
      /\ (pc[s] \in Placing <=> point \in Placing)
      /\ (point \in InSubmit => pc[s] \in InSubmit)
  BY DEF Points, InSubmit, InWait, Calling, Placing
<1>3. CallsTypeOK'
  BY <1>1, <1>2 DEF CallsTypeOK
<1>4. Linked'
  BY <1>1, <1>2 DEF Linked, Owning
<1>5. Orderly'
  BY <1>1, <1>2 DEF Orderly, NoPanic, Quiet, InWait
<1>6. Counts'
  BY <1>1, <1>2 DEF Counts, Pending, Counted
<1> QED BY <1>3, <1>4, <1>5, <1>6

\* p.wg.Add(1): the job is one that the wait group counts from now on.
LEMMA AddKeeps ==
  ASSUME CallsInv, NEW s \in Threads, Add(s)
  PROVE  CallsInv'
<1> USE PointFacts DEF CallsInv
<1> DEFINE j == arg[s]
<1>1. /\ pc[s] = "add" /\ pc' = [pc EXCEPT ![s] = "count"]
      /\ phase' = [phase EXCEPT ![j] = "added"] /\ wg' = wg + 1
      /\ UNCHANGED <<running, closed, closer, mode, arg>>
  BY DEF Add, Reach, Goto
<1>2. /\ pc[s] \in Calling /\ pc[s] \in Owning /\ pc[s] \in InSubmit
      /\ "count" \in Placing /\ "count" \notin Calling /\ "count" \in InSubmit
      /\ "count" \in Owning
  BY <1>1 DEF Calling, Placing, Owning, InSubmit
<1>3. j \in Jobs /\ phase[j] = "called" /\ j # s
  BY <1>2, SubmitOpen DEF Linked
<1>4. /\ \A t \in Threads : pc'[t] = IF t = s THEN "count" ELSE pc[t]
      /\ \A k \in Jobs : phase'[k] = IF k = j THEN "added" ELSE phase[k]
  BY <1>1, <1>3 DEF CallsTypeOK
<1>5. CallsTypeOK'
  <2>1. "added" \in JobPhases /\ "count" \in Points
    BY <1>2 DEF JobPhases
  <2>2. closed' \in BOOLEAN
    BY <1>1 DEF CallsTypeOK
  <2> QED BY <1>1, <1>2, <1>4, <2>1, <2>2 DEF CallsTypeOK
<1>6. \A t \in Threads : t # s /\ pc[t] \in Owning => arg[t] # j
  BY <1>2 DEF Linked
<1>7. Linked'
  <2>1. /\ \A t \in Threads : pc'[t] \in Calling => phase'[arg'[t]] = "called"
        /\ \A t \in Threads : pc'[t] \in Placing => phase'[arg'[t]] = "added"
    BY <1>1, <1>2, <1>4, <1>6 DEF Linked, Owning, CallsTypeOK
  <2>2. \A t, u \in Threads :
          t # u /\ pc'[t] \in Owning /\ pc'[u] \in Owning => arg'[t] # arg'[u]
    BY <1>1, <1>2, <1>4 DEF Linked
  <2>3. \A k \in Jobs : phase'[k] \in {"called", "added"} =>
          \E t \in Threads : pc'[t] \in Owning /\ arg'[t] = k
    BY <1>1, <1>2, <1>3, <1>4 DEF Linked
  <2>4. \A k \in Jobs : pc'[k] \in InSubmit => phase'[k] = "running"
    BY <1>2, <1>3, <1>4 DEF Linked, Threads
  <2> QED BY <2>1, <2>2, <2>3, <2>4 DEF Linked
<1>8. Orderly'
  <2>1. ~closed' /\ \A c \in Clients : pc'[c] \notin {"woken", "waited"}
    BY <1>1, <1>2, <1>4, SubmitOpen DEF Threads
  <2> QED BY <1>1, <1>2, <1>4, <2>1 DEF Orderly, NoPanic, InWait, Threads
<1>9. Counts'
  <2>1. Pending' = Pending \cup {j} /\ j \notin Pending
    BY <1>3, <1>4 DEF Pending
  <2>2. Counted' = Counted
    BY <1>1, <1>3, <1>4, <1>6 DEF Counted
  <2>3. Cardinality(Pending') = Cardinality(Pending) + 1
    BY <2>1, SetsFinite, FS_AddElement
  <2> QED BY <1>1, <2>2, <2>3 DEF Counts
<1> QED BY <1>5, <1>7, <1>8, <1>9

\* p.running.Add(1): the job is one that the counter counts from now on.
LEMMA CountUpKeeps ==
  ASSUME CallsInv, NEW s \in Threads, NEW point \in {"go", "send"}, CountUp(s, point)
  PROVE  CallsInv'
<1> USE PointFacts DEF CallsInv
<1> DEFINE j == arg[s]
<1>1. /\ pc[s] = "count" /\ pc' = [pc EXCEPT ![s] = point] /\ running' = running + 1
      /\ UNCHANGED <<wg, closed, closer, phase, mode, arg>>
  BY DEF CountUp, Goto
<1>2. /\ pc[s] \in Placing /\ point \in Placing /\ point \in InSubmit
      /\ pc[s] \in Owning /\ point \in Owning /\ point \notin Calling /\ point # "panic"
      /\ pc[s] \notin Calling
  BY <1>1 DEF Placing, InSubmit, Owning, Calling
<1>3. j \in Jobs /\ phase[j] = "added"
  BY <1>2, SubmitOpen DEF Linked
<1>4. \A t \in Threads : pc'[t] = IF t = s THEN point ELSE pc[t]
  BY <1>1 DEF CallsTypeOK
<1>5. CallsTypeOK'
  <2>1. closed' \in BOOLEAN
    BY <1>1 DEF CallsTypeOK
  <2>2. pc' \in [Threads -> Points] /\ running' \in Int
    BY <1>1, <1>2 DEF CallsTypeOK
  <2> QED BY <1>1, <1>2, <1>4, <2>1, <2>2 DEF CallsTypeOK
<1>6. Linked'
  BY <1>1, <1>2, <1>4 DEF Linked
<1>7. Orderly'
  BY <1>1, <1>2, <1>4 DEF Orderly, NoPanic, Quiet, InWait
<1>8. Counts'
  <2>1. Pending' = Pending
    BY <1>1 DEF Pending
  <2>2. \A t \in Threads : t # s /\ pc[t] = "count" => arg[t] # j
    BY <1>2 DEF Linked, Owning, Placing
  <2>3. Counted' = Counted \cup {j} /\ j \notin Counted
    BY <1>1, <1>3, <1>4, <2>2 DEF Counted
  <2>4. Cardinality(Counted') = Cardinality(Counted) + 1
    BY <2>3, SetsFinite, FS_AddElement
  <2> QED BY <1>1, <2>1, <2>4 DEF Counts
<1> QED BY <1>5, <1>6, <1>7, <1>8

\* The job leaves Submit, for the channel or for a goroutine.
LEMMA HandOverKeeps ==
  ASSUME CallsInv, NEW s \in Threads, pc[s] \in {"go", "send"},
         NEW point \in {"release", "out"}, NEW p \in {"queued", "ready"},
         phase' = [phase EXCEPT ![arg[s]] = p], pc' = [pc EXCEPT ![s] = point],
         UNCHANGED <<wg, running, closed, closer, mode, arg>>
  PROVE  CallsInv'
<1> USE PointFacts DEF CallsInv
<1> DEFINE j == arg[s]
<1>1. /\ pc[s] \in Placing /\ pc[s] \in InSubmit /\ pc[s] \in Owning /\ pc[s] # "count"
      /\ point \in Points /\ point \notin Owning /\ point # "count" /\ point # "panic"
      /\ point \notin InWait /\ point \notin Calling /\ point \notin Placing
  BY DEF Placing, InSubmit, Owning, Calling, Points
<1>2. j \in Jobs /\ phase[j] = "added" /\ j # s
  BY <1>1, SubmitOpen DEF Linked
<1>3. /\ \A t \in Threads : pc'[t] = IF t = s THEN point ELSE pc[t]
      /\ \A k \in Jobs : phase'[k] = IF k = j THEN p ELSE phase[k]
  BY <1>2 DEF CallsTypeOK
<1>4. CallsTypeOK'
  <2>1. closed' \in BOOLEAN
    BY DEF CallsTypeOK
  <2>2. p \in JobPhases
    BY DEF JobPhases
  <2>3. pc' \in [Threads -> Points] /\ phase' \in [Jobs -> JobPhases]
    BY <1>1, <2>2 DEF CallsTypeOK
  <2> QED BY <1>1, <1>3, <2>1, <2>3 DEF CallsTypeOK
<1>5. \A t \in Threads : t # s /\ pc[t] \in Owning => arg[t] # j
  BY <1>1 DEF Linked
<1>6. Linked'
  <2>1. /\ \A t \in Threads : pc'[t] \in Calling => phase'[arg'[t]] = "called"
        /\ \A t \in Threads : pc'[t] \in Placing => phase'[arg'[t]] = "added"
    BY <1>1, <1>3, <1>5 DEF Linked, Owning, CallsTypeOK
  <2>2. \A t, u \in Threads :
          t # u /\ pc'[t] \in Owning /\ pc'[u] \in Owning => arg'[t] # arg'[u]
    BY <1>1, <1>3 DEF Linked
  <2>3. \A k \in Jobs : phase'[k] \in {"called", "added"} =>
          \E t \in Threads : pc'[t] \in Owning /\ arg'[t] = k
    <3> SUFFICES ASSUME NEW k \in Jobs, phase'[k] \in {"called", "added"}
                 PROVE  \E t \in Threads : pc'[t] \in Owning /\ arg'[t] = k
      OBVIOUS
    <3>1. phase[k] \in {"called", "added"} /\ k # j
      BY <1>3
    <3>2. PICK t \in Threads : pc[t] \in Owning /\ arg[t] = k
      BY <3>1 DEF Linked
    <3>3. t # s
      BY <3>1, <3>2
    <3> QED BY <1>3, <3>2, <3>3
  <2>4. \A k \in Jobs : pc'[k] \in InSubmit => phase'[k] = "running"
    BY <1>1, <1>2, <1>3 DEF Linked, Threads
  <2> QED BY <2>1, <2>2, <2>3, <2>4 DEF Linked
<1>7. Orderly'
  <2>1. ~closed' /\ \A c \in Clients : pc'[c] \notin {"woken", "waited"}
    BY <1>1, <1>3, SubmitOpen DEF Threads, InWait
  <2> QED BY <1>1, <1>3, <2>1 DEF Orderly, NoPanic, InWait, Threads
<1>8. Counts'
  <2>1. Pending' = Pending
    BY <1>2, <1>3 DEF Pending
  <2>2. \A t \in Threads : pc'[t] = "count" <=> pc[t] = "count"
    BY <1>1, <1>3
  <2>3. Counted' = Counted
    BY <1>2, <1>3, <2>2 DEF Counted
  <2> QED BY <2>1, <2>3 DEF Counts
<1> QED BY <1>4, <1>6, <1>7, <1>8

-----------------------------------------------------------------------------
(***************************************************************************)
(* The steps of a job in its goroutine.                                    *)
(***************************************************************************)
Working == {"queued", "ready", "running", "ran", "uncounted"}

\* A job that goes on after Submit has handed it over concerns no Submit; at most
\* it wakes who waits.
LEMMA JobLinked ==
  ASSUME CallsInv, NEW j \in Jobs, phase[j] \in Working,
         NEW q \in {"running", "ran", "uncounted", "done"},
         q = "running" \/ pc[j] \notin InSubmit,
         phase' = [phase EXCEPT ![j] = q],
         pc' \in [Threads -> Points],
         \A t \in Threads : pc'[t] = pc[t] \/ (pc[t] = "waiting" /\ pc'[t] = "woken"),
         UNCHANGED <<closed, closer, mode, arg>>, wg' \in Int, running' \in Int
  PROVE  CallsTypeOK' /\ Linked' /\ ~Quiet /\ ~closed
<1> USE PointFacts DEF CallsInv
<1>1. /\ \A k \in Jobs : phase'[k] = IF k = j THEN q ELSE phase[k]
      /\ q \in JobPhases /\ q \notin {"called", "added"}
      /\ phase[j] \notin {"called", "added", "new", "done"}
  BY DEF CallsTypeOK, JobPhases, Working
<1>2. \A t \in Threads : /\ pc'[t] \in Calling <=> pc[t] \in Calling
                         /\ pc'[t] \in Placing <=> pc[t] \in Placing
                         /\ pc'[t] \in InSubmit <=> pc[t] \in InSubmit
  BY DEF Calling, Placing, InSubmit
<1>3. CallsTypeOK'
  <2>1. closed' \in BOOLEAN
    BY DEF CallsTypeOK
  <2>2. phase' \in [Jobs -> JobPhases]
    BY <1>1 DEF CallsTypeOK
  <2> QED BY <1>2, <2>1, <2>2 DEF CallsTypeOK
<1>4. Linked'
  <2>1. /\ \A t \in Threads : pc'[t] \in Calling => phase'[arg'[t]] = "called"
        /\ \A t \in Threads : pc'[t] \in Placing => phase'[arg'[t]] = "added"
    <3>1. \A t \in Threads : pc[t] \in Owning => arg[t] \in Jobs /\ arg[t] # j
      BY <1>1, SubmitOpen
    <3> QED BY <1>1, <1>2, <3>1 DEF Linked, Owning
  <2>2. \A t, u \in Threads :
          t # u /\ pc'[t] \in Owning /\ pc'[u] \in Owning => arg'[t] # arg'[u]
    BY <1>2 DEF Linked, Owning
  <2>3. \A k \in Jobs : phase'[k] \in {"called", "added"} =>
          \E t \in Threads : pc'[t] \in Owning /\ arg'[t] = k
    BY <1>1, <1>2 DEF Linked, Owning
  <2>4. \A k \in Jobs : pc'[k] \in InSubmit => phase'[k] = "running"
    BY <1>1, <1>2 DEF Linked, Threads
  <2> QED BY <2>1, <2>2, <2>3, <2>4 DEF Linked
<1>5. ~Quiet /\ ~closed
  BY <1>1 DEF Quiet, Orderly
<1> QED BY <1>3, <1>4, <1>5

\* The goroutine of a job starts it, or a worker takes it from the channel.
LEMMA StartKeeps ==
  ASSUME CallsInv, NEW j \in Jobs, phase[j] \in {"queued", "ready"},
         phase' = [phase EXCEPT ![j] = "running"],
         UNCHANGED <<wg, running, closed, closer, mode, pc, arg>>
  PROVE  CallsInv'
<1> USE DEF CallsInv
<1>1. CallsTypeOK' /\ Linked' /\ ~Quiet /\ ~closed
  BY JobLinked DEF Working, CallsTypeOK
<1>2. \A k \in Jobs : phase'[k] = IF k = j THEN "running" ELSE phase[k]
  BY DEF CallsTypeOK
<1>3. Orderly'
  BY <1>1 DEF Orderly, NoPanic
<1>4. Counts'
  <2>1. Pending' = Pending /\ Counted' = Counted
    BY <1>2 DEF Pending, Counted
  <2> QED BY <2>1 DEF Counts
<1> QED BY <1>1, <1>3, <1>4

LEMMA ReturnKeeps ==
  ASSUME CallsInv, NEW j \in Jobs, Return(j)
  PROVE  CallsInv'
<1> USE DEF CallsInv
<1>1. /\ phase[j] = "running" /\ pc[j] = "out"
      /\ phase' = [phase EXCEPT ![j] = "ran"]
      /\ UNCHANGED <<wg, running, closed, closer, mode, pc, arg>>
  BY DEF Return, Reach
<1>2. CallsTypeOK' /\ Linked' /\ ~Quiet /\ ~closed
  BY <1>1, PointFacts, JobLinked DEF Working, CallsTypeOK
<1>3. \A k \in Jobs : phase'[k] = IF k = j THEN "ran" ELSE phase[k]
  BY <1>1 DEF CallsTypeOK
<1>4. Orderly'
  BY <1>1, <1>2 DEF Orderly, NoPanic
<1>5. Counts'
  <2>1. Pending' = Pending /\ Counted' = Counted
    BY <1>1, <1>3 DEF Pending, Counted
  <2> QED BY <1>1, <2>1 DEF Counts
<1> QED BY <1>2, <1>4, <1>5

\* p.running.Add(-1)
LEMMA CountDownKeeps ==
  ASSUME CallsInv, NEW j \in Jobs, CountDown(j, "ran", "uncounted")
  PROVE  CallsInv'
<1> USE DEF CallsInv
<1>1. /\ phase[j] = "ran" /\ running' = running - 1
      /\ phase' = [phase EXCEPT ![j] = "uncounted"]
      /\ UNCHANGED <<wg, closed, closer, mode, pc, arg>>
  BY DEF CountDown, Reach
<1>2. pc[j] \notin InSubmit
  BY <1>1 DEF Linked
<1>3. CallsTypeOK' /\ Linked' /\ ~Quiet /\ ~closed
  <2>1. /\ phase[j] \in Working /\ wg' \in Int /\ running' \in Int
        /\ pc' \in [Threads -> Points] /\ \A t \in Threads : pc'[t] = pc[t]
        /\ UNCHANGED <<closed, closer, mode, arg>>
    BY <1>1 DEF CallsTypeOK, Working
  <2> QED BY <1>1, <1>2, <2>1, JobLinked
<1>4. \A k \in Jobs : phase'[k] = IF k = j THEN "uncounted" ELSE phase[k]
  BY <1>1 DEF CallsTypeOK
<1>5. Orderly'
  BY <1>1, <1>3 DEF Orderly, NoPanic
<1>6. Counts'
  <2>1. Pending' = Pending
    BY <1>1, <1>4 DEF Pending
  <2>2. \A t \in Threads : pc[t] = "count" => arg[t] # j
    BY <1>1 DEF Linked, Placing
  <2>3. Counted' = Counted \ {j} /\ j \in Counted
    BY <1>1, <1>4, <2>2 DEF Counted
  <2>4. Cardinality(Counted') = Cardinality(Counted) - 1
    BY <2>3, SetsFinite, FS_RemoveElement
  <2> QED BY <1>1, <2>1, <2>4 DEF Counts
<1> QED BY <1>3, <1>5, <1>6

\* p.wg.Done(): the wait group is above zero, and if it reaches zero all jobs are
\* done when those who wait are woken.
LEMMA DoneKeeps ==
  ASSUME CallsInv, NEW j \in Jobs, Done(j, "uncounted", "done")
  PROVE  CallsInv' /\ wg # 0
<1> USE DEF CallsInv
<1>1. /\ phase[j] = "uncounted" /\ wg' = wg - 1
      /\ phase' = [phase EXCEPT ![j] = "done"]
      /\ UNCHANGED <<running, closed, closer, mode, arg>>
  BY DEF Done, Reach
<1>2. pc[j] \notin InSubmit
  BY <1>1 DEF Linked
<1>3. \A k \in Jobs : phase'[k] = IF k = j THEN "done" ELSE phase[k]
  BY <1>1 DEF CallsTypeOK
<1>4. Pending' = Pending \ {j} /\ j \in Pending
  BY <1>1, <1>3 DEF Pending
<1>5. Cardinality(Pending') = Cardinality(Pending) - 1
  BY <1>4, SetsFinite, FS_RemoveElement
<1>6. wg \in Nat /\ wg # 0
  BY <1>4, SetsFinite, FS_EmptySet DEF Counts
<1>7. pc' = IF wg = 1 THEN [s \in Threads |-> IF pc[s] = "waiting" THEN "woken" ELSE pc[s]]
            ELSE pc
  BY <1>6 DEF Done
<1>8. /\ pc' \in [Threads -> Points]
      /\ \A t \in Threads : pc'[t] = pc[t] \/ (pc[t] = "waiting" /\ pc'[t] = "woken")
  <2>1. "woken" \in Points
    BY DEF Points, InWait
  <2> QED BY <1>7, <2>1 DEF CallsTypeOK
<1>9. CallsTypeOK' /\ Linked' /\ ~Quiet /\ ~closed
  <2>1. /\ phase[j] \in Working /\ wg' \in Int /\ running' \in Int
        /\ UNCHANGED <<closed, closer, mode, arg>>
    BY <1>1 DEF CallsTypeOK, Working
  <2> QED BY <1>1, <1>2, <1>8, <2>1, JobLinked
<1>10. Counts'
  <2>1. \A t \in Threads : pc'[t] = "count" <=> pc[t] = "count"
    BY <1>8
  <2>2. Counted' = Counted
    BY <1>1, <1>3, <2>1 DEF Counted
  <2> QED BY <1>1, <1>5, <2>2 DEF Counts
<1>11. \A t \in Threads : /\ pc'[t] \in InSubmit <=> pc[t] \in InSubmit
                          /\ pc'[t] \in InWait <=> pc[t] \in InWait
                          /\ pc'[t] # "panic"
  BY <1>8 DEF InSubmit, InWait, Orderly, NoPanic
<1>12. (\E c \in Clients : pc'[c] \in InWait) \/ closer' # None =>
         \A d \in Clients : pc'[d] \notin InSubmit
  BY <1>1, <1>11 DEF Orderly, Threads
<1>13. ASSUME NEW c \in Clients, pc'[c] \in {"woken", "waited"}
       PROVE  Quiet'
  <2>1. pc[c] \notin {"woken", "waited"}
    BY <1>9 DEF Orderly
  <2>2. wg = 1 /\ pc[c] = "waiting"
    BY <1>7, <1>8, <1>13, <2>1 DEF Threads
  <2>3. Pending' = {}
    BY <1>4, <1>5, <2>2, SetsFinite, FS_EmptySet, FS_RemoveElement DEF Counts
  <2>4. \A d \in Clients : pc[d] \notin InSubmit
    BY <2>2 DEF Orderly, InWait
  <2>5. ASSUME NEW k \in Jobs, phase'[k] = "called" PROVE FALSE
    <3>1. PICK s \in Threads : pc[s] \in Owning
      BY <1>3, <2>5 DEF Linked
    <3>2. pc[s] \in InSubmit
      BY <3>1, PointFacts
    <3>3. s \in Jobs /\ phase[s] = "running"
      BY <2>4, <3>2, Submitter
    <3>4. s \in Pending'
      BY <1>1, <1>3, <3>3 DEF Pending
    <3> QED BY <2>3, <3>4
  <2>6. \A k \in Jobs : phase'[k] \in {"new", "called", "done"}
    BY <2>3 DEF Pending
  <2> QED BY <2>5, <2>6 DEF Quiet
<1>14. Orderly'
  BY <1>1, <1>9, <1>11, <1>12, <1>13 DEF Orderly, NoPanic
<1> QED BY <1>6, <1>9, <1>10, <1>14

-----------------------------------------------------------------------------
(***************************************************************************)
(* The steps of Wait and Close.                                            *)
(***************************************************************************)

\* A client moves from one point outside Submit to another.
LEMMA WaiterKeeps ==
  ASSUME CallsInv, NEW c \in Clients, NEW point \in {"out", "waiting", "waited"},
         pc[c] \in {"out"} \cup InWait, pc' = [pc EXCEPT ![c] = point],
         point = "waited" => Quiet,
         (point # "out" /\ pc[c] = "out") \/ closer' # closer =>
           \A d \in Clients : pc[d] \notin InSubmit,
         closer' \in Clients \cup {None}, closer # None => closer' = closer,
         closed' \in BOOLEAN, closed' => closed \/ (Quiet /\ closer' # None),
         UNCHANGED <<wg, running, phase, mode, arg>>
  PROVE  CallsInv'
<1> USE PointFacts DEF CallsInv
<1>1. /\ c \in Threads
      /\ \A t \in Threads : pc'[t] = IF t = c THEN point ELSE pc[t]
  BY DEF CallsTypeOK, Threads
<1>2. /\ point \in Points /\ point \notin InSubmit /\ pc[c] \notin InSubmit
      /\ point # "panic" /\ point # "count" /\ pc[c] # "count"
      /\ point \notin Calling /\ point \notin Placing
      /\ pc[c] \notin Calling /\ pc[c] \notin Placing
  BY DEF InWait, InSubmit, Calling, Placing, Points
<1>3. CallsTypeOK'
  BY <1>1, <1>2 DEF CallsTypeOK
<1>4. Linked'
  <2>1. /\ \A t \in Threads : pc'[t] \in Calling => phase'[arg'[t]] = "called"
        /\ \A t \in Threads : pc'[t] \in Placing => phase'[arg'[t]] = "added"
        /\ \A k \in Jobs : pc'[k] \in InSubmit => phase'[k] = "running"
    BY <1>1, <1>2 DEF Linked, Threads
  <2>2. \A t, u \in Threads :
          t # u /\ pc'[t] \in Owning /\ pc'[u] \in Owning => arg'[t] # arg'[u]
    BY <1>1, <1>2 DEF Linked, Owning
  <2>3. \A k \in Jobs : phase'[k] \in {"called", "added"} =>
          \E t \in Threads : pc'[t] \in Owning /\ arg'[t] = k
    BY <1>1, <1>2 DEF Linked, Owning
  <2> QED BY <2>1, <2>2, <2>3 DEF Linked
<1>5. Quiet' <=> Quiet
  BY DEF Quiet
<1>6. Orderly'
  <2>1. (\E d \in Clients : pc'[d] \in InWait) \/ closer' # None =>
          \A d \in Clients : pc'[d] \notin InSubmit
    BY <1>1, <1>2 DEF Orderly, Threads
  <2>2. \A d \in Clients : pc'[d] \in {"woken", "waited"} => Quiet
    BY <1>1 DEF Orderly, Threads
  <2>3. closed' => Quiet /\ closer' # None
    BY DEF Orderly
  <2>4. NoPanic'
    BY <1>1, <1>2 DEF Orderly, NoPanic
  <2> QED BY <1>5, <2>1, <2>2, <2>3, <2>4 DEF Orderly
<1>7. Counts'
  BY <1>1, <1>2 DEF Counts, Pending, Counted
<1> QED BY <1>3, <1>4, <1>6, <1>7

LEMMA WaitKeeps ==
  ASSUME CallsInv, NEW c \in Clients, Wait(c)
  PROVE  CallsInv'
<1> DEFINE point == IF wg = 0 THEN "waited" ELSE "waiting"
<1>1. /\ pc[c] = "out" /\ closer = None /\ closer' \in {None, c}
      /\ \A d \in Clients : pc[d] \notin InSubmit
      /\ pc' = [pc EXCEPT ![c] = point]
      /\ UNCHANGED <<wg, running, closed, phase, mode, arg>>
  BY DEF Wait, Goto
<1>2. point \in {"out", "waiting", "waited"} /\ (point = "waited" => Quiet)
  BY <1>1, ZeroIsQuiet
<1>3. closed' \in BOOLEAN
  BY <1>1 DEF CallsInv, CallsTypeOK
<1> HIDE DEF point
<1> QED BY <1>1, <1>2, <1>3, WaiterKeeps

LEMMA WaitingKeeps ==
  ASSUME CallsInv, NEW c \in Clients, Waiting(c)
  PROVE  CallsInv'
<1> USE DEF InWait
<1>1. pc[c] \in {"woken", "waited"} /\ Quiet /\ wg = 0
  <2>1. pc[c] \in {"woken", "waited"}
    BY DEF Waiting, Wake, WaitReturn, CloseQueue
  <2>2. Quiet
    BY <2>1 DEF CallsInv, Orderly
  <2> QED BY <2>1, <2>2, QuietCounts
<1>2. closed \in BOOLEAN /\ closer \in Clients \cup {None}
  BY DEF CallsInv, CallsTypeOK
<1>3. CASE Wake(c)
  <2>1. /\ pc' = [pc EXCEPT ![c] = "waited"]
        /\ UNCHANGED <<wg, running, closed, closer, phase, mode, arg>>
    BY <1>1, <1>3 DEF Wake, Goto
  <2>2. closed' \in BOOLEAN
    BY <1>2, <2>1
  <2> QED BY <1>1, <1>2, <2>1, <2>2, WaiterKeeps
<1>4. CASE WaitReturn(c)
  <2>1. /\ pc' = [pc EXCEPT ![c] = "out"]
        /\ UNCHANGED <<wg, running, closed, closer, phase, mode, arg>>
    BY <1>4 DEF WaitReturn, Goto
  <2>2. closed' \in BOOLEAN
    BY <1>2, <2>1
  <2> QED BY <1>1, <1>2, <2>1, <2>2, WaiterKeeps
<1>5. CASE CloseQueue(c)
  <2>1. /\ pc' = [pc EXCEPT ![c] = "out"] /\ closer = c /\ closed' = TRUE
        /\ UNCHANGED <<wg, running, closer, phase, mode, arg>>
    BY <1>5 DEF CloseQueue, Goto
  <2>2. closed' \in BOOLEAN /\ closer' # None
    BY <2>1, ThreadsAssumption DEF Threads
  <2> QED BY <1>1, <1>2, <2>1, <2>2, WaiterKeeps
<1> QED BY <1>3, <1>4, <1>5 DEF Waiting

LEMMA StutterKeeps ==
  ASSUME CallsInv, UNCHANGED callVars
  PROVE  CallsInv'
BY DEF callVars, CallsInv, CallsTypeOK, Linked, Orderly, NoPanic, Quiet, Counts, Pending,
       Counted

-----------------------------------------------------------------------------
(***************************************************************************)
(* Each step is one of the abstract pool or leaves it as it is: wg.Add is  *)
(* its Submit, the start of a job its Start, wg.Done its Finish, and the   *)
(* return of Wait or Close its Return.                                     *)
(***************************************************************************)
JobStatus == [j \in Jobs |-> Status(j)]
Waiters   == {c \in Clients : pc[c] \in InWait}
NextJP    == [JP!Next]_JP!vars

LEMMA StatusIs ==
  ASSUME NEW j \in Jobs
  PROVE  /\ phase[j] \in {"new", "called"} => Status(j) = "new"
         /\ phase[j] \in {"added", "queued", "ready"} => Status(j) = "pending"
         /\ phase[j] \in {"running", "ran", "uncounted"} => Status(j) = "running"
         /\ phase[j] = "done" => Status(j) = "done"
BY DEF Status

\* What the abstract pool has of a job that moves to another phase.
LEMMA StatusMoves ==
  ASSUME CallsInv, NEW j \in Jobs, NEW p \in JobPhases, phase' = [phase EXCEPT ![j] = p]
  PROVE  /\ \A k \in Jobs : k # j => Status(k)' = Status(k)
         /\ p \in {"new", "called"} => Status(j)' = "new"
         /\ p \in {"added", "queued", "ready"} => Status(j)' = "pending"
         /\ p \in {"running", "ran", "uncounted"} => Status(j)' = "running"
         /\ p = "done" => Status(j)' = "done"
<1>1. \A k \in Jobs : phase'[k] = IF k = j THEN p ELSE phase[k]
  BY DEF CallsInv, CallsTypeOK
<1> QED BY <1>1 DEF Status

\* A step in which no job changes its status and no client begins or ends a Wait.
LEMMA StutterJP ==
  ASSUME \A j \in Jobs : Status(j)' = Status(j),
         \A c \in Clients : pc'[c] \in InWait <=> pc[c] \in InWait,
         closed' = closed
  PROVE  NextJP
BY DEF NextJP, JP!vars

\* A step in which a job advances and no client begins or ends a Wait.
LEMMA AdvanceJP ==
  ASSUME NEW j \in Jobs, \A k \in Jobs : k # j => Status(k)' = Status(k),
         \A c \in Clients : pc'[c] \in InWait <=> pc[c] \in InWait,
         closed' = closed,
         \/ /\ Status(j) = "new" /\ Status(j)' = "pending" /\ ~closed
            /\ Waiters # {} => \E k \in Jobs : Status(k) = "running"
         \/ Status(j) = "pending" /\ Status(j)' = "running"
         \/ Status(j) = "running" /\ Status(j)' = "done"
  PROVE  NextJP
<1>1. JobStatus' = [JobStatus EXCEPT ![j] = Status(j)']
  BY DEF JobStatus
<1>2. Waiters' = Waiters
  BY DEF Waiters
<1>3. JP!Submit(j) \/ JP!Start(j) \/ JP!Finish(j)
  BY <1>1, <1>2 DEF JP!Submit, JP!Start, JP!Finish, JP!Advance, JobStatus, Waiters
<1> QED BY <1>3 DEF NextJP, JP!Next

LEMMA InitJP == CallsInit => JP!Init
<1> SUFFICES ASSUME CallsInit PROVE JP!Init
  OBVIOUS
<1>1. \A j \in Jobs : Status(j) = "new"
  BY StatusIs DEF CallsInit
<1>2. {c \in Clients : pc[c] \in InWait} = {}
  BY DEF CallsInit, InWait, Threads
<1>3. ~closed
  BY DEF CallsInit
<1> QED BY <1>1, <1>2, <1>3 DEF JP!Init

LEMMA CallJP ==
  ASSUME CallsInv, NEW s \in Threads, NEW j \in Jobs, NEW m \in Modes,
         NEW point \in Calling, Call(s, j, m, point)
  PROVE  NextJP
<1>1. /\ pc[s] = "out" /\ phase[j] = "new"
      /\ phase' = [phase EXCEPT ![j] = "called"] /\ pc' = [pc EXCEPT ![s] = point]
      /\ closed' = closed
  BY DEF Call, Reach, Goto
<1>2. Status(j) = "new" /\ Status(j)' = "new"
  BY <1>1, StatusMoves, StatusIs DEF JobPhases
<1>3. \A k \in Jobs : Status(k)' = Status(k)
  BY <1>1, <1>2, StatusMoves DEF JobPhases
<1>4. \A c \in Clients : pc'[c] \in InWait <=> pc[c] \in InWait
  BY <1>1 DEF CallsInv, CallsTypeOK, Calling, InWait
<1> QED BY <1>1, <1>3, <1>4, StutterJP

LEMMA AddJP ==
  ASSUME CallsInv, NEW s \in Threads, Add(s)
  PROVE  NextJP
<1>1. /\ pc[s] = "add" /\ phase' = [phase EXCEPT ![arg[s]] = "added"]
      /\ pc' = [pc EXCEPT ![s] = "count"] /\ closed' = closed
  BY DEF Add, Reach, Goto
<1>2. pc[s] \in Calling /\ pc[s] \in Owning /\ pc[s] \in InSubmit
  BY <1>1 DEF Calling, Owning, InSubmit
<1>3. PICK j \in Jobs : j = arg[s] /\ phase[j] = "called" /\ ~closed
  BY <1>2, SubmitOpen DEF CallsInv, Linked
<1>4. /\ Status(j) = "new" /\ Status(j)' = "pending"
      /\ \A k \in Jobs : k # j => Status(k)' = Status(k)
  <2>1. Status(j) = "new"
    BY <1>3, StatusIs
  <2>2. "added" \in JobPhases
    BY DEF JobPhases
  <2> QED BY <1>1, <1>3, <2>1, <2>2, StatusMoves
<1>5. \A c \in Clients : pc'[c] \in InWait <=> pc[c] \in InWait
  BY <1>1 DEF CallsInv, CallsTypeOK, InWait
<1>6. Waiters # {} => \E k \in Jobs : Status(k) = "running"
  <2> SUFFICES ASSUME Waiters # {} PROVE \E k \in Jobs : Status(k) = "running"
    OBVIOUS
  <2>1. s \in Jobs /\ phase[s] = "running"
    BY <1>2, Submitter DEF Waiters, CallsInv, Orderly
  <2> QED BY <2>1, StatusIs
<1> QED BY <1>1, <1>3, <1>4, <1>5, <1>6, AdvanceJP

\* A move from one point to another outside Wait, the job staying pending.
LEMMA MoveJP ==
  ASSUME CallsInv, NEW s \in Threads, pc[s] \notin InWait,
         NEW point, point \notin InWait, pc' = [pc EXCEPT ![s] = point],
         \/ phase' = phase
         \/ /\ pc[s] \in Placing
            /\ \E p \in {"queued", "ready"} : phase' = [phase EXCEPT ![arg[s]] = p],
         closed' = closed
  PROVE  NextJP
<1>1. \A c \in Clients : pc'[c] \in InWait <=> pc[c] \in InWait
  BY DEF CallsInv, CallsTypeOK
<1>2. CASE phase' = phase
  <2>1. \A k \in Jobs : Status(k)' = Status(k)
    BY <1>2 DEF Status
  <2> QED BY <1>1, <2>1, StutterJP
<1>3. ASSUME pc[s] \in Placing, NEW p \in {"queued", "ready"},
             phase' = [phase EXCEPT ![arg[s]] = p]
      PROVE  NextJP
  <2>1. arg[s] \in Jobs /\ phase[arg[s]] = "added" /\ p \in JobPhases
    BY <1>3, SubmitOpen DEF CallsInv, Linked, Owning, JobPhases
  <2> DEFINE j == arg[s]
  <2> HIDE DEF j
  <2>2. Status(j) = "pending"
    BY <2>1, StatusIs DEF j
  <2>3. \A k \in Jobs : Status(k)' = Status(k)
    <3>1. j \in Jobs /\ phase' = [phase EXCEPT ![j] = p]
      BY <1>3, <2>1 DEF j
    <3> QED BY <2>1, <2>2, <3>1, StatusMoves
  <2> QED BY <1>1, <2>3, StutterJP
<1> QED BY <1>2, <1>3

LEMMA StartJP ==
  ASSUME CallsInv, NEW j \in Jobs, phase[j] \in {"queued", "ready"},
         phase' = [phase EXCEPT ![j] = "running"], UNCHANGED <<closed, pc>>
  PROVE  NextJP
<1>1. /\ Status(j) = "pending" /\ Status(j)' = "running"
      /\ \A k \in Jobs : k # j => Status(k)' = Status(k)
  BY StatusMoves, StatusIs DEF JobPhases
<1> QED BY <1>1, AdvanceJP

LEMMA RanJP ==
  ASSUME CallsInv, NEW j \in Jobs, Return(j) \/ CountDown(j, "ran", "uncounted")
  PROVE  NextJP
<1>1. /\ phase[j] \in {"running", "ran"}
      /\ \E p \in {"ran", "uncounted"} : phase' = [phase EXCEPT ![j] = p]
      /\ UNCHANGED <<closed, pc>>
  BY DEF Return, CountDown, Reach
<1>2. \A k \in Jobs : Status(k)' = Status(k)
  BY <1>1, StatusMoves, StatusIs DEF JobPhases
<1> QED BY <1>1, <1>2, StutterJP

LEMMA DoneJP ==
  ASSUME CallsInv, NEW j \in Jobs, Done(j, "uncounted", "done")
  PROVE  NextJP
<1>1. /\ phase[j] = "uncounted" /\ phase' = [phase EXCEPT ![j] = "done"]
      /\ closed' = closed
  BY DEF Done, Reach
<1>2. wg # 0
  BY DoneKeeps
<1>3. pc' = IF wg = 1 THEN [s \in Threads |-> IF pc[s] = "waiting" THEN "woken" ELSE pc[s]]
            ELSE pc
  BY <1>2 DEF Done
<1>4. \A c \in Clients : pc'[c] \in InWait <=> pc[c] \in InWait
  BY <1>3 DEF InWait, Threads
<1>5. /\ Status(j) = "running" /\ Status(j)' = "done"
      /\ \A k \in Jobs : k # j => Status(k)' = Status(k)
  BY <1>1, StatusMoves, StatusIs DEF JobPhases
<1> QED BY <1>1, <1>4, <1>5, AdvanceJP

LEMMA WaitJP ==
  ASSUME CallsInv, NEW c \in Clients, Wait(c)
  PROVE  NextJP
<1>1. /\ closer = None /\ UNCHANGED <<closed, phase>>
      /\ \E p \in {"waited", "waiting"} : pc' = [pc EXCEPT ![c] = p]
  BY DEF Wait, Goto
<1>2. ~closed
  BY <1>1 DEF CallsInv, Orderly
<1>3. Waiters' = Waiters \cup {c}
  BY <1>1 DEF Waiters, InWait, CallsInv, CallsTypeOK, Threads
<1>4. JobStatus' = JobStatus
  BY <1>1 DEF JobStatus, Status
<1>5. JP!Wait(c)
  BY <1>1, <1>2, <1>3, <1>4 DEF JP!Wait, JobStatus, Waiters
<1> QED BY <1>5 DEF NextJP, JP!Next

LEMMA WaitingJP ==
  ASSUME CallsInv, NEW c \in Clients, Waiting(c)
  PROVE  NextJP
<1>1. pc[c] \in {"woken", "waited"} /\ phase' = phase
  BY DEF Waiting, Wake, WaitReturn, CloseQueue
<1>2. Quiet
  BY <1>1 DEF CallsInv, Orderly
<1>3. CASE Wake(c)
  <2>1. wg = 0
    BY <1>2, QuietCounts
  <2>2. pc' = [pc EXCEPT ![c] = "waited"] /\ closed' = closed
    BY <1>3, <2>1 DEF Wake, Goto
  <2>3. \A d \in Clients : pc'[d] \in InWait <=> pc[d] \in InWait
    BY <1>1, <2>2 DEF InWait, CallsInv, CallsTypeOK, Threads
  <2>4. \A j \in Jobs : Status(j)' = Status(j)
    BY <1>1 DEF Status
  <2> QED BY <2>2, <2>3, <2>4, StutterJP
<1>4. CASE WaitReturn(c) \/ CloseQueue(c)
  <2>1. pc[c] = "waited" /\ pc' = [pc EXCEPT ![c] = "out"] /\ closed' \in {closed, TRUE}
    BY <1>4 DEF WaitReturn, CloseQueue, Goto
  <2>2. Waiters' = Waiters \ {c} /\ c \in Waiters
    BY <2>1 DEF Waiters, InWait, CallsInv, CallsTypeOK, Threads
  <2>3. JobStatus' = JobStatus
    BY <1>1 DEF JobStatus, Status
  <2>4. \A j \in Jobs : JobStatus[j] \in {"new", "done"}
    BY <1>2 DEF Quiet, JobStatus, Status
  <2>5. (~closed') \in {~closed, FALSE}
    <3>1. CASE closed' = closed
      BY <3>1
    <3>2. CASE closed' = TRUE
      BY <3>2
    <3> QED BY <2>1, <3>1, <3>2
  <2>6. JP!Return(c)
    BY <2>2, <2>3, <2>4, <2>5 DEF JP!Return, JP!AllDone, JobStatus, Waiters
  <2> QED BY <2>6 DEF NextJP, JP!Next
<1> QED BY <1>3, <1>4 DEF Waiting

=============================================================================
