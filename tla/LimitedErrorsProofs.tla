------------------------ MODULE LimitedErrorsProofs ------------------------
(***************************************************************************)
(* Package goroutines/limited, and jobs of it that record their errors:    *)
(* proofs for any number of clients, jobs and slots.                       *)
(***************************************************************************)
EXTENDS LimitedErrors, PoolCallsProofs, SequenceTheorems

\* The threads that hold a slot.
Holding(s) == \/ pc[s] = "release"
              \/ pc[s] \in {"add", "count", "go"} /\ mode[arg[s]] = "blocking"
Holders    == {s \in Threads : Holding(s)}

\* The inductive invariant of the pool: that of the calls, and the slots taken are
\* those of the threads that hold one.
PoolInv ==
  /\ CallsInv
  /\ slots \in 0 .. Size
  /\ slots = Cardinality(Holders)
  /\ \A s \in Threads : pc[s] = "acquire" => mode[arg[s]] = "blocking"

LEMMA HoldersFinite == IsFiniteSet(Holders) /\ Cardinality(Holders) \in Nat
<1>1. IsFiniteSet(Threads)
  BY ThreadsAssumption, FS_Union DEF Threads
<1>2. Holders \in SUBSET Threads
  BY DEF Holders
<1> QED BY <1>1, <1>2, FS_Subset, FS_CardinalityType

LEMMA PoolInvInit == Init => PoolInv
<1> SUFFICES ASSUME Init PROVE PoolInv
  OBVIOUS
<1>1. CallsInv
  BY CallsInvInit DEF Init
<1>2. Holders = {} /\ \A s \in Threads : pc[s] # "acquire"
  BY DEF Holders, Holding, Init, CallsInit
<1> QED BY <1>1, <1>2, FS_EmptySet, SizeAssumption DEF PoolInv, Init

\* A step after which the same threads hold a slot, and none has come to acquire.
LEMMA SameHolders ==
  ASSUME PoolInv, CallsInv', slots' = slots,
         \A s \in Threads : Holding(s)' <=> Holding(s),
         \A s \in Threads : pc'[s] = "acquire" => mode'[arg'[s]] = "blocking"
  PROVE  PoolInv'
<1>1. Holders' = Holders
  BY DEF Holders
<1> QED BY <1>1 DEF PoolInv

LEMMA SubmitCallKeeps ==
  ASSUME PoolInv, NEW s \in Threads, SubmitCall(s)
  PROVE  PoolInv'
<1>1. PICK j \in Jobs, m \in Modes :
        Call(s, j, m, IF m = "blocking" THEN "acquire" ELSE "add")
  BY DEF SubmitCall
<1> DEFINE point == IF m = "blocking" THEN "acquire" ELSE "add"
<1>2. point \in Calling
  BY DEF Calling
<1>3. CallsInv'
  <2> HIDE DEF point
  <2> QED BY <1>1, <1>2, CallKeeps DEF PoolInv, point
<1>4. /\ pc[s] = "out" /\ phase[j] = "new" /\ slots' = slots
      /\ pc' = [pc EXCEPT ![s] = point] /\ arg' = [arg EXCEPT ![s] = j]
      /\ mode' = [mode EXCEPT ![j] = m]
  BY <1>1 DEF Call, Goto, SubmitCall
<1>5. \A t \in Threads : pc[t] \in Owning => arg[t] \in Jobs /\ arg[t] # j
  BY <1>4, SubmitOpen DEF PoolInv
<1>6. \A t \in Threads : pc[t] \in {"acquire", "add", "count", "go"} => pc[t] \in Owning
  BY DEF Owning, Calling, Placing
<1>7. mode' \in [Jobs -> Modes] /\ mode'[j] = m
      /\ \A k \in Jobs : k # j => mode'[k] = mode[k]
  BY <1>4 DEF PoolInv, CallsInv, CallsTypeOK
<1>8. \A t \in Threads : pc'[t] = IF t = s THEN point ELSE pc[t]
  BY <1>4 DEF PoolInv, CallsInv, CallsTypeOK
<1>9. \A t \in Threads : arg'[t] = IF t = s THEN j ELSE arg[t]
  BY <1>4 DEF PoolInv, CallsInv, CallsTypeOK
<1>10. ASSUME NEW t \in Threads PROVE Holding(t)' <=> Holding(t)
  <2>1. CASE t = s
    BY <1>4, <1>7, <1>8, <1>9, <2>1 DEF Holding
  <2>2. CASE t # s
    BY <1>5, <1>6, <1>7, <1>8, <1>9, <2>2 DEF Holding
  <2> QED BY <2>1, <2>2
<1>11. \A t \in Threads : pc'[t] = "acquire" => mode'[arg'[t]] = "blocking"
  BY <1>5, <1>6, <1>7, <1>8, <1>9 DEF PoolInv
<1> QED BY <1>3, <1>4, <1>10, <1>11, SameHolders

\* p.queue <- struct{}{}, for a blocking Submit: one more thread holds a slot.
LEMMA AcquireKeeps ==
  ASSUME PoolInv, NEW s \in Threads, Acquire(s)
  PROVE  PoolInv'
<1>1. pc[s] = "acquire" /\ pc[s] \in Owning
  BY DEF Acquire, Owning, Calling
<1>2. /\ ~closed /\ slots < Size /\ slots' = slots + 1
      /\ pc' = [pc EXCEPT ![s] = "add"]
      /\ UNCHANGED <<wg, running, closed, closer, phase, mode, arg>>
  BY <1>1, SubmitOpen DEF Acquire, Goto, PoolInv
<1>3. CallsInv'
  BY <1>1, <1>2, MoveKeeps DEF PoolInv
<1>4. \A t \in Threads : pc'[t] = IF t = s THEN "add" ELSE pc[t]
  BY <1>2 DEF PoolInv, CallsInv, CallsTypeOK
<1>5. Holders' = Holders \cup {s} /\ s \notin Holders
  BY <1>1, <1>2, <1>4 DEF Holders, Holding, PoolInv
<1>6. Cardinality(Holders') = Cardinality(Holders) + 1
  BY <1>5, HoldersFinite, FS_AddElement
<1>7. slots' \in 0 .. Size
  BY <1>2, SizeAssumption DEF PoolInv
<1> QED BY <1>2, <1>3, <1>4, <1>6, <1>7 DEF PoolInv

\* The deferred <-p.queue: the slot is given back once, whatever the job does.
LEMMA ReleaseKeeps ==
  ASSUME PoolInv, NEW s \in Threads, Release(s)
  PROVE  PoolInv'
<1>1. /\ pc[s] = "release" /\ slots' = slots - 1 /\ pc' = [pc EXCEPT ![s] = "out"]
      /\ UNCHANGED <<wg, running, closed, closer, phase, mode, arg>>
  BY DEF Release, Goto
<1>2. CallsInv'
  BY <1>1, MoveKeeps DEF PoolInv
<1>3. \A t \in Threads : pc'[t] = IF t = s THEN "out" ELSE pc[t]
  BY <1>1 DEF PoolInv, CallsInv, CallsTypeOK
<1>4. Holders' = Holders \ {s} /\ s \in Holders
  BY <1>1, <1>3 DEF Holders, Holding
<1>5. Cardinality(Holders') = Cardinality(Holders) - 1 /\ Cardinality(Holders') \in Nat
  BY <1>4, HoldersFinite, FS_RemoveElement, FS_CardinalityType
<1>6. slots' \in 0 .. Size
  BY <1>1, <1>5, SizeAssumption DEF PoolInv
<1> QED BY <1>1, <1>2, <1>3, <1>5, <1>6 DEF PoolInv

\* The go statement, after which a blocking Submit still holds its slot.
LEMMA GoKeeps ==
  ASSUME PoolInv, NEW s \in Threads, Go(s)
  PROVE  PoolInv'
<1> DEFINE point == IF mode[arg[s]] = "blocking" THEN "release" ELSE "out"
<1>1. /\ pc[s] = "go" /\ phase' = [phase EXCEPT ![arg[s]] = "ready"]
      /\ pc' = [pc EXCEPT ![s] = point]
      /\ UNCHANGED <<wg, running, closed, closer, mode, arg, slots>>
  BY DEF Go, Goto, Reach
<1>2. point \in {"release", "out"}
  OBVIOUS
<1>3. CallsInv'
  <2> HIDE DEF point
  <2> QED BY <1>1, <1>2, HandOverKeeps DEF PoolInv
<1>4. \A t \in Threads : pc'[t] = IF t = s THEN point ELSE pc[t]
  BY <1>1 DEF PoolInv, CallsInv, CallsTypeOK
<1>5. \A t \in Threads : Holding(t)' <=> Holding(t)
  BY <1>1, <1>4 DEF Holding
<1>6. \A t \in Threads : pc'[t] = "acquire" => mode'[arg'[t]] = "blocking"
  BY <1>1, <1>4 DEF PoolInv
<1> QED BY <1>1, <1>3, <1>5, <1>6, SameHolders

LEMMA SubmitKeeps ==
  ASSUME PoolInv, NEW s \in Threads, Submit(s)
  PROVE  PoolInv'
<1>1. CASE Add(s) /\ UNCHANGED slots
  <2>1. CallsInv'
    BY <1>1, AddKeeps DEF PoolInv
  <2>2. pc[s] = "add" /\ pc' = [pc EXCEPT ![s] = "count"] /\ UNCHANGED <<mode, arg>>
    BY <1>1 DEF Add, Goto
  <2>3. \A t \in Threads : pc'[t] = IF t = s THEN "count" ELSE pc[t]
    BY <2>2 DEF PoolInv, CallsInv, CallsTypeOK
  <2>4. \A t \in Threads : Holding(t)' <=> Holding(t)
    BY <2>2, <2>3 DEF Holding
  <2>5. \A t \in Threads : pc'[t] = "acquire" => mode'[arg'[t]] = "blocking"
    BY <2>2, <2>3 DEF PoolInv
  <2> QED BY <1>1, <2>1, <2>4, <2>5, SameHolders
<1>2. CASE CountUp(s, "go") /\ UNCHANGED slots
  <2>1. CallsInv'
    BY <1>2, CountUpKeeps DEF PoolInv
  <2>2. pc[s] = "count" /\ pc' = [pc EXCEPT ![s] = "go"] /\ UNCHANGED <<mode, arg>>
    BY <1>2 DEF CountUp, Goto
  <2>3. \A t \in Threads : pc'[t] = IF t = s THEN "go" ELSE pc[t]
    BY <2>2 DEF PoolInv, CallsInv, CallsTypeOK
  <2>4. \A t \in Threads : Holding(t)' <=> Holding(t)
    BY <2>2, <2>3 DEF Holding
  <2>5. \A t \in Threads : pc'[t] = "acquire" => mode'[arg'[t]] = "blocking"
    BY <2>2, <2>3 DEF PoolInv
  <2> QED BY <1>2, <2>1, <2>4, <2>5, SameHolders
<1> QED BY <1>1, <1>2, AcquireKeeps, GoKeeps, ReleaseKeeps DEF Submit

\* A job and a waiter leave the slots to those who hold them.
LEMMA OthersKeep ==
  ASSUME PoolInv,
         (\E j \in Jobs : Run(j)) \/ \E c \in Clients : (Wait(c) \/ Waiting(c)) /\ UNCHANGED slots
  PROVE  PoolInv'
<1>1. ASSUME CallsInv', slots' = slots, UNCHANGED <<mode, arg>>,
             \A t \in Threads : pc'[t] = pc[t] \/ (pc[t] \notin InSubmit /\ pc'[t] \notin InSubmit)
      PROVE  PoolInv'
  <2>1. \A t \in Threads : Holding(t)' <=> Holding(t)
    BY <1>1 DEF Holding, InSubmit
  <2>2. \A t \in Threads : pc'[t] = "acquire" => mode'[arg'[t]] = "blocking"
    BY <1>1 DEF PoolInv, InSubmit
  <2> QED BY <1>1, <2>1, <2>2, SameHolders
<1>2. ASSUME NEW j \in Jobs, Run(j) PROVE PoolInv'
  <2> USE <1>2 DEF PoolInv
  <2>1. CASE Start(j)
    BY <2>1, StartKeeps, <1>1 DEF Start, Reach, Run
  <2>2. CASE Return(j)
    BY <2>2, ReturnKeeps, <1>1 DEF Return, Run
  <2>3. CASE CountDown(j, "ran", "uncounted")
    BY <2>3, CountDownKeeps, <1>1 DEF CountDown, Run
  <2>4. CASE Done(j, "uncounted", "done")
    <3>1. CallsInv' /\ wg # 0
      BY <2>4, DoneKeeps
    <3>2. /\ UNCHANGED <<mode, arg>>
          /\ pc' = IF wg = 1 THEN [s \in Threads |-> IF pc[s] = "waiting" THEN "woken" ELSE pc[s]]
                   ELSE pc
      BY <2>4, <3>1 DEF Done
    <3>3. \A t \in Threads : pc'[t] = pc[t] \/ (pc[t] \notin InSubmit /\ pc'[t] \notin InSubmit)
      BY <3>2 DEF InSubmit
    <3> QED BY <1>1, <3>1, <3>2, <3>3 DEF Run
  <2> QED BY <2>1, <2>2, <2>3, <2>4 DEF Run, Finish
<1>3. ASSUME NEW c \in Clients, Wait(c) \/ Waiting(c), UNCHANGED slots PROVE PoolInv'
  <2>1. CallsInv'
    BY <1>3, WaitKeeps, WaitingKeeps DEF PoolInv
  <2>2. /\ UNCHANGED <<mode, arg>> /\ pc[c] \in {"out"} \cup InWait
        /\ \E p \in {"out", "panic"} \cup InWait : pc' = [pc EXCEPT ![c] = p]
    BY <1>3 DEF Wait, Waiting, Wake, WaitReturn, CloseQueue, Goto, InWait
  <2>3. \A t \in Threads : pc'[t] = pc[t] \/ (pc[t] \notin InSubmit /\ pc'[t] \notin InSubmit)
    BY <2>2 DEF InSubmit, InWait, PoolInv, CallsInv, CallsTypeOK
  <2> QED BY <1>1, <1>3, <2>1, <2>2, <2>3
<1> QED BY <1>2, <1>3

LEMMA PoolInvNext ==
  ASSUME PoolInv, [Next]_vars
  PROVE  PoolInv'
<1>1. CASE UNCHANGED vars
  <2>1. CallsInv'
    BY <1>1, StutterKeeps DEF vars, PoolInv
  <2> QED BY <1>1, <2>1, SameHolders DEF vars, callVars, Holding, PoolInv
<1>2. CASE Next
  BY <1>2, SubmitCallKeeps, SubmitKeeps, OthersKeep DEF Next
<1> QED BY <1>1, <1>2

\* The invariant gives what the runs check of the pool.
LEMMA PoolProperties ==
  ASSUME PoolInv
  PROVE  TypeOK /\ WaitMeansDone /\ RunningAccounted /\ NoPanic
<1>1. TypeOK
  BY DEF PoolInv, CallsInv, TypeOK, SlotsBalanced, Holders, Holding
<1> QED BY <1>1, CallsProperties DEF PoolInv

\* limited.Pool, whatever its clients and jobs do that the interface allows: the
\* slots of p.queue are those of the blocking Submits under way, so that none
\* leaks, Wait returns when all is done, Running counts the jobs that a goroutine
\* has or a Submit is about to start, and the wait group never panics.
THEOREM PoolSafe == Spec => [](TypeOK /\ WaitMeansDone /\ RunningAccounted /\ NoPanic)
<1>1. Init => PoolInv
  BY PoolInvInit
<1>2. PoolInv /\ [Next]_vars => PoolInv'
  BY PoolInvNext
<1>3. PoolInv => TypeOK /\ WaitMeansDone /\ RunningAccounted /\ NoPanic
  BY PoolProperties
<1> QED BY <1>1, <1>2, <1>3, PTL DEF Spec

-----------------------------------------------------------------------------
(***************************************************************************)
(* Jobs that record errors.  A job is in Record only while it runs; the    *)
(* mutex admits one recorder, which therefore appends to the slice as it   *)
(* is; and the slice has each error that was recorded, once.               *)
(***************************************************************************)
Locked == {"read", "append", "unlock"}

ErrorsTypeOK ==
  /\ errors \in Seq(Jobs) /\ mu \in SUBSET Jobs
  /\ at \in [Jobs -> {"idle", "lock", "read", "append", "unlock", "recorded"}]
  /\ seen \in [Jobs -> Seq(Jobs)]

Distinct == \A i, k \in 1 .. Len(errors) : errors[i] = errors[k] => i = k
Stored(j) == \E i \in 1 .. Len(errors) : errors[i] = j

ErrorsInv ==
  /\ ErrorsTypeOK
  /\ \A j \in Jobs : InRecord(j) => phase[j] = "running"
  /\ \A j \in Jobs : j \in mu <=> at[j] \in Locked
  /\ \A j, k \in mu : j = k
  /\ \A j \in Jobs : at[j] = "append" => seen[j] = errors
  /\ Distinct
  /\ \A j \in Jobs : Stored(j) <=> at[j] \in {"unlock", "recorded"}

JobsInv == PoolInv /\ ErrorsInv

LEMMA JobsInvInit == JobsInit => JobsInv
<1> SUFFICES ASSUME JobsInit PROVE JobsInv
  OBVIOUS
<1>1. PoolInv
  BY PoolInvInit DEF JobsInit
<1>2. errors = <<>> /\ <<>> \in Seq(Jobs) /\ Len(errors) = 0
  BY EmptySeq DEF JobsInit, ErrorsInit
<1>3. ErrorsTypeOK
  BY <1>2, RecordersAssumption DEF ErrorsTypeOK, JobsInit, ErrorsInit
<1>4. ErrorsInv
  BY <1>2, <1>3, RecordersAssumption
     DEF ErrorsInv, Locked, Distinct, Stored, InRecord, JobsInit, ErrorsInit
<1> QED BY <1>1, <1>4 DEF JobsInv

LEMMA RecordKeeps ==
  ASSUME JobsInv, NEW j \in Jobs, JobRecords(j)
  PROVE  ErrorsInv'
<1> USE DEF JobsInv, ErrorsInv
<1>1. UNCHANGED phase
  BY DEF JobRecords, vars, callVars
<1>2. CASE phase[j] = "running" /\ RecordCall(j)
  <2>1. /\ at[j] = "idle" /\ at' = [at EXCEPT ![j] = "lock"]
        /\ UNCHANGED <<errors, mu, seen>>
    BY <1>2 DEF RecordCall, Move
  <2>2. \A k \in Jobs : at'[k] = IF k = j THEN "lock" ELSE at[k]
    BY <2>1 DEF ErrorsTypeOK
  <2>3. ErrorsTypeOK'
    BY <2>1 DEF ErrorsTypeOK
  <2>4. \A k \in Jobs : k \in mu' <=> at'[k] \in Locked
    BY <2>1, <2>2 DEF Locked
  <2>5. \A k \in Jobs : at'[k] \in {"append", "unlock", "recorded"} => at'[k] = at[k]
    BY <2>2
  <2>6. \A k \in Jobs : Stored(k)' <=> at'[k] \in {"unlock", "recorded"}
    BY <2>1, <2>2 DEF Stored
  <2> QED BY <1>1, <1>2, <2>1, <2>2, <2>3, <2>4, <2>5, <2>6 DEF InRecord, Distinct
<1>3. CASE Lock(j)
  <2>1. /\ at[j] = "lock" /\ at' = [at EXCEPT ![j] = "read"] /\ mu = {} /\ mu' = {j}
        /\ UNCHANGED <<errors, seen>>
    BY <1>3 DEF Lock, Move
  <2>2. \A k \in Jobs : at'[k] = IF k = j THEN "read" ELSE at[k]
    BY <2>1 DEF ErrorsTypeOK
  <2>3. ErrorsTypeOK'
    BY <2>1 DEF ErrorsTypeOK
  <2>4. \A k \in Jobs : k \in mu' <=> at'[k] \in Locked
    BY <2>1, <2>2 DEF Locked
  <2> QED BY <1>1, <2>1, <2>2, <2>3, <2>4 DEF InRecord, Distinct, Stored
<1>4. CASE Read(j)
  <2>1. /\ at[j] = "read" /\ at' = [at EXCEPT ![j] = "append"]
        /\ seen' = [seen EXCEPT ![j] = errors] /\ UNCHANGED <<errors, mu>>
    BY <1>4 DEF Read, Move
  <2>2. \A k \in Jobs : /\ at'[k] = IF k = j THEN "append" ELSE at[k]
                        /\ seen'[k] = IF k = j THEN errors ELSE seen[k]
    BY <2>1 DEF ErrorsTypeOK
  <2>3. ErrorsTypeOK'
    BY <2>1 DEF ErrorsTypeOK
  <2>4. \A k \in Jobs : k \in mu' <=> at'[k] \in Locked
    BY <2>1, <2>2 DEF Locked
  <2> QED BY <1>1, <2>1, <2>2, <2>3, <2>4 DEF InRecord, Distinct, Stored
<1>5. CASE AppendErr(j)
  <2>1. /\ at[j] = "append" /\ at' = [at EXCEPT ![j] = "unlock"]
        /\ errors' = Append(errors, j) /\ UNCHANGED <<mu, seen>>
    BY <1>5 DEF AppendErr, Move
  <2>2. \A k \in Jobs : at'[k] = IF k = j THEN "unlock" ELSE at[k]
    BY <2>1 DEF ErrorsTypeOK
  <2>3. /\ errors' \in Seq(Jobs) /\ Len(errors') = Len(errors) + 1 /\ Len(errors) \in Nat
        /\ \A i \in 1 .. Len(errors') : errors'[i] = IF i <= Len(errors) THEN errors[i] ELSE j
    BY <2>1 DEF ErrorsTypeOK
  <2>4. ~Stored(j)
    BY <2>1
  <2>5. Distinct'
    BY <2>3, <2>4 DEF Distinct, Stored
  <2>6. \A k \in Jobs : Stored(k)' <=> Stored(k) \/ k = j
    BY <2>3 DEF Stored
  <2>7. \A k \in Jobs : at'[k] = "append" => seen'[k] = errors'
    BY <2>1, <2>2 DEF Locked
  <2>8. ErrorsTypeOK'
    BY <2>1, <2>3 DEF ErrorsTypeOK
  <2>9. \A k \in Jobs : k \in mu' <=> at'[k] \in Locked
    BY <2>1, <2>2 DEF Locked
  <2>10. \A k \in Jobs : Stored(k)' <=> at'[k] \in {"unlock", "recorded"}
    BY <2>1, <2>2, <2>6
  <2> QED BY <1>1, <2>1, <2>2, <2>5, <2>7, <2>8, <2>9, <2>10 DEF InRecord
<1>6. CASE Unlock(j)
  <2>1. /\ at[j] = "unlock" /\ at' = [at EXCEPT ![j] = "recorded"] /\ mu' = mu \ {j}
        /\ UNCHANGED <<errors, seen>>
    BY <1>6 DEF Unlock, Move
  <2>2. \A k \in Jobs : at'[k] = IF k = j THEN "recorded" ELSE at[k]
    BY <2>1 DEF ErrorsTypeOK
  <2> QED BY <1>1, <2>1, <2>2 DEF ErrorsTypeOK, InRecord, Locked, Distinct, Stored
<1> QED BY <1>2, <1>3, <1>4, <1>5, <1>6 DEF JobRecords, Record

\* What the pool does while a job is in Record leaves that job running.
LEMMA PoolStepKeeps ==
  ASSUME JobsInv, PoolStep(Next)
  PROVE  ErrorsInv'
<1>1. \A j \in Jobs : InRecord(j) => phase'[j] = phase[j]
  BY DEF PoolStep
<1>2. UNCHANGED <<errors, mu, at, seen>>
  BY DEF PoolStep, errorVars
<1>3. \A j \in Jobs : InRecord(j)' => phase'[j] = "running"
  <2>1. \A j \in Jobs : InRecord(j) => phase[j] = "running"
    BY DEF JobsInv, ErrorsInv
  <2>2. \A j \in Jobs : InRecord(j)' <=> InRecord(j)
    BY <1>2 DEF InRecord
  <2> QED BY <1>1, <2>1, <2>2
<1>4. ErrorsTypeOK' /\ Distinct' /\ \A j \in Jobs : Stored(j)' <=> Stored(j)
  BY <1>2 DEF JobsInv, ErrorsInv, ErrorsTypeOK, Distinct, Stored
<1> QED BY <1>2, <1>3, <1>4 DEF JobsInv, ErrorsInv

\* A step of the jobs is one of the pool, or leaves the pool as it is.
LEMMA JobsStepIsPoolStep == [JobsNext]_jobVars => [Next]_vars
BY DEF JobsNext, jobVars, PoolStep, JobRecords

LEMMA JobsInvNext ==
  ASSUME JobsInv, [JobsNext]_jobVars
  PROVE  JobsInv'
<1>1. PoolInv'
  BY JobsStepIsPoolStep, PoolInvNext DEF JobsInv
<1>2. ASSUME UNCHANGED jobVars PROVE ErrorsInv'
  BY <1>2 DEF jobVars, vars, callVars, errorVars, JobsInv, ErrorsInv, ErrorsTypeOK, InRecord,
     Locked, Distinct, Stored
<1>3. ASSUME JobsNext PROVE ErrorsInv'
  BY <1>3, PoolStepKeeps, RecordKeeps DEF JobsNext
<1> QED BY <1>1, <1>2, <1>3 DEF JobsInv

LEMMA JobsProperties ==
  ASSUME JobsInv
  PROVE  JobsTypeOK /\ WaitMeansDone /\ ErrorsComplete
<1>1. JobsTypeOK
  BY PoolProperties DEF JobsInv, ErrorsInv, ErrorsTypeOK, JobsTypeOK
<1>2. ErrorsComplete
  <2> SUFFICES ASSUME NEW c \in Clients, pc[c] = "waited"
               PROVE  /\ \A j \in Jobs : ~InRecord(j)
                      /\ \A j \in Jobs :
                           Cardinality({i \in DOMAIN AllErrors : AllErrors[i] = j})
                             = IF at[j] = "recorded" THEN 1 ELSE 0
    BY DEF ErrorsComplete
  <2>1. \A j \in Jobs : ~InRecord(j)
    BY DEF JobsInv, ErrorsInv, PoolInv, CallsInv, Orderly, Quiet
  <2>2. ASSUME NEW j \in Jobs
        PROVE  Cardinality({i \in DOMAIN AllErrors : AllErrors[i] = j})
                 = IF at[j] = "recorded" THEN 1 ELSE 0
    <3> DEFINE I == {i \in DOMAIN AllErrors : AllErrors[i] = j}
    <3>1. I = {i \in 1 .. Len(errors) : errors[i] = j}
      BY LenProperties DEF JobsInv, ErrorsInv, ErrorsTypeOK, AllErrors
    <3>2. Stored(j) <=> at[j] = "recorded"
      BY <2>1 DEF JobsInv, ErrorsInv, InRecord
    <3>3. CASE Stored(j)
      <4>1. PICK i \in 1 .. Len(errors) : errors[i] = j
        BY <3>3 DEF Stored
      <4>2. I = {i}
        BY <3>1, <4>1 DEF JobsInv, ErrorsInv, Distinct
      <4> QED BY <3>2, <3>3, <4>2, FS_Singleton
    <3>4. CASE ~Stored(j)
      <4>1. I = {}
        BY <3>1, <3>4 DEF Stored
      <4> QED BY <3>2, <3>4, <4>1, FS_EmptySet
    <3> QED BY <3>3, <3>4
  <2> QED BY <2>1, <2>2
<1> QED BY <1>1, <1>2, PoolProperties DEF JobsInv

\* Pool and Errors have their types whatever the interleaving of Record calls, and
\* no slot of the pool leaks.
THEOREM JobsTypeCorrect == JobsSpec => []JobsTypeOK
<1>1. JobsInit => JobsInv
  BY JobsInvInit
<1>2. JobsInv /\ [JobsNext]_jobVars => JobsInv'
  BY JobsInvNext
<1>3. JobsInv => JobsTypeOK
  BY JobsProperties
<1> QED BY <1>1, <1>2, <1>3, PTL DEF JobsSpec

\* Wait and Close return only when every job is done, those that jobs submitted
\* meanwhile included, and Running() is then 0.
THEOREM JobsDoneAfterWait == JobsSpec => []WaitMeansDone
<1>1. JobsInit => JobsInv
  BY JobsInvInit
<1>2. JobsInv /\ [JobsNext]_jobVars => JobsInv'
  BY JobsInvNext
<1>3. JobsInv => WaitMeansDone
  BY JobsProperties
<1> QED BY <1>1, <1>2, <1>3, PTL DEF JobsSpec

\* A client that has waited reads every recorded error once, without the lock,
\* while nobody is in Record.
THEOREM NoErrorLost == JobsSpec => []ErrorsComplete
<1>1. JobsInit => JobsInv
  BY JobsInvInit
<1>2. JobsInv /\ [JobsNext]_jobVars => JobsInv'
  BY JobsInvNext
<1>3. JobsInv => ErrorsComplete
  BY JobsProperties
<1> QED BY <1>1, <1>2, <1>3, PTL DEF JobsSpec

LEMMA StayStep ==
  ASSUME JobsInv, [JobsNext]_jobVars
  PROVE  [errors # <<>> => /\ Error' = Error
                           /\ SubSeq(errors', 1, Len(errors)) = AllErrors]_errors
<1> SUFFICES ASSUME errors' # errors, errors # <<>>
             PROVE  Error' = Error /\ SubSeq(errors', 1, Len(errors)) = AllErrors
  OBVIOUS
<1>1. PICK j \in Jobs : AppendErr(j)
  BY DEF JobsNext, jobVars, errorVars, PoolStep, JobRecords, RecordCall, Record, Lock, Read, Unlock
<1>2. errors \in Seq(Jobs) /\ errors' = Append(errors, j)
  BY <1>1 DEF AppendErr, Move, JobsInv, ErrorsInv, ErrorsTypeOK
<1>3. /\ errors' \in Seq(Jobs) /\ Len(errors) \in Nat \ {0} /\ Len(errors') = Len(errors) + 1
      /\ \A i \in 1 .. Len(errors) : errors'[i] = errors[i]
  BY <1>2, EmptySeq
<1>4. Error' = Error
  <2>1. Head(errors') = errors'[1] /\ Head(errors) = errors[1]
    BY <1>2, <1>3, EmptySeq
  <2> QED BY <1>3, <2>1 DEF Error
<1>5. SubSeq(errors', 1, Len(errors)) = errors
  <2> DEFINE f == SubSeq(errors', 1, Len(errors))
  <2>1. \A i \in 1 .. Len(errors) : errors'[i] \in Jobs
    BY <1>3, ElementOfSeq
  <2>2. /\ f \in Seq(Jobs) /\ Len(f) = Len(errors)
        /\ \A i \in 1 .. Len(errors) : f[i] = errors'[i]
    BY <1>3, <2>1, SubSeqProperties
  <2> HIDE DEF f
  <2>3. \A i \in 1 .. Len(f) : f[i] = errors[i]
    BY <1>3, <2>2
  <2>4. f = errors
    BY <1>2, <2>2, <2>3, SeqEqual
  <2> QED BY <2>4 DEF f
<1> QED BY <1>4, <1>5 DEF AllErrors

\* What Error and Errors return of a slice that is not empty stays, at the front of
\* whatever other jobs record later.
THEOREM FirstErrorStays == JobsSpec => ErrorsStay
<1>1. JobsInit => JobsInv
  BY JobsInvInit
<1>2. JobsInv /\ [JobsNext]_jobVars => JobsInv'
  BY JobsInvNext
<1>3. JobsInv /\ [JobsNext]_jobVars =>
        [errors # <<>> => /\ Error' = Error
                          /\ SubSeq(errors', 1, Len(errors)) = AllErrors]_errors
  BY StayStep
<1> QED BY <1>1, <1>2, <1>3, PTL DEF JobsSpec, ErrorsStay

-----------------------------------------------------------------------------
(***************************************************************************)
(* The pool implements the abstract one, step by step.                     *)
(***************************************************************************)
LEMMA SubmitJP ==
  ASSUME PoolInv, NEW s \in Threads, SubmitCall(s) \/ Submit(s)
  PROVE  NextJP
<1> USE DEF PoolInv
<1>1. CASE SubmitCall(s)
  <2>1. PICK j \in Jobs, m \in Modes :
          Call(s, j, m, IF m = "blocking" THEN "acquire" ELSE "add")
    BY <1>1 DEF SubmitCall
  <2> DEFINE point == IF m = "blocking" THEN "acquire" ELSE "add"
  <2>2. point \in Calling
    BY DEF Calling
  <2> HIDE DEF point
  <2> QED BY <2>1, <2>2, CallJP DEF point
<1>2. CASE Acquire(s) \/ CountUp(s, "go") \/ Release(s)
  <2>1. pc[s] \in InSubmit /\ phase' = phase /\ closed' = closed
    BY <1>2 DEF Acquire, CountUp, Release, InSubmit
  <2>2. \E p \in {"panic", "add", "go", "out"} : pc' = [pc EXCEPT ![s] = p]
    BY <1>2 DEF Acquire, CountUp, Release, Goto
  <2>3. pc[s] \notin InWait /\ {"panic", "add", "go", "out"} \cap InWait = {}
    BY <2>1 DEF InSubmit, InWait
  <2> QED BY <2>1, <2>2, <2>3, MoveJP
<1>3. CASE Go(s)
  <2> DEFINE point == IF mode[arg[s]] = "blocking" THEN "release" ELSE "out"
  <2>1. /\ pc[s] \in Placing /\ pc[s] \notin InWait /\ point \notin InWait
        /\ phase' = [phase EXCEPT ![arg[s]] = "ready"] /\ pc' = [pc EXCEPT ![s] = point]
        /\ closed' = closed
    BY <1>3 DEF Go, Reach, Goto, Placing, InWait
  <2> HIDE DEF point
  <2> QED BY <2>1, MoveJP
<1> QED BY <1>1, <1>2, <1>3, AddJP DEF Submit

LEMMA RunJP ==
  ASSUME PoolInv, NEW j \in Jobs, Run(j)
  PROVE  NextJP
<1>1. CASE Start(j)
  BY <1>1, StartJP DEF Start, Reach, PoolInv
<1> QED BY <1>1, RanJP, DoneJP DEF Run, Finish, PoolInv

LEMMA PoolNextJP ==
  ASSUME PoolInv, [Next]_vars
  PROVE  [JP!Next]_JP!vars
<1>1. CASE UNCHANGED vars
  BY <1>1, StutterJP DEF vars, callVars, Status, NextJP
<1>2. CASE Next
  BY <1>2, SubmitJP, RunJP, WaitJP, WaitingJP DEF Next, PoolInv, NextJP
<1> QED BY <1>1, <1>2

\* limited.Pool does no more than a JobPool may: a job submitted runs once, and Wait
\* and Close return only when all are done.
THEOREM PoolRefines == Spec => JP!Spec
<1>1. Init => PoolInv /\ JP!Init
  BY PoolInvInit, InitJP DEF Init
<1>2. PoolInv /\ [Next]_vars => PoolInv' /\ [JP!Next]_JP!vars
  BY PoolInvNext, PoolNextJP
<1> QED BY <1>1, <1>2, PTL DEF Spec, JP!Spec

\* Nor does it when its jobs record errors.
THEOREM JobsRefine == JobsSpec => JP!Spec
<1>1. JobsInit => Init
  BY DEF JobsInit
<1>2. [JobsNext]_jobVars => [Next]_vars
  BY JobsStepIsPoolStep
<1>3. JobsSpec => Spec
  BY <1>1, <1>2, PTL DEF JobsSpec, Spec
<1> QED BY <1>3, PoolRefines

=============================================================================
