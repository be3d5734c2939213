-------------------------- MODULE PooledPoolProofs --------------------------
(***************************************************************************)
(* Package goroutines/pooled: proofs for any number of clients, jobs and   *)
(* workers.                                                                *)
(***************************************************************************)
EXTENDS PooledPool, PoolCallsProofs, SequenceTheorems

\* The inductive invariant: that of the calls, the types and places of the jobs,
\* and that no worker ends before the channel is closed.
PooledInv == CallsInv /\ TypeOK /\ (exited # {} => closed)

LEMMA PooledProperties ==
  ASSUME PooledInv
  PROVE  TypeOK /\ WaitMeansDone /\ RunningAccounted /\ NoPanic
BY CallsProperties DEF PooledInv

\* The channel holds no job or one.
LEMMA OneElement ==
  ASSUME NEW j \in Jobs
  PROVE  /\ Range(<<>>) = {} /\ Range(<<j>>) = {j} /\ <<j>> \in Seq(Jobs)
         /\ Head(<<j>>) = j /\ Tail(<<j>>) = <<>> /\ Append(<<>>, j) = <<j>>
         /\ Len(<<j>>) = 1 /\ <<j>> # <<>>
BY DEF Range

LEMMA QueueIs ==
  ASSUME PooledInv
  PROVE  queue = <<>> \/ \E j \in Jobs : queue = <<j>>
<1>1. queue \in Seq(Jobs) /\ Len(queue) <= 1 /\ Len(queue) \in Nat
  BY LenProperties DEF PooledInv, TypeOK
<1>2. CASE Len(queue) = 0
  BY <1>1, <1>2, EmptySeq
<1>3. CASE Len(queue) = 1
  <2>1. queue[1] \in Jobs
    BY <1>1, <1>3, ElementOfSeq
  <2>2. <<queue[1]>> \in Seq(Jobs) /\ Len(<<queue[1]>>) = 1
    BY <2>1, OneElement
  <2>3. \A i \in 1 .. 1 : queue[i] = <<queue[1]>>[i]
    OBVIOUS
  <2>4. queue = <<queue[1]>>
    BY <1>1, <1>3, <2>2, <2>3, SeqEqual
  <2> QED BY <2>1, <2>4
<1>4. Len(queue) = 0 \/ Len(queue) = 1
  <2>1. \A n \in Nat : n <= 1 => n = 0 \/ n = 1
    OBVIOUS
  <2> QED BY <1>1, <2>1, Zenon
<1> QED BY <1>2, <1>3, <1>4, Zenon

\* Once the pool is closed nothing is queued and no worker has a job.
LEMMA ClosedIsEmpty ==
  ASSUME PooledInv, Quiet
  PROVE  queue = <<>> /\ \A w \in Workers : work[w] = None
<1>1. \A j \in Jobs : j \notin Range(queue)
  BY DEF PooledInv, TypeOK, OnePlace, Quiet
<1>2. queue = <<>>
  BY <1>1, QueueIs, OneElement
<1>3. \A w \in Workers : work[w] = None
  BY DEF PooledInv, TypeOK, OnePlace, Quiet
<1> QED BY <1>2, <1>3

LEMMA PooledInvInit == Init => PooledInv
<1> SUFFICES ASSUME Init PROVE PooledInv
  OBVIOUS
<1>1. CallsInv /\ CallsTypeOK
  BY CallsInvInit DEF Init, CallsInv
<1>2. queue = <<>> /\ <<>> \in Seq(Jobs) /\ Len(queue) = 0 /\ Range(queue) = {}
  BY EmptySeq DEF Init, Range
<1>3. OnePlace
  BY <1>2 DEF OnePlace, Init, CallsInit
<1> QED BY <1>1, <1>2, <1>3 DEF PooledInv, TypeOK, Init

\* A step in which jobs that no worker has move, none of them in or out of the
\* channel, and no worker is concerned.
LEMMA PlacesStay ==
  ASSUME PooledInv, CallsInv', UNCHANGED poolVars, closed => closed',
         \A j \in Jobs : phase'[j] = "queued" <=> phase[j] = "queued",
         \A j \in Jobs : j \in Range(work) => phase'[j] = phase[j]
  PROVE  PooledInv'
<1> USE DEF PooledInv, TypeOK
<1>1. UNCHANGED <<queue, work, exited>>
  BY DEF poolVars
<1>2. \A w \in Workers : work[w] # None => work[w] \in Jobs /\ work[w] \in Range(work)
  BY DEF Range
<1>3. Range(queue)' = Range(queue) /\ CallsTypeOK'
  BY <1>1 DEF CallsInv
<1>4. exited' # {} => closed'
  BY <1>1
<1>5. exited' # {} => queue' = <<>> /\ \A j \in Jobs : phase'[j] \in {"new", "done"}
  BY <1>1, <1>4 DEF OnePlace, CallsInv, Orderly, Quiet
<1>6. OnePlace'
  BY <1>1, <1>2, <1>3, <1>5 DEF OnePlace
<1> QED BY <1>1, <1>3, <1>4, <1>6

LEMMA SubmitKeeps ==
  ASSUME PooledInv, NEW s \in Threads, SubmitCall(s) \/ Submit(s)
  PROVE  PooledInv'
<1>0. CallsInv /\ CallsTypeOK
  BY DEF PooledInv, CallsInv
<1>1. CASE SubmitCall(s)
  <2>1. PICK j \in Jobs, m \in Modes : Call(s, j, m, "add")
    BY <1>1 DEF SubmitCall
  <2>2. CallsInv'
    BY <1>0, <2>1, CallKeeps DEF Calling
  <2>3. phase[j] = "new" /\ phase' = [phase EXCEPT ![j] = "called"] /\ closed' = closed
    BY <2>1 DEF Call, Reach
  <2>4. \A k \in Jobs : phase'[k] = IF k = j THEN "called" ELSE phase[k]
    BY <1>0, <2>3 DEF CallsTypeOK
  <2>5. j \notin Range(work)
    BY <2>3, ThreadsAssumption DEF PooledInv, TypeOK, OnePlace, Range, Threads
  <2> QED BY <1>1, <2>2, <2>3, <2>4, <2>5, PlacesStay DEF SubmitCall
<1>2. CASE Add(s) /\ UNCHANGED poolVars
  <2>1. CallsInv'
    BY <1>0, <1>2, AddKeeps
  <2>2. /\ pc[s] = "add" /\ phase' = [phase EXCEPT ![arg[s]] = "added"] /\ closed' = closed
    BY <1>2 DEF Add, Reach
  <2>3. pc[s] \in Calling /\ pc[s] \in Owning
    BY <2>2 DEF Owning, Calling
  <2>4. arg[s] \in Jobs /\ phase[arg[s]] = "called"
    BY <1>0, <2>3, SubmitOpen DEF CallsInv, Linked
  <2>5. \A k \in Jobs : phase'[k] = IF k = arg[s] THEN "added" ELSE phase[k]
    BY <1>0, <2>2, <2>4 DEF CallsTypeOK
  <2>6. arg[s] \notin Range(work)
    BY <2>4, ThreadsAssumption DEF PooledInv, TypeOK, OnePlace, Range, Threads
  <2> QED BY <1>2, <2>1, <2>2, <2>4, <2>5, <2>6, PlacesStay
<1>3. CASE CountUp(s, "send") /\ UNCHANGED poolVars
  <2>1. CallsInv'
    BY <1>0, <1>3, CountUpKeeps
  <2> QED BY <1>3, <2>1, PlacesStay DEF CountUp
<1>4. CASE Send(s) \/ Spawn(s)
  <2>1. pc[s] = "send" /\ pc[s] \in Placing /\ pc[s] \in Owning
    BY <1>4 DEF Send, Spawn, Owning, Placing
  <2>2. ~closed /\ arg[s] \in Jobs /\ phase[arg[s]] = "added"
    BY <1>0, <2>1, SubmitOpen DEF CallsInv, Linked
  <2>3. arg[s] \notin Range(work)
    BY <2>2, ThreadsAssumption DEF PooledInv, TypeOK, OnePlace, Range, Threads
  <2>4. CASE Send(s)
    <3>1. /\ HasRoom /\ queue' = Append(queue, arg[s])
          /\ phase' = [phase EXCEPT ![arg[s]] = "queued"] /\ pc' = [pc EXCEPT ![s] = "out"]
          /\ UNCHANGED <<wg, running, closed, closer, mode, arg, work, exited>>
      BY <2>2, <2>4 DEF Send, Reach, Goto
    <3>2. CallsInv'
      BY <1>0, <2>1, <3>1, HandOverKeeps
    <3>3. \A k \in Jobs : phase'[k] = IF k = arg[s] THEN "queued" ELSE phase[k]
      BY <1>0, <2>2, <3>1 DEF CallsTypeOK
    <3>4. queue = <<>>
      BY <3>1, QueueIs, OneElement DEF HasRoom
    <3>5. /\ queue' \in Seq(Jobs) /\ Len(queue') <= 1 /\ Range(queue) = {}
          /\ Range(queue') = {arg[s]}
      BY <2>2, <3>1, <3>4, OneElement
    <3>6. exited' = {}
      BY <2>2, <3>1 DEF PooledInv
    <3>7. \A w \in Workers : work[w] # None => work[w] \in Jobs /\ work[w] \in Range(work)
      BY DEF Range, PooledInv, TypeOK
    <3>8. OnePlace'
      BY <2>3, <3>1, <3>3, <3>5, <3>6, <3>7 DEF OnePlace, PooledInv, TypeOK
    <3> QED BY <3>1, <3>2, <3>5, <3>6, <3>8 DEF PooledInv, TypeOK, CallsInv
  <2>5. CASE Spawn(s)
    <3>1. /\ phase' = [phase EXCEPT ![arg[s]] = "ready"] /\ pc' = [pc EXCEPT ![s] = "out"]
          /\ UNCHANGED <<wg, running, closed, closer, mode, arg, poolVars>>
      BY <2>5 DEF Spawn, Reach, Goto
    <3>2. CallsInv'
      BY <1>0, <2>1, <3>1, HandOverKeeps
    <3>3. \A k \in Jobs : phase'[k] = IF k = arg[s] THEN "ready" ELSE phase[k]
      BY <1>0, <2>2, <3>1 DEF CallsTypeOK
    <3> QED BY <2>2, <2>3, <3>1, <3>2, <3>3, PlacesStay
  <2> QED BY <1>4, <2>4, <2>5
<1> QED BY <1>1, <1>2, <1>3, <1>4 DEF Submit

\* A job that runs goes on; where it runs does not matter to the calls.
LEMMA RunCalls ==
  ASSUME PooledInv, NEW j \in Jobs, Return(j) \/ Finish(j)
  PROVE  /\ CallsInv' /\ closed' = closed
         /\ phase[j] \in {"running", "ran", "uncounted"}
         /\ \E p \in {"ran", "uncounted", "done"} : phase' = [phase EXCEPT ![j] = p]
<1>1. CallsInv'
  BY ReturnKeeps, CountDownKeeps, DoneKeeps DEF PooledInv, Finish
<1>2. \/ phase[j] = "running" /\ phase' = [phase EXCEPT ![j] = "ran"]
      \/ phase[j] = "ran" /\ phase' = [phase EXCEPT ![j] = "uncounted"]
      \/ phase[j] = "uncounted" /\ phase' = [phase EXCEPT ![j] = "done"]
  BY DEF Return, Finish, CountDown, Done, Reach
<1>3. closed' = closed
  BY DEF Return, Finish, CountDown, Done
<1> QED BY <1>1, <1>2, <1>3

\* A worker takes the job that is in the channel.
LEMMA TakeKeeps ==
  ASSUME PooledInv, NEW w \in Workers, Take(w)
  PROVE  PooledInv'
<1> USE DEF PooledInv, TypeOK
<1>1. PICK j \in Jobs : queue = <<j>>
  BY QueueIs DEF Take
<1>2. /\ work[w] = None /\ work' = [work EXCEPT ![w] = j] /\ queue' = <<>>
      /\ phase' = [phase EXCEPT ![j] = "running"]
      /\ UNCHANGED <<wg, running, closed, closer, mode, pc, arg, exited>>
  BY <1>1, OneElement DEF Take, Idle, Reach
<1>3. phase[j] = "queued" /\ \A k \in Jobs : phase[k] = "queued" => k = j
  BY <1>1, OneElement DEF OnePlace
<1>4. CallsInv'
  BY <1>2, <1>3, StartKeeps
<1>5. \A k \in Jobs : phase'[k] = IF k = j THEN "running" ELSE phase[k]
  BY <1>2 DEF CallsInv, CallsTypeOK
<1>6. \A x \in Workers : work[x] # j
  BY <1>3, ThreadsAssumption DEF OnePlace, Threads
<1>7. \A x \in Workers : work'[x] = IF x = w THEN j ELSE work[x]
  BY <1>2
<1>8. exited = {}
  BY <1>1, OneElement DEF OnePlace
<1>9. queue' \in Seq(Jobs) /\ Len(queue') <= 1 /\ Range(queue') = {}
  <2>1. <<>> \in Seq(Jobs) /\ Len(<<>>) = 0 /\ Range(<<>>) = {}
    BY OneElement, EmptySeq
  <2>2. <<>> \in Seq(Jobs) /\ Len(<<>>) <= 1 /\ Range(<<>>) = {}
    BY <2>1
  <2> QED BY <1>2, <2>2, Zenon
<1>10. OnePlace'
  BY <1>2, <1>3, <1>5, <1>6, <1>7, <1>8, <1>9 DEF OnePlace
<1> QED BY <1>2, <1>4, <1>8, <1>9, <1>10 DEF CallsInv

\* The worker's job goes on, and the worker is free once it is done.
LEMMA WorkKeeps ==
  ASSUME PooledInv, NEW w \in Workers, Work(w)
  PROVE  PooledInv'
<1> USE DEF PooledInv, TypeOK
<1>1. PICK j \in Jobs : j = work[w]
  BY DEF Work
<1>2. /\ Return(j) \/ Finish(j)
      /\ work' = IF phase'[j] = "done" THEN [work EXCEPT ![w] = None] ELSE work
      /\ UNCHANGED <<queue, exited>>
  BY <1>1 DEF Work
<1>3. /\ CallsInv' /\ closed' = closed /\ phase[j] \in {"running", "ran", "uncounted"}
  BY <1>2, RunCalls
<1>4. PICK p \in {"ran", "uncounted", "done"} : phase' = [phase EXCEPT ![j] = p]
  BY <1>2, RunCalls
<1>5. \A k \in Jobs : phase'[k] = IF k = j THEN p ELSE phase[k]
  BY <1>4 DEF CallsInv, CallsTypeOK
<1>6. \A x \in Workers : work[x] = j => x = w
  BY <1>1, ThreadsAssumption DEF OnePlace, Threads
<1>7. \A x \in Workers : work'[x] = IF x = w /\ p = "done" THEN None ELSE work[x]
  BY <1>2, <1>5
<1>8. exited = {}
  BY <1>3 DEF OnePlace
<1>9. work' \in [Workers -> Jobs \cup {None}]
  BY <1>2
<1>10. Range(queue') = Range(queue)
  BY <1>2
<1>11. OnePlace'
  BY <1>1, <1>2, <1>3, <1>5, <1>6, <1>7, <1>8, <1>10 DEF OnePlace
<1> QED BY <1>2, <1>3, <1>8, <1>9, <1>11 DEF CallsInv

\* A worker ends only when nothing is left to be taken, ever.
LEMMA ExitKeeps ==
  ASSUME PooledInv, NEW w \in Workers, Exit(w)
  PROVE  PooledInv'
<1> USE DEF PooledInv, TypeOK
<1>1. /\ closed /\ queue = <<>> /\ exited' = exited \cup {w}
      /\ UNCHANGED <<callVars, queue, work>>
  BY DEF Exit
<1>2. UNCHANGED <<phase, closed>>
  BY <1>1 DEF callVars
<1>3. CallsInv' /\ CallsTypeOK'
  BY <1>1, StutterKeeps DEF CallsInv
<1>4. Quiet
  BY <1>1 DEF CallsInv, Orderly
<1>5. closed'
  BY <1>1, <1>2
<1>6. OnePlace'
  BY <1>1, <1>2, <1>4 DEF OnePlace, Quiet
<1> QED BY <1>1, <1>3, <1>5, <1>6

\* A job in a goroutine of its own starts or goes on.
LEMMA OwnKeeps ==
  ASSUME PooledInv, NEW j \in Jobs, Run(j)
  PROVE  PooledInv'
<1>1. CASE Start(j)
  <2>1. /\ phase[j] = "ready" /\ phase' = [phase EXCEPT ![j] = "running"]
        /\ UNCHANGED <<wg, running, closed, closer, mode, pc, arg>>
    BY <1>1 DEF Start, Reach
  <2>2. CallsInv'
    BY <2>1, StartKeeps DEF PooledInv
  <2>3. \A k \in Jobs : phase'[k] = IF k = j THEN "running" ELSE phase[k]
    BY <2>1 DEF PooledInv, CallsInv, CallsTypeOK
  <2> QED BY <2>1, <2>2, <2>3, PlacesStay DEF Run
<1>2. CASE Return(j) \/ Finish(j)
  <2>1. CallsInv' /\ closed' = closed /\ phase[j] \in {"running", "ran", "uncounted"}
    BY <1>2, RunCalls
  <2>2. PICK p \in {"ran", "uncounted", "done"} : phase' = [phase EXCEPT ![j] = p]
    BY <1>2, RunCalls
  <2>3. \A k \in Jobs : phase'[k] = IF k = j THEN p ELSE phase[k]
    BY <2>2 DEF PooledInv, CallsInv, CallsTypeOK
  <2> QED BY <2>1, <2>3, PlacesStay DEF Run
<1> QED BY <1>1, <1>2 DEF Run

LEMMA WaitersKeep ==
  ASSUME PooledInv, NEW c \in Clients, Wait(c) \/ Waiting(c), UNCHANGED poolVars
  PROVE  PooledInv'
<1>1. CallsInv'
  BY WaitKeeps, WaitingKeeps DEF PooledInv
<1>2. phase' = phase /\ (closed => closed')
  BY DEF Wait, Waiting, Wake, WaitReturn, CloseQueue
<1> QED BY <1>1, <1>2, PlacesStay

LEMMA PooledInvNext ==
  ASSUME PooledInv, [Next]_vars
  PROVE  PooledInv'
<1>1. CASE UNCHANGED vars
  <2>1. CallsInv'
    BY <1>1, StutterKeeps DEF vars, PooledInv
  <2> QED BY <1>1, <2>1, PlacesStay DEF vars, callVars
<1>2. CASE Next
  BY <1>2, SubmitKeeps, TakeKeeps, WorkKeeps, ExitKeeps, OwnKeeps, WaitersKeep
     DEF Next, Runner
<1> QED BY <1>1, <1>2

\* pooled.Pool, whatever its clients and jobs do that the interface allows: a job is
\* in the channel, with one worker or in a goroutine of its own, and no worker ends
\* while a job is left.
THEOREM TypeCorrect == Spec => []TypeOK
<1>1. Init => PooledInv
  BY PooledInvInit
<1>2. PooledInv /\ [Next]_vars => PooledInv'
  BY PooledInvNext
<1>3. PooledInv => TypeOK
  BY PooledProperties
<1> QED BY <1>1, <1>2, <1>3, PTL DEF Spec

\* Wait and Close return only when every job is done, whichever goroutine ran it and
\* whoever submitted it.
THEOREM DoneAfterWait == Spec => []WaitMeansDone
<1>1. Init => PooledInv
  BY PooledInvInit
<1>2. PooledInv /\ [Next]_vars => PooledInv'
  BY PooledInvNext
<1>3. PooledInv => WaitMeansDone
  BY PooledProperties
<1> QED BY <1>1, <1>2, <1>3, PTL DEF Spec

\* Running() is the number of jobs that a worker or a goroutine of their own has, that
\* are in the channel, or that a blocked Submit holds, though three kinds of
\* goroutine make the adds.
THEOREM RunningCounts == Spec => []RunningAccounted
<1>1. Init => PooledInv
  BY PooledInvInit
<1>2. PooledInv /\ [Next]_vars => PooledInv'
  BY PooledInvNext
<1>3. PooledInv => RunningAccounted
  BY PooledProperties
<1> QED BY <1>1, <1>2, <1>3, PTL DEF Spec

\* Nothing is sent on the closed channel, and the wait group is neither below zero
\* nor in use again while a Wait returns, though jobs submit jobs while Close waits.
THEOREM NothingPanics == Spec => []NoPanic
<1>1. Init => PooledInv
  BY PooledInvInit
<1>2. PooledInv /\ [Next]_vars => PooledInv'
  BY PooledInvNext
<1>3. PooledInv => NoPanic
  BY PooledProperties
<1> QED BY <1>1, <1>2, <1>3, PTL DEF Spec

-----------------------------------------------------------------------------
(***************************************************************************)
(* The pool implements the abstract one, step by step.                     *)
(***************************************************************************)
LEMMA SubmitJP ==
  ASSUME PooledInv, NEW s \in Threads, SubmitCall(s) \/ Submit(s)
  PROVE  NextJP
<1>0. CallsInv
  BY DEF PooledInv
<1>1. CASE SubmitCall(s)
  <2>1. PICK j \in Jobs, m \in Modes : Call(s, j, m, "add")
    BY <1>1 DEF SubmitCall
  <2> QED BY <1>0, <2>1, CallJP DEF Calling
<1>2. CASE CountUp(s, "send")
  <2>1. /\ pc[s] \notin InWait /\ "send" \notin InWait
        /\ pc' = [pc EXCEPT ![s] = "send"] /\ phase' = phase /\ closed' = closed
    BY <1>2 DEF CountUp, Goto, InWait
  <2> QED BY <1>0, <2>1, MoveJP
<1>3. CASE Send(s) \/ Spawn(s)
  <2>1. pc[s] = "send" /\ pc[s] \in Placing /\ pc[s] \in Owning /\ pc[s] \notin InWait
    BY <1>3 DEF Send, Spawn, Placing, Owning, InWait
  <2>2. ~closed
    BY <1>0, <2>1, SubmitOpen
  <2>3. /\ pc' = [pc EXCEPT ![s] = "out"] /\ "out" \notin InWait /\ closed' = closed
        /\ \E p \in {"queued", "ready"} : phase' = [phase EXCEPT ![arg[s]] = p]
    BY <1>3, <2>2 DEF Send, Spawn, Goto, Reach, InWait
  <2> QED BY <1>0, <2>1, <2>3, MoveJP
<1> QED BY <1>0, <1>1, <1>2, <1>3, AddJP DEF Submit

LEMMA RunnerJP ==
  ASSUME PooledInv, NEW w \in Workers, Runner(w)
  PROVE  NextJP
<1>1. CASE Take(w)
  <2>1. PICK j \in Jobs : queue = <<j>>
    BY <1>1, QueueIs DEF Take
  <2>2. phase[j] = "queued"
    BY <2>1, OneElement DEF PooledInv, TypeOK, OnePlace
  <2>3. phase' = [phase EXCEPT ![j] = "running"] /\ UNCHANGED <<closed, pc>>
    BY <1>1, <2>1, OneElement DEF Take, Reach
  <2> QED BY <2>2, <2>3, StartJP DEF PooledInv
<1>2. CASE Work(w)
  <2>1. PICK j \in Jobs : j = work[w]
    BY <1>2 DEF Work, PooledInv, TypeOK
  <2>2. Return(j) \/ Finish(j)
    BY <1>2, <2>1 DEF Work
  <2> QED BY <2>2, RanJP, DoneJP DEF Finish, PooledInv
<1>3. CASE Exit(w)
  BY <1>3, StutterJP DEF Exit, callVars, Status
<1> QED BY <1>1, <1>2, <1>3 DEF Runner

LEMMA OwnJP ==
  ASSUME PooledInv, NEW j \in Jobs, Run(j)
  PROVE  NextJP
<1>1. CASE Start(j)
  BY <1>1, StartJP DEF Start, Reach, PooledInv
<1> QED BY <1>1, RanJP, DoneJP DEF Run, Finish, PooledInv

LEMMA PooledNextJP ==
  ASSUME PooledInv, [Next]_vars
  PROVE  [JP!Next]_JP!vars
<1>1. CASE UNCHANGED vars
  BY <1>1, StutterJP DEF vars, callVars, Status, NextJP
<1>2. CASE Next
  BY <1>2, SubmitJP, RunnerJP, OwnJP, WaitJP, WaitingJP DEF Next, PooledInv, NextJP
<1> QED BY <1>1, <1>2

\* pooled.Pool does no more than a JobPool may: a job submitted runs once, and Wait
\* and Close return only when all are done.
THEOREM PoolRefines == Spec => JP!Spec
<1>1. Init => PooledInv /\ JP!Init
  BY PooledInvInit, InitJP DEF Init
<1>2. PooledInv /\ [Next]_vars => PooledInv' /\ [JP!Next]_JP!vars
  BY PooledInvNext, PooledNextJP
<1> QED BY <1>1, <1>2, PTL DEF Spec, JP!Spec

=============================================================================
