----------------------------- MODULE PooledPool -----------------------------
(***************************************************************************)
(* Package goroutines/pooled: workers made by New take jobs from a channel *)
(* of capacity 1; a NonBlocking job that finds it full gets a goroutine of *)
(* its own.                                                                *)
(***************************************************************************)
EXTENDS PoolCalls, Sequences, Functions

CONSTANT Workers  \* the goroutines New starts
ASSUME WorkersAssumption == Workers # {} /\ IsFiniteSet(Workers)

VARIABLES
  queue,   \* the channel of jobs
  work,    \* per worker: the job it runs
  exited   \* the workers whose loop has ended

poolVars == <<queue, work, exited>>
vars     == <<callVars, poolVars>>

Init ==
  /\ CallsInit
  /\ queue = <<>>
  /\ work = [w \in Workers |-> None]
  /\ exited = {}

HasRoom == Len(queue) < 1

-----------------------------------------------------------------------------
SubmitCall(s) ==
  /\ \E j \in Jobs, m \in Modes : Call(s, j, m, "add")
  /\ UNCHANGED poolVars

\* p.queue <- s, in the select of a NonBlocking Submit or outside it.
Send(s) ==
  /\ pc[s] = "send"
  /\ closed \/ HasRoom
  /\ IF closed
     THEN Goto(s, "panic") /\ UNCHANGED <<phase, queue>>
     ELSE /\ queue' = Append(queue, arg[s])
          /\ Reach(arg[s], "queued")
          /\ Goto(s, "out")
  /\ UNCHANGED <<wg, running, closed, closer, mode, arg, work, exited>>

\* Mutant: a NonBlocking job that finds the channel full is dropped.
SpawnNothing(s) ==
  /\ pc[s] = "send" /\ mode[arg[s]] = "nonblocking"
  /\ ~closed /\ ~HasRoom
  /\ Goto(s, "out")
  /\ UNCHANGED <<wg, running, closed, closer, phase, mode, arg, poolVars>>

\* Mutant: no default, so NonBlocking waits like any other.
SpawnNever(s) ==
  /\ pc[s] = "send" /\ FALSE
  /\ UNCHANGED vars

\* default: a goroutine of its own.
Spawn(s) ==
  /\ pc[s] = "send" /\ mode[arg[s]] = "nonblocking"
  /\ ~closed /\ ~HasRoom
  /\ Reach(arg[s], "ready")
  /\ Goto(s, "out")
  /\ UNCHANGED <<wg, running, closed, closer, mode, arg, poolVars>>

Submit(s) ==
  \/ Add(s) /\ UNCHANGED poolVars
  \/ CountUp(s, "send") /\ UNCHANGED poolVars
  \/ Send(s)
  \/ Spawn(s)

-----------------------------------------------------------------------------
(***************************************************************************)
(* runner: for s := range p.queue.                                         *)
(***************************************************************************)
Idle(w) == work[w] = None /\ w \notin exited

Take(w) ==
  /\ Idle(w)
  /\ queue # <<>>
  /\ work' = [work EXCEPT ![w] = Head(queue)]
  /\ queue' = Tail(queue)
  /\ Reach(Head(queue), "running")
  /\ UNCHANGED <<wg, running, closed, closer, mode, pc, arg, exited>>

\* The job, running.Add(-1), wg.Done(), and back to the range.
Work(w) ==
  /\ work[w] # None
  /\ Return(work[w]) \/ Finish(work[w])
  /\ work' = IF phase'[work[w]] = "done" THEN [work EXCEPT ![w] = None] ELSE work
  /\ UNCHANGED <<queue, exited>>

\* The channel is closed and empty.
Exit(w) ==
  /\ Idle(w)
  /\ closed /\ queue = <<>>
  /\ exited' = exited \cup {w}
  /\ UNCHANGED <<callVars, queue, work>>

Runner(w) == Take(w) \/ Work(w) \/ Exit(w)

\* A job that has a goroutine of its own.
Run(j) ==
  /\ j \notin Range(work)
  /\ Start(j) \/ Return(j) \/ Finish(j)
  /\ UNCHANGED poolVars

Next ==
  \/ \E s \in Threads : SubmitCall(s) \/ Submit(s)
  \/ \E w \in Workers : Runner(w)
  \/ \E j \in Jobs : Run(j)
  \/ \E c \in Clients : (Wait(c) \/ Waiting(c)) /\ UNCHANGED poolVars

Spec == Init /\ [][Next]_vars

\* Goroutines keep running, jobs return and what is ready is done.  Nobody is
\* forced to submit, to wait or to close.
Fairness ==
  /\ \A s \in Threads : WF_vars(Submit(s))
  /\ \A w \in Workers : WF_vars(Runner(w))
  /\ \A j \in Jobs : WF_vars(Run(j))
  /\ \A c \in Clients : WF_vars(Waiting(c) /\ UNCHANGED poolVars)

FairSpec == Spec /\ Fairness

-----------------------------------------------------------------------------
\* A job is in one place: the channel, one worker, or a goroutine of its own, and
\* in none of them before Submit sends it or after it is done.  A worker that is
\* busy or a queued job keeps the pool from closing down under it.
OnePlace ==
  /\ \A j \in Jobs : phase[j] = "queued" <=> j \in Range(queue)
  /\ \A w \in Workers :
       work[w] # None => /\ phase[work[w]] \in {"running", "ran", "uncounted"}
                         /\ \A x \in Workers : work[x] = work[w] => x = w
  /\ exited # {} => queue = <<>> /\ \A j \in Jobs : phase[j] \in {"new", "done"}

\* Every variable has its type, and the channel, the workers and the phases of the
\* jobs agree.
TypeOK ==
  /\ CallsTypeOK
  /\ queue \in Seq(Jobs) /\ Len(queue) <= 1
  /\ work \in [Workers -> Jobs \cup {None}]
  /\ exited \subseteq Workers
  /\ OnePlace

\* Close stops all goroutines: every worker ends, though jobs go on submitting
\* jobs when it is called.
WorkersExit == closer # None ~> exited = Workers

\* Every Submit returns, the worker's own included.
SubmitReturns == \A s \in Threads : pc[s] \in InSubmit ~> pc[s] = "out"

\* What the package says and the code does not do: "if a pooled goroutine is
\* not available, spin off a goroutine", so that no job submitted with
\* NonBlocking waits behind busy workers.
NonBlockingHasWorker ==
  \A j \in Range(queue) : mode[j] = "nonblocking" => \E w \in Workers : Idle(w)

=============================================================================
