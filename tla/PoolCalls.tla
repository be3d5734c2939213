----------------------------- MODULE PoolCalls -----------------------------
(***************************************************************************)
(* What the two goroutine pools have in common: the goroutines that call   *)
(* Submit, Wait and Close, the wait group and the counter of running jobs, *)
(* and what becomes of a job once a goroutine runs it.  A job may call     *)
(* Submit itself.  Every operation on the wait group, the counter and the  *)
(* channel is a step of its own.                                           *)
(*                                                                         *)
(* Callers keep to what the Pool interface asks of them: Wait and Close    *)
(* are called once the clients have stopped calling Submit, and Close is   *)
(* the last call.  Jobs go on submitting jobs meanwhile.                   *)
(***************************************************************************)
EXTENDS Integers, FiniteSets

CONSTANTS
  Clients,     \* goroutines that use the pool
  Jobs,        \* the jobs there are, a bound on the Submits of a behaviour
  None,        \* "no job", "nobody"
  NestedModes  \* the options with which jobs submit jobs; {} when they do not

Modes   == {"blocking", "nonblocking"}
Threads == Clients \cup Jobs

ASSUME ThreadsAssumption ==
  /\ Clients \cap Jobs = {} /\ None \notin Threads
  /\ IsFiniteSet(Clients) /\ IsFiniteSet(Jobs)
ASSUME NestedAssumption == NestedModes \subseteq Modes

VARIABLES
  wg,       \* the counter of the wait group
  running,  \* the counter behind Running()
  closed,   \* the channel is closed
  closer,   \* the client that has called Close
  phase,    \* per job: how far it is
  mode,     \* per job: the option it was submitted with
  pc,       \* per thread: where it is in Submit, Wait or Close
  arg       \* per thread: the job it is submitting

callVars == <<wg, running, closed, closer, phase, mode, pc, arg>>

\* Phases of a job, in order: called (Submit has it), added (in the wait
\* group), queued (in the channel of the pooled version), ready (its own
\* goroutine exists), running, ran, uncounted (running.Add(-1)), done.
JobPhases == {"new", "called", "added", "queued", "ready", "running", "ran",
              "uncounted", "done"}

\* Points in Submit, in order; not every pool has them all.
InSubmit == {"acquire", "add", "count", "go", "send", "release"}
InWait   == {"waiting", "woken", "waited"}
Points   == {"out", "panic"} \cup InSubmit \cup InWait

Goto(s, point) == pc' = [pc EXCEPT ![s] = point]
Reach(j, p)    == phase' = [phase EXCEPT ![j] = p]

CallsInit ==
  /\ wg = 0
  /\ running = 0
  /\ closed = FALSE
  /\ closer = None
  /\ phase = [j \in Jobs |-> "new"]
  /\ mode = [j \in Jobs |-> "blocking"]
  /\ pc = [s \in Threads |-> "out"]
  /\ arg = [s \in Threads |-> None]

-----------------------------------------------------------------------------
(***************************************************************************)
(* Submit, up to the point where the pools differ.  A nil job or an option *)
(* of the other pool returns an error and changes nothing.                 *)
(***************************************************************************)

\* A job may submit while it runs, a client while nobody waits.
MaySubmit(s, m) ==
  \/ s \in Jobs /\ phase[s] = "running" /\ m \in NestedModes
  \/ s \in Clients /\ closer = None /\ \A c \in Clients : pc[c] \notin InWait

Call(s, j, m, point) ==
  /\ pc[s] = "out" /\ phase[j] = "new"
  /\ MaySubmit(s, m)
  /\ Reach(j, "called")
  /\ mode' = [mode EXCEPT ![j] = m]
  /\ arg' = [arg EXCEPT ![s] = j]
  /\ Goto(s, point)
  /\ UNCHANGED <<wg, running, closed, closer>>

\* Mutant: only what takes a slot is waited for.
AddBlocking(s) ==
  /\ pc[s] = "add"
  /\ wg' = IF mode[arg[s]] = "blocking" THEN wg + 1 ELSE wg
  /\ Reach(arg[s], "added")
  /\ Goto(s, "count")
  /\ UNCHANGED <<running, closed, closer, mode, arg>>

\* p.wg.Add(1)
Add(s) ==
  /\ pc[s] = "add"
  /\ wg' = wg + 1
  /\ Reach(arg[s], "added")
  /\ Goto(s, "count")
  /\ UNCHANGED <<running, closed, closer, mode, arg>>

\* Mutant: only what is not counted against the limit is counted.
CountUpBlocking(s, point) ==
  /\ pc[s] = "count"
  /\ running' = IF mode[arg[s]] = "blocking" THEN running + 1 ELSE running
  /\ Goto(s, point)
  /\ UNCHANGED <<wg, closed, closer, phase, mode, arg>>

\* p.running.Add(1)
CountUp(s, point) ==
  /\ pc[s] = "count"
  /\ running' = running + 1
  /\ Goto(s, point)
  /\ UNCHANGED <<wg, closed, closer, phase, mode, arg>>

-----------------------------------------------------------------------------
(***************************************************************************)
(* A job in its goroutine.                                                 *)
(***************************************************************************)
Start(j) ==
  /\ phase[j] = "ready"
  /\ Reach(j, "running")
  /\ UNCHANGED <<wg, running, closed, closer, mode, pc, arg>>

\* The job returns, when it has nothing left to submit.
Return(j) ==
  /\ phase[j] = "running" /\ pc[j] = "out"
  /\ Reach(j, "ran")
  /\ UNCHANGED <<wg, running, closed, closer, mode, pc, arg>>

\* p.running.Add(-1)
CountDown(j, from, to) ==
  /\ phase[j] = from
  /\ running' = running - 1
  /\ Reach(j, to)
  /\ UNCHANGED <<wg, closed, closer, mode, pc, arg>>

\* p.wg.Done(): below zero it panics, at zero it wakes who waits.
Done(j, from, to) ==
  /\ phase[j] = from
  /\ wg' = wg - 1
  /\ Reach(j, to)
  /\ pc' = CASE wg = 0 -> [pc EXCEPT ![j] = "panic"]
             [] wg = 1 -> [s \in Threads |->
                             IF pc[s] = "waiting" THEN "woken" ELSE pc[s]]
             [] OTHER  -> pc
  /\ UNCHANGED <<running, closed, closer, mode, arg>>

\* Mutant: the wait group lets go before the counter is back.
FinishSwapped(j) == Done(j, "ran", "uncounted") \/ CountDown(j, "uncounted", "done")

Finish(j) == CountDown(j, "ran", "uncounted") \/ Done(j, "uncounted", "done")

-----------------------------------------------------------------------------
(***************************************************************************)
(* Wait, and Close, which is a Wait and then close(p.queue).               *)
(***************************************************************************)
\* Mutant: it waits for the counter behind Running() instead.
WaitForRunning(c) ==
  /\ pc[c] = "out"
  /\ closer = None
  /\ \A d \in Clients : pc[d] \notin InSubmit
  /\ closer' \in {None, c}
  /\ Goto(c, IF running = 0 THEN "waited" ELSE "waiting")
  /\ UNCHANGED <<wg, running, closed, phase, mode, arg>>

Wait(c) ==
  /\ pc[c] = "out"
  /\ closer = None
  /\ \A d \in Clients : pc[d] \notin InSubmit
  /\ closer' \in {None, c}
  /\ Goto(c, IF wg = 0 THEN "waited" ELSE "waiting")
  /\ UNCHANGED <<wg, running, closed, phase, mode, arg>>

\* A waiter that is woken panics if the wait group is in use again.
Wake(c) ==
  /\ pc[c] = "woken"
  /\ Goto(c, IF wg = 0 THEN "waited" ELSE "panic")
  /\ UNCHANGED <<wg, running, closed, closer, phase, mode, arg>>

WaitReturn(c) ==
  /\ pc[c] = "waited" /\ closer # c
  /\ Goto(c, "out")
  /\ UNCHANGED <<wg, running, closed, closer, phase, mode, arg>>

\* Mutant: Close closes the channel before it has waited.
CloseQueueEarly(c) ==
  /\ pc[c] \in {"waiting", "waited"} /\ closer = c
  /\ closed' = TRUE
  /\ Goto(c, "out")
  /\ UNCHANGED <<wg, running, closer, phase, mode, arg>>

CloseQueue(c) ==
  /\ pc[c] = "waited" /\ closer = c
  /\ closed' = TRUE
  /\ Goto(c, "out")
  /\ UNCHANGED <<wg, running, closer, phase, mode, arg>>

Waiting(c) == Wake(c) \/ WaitReturn(c) \/ CloseQueue(c)

-----------------------------------------------------------------------------
(***************************************************************************)
(* Properties of either pool.                                              *)
(***************************************************************************)
CallsTypeOK ==
  /\ wg \in Int
  /\ running \in Int
  /\ closed \in BOOLEAN
  /\ closer \in Clients \cup {None}
  /\ phase \in [Jobs -> JobPhases]
  /\ mode \in [Jobs -> Modes]
  /\ pc \in [Threads -> Points]
  /\ arg \in [Threads -> Jobs \cup {None}]
  /\ \A s \in Threads : pc[s] \in InSubmit => arg[s] # None

\* Jobs the wait group counts.
Pending == {j \in Jobs : phase[j] \notin {"new", "called", "done"}}

\* What Running() counts: jobs that a goroutine has, from the go statement or the
\* receive of a worker to the return; jobs in the channel; and Submits that have
\* counted their job and are still to send it or to start it.
InFlight == {j \in Jobs : phase[j] \in {"ready", "running", "ran"}}
Queued   == {j \in Jobs : phase[j] = "queued"}
Handing  == {s \in Threads : pc[s] \in {"go", "send"}}

\* When Wait or Close has returned, every job submitted before, those that jobs
\* submitted included, has run to its end, and Running() is back to 0.
WaitMeansDone ==
  \A c \in Clients : pc[c] = "waited" =>
    /\ \A j \in Jobs : phase[j] \in {"new", "done"}
    /\ running = 0

\* What Running() returns.  The docs say "the number of running jobs" and "how many
\* goroutines are currently in flight"; it is that number and, in the pooled
\* version, those that wait too: in the channel, which is all Len() counts, or in
\* a Submit that is blocked at its send.  No job is counted twice or missed.
RunningAccounted ==
  running = Cardinality(InFlight) + Cardinality(Queued) + Cardinality(Handing)

\* The calls the interface allows make nothing panic: no send on the closed
\* channel, no wait group below zero or in use again while a Wait returns.
NoPanic == \A s \in Threads : pc[s] # "panic"

\* The abstract pool: a job is pending once it is in the wait group.
Status(j) ==
  CASE phase[j] \in {"new", "called"}                -> "new"
    [] phase[j] \in {"added", "queued", "ready"}     -> "pending"
    [] phase[j] \in {"running", "ran", "uncounted"}  -> "running"
    [] phase[j] = "done"                             -> "done"

JP == INSTANCE JobPool WITH
        status  <- [j \in Jobs |-> Status(j)],
        waiting <- {c \in Clients : pc[c] \in InWait},
        open    <- ~closed

\* The pool does what JobPool promises: jobs run once, Wait and Close return when
\* all are done, and only then.
Implements == JP!FairSpec

=============================================================================
