---------------------------- MODULE LimitedPool ----------------------------
(***************************************************************************)
(* Package goroutines/limited: a goroutine per job, and a channel of Size  *)
(* slots that a Submit takes one of, unless it is NonBlocking.             *)
(***************************************************************************)
EXTENDS PoolCalls

CONSTANT Size
ASSUME SizeAssumption == Size \in Nat \ {0}

VARIABLE slots  \* len(p.queue)

vars == <<callVars, slots>>

Init == CallsInit /\ slots = 0

-----------------------------------------------------------------------------
\* Submit is called: a NonBlocking one needs no slot.
SubmitCall(s) ==
  /\ \E j \in Jobs, m \in Modes :
       Call(s, j, m, IF m = "blocking" THEN "acquire" ELSE "add")
  /\ UNCHANGED slots

Acquire(s) ==
  /\ pc[s] = "acquire"
  /\ closed \/ slots < Size
  /\ slots' = IF closed THEN slots ELSE slots + 1
  /\ Goto(s, IF closed THEN "panic" ELSE "add")
  /\ UNCHANGED <<wg, running, closed, closer, phase, mode, arg>>

\* The go statement.
Go(s) ==
  /\ pc[s] = "go"
  /\ Reach(arg[s], "ready")
  /\ Goto(s, IF mode[arg[s]] = "blocking" THEN "release" ELSE "out")
  /\ UNCHANGED <<wg, running, closed, closer, mode, arg, slots>>

\* Mutant: Submit keeps its slot.
ReleaseNothing(s) ==
  /\ pc[s] = "release"
  /\ Goto(s, "out")
  /\ UNCHANGED <<wg, running, closed, closer, phase, mode, arg, slots>>

\* The deferred <-p.queue, when Submit returns.
Release(s) ==
  /\ pc[s] = "release"
  /\ slots' = slots - 1
  /\ Goto(s, "out")
  /\ UNCHANGED <<wg, running, closed, closer, phase, mode, arg>>

Submit(s) ==
  \/ Acquire(s)
  \/ Add(s) /\ UNCHANGED slots
  \/ CountUp(s, "go") /\ UNCHANGED slots
  \/ Go(s)
  \/ Release(s)

Run(j) == (Start(j) \/ Return(j) \/ Finish(j)) /\ UNCHANGED slots

Next ==
  \/ \E s \in Threads : SubmitCall(s) \/ Submit(s)
  \/ \E j \in Jobs : Run(j)
  \/ \E c \in Clients : (Wait(c) \/ Waiting(c)) /\ UNCHANGED slots

Spec == Init /\ [][Next]_vars

\* Goroutines keep running, jobs return and what is ready is done.  Nobody is
\* forced to submit, to wait or to close.  A send to the channel is served in
\* the order of arrival, so weak fairness is less than the runtime grants.
Fairness ==
  /\ \A s \in Threads : WF_vars(Submit(s))
  /\ \A j \in Jobs : WF_vars(Run(j))
  /\ \A c \in Clients : WF_vars(Waiting(c) /\ UNCHANGED slots)

FairSpec == Spec /\ Fairness

-----------------------------------------------------------------------------
\* A slot is taken exactly while a blocking Submit is under way: none leaks, so
\* Len() is back to 0 when every Submit has returned.
SlotsBalanced ==
  slots = Cardinality({s \in Threads :
                         \/ pc[s] = "release"
                         \/ pc[s] \in {"add", "count", "go"}
                              /\ mode[arg[s]] = "blocking"})

\* Every variable has its type, and the slots are those of the Submits under way.
TypeOK == CallsTypeOK /\ slots \in 0 .. Size /\ SlotsBalanced

\* Every Submit returns, though the slots are all taken when it is called.
SubmitReturns == \A s \in Threads : pc[s] \in InSubmit ~> pc[s] = "out"

\* What the package says and the code does not do: it "is hard limited to the
\* number of goroutines that can run at any time", NonBlocking ones apart.
HardLimit ==
  Cardinality({j \in Jobs : phase[j] = "running" /\ mode[j] = "blocking"}) <= Size

=============================================================================
