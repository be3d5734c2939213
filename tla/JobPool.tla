------------------------------ MODULE JobPool ------------------------------
(***************************************************************************)
(* What a pool of goroutines promises (interface goroutines.Pool): a job   *)
(* that is submitted is run once, and Wait and Close return when, and only *)
(* when, all jobs are done.  How many run at a time is not said here.      *)
(***************************************************************************)
CONSTANTS Clients, Jobs

VARIABLES
  status,   \* per job: new, pending, running or done
  waiting,  \* the clients in Wait or Close
  open      \* the pool has not been closed

vars == <<status, waiting, open>>

Init ==
  /\ status = [j \in Jobs |-> "new"]
  /\ waiting = {}
  /\ open = TRUE

AllDone == \A j \in Jobs : status[j] \in {"new", "done"}

Advance(j, from, to) ==
  /\ status[j] = from
  /\ status' = [status EXCEPT ![j] = to]
  /\ UNCHANGED <<waiting, open>>

\* While somebody waits only a running job may submit another.
Submit(j) ==
  /\ open
  /\ waiting # {} => \E k \in Jobs : status[k] = "running"
  /\ Advance(j, "new", "pending")

Start(j)  == Advance(j, "pending", "running")
Finish(j) == Advance(j, "running", "done")

Wait(c) ==
  /\ open
  /\ waiting' = waiting \cup {c}
  /\ UNCHANGED <<status, open>>

\* Wait or Close returns.
Return(c) ==
  /\ c \in waiting
  /\ AllDone
  /\ waiting' = waiting \ {c}
  /\ open' \in {open, FALSE}
  /\ UNCHANGED status

Next ==
  \/ \E j \in Jobs : Submit(j) \/ Start(j) \/ Finish(j)
  \/ \E c \in Clients : Wait(c) \/ Return(c)

Fairness ==
  /\ \A j \in Jobs : WF_vars(Start(j)) /\ WF_vars(Finish(j))
  /\ \A c \in Clients : WF_vars(Return(c))

Spec     == Init /\ [][Next]_vars
FairSpec == Spec /\ Fairness

=============================================================================
