---------------------------- MODULE LimitedErrors ---------------------------
(***************************************************************************)
(* Jobs of a limited pool that record their errors in an Errors, which a   *)
(* client reads when Wait has returned: what the two packages are for      *)
(* together.                                                               *)
(***************************************************************************)
EXTENDS LimitedPool, Errors

ASSUME RecordersAssumption == Recorders = Jobs

jobVars == <<vars, errorVars>>

JobsInit == Init /\ ErrorsInit

\* A job calls Record while it runs, once at most.
JobRecords(j) ==
  /\ \/ phase[j] = "running" /\ pc[j] = "out" /\ RecordCall(j)
     \/ Record(j)
  /\ UNCHANGED vars

\* A job in Record neither returns nor submits.
PoolStep(A) ==
  /\ A
  /\ \A j \in Jobs : InRecord(j) => phase'[j] = phase[j] /\ pc'[j] = pc[j]
  /\ UNCHANGED errorVars

JobsNext == PoolStep(Next) \/ \E j \in Jobs : JobRecords(j)

JobsSpec == JobsInit /\ [][JobsNext]_jobVars

\* As that of the pool; a Record that has been called goes on.
JobsFairness ==
  /\ \A s \in Threads : WF_jobVars(PoolStep(Submit(s)))
  /\ \A j \in Jobs : WF_jobVars(PoolStep(Run(j)))
  /\ \A j \in Jobs : WF_jobVars(Record(j) /\ UNCHANGED vars)
  /\ \A c \in Clients : WF_jobVars(PoolStep(Waiting(c) /\ UNCHANGED slots))

JobsFairSpec == JobsSpec /\ JobsFairness

-----------------------------------------------------------------------------
\* The type invariants of the pool and of the Errors.
JobsTypeOK ==
  /\ TypeOK
  /\ errors \in Seq(Jobs) /\ mu \in SUBSET Jobs
  /\ at \in [Jobs -> {"idle", "lock", "read", "append", "unlock", "recorded"}]
  /\ seen \in [Jobs -> Seq(Jobs)]

\* A client that has waited may read without the lock: nobody is in Record,
\* and every error that a job recorded is there once, whoever recorded another
\* one at the same time.
ErrorsComplete ==
  \A c \in Clients : pc[c] = "waited" =>
    /\ \A j \in Jobs : ~InRecord(j)
    /\ \A j \in Jobs :
         Cardinality({i \in DOMAIN AllErrors : AllErrors[i] = j})
           = IF at[j] = "recorded" THEN 1 ELSE 0

\* Error returns the first error recorded: what Error and Errors have once
\* returned stays, at the front of whatever is recorded later.
ErrorsStay ==
  [][errors # <<>> => /\ Error' = Error
                      /\ SubSeq(errors', 1, Len(errors)) = AllErrors]_errors

=============================================================================
