------------------------------- MODULE Errors -------------------------------
(***************************************************************************)
(* goroutines.Errors: a slice of errors and a mutex, in which goroutines   *)
(* record one error each.  The append is a read of the slice and a later   *)
(* write of it.  Error and Errors read it without the mutex.               *)
(***************************************************************************)
EXTENDS Sequences

CONSTANT Recorders  \* the goroutines, and the errors that they record

VARIABLES
  errors,  \* the slice
  mu,      \* the mutex: who holds it
  at,      \* per recorder: where it is in Record
  seen     \* per recorder: the slice it has read

errorVars == <<errors, mu, at, seen>>

ErrorsInit ==
  /\ errors = <<>>
  /\ mu = {}
  /\ at = [r \in Recorders |-> "idle"]
  /\ seen = [r \in Recorders |-> <<>>]

InRecord(r) == at[r] \in {"lock", "read", "append", "unlock"}

Move(r, from, to) == at[r] = from /\ at' = [at EXCEPT ![r] = to]

RecordCall(r) == Move(r, "idle", "lock") /\ UNCHANGED <<errors, mu, seen>>

\* Mutant: Record does not wait for the mutex.
LockNot(r) == Move(r, "lock", "read") /\ mu' = mu \cup {r} /\ UNCHANGED <<errors, seen>>

Lock(r) ==
  /\ Move(r, "lock", "read")
  /\ mu = {} /\ mu' = {r}
  /\ UNCHANGED <<errors, seen>>

Read(r) ==
  /\ Move(r, "read", "append")
  /\ seen' = [seen EXCEPT ![r] = errors]
  /\ UNCHANGED <<errors, mu>>

\* Mutant: it is put first.
PrependErr(r) ==
  /\ Move(r, "append", "unlock")
  /\ errors' = <<r>> \o seen[r]
  /\ UNCHANGED <<mu, seen>>

AppendErr(r) ==
  /\ Move(r, "append", "unlock")
  /\ errors' = Append(seen[r], r)
  /\ UNCHANGED <<mu, seen>>

Unlock(r) ==
  /\ Move(r, "unlock", "recorded")
  /\ mu' = mu \ {r}
  /\ UNCHANGED <<errors, seen>>

Record(r) == Lock(r) \/ Read(r) \/ AppendErr(r) \/ Unlock(r)

\* Error, of a slice that is not empty, and Errors.
Error  == Head(errors)
AllErrors == errors

=============================================================================
