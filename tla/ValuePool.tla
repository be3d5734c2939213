------------------------------ MODULE ValuePool -----------------------------
(***************************************************************************)
(* What a pool of reusable values promises its users, whatever it keeps    *)
(* them in: a value is lent to one user at a time, and comes back to the   *)
(* pool only from the user who has it.  A value that the pool does not     *)
(* have is a new one.  The pool may lose what it has.                      *)
(***************************************************************************)
CONSTANTS Users, Values, None

VARIABLES
  held,   \* per user: the value it has, or None
  pooled  \* the values in the pool

vars == <<held, pooled>>

Init ==
  /\ held = [u \in Users |-> None]
  /\ pooled \in SUBSET Values

Free(v) == \A u \in Users : held[u] # v

Get(u) ==
  /\ held[u] = None
  /\ \E v \in Values :
       /\ Free(v)
       /\ held' = [held EXCEPT ![u] = v]
       /\ pooled' = pooled \ {v}

Put(u) ==
  /\ held[u] # None
  /\ pooled' \in {pooled \cup {held[u]}, pooled}
  /\ held' = [held EXCEPT ![u] = None]

Lose ==
  /\ \E v \in pooled : pooled' = pooled \ {v}
  /\ UNCHANGED held

Next == Lose \/ \E u \in Users : Get(u) \/ Put(u)

Spec == Init /\ [][Next]_vars

=============================================================================
