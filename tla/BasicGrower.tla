----------------------------- MODULE BasicGrower ----------------------------
(***************************************************************************)
(* A ptrpool.Pool whose Grower is a BasicGrower, with the ticker that      *)
(* calls it.  PtrPool takes any Grower; here its answers come from the     *)
(* sync.Pool's pulls since the last tick and from noGrowth, the one        *)
(* variable of a BasicGrower.                                              *)
(***************************************************************************)
EXTENDS PtrPool

CONSTANTS
  BasicSettings,  \* the settings with a BasicGrower; the others have any
  Secs            \* the MeasurementSpan in seconds: validate wants one at least

ASSUME BasicAssumption == BasicSettings \subseteq Settings /\ Secs \in Nat \ {0}

(***************************************************************************)
(* What PtrPool asks of a Grower, "this must return a positive value", is  *)
(* all that its constants have to allow: positive answers that add no more *)
(* than the pulls to a size the pool can have.                             *)
(***************************************************************************)
ASSUME GrowerAssumption ==
  \A s \in BasicSettings :
    LET Most == s.base + MaxGets \div Secs
    IN  \A size \in 1 .. Most, pulls \in 0 .. MaxGets, v \in 1 .. Most :
          v <= size + pulls => v \in Answers /\ Grower(size, pulls, v)

VARIABLE noGrowth

basicVars == <<vars, noGrowth>>

Basic == settings \in BasicSettings

BasicInit == Init /\ noGrowth = 0

-----------------------------------------------------------------------------
\* Mutant: the count starts again one period too early.
IdlePeriodsShort == IF PoolPulls > 0 THEN noGrowth ELSE (noGrowth + 1) % 3

\* noGrowth counts the periods without pulls since it was last 4; one with
\* pulls leaves it as it is.
IdlePeriods == IF PoolPulls > 0 THEN noGrowth ELSE (noGrowth + 1) % 4

\* The new capacity.  int(float64(size) * .10) is size \div 10.
Answer(size) ==
  CASE PoolPulls > 0                    -> size + PoolPulls \div Secs
    [] PoolPulls = 0 /\ noGrowth = 3 -> size - size \div 10
    [] OTHER                            -> size

\* A tick, with the BasicGrower's answer.
BasicMeasure ==
  /\ Basic
  /\ Tick(Answer(capacity[freelist]))
  /\ noGrowth' = IF freelist # Nil THEN IdlePeriods ELSE noGrowth

\* The steps of PtrPool, but for the other Growers' answers to a BasicGrower's pool.
PoolSteps ==
  \/ \E u \in Users : GetLoad(u) \/ Get(u) \/ UserWrites(u) \/ Put(u)
  \/ SyncPoolGC
  \/ ~Basic /\ GrowthMeasure
  \/ Growth \/ GrowerExit
  \/ Close

BasicNext == BasicMeasure \/ (PoolSteps /\ UNCHANGED noGrowth)

BasicSpec == BasicInit /\ [][BasicNext]_basicVars

\* That of PtrPool; and the ticker ticks until the pool is closed, though a
\* growth may be under way when it does.
BasicFairness ==
  /\ \A u \in Users : /\ WF_basicVars(Get(u) /\ UNCHANGED noGrowth)
                      /\ WF_basicVars(Put(u) /\ UNCHANGED noGrowth)
                      /\ SF_basicVars(GetReceive(u) /\ UNCHANGED noGrowth)
  /\ WF_basicVars(Growth /\ UNCHANGED noGrowth)
  /\ SF_basicVars(GrowerExit /\ UNCHANGED noGrowth)
  /\ SF_basicVars(BasicMeasure)

BasicFairSpec == BasicSpec /\ BasicFairness

-----------------------------------------------------------------------------
(***************************************************************************)
(* The freelist "will grow by the average number of values that were       *)
(* missed per second": over any number of periods, growths and shrinks it  *)
(* has grown by no more than all the pulls there have been, divided by the *)
(* seconds of one period.  No pull is measured twice, though users go on   *)
(* pulling while the grower measures, swaps and drains.                    *)
(***************************************************************************)
Larger(x, y) == IF x < y THEN y ELSE x

GrowthAccounted ==
  Basic =>
    Larger(target, IF freelist = Nil THEN 0 ELSE capacity[freelist])
      <= settings.base + stats["SyncPoolAllocated"] \div Secs

(***************************************************************************)
(* A pool that nobody takes values from any more gives back what it grew   *)
(* by: of 10 places or more it loses some, period after period, until it   *)
(* is back at its Base, or is closed.                                      *)
(***************************************************************************)
Idle == gets = MaxGets /\ \A u \in Users : pc[u] = "idle"

IdleShrinks ==
  Basic /\ Idle /\ settings.base >= 9
    ~> closed \/ capacity[freelist] = settings.base

=============================================================================
