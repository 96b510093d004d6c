----------------------------- MODULE TokenBucket -----------------------------
(***************************************************************************)
(* What a rate limiter promises: a bucket that fills by Rate each tick up  *)
(* to Capacity, and calls that are let through only against tokens that    *)
(* are there.  Units are fractions of a token, Cost of them to one token.  *)
(***************************************************************************)
EXTENDS Naturals

CONSTANTS Capacity, Cost, Rate

VARIABLES
  level,   \* units in the bucket, refilled at every tick
  taken    \* tokens ever taken

vars == <<level, taken>>

Init == level = Capacity /\ taken = 0

Tick ==
  /\ level' = IF level + Rate > Capacity THEN Capacity ELSE level + Rate
  /\ UNCHANGED taken

\* Some calls are let through at once, each for one token.
Take(n) ==
  /\ n * Cost <= level
  /\ level' = level - n * Cost
  /\ taken' = taken + n

Next == Tick \/ \E n \in 1..Capacity : Take(n)

Spec == Init /\ [][Next]_vars
=============================================================================
