-------------------------------- MODULE Cover --------------------------------
(***************************************************************************)
(* The position of a shutter whose actuator never tells it                 *)
(* (homeassistant/cover.py and the position of a stored row): telegrams    *)
(* say that an end was reached, or how long the shutter has just run and   *)
(* which way.  The position, a whole percent, is accumulated from these.   *)
(*                                                                         *)
(* Beside it the model keeps the position that the same telegrams amount   *)
(* to without any rounding, in units of 1/ShutTime percent.                *)
(***************************************************************************)
EXTENDS Integers

CONSTANTS
  Covers,      \* the shutters
  ShutTime,    \* the seconds each runs from one end to the other
  Runs         \* the running times of telegrams, in 1/10 s, negative downwards

ASSUME ShutTimeAssumption == ShutTime \in [Covers -> Nat \ {0}]
ASSUME RunsAssumption == Runs \subseteq Int

NoPosition == -1   \* no position stored
Unknown == -1      \* no end position was seen yet, or a movement was not stored

VARIABLES
  position,   \* what the store has
  exact,      \* the position without rounding
  moves       \* how many movements were added since the last end position

coverVars == <<position, exact, moves>>

CoverTypeOK ==
  /\ position \in [Covers -> {NoPosition} \cup 0..100]
  /\ exact \in [Covers -> {Unknown} \cup Nat]
  /\ moves \in [Covers -> Nat]

CoverInit ==
  /\ position = [c \in Covers |-> NoPosition]
  /\ exact = [c \in Covers |-> Unknown]
  /\ moves = [c \in Covers |-> 0]

Clamp(n, high) == IF n < 0 THEN 0 ELSE IF n > high THEN high ELSE n

\* mutant: the position is rounded to the nearest percent
MovedRounds(c, from, run) ==
  LET base == IF from = NoPosition THEN 0 ELSE from
  IN {Clamp((base * ShutTime[c] + 10 * run + ShutTime[c] \div 2) \div ShutTime[c], 100)}
\* The positions that a movement may lead to.  The result is cut to a whole percent; where it is
\* one already, the floating point division may have come out just below it.
Moved(c, from, run) ==
  LET base == IF from = NoPosition THEN 0 ELSE from
      way == base * ShutTime[c] + 10 * run
      cut == way \div ShutTime[c]
  IN {Clamp(cut, 100)} \cup (IF way = cut * ShutTime[c] THEN {Clamp(cut - 1, 100)} ELSE {})

\* An end position is stored.
End(c, p) ==
  /\ p \in {0, 100}
  /\ position' = [position EXCEPT ![c] = p]
  /\ exact' = [exact EXCEPT ![c] = p * ShutTime[c]]
  /\ moves' = [moves EXCEPT ![c] = 0]

\* A movement is added, and position p stored.
Move(c, run, p) ==
  /\ p \in Moved(c, position[c], run)
  /\ position' = [position EXCEPT ![c] = p]
  /\ exact' = IF exact[c] = Unknown THEN exact
              ELSE [exact EXCEPT ![c] = Clamp(@ + 10 * run, 100 * ShutTime[c])]
  /\ moves' = [moves EXCEPT ![c] = @ + 1]

\* A telegram's position is not stored: there is no row for the cover, or the store fails.
Missed(c) == exact' = [exact EXCEPT ![c] = Unknown] /\ UNCHANGED <<position, moves>>

\* The row of the cover is deleted, and its position with it.
Forget(c) ==
  /\ position' = [position EXCEPT ![c] = NoPosition]
  /\ exact' = [exact EXCEPT ![c] = Unknown]
  /\ moves' = [moves EXCEPT ![c] = 0]

CoverNext ==
  \E c \in Covers :
    \/ \E p \in {0, 100} : End(c, p)
    \/ \E run \in Runs : \E p \in Moved(c, position[c], run) : Move(c, run, p)
    \/ Missed(c) \/ Forget(c)

CoverSpec == CoverInit /\ [][CoverNext]_coverVars

\* The position is never above the one that the telegrams amount to, and falls behind it by at
\* most one percent for each movement since the last end position: rounding accumulates (it
\* always goes the same way), but no faster, whatever the directions, and the ends, where the
\* position is clamped, do not lose what was gathered.
DriftBounded ==
  \A c \in Covers : exact[c] # Unknown =>
    /\ position[c] * ShutTime[c] <= exact[c]
    /\ exact[c] <= (position[c] + moves[c]) * ShutTime[c]
=============================================================================
