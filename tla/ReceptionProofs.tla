--------------------------- MODULE ReceptionProofs ---------------------------
(***************************************************************************)
(* Theorems about Cover, for any shutters, travel times and movements, and *)
(* about Reception: what the stream of telegrams does to the positions of  *)
(* shutters is what Cover allows, so that the bound on the drift of a      *)
(* position carries over to it; the broker retains what is stored,         *)
(* whatever becomes of telegrams, connections and the process; bytes stay  *)
(* bytes, from the checksum up to the positions read from them; a frame    *)
(* that is built is read, one with a byte altered is refused, it alone;    *)
(* and however the stream is cut into pieces, each frame that arrives      *)
(* unaltered is told, once and in order.                                   *)
(***************************************************************************)
EXTENDS Reception, ChainProofs, FiniteSetTheorems, TLAPS

(***************************************************************************)
(* The bound on the drift.  With s the travel time, everything is compared *)
(* in units of 1/s percent.  A movement takes position p and the exact     *)
(* position e with p*s <= e <= (p+m)*s to the clamped values of a whole    *)
(* percent q and of e + run, where q*s lies at most s below p*s + run      *)
(* (CutBounds); clamping keeps the order of two values and does not widen  *)
(* their distance (ClampMonotone, ClampNarrows).                           *)
(***************************************************************************)

\* Clamping keeps order.
LEMMA ClampMonotone ==
  ASSUME NEW a \in Int, NEW b \in Int, NEW h \in Nat, a <= b
  PROVE  Clamp(a, h) <= Clamp(b, h)
  BY DEF Clamp

\* Clamping does not widen the distance of two values.
LEMMA ClampNarrows ==
  ASSUME NEW a \in Int, NEW b \in Int, NEW d \in Nat, NEW h \in Nat, b <= a + d
  PROVE  Clamp(b, h) <= Clamp(a, h) + d
  BY DEF Clamp

LEMMA ClampRange ==
  ASSUME NEW a \in Int, NEW h \in Nat
  PROVE  Clamp(a, h) \in 0..h
  BY DEF Clamp

\* Products with a fixed positive factor.
LEMMA TimesMonotone ==
  ASSUME NEW s \in Nat \ {0}, NEW a \in Int, NEW b \in Int, a <= b
  PROVE  a * s <= b * s
  BY SMT

\* Clamping a percentage is clamping its multiple.
LEMMA ClampScales ==
  ASSUME NEW s \in Nat \ {0}, NEW q \in Int
  PROVE  Clamp(q, 100) * s = Clamp(q * s, 100 * s)
<1>1. CASE q < 0
  <2>1. q * s <= (-1) * s  BY <1>1, TimesMonotone
  <2>2. (-1) * s = -s      BY SMT
  <2>3. q * s < 0 /\ q * s \in Int  BY <2>1, <2>2
  <2> QED  BY <1>1, <2>3 DEF Clamp
<1>2. CASE q > 100
  <2>1. 101 * s <= q * s  BY <1>2, TimesMonotone
  <2>2. q * s > 100 * s /\ q * s > 0 /\ q * s \in Int  BY <2>1
  <2> QED  BY <1>2, <2>2 DEF Clamp
<1>3. CASE q \in 0..100
  <2>1. 0 * s <= q * s /\ q * s <= 100 * s  BY <1>3, TimesMonotone
  <2>2. q * s \in Int /\ ~(q * s < 0) /\ ~(q * s > 100 * s)  BY <2>1
  <2> QED  BY <1>3, <2>2 DEF Clamp
<1> QED  BY <1>1, <1>2, <1>3

\* What a movement leads to: the clamped value of a whole percent that is not above the exact
\* result, and less than or just one percent below it.
LEMMA CutBounds ==
  ASSUME NEW c \in Covers, NEW from \in 0..100, NEW run \in Int, NEW p \in Moved(c, from, run)
  PROVE  \E q \in Int : /\ p = Clamp(q, 100)
                        /\ q * ShutTime[c] <= from * ShutTime[c] + 10 * run
                        /\ from * ShutTime[c] + 10 * run <= (q + 1) * ShutTime[c]
<1> DEFINE s == ShutTime[c]
           way == from * s + 10 * run
           cut == way \div s
<1>1. s \in Nat \ {0}  BY ShutTimeAssumption
<1> HIDE DEF s
<1>2. way \in Int  BY <1>1
<1> HIDE DEF way
<1>3. cut \in Int /\ s * cut <= way /\ way < s * cut + s  BY <1>1, <1>2, SMT
<1> HIDE DEF cut
<1>4. s * cut = cut * s /\ (cut + 1) * s = cut * s + s /\ (cut - 1) * s = cut * s - s
      /\ ((cut - 1) + 1) * s = cut * s
  BY <1>1, <1>3, SMT
<1>5. from # NoPosition  BY DEF NoPosition
<1>6. p = Clamp(cut, 100) \/ (way = cut * s /\ p = Clamp(cut - 1, 100))
  BY <1>5 DEF Moved, s, way, cut
<1>7. CASE p = Clamp(cut, 100)
  BY <1>1, <1>2, <1>3, <1>4, <1>7 DEF s, way
<1>8. CASE way = cut * s /\ p = Clamp(cut - 1, 100)
  <2>1. (cut - 1) * s <= way /\ way <= ((cut - 1) + 1) * s  BY <1>1, <1>2, <1>3, <1>4, <1>8
  <2>2. cut - 1 \in Int  BY <1>3
  <2> QED  BY <1>8, <2>1, <2>2 DEF s, way
<1> QED  BY <1>6, <1>7, <1>8

LEMMA MovedRange ==
  ASSUME NEW c \in Covers, NEW from \in {NoPosition} \cup 0..100, NEW run \in Int,
         NEW p \in Moved(c, from, run)
  PROVE  p \in 0..100
<1> DEFINE base == IF from = NoPosition THEN 0 ELSE from
           cut == (base * ShutTime[c] + 10 * run) \div ShutTime[c]
<1>1. ShutTime[c] \in Nat \ {0} /\ base \in Int  BY ShutTimeAssumption
<1> HIDE DEF base
<1>2. base * ShutTime[c] + 10 * run \in Int  BY <1>1
<1>3. cut \in Int  BY <1>1, <1>2, SMT
<1> HIDE DEF cut
<1>4. p = Clamp(cut, 100) \/ p = Clamp(cut - 1, 100)  BY DEF Moved, base, cut
<1>5. cut - 1 \in Int  BY <1>3
<1>6. Clamp(cut, 100) \in 0..100  BY <1>3, ClampRange
<1>7. Clamp(cut - 1, 100) \in 0..100  BY <1>5, ClampRange
<1> QED  BY <1>4, <1>6, <1>7

\* The arithmetic of one movement.
LEMMA MoveKeepsBounds ==
  ASSUME NEW s \in Nat \ {0}, NEW p \in 0..100, NEW e \in Nat, NEW m \in Nat, NEW run \in Int,
         NEW q \in Int,
         p * s <= e, e <= (p + m) * s,
         q * s <= p * s + 10 * run, p * s + 10 * run <= (q + 1) * s
  PROVE  /\ Clamp(q, 100) * s <= Clamp(e + 10 * run, 100 * s)
         /\ Clamp(e + 10 * run, 100 * s) <= (Clamp(q, 100) + (m + 1)) * s
<1> DEFINE qs == q * s
           ms == m * s
           ps == p * s
<1>1. qs \in Int /\ ms \in Nat /\ ps \in Int  BY SMT
<1>2. (p + m) * s = ps + ms /\ (q + 1) * s = qs + s  BY SMT
<1>3. (m + 1) * s = ms + s /\ (m + 1) * s \in Nat /\ 100 * s \in Nat  BY SMT
<1>4. Clamp(q, 100) * s = Clamp(qs, 100 * s)  BY ClampScales
<1>5. qs <= e + 10 * run  BY <1>1
<1>6. e + 10 * run <= qs + (m + 1) * s  BY <1>1, <1>2, <1>3
<1> HIDE DEF qs, ms, ps
<1>7. Clamp(qs, 100 * s) <= Clamp(e + 10 * run, 100 * s)
  BY <1>1, <1>3, <1>5, ClampMonotone
<1>8. Clamp(e + 10 * run, 100 * s) <= Clamp(qs, 100 * s) + (m + 1) * s
  BY <1>1, <1>3, <1>6, ClampNarrows
<1>9. Clamp(q, 100) \in Int  BY ClampRange
<1>10. (Clamp(q, 100) + (m + 1)) * s = Clamp(q, 100) * s + (m + 1) * s  BY <1>9, SMT
<1> QED  BY <1>4, <1>7, <1>8, <1>10

---------------------------------------------------------------------------
(* The inductive invariant: where the exact position is known, a position  *)
(* is stored, and the two are bounded.                                     *)

CoverInv ==
  /\ CoverTypeOK
  /\ \A c \in Covers : exact[c] # Unknown => position[c] \in 0..100
  /\ DriftBounded

LEMMA CoverInitInv == CoverInit => CoverInv
  BY DEF CoverInit, CoverInv, CoverTypeOK, DriftBounded, Unknown, NoPosition

LEMMA EndKeepsInv ==
  ASSUME CoverInv, NEW c \in Covers, NEW p \in {0, 100}, End(c, p)
  PROVE  CoverInv'
<1>1. ShutTime[c] \in Nat \ {0}  BY ShutTimeAssumption
<1>2. p * ShutTime[c] \in Nat /\ (p + 0) * ShutTime[c] = p * ShutTime[c]  BY <1>1
<1>3. CoverTypeOK'
  BY <1>2 DEF CoverInv, CoverTypeOK, End
<1>4. ASSUME NEW d \in Covers, exact'[d] # Unknown
      PROVE  /\ position'[d] \in 0..100
             /\ position'[d] * ShutTime[d] <= exact'[d]
             /\ exact'[d] <= (position'[d] + moves'[d]) * ShutTime[d]
  <2>1. CASE d = c
    <3>1. position'[d] = p /\ exact'[d] = p * ShutTime[c] /\ moves'[d] = 0
      BY <2>1 DEF CoverInv, CoverTypeOK, End
    <3> QED  BY <1>2, <2>1, <3>1
  <2>2. CASE d # c
    <3>1. position'[d] = position[d] /\ exact'[d] = exact[d] /\ moves'[d] = moves[d]
      BY <2>2 DEF CoverInv, CoverTypeOK, End
    <3> QED  BY <1>4, <3>1 DEF CoverInv, DriftBounded
  <2> QED  BY <2>1, <2>2
<1> QED  BY <1>3, <1>4 DEF CoverInv, DriftBounded

LEMMA MoveKeepsInv ==
  ASSUME CoverInv, NEW c \in Covers, NEW run \in Int, NEW p \in 0..100, Move(c, run, p)
  PROVE  CoverInv'
<1> DEFINE s == ShutTime[c]
<1>1. s \in Nat \ {0} /\ 100 * s \in Nat  BY ShutTimeAssumption
<1>2. exact[c] \in {Unknown} \cup Nat /\ moves[c] \in Nat  BY DEF CoverInv, CoverTypeOK
<1>3. position'[c] = p /\ moves'[c] = moves[c] + 1
  BY DEF CoverInv, CoverTypeOK, Move
<1>4. exact[c] # Unknown => exact'[c] = Clamp(exact[c] + 10 * run, 100 * s)
  BY DEF CoverInv, CoverTypeOK, Move
<1>5. exact[c] # Unknown => Clamp(exact[c] + 10 * run, 100 * s) \in Nat
  <2> SUFFICES ASSUME exact[c] # Unknown PROVE Clamp(exact[c] + 10 * run, 100 * s) \in Nat  OBVIOUS
  <2>1. exact[c] + 10 * run \in Int  BY <1>2
  <2> HIDE DEF s
  <2>2. Clamp(exact[c] + 10 * run, 100 * s) \in 0..(100 * s)  BY <1>1, <2>1, ClampRange
  <2> QED  BY <1>1, <2>2
<1>6. CoverTypeOK'
  BY <1>2, <1>5 DEF CoverInv, CoverTypeOK, Move
<1>7. ASSUME NEW d \in Covers, exact'[d] # Unknown
      PROVE  /\ position'[d] \in 0..100
             /\ position'[d] * ShutTime[d] <= exact'[d]
             /\ exact'[d] <= (position'[d] + moves'[d]) * ShutTime[d]
  <2>1. CASE d = c
    <3>1. exact[c] # Unknown  BY <1>7, <2>1 DEF Move
    <3>2. position[c] \in 0..100 /\ position[c] * s <= exact[c] /\ exact[c] <= (position[c] + moves[c]) * s
      BY <3>1 DEF CoverInv, DriftBounded
    <3>3. p \in Moved(c, position[c], run)  BY DEF Move
    <3>4. PICK q \in Int : /\ p = Clamp(q, 100)
                           /\ q * s <= position[c] * s + 10 * run
                           /\ position[c] * s + 10 * run <= (q + 1) * s
      BY <3>2, <3>3, CutBounds
    <3>5. exact[c] \in Nat  BY <1>2, <3>1
    <3> HIDE DEF s
    <3>6. /\ Clamp(q, 100) * s <= Clamp(exact[c] + 10 * run, 100 * s)
          /\ Clamp(exact[c] + 10 * run, 100 * s) <= (Clamp(q, 100) + (moves[c] + 1)) * s
      BY ZenonT(60), <1>1, <1>2, <3>2, <3>4, <3>5, MoveKeepsBounds
    <3> QED  BY <1>3, <1>4, <2>1, <3>1, <3>4, <3>6 DEF s
  <2>2. CASE d # c
    <3>1. position'[d] = position[d] /\ exact'[d] = exact[d] /\ moves'[d] = moves[d]
      BY <2>2 DEF CoverInv, CoverTypeOK, Move
    <3> QED  BY <1>7, <3>1 DEF CoverInv, DriftBounded
  <2> QED  BY <2>1, <2>2
<1> QED  BY <1>6, <1>7 DEF CoverInv, DriftBounded

LEMMA ForgetKeepsInv ==
  ASSUME CoverInv, NEW c \in Covers, Forget(c)
  PROVE  CoverInv'
  BY DEF CoverInv, CoverTypeOK, DriftBounded, Forget, NoPosition, Unknown

LEMMA CoverStepInv == CoverInv /\ [CoverNext]_coverVars => CoverInv'
<1> SUFFICES ASSUME CoverInv, [CoverNext]_coverVars PROVE CoverInv'  OBVIOUS
<1>1. ASSUME NEW c \in Covers, NEW p \in {0, 100}, End(c, p) PROVE CoverInv'
  BY <1>1, EndKeepsInv
<1>2. ASSUME NEW c \in Covers, NEW run \in Runs, NEW p \in Moved(c, position[c], run), Move(c, run, p)
      PROVE  CoverInv'
  <2>1. position[c] \in {NoPosition} \cup 0..100  BY DEF CoverInv, CoverTypeOK
  <2>2. p \in 0..100  BY <2>1, RunsAssumption, MovedRange
  <2> QED  BY <1>2, <2>2, RunsAssumption, MoveKeepsInv
<1>3. ASSUME NEW c \in Covers, Missed(c) PROVE CoverInv'
  BY <1>3 DEF CoverInv, CoverTypeOK, DriftBounded, Missed, Unknown
<1>4. ASSUME NEW c \in Covers, Forget(c) PROVE CoverInv'
  BY <1>4, ForgetKeepsInv
<1>5. CASE UNCHANGED coverVars
  BY <1>5 DEF CoverInv, CoverTypeOK, DriftBounded, coverVars
<1> QED  BY <1>1, <1>2, <1>3, <1>4, <1>5 DEF CoverNext

\* Every behaviour of the position keeps the invariant, deletions of the row included.
THEOREM CoverConsistent == CoverSpec => []CoverInv
  BY CoverInitInv, CoverStepInv, PTL DEF CoverSpec

\* However long a shutter runs between two of its ends, and whatever its travel time, the position
\* (cover.py) drifts by at most one percent per movement, and always downwards.
THEOREM DriftIsBounded == CoverSpec => []DriftBounded
<1>1. CoverInv => DriftBounded  BY DEF CoverInv
<1> QED  BY <1>1, CoverConsistent, PTL

-----------------------------------------------------------------------------
(* Reception implements Cover.                                             *)


\* The telegram to be framed next, if it is one of a running time, has one of Runs: in the code
\* a number of two bytes with a sign.
RunsHeard ==
  LET says == Says(ParseMsg(buffer).packet)
  IN says.what = "run" => says.n \in Runs

\* Only shutters get a row.
RowsInv == rows \subseteq Covers

LEMMA SaysWhat ==
  ASSUME NEW packet
  PROVE  /\ Says(packet).what \in {"end", "run", "nothing"}
         /\ Says(packet).what = "end" => Says(packet).n \in {0, 100}
  BY DEF Says

\* A position is stored as an end or a movement of a shutter, or missed.
LEMMA StoredCovers ==
  ASSUME NEW c \in Covers, NEW says, NEW p,
         says.what \in {"end", "run"},
         says.what = "end" => says.n \in {0, 100} /\ p = says.n,
         says.what = "run" => says.n \in Runs /\ p \in Moved(c, position[c], says.n),
         Stored(c, says, p)
  PROVE  CoverNext
  <1>1. CASE c \notin rows
    BY <1>1 DEF Stored, CoverNext
  <1>2. CASE c \in rows /\ says.what = "end"
    <2>1. p \in {0, 100} /\ End(c, p)
      BY <1>2 DEF Stored
    <2> QED
      BY <2>1 DEF CoverNext
  <1>3. CASE c \in rows /\ says.what = "run"
    <2>1. says.n \in Runs /\ p \in Moved(c, position[c], says.n) /\ Move(c, says.n, p)
      BY <1>3 DEF Stored
    <2> QED
      BY <2>1 DEF CoverNext
  <1> QED
    BY <1>1, <1>2, <1>3

\* Telling a telegram stores the position first, if it says one of a shutter.
LEMMA TellCovers ==
  ASSUME NEW device, NEW packet, Tell(device, packet),
         Says(packet).what = "run" => Says(packet).n \in Runs
  PROVE  CoverNext \/ UNCHANGED coverVars
  <1> DEFINE says == Says(packet)
             c == device.cover
  <1>1. CASE c \notin Covers \/ says.what = "nothing"
    BY <1>1 DEF Tell
  <1>2. CASE c \in Covers /\ says.what # "nothing"
    <2>1. PICK p \in IF says.what = "end" THEN {says.n} ELSE Moved(c, position[c], says.n) :
            Stored(c, says, p)
      BY <1>2 DEF Tell
    <2>2. says.what \in {"end", "run"} /\ (says.what = "end" => says.n \in {0, 100})
      BY <1>2, SaysWhat
    <2>3. /\ says.what = "end" => p = says.n
          /\ says.what = "run" => says.n \in Runs /\ p \in Moved(c, position[c], says.n)
      BY <2>1
    <2> HIDE DEF says, c
    <2> QED
      BY <1>2, <2>1, <2>2, <2>3, StoredCovers
  <1> QED
    BY <1>1, <1>2

LEMMA FrameCovers ==
  ASSUME RunsHeard, Frame
  PROVE  CoverNext \/ UNCHANGED coverVars
  <1> DEFINE packet == ParseMsg(buffer).packet
  <1>1. UNCHANGED coverVars \/ Tell(Matching(Devices, packet), packet)
    BY DEF Frame
  <1>2. Says(packet).what = "run" => Says(packet).n \in Runs
    BY DEF RunsHeard
  <1> HIDE DEF packet
  <1> QED
    BY <1>1, <1>2, TellCovers

LEMMA RowsStep == RowsInv /\ [Next]_vars => RowsInv'
<1> SUFFICES ASSUME RowsInv, [Next]_vars PROVE RowsInv'
  OBVIOUS
<1>1. CASE Discover
  BY <1>1 DEF Discover, Rows, RowsInv
<1>2. CASE Frame \/ StoreFails \/ Deliver \/ \E c \in Covers : DeleteRow(c)
  BY <1>2 DEF Frame, StoreFails, Deliver, DeleteRow, RowsInv
<1>3. CASE \/ \E f \in DOMAIN Frames, d \in Damages : Send(f, d)
           \/ \E n \in Chunks : Read(n)
           \/ Connect \/ Online \/ NextCover \/ TellPosition
           \/ LinkBreaks \/ TimesOut \/ BrokerDrop \/ Crash
           \/ UNCHANGED vars
  <2>1. UNCHANGED rows
    BY <1>3 DEF Send, Read, Connect, Online, NextCover, TellPosition, LinkBreaks, TimesOut,
                BrokerDrop, Crash, vars
  <2> QED
    BY <2>1 DEF RowsInv
<1> QED
  BY <1>1, <1>2, <1>3 DEF Next

\* Every step of the daemon is one of Cover, or leaves the positions alone.
LEMMA CoverStep == RowsInv /\ RunsHeard /\ [Next]_vars => [CoverNext]_coverVars
<1> SUFFICES ASSUME RowsInv, RunsHeard, [Next]_vars PROVE CoverNext \/ UNCHANGED coverVars
  OBVIOUS
<1>1. CASE Frame
  BY <1>1, FrameCovers
<1>2. CASE StoreFails
  <2>1. PICK c \in rows : Missed(c)
    BY <1>2 DEF StoreFails
  <2> QED
    BY <2>1 DEF RowsInv, CoverNext
<1>3. CASE \/ \E f \in DOMAIN Frames, d \in Damages : Send(f, d)
           \/ \E n \in Chunks : Read(n)
           \/ Connect \/ Deliver \/ Online \/ Discover \/ NextCover \/ TellPosition
           \/ LinkBreaks \/ TimesOut \/ BrokerDrop \/ Crash
  BY <1>3 DEF Send, Read, Connect, Deliver, Online, Discover, NextCover, TellPosition, LinkBreaks,
              TimesOut, BrokerDrop, Crash
<1>4. CASE UNCHANGED vars
  BY <1>4 DEF vars, coverVars
<1>5. CASE \E c \in Covers : DeleteRow(c)
  BY <1>5 DEF DeleteRow, CoverNext
<1> QED
  BY <1>1, <1>2, <1>3, <1>4, <1>5 DEF Next

\* Every shutter has a position, or the mark that it has none.
PositionsInv == DOMAIN position = Covers

LEMMA PositionsStep == PositionsInv /\ [CoverNext]_coverVars => PositionsInv'
  BY DEF PositionsInv, CoverNext, End, Move, Missed, Forget, coverVars

\* What is stored is a position.
LEMMA MovedIsOne ==
  ASSUME NEW c, NEW from, NEW run, NEW p \in Moved(c, from, run)
  PROVE  p # NoPosition
<1>1. ASSUME NEW n PROVE Clamp(n, 100) # -1
  BY DEF Clamp
<1> QED
  BY <1>1 DEF Moved, NoPosition

LEMMA TellRemembers ==
  ASSUME NEW device, NEW packet, Tell(device, packet), PositionsInv
  PROVE  \A c \in Covers : position'[c] = NoPosition => position[c] = NoPosition
<1> DEFINE says == Says(packet)
           d == device.cover
<1>1. CASE d \notin Covers \/ says.what = "nothing"
  BY <1>1 DEF Tell, coverVars
<1>2. CASE d \in Covers /\ says.what # "nothing"
  <2>1. PICK p \in IF says.what = "end" THEN {says.n} ELSE Moved(d, position[d], says.n) :
          Stored(d, says, p)
    BY <1>2 DEF Tell
  <2>2. says.what = "end" => says.n \in {0, 100}
    BY SaysWhat
  <2> HIDE DEF says, d
  <2>3. p # NoPosition
    <3>1. CASE says.what = "end"
      BY <2>1, <2>2, <3>1 DEF NoPosition
    <3>2. CASE says.what # "end"
      BY <2>1, <3>2, MovedIsOne
    <3> QED
      BY <3>1, <3>2
  <2>4. position' = position \/ position' = [position EXCEPT ![d] = p]
    BY <2>1 DEF Stored, Missed, End, Move
  <2>5. ASSUME NEW c \in Covers, position'[c] = NoPosition PROVE position[c] = NoPosition
    <3>1. CASE position' = position
      BY <2>5, <3>1
    <3>2. CASE position' = [position EXCEPT ![d] = p]
      <4>1. position'[c] = IF c = d THEN p ELSE position[c]
        BY <3>2 DEF PositionsInv
      <4> QED
        BY <2>3, <2>5, <4>1
    <3> QED
      BY <2>4, <3>1, <3>2
  <2> QED
    BY <2>5
<1> QED
  BY <1>1, <1>2

\* A position is forgotten with its row only.
LEMMA ForgetStep == PositionsInv /\ [Next]_vars => [ForgottenWithRow]_vars
<1> SUFFICES ASSUME PositionsInv, [Next]_vars, ~UNCHANGED vars PROVE ForgottenWithRow
  OBVIOUS
<1>1. CASE Frame
  <2> DEFINE packet == ParseMsg(buffer).packet
             device == Matching(Devices, packet)
  <2>1. UNCHANGED coverVars \/ Tell(device, packet)
    BY <1>1 DEF Frame
  <2> HIDE DEF packet, device
  <2> QED
    BY <2>1, TellRemembers DEF ForgottenWithRow, coverVars
<1>2. CASE \E c \in Covers : DeleteRow(c)
  BY <1>2 DEF DeleteRow, Forget, ForgottenWithRow
<1>3. CASE \/ \E f \in DOMAIN Frames, d \in Damages : Send(f, d)
           \/ \E n \in Chunks : Read(n)
           \/ Connect \/ Deliver \/ Online \/ Discover \/ NextCover \/ TellPosition
           \/ StoreFails \/ LinkBreaks \/ TimesOut \/ BrokerDrop \/ Crash
  <2>1. UNCHANGED position
    BY <1>3 DEF Send, Read, Connect, Deliver, Online, Discover, NextCover, TellPosition, StoreFails,
                Missed, LinkBreaks, TimesOut, BrokerDrop, Crash, coverVars
  <2> QED
    BY <2>1 DEF ForgottenWithRow
<1> QED
  BY <1>1, <1>2, <1>3 DEF Next

\* For every configuration, every telegram and every fault, Reception implements Cover, and forgets
\* the position of a shutter only with its row.
THEOREM ReceptionKeepsCover == Spec /\ []RunsHeard => CoverKept
<1>1. Init => CoverInit /\ RowsInv /\ PositionsInv
  BY DEF Init, RowsInv, CoverInit, PositionsInv
<1> QED
  BY <1>1, RowsStep, PositionsStep, CoverStep, ForgetStep, PTL DEF Spec, CoverKept, CoverSpec

-----------------------------------------------------------------------------
(* The retained position.                                                  *)

About(message, c) == message.topic = PositionTopic(c)

\* The last message about the shutter in the client says p.
Latest(c, p) ==
  \E i \in 1 .. Len(wire) :
    /\ About(wire[i].message, c) /\ wire[i].message.payload["POS"][1] = p
    /\ \A j \in 1 .. Len(wire) : About(wire[j].message, c) => j <= i
Silent(c) == \A i \in 1 .. Len(wire) : ~About(wire[i].message, c)

\* What the broker retains, or is about to get last, is the stored position.
Current(c) == (Silent(c) /\ retained[c] = position[c]) \/ Latest(c, position[c])

\* The two tasks, and the messages they wait for
TaskOK ==
  /\ setup \in DOMAIN Setups /\ rows \subseteq Rows /\ DOMAIN position = Covers
  /\ mqtt \in [pc : {"down", "discovery", "covers", "clearing", "cleared", "telling", "up"}, todo : Seq(Covers)]
  /\ mqtt.pc \in {"clearing", "cleared", "telling"} => mqtt.todo # <<>>
  /\ radio = [pc |-> radio.pc, todo |-> radio.todo] /\ IsSequence(radio.todo)
  /\ \A i \in 1 .. Len(radio.todo), c \in Covers : ~About(radio.todo[i], c)
  /\ IsSequence(wire)
  /\ \A i \in 1 .. Len(wire) : /\ wire[i] = [by |-> wire[i].by, message |-> wire[i].message]
                               /\ wire[i].by \in {"radio", "mqtt", "nobody"}
  /\ \A i, j \in 1 .. Len(wire) : wire[i].by = "mqtt" =>
       mqtt.pc \in {"clearing", "telling"} /\ (wire[j].by = "mqtt" => i = j)

\* How far the MQTT task has come with announcing the stored positions
Announced ==
  /\ mqtt.pc \in {"covers", "clearing", "cleared", "telling"} =>
       \A c \in rows : position[c] # NoPosition => Has(mqtt.todo, c) \/ Current(c)
  /\ mqtt.pc = "telling" => Head(mqtt.todo) \in rows /\ Current(Head(mqtt.todo))

ToldInv ==
  /\ TaskOK /\ Announced
  /\ \A c \in Covers \ behind : Current(c)
  /\ \A c \in Covers \ rows : position[c] = NoPosition

LEMMA ToldSuffices == ToldInv => PositionTold
<1> SUFFICES ASSUME ToldInv, NEW c \in rows \ behind, ~OnWire(wire, c)
             PROVE  retained[c] = position[c]
  BY DEF PositionTold
<1>1. c \in Covers
  BY DEF ToldInv, TaskOK, Rows
<1>2. Current(c) /\ IsSequence(wire)
  BY <1>1 DEF ToldInv, TaskOK
<1>3. \A i \in 1 .. Len(wire) : ~About(wire[i].message, c)
  <2>1. DOMAIN wire = 1 .. Len(wire)
    BY <1>2 DEF IsSequence
  <2> QED
    BY <2>1 DEF OnWire, About
<1> QED
  BY <1>2, <1>3 DEF Current, Latest

\* A message of one's own topic, of the position's and of the topic that was the position's
LEMMA TopicsApart ==
  ASSUME NEW c, NEW d, NEW p
  PROVE  /\ About(Position(d, p), c) <=> c = d
         /\ Position(d, p).payload["POS"][1] = p
         /\ ~About(Told(LegacyTopic(d), [n \in {} |-> 0]), c)
  BY DEF About, Position, Told, PositionTopic, LegacyTopic, Topic

LEMMA OthersTopics ==
  ASSUME NEW message, NEW c, message.topic.name # c
  PROVE  ~About(message, c)
  BY DEF About, PositionTopic, Topic

\* A message about something else does not change what is current, one with the position makes
\* it current.
LEMMA CurrentAppend ==
  ASSUME IsSequence(wire), NEW x, wire' = Append(wire, x), NEW c, retained'[c] = retained[c],
         \/ Current(c) /\ ~About(x.message, c) /\ position'[c] = position[c]
         \/ About(x.message, c) /\ x.message.payload["POS"][1] = position'[c]
  PROVE  Current(c)'
<1>1. /\ Len(wire) \in Nat /\ Len(wire') = Len(wire) + 1 /\ wire'[Len(wire) + 1] = x
      /\ \A i \in 1 .. Len(wire) : wire'[i] = wire[i]
  BY SequenceIs, SequenceAppend
<1>2. CASE Current(c) /\ ~About(x.message, c) /\ position'[c] = position[c]
  <2>1. CASE Silent(c) /\ retained[c] = position[c]
    <3>1. \A i \in 1 .. Len(wire') : ~About(wire'[i].message, c)
      <4>1. \A i \in 1 .. Len(wire') : i \in 1 .. Len(wire) \/ i = Len(wire) + 1
        BY <1>1
      <4> QED
        BY <1>1, <1>2, <2>1, <4>1 DEF Silent
    <3> QED
      BY <1>2, <2>1, <3>1 DEF Current, Silent, About
  <2>2. CASE Latest(c, position[c])
    <3>1. PICK i \in 1 .. Len(wire) :
            /\ About(wire[i].message, c) /\ wire[i].message.payload["POS"][1] = position[c]
            /\ \A j \in 1 .. Len(wire) : About(wire[j].message, c) => j <= i
      BY <2>2 DEF Latest
    <3>2. i \in 1 .. Len(wire') /\ wire'[i] = wire[i]
      BY <1>1
    <3>3. ASSUME NEW j \in 1 .. Len(wire'), About(wire'[j].message, c) PROVE j <= i
      <4>1. CASE j = Len(wire) + 1
        BY <1>1, <1>2, <3>3, <4>1
      <4>2. CASE j \in 1 .. Len(wire)
        BY <1>1, <3>1, <3>3, <4>2
      <4> QED
        BY <1>1, <4>1, <4>2
    <3>4. Latest(c, position[c])'
      BY <1>2, <3>1, <3>2, <3>3 DEF Latest, About
    <3> QED
      BY <3>4 DEF Current
  <2> QED
    BY <1>2, <2>1, <2>2 DEF Current
<1>3. CASE About(x.message, c) /\ x.message.payload["POS"][1] = position'[c]
  <2> DEFINE i == Len(wire) + 1
  <2>1. i \in 1 .. Len(wire') /\ \A j \in 1 .. Len(wire') : j <= i
    BY <1>1
  <2>2. About(wire'[i].message, c) /\ wire'[i].message.payload["POS"][1] = position'[c]
    BY <1>1, <1>3
  <2> HIDE DEF i
  <2>3. Latest(c, position[c])'
    BY <2>1, <2>2 DEF Latest, About
  <2> QED
    BY <2>3 DEF Current
<1> QED
  BY <1>2, <1>3

\* What the client sends may be forgotten: the broker has it.
LEMMA CurrentDelivered ==
  ASSUME IsSequence(wire), wire # <<>>, NEW c, Current(c), position'[c] = position[c],
         IsSequence(wire'), Len(wire') >= Len(wire) - 1,
         \A i \in 1 .. Len(wire) - 1 : wire'[i] = wire[i + 1],
         \A i \in Len(wire) .. Len(wire') : ~About(wire'[i].message, c),
         retained'[c] = IF About(wire[1].message, c) THEN wire[1].message.payload["POS"][1] ELSE retained[c]
  PROVE  Current(c)'
<1>1. Len(wire) \in Nat /\ Len(wire') \in Nat /\ Len(wire) >= 1
  BY SequenceIs
<1>2. CASE Silent(c) /\ retained[c] = position[c]
  <2>1. ~About(wire[1].message, c)
    BY <1>1, <1>2 DEF Silent
  <2>2. ASSUME NEW i \in 1 .. Len(wire') PROVE ~About(wire'[i].message, c)
    <3>1. CASE i <= Len(wire) - 1
      <4>1. i + 1 \in 1 .. Len(wire) /\ i \in 1 .. Len(wire) - 1
        BY <1>1, <3>1
      <4> QED
        BY <1>2, <4>1 DEF Silent
    <3>2. CASE i >= Len(wire)
      BY <1>1, <3>2
    <3> QED
      BY <1>1, <3>1, <3>2
  <2> QED
    BY <1>2, <2>1, <2>2 DEF Current, Silent, About
<1>3. CASE Latest(c, position[c])
  <2>1. PICK i \in 1 .. Len(wire) :
          /\ About(wire[i].message, c) /\ wire[i].message.payload["POS"][1] = position[c]
          /\ \A j \in 1 .. Len(wire) : About(wire[j].message, c) => j <= i
    BY <1>3 DEF Latest
  <2>2. ASSUME NEW j \in 1 .. Len(wire'), About(wire'[j].message, c) PROVE j <= i - 1
    <3>1. j <= Len(wire) - 1
      BY <1>1, <2>2
    <3>2. j + 1 \in 1 .. Len(wire) /\ j \in 1 .. Len(wire) - 1
      BY <1>1, <3>1
    <3>3. About(wire[j + 1].message, c)
      BY <2>2, <3>2
    <3> QED
      BY <1>1, <2>1, <3>2, <3>3
  <2>3. CASE i = 1
    <3>1. \A j \in 1 .. Len(wire') : ~About(wire'[j].message, c)
      BY <2>2, <2>3
    <3> QED
      BY <2>1, <2>3, <3>1 DEF Current, Silent, About
  <2>4. CASE i # 1
    <3>1. i - 1 \in 1 .. Len(wire) - 1 /\ i - 1 \in 1 .. Len(wire') /\ i - 1 + 1 = i
      BY <1>1, <2>4
    <3>2. wire'[i - 1] = wire[i]
      BY <3>1
    <3> DEFINE k == i - 1
    <3>3. About(wire'[k].message, c) /\ wire'[k].message.payload["POS"][1] = position[c]
      BY <2>1, <3>2
    <3>4. k \in 1 .. Len(wire') /\ \A j \in 1 .. Len(wire') : About(wire'[j].message, c) => j <= k
      BY <2>2, <3>1
    <3> HIDE DEF k
    <3>5. Latest(c, position[c])'
      BY <3>3, <3>4 DEF Latest, About
    <3> QED
      BY <3>5 DEF Current
  <2> QED
    BY <2>3, <2>4
<1> QED
  BY <1>2, <1>3 DEF Current

\* The messages alone matter.
LEMMA CurrentKept ==
  ASSUME NEW c, Current(c), position'[c] = position[c], retained'[c] = retained[c],
         Len(wire') = Len(wire), \A i \in 1 .. Len(wire) : wire'[i].message = wire[i].message
  PROVE  Current(c)'
  BY DEF Current, Silent, Latest, About

\* A message that is lost is one more that the topic has missed.
LEMMA CurrentDropped ==
  ASSUME IsSequence(wire), NEW c \in Covers, Current(c), position'[c] = position[c], retained'[c] = retained[c],
         wire' = <<>>, ~OnWire(wire, c)
  PROVE  Current(c)'
<1>1. Silent(c)
  BY SequenceIs DEF OnWire, Silent, About
<1>2. retained[c] = position[c]
  BY <1>1 DEF Current, Latest, Silent
<1>3. Len(wire') = 0
  OBVIOUS
<1> QED
  BY <1>2, <1>3 DEF Current, Silent

\* What is told of a telegram is on topics of the device's own.
Of(s, name) == IsSequence(s) /\ \A i \in 1 .. Len(s) : s[i].topic.name = name

LEMMA OfConcat ==
  ASSUME NEW s, NEW t, NEW name, Of(s, name), Of(t, name)
  PROVE  Of(s \o t, name)
<1>1. /\ IsSequence(s \o t) /\ Len(s \o t) = Len(s) + Len(t)
      /\ \A i \in 1 .. Len(s) + Len(t) : (s \o t)[i] = IF i <= Len(s) THEN s[i] ELSE t[i - Len(s)]
  BY SequenceConcat DEF Of
<1>2. Len(s) \in Nat /\ Len(t) \in Nat
  BY SequenceIs DEF Of
<1>3. ASSUME NEW i \in 1 .. Len(s) + Len(t) PROVE (s \o t)[i].topic.name = name
  <2>1. CASE i <= Len(s)
    BY <1>1, <1>2, <2>1 DEF Of
  <2>2. CASE i > Len(s)
    <3>1. i - Len(s) \in 1 .. Len(t)
      BY <1>2, <2>2
    <3> QED
      BY <1>1, <1>2, <2>2, <3>1 DEF Of
  <2> QED
    BY <1>2, <2>1, <2>2
<1> QED
  BY <1>1, <1>3 DEF Of

LEMMA OfOne ==
  ASSUME NEW name, NEW groups, NEW field, NEW payload
  PROVE  Of(<<Told(Topic(name, groups, field), payload)>>, name) /\ Of(<<>>, name)
<1> DEFINE message == Told(Topic(name, groups, field), payload)
<1>1. message.topic.name = name
  BY DEF Told, Topic
<1> HIDE DEF message
<1>2. <<message>> \in Seq({message}) /\ Len(<<message>>) = 1 /\ <<message>>[1] = message
  OBVIOUS
<1>3. <<>> \in Seq({message}) /\ Len(<<>>) = 0
  OBVIOUS
<1>4. IsSequence(<<message>>) /\ IsSequence(<<>>)
  BY <1>2, <1>3, IsSeqOf
<1>5. Of(<<message>>, name) /\ Of(<<>>, name)
  BY <1>1, <1>2, <1>3, <1>4 DEF Of
<1> QED
  BY <1>5 DEF message

LEMMA PublicationsOf ==
  ASSUME NEW device, NEW content, NEW order, IsSequence(order)
  PROVE  Of(Publications(device, content, order), device.name)
<1> DEFINE grouped == device.channel # <<>>
           own == Topic(device.name, <<>>, "")
           alone(n) == Told(Topic(device.name, <<>>, n), Part(content, {n}))
           aux == {n \in {"_RSSI_", "_DATE_"} : grouped /\ (IF n = "_RSSI_" THEN device.rssi ELSE device.date)}
           ahead == IF device.json THEN IF aux = {} THEN <<>> ELSE <<Told(own, Part(content, aux))>>
                    ELSE (IF device.rssi THEN <<alone("_RSSI_")>> ELSE <<>>)
                         \o (IF device.date /\ grouped THEN <<alone("_DATE_")>> ELSE <<>>)
           dropped == (IF grouped \/ ~device.json \/ ~device.rssi THEN {"_RSSI_"} ELSE {})
                      \cup (IF device.date THEN {} ELSE {"_DATE_"})
           groups == Only(device.channel, DOMAIN content \ dropped)
           topic == [k \in DOMAIN groups |-> <<groups[k], content[groups[k]]>>]
           kept == DOMAIN content \ (dropped \cup Range(groups))
           each == Only(order, kept)
           rest == [k \in DOMAIN each |-> Told(Topic(device.name, topic, each[k]), Part(content, {each[k]}))]
<1>1. Publications(device, content, order) =
        ahead \o IF device.json THEN <<Told(Topic(device.name, topic, ""), Part(content, kept))>> ELSE rest
  BY DEF Publications
<1>4. Of(ahead, device.name)
  <2>1. CASE device.json
    <3> HIDE DEF aux
    <3> QED
      BY <2>1, OfOne
  <2>2. CASE ~device.json
    <3>1. /\ Of(IF device.rssi THEN <<alone("_RSSI_")>> ELSE <<>>, device.name)
          /\ Of(IF device.date /\ grouped THEN <<alone("_DATE_")>> ELSE <<>>, device.name)
      BY OfOne
    <3> QED
      BY <2>2, <3>1, OfConcat
  <2> QED
    BY <2>1, <2>2
<1> HIDE DEF ahead, kept, topic
<1>2. PICK T : order \in Seq(T)
  BY SequenceIs
<1>3. Of(rest, device.name)
  <2>1. each \in Seq(T)
    BY <1>2, OnlyType
  <2> HIDE DEF each
  <2>2. Len(each) \in Nat /\ DOMAIN each = 1 .. Len(each)
    BY <2>1
  <2>3. rest = [k \in 1 .. Len(each) |-> rest[k]]
    BY <2>2
  <2>4. IsSequence(rest) /\ Len(rest) = Len(each)
    BY <2>2, <2>3, ListIs
  <2>5. \A k \in 1 .. Len(each) : rest[k].topic.name = device.name
    BY <2>2 DEF Told, Topic
  <2> QED
    BY <2>4, <2>5 DEF Of
<1> HIDE DEF rest, each
<1> QED
  <2>1. Of(IF device.json THEN <<Told(Topic(device.name, topic, ""), Part(content, kept))>> ELSE rest, device.name)
    BY <1>3, OfOne
  <2> QED
    BY <1>1, <1>4, <2>1, OfConcat

LEMMA LeastIn ==
  ASSUME NEW S \in SUBSET Nat, S # {}
  PROVE  Min(S) \in S
  BY LeastNat DEF Min

\* A telegram is read by one of the cases of its device.
LEMMA SelectedCase ==
  ASSUME NEW cases, IsSequence(cases), cases # <<>>, NEW data, NEW status, NEW direction, NEW command
  PROVE  \E k \in DOMAIN cases : SelectCase(cases, data, status, direction, command) = cases[k]
<1>1. DOMAIN cases \in SUBSET Nat /\ 1 \in DOMAIN cases
  BY SequenceIs
<1> DEFINE taken == {i \in DOMAIN cases : Takes(cases[i], data, status, direction, command)}
           default == {i \in DOMAIN cases : cases[i].conditions = {} /\ cases[i].direction = None}
<1>2. taken # {} => Min(taken) \in DOMAIN cases
  <2>1. taken \in SUBSET Nat /\ taken \subseteq DOMAIN cases
    BY <1>1
  <2> HIDE DEF taken
  <2> QED
    BY <2>1, LeastIn
<1>3. default # {} => Min(default) \in DOMAIN cases
  <2>1. default \in SUBSET Nat /\ default \subseteq DOMAIN cases
    BY <1>1
  <2> HIDE DEF default
  <2> QED
    BY <2>1, LeastIn
<1>4. SelectCase(cases, data, status, direction, command) =
        cases[IF taken # {} THEN Min(taken) ELSE IF default # {} THEN Min(default) ELSE 1]
  BY DEF SelectCase
<1> HIDE DEF taken, default
<1> QED
  BY <1>1, <1>2, <1>3, <1>4

LEMMA OrderIs ==
  ASSUME NEW device, NEW packet, IsSequence(device.cases), device.cases # <<>>,
         \A k \in DOMAIN device.cases :
           IsSequence(device.cases[k].fields) /\ IsSequence(device.cases[k].status)
  PROVE  IsSequence(Order(device, packet))
<1> DEFINE case == SelectCase(device.cases, BitData(packet.data), ToBits(packet.status, 8), device.direction, None)
           names == [k \in DOMAIN Fields(case) |-> Fields(case)[k].name]
           all == <<"_RSSI_", "_DATE_">> \o names \o <<"_RAW_DATA_", "POS">>
<1>1. IsSequence(Fields(case))
  <2>1. PICK k \in DOMAIN device.cases : case = device.cases[k]
    BY SelectedCase
  <2> HIDE DEF case
  <2>2. IsSequence(case.fields) /\ IsSequence(case.status)
    BY <2>1
  <2> QED
    BY <2>2, SequenceConcat DEF Fields
<1> DEFINE fields == Fields(case)
<1> HIDE DEF case
<1>2. IsSequence(names)
  <2>1. IsSequence(fields)
    BY <1>1
  <2> HIDE DEF fields
  <2>2. Len(fields) \in Nat /\ DOMAIN fields = 1 .. Len(fields)
    BY <2>1, SequenceIs
  <2> DEFINE f == [k \in DOMAIN fields |-> fields[k].name]
  <2>3. f = [k \in 1 .. Len(fields) |-> f[k]]
    BY <2>2
  <2>4. IsSequence(f)
    BY <2>2, <2>3, ListIs
  <2> QED
    BY <2>4 DEF fields
<1> HIDE DEF names
<1>3. IsSequence(<<"_RSSI_", "_DATE_">>) /\ IsSequence(<<"_RAW_DATA_", "POS">>)
  <2>1. /\ <<"_RSSI_", "_DATE_">> \in Seq({"_RSSI_", "_DATE_"})
        /\ <<"_RAW_DATA_", "POS">> \in Seq({"_RAW_DATA_", "POS"})
    OBVIOUS
  <2> QED
    BY <2>1, IsSeqOf
<1>4. IsSequence(all)
  BY <1>2, <1>3, SequenceConcat
<1> DEFINE order == [k \in DOMAIN all |-> IF \E i \in 1..(k - 1) : all[i] = all[k] THEN "" ELSE all[k]]
<1>5. Order(device, packet) = order
  BY DEF Order, case, names
<1> HIDE DEF all
<1>6. Len(all) \in Nat /\ DOMAIN all = 1 .. Len(all)
  BY <1>4, SequenceIs
<1>7. order = [k \in 1 .. Len(all) |-> order[k]]
  BY <1>6
<1> HIDE DEF order
<1> QED
  BY <1>5, <1>6, <1>7, ListIs

\* The configuration in use
LEMMA Configured ==
  ASSUME setup \in DOMAIN Setups
  PROVE  /\ IsSequence(Devices)
         /\ \A i \in DOMAIN Devices :
              /\ Devices[i].name \notin Covers /\ IsSequence(Devices[i].cases)
              /\ \A k \in DOMAIN Devices[i].cases :
                   IsSequence(Devices[i].cases[k].fields) /\ IsSequence(Devices[i].cases[k].status)
              /\ Devices[i].cover \in Covers => \E j \in DOMAIN Devices :
                   Devices[j].cover = Devices[i].cover /\ Devices[j].rorg = Bs4
  BY SetupsAssumption DEF Devices

\* Every shutter with a row is announced.
LEMMA ShuttersAre ==
  ASSUME setup \in DOMAIN Setups
  PROVE  Shutters \in Seq(Covers) /\ \A c \in Rows : Has(Shutters, c)
<1> DEFINE S == {d \in ToSet(Devices) : d.cover \in Covers /\ d.rorg = Bs4}
           fits == Only(Devices, S)
           shutters == [k \in DOMAIN fits |-> fits[k].cover]
<1>1. IsSequence(Devices) /\ \A c \in Rows : \E j \in DOMAIN Devices : Devices[j].cover = c /\ Devices[j].rorg = Bs4
  BY Configured DEF Rows
<1>2. PICK T : Devices \in Seq(T)
  BY <1>1, SequenceIs
<1>3. Shutters = shutters
  BY DEF Shutters, ShuttersOf
<1>4. fits \in Seq(T \cap S) /\ \A x : Has(fits, x) <=> x \in S /\ Has(Devices, x)
  <2> HIDE DEF S
  <2> QED
    BY <1>2, OnlyType, OnlyMembers
<1>5. DOMAIN fits = 1 .. Len(fits) /\ Len(fits) \in Nat /\ \A k \in 1 .. Len(fits) : fits[k] \in S
  <2> HIDE DEF S, fits
  <2> QED
    BY <1>4
<1> HIDE DEF fits
<1>6. shutters \in Seq(Covers) /\ Len(shutters) = Len(fits)
  <2>1. shutters \in [1 .. Len(fits) -> Covers]
    BY <1>5
  <2> HIDE DEF shutters
  <2> QED
    BY <1>5, <2>1, SeqDef, LenProperties
<1>7. ASSUME NEW c \in Rows PROVE Has(shutters, c)
  <2>1. PICK j \in DOMAIN Devices : Devices[j].cover = c /\ Devices[j].rorg = Bs4
    BY <1>1
  <2>2. Devices[j] \in S /\ Has(Devices, Devices[j]) /\ c \in Covers
    BY <1>2, <2>1 DEF ToSet, Has, Rows
  <2> DEFINE d == Devices[j]
  <2>3. d.cover = c /\ Has(fits, d)
    BY <1>4, <2>1, <2>2
  <2> HIDE DEF d
  <2>4. PICK k \in 1 .. Len(fits) : fits[k] = d
    BY <2>3 DEF Has
  <2>5. shutters[k] = c
    BY <1>5, <2>3, <2>4
  <2> HIDE DEF shutters
  <2> QED
    BY <1>6, <2>4, <2>5 DEF Has
<1> HIDE DEF shutters
<1> QED
  BY <1>3, <1>6, <1>7

\* The device a telegram is read as is one of the list, unless it is to be ignored.
LEMMA DeviceIs ==
  ASSUME setup \in DOMAIN Setups, NEW packet, ~Matching(Devices, packet).ignore
  PROVE  \E i \in DOMAIN Devices : Matching(Devices, packet) = Devices[i]
<1> DEFINE fits == {i \in DOMAIN Devices : Matches(Devices[i], packet)}
<1>1. DOMAIN Devices \in SUBSET Nat
  BY Configured, SequenceIs
<1>2. fits # {}
  BY DEF Matching, NoDevice
<1>3. fits \in SUBSET Nat /\ fits \subseteq DOMAIN Devices
  BY <1>1
<1>4. Matching(Devices, packet) = IF fits = {} THEN NoDevice ELSE Devices[Min(fits)]
  BY DEF Matching
<1> HIDE DEF fits
<1> QED
  BY <1>2, <1>3, <1>4, LeastIn

\* What a telegram leads to, apart from a position, is about no shutter.
LEMMA PublicationsElsewhere ==
  ASSUME setup \in DOMAIN Setups, NEW packet, NEW content,
         IsPublished(Matching(Devices, packet), packet)
  PROVE  LET device == Matching(Devices, packet)
             messages == Publications(device, content, Order(device, packet))
         IN IsSequence(messages) /\ \A i \in 1 .. Len(messages), c \in Covers : ~About(messages[i], c)
<1> DEFINE device == Matching(Devices, packet)
           messages == Publications(device, content, Order(device, packet))
<1>1. PICK i \in DOMAIN Devices : device = Devices[i]
  BY DeviceIs DEF IsPublished
<1>2. device.cases # <<>>
  BY DEF IsPublished, Interpretable, Decoded, Parse
<1> HIDE DEF device
<1>3. /\ device.name \notin Covers /\ IsSequence(device.cases)
      /\ \A k \in DOMAIN device.cases : IsSequence(device.cases[k].fields) /\ IsSequence(device.cases[k].status)
  BY <1>1, Configured
<1>4. IsSequence(Order(device, packet))
  BY <1>2, <1>3, OrderIs
<1>5. Of(messages, device.name)
  BY <1>4, PublicationsOf
<1> HIDE DEF messages
<1>6. IsSequence(messages) /\ \A j \in 1 .. Len(messages), c \in Covers : ~About(messages[j], c)
  BY <1>3, <1>5, OthersTopics DEF Of
<1> QED
  BY <1>6 DEF device, messages

LEMMA ToldInit == Init => ToldInv
<1> SUFFICES ASSUME Init PROVE ToldInv
  OBVIOUS
<1>1. IsSequence(<<>>) /\ Len(<<>>) = 0
  <2>1. <<>> \in Seq({})
    OBVIOUS
  <2> QED
    BY <2>1, IsSeqOf
<1>2. radio = [pc |-> radio.pc, todo |-> radio.todo] /\ radio.todo = <<>> /\ wire = <<>>
  BY DEF Init, Unlinked
<1>3. mqtt \in [pc : {"down"}, todo : Seq(Covers)]
  BY DEF Init, Offline
<1>4. TaskOK
  BY <1>1, <1>2, <1>3 DEF TaskOK, Init, CoverInit
<1>5. mqtt.pc = "down"
  BY DEF Init, Offline
<1>6. \A c \in Covers : retained[c] = NoPosition /\ position[c] = NoPosition
  BY DEF Init, CoverInit
<1>7. \A c \in Covers : Current(c)
  BY <1>1, <1>2, <1>6 DEF Current, Silent
<1> QED
  BY <1>4, <1>5, <1>6, <1>7 DEF ToldInv, Announced

\* Steps of the transceiver task that hand nothing over, and steps of the line
LEMMA QuietStep ==
  ASSUME ToldInv, UNCHANGED <<setup, mqtt, wire, rows, retained, behind, position>>,
         radio' = [pc |-> radio'.pc, todo |-> radio'.todo], radio'.todo \in {radio.todo, <<>>}
  PROVE  ToldInv'
<1>1. IsSequence(<<>>) /\ Len(<<>>) = 0
  <2>1. <<>> \in Seq({})
    OBVIOUS
  <2> QED
    BY <2>1, IsSeqOf
<1>2. IsSequence(radio'.todo) /\ \A i \in 1 .. Len(radio'.todo), c \in Covers : ~About(radio'.todo[i], c)
  BY <1>1 DEF ToldInv, TaskOK
<1>3. TaskOK'
  BY <1>2 DEF ToldInv, TaskOK, About, Rows, Devices
<1>4. \A c : Current(c)' <=> Current(c)
  BY DEF Current, Silent, Latest, About
<1> QED
  BY <1>3, <1>4 DEF ToldInv, Announced

LEMMA WireQuiet ==
  ASSUME ToldInv
  PROVE  /\ (\E f \in DOMAIN Frames, d \in Damages : Send(f, d)) => ToldInv'
         /\ (\E n \in Chunks : Read(n)) => ToldInv'
         /\ Connect \/ LinkBreaks \/ StoreFails => ToldInv'
<1>0. radio = [pc |-> radio.pc, todo |-> radio.todo]
  BY DEF ToldInv, TaskOK
<1>1. ASSUME NEW f \in DOMAIN Frames, NEW d \in Damages, Send(f, d) PROVE ToldInv'
  <2>1. UNCHANGED <<setup, mqtt, wire, rows, retained, behind, position, radio>>
    BY <1>1 DEF Send, coverVars
  <2> QED
    BY <1>0, <2>1, QuietStep
<1>2. ASSUME NEW n \in Chunks, Read(n) PROVE ToldInv'
  <2>1. UNCHANGED <<setup, mqtt, wire, rows, retained, behind, position>>
    BY <1>2 DEF Read, coverVars
  <2>2. radio' = radio \/ radio' = [radio EXCEPT !.pc = "framing"]
    BY <1>2 DEF Read
  <2>3. radio' = [pc |-> radio'.pc, todo |-> radio'.todo] /\ radio'.todo = radio.todo
    BY <1>0, <2>2
  <2> QED
    BY <2>1, <2>3, QuietStep
<1>3. ASSUME Connect \/ LinkBreaks \/ StoreFails PROVE ToldInv'
  <2>1. UNCHANGED <<setup, mqtt, wire, rows, retained, behind, position>>
    BY <1>3 DEF Connect, LinkBreaks, StoreFails, LinkDown, Missed, coverVars
  <2>2. radio' = Reading \/ radio' = Unlinked
    BY <1>3 DEF Connect, LinkBreaks, StoreFails, LinkDown
  <2>3. radio' = [pc |-> radio'.pc, todo |-> radio'.todo] /\ radio'.todo = <<>>
    BY <2>2 DEF Reading, Unlinked
  <2> QED
    BY <2>1, <2>3, QuietStep
<1> QED
  BY <1>1, <1>2, <1>3

\* A message handed over by the transceiver task
LEMMA RadioHandsOver ==
  ASSUME ToldInv, NEW message, HandOver("radio", message), UNCHANGED <<setup, mqtt, rows, retained>>,
         radio' = [pc |-> radio'.pc, todo |-> radio'.todo], IsSequence(radio'.todo),
         \A i \in 1 .. Len(radio'.todo), c \in Covers : ~About(radio'.todo[i], c),
         DOMAIN position' = Covers,
         \A c \in Covers :
           \/ ~About(message, c) /\ position'[c] = position[c] /\ (c \in behind => c \in behind')
           \/ c \in behind' /\ c \notin rows /\ position'[c] = position[c]
           \/ About(message, c) /\ message.payload["POS"][1] = position'[c] /\ c \in rows
  PROVE  ToldInv'
<1> DEFINE x == [by |-> "radio", message |-> message]
<1>0. x.by = "radio" /\ x.message = message /\ x = [by |-> x.by, message |-> x.message]
  OBVIOUS
<1>1. wire' = Append(wire, x) /\ IsSequence(wire)
  BY DEF HandOver, ToldInv, TaskOK
<1> HIDE DEF x
<1>2. /\ IsSequence(wire') /\ Len(wire) \in Nat /\ Len(wire') = Len(wire) + 1 /\ wire'[Len(wire) + 1] = x
      /\ \A i \in 1 .. Len(wire) : wire'[i] = wire[i]
      /\ \A i \in 1 .. Len(wire') : i \in 1 .. Len(wire) \/ i = Len(wire) + 1
  BY <1>1, SequenceAppend, SequenceIs
<1>3. \A i \in 1 .. Len(wire') : /\ wire'[i] = [by |-> wire'[i].by, message |-> wire'[i].message]
                                 /\ wire'[i].by \in {"radio", "mqtt", "nobody"}
  BY ZenonT(60), <1>0, <1>2 DEF ToldInv, TaskOK
<1>4. \A i \in 1 .. Len(wire') : wire'[i].by = "mqtt" => i \in 1 .. Len(wire) /\ wire[i].by = "mqtt"
  BY <1>0, <1>2
<1>5. \A i, j \in 1 .. Len(wire') : wire'[i].by = "mqtt" =>
        mqtt.pc \in {"clearing", "telling"} /\ (wire'[j].by = "mqtt" => i = j)
  BY <1>4 DEF ToldInv, TaskOK
<1>6. TaskOK'
  BY <1>2, <1>3, <1>5 DEF ToldInv, TaskOK, About, Rows, Devices
<1>7. ASSUME NEW c \in Covers, Current(c), c \in rows \/ c \notin behind' PROVE Current(c)'
  <2>1. \/ ~About(message, c) /\ position'[c] = position[c]
        \/ About(message, c) /\ message.payload["POS"][1] = position'[c]
    BY <1>7
  <2>2. retained'[c] = retained[c]
    OBVIOUS
  <2> QED
    BY <1>0, <1>1, <1>7, <2>1, <2>2, CurrentAppend
<1>8. ASSUME NEW c \in Covers, c \notin behind' PROVE Current(c)'
  <2>1. CASE About(message, c) /\ message.payload["POS"][1] = position'[c]
    BY <1>0, <1>1, <2>1, CurrentAppend
  <2>2. CASE c \notin behind
    BY <1>7, <1>8, <2>2 DEF ToldInv
  <2> QED
    BY <1>8, <2>1, <2>2
<1>9. ASSUME NEW c \in rows, position'[c] # NoPosition PROVE Has(mqtt.todo, c) \/ Current(c)' \/ mqtt.pc \notin {"covers", "clearing", "cleared", "telling"}
  <2>0. c \in Covers
    BY DEF ToldInv, TaskOK, Rows
  <2>1. CASE About(message, c) /\ message.payload["POS"][1] = position'[c]
    BY <1>0, <1>1, <2>1, CurrentAppend
  <2>2. CASE position'[c] = position[c]
    BY <1>7, <1>9, <2>0, <2>2 DEF ToldInv, Announced
  <2> QED
    BY <2>0, <2>1, <2>2
<1>10. ASSUME mqtt.pc = "telling" PROVE Current(Head(mqtt.todo))'
  <2>1. mqtt.todo \in Seq(Covers) /\ mqtt.todo # <<>>
    BY <1>10 DEF ToldInv, TaskOK
  <2> DEFINE c == Head(mqtt.todo)
  <2>2. c \in Covers /\ c \in rows /\ Current(c)
    BY <1>10, <2>1, HeadTailProperties DEF ToldInv, Announced
  <2>3. mqtt' = mqtt
    OBVIOUS
  <2> HIDE DEF c
  <2>4. \A d \in Covers : d = c => Current(d)'
    BY <1>7, <2>2
  <2>5. \A d \in Covers : d = Head(mqtt.todo) => Current(d)'
    BY <2>4 DEF c
  <2>6. mqtt.todo = mqtt'.todo
    BY <2>3
  <2> QED
    BY <2>2, <2>5, <2>6 DEF c
<1> QED
  BY <1>6, <1>8, <1>9, <1>10 DEF ToldInv, Announced

\* The position of a shutter's telegram is stored and handed over in one step, and is then the
\* last that the client has; without a row the shutter counts as behind.
LEMMA StoredSays ==
  ASSUME TaskOK, NEW c \in Covers, NEW says, NEW p, Stored(c, says, p)
  PROVE  /\ DOMAIN position' = Covers
         /\ \A d \in Covers : d # c => position'[d] = position[d] /\ (d \in behind => d \in behind')
         /\ c \in rows => position'[c] = p
         /\ c \notin rows => c \in behind' /\ position'[c] = position[c]
<1>1. DOMAIN position = Covers
  BY DEF TaskOK
<1>2. CASE c \notin rows
  BY <1>1, <1>2 DEF Stored, Missed
<1>3. CASE c \in rows
  <2>1. position' = [position EXCEPT ![c] = p]
    BY <1>3 DEF Stored, End, Move
  <2>2. behind' = behind \ {c}
    BY <1>3 DEF Stored
  <2> QED
    BY <1>1, <1>3, <2>1, <2>2
<1> QED
  BY <1>2, <1>3

LEMMA TellTold ==
  ASSUME ToldInv, NEW packet, IsPublished(Matching(Devices, packet), packet),
         Tell(Matching(Devices, packet), packet), UNCHANGED <<setup, mqtt, rows, retained>>
  PROVE  ToldInv'
<1> DEFINE device == Matching(Devices, packet)
           content == Content(device, packet)
           says == Says(packet)
           order == Order(device, packet)
<1>0. setup \in DOMAIN Setups /\ TaskOK /\ radio = [pc |-> radio.pc, todo |-> radio.todo]
  BY DEF ToldInv, TaskOK
<1>1. ASSUME NEW values
      PROVE  /\ IsSequence(Publications(device, values, order))
             /\ \A i \in 1 .. Len(Publications(device, values, order)), c \in Covers :
                  ~About(Publications(device, values, order)[i], c)
  BY <1>0, PublicationsElsewhere
<1>2. CASE device.cover \notin Covers \/ says.what = "nothing"
  <2>1. Start(Publications(device, content, order)) /\ UNCHANGED <<behind, coverVars>>
    BY <1>2 DEF Tell
  <2> DEFINE messages == Publications(device, content, order)
  <2>2. IsSequence(messages) /\ \A i \in 1 .. Len(messages), c \in Covers : ~About(messages[i], c)
    BY <1>1
  <2> HIDE DEF device, content, says, order, messages
  <2>3. Start(messages)
    BY <2>1 DEF messages
  <2>4. UNCHANGED <<behind, position>>
    BY <2>1 DEF coverVars
  <2>5. CASE messages = <<>>
    <3>1. UNCHANGED <<radio, wire>>
      BY <2>3, <2>5 DEF Start
    <3> QED
      BY <1>0, <2>4, <3>1, QuietStep
  <2>6. CASE messages # <<>>
    <3>1. radio' = [pc |-> "publishing", todo |-> Tail(messages)] /\ HandOver("radio", Head(messages))
      BY <2>3, <2>6 DEF Start
    <3>2. /\ IsSequence(Tail(messages)) /\ Len(messages) >= 1 /\ Len(Tail(messages)) = Len(messages) - 1
          /\ Head(messages) = messages[1] /\ Len(messages) \in Nat
          /\ \A i \in 1 .. Len(Tail(messages)) : Tail(messages)[i] = messages[i + 1]
      BY <2>2, <2>6, SequenceTail, SequenceIs
    <3>3. \A c \in Covers : ~About(Head(messages), c)
      BY <2>2, <3>2
    <3>4. ASSUME NEW i \in 1 .. Len(Tail(messages)), NEW c \in Covers PROVE ~About(Tail(messages)[i], c)
      <4>1. i + 1 \in 1 .. Len(messages)
        BY <3>2
      <4> QED
        BY <2>2, <3>2, <4>1
    <3>5. /\ radio' = [pc |-> radio'.pc, todo |-> radio'.todo] /\ radio'.todo = Tail(messages)
      BY <3>1
    <3>6. DOMAIN position' = Covers
      BY <1>0, <2>4 DEF TaskOK
    <3>7. /\ IsSequence(radio'.todo)
          /\ \A i \in 1 .. Len(radio'.todo), c \in Covers : ~About(radio'.todo[i], c)
      BY <3>2, <3>4, <3>5
    <3>8. \A c \in Covers : ~About(Head(messages), c) /\ position'[c] = position[c] /\ (c \in behind => c \in behind')
      BY <2>4, <3>3
    <3> HIDE DEF messages
    <3> QED
      BY <3>1, <3>5, <3>6, <3>7, <3>8, RadioHandsOver
  <2> QED
    BY <2>5, <2>6
<1>3. CASE device.cover \in Covers /\ says.what # "nothing"
  <2> DEFINE c == device.cover
  <2>1. PICK p, whole : /\ Stored(c, says, p)
                        /\ Start(<<Position(c, p)>> \o Publications(device, whole, order))
    BY <1>3 DEF Tell
  <2> DEFINE messages == Publications(device, whole, order)
             first1 == Position(c, p)
             all == <<first1>> \o messages
  <2>2. IsSequence(messages) /\ \A i \in 1 .. Len(messages), d \in Covers : ~About(messages[i], d)
    BY <1>1
  <2>3. Start(all) /\ c \in Covers
    BY <1>3, <2>1
  <2> HIDE DEF device, content, says, order, messages
  <2>4. \A d : About(first1, d) <=> d = c
    BY TopicsApart
  <2>5. first1.payload["POS"][1] = p
    BY TopicsApart
  <2> HIDE DEF first1
  <2>6. <<first1>> \in Seq({first1}) /\ Len(<<first1>>) = 1
    OBVIOUS
  <2>7. IsSequence(<<first1>>)
    BY <2>6, IsSeqOf
  <2>8. /\ IsSequence(all) /\ Len(all) = 1 + Len(messages) /\ Len(messages) \in Nat
        /\ \A i \in 1 .. 1 + Len(messages) : all[i] = IF i <= 1 THEN <<first1>>[i] ELSE messages[i - 1]
    BY <2>2, <2>6, <2>7, SequenceConcat, SequenceIs
  <2> HIDE DEF all
  <2>9. all # <<>> /\ all[1] = first1
    <3>1. 1 \in 1 .. 1 + Len(messages)
      BY <2>8
    <3>2. all[1] = <<first1>>[1]
      BY <2>8, <3>1
    <3> QED
      BY <2>8, <3>2, SequenceIs
  <2>10. radio' = [pc |-> "publishing", todo |-> Tail(all)] /\ HandOver("radio", first1)
    <3>1. Head(all) = all[1]
      BY <2>8, <2>9, SequenceTail
    <3> QED
      BY <2>3, <2>9, <3>1 DEF Start
  <2>11. /\ IsSequence(Tail(all)) /\ Len(Tail(all)) = Len(messages)
         /\ \A i \in 1 .. Len(messages) : Tail(all)[i] = messages[i]
    <3>1. /\ IsSequence(Tail(all)) /\ Len(Tail(all)) = Len(all) - 1
          /\ \A i \in 1 .. Len(Tail(all)) : Tail(all)[i] = all[i + 1]
      BY <2>8, <2>9, SequenceTail
    <3>2. Len(Tail(all)) = Len(messages)
      BY <2>8, <3>1
    <3>3. ASSUME NEW i \in 1 .. Len(messages) PROVE Tail(all)[i] = messages[i]
      <4>1. i + 1 \in 1 .. 1 + Len(messages) /\ ~(i + 1 <= 1) /\ i + 1 - 1 = i
        BY <2>8
      <4>2. all[i + 1] = messages[i + 1 - 1]
        BY <2>8, <4>1
      <4> QED
        BY <3>1, <3>2, <4>1, <4>2
    <3> QED
      BY <3>1, <3>2, <3>3
  <2>12. /\ DOMAIN position' = Covers
         /\ \A d \in Covers : d # c => position'[d] = position[d] /\ (d \in behind => d \in behind')
         /\ c \in rows => position'[c] = p
         /\ c \notin rows => c \in behind' /\ position'[c] = position[c]
    <3> HIDE DEF c
    <3> QED
      BY <1>0, <2>1, <2>3, StoredSays
  <2>13. /\ radio' = [pc |-> radio'.pc, todo |-> radio'.todo] /\ radio'.todo = Tail(all)
    BY <2>10
  <2>14. /\ IsSequence(radio'.todo)
         /\ \A i \in 1 .. Len(radio'.todo), d \in Covers : ~About(radio'.todo[i], d)
    BY <2>2, <2>11, <2>13
  <2>15. \A d \in Covers :
           \/ ~About(first1, d) /\ position'[d] = position[d] /\ (d \in behind => d \in behind')
           \/ d \in behind' /\ d \notin rows /\ position'[d] = position[d]
           \/ About(first1, d) /\ first1.payload["POS"][1] = position'[d] /\ d \in rows
    BY <2>4, <2>5, <2>12
  <2> HIDE DEF c
  <2> QED
    BY <2>10, <2>12, <2>13, <2>14, <2>15, RadioHandsOver
<1> QED
  BY <1>2, <1>3

LEMMA FrameTold ==
  ASSUME ToldInv, Frame
  PROVE  ToldInv'
<1> DEFINE p == ParseMsg(buffer)
<1>0. radio = [pc |-> radio.pc, todo |-> radio.todo]
  BY DEF ToldInv, TaskOK
<1>1. UNCHANGED <<setup, mqtt, rows, retained>>
  BY DEF Frame
<1>2. CASE IsPublished(Matching(Devices, p.packet), p.packet) /\ Tell(Matching(Devices, p.packet), p.packet)
  <2> HIDE DEF p
  <2> QED
    BY <1>1, <1>2, TellTold
<1>3. CASE LinkDown /\ UNCHANGED <<wire, behind, coverVars>>
  <2>1. radio' = [pc |-> radio'.pc, todo |-> radio'.todo] /\ radio'.todo = <<>>
    BY <1>3 DEF LinkDown, Unlinked
  <2>2. UNCHANGED <<wire, behind, position>>
    BY <1>3 DEF coverVars
  <2> QED
    BY <1>1, <2>1, <2>2, QuietStep
<1>4. CASE radio' = [radio EXCEPT !.pc = Framed(p)] /\ UNCHANGED <<wire, behind, coverVars>>
  <2> HIDE DEF p
  <2>1. radio' = [pc |-> radio'.pc, todo |-> radio'.todo] /\ radio'.todo = radio.todo
    BY <1>0, <1>4
  <2>2. UNCHANGED <<wire, behind, position>>
    BY <1>4 DEF coverVars
  <2> QED
    BY <1>1, <2>1, <2>2, QuietStep
<1> QED
  BY <1>2, <1>3, <1>4 DEF Frame

\* What the client has left after it has sent its first message, with another one behind the
\* rest or without
LEMMA WireShifted ==
  ASSUME TaskOK, wire # <<>>, NEW x, NEW more \in BOOLEAN,
         wire' = IF more THEN Append(Tail(wire), x) ELSE Tail(wire)
  PROVE  /\ IsSequence(wire') /\ Len(wire) \in Nat /\ Len(wire) >= 1
         /\ Len(wire') = IF more THEN Len(wire) ELSE Len(wire) - 1
         /\ \A i \in 1 .. Len(wire) - 1 : wire'[i] = wire[i + 1]
         /\ more => wire'[Len(wire)] = x
         /\ Head(wire) = wire[1]
<1>1. /\ IsSequence(Tail(wire)) /\ Len(wire) >= 1 /\ Len(Tail(wire)) = Len(wire) - 1 /\ Head(wire) = wire[1]
      /\ \A i \in 1 .. Len(Tail(wire)) : Tail(wire)[i] = wire[i + 1]
  BY SequenceTail DEF TaskOK
<1>2. Len(wire) \in Nat
  BY SequenceIs DEF TaskOK
<1> DEFINE t == Tail(wire)
<1> HIDE DEF t
<1>3. /\ IsSequence(t) /\ Len(t) = Len(wire) - 1 /\ \A i \in 1 .. Len(wire) - 1 : t[i] = wire[i + 1]
      /\ wire' = IF more THEN Append(t, x) ELSE t
  BY <1>1 DEF t
<1>4. CASE ~more
  BY <1>1, <1>2, <1>3, <1>4
<1>5. CASE more
  <2>1. /\ IsSequence(Append(t, x)) /\ Len(Append(t, x)) = Len(t) + 1
        /\ Append(t, x)[Len(t) + 1] = x /\ \A i \in 1 .. Len(t) : Append(t, x)[i] = t[i]
    BY <1>3, SequenceAppend
  <2>2. wire' = Append(t, x) /\ Len(t) + 1 = Len(wire)
    BY <1>2, <1>3, <1>5
  <2>3. \A i \in 1 .. Len(wire) - 1 : wire'[i] = wire[i + 1]
    BY <1>3, <2>1, <2>2
  <2> QED
    BY <1>1, <1>2, <1>5, <2>1, <2>2, <2>3
<1> QED
  BY <1>4, <1>5

\* Sending a message keeps what is current: if it was the last about a shutter, the broker now
\* retains it.
LEMMA DeliveredCurrent ==
  ASSUME TaskOK, wire # <<>>, NEW x, NEW more \in BOOLEAN, position' = position,
         wire' = (IF more THEN Append(Tail(wire), x) ELSE Tail(wire)), Got(Head(wire).message),
         NEW c \in Covers, Current(c), more => ~About(x.message, c)
  PROVE  Current(c)'
<1>1. /\ IsSequence(wire') /\ Len(wire) \in Nat /\ Len(wire) >= 1
      /\ Len(wire') = IF more THEN Len(wire) ELSE Len(wire) - 1
      /\ \A i \in 1 .. Len(wire) - 1 : wire'[i] = wire[i + 1]
      /\ more => wire'[Len(wire)] = x
      /\ Head(wire) = wire[1]
  BY WireShifted
<1>2. retained'[c] = IF About(wire[1].message, c) THEN wire[1].message.payload["POS"][1] ELSE retained[c]
  BY <1>1 DEF Got, About
<1>3. \A i \in Len(wire) .. Len(wire') : ~About(wire'[i].message, c)
  <2>1. ASSUME NEW i \in Len(wire) .. Len(wire') PROVE more /\ i = Len(wire)
    BY <1>1
  <2> QED
    BY <1>1, <2>1
<1>4. IsSequence(wire) /\ position'[c] = position[c] /\ Len(wire') >= Len(wire) - 1
  BY <1>1 DEF TaskOK
<1> QED
  BY <1>1, <1>2, <1>3, <1>4, CurrentDelivered

LEMMA DeliveredTask ==
  ASSUME TaskOK, wire # <<>>, NEW x, NEW more \in BOOLEAN, UNCHANGED <<setup, rows, position>>,
         wire' = (IF more THEN Append(Tail(wire), x) ELSE Tail(wire)),
         more => x = [by |-> "radio", message |-> x.message],
         mqtt' \in [pc : {"down", "discovery", "covers", "clearing", "cleared", "telling", "up"}, todo : Seq(Covers)],
         mqtt'.pc \in {"clearing", "cleared", "telling"} => mqtt'.todo # <<>>,
         radio' = [pc |-> radio'.pc, todo |-> radio'.todo], IsSequence(radio'.todo),
         \A i \in 1 .. Len(radio'.todo), c \in Covers : ~About(radio'.todo[i], c),
         mqtt' = mqtt \/ wire[1].by = "mqtt"
  PROVE  TaskOK'
<1>1. /\ IsSequence(wire') /\ Len(wire) \in Nat /\ Len(wire) >= 1
      /\ Len(wire') = IF more THEN Len(wire) ELSE Len(wire) - 1
      /\ \A i \in 1 .. Len(wire) - 1 : wire'[i] = wire[i + 1]
      /\ more => wire'[Len(wire)] = x
  BY WireShifted
<1>2. \A i \in 1 .. Len(wire') : \/ i \in 1 .. Len(wire) - 1 /\ i + 1 \in 1 .. Len(wire) /\ i + 1 # 1
                                 \/ more /\ i = Len(wire)
  BY <1>1
<1>3. \A i \in 1 .. Len(wire') : \/ wire'[i] = wire[i + 1] /\ i + 1 \in 1 .. Len(wire)
                                 \/ wire'[i] = x /\ more
  BY <1>1, <1>2
<1>4. \A i \in 1 .. Len(wire') : /\ wire'[i] = [by |-> wire'[i].by, message |-> wire'[i].message]
                                 /\ wire'[i].by \in {"radio", "mqtt", "nobody"}
  <2>1. \A i \in 1 .. Len(wire) : /\ wire[i] = [by |-> wire[i].by, message |-> wire[i].message]
                                  /\ wire[i].by \in {"radio", "mqtt", "nobody"}
    BY DEF TaskOK
  <2>2. more => x = [by |-> x.by, message |-> x.message] /\ x.by = "radio"
    OBVIOUS
  <2> QED
    BY <1>3, <2>1, <2>2
<1>5. \A i \in 1 .. Len(wire') : wire'[i].by = "mqtt" =>
        /\ i + 1 \in 1 .. Len(wire) /\ i + 1 # 1 /\ wire[i + 1].by = "mqtt"
  <2>1. more => x.by = "radio"
    OBVIOUS
  <2> QED
    BY <1>1, <1>2, <2>1
<1>6. \A i, j \in 1 .. Len(wire') : wire'[i].by = "mqtt" =>
        mqtt'.pc \in {"clearing", "telling"} /\ (wire'[j].by = "mqtt" => i = j)
  <2>1. \A i, j \in 1 .. Len(wire) : wire[i].by = "mqtt" =>
          mqtt.pc \in {"clearing", "telling"} /\ (wire[j].by = "mqtt" => i = j)
    BY DEF TaskOK
  <2>2. 1 \in 1 .. Len(wire)
    BY <1>1
  <2>3. ASSUME NEW i \in 1 .. Len(wire'), NEW j \in 1 .. Len(wire'), wire'[i].by = "mqtt"
        PROVE  mqtt'.pc \in {"clearing", "telling"} /\ (wire'[j].by = "mqtt" => i = j)
    <3>1. i + 1 \in 1 .. Len(wire) /\ i + 1 # 1 /\ wire[i + 1].by = "mqtt"
      BY <1>5, <2>3
    <3>2. wire[1].by # "mqtt"
      BY <2>1, <2>2, <3>1
    <3>3. wire'[j].by = "mqtt" => i + 1 = j + 1
      BY <1>5, <2>1, <3>1
    <3>4. i \in Int /\ j \in Int /\ (i + 1 = j + 1 => i = j)
      OBVIOUS
    <3>5. mqtt.pc \in {"clearing", "telling"}
      BY <2>1, <3>1
    <3> QED
      BY <3>2, <3>3, <3>4, <3>5
  <2> QED
    BY <2>3
<1> QED
  BY <1>1, <1>4, <1>6 DEF TaskOK, About, Rows, Devices

\* Steps after which the task is where it was, or further, and nothing has become stale
LEMMA InvKept ==
  ASSUME ToldInv, TaskOK', UNCHANGED <<mqtt, rows, position>>, behind \subseteq behind',
         \A c \in Covers : Current(c) => Current(c)'
  PROVE  ToldInv'
<1>1. mqtt.pc = "telling" => Head(mqtt.todo) \in rows /\ Current(Head(mqtt.todo))'
  <2>1. SUFFICES ASSUME mqtt.pc = "telling" PROVE Head(mqtt.todo) \in rows /\ Current(Head(mqtt.todo))'
    OBVIOUS
  <2> DEFINE c == Head(mqtt.todo)
  <2>2. c \in rows /\ c \in Covers /\ Current(c)
    BY <2>1 DEF ToldInv, Announced, TaskOK, Rows
  <2> HIDE DEF c
  <2>3. \A d \in Covers : d = c => Current(d)'
    BY <2>2
  <2>4. \A d \in Covers : d = Head(mqtt'.todo) => Current(d)'
    BY <2>3 DEF c
  <2>5. Head(mqtt'.todo) \in Covers
    BY <2>2 DEF c
  <2> QED
    BY <2>2, <2>4, <2>5 DEF c
<1>2. rows \subseteq Covers
  BY DEF ToldInv, TaskOK, Rows
<1> QED
  BY <1>1, <1>2 DEF ToldInv, Announced

LEMMA InvMoves ==
  ASSUME ToldInv, TaskOK', UNCHANGED position, rows \subseteq rows', behind \subseteq behind',
         \A c \in Covers : Current(c) => Current(c)',
         mqtt'.pc # "telling",
         mqtt'.pc \in {"covers", "clearing", "cleared"} =>
           \A c \in rows' : position[c] # NoPosition => Has(mqtt'.todo, c) \/ Current(c)'
  PROVE  ToldInv'
  BY DEF ToldInv, Announced

LEMMA DeliverTold ==
  ASSUME ToldInv, Deliver
  PROVE  ToldInv'
<1>0. /\ TaskOK /\ wire # <<>> /\ Got(Head(wire).message)
      /\ UNCHANGED <<setup, rows, behind>> /\ position' = position
  BY DEF ToldInv, Deliver, coverVars
<1>1. IsSequence(wire) /\ Len(wire) >= 1 /\ Head(wire) = wire[1] /\ 1 \in 1 .. Len(wire)
  BY <1>0, SequenceTail, SequenceIs DEF TaskOK
<1>2. /\ radio = [pc |-> radio.pc, todo |-> radio.todo] /\ IsSequence(radio.todo)
      /\ \A i \in 1 .. Len(radio.todo), c \in Covers : ~About(radio.todo[i], c)
      /\ mqtt \in [pc : {"down", "discovery", "covers", "clearing", "cleared", "telling", "up"}, todo : Seq(Covers)]
      /\ mqtt.pc \in {"clearing", "cleared", "telling"} => mqtt.todo # <<>>
  BY <1>0 DEF TaskOK
<1>3. ASSUME NEW x, NEW more \in BOOLEAN,
             wire' = (IF more THEN Append(Tail(wire), x) ELSE Tail(wire)),
             more => \A c \in Covers : ~About(x.message, c)
      PROVE  \A c \in Covers : Current(c) => Current(c)'
  BY <1>0, <1>3, DeliveredCurrent
<1>4. CASE wire[1].by = "radio" /\ radio.todo # <<>>
  <2> DEFINE x == [by |-> "radio", message |-> Head(radio.todo)]
  <2>1. /\ wire' = Append(Tail(wire), x) /\ mqtt' = mqtt
        /\ radio' = [radio EXCEPT !.todo = Tail(@)]
    BY <1>1, <1>4 DEF Deliver
  <2>2. x = [by |-> "radio", message |-> x.message] /\ x.message = Head(radio.todo)
    OBVIOUS
  <2>3. /\ IsSequence(Tail(radio.todo)) /\ Len(radio.todo) >= 1 /\ Len(radio.todo) \in Nat
        /\ Len(Tail(radio.todo)) = Len(radio.todo) - 1 /\ Head(radio.todo) = radio.todo[1]
        /\ \A i \in 1 .. Len(Tail(radio.todo)) : Tail(radio.todo)[i] = radio.todo[i + 1]
    BY <1>2, <1>4, SequenceTail, SequenceIs
  <2>4. \A c \in Covers : ~About(x.message, c)
    <3>1. 1 \in 1 .. Len(radio.todo)
      BY <2>3
    <3> QED
      BY <1>2, <2>2, <2>3, <3>1
  <2> HIDE DEF x
  <2>5. \A c \in Covers : Current(c) => Current(c)'
    BY <1>3, <2>1, <2>4
  <2>6. radio' = [pc |-> radio'.pc, todo |-> radio'.todo] /\ radio'.todo = Tail(radio.todo)
    BY <1>2, <2>1
  <2>7. ASSUME NEW i \in 1 .. Len(Tail(radio.todo)), NEW c \in Covers PROVE ~About(Tail(radio.todo)[i], c)
    <3>1. i + 1 \in 1 .. Len(radio.todo)
      BY <2>3
    <3> QED
      BY <1>2, <2>3, <3>1
  <2>8. IsSequence(radio'.todo) /\ \A i \in 1 .. Len(radio'.todo), c \in Covers : ~About(radio'.todo[i], c)
    BY <2>3, <2>6, <2>7
  <2>9. TaskOK'
    <3>1. wire' = IF TRUE THEN Append(Tail(wire), x) ELSE Tail(wire)
      BY <2>1
    <3> QED
      BY <1>0, <1>2, <2>1, <2>2, <2>6, <2>8, <3>1, DeliveredTask
  <2> QED
    BY <1>0, <2>1, <2>5, <2>9, InvKept
<1> DEFINE y == [by |-> "radio", message |-> 0]
<1>5. CASE wire' = Tail(wire)
  <2>1. wire' = IF FALSE THEN Append(Tail(wire), y) ELSE Tail(wire)
    BY <1>5
  <2>2. \A c \in Covers : Current(c) => Current(c)'
    <3> HIDE DEF y
    <3> QED
      BY <1>3, <2>1
  <2>3. CASE mqtt' = mqtt /\ (radio' = radio \/ radio' = [radio EXCEPT !.pc = "framing"])
    <3>1. radio' = [pc |-> radio'.pc, todo |-> radio'.todo] /\ radio'.todo = radio.todo
      BY <1>2, <2>3
    <3>2. /\ IsSequence(radio'.todo)
          /\ \A i \in 1 .. Len(radio'.todo), c \in Covers : ~About(radio'.todo[i], c)
      BY <1>2, <3>1
    <3> HIDE DEF y
    <3>3. TaskOK'
      BY <1>0, <1>2, <2>1, <2>3, <3>1, <3>2, DeliveredTask
    <3> QED
      BY <1>0, <2>2, <2>3, <3>3, InvKept
  <2>4. CASE /\ wire[1].by = "mqtt" /\ radio' = radio
             /\ mqtt' = IF mqtt.pc = "clearing" THEN [mqtt EXCEPT !.pc = "cleared"]
                        ELSE [pc |-> "covers", todo |-> Tail(mqtt.todo)]
    <3>1. mqtt.pc \in {"clearing", "telling"}
      BY <1>0, <1>1, <2>4 DEF TaskOK
    <3>2. mqtt.todo # <<>> /\ mqtt.todo \in Seq(Covers)
      BY <1>2, <3>1
    <3>3. Tail(mqtt.todo) \in Seq(Covers) /\ Len(mqtt.todo) \in Nat /\ mqtt.todo[1] = Head(mqtt.todo)
          /\ Len(Tail(mqtt.todo)) = Len(mqtt.todo) - 1
          /\ \A i \in 1 .. Len(Tail(mqtt.todo)) : Tail(mqtt.todo)[i] = mqtt.todo[i + 1]
      BY <3>2, HeadTailProperties
    <3>4. /\ mqtt' \in [pc : {"down", "discovery", "covers", "clearing", "cleared", "telling", "up"}, todo : Seq(Covers)]
          /\ mqtt'.pc \in {"clearing", "cleared", "telling"} => mqtt'.todo # <<>>
          /\ mqtt'.pc # "telling"
      BY <1>2, <2>4, <3>1, <3>2, <3>3
    <3>5. TaskOK'
      <4> HIDE DEF y
      <4> QED
        BY <1>0, <1>2, <2>1, <2>4, <3>4, DeliveredTask
    <3>6. ASSUME NEW c \in rows, position[c] # NoPosition PROVE Has(mqtt'.todo, c) \/ Current(c)'
      <4>0. c \in Covers
        BY <1>0 DEF TaskOK, Rows
      <4>1. Has(mqtt.todo, c) \/ Current(c)
        BY <3>1, <3>6 DEF ToldInv, Announced
      <4>2. CASE Current(c)
        BY <2>2, <4>0, <4>2
      <4>3. CASE Has(mqtt.todo, c) /\ ~Current(c)
        <5>1. CASE mqtt.pc = "clearing"
          BY <1>2, <2>4, <4>3, <5>1
        <5>2. CASE mqtt.pc = "telling"
          <6>1. \A d : d = Head(mqtt.todo) => Current(d)
            BY <5>2 DEF ToldInv, Announced
          <6>2. PICK i \in 1 .. Len(mqtt.todo) : mqtt.todo[i] = c
            BY <4>3 DEF Has
          <6>3. i # 1
            BY <3>3, <4>3, <6>1, <6>2
          <6>4. i - 1 \in 1 .. Len(Tail(mqtt.todo)) /\ i - 1 + 1 = i
            BY <3>3, <6>3
          <6>5. Tail(mqtt.todo)[i - 1] = c
            BY <3>3, <6>2, <6>4
          <6>6. mqtt'.todo = Tail(mqtt.todo)
            BY <2>4, <5>2
          <6> QED
            BY <6>4, <6>5, <6>6 DEF Has
        <5> QED
          BY <3>1, <5>1, <5>2
      <4> QED
        BY <4>1, <4>2, <4>3
    <3> QED
      BY <1>0, <2>2, <3>4, <3>5, <3>6, InvMoves
  <2>5. CASE mqtt' = mqtt /\ radio' = radio
    BY <2>3, <2>5
  <2>6. CASE wire[1].by = "radio"
    <3>1. radio.todo # <<>> \/ radio.todo = <<>>
      OBVIOUS
    <3>2. CASE radio.todo = <<>>
      <4>1. mqtt' = mqtt /\ radio' = [radio EXCEPT !.pc = "framing"]
        BY <1>1, <2>6, <3>2 DEF Deliver
      <4> QED
        BY <2>3, <4>1
    <3> QED
      BY <1>4, <2>6, <3>2
  <2>7. CASE wire[1].by = "mqtt"
    <3>1. /\ radio' = radio
          /\ mqtt' = IF mqtt.pc = "clearing" THEN [mqtt EXCEPT !.pc = "cleared"]
                     ELSE [pc |-> "covers", todo |-> Tail(mqtt.todo)]
      BY <1>1, <2>7 DEF Deliver
    <3> QED
      BY <2>4, <2>7, <3>1
  <2>8. CASE wire[1].by = "nobody"
    <3>1. UNCHANGED <<radio, mqtt>>
      BY <1>1, <2>8 DEF Deliver
    <3> QED
      BY <2>5, <3>1
  <2> QED
    BY <1>0, <1>1, <2>6, <2>7, <2>8 DEF TaskOK
<1>6. wire[1].by \in {"radio", "mqtt", "nobody"}
  BY <1>0, <1>1 DEF TaskOK
<1>7. CASE ~(wire[1].by = "radio" /\ radio.todo # <<>>)
  <2>1. wire' = Tail(wire)
    <3>1. CASE wire[1].by = "radio" /\ radio.todo = <<>>
      BY <1>1, <3>1 DEF Deliver
    <3>2. CASE wire[1].by = "mqtt"
      BY <1>1, <3>2 DEF Deliver
    <3>3. CASE wire[1].by = "nobody"
      BY <1>1, <3>3 DEF Deliver
    <3> QED
      BY <1>6, <1>7, <3>1, <3>2, <3>3
  <2> QED
    BY <1>5, <2>1
<1> QED
  BY <1>4, <1>7

LEMMA TimesOutTold ==
  ASSUME ToldInv, TimesOut
  PROVE  ToldInv'
<1>0. /\ TaskOK /\ UNCHANGED <<setup, mqtt, rows, retained, behind>> /\ position' = position
      /\ radio' = Unlinked
  BY DEF ToldInv, TimesOut, LinkDown, coverVars
<1>1. PICK k \in DOMAIN wire : wire[k].by = "radio" /\ wire' = [wire EXCEPT ![k].by = "nobody"]
  BY DEF TimesOut
<1>2. IsSequence(wire) /\ DOMAIN wire = 1 .. Len(wire) /\ Len(wire) \in Nat
  BY <1>0, SequenceIs DEF TaskOK
<1>3. PICK T : wire \in Seq(T)
  BY <1>2, SequenceIs
<1> DEFINE x == [wire[k] EXCEPT !.by = "nobody"]
<1>4. /\ x = [by |-> x.by, message |-> x.message] /\ x.by = "nobody" /\ x.message = wire[k].message
  BY <1>0, <1>1, <1>2 DEF TaskOK
<1>5. wire' = [wire EXCEPT ![k] = x]
  BY <1>1
<1> HIDE DEF x
<1>6. wire' \in Seq(T \cup {x}) /\ Len(wire') = Len(wire)
  BY <1>2, <1>3, <1>5
<1>7. \A i \in 1 .. Len(wire) : wire'[i] = IF i = k THEN x ELSE wire[i]
  BY <1>2, <1>5
<1>8. IsSequence(wire')
  BY <1>6, IsSeqOf
<1>9. \A i \in 1 .. Len(wire') : /\ wire'[i] = [by |-> wire'[i].by, message |-> wire'[i].message]
                                 /\ wire'[i].by \in {"radio", "mqtt", "nobody"}
  <2>1. \A i \in 1 .. Len(wire) : /\ wire[i] = [by |-> wire[i].by, message |-> wire[i].message]
                                  /\ wire[i].by \in {"radio", "mqtt", "nobody"}
    BY <1>0 DEF TaskOK
  <2> QED
    BY <1>4, <1>6, <1>7, <2>1
<1>10. \A i \in 1 .. Len(wire') : wire'[i].by = "mqtt" => wire[i].by = "mqtt" /\ i \in 1 .. Len(wire)
  BY <1>4, <1>6, <1>7
<1>11. \A i, j \in 1 .. Len(wire') : wire'[i].by = "mqtt" =>
         mqtt.pc \in {"clearing", "telling"} /\ (wire'[j].by = "mqtt" => i = j)
  BY <1>0, <1>10 DEF TaskOK
<1>12. radio' = [pc |-> radio'.pc, todo |-> radio'.todo] /\ radio'.todo = <<>>
  BY <1>0 DEF Unlinked
<1>13. IsSequence(<<>>) /\ Len(<<>>) = 0
  <2>1. <<>> \in Seq({})
    OBVIOUS
  <2> QED
    BY <2>1, IsSeqOf
<1>14. IsSequence(radio'.todo) /\ \A i \in 1 .. Len(radio'.todo), c \in Covers : ~About(radio'.todo[i], c)
  BY <1>12, <1>13
<1>15. TaskOK'
  BY <1>0, <1>8, <1>9, <1>11, <1>12, <1>14 DEF TaskOK, About, Rows, Devices
<1>16. \A i \in 1 .. Len(wire) : wire'[i].message = wire[i].message
  BY <1>4, <1>7
<1>17. ASSUME NEW c \in Covers, Current(c) PROVE Current(c)'
  <2>1. position'[c] = position[c] /\ retained'[c] = retained[c]
    BY <1>0
  <2> QED
    BY <1>6, <1>16, <1>17, <2>1, CurrentKept
<1> QED
  BY <1>0, <1>15, <1>17, InvKept

LEMMA DiscoverTold ==
  ASSUME ToldInv, Online \/ Discover
  PROVE  ToldInv'
<1>0. /\ TaskOK /\ UNCHANGED <<setup, wire, radio, retained, behind>> /\ position' = position
  BY DEF ToldInv, Online, Discover, coverVars
<1>1. \A c : Current(c)' <=> Current(c)
  BY <1>0 DEF Current, Silent, Latest, About
<1>2. \A i \in 1 .. Len(wire) : wire[i].by = "mqtt" => mqtt.pc \in {"clearing", "telling"}
  BY <1>0 DEF TaskOK
<1>3. CASE Online
  <2>1. /\ mqtt' = [Offline EXCEPT !.pc = IF first THEN "discovery" ELSE "up"] /\ mqtt.pc = "down"
        /\ rows' = rows
    BY <1>3 DEF Online
  <2>2. mqtt' = [pc |-> mqtt'.pc, todo |-> <<>>] /\ mqtt'.pc \in {"discovery", "up"}
    BY <2>1 DEF Offline
  <2>3. mqtt' \in [pc : {"down", "discovery", "covers", "clearing", "cleared", "telling", "up"}, todo : Seq(Covers)]
    <3> DEFINE q == IF first THEN "discovery" ELSE "up"
    <3>1. <<>> \in Seq(Covers) /\ q \in {"discovery", "up"} /\ mqtt' = [pc |-> q, todo |-> <<>>]
      BY <2>1 DEF Offline
    <3> HIDE DEF q
    <3> QED
      BY <3>1
  <2>4. TaskOK'
    BY <1>0, <1>2, <2>1, <2>2, <2>3 DEF TaskOK, About, Rows, Devices
  <2> QED
    BY <1>0, <1>1, <2>1, <2>2, <2>4, InvMoves
<1>4. CASE Discover
  <2>1. /\ mqtt' = [pc |-> "covers", todo |-> Shutters] /\ mqtt.pc = "discovery" /\ rows' = rows \cup Rows
    BY <1>4 DEF Discover
  <2>2. Shutters \in Seq(Covers) /\ \A c \in Rows : Has(Shutters, c)
    BY <1>0, ShuttersAre DEF TaskOK
  <2>3. mqtt' \in [pc : {"down", "discovery", "covers", "clearing", "cleared", "telling", "up"}, todo : Seq(Covers)]
        /\ mqtt'.pc = "covers" /\ mqtt'.todo = Shutters
    BY <2>1, <2>2
  <2>4. TaskOK'
    BY <1>0, <1>2, <2>1, <2>3 DEF TaskOK, About, Rows, Devices
  <2>5. rows' = Rows
    BY <1>0, <2>1 DEF TaskOK
  <2>6. \A c \in rows' : position[c] # NoPosition => Has(mqtt'.todo, c) \/ Current(c)'
    <3> HIDE DEF ToldInv
    <3> QED
      BY <2>2, <2>3, <2>5
  <2> QED
    BY <1>0, <1>1, <2>1, <2>3, <2>4, <2>6, InvMoves
<1> QED
  BY <1>3, <1>4

\* A message handed over by the MQTT task
LEMMA MqttHandsOver ==
  ASSUME TaskOK, NEW message, HandOver("mqtt", message), UNCHANGED <<setup, rows, radio, position>>,
         mqtt.pc \in {"covers", "cleared"},
         mqtt' \in [pc : {"clearing", "telling"}, todo : Seq(Covers)], mqtt'.todo # <<>>
  PROVE  TaskOK'
<1> DEFINE x == [by |-> "mqtt", message |-> message]
<1>0. x.by = "mqtt" /\ x = [by |-> x.by, message |-> x.message]
  OBVIOUS
<1>1. wire' = Append(wire, x) /\ IsSequence(wire)
  BY DEF HandOver, TaskOK
<1> HIDE DEF x
<1>2. /\ IsSequence(wire') /\ Len(wire) \in Nat /\ Len(wire') = Len(wire) + 1 /\ wire'[Len(wire) + 1] = x
      /\ \A i \in 1 .. Len(wire) : wire'[i] = wire[i]
      /\ \A i \in 1 .. Len(wire') : i \in 1 .. Len(wire) \/ i = Len(wire) + 1
  BY <1>1, SequenceAppend, SequenceIs
<1>3. \A i \in 1 .. Len(wire') : /\ wire'[i] = [by |-> wire'[i].by, message |-> wire'[i].message]
                                 /\ wire'[i].by \in {"radio", "mqtt", "nobody"}
  <2>1. \A i \in 1 .. Len(wire) : /\ wire[i] = [by |-> wire[i].by, message |-> wire[i].message]
                                  /\ wire[i].by \in {"radio", "mqtt", "nobody"}
    BY DEF TaskOK
  <2> QED
    BY <1>0, <1>2, <2>1
<1>4. \A i \in 1 .. Len(wire) : wire[i].by # "mqtt"
  BY DEF TaskOK
<1>5. \A i, j \in 1 .. Len(wire') : wire'[i].by = "mqtt" =>
        mqtt'.pc \in {"clearing", "telling"} /\ (wire'[j].by = "mqtt" => i = j)
  BY <1>2, <1>4
<1> QED
  BY <1>2, <1>3, <1>5 DEF TaskOK, About, Rows, Devices

LEMMA NextCoverTold ==
  ASSUME ToldInv, NextCover
  PROVE  ToldInv'
<1>0. /\ TaskOK /\ UNCHANGED <<setup, radio, retained, rows>> /\ position' = position /\ mqtt.pc = "covers"
      /\ mqtt \in [pc : {"down", "discovery", "covers", "clearing", "cleared", "telling", "up"}, todo : Seq(Covers)]
      /\ IsSequence(wire)
  BY DEF ToldInv, NextCover, TaskOK, coverVars
<1>1. CASE mqtt.todo = <<>>
  <2>1. /\ mqtt' = [mqtt EXCEPT !.pc = "up"] /\ wire' = wire
        /\ behind' = {c \in behind : position[c] = NoPosition}
    BY <1>1 DEF NextCover
  <2>2. \A c : Current(c)' <=> Current(c)
    BY <1>0, <2>1 DEF Current, Silent, Latest, About
  <2>3. mqtt' \in [pc : {"down", "discovery", "covers", "clearing", "cleared", "telling", "up"}, todo : Seq(Covers)]
        /\ mqtt'.pc = "up"
    BY <1>0, <2>1
  <2>4. \A i \in 1 .. Len(wire) : wire[i].by # "mqtt"
    BY <1>0 DEF TaskOK
  <2>5. TaskOK'
    BY <1>0, <2>1, <2>3, <2>4 DEF TaskOK, About, Rows, Devices
  <2>6. \A c : ~Has(mqtt.todo, c)
    <3>1. Len(mqtt.todo) = 0
      BY <1>1
    <3> QED
      BY <3>1 DEF Has
  <2>7. ASSUME NEW c \in Covers \ behind' PROVE Current(c)'
    <3>1. CASE c \in behind
      <4>1. position[c] # NoPosition /\ c \in rows
        BY <2>1, <2>7, <3>1 DEF ToldInv
      <4> QED
        BY <1>0, <2>2, <2>6, <4>1 DEF ToldInv, Announced
    <3>2. CASE c \notin behind
      BY <2>2, <3>2 DEF ToldInv
    <3> QED
      BY <3>1, <3>2
  <2> QED
    BY <1>0, <2>3, <2>5, <2>7 DEF ToldInv, Announced
<1>2. CASE mqtt.todo # <<>>
  <2> DEFINE message == Told(LegacyTopic(Head(mqtt.todo)), [n \in {} |-> 0])
             x == [by |-> "mqtt", message |-> message]
  <2>1. mqtt' = [mqtt EXCEPT !.pc = "clearing"] /\ behind' = behind /\ HandOver("mqtt", message)
    BY <1>2 DEF NextCover
  <2>2. mqtt' \in [pc : {"clearing", "telling"}, todo : Seq(Covers)] /\ mqtt'.todo = mqtt.todo /\ mqtt'.pc = "clearing"
    BY <1>0, <2>1
  <2>3. wire' = Append(wire, x) /\ x.message = message
    BY <2>1 DEF HandOver
  <2>4. \A c : ~About(message, c)
    BY TopicsApart
  <2> HIDE DEF message, x
  <2>5. TaskOK'
    BY <1>0, <1>2, <2>1, <2>2, MqttHandsOver
  <2>6. ASSUME NEW c \in Covers, Current(c) PROVE Current(c)'
    <3>1. ~About(x.message, c) /\ position'[c] = position[c] /\ retained'[c] = retained[c]
      BY <1>0, <2>3, <2>4
    <3> QED
      BY <1>0, <2>3, <2>6, <3>1, CurrentAppend
  <2>7. ASSUME NEW c \in rows', position[c] # NoPosition PROVE Has(mqtt'.todo, c) \/ Current(c)'
    <3>1. c \in rows /\ c \in Covers
      BY <1>0, <2>7 DEF TaskOK, Rows
    <3> QED
      BY <1>0, <2>2, <2>6, <2>7, <3>1 DEF ToldInv, Announced
  <2> QED
    BY <1>0, <2>1, <2>2, <2>5, <2>6, <2>7, InvMoves
<1> QED
  BY <1>1, <1>2

LEMMA TellPositionTold ==
  ASSUME ToldInv, TellPosition
  PROVE  ToldInv'
<1> DEFINE c == Head(mqtt.todo)
           message == Position(c, position[c])
           x == [by |-> "mqtt", message |-> message]
<1>0. /\ TaskOK /\ UNCHANGED <<setup, radio, retained, rows, behind>> /\ position' = position
      /\ mqtt.pc = "cleared" /\ mqtt.todo # <<>> /\ mqtt.todo \in Seq(Covers) /\ IsSequence(wire)
      /\ mqtt \in [pc : {"down", "discovery", "covers", "clearing", "cleared", "telling", "up"}, todo : Seq(Covers)]
  BY DEF ToldInv, TellPosition, TaskOK, coverVars
<1>1. /\ c \in Covers /\ mqtt.todo[1] = c /\ Len(mqtt.todo) \in Nat
      /\ Tail(mqtt.todo) \in Seq(Covers) /\ Len(Tail(mqtt.todo)) = Len(mqtt.todo) - 1
      /\ \A i \in 1 .. Len(Tail(mqtt.todo)) : Tail(mqtt.todo)[i] = mqtt.todo[i + 1]
  BY <1>0, HeadTailProperties
<1>2. CASE position[c] = NoPosition
  <2>1. mqtt' = [pc |-> "covers", todo |-> Tail(mqtt.todo)] /\ wire' = wire
    BY <1>2 DEF TellPosition
  <2>2. \A d : Current(d)' <=> Current(d)
    BY <1>0, <2>1 DEF Current, Silent, Latest, About
  <2>3. mqtt' \in [pc : {"down", "discovery", "covers", "clearing", "cleared", "telling", "up"}, todo : Seq(Covers)]
        /\ mqtt'.pc = "covers" /\ mqtt'.todo = Tail(mqtt.todo)
    BY <1>1, <2>1
  <2>4. \A i \in 1 .. Len(wire) : wire[i].by # "mqtt"
    BY <1>0 DEF TaskOK
  <2>5. TaskOK'
    BY <1>0, <2>1, <2>3, <2>4 DEF TaskOK, About, Rows, Devices
  <2>6. ASSUME NEW d \in rows, position[d] # NoPosition PROVE Has(mqtt'.todo, d) \/ Current(d)'
    <3>1. Has(mqtt.todo, d) \/ Current(d)
      BY <1>0, <2>6 DEF ToldInv, Announced
    <3>2. ASSUME Has(mqtt.todo, d) PROVE Has(mqtt'.todo, d)
      <4>1. PICK i \in 1 .. Len(mqtt.todo) : mqtt.todo[i] = d
        BY <3>2 DEF Has
      <4>2. i # 1
        BY <1>1, <1>2, <2>6, <4>1
      <4>3. i - 1 \in 1 .. Len(Tail(mqtt.todo)) /\ i - 1 + 1 = i
        BY <1>1, <4>2
      <4>4. Tail(mqtt.todo)[i - 1] = d
        BY <1>1, <4>1, <4>3
      <4> QED
        BY <2>3, <4>3, <4>4 DEF Has
    <3> QED
      BY <2>2, <3>1, <3>2
  <2> QED
    BY <1>0, <2>2, <2>3, <2>5, <2>6, InvMoves
<1>3. CASE position[c] # NoPosition
  <2>1. mqtt' = [mqtt EXCEPT !.pc = "telling"] /\ HandOver("mqtt", message)
    BY <1>3 DEF TellPosition
  <2>2. mqtt' \in [pc : {"clearing", "telling"}, todo : Seq(Covers)] /\ mqtt'.todo = mqtt.todo
    BY <1>0, <2>1
  <2>3. wire' = Append(wire, x) /\ x.message = message
    BY <2>1 DEF HandOver
  <2>4. (\A d : About(message, d) <=> d = c) /\ message.payload["POS"][1] = position[c]
    BY TopicsApart
  <2>5. c \in rows
    BY <1>1, <1>3 DEF ToldInv
  <2> HIDE DEF message, x
  <2>6. TaskOK'
    BY <1>0, <2>1, <2>2, MqttHandsOver
  <2>7. ASSUME NEW d \in Covers, d = c \/ Current(d) PROVE Current(d)'
    <3>1. retained'[d] = retained[d] /\ position'[d] = position[d]
      BY <1>0
    <3>2. CASE d = c
      BY <1>0, <2>3, <2>4, <3>1, <3>2, CurrentAppend
    <3>3. CASE d # c
      BY <1>0, <2>3, <2>4, <2>7, <3>1, <3>3, CurrentAppend
    <3> QED
      BY <3>2, <3>3
  <2>8. ASSUME NEW d \in rows, position[d] # NoPosition PROVE Has(mqtt'.todo, d) \/ Current(d)'
    <3>1. d \in Covers
      BY <1>0 DEF TaskOK, Rows
    <3>2. Has(mqtt.todo, d) \/ Current(d)
      BY <1>0, <2>8 DEF ToldInv, Announced
    <3> QED
      BY <2>2, <2>7, <3>1, <3>2
  <2>9. Head(mqtt'.todo) \in rows /\ Current(Head(mqtt.todo))'
    <3>1. \A d \in Covers : d = c => Current(d)'
      BY <2>7
    <3>2. Head(mqtt'.todo) = c
      BY <2>2
    <3> QED
      BY <1>1, <2>5, <3>1, <3>2
  <2> QED
    BY <1>0, <2>6, <2>7, <2>8, <2>9 DEF ToldInv, Announced
<1> QED
  BY <1>2, <1>3

LEMMA SessionEndsTold ==
  ASSUME ToldInv, BrokerDrop \/ Crash
  PROVE  ToldInv'
<1>0. /\ TaskOK /\ UNCHANGED <<setup, rows, retained>> /\ position' = position
      /\ mqtt' = Offline /\ radio' = Unlinked /\ wire' = <<>>
      /\ behind' = behind \cup {c \in Covers : OnWire(wire, c)}
  BY DEF ToldInv, BrokerDrop, Crash, SessionEnds, coverVars
<1>1. IsSequence(<<>>) /\ Len(<<>>) = 0
  <2>1. <<>> \in Seq({})
    OBVIOUS
  <2> QED
    BY <2>1, IsSeqOf
<1>2. mqtt' = [pc |-> "down", todo |-> <<>>] /\ radio' = [pc |-> radio'.pc, todo |-> radio'.todo] /\ radio'.todo = <<>>
  BY <1>0 DEF Offline, Unlinked
<1>3. mqtt' \in [pc : {"down", "discovery", "covers", "clearing", "cleared", "telling", "up"}, todo : Seq(Covers)]
      /\ mqtt'.pc = "down"
  <2>1. <<>> \in Seq(Covers)
    OBVIOUS
  <2> QED
    BY <1>2, <2>1
<1>4. TaskOK'
  BY <1>0, <1>1, <1>2, <1>3 DEF TaskOK, Rows, Devices
<1>5. ASSUME NEW c \in Covers \ behind' PROVE Current(c)'
  <2>1. Current(c) /\ ~OnWire(wire, c) /\ position'[c] = position[c] /\ retained'[c] = retained[c]
    BY <1>0 DEF ToldInv
  <2> QED
    BY <1>0, <2>1, CurrentDropped DEF TaskOK
<1> QED
  BY <1>0, <1>3, <1>4, <1>5 DEF ToldInv, Announced

LEMMA DeleteRowTold ==
  ASSUME ToldInv, NEW c \in Covers, DeleteRow(c)
  PROVE  ToldInv'
<1>1. /\ TaskOK /\ UNCHANGED <<setup, mqtt, wire, radio, retained>> /\ mqtt.pc = "up"
      /\ rows' = rows \ {c} /\ behind' = behind \cup {c}
      /\ position' = [position EXCEPT ![c] = NoPosition]
  BY DEF ToldInv, DeleteRow, Forget
<1>2. TaskOK'
  BY <1>1 DEF TaskOK, About, Rows, Devices
<1>3. ASSUME NEW d \in Covers, d # c PROVE position'[d] = position[d] /\ (Current(d) => Current(d)')
  <2>1. position'[d] = position[d]
    BY <1>1, <1>3 DEF TaskOK
  <2> QED
    BY <1>1, <2>1 DEF Current, Silent, Latest, About
<1>4. position'[c] = NoPosition
  BY <1>1 DEF TaskOK
<1>5. Announced'
  BY <1>1 DEF Announced
<1>6. \A d \in Covers \ behind' : Current(d)'
  BY <1>1, <1>3 DEF ToldInv
<1>7. \A d \in Covers \ rows' : position'[d] = NoPosition
  BY <1>1, <1>3, <1>4 DEF ToldInv
<1> QED
  BY <1>2, <1>5, <1>6, <1>7 DEF ToldInv

LEMMA ToldStep == ToldInv /\ [Next]_vars => ToldInv'
<1> SUFFICES ASSUME ToldInv, [Next]_vars PROVE ToldInv'
  OBVIOUS
<1>1. CASE UNCHANGED vars
  <2>1. /\ UNCHANGED <<setup, mqtt, wire, rows, retained, behind, position>> /\ radio' = radio
        /\ radio = [pc |-> radio.pc, todo |-> radio.todo]
    BY <1>1 DEF vars, ToldInv, TaskOK
  <2> QED
    BY <2>1, QuietStep
<1>2. CASE (\E f \in DOMAIN Frames, d \in Damages : Send(f, d)) \/ (\E n \in Chunks : Read(n))
  BY <1>2, WireQuiet
<1>3. CASE Connect \/ LinkBreaks \/ StoreFails
  BY <1>3, WireQuiet
<1>4. CASE Frame
  BY <1>4, FrameTold
<1>5. CASE Deliver
  BY <1>5, DeliverTold
<1>6. CASE TimesOut
  BY <1>6, TimesOutTold
<1>7. CASE Online \/ Discover
  BY <1>7, DiscoverTold
<1>8. CASE NextCover
  BY <1>8, NextCoverTold
<1>9. CASE TellPosition
  BY <1>9, TellPositionTold
<1>10. CASE BrokerDrop \/ Crash
  BY <1>10, SessionEndsTold
<1>11. CASE \E c \in Covers : DeleteRow(c)
  BY <1>11, DeleteRowTold
<1> QED
  BY <1>1, <1>2, <1>3, <1>4, <1>5, <1>6, <1>7, <1>8, <1>9, <1>10, <1>11 DEF Next

\* What the broker retains for a shutter (send_position in homeassistant/cover.py, from telegrams,
\* and ha_bridge.py, from the store after the first connection) is what the store has whenever no
\* position of the shutter waits in the client and none was lost.  This holds for any
\* configuration, any damage on the line, any number of connections, time-outs and crashes, and
\* any interleaving of the two tasks.
THEOREM PositionIsTold == Spec => []PositionTold
<1>1. Spec => []ToldInv
  BY ToldInit, ToldStep, PTL DEF Spec
<1> QED
  BY <1>1, ToldSuffices, PTL

-----------------------------------------------------------------------------
(* Bytes: what the checksum, building, damage and parsing make of them.    *)

Octets == 0 .. 255

LEMMA XorTableType ==
  ASSUME NEW a \in 0 .. 15, NEW b \in 0 .. 15
  PROVE  XorTable[a][b] \in 0 .. 15
<1> DEFINE bit(k) == ((a \div k) + (b \div k)) % 2
<1>1. bit(8) \in 0 .. 1 /\ bit(4) \in 0 .. 1 /\ bit(2) \in 0 .. 1 /\ bit(1) \in 0 .. 1
  OBVIOUS
<1>2. XorTable[a][b] = 8 * bit(8) + 4 * bit(4) + 2 * bit(2) + bit(1)
  BY DEF XorTable
<1> HIDE DEF bit
<1> QED
  BY <1>1, <1>2

LEMMA XorType ==
  ASSUME NEW a \in Octets, NEW b \in Octets
  PROVE  Xor(a, b) \in Octets
<1>1. a \div 16 \in 0 .. 15 /\ a % 16 \in 0 .. 15 /\ b \div 16 \in 0 .. 15 /\ b % 16 \in 0 .. 15
  BY DEF Octets
<1> DEFINE x == XorTable[a \div 16][b \div 16]
           y == XorTable[a % 16][b % 16]
<1>2. x \in 0 .. 15
  BY <1>1, XorTableType
<1>3. y \in 0 .. 15
  BY <1>1, XorTableType
<1>4. Xor(a, b) = 16 * x + y
  BY DEF Xor
<1> HIDE DEF x, y
<1> QED
  BY <1>2, <1>3, <1>4 DEF Octets

LEMMA CrcTableType ==
  ASSUME NEW b \in Octets
  PROVE  CrcTable[b] \in Octets
<1>1. ASSUME NEW c \in Octets PROVE Shift[c] \in Octets
  <2>1. CASE c >= 128
    <3>1. (2 * c) % 256 \in Octets /\ 7 \in Octets
      BY DEF Octets
    <3>2. Xor((2 * c) % 256, 7) \in Octets
      BY <3>1, XorType
    <3> QED
      BY <2>1, <3>2 DEF Shift, Octets
  <2>2. CASE ~(c >= 128)
    BY <2>2 DEF Shift, Octets
  <2> QED
    BY <2>1, <2>2
<1>2. ASSUME NEW c \in Octets PROVE Shift[Shift[c]] \in Octets
  BY <1>1
<1>3. CrcTable[b] = Shift[Shift[Shift[Shift[Shift[Shift[Shift[Shift[b]]]]]]]]
  BY DEF CrcTable, Octets
<1> QED
  BY <1>1, <1>3

\* The function Crc reads its value from: it exists for as many bytes as one likes, and every
\* value of it is a byte.
IsCrc(crc, bytes, N) ==
  crc = [i \in 0 .. N |-> IF i = 0 THEN 0 ELSE CrcTable[Xor(crc[i - 1], bytes[i])]]

LEMMA CrcExists ==
  ASSUME NEW bytes
  PROVE  \A N \in Nat : \E crc : IsCrc(crc, bytes, N)
<1> DEFINE S == {N \in Nat : \E crc : IsCrc(crc, bytes, N)}
<1>1. 0 \in S
  <2>1. IsCrc([i \in 0 .. 0 |-> 0], bytes, 0)
    BY DEF IsCrc
  <2> QED
    BY <2>1
<1>2. ASSUME NEW N \in Nat, N \in S PROVE N + 1 \in S
  <2>1. PICK crc : IsCrc(crc, bytes, N)
    BY <1>2
  <2> DEFINE next(x, i) == CrcTable[Xor(x, bytes[i])]
             longer == [i \in 0 .. N + 1 |-> IF i = N + 1 THEN next(crc[N], i) ELSE crc[i]]
  <2>2. crc = [i \in 0 .. N |-> IF i = 0 THEN 0 ELSE next(crc[i - 1], i)]
    BY <2>1 DEF IsCrc
  <2> HIDE DEF next
  <2>3. ASSUME NEW i \in 0 .. N + 1 PROVE longer[i] = IF i = 0 THEN 0 ELSE next(longer[i - 1], i)
    <3>1. CASE i = 0
      BY <2>2, <3>1
    <3>2. CASE i \in 1 .. N
      <4>1. longer[i] = crc[i] /\ longer[i - 1] = crc[i - 1] /\ i # 0 /\ i \in 0 .. N
        BY <3>2
      <4>2. crc[i] = next(crc[i - 1], i)
        BY <2>2, <4>1
      <4> QED
        BY <4>1, <4>2
    <3>3. CASE i = N + 1
      <4>1. longer[i] = next(crc[N], i) /\ longer[i - 1] = crc[N] /\ i # 0
        BY <3>3
      <4> QED
        BY <4>1
    <3> QED
      BY <3>1, <3>2, <3>3
  <2>4. longer = [i \in 0 .. N + 1 |-> longer[i]]
    OBVIOUS
  <2> HIDE DEF longer
  <2>5. longer = [i \in 0 .. N + 1 |-> IF i = 0 THEN 0 ELSE next(longer[i - 1], i)]
    BY <2>3, <2>4
  <2>6. IsCrc(longer, bytes, N + 1)
    BY <2>5 DEF IsCrc, next
  <2> QED
    BY <2>6
<1>3. Nat \subseteq S
  <2> HIDE DEF S
  <2> QED
    BY <1>1, <1>2, Induct
<1> QED
  BY <1>3

LEMMA CrcValue ==
  ASSUME NEW bytes, Len(bytes) \in Nat
  PROVE  \E crc : IsCrc(crc, bytes, Len(bytes)) /\ Crc(bytes) = crc[Len(bytes)]
<1> DEFINE crc == CHOOSE c : IsCrc(c, bytes, Len(bytes))
<1>1. IsCrc(crc, bytes, Len(bytes))
  BY CrcExists
<1>2. Crc(bytes) = crc[Len(bytes)]
  BY DEF Crc, IsCrc
<1> QED
  BY <1>1, <1>2

LEMMA CrcType ==
  ASSUME NEW bytes \in Seq(Octets)
  PROVE  Crc(bytes) \in Octets
<1> DEFINE N == Len(bytes)
<1>0. N \in Nat /\ \A i \in 1 .. N : bytes[i] \in Octets
  OBVIOUS
<1>1. PICK crc : IsCrc(crc, bytes, N) /\ Crc(bytes) = crc[N]
  BY <1>0, CrcValue
<1> DEFINE S == {i \in Nat : i <= N => crc[i] \in Octets}
<1> HIDE DEF N
<1>2. 0 \in S
  BY <1>0, <1>1 DEF IsCrc, Octets
<1>3. ASSUME NEW i \in Nat, i \in S, i + 1 <= N PROVE crc[i + 1] \in Octets
  <2>1. crc[i] \in Octets /\ i + 1 \in 1 .. N /\ i + 1 \in 0 .. N /\ (i + 1) - 1 = i /\ i + 1 # 0
    BY <1>0, <1>3
  <2>2. crc[i + 1] = CrcTable[Xor(crc[(i + 1) - 1], bytes[i + 1])]
    BY <1>1, <2>1 DEF IsCrc
  <2>3. bytes[i + 1] \in Octets
    BY <1>0, <2>1
  <2>4. Xor(crc[i], bytes[i + 1]) \in Octets
    BY <2>1, <2>3, XorType
  <2> QED
    BY <2>1, <2>2, <2>4, CrcTableType
<1>4. Nat \subseteq S
  <2>1. \A i \in Nat : i \in S => i + 1 \in S
    BY <1>3
  <2> HIDE DEF S
  <2> QED
    BY <1>2, <2>1, Induct
<1> QED
  BY <1>0, <1>1, <1>4

LEMMA OctetIs == \A x : x \in Octets <=> x \in Nat /\ x <= 255
  BY DEF Octets

LEMMA ByteConcat ==
  ASSUME NEW s \in Seq(Octets), NEW t \in Seq(Octets)
  PROVE  s \o t \in Seq(Octets) /\ Len(s \o t) = Len(s) + Len(t)
  BY ConcatProperties

LEMMA BuildType ==
  ASSUME NEW type \in Octets, NEW data \in Seq(Octets), NEW optional \in Seq(Octets),
         Len(data) < 65536, Len(optional) < 256
  PROVE  Build(type, data, optional) \in Seq(Octets)
<1> DEFINE header == <<Len(data) \div 256, Len(data) % 256, Len(optional), type>>
<1>1. header \in Seq(Octets)
  <2>0. Len(data) \in Nat /\ Len(optional) \in Nat
    OBVIOUS
  <2>1. Len(data) \div 256 \in Octets /\ Len(data) % 256 \in Octets /\ Len(optional) \in Octets
    <3>1. /\ Len(data) \div 256 \in Nat /\ Len(data) \div 256 <= 255
          /\ Len(data) % 256 \in Nat /\ Len(data) % 256 <= 255 /\ Len(optional) <= 255
      BY <2>0
    <3> DEFINE x == Len(data) \div 256
               y == Len(data) % 256
               z == Len(optional)
    <3> HIDE DEF x, y, z
    <3>a. x \in Nat /\ x <= 255 /\ y \in Nat /\ y <= 255 /\ z \in Nat /\ z <= 255
      BY <2>0, <3>1 DEF x, y, z
    <3>2. x \in Octets /\ y \in Octets /\ z \in Octets
      BY <3>a DEF Octets
    <3> QED
      BY <3>2 DEF x, y, z
  <2> QED
    BY <2>1
<1> DEFINE h == <<Crc(header)>>
           c == <<Crc(data \o optional)>>
           s == <<Sync>>
<1>2. h \in Seq(Octets)
  <2> HIDE DEF header
  <2>1. Crc(header) \in Octets
    BY <1>1, CrcType
  <2> QED
    BY <2>1
<1>3. c \in Seq(Octets)
  <2> DEFINE u == data \o optional
  <2>1. u \in Seq(Octets)
    BY ByteConcat
  <2> HIDE DEF u
  <2>2. Crc(u) \in Octets
    BY <2>1, CrcType
  <2> QED
    BY <2>2 DEF u
<1>4. s \in Seq(Octets)
  BY DEF Sync, Octets
<1>5. Build(type, data, optional) = s \o header \o h \o data \o optional \o c
  BY DEF Build
<1> HIDE DEF s, header, h, c
<1>6. s \o header \in Seq(Octets)
  BY <1>1, <1>4, ByteConcat
<1>7. s \o header \o h \in Seq(Octets)
  BY <1>2, <1>6, ByteConcat
<1>8. s \o header \o h \o data \in Seq(Octets)
  BY <1>7, ByteConcat
<1>9. s \o header \o h \o data \o optional \in Seq(Octets)
  BY <1>8, ByteConcat
<1> QED
  BY <1>3, <1>5, <1>9, ByteConcat

\* What is damaged is still made of bytes.
LEMMA DamagedType ==
  ASSUME NEW bytes \in Seq(Octets), NEW d \in Damages, d.at <= Len(bytes)
  PROVE  Damaged(bytes, d) \in Seq(Octets)
<1>1. CASE d = Intact
  BY <1>1 DEF Damaged, Intact
<1>2. CASE d # Intact /\ d.kind = "alter"
  <2>1. d.at \in DOMAIN bytes
    BY <1>2, DamagesAssumption
  <2>2. Xor(bytes[d.at], 255) \in Octets
    <3>1. bytes[d.at] \in Octets /\ 255 \in Octets
      BY <2>1 DEF Octets
    <3> QED
      BY <3>1, XorType
  <2> DEFINE x == Xor(bytes[d.at], 255)
  <2>3. Damaged(bytes, d) = [bytes EXCEPT ![d.at] = x]
    BY <1>2 DEF Damaged
  <2> HIDE DEF x
  <2> QED
    BY <2>1, <2>2, <2>3 DEF x
<1>3. CASE d # Intact /\ d.kind = "lose"
  <2>1. d.at \in Nat \ {0} /\ d.at <= Len(bytes)
    BY <1>3, DamagesAssumption
  <2> DEFINE s == SubSeq(bytes, 1, d.at - 1)
             t == SubSeq(bytes, d.at + 1, Len(bytes))
  <2>2. s \in Seq(Octets) /\ t \in Seq(Octets)
    BY <2>1
  <2>3. Damaged(bytes, d) = s \o t
    BY <1>3 DEF Damaged, RemoveAt
  <2> HIDE DEF s, t
  <2> QED
    BY <2>2, <2>3, ByteConcat
<1> QED
  BY <1>1, <1>2, <1>3, DamagesAssumption

\* What is read leaves bytes.
LEMMA ReadType ==
  ASSUME NEW s \in Seq(Octets), NEW n \in Nat, s # <<>>
  PROVE  LET taken == Min({n, Len(s)})
         IN /\ taken \in 0 .. Len(s)
            /\ SubSeq(s, 1, taken) \in Seq(Octets) /\ SubSeq(s, taken + 1, Len(s)) \in Seq(Octets)
<1> DEFINE taken == Min({n, Len(s)})
<1>1. Len(s) \in Nat
  OBVIOUS
<1>2. taken \in {n, Len(s)} /\ \A m \in {n, Len(s)} : taken <= m
  <2>1. CASE n <= Len(s)
    BY <1>1, <2>1 DEF Min
  <2>2. CASE ~(n <= Len(s))
    BY <1>1, <2>2 DEF Min
  <2> QED
    BY <2>1, <2>2
<1>3. taken \in 0 .. Len(s)
  BY <1>1, <1>2
<1> HIDE DEF taken
<1>4. SubSeq(s, 1, taken) \in Seq(Octets) /\ SubSeq(s, taken + 1, Len(s)) \in Seq(Octets)
  BY <1>3
<1> QED
  BY <1>3, <1>4 DEF taken

\* What parsing leaves in the buffer is a part of it, and the packet it finds is made of bytes.
LEMMA ParsedType ==
  ASSUME NEW bytes \in Seq(Octets)
  PROVE  LET p == ParseMsg(bytes)
         IN /\ p.rest \in Seq(Octets) /\ Len(p.rest) <= Len(bytes)
            /\ p.packet.data \in Seq(Octets)
            /\ p.status \in {"incomplete", "mismatch", "raises", "ok"}
            /\ p.status = "incomplete" => p.packet = NoPacket
<1> DEFINE syncs == {i \in DOMAIN bytes : bytes[i] = Sync}
           start == CHOOSE i \in syncs : \A j \in syncs : i <= j
           buf == SubSeq(bytes, start, Len(bytes))
           dataLen == 256 * buf[2] + buf[3]
           end == 7 + dataLen + buf[4]
           data == SubSeq(buf, 7, 6 + dataLen)
           optional == SubSeq(buf, 7 + dataLen, end - 1)
           rest == SubSeq(buf, end + 1, Len(buf))
<1>0. ParseMsg(bytes) =
        IF syncs = {} THEN Parsed("incomplete", <<>>, NoPacket)
        ELSE IF Len(buf) < 4 \/ Len(buf) < end THEN Parsed("incomplete", buf, NoPacket)
        ELSE IF buf[6] # Crc(SubSeq(buf, 2, 5)) \/ buf[end] # Crc(data \o optional)
             THEN Parsed("mismatch", rest, NoPacket)
        ELSE IF ~Readable(buf[5], data, optional) THEN Parsed("raises", bytes, NoPacket)
        ELSE Parsed("ok", rest, Packet(buf[5], data, optional))
  BY DEF ParseMsg
<1>1. NoPacket.data = <<>> /\ <<>> \in Seq(Octets) /\ Len(<<>>) = 0 /\ Len(bytes) \in Nat
  BY DEF NoPacket
<1>2. \A t, d, o : Packet(t, d, o).data = d
  <2>1. ASSUME NEW t, NEW d, NEW o PROVE Packet(t, d, o).data = d
    <3>1. CASE t # Radio
      BY <3>1 DEF Packet
    <3>2. CASE t = Radio
      BY <3>2 DEF Packet
    <3> QED
      BY <3>1, <3>2
  <2> QED
    BY <2>1
<1> DEFINE Q(p) == /\ p.rest \in Seq(Octets) /\ Len(p.rest) <= Len(bytes)
                   /\ p.packet.data \in Seq(Octets)
                   /\ p.status \in {"incomplete", "mismatch", "raises", "ok"}
                   /\ p.status = "incomplete" => p.packet = NoPacket
<1>3. \A s, r, q : Parsed(s, r, q).status = s /\ Parsed(s, r, q).rest = r /\ Parsed(s, r, q).packet = q
  BY DEF Parsed
<1>c. ASSUME NEW s, NEW r, NEW q, r \in Seq(Octets), Len(r) <= Len(bytes), q.data \in Seq(Octets),
             s \in {"incomplete", "mismatch", "raises", "ok"}, s = "incomplete" => q = NoPacket
      PROVE  Q(Parsed(s, r, q))
  <2> DEFINE z == Parsed(s, r, q)
  <2>1. z.status = s /\ z.rest = r /\ z.packet = q
    BY DEF Parsed
  <2> HIDE DEF z
  <2>2. z.rest \in Seq(Octets) /\ Len(z.rest) <= Len(bytes) /\ z.packet.data \in Seq(Octets)
    BY <1>c, <2>1
  <2>3. z.status \in {"incomplete", "mismatch", "raises", "ok"} /\ (z.status = "incomplete" => z.packet = NoPacket)
    BY <1>c, <2>1
  <2> QED
    BY <2>2, <2>3 DEF z
<1>d. NoPacket.data \in Seq(Octets) /\ Len(bytes) <= Len(bytes) /\ Len(<<>>) <= Len(bytes)
  BY <1>1
<1>4. CASE syncs = {}
  <2>1. ParseMsg(bytes) = Parsed("incomplete", <<>>, NoPacket)
    BY <1>0, <1>4
  <2>2. Q(Parsed("incomplete", <<>>, NoPacket))
    <3> HIDE DEF Q
    <3> QED
      BY <1>1, <1>c, <1>d
  <2> QED
    BY <2>1, <2>2
<1>5. CASE syncs # {}
  <2>1. start \in 1 .. Len(bytes)
    <3>1. syncs \in SUBSET Nat /\ syncs \subseteq 1 .. Len(bytes)
      OBVIOUS
    <3>2. \E i \in syncs : \A j \in syncs : i <= j
      <4> HIDE DEF syncs
      <4> QED
        BY <1>5, <3>1, LeastNat
    <3> QED
      BY <3>1, <3>2
  <2> HIDE DEF start
  <2>2. buf \in Seq(Octets) /\ Len(buf) = Len(bytes) - start + 1 /\ Len(buf) <= Len(bytes) /\ Len(buf) \in Nat
    BY <2>1
  <2> HIDE DEF buf
  <2>3. ASSUME Len(buf) >= 4, Len(buf) >= end
        PROVE  /\ rest \in Seq(Octets) /\ Len(rest) <= Len(bytes) /\ data \in Seq(Octets)
    <3>1. buf[2] \in Octets /\ buf[3] \in Octets /\ buf[4] \in Octets
      BY <2>2, <2>3
    <3>a. buf[2] \in Nat /\ buf[3] \in Nat /\ buf[4] \in Nat
      BY <3>1, OctetIs, Zenon
    <3>b. \A a, b, c \in Nat : LET n == 256 * a + b
                               IN n \in Nat /\ 7 + n + c \in Nat /\ 7 + n + c >= 7 + n
      OBVIOUS
    <3>2. dataLen \in Nat /\ end \in Nat /\ end >= 7 + dataLen
      BY <3>a, <3>b, ZenonT(30)
    <3> HIDE DEF dataLen, end
    <3>3. rest \in Seq(Octets) /\ Len(rest) <= Len(buf)
      BY <2>2, <2>3, <3>2
    <3>4. data \in Seq(Octets)
      BY <2>2, <2>3, <3>2
    <3> QED
      BY <2>2, <3>3, <3>4
  <2>4. (Len(buf) < 4 \/ Len(buf) < end) \/ (Len(buf) >= 4 /\ Len(buf) >= end)
    <3>1. CASE Len(buf) < 4
      BY <3>1
    <3>2. CASE Len(buf) >= 4
      <4>1. buf[2] \in Octets /\ buf[3] \in Octets /\ buf[4] \in Octets
        BY <2>2, <3>2
      <4>a. buf[2] \in Nat /\ buf[3] \in Nat /\ buf[4] \in Nat
        BY <4>1, OctetIs, Zenon
      <4>2. end \in Int
        BY <4>a, SMTT(30)
      <4> HIDE DEF end
      <4> QED
        BY <2>2, <3>2, <4>2
    <3> QED
      BY <2>2, <3>1, <3>2
  <2> HIDE DEF syncs, end, data, optional, rest
  <2>5. CASE Len(buf) < 4 \/ Len(buf) < end
    <3>1. ParseMsg(bytes) = Parsed("incomplete", buf, NoPacket)
      BY <1>0, <1>5, <2>5
    <3>2. Q(Parsed("incomplete", buf, NoPacket))
      <4> HIDE DEF Q
      <4> QED
        BY <1>c, <1>d, <2>2
    <3> QED
      BY <3>1, <3>2
  <2>6. CASE Len(buf) >= 4 /\ Len(buf) >= end /\ ~(Len(buf) < 4 \/ Len(buf) < end)
    <3>1. rest \in Seq(Octets) /\ Len(rest) <= Len(bytes) /\ data \in Seq(Octets)
      BY <2>3, <2>6
    <3>2. \/ ParseMsg(bytes) = Parsed("mismatch", rest, NoPacket)
          \/ ParseMsg(bytes) = Parsed("raises", bytes, NoPacket)
          \/ ParseMsg(bytes) = Parsed("ok", rest, Packet(buf[5], data, optional))
      BY <1>0, <1>5, <2>6
    <3> DEFINE q == Packet(buf[5], data, optional)
    <3>3. q.data \in Seq(Octets)
      BY <1>2, <3>1
    <3> HIDE DEF Q, q
    <3>4. Q(Parsed("mismatch", rest, NoPacket))
      BY <1>c, <1>d, <3>1
    <3>5. Q(Parsed("raises", bytes, NoPacket))
      BY <1>c, <1>d
    <3>6. Q(Parsed("ok", rest, q))
      BY <1>c, <3>1, <3>3
    <3>7. Q(ParseMsg(bytes))
      BY <3>2, <3>4, <3>5, <3>6 DEF q
    <3> QED
      BY <3>7 DEF Q
  <2> QED
    BY <2>4, <2>5, <2>6
<1> QED
  BY <1>4, <1>5

IsRaw(raw, data) == raw = SubSeq(data, 2, Len(data) - 5) \o <<data[Len(data)]>>
LEMMA RawBytesOf ==
  ASSUME NEW data \in Seq(Octets), NEW raw, Len(raw) = 5, IsRaw(raw, data)
  PROVE  256 * raw[1] + raw[2] \in Nat /\ 256 * raw[1] + raw[2] <= 65535
<1> DEFINE n == Len(data)
           part == SubSeq(data, 2, n - 5)
           last == data[n]
           one == <<last>>
<1>1. raw = part \o one /\ n \in Nat /\ data \in Seq(Octets) /\ Len(one) = 1
  BY DEF IsRaw
<1>2. n >= 6
  <2>1. SUFFICES ASSUME n < 6 PROVE FALSE
    BY <1>1
  <2>2. part = <<>>
    BY <1>1, <2>1
  <2>3. IsSequence(one) /\ IsSequence(<<>>) /\ Len(<<>>) = 0
    BY OneOf, IsSeqOf, EmptySeq
  <2> HIDE DEF part, one
  <2>4. Len(<<>> \o one) = 1
    BY <1>1, <2>3, SequenceConcat
  <2>5. Len(raw) = Len(<<>> \o one)
    BY <1>1, <2>2, Zenon
  <2> DEFINE k == Len(raw)
             joined == <<>> \o one
  <2>6. k = 1 /\ k = 5
    BY <2>4, <2>5, Zenon
  <2> HIDE DEF k
  <2> QED
    BY <2>6
<1>3. part \in Seq(Octets) /\ last \in Octets
  BY <1>1, <1>2
<1>4. one \in Seq(Octets)
  BY <1>3
<1> HIDE DEF part, one
<1>5. raw \in Seq(Octets)
  BY <1>1, <1>3, <1>4, ByteConcat
<1>6. raw[1] \in Octets /\ raw[2] \in Octets
  BY <1>5
<1> DEFINE x == raw[1]
           y == raw[2]
<1> HIDE DEF x, y
<1>7. x \in Nat /\ x <= 255 /\ y \in Nat /\ y <= 255
  BY <1>6, OctetIs DEF x, y
<1>8. 256 * x + y \in Nat /\ 256 * x + y <= 65535
  BY <1>7
<1> QED
  BY <1>8 DEF x, y

LEMMA SaysRun ==
  ASSUME NEW packet, packet.data \in Seq(Octets), Says(packet).what = "run"
  PROVE  Says(packet).n \in Int /\ -65535 <= Says(packet).n /\ Says(packet).n <= 65535
<1> DEFINE raw == RawBytes(packet)
           time == 256 * raw[1] + raw[2]
           said == Says(packet).n
           data == packet.data
<1>1. Len(raw) = 5
  BY DEF Says
<1>2. said = IF raw[3] = 1 THEN time ELSE -time
  BY <1>1 DEF Says
<1>3. data \in Seq(Octets) /\ IsRaw(raw, data)
  BY DEF RawBytes, IsRaw
<1> HIDE DEF raw, data
<1>4. time \in Nat /\ time <= 65535
  BY <1>1, <1>3, RawBytesOf
<1> HIDE DEF time, said
<1>5. said \in Int /\ said <= 65535 /\ said >= -65535
  BY <1>2, <1>4
<1> QED
  BY <1>5 DEF said

-----------------------------------------------------------------------------
(* The line and the buffer, and what telegrams do to the positions.        *)

\* What is on the line and in the buffer
BytesOK == buffer \in Seq(Octets) /\ Len(buffer) <= MaxBuffer /\ line \in Seq(Octets)

LEMMA BytesInit == Init => BytesOK
<1>1. <<>> \in Seq(Octets) /\ Len(<<>>) = 0
  OBVIOUS
<1> QED
  BY <1>1, ChunksAssumption DEF Init, BytesOK

LEMMA BytesStep ==
  ASSUME BytesOK, setup \in DOMAIN Setups, [Next]_vars
  PROVE  BytesOK'
<1>0. /\ buffer \in Seq(Octets) /\ line \in Seq(Octets) /\ Len(buffer) <= MaxBuffer
      /\ <<>> \in Seq(Octets) /\ Len(<<>>) = 0 /\ Len(<<>>) <= MaxBuffer /\ Len(buffer) \in Nat
  BY ChunksAssumption DEF BytesOK
<1>1. ASSUME NEW f \in DOMAIN Frames, NEW d \in Damages, Send(f, d) PROVE BytesOK'
  <2> DEFINE frame == Frames[f]
             bytes == Build(frame.type, frame.data, frame.optional)
             more == Damaged(bytes, d)
  <2>1. /\ frame.type \in Octets /\ frame.data \in Seq(Octets) /\ frame.optional \in Seq(Octets)
        /\ Len(frame.data) < 65536 /\ Len(frame.optional) < 256
    BY FramesAssumption, SMTT(30) DEF Frames, Octets
  <2>2. line' = line \o more /\ d.at <= Len(bytes) /\ buffer' = buffer
    BY <1>1 DEF Send
  <2> HIDE DEF frame
  <2>3. bytes \in Seq(Octets)
    BY <2>1, BuildType
  <2> HIDE DEF bytes
  <2>4. more \in Seq(Octets)
    BY <2>2, <2>3, DamagedType
  <2> HIDE DEF more
  <2>5. line' \in Seq(Octets)
    BY <1>0, <2>2, <2>4, ByteConcat
  <2> QED
    BY <1>0, <2>2, <2>5 DEF BytesOK
<1>2. ASSUME NEW n \in Chunks, Read(n) PROVE BytesOK'
  <2> DEFINE taken == Min({n, Len(line)})
             part == SubSeq(line, 1, taken)
             bytes == buffer \o part
  <2>1. /\ line # <<>> /\ line' = SubSeq(line, taken + 1, Len(line))
        /\ buffer' = Kept(bytes)
    BY <1>2 DEF Read
  <2>2. n \in Nat
    BY ChunksAssumption
  <2>3. part \in Seq(Octets) /\ SubSeq(line, taken + 1, Len(line)) \in Seq(Octets)
    BY <1>0, <2>1, <2>2, ReadType
  <2>4. line' \in Seq(Octets)
    BY <2>1, <2>3
  <2> HIDE DEF part
  <2>5. bytes \in Seq(Octets)
    BY <1>0, <2>3, ByteConcat
  <2> HIDE DEF bytes
  <2>6. Kept(bytes) \in Seq(Octets) /\ Len(Kept(bytes)) <= MaxBuffer
    BY <1>0, <2>5, ChunksAssumption DEF Kept
  <2> QED
    BY <2>1, <2>4, <2>6 DEF BytesOK
<1>3. CASE Frame \/ StoreFails
  <2> DEFINE rest == ParseMsg(buffer).rest
  <2>1. buffer' = rest /\ (line' = line \/ line' = <<>>)
    BY <1>3 DEF Frame, StoreFails, LinkDown
  <2>2. rest \in Seq(Octets) /\ Len(rest) <= Len(buffer)
    BY <1>0, ParsedType
  <2> HIDE DEF rest
  <2>3. Len(rest) <= MaxBuffer
    BY <1>0, <2>2, ChunksAssumption
  <2> QED
    BY <1>0, <2>1, <2>2, <2>3 DEF BytesOK
<1>4. CASE LinkBreaks \/ TimesOut \/ BrokerDrop \/ Crash
  <2>1. (buffer' = buffer \/ buffer' = <<>>) /\ line' = <<>>
    BY <1>4 DEF LinkBreaks, TimesOut, BrokerDrop, Crash, LinkDown, SessionEnds
  <2> QED
    BY <1>0, <2>1 DEF BytesOK
<1>5. CASE \/ Connect \/ Deliver \/ Online \/ Discover \/ NextCover \/ TellPosition
           \/ (\E c \in Covers : DeleteRow(c)) \/ UNCHANGED vars
  <2>1. buffer' = buffer /\ line' = line
    BY <1>5 DEF Connect, Deliver, Online, Discover, NextCover, TellPosition, DeleteRow, vars
  <2> QED
    BY <1>0, <2>1 DEF BytesOK
<1> QED
  BY <1>1, <1>2, <1>3, <1>4, <1>5 DEF Next

\* A packet that is read from such a buffer says a running time of two bytes with a sign.
LEMMA SaysInt ==
  ASSUME BytesOK
  PROVE  LET says == Says(ParseMsg(buffer).packet)
         IN says.what = "run" => says.n \in Int /\ -65535 <= says.n /\ says.n <= 65535
<1> DEFINE packet == ParseMsg(buffer).packet
<1>1. packet.data \in Seq(Octets)
  BY ParsedType DEF BytesOK
<1> HIDE DEF packet
<1>2. Says(packet).what = "run" =>
        Says(packet).n \in Int /\ -65535 <= Says(packet).n /\ Says(packet).n <= 65535
  BY <1>1, SaysRun
<1> QED
  BY <1>2 DEF packet

\* A telegram keeps what is known of the positions, whatever it says of them.
LEMMA StoredKeepsInv ==
  ASSUME CoverInv, NEW c \in Covers, NEW says, NEW p,
         says.what \in {"end", "run"},
         says.what = "end" => says.n \in {0, 100} /\ p = says.n,
         says.what = "run" => says.n \in Int /\ p \in Moved(c, position[c], says.n),
         Stored(c, says, p)
  PROVE  CoverInv' /\ p \in 0 .. 100
<1>1. position[c] \in {NoPosition} \cup 0 .. 100
  BY DEF CoverInv, CoverTypeOK
<1>2. p \in 0 .. 100
  <2>1. CASE says.what = "end"
    BY <2>1
  <2>2. CASE says.what = "run"
    BY <1>1, <2>2, MovedRange
  <2> QED
    BY <2>1, <2>2
<1>3. CASE c \notin rows
  <2>1. Missed(c)
    BY <1>3 DEF Stored
  <2> QED
    BY <1>2, <2>1 DEF CoverInv, CoverTypeOK, DriftBounded, Missed, Unknown
<1>4. CASE c \in rows /\ says.what = "end"
  <2>1. p \in {0, 100} /\ End(c, p)
    BY <1>4 DEF Stored
  <2> QED
    BY <1>2, <2>1, EndKeepsInv
<1>5. CASE c \in rows /\ says.what = "run"
  <2>1. says.n \in Int /\ Move(c, says.n, p)
    BY <1>5 DEF Stored
  <2> QED
    BY <1>2, <2>1, MoveKeepsInv
<1> QED
  BY <1>3, <1>4, <1>5

LEMMA PositionsKept ==
  ASSUME CoverInv, BytesOK, RowsInv, [Next]_vars
  PROVE  CoverInv'
<1>1. CASE Frame
  <2> DEFINE packet == ParseMsg(buffer).packet
             device == Matching(Devices, packet)
             says == Says(packet)
             c == device.cover
  <2>1. UNCHANGED coverVars \/ Tell(device, packet)
    BY <1>1 DEF Frame
  <2>2. CASE UNCHANGED coverVars
    BY <2>2 DEF CoverInv, CoverTypeOK, DriftBounded, coverVars
  <2>3. CASE Tell(device, packet) /\ ~UNCHANGED coverVars
    <3>1. says.what = "run" => says.n \in Int
      BY SaysInt
    <3>2. says.what \in {"end", "run", "nothing"} /\ (says.what = "end" => says.n \in {0, 100})
      BY SaysWhat
    <3> HIDE DEF packet, device
    <3>3. c \in Covers /\ says.what # "nothing"
      BY <2>3 DEF Tell
    <3>4. PICK p \in IF says.what = "end" THEN {says.n} ELSE Moved(c, position[c], says.n) :
            Stored(c, says, p)
      BY <2>3, <3>3 DEF Tell
    <3>5. /\ says.what = "end" => says.n \in {0, 100} /\ p = says.n
          /\ says.what = "run" => says.n \in Int /\ p \in Moved(c, position[c], says.n)
      BY <3>1, <3>2, <3>4
    <3> HIDE DEF says, c
    <3> QED
      BY <3>2, <3>3, <3>4, <3>5, StoredKeepsInv
  <2> QED
    BY <2>1, <2>2, <2>3
<1>2. CASE StoreFails
  <2>1. PICK c \in Covers : Missed(c)
    BY <1>2 DEF StoreFails, RowsInv
  <2> QED
    BY <2>1 DEF CoverInv, CoverTypeOK, DriftBounded, Missed, Unknown
<1>3. CASE \/ \E f \in DOMAIN Frames, d \in Damages : Send(f, d)
           \/ \E n \in Chunks : Read(n)
           \/ Connect \/ Deliver \/ Online \/ Discover \/ NextCover \/ TellPosition
           \/ LinkBreaks \/ TimesOut \/ BrokerDrop \/ Crash
           \/ UNCHANGED vars
  <2>1. UNCHANGED coverVars
    BY <1>3 DEF Send, Read, Connect, Deliver, Online, Discover, NextCover, TellPosition, LinkBreaks,
                TimesOut, BrokerDrop, Crash, vars, coverVars
  <2> QED
    BY <2>1 DEF CoverInv, CoverTypeOK, DriftBounded, coverVars
<1>4. CASE \E c \in Covers : DeleteRow(c)
  BY <1>4, ForgetKeepsInv DEF DeleteRow
<1> QED
  BY <1>1, <1>2, <1>3, <1>4 DEF Next

-----------------------------------------------------------------------------
(* The messages in the client, and the types of all of it.                 *)

\* The messages in the client that a task waits for, and what the tasks do meanwhile
Waits(by) == {i \in 1 .. Len(wire) : wire[i].by = by}
Waiting ==
  /\ radio.pc \in {"down", "reading", "framing", "publishing"}
  /\ radio.pc = "publishing" <=> Waits("radio") # {}
  /\ \A i, j \in Waits("radio") : i = j
  /\ mqtt.pc \in {"clearing", "telling"} => Waits("mqtt") # {}

\* What is told of a position, and what the broker retains, is a percentage.
InRange(message) == \A c \in Covers : About(message, c) => message.payload["POS"][1] \in 0 .. 100
AllInRange == \A i \in 1 .. Len(wire) : InRange(wire[i].message)
RetainedOK == retained \in [Covers -> {NoPosition} \cup 0 .. 100]

LEMMA HandedOver ==
  ASSUME IsSequence(wire), NEW by, NEW message, HandOver(by, message)
  PROVE  /\ Waits(by)' = Waits(by) \cup {Len(wire) + 1}
         /\ \A b : b # by => Waits(b)' = Waits(b)
         /\ AllInRange /\ InRange(message) => AllInRange'
         /\ Len(wire) + 1 \notin Waits(by)
<1> DEFINE x == [by |-> by, message |-> message]
<1>0. x.by = by /\ x.message = message /\ wire' = Append(wire, x)
  BY DEF HandOver
<1> HIDE DEF x
<1>1. /\ IsSequence(wire') /\ Len(wire) \in Nat /\ Len(wire') = Len(wire) + 1 /\ wire'[Len(wire) + 1] = x
      /\ \A i \in 1 .. Len(wire) : wire'[i] = wire[i]
      /\ \A i : i \in 1 .. Len(wire') <=> i \in 1 .. Len(wire) \/ i = Len(wire) + 1
      /\ Len(wire) + 1 \notin 1 .. Len(wire)
  BY <1>0, SequenceAppend, SequenceIs
<1>2. ASSUME NEW b PROVE Waits(b)' = Waits(b) \cup (IF b = by THEN {Len(wire) + 1} ELSE {})
  <2>1. ASSUME NEW i PROVE i \in Waits(b)' <=> i \in Waits(b) \/ (b = by /\ i = Len(wire) + 1)
    <3>1. CASE i \in 1 .. Len(wire)
      BY <1>1, <3>1 DEF Waits
    <3>2. CASE i = Len(wire) + 1
      <4>1. i \in 1 .. Len(wire') /\ i \notin 1 .. Len(wire) /\ wire'[i].by = by
        BY <1>0, <1>1, <3>2
      <4> QED
        BY <3>2, <4>1 DEF Waits
    <3>3. CASE i \notin 1 .. Len(wire) /\ i # Len(wire) + 1
      BY <1>1, <3>3 DEF Waits
    <3> QED
      BY <3>1, <3>2, <3>3
  <2> QED
    BY <2>1
<1>3. ASSUME AllInRange, InRange(message) PROVE AllInRange'
  <2>1. ASSUME NEW i \in 1 .. Len(wire') PROVE InRange(wire'[i].message)
    <3>1. CASE i \in 1 .. Len(wire)
      BY <1>1, <1>3, <3>1 DEF AllInRange
    <3>2. CASE i = Len(wire) + 1
      BY <1>0, <1>1, <1>3, <3>2
    <3> QED
      BY <1>1, <3>1, <3>2
  <2> QED
    BY <2>1 DEF AllInRange, InRange, About
<1> QED
  BY <1>1, <1>2, <1>3 DEF Waits

\* What the client has left, and maybe one message more
LEMMA DeliveredWaits ==
  ASSUME TaskOK, wire # <<>>, NEW x, NEW more \in BOOLEAN,
         wire' = IF more THEN Append(Tail(wire), x) ELSE Tail(wire)
  PROVE  /\ \A b, i : i \in Waits(b)' <=> \/ i \in 1 .. Len(wire) - 1 /\ i + 1 \in Waits(b)
                                          \/ more /\ i = Len(wire) /\ x.by = b
         /\ AllInRange /\ (more => InRange(x.message)) => AllInRange'
<1>1. /\ Len(wire) \in Nat /\ Len(wire) >= 1
      /\ Len(wire') = IF more THEN Len(wire) ELSE Len(wire) - 1
      /\ \A i \in 1 .. Len(wire) - 1 : wire'[i] = wire[i + 1]
      /\ more => wire'[Len(wire)] = x
  BY WireShifted
<1>2. ASSUME NEW i PROVE i \in 1 .. Len(wire') <=> i \in 1 .. Len(wire) - 1 \/ (more /\ i = Len(wire))
  BY <1>1
<1>3. \A i \in 1 .. Len(wire) - 1 : i + 1 \in 1 .. Len(wire) /\ i # Len(wire)
  BY <1>1
<1>4. ASSUME NEW b, NEW i
      PROVE  i \in Waits(b)' <=> \/ i \in 1 .. Len(wire) - 1 /\ i + 1 \in Waits(b)
                                 \/ more /\ i = Len(wire) /\ x.by = b
  <2>1. CASE i \in 1 .. Len(wire) - 1
    <3>1. i \in 1 .. Len(wire') /\ i + 1 \in 1 .. Len(wire) /\ i # Len(wire) /\ wire'[i] = wire[i + 1]
      BY <1>1, <1>2, <1>3, <2>1
    <3> QED
      BY <2>1, <3>1 DEF Waits
  <2>2. CASE i \notin 1 .. Len(wire) - 1 /\ i = Len(wire)
    <3>1. CASE more
      <4>1. i \in 1 .. Len(wire') /\ wire'[i] = x
        BY <1>1, <1>2, <2>2, <3>1
      <4> QED
        BY <2>2, <3>1, <4>1 DEF Waits
    <3>2. CASE ~more
      BY <1>2, <2>2, <3>2 DEF Waits
    <3> QED
      BY <3>1, <3>2
  <2>3. CASE i \notin 1 .. Len(wire) - 1 /\ i # Len(wire)
    BY <1>2, <2>3 DEF Waits
  <2> QED
    BY <2>1, <2>2, <2>3
<1>5. ASSUME AllInRange, more => InRange(x.message) PROVE AllInRange'
  <2>1. ASSUME NEW i \in 1 .. Len(wire') PROVE InRange(wire'[i].message)
    <3>1. CASE i \in 1 .. Len(wire) - 1
      <4>1. wire'[i] = wire[i + 1] /\ i + 1 \in 1 .. Len(wire)
        BY <1>1, <1>3, <3>1
      <4> QED
        BY <1>5, <4>1 DEF AllInRange
    <3>2. CASE more /\ i = Len(wire)
      BY <1>1, <1>5, <3>2
    <3> QED
      BY <1>2, <3>1, <3>2
  <2> QED
    BY <2>1 DEF AllInRange, InRange, About
<1> QED
  BY <1>4, <1>5

\* The transceiver task begins to publish.
LEMMA StartWaits ==
  ASSUME TaskOK, Waiting, AllInRange, radio.pc = "framing", UNCHANGED mqtt,
         NEW messages, IsSequence(messages), Start(messages),
         messages # <<>> => InRange(messages[1])
  PROVE  Waiting' /\ AllInRange'
<1>1. CASE messages = <<>>
  <2>1. UNCHANGED <<radio, wire>>
    BY <1>1 DEF Start
  <2> QED
    BY <2>1 DEF Waiting, Waits, AllInRange, InRange, About
<1>2. CASE messages # <<>>
  <2>1. radio' = [pc |-> "publishing", todo |-> Tail(messages)] /\ HandOver("radio", Head(messages))
    BY <1>2 DEF Start
  <2>2. Head(messages) = messages[1]
    BY <1>2, SequenceTail
  <2> DEFINE first1 == messages[1]
  <2>3. HandOver("radio", first1) /\ IsSequence(wire) /\ InRange(first1)
    BY <1>2, <2>1, <2>2 DEF TaskOK
  <2> HIDE DEF first1
  <2>4. /\ Waits("radio")' = Waits("radio") \cup {Len(wire) + 1}
        /\ Waits("mqtt")' = Waits("mqtt") /\ AllInRange'
    BY <2>3, HandedOver
  <2>5. radio'.pc = "publishing" /\ Waits("radio") = {}
    BY <2>1 DEF Waiting
  <2> QED
    BY <2>4, <2>5 DEF Waiting
<1> QED
  BY <1>1, <1>2

LEMMA TellWaits ==
  ASSUME TaskOK, Waiting, AllInRange, CoverInv, radio.pc = "framing", UNCHANGED mqtt, NEW packet,
         IsPublished(Matching(Devices, packet), packet),
         Tell(Matching(Devices, packet), packet),
         Says(packet).what = "run" => Says(packet).n \in Int
  PROVE  Waiting' /\ AllInRange'
<1> DEFINE device == Matching(Devices, packet)
           content == Content(device, packet)
           says == Says(packet)
           order == Order(device, packet)
<1>0. setup \in DOMAIN Setups
  BY DEF TaskOK
<1>1. ASSUME NEW values
      PROVE  /\ IsSequence(Publications(device, values, order))
             /\ \A i \in 1 .. Len(Publications(device, values, order)), c \in Covers :
                  ~About(Publications(device, values, order)[i], c)
  BY <1>0, PublicationsElsewhere
<1>2. CASE device.cover \notin Covers \/ says.what = "nothing"
  <2> DEFINE messages == Publications(device, content, order)
  <2>1. Start(messages)
    BY <1>2 DEF Tell
  <2>2. IsSequence(messages) /\ \A i \in 1 .. Len(messages), c \in Covers : ~About(messages[i], c)
    BY <1>1
  <2> HIDE DEF device, content, says, order, messages
  <2>3. messages # <<>> => InRange(messages[1])
    <3>1. messages # <<>> => 1 \in 1 .. Len(messages)
      BY <2>2, SequenceIs
    <3> QED
      BY <2>2, <3>1 DEF InRange
  <2> QED
    BY <2>1, <2>2, <2>3, StartWaits
<1>3. CASE device.cover \in Covers /\ says.what # "nothing"
  <2> DEFINE c == device.cover
  <2>1. PICK p \in IF says.what = "end" THEN {says.n} ELSE Moved(c, position[c], says.n) :
          \E whole : Stored(c, says, p) /\ Start(<<Position(c, p)>> \o Publications(device, whole, order))
    BY <1>3 DEF Tell
  <2>2. PICK whole : Stored(c, says, p) /\ Start(<<Position(c, p)>> \o Publications(device, whole, order))
    BY <2>1
  <2> DEFINE messages == Publications(device, whole, order)
             first1 == Position(c, p)
             all == <<first1>> \o messages
  <2>3. IsSequence(messages) /\ Start(all) /\ c \in Covers
    BY <1>1, <1>3, <2>2
  <2>4. says.what \in {"end", "run", "nothing"} /\ (says.what = "end" => says.n \in {0, 100})
    BY SaysWhat
  <2> HIDE DEF device, content, order, messages
  <2>5. p \in 0 .. 100
    <3>1. says.what = "run" => says.n \in Int
      OBVIOUS
    <3> HIDE DEF says, c
    <3>2. /\ says.what = "end" => says.n \in {0, 100} /\ p = says.n
          /\ says.what = "run" => says.n \in Int /\ p \in Moved(c, position[c], says.n)
      BY <2>1, <2>4, <3>1
    <3>3. says.what \in {"end", "run"}
      BY <1>3, <2>4
    <3> QED
      BY <2>2, <2>3, <3>2, <3>3, StoredKeepsInv
  <2>6. InRange(first1)
    <3>1. \A d : About(first1, d) => first1.payload["POS"][1] = p
      BY TopicsApart
    <3> HIDE DEF first1
    <3> QED
      BY <2>5, <3>1 DEF InRange
  <2> HIDE DEF first1, c, says
  <2>7. /\ IsSequence(all) /\ Len(messages) \in Nat
        /\ \A i \in 1 .. 1 + Len(messages) : all[i] = IF i <= 1 THEN <<first1>>[i] ELSE messages[i - 1]
    <3>1. Len(<<first1>>) = 1 /\ IsSequence(<<first1>>)
      BY OneOf
    <3> QED
      BY <2>3, <3>1, SequenceConcat, SequenceIs
  <2>8. all[1] = first1
    <3>1. 1 \in 1 .. 1 + Len(messages)
      BY <2>7
    <3>2. all[1] = <<first1>>[1]
      BY <2>7, <3>1
    <3> QED
      BY <3>2
  <2> HIDE DEF all
  <2> QED
    BY <2>3, <2>6, <2>7, <2>8, StartWaits
<1> QED
  BY <1>2, <1>3

LEMMA FrameWaits ==
  ASSUME TaskOK, Waiting, AllInRange, CoverInv, BytesOK, Frame
  PROVE  Waiting' /\ AllInRange'
<1> DEFINE p == ParseMsg(buffer)
<1>1. radio.pc = "framing" /\ UNCHANGED mqtt
  BY DEF Frame
<1>2. CASE IsPublished(Matching(Devices, p.packet), p.packet) /\ Tell(Matching(Devices, p.packet), p.packet)
  <2> DEFINE packet == p.packet
  <2>1. Says(packet).what = "run" => Says(packet).n \in Int
    BY SaysInt
  <2> HIDE DEF packet
  <2>2. IsPublished(Matching(Devices, packet), packet) /\ Tell(Matching(Devices, packet), packet)
    BY <1>2 DEF packet
  <2> QED
    BY <1>1, <2>1, <2>2, TellWaits
<1>3. CASE wire' = wire /\ radio'.pc \in {"down", "reading", "framing"}
  <2>1. Waits("radio") = {} /\ \A b : Waits(b)' = Waits(b)
    BY <1>1, <1>3 DEF Waiting, Waits
  <2> QED
    BY <1>1, <1>3, <2>1 DEF Waiting, AllInRange, InRange, About
<1>4. LinkDown => radio'.pc = "down"
  BY DEF LinkDown, Unlinked
<1>5. radio' = [radio EXCEPT !.pc = Framed(p)] => radio'.pc \in {"reading", "framing"}
  <2>1. radio = [pc |-> radio.pc, todo |-> radio.todo] /\ Framed(p) \in {"reading", "framing"}
    BY DEF TaskOK, Framed
  <2> DEFINE q == Framed(p)
  <2> HIDE DEF q, p
  <2>2. radio' = [radio EXCEPT !.pc = q] => radio'.pc = q
    BY <2>1
  <2> QED
    BY <2>1, <2>2 DEF q
<1> QED
  <2>1. \/ IsPublished(Matching(Devices, p.packet), p.packet) /\ Tell(Matching(Devices, p.packet), p.packet)
        \/ LinkDown /\ wire' = wire
        \/ radio' = [radio EXCEPT !.pc = Framed(p)] /\ wire' = wire
    BY DEF Frame
  <2> HIDE DEF p
  <2> QED
    BY <1>2, <1>3, <1>4, <1>5, <2>1

LEMMA DeliverWaits ==
  ASSUME TaskOK, Waiting, AllInRange, RetainedOK, Deliver
  PROVE  Waiting' /\ AllInRange' /\ RetainedOK'
<1>0. wire # <<>> /\ Got(Head(wire).message)
  BY DEF Deliver
<1>1. IsSequence(wire) /\ Len(wire) >= 1 /\ Head(wire) = wire[1] /\ 1 \in 1 .. Len(wire) /\ Len(wire) \in Nat
  BY <1>0, SequenceTail, SequenceIs DEF TaskOK
<1>2. RetainedOK'
  <2>1. InRange(wire[1].message)
    BY <1>1 DEF AllInRange
  <2> DEFINE message == wire[1].message
             told == {c \in Covers : message.topic = PositionTopic(c)}
  <2>2. retained' = [c \in Covers |-> IF c \in told THEN message.payload["POS"][1] ELSE retained[c]]
    BY <1>0, <1>1 DEF Got
  <2>3. \A c \in told : message.payload["POS"][1] \in 0 .. 100
    BY <2>1 DEF InRange, About
  <2> HIDE DEF told, message
  <2> QED
    BY <2>2, <2>3 DEF RetainedOK
<1>3. /\ radio = [pc |-> radio.pc, todo |-> radio.todo] /\ IsSequence(radio.todo)
      /\ \A i \in 1 .. Len(radio.todo), c \in Covers : ~About(radio.todo[i], c)
      /\ mqtt = [pc |-> mqtt.pc, todo |-> mqtt.todo]
  BY DEF TaskOK
<1>4. \A b : 1 \in Waits(b) <=> wire[1].by = b
  BY <1>1 DEF Waits
<1>6. \A i : i \in 1 .. Len(wire) - 1 => i + 1 # 1 /\ i \in Int
  BY <1>1
<1>7. CASE wire[1].by = "radio"
  <2>1. radio.pc = "publishing" /\ \A i : i \in 1 .. Len(wire) - 1 => i + 1 \notin Waits("radio")
    BY <1>4, <1>6, <1>7 DEF Waiting
  <2>2. CASE radio.todo # <<>>
    <3> DEFINE x == [by |-> "radio", message |-> Head(radio.todo)]
    <3>1. /\ wire' = Append(Tail(wire), x) /\ mqtt' = mqtt
          /\ radio' = [radio EXCEPT !.todo = Tail(@)]
      BY <1>1, <1>7, <2>2 DEF Deliver
    <3>2. x.by = "radio" /\ x.message = radio.todo[1] /\ 1 \in 1 .. Len(radio.todo)
      BY <1>3, <2>2, SequenceTail, SequenceIs
    <3> HIDE DEF x
    <3>3. InRange(x.message)
      BY <1>3, <3>2 DEF InRange
    <3>4. wire' = IF TRUE THEN Append(Tail(wire), x) ELSE Tail(wire)
      BY <3>1
    <3>5. /\ \A b, i : i \in Waits(b)' <=>
                 (i \in 1 .. Len(wire) - 1 /\ i + 1 \in Waits(b)) \/ (i = Len(wire) /\ x.by = b)
          /\ AllInRange'
      <4>1. \A b, i : i \in Waits(b)' <=>
                (i \in 1 .. Len(wire) - 1 /\ i + 1 \in Waits(b)) \/ (TRUE /\ i = Len(wire) /\ x.by = b)
        BY <1>0, <3>4, DeliveredWaits
      <4>2. AllInRange /\ (TRUE => InRange(x.message)) => AllInRange'
        BY <1>0, <3>4, DeliveredWaits
      <4> QED
        BY <3>3, <4>1, <4>2
    <3>6. \A i : i \in Waits("radio")' <=> i = Len(wire)
      BY <2>1, <3>2, <3>5
    <3>7. radio'.pc = "publishing"
      BY <1>3, <2>1, <3>1
    <3>8. Waits("mqtt") # {} => Waits("mqtt")' # {}
      <4>1. SUFFICES ASSUME NEW k \in Waits("mqtt") PROVE k - 1 \in Waits("mqtt")'
        OBVIOUS
      <4>2. k \in 1 .. Len(wire) /\ k # 1
        BY <1>4, <1>7 DEF Waits
      <4>3. k - 1 \in 1 .. Len(wire) - 1 /\ (k - 1) + 1 = k
        BY <1>1, <4>2
      <4> QED
        BY <3>5, <4>3
    <3> QED
      BY <1>2, <3>1, <3>5, <3>6, <3>7, <3>8 DEF Waiting
  <2>3. CASE radio.todo = <<>>
    <3>1. wire' = Tail(wire) /\ mqtt' = mqtt /\ radio' = [radio EXCEPT !.pc = "framing"]
      BY <1>1, <1>7, <2>3 DEF Deliver
    <3> DEFINE x == [by |-> "", message |-> 0]
    <3> HIDE DEF x
    <3>4. wire' = IF FALSE THEN Append(Tail(wire), x) ELSE Tail(wire)
      BY <3>1
    <3>5. /\ \A b, i : i \in Waits(b)' <=> i \in 1 .. Len(wire) - 1 /\ i + 1 \in Waits(b)
          /\ AllInRange'
      BY <1>0, <3>4, DeliveredWaits
    <3>6. Waits("radio")' = {}
      BY <2>1, <3>5
    <3>7. radio'.pc = "framing"
      BY <1>3, <3>1
    <3>8. Waits("mqtt") # {} => Waits("mqtt")' # {}
      <4>1. SUFFICES ASSUME NEW k \in Waits("mqtt") PROVE k - 1 \in Waits("mqtt")'
        OBVIOUS
      <4>2. k \in 1 .. Len(wire) /\ k # 1
        BY <1>4, <1>7 DEF Waits
      <4>3. k - 1 \in 1 .. Len(wire) - 1 /\ (k - 1) + 1 = k
        BY <1>1, <4>2
      <4> QED
        BY <3>5, <4>3
    <3> QED
      BY <1>2, <3>1, <3>5, <3>6, <3>7, <3>8 DEF Waiting
  <2> QED
    BY <2>2, <2>3
<1>8. CASE wire[1].by \in {"mqtt", "nobody"}
  <2>1. wire' = Tail(wire) /\ radio' = radio
    <3>1. CASE wire[1].by = "mqtt"
      BY <1>1, <3>1 DEF Deliver
    <3>2. CASE wire[1].by = "nobody"
      BY <1>1, <3>2 DEF Deliver
    <3> QED
      BY <1>8, <3>1, <3>2
  <2> DEFINE x == [by |-> "", message |-> 0]
  <2> HIDE DEF x
  <2>2. wire' = IF FALSE THEN Append(Tail(wire), x) ELSE Tail(wire)
    BY <2>1
  <2>3. /\ \A b, i : i \in Waits(b)' <=> i \in 1 .. Len(wire) - 1 /\ i + 1 \in Waits(b)
        /\ AllInRange'
    BY <1>0, <2>2, DeliveredWaits
  <2>4. ASSUME NEW b, wire[1].by # b PROVE Waits(b) # {} <=> Waits(b)' # {}
    <3>1. ASSUME NEW k \in Waits(b) PROVE k - 1 \in Waits(b)'
      <4>2. k \in 1 .. Len(wire) /\ k # 1
        BY <1>4, <2>4 DEF Waits
      <4>3. k - 1 \in 1 .. Len(wire) - 1 /\ (k - 1) + 1 = k
        BY <1>1, <4>2
      <4> QED
        BY <2>3, <4>3
    <3>2. ASSUME NEW k \in Waits(b)' PROVE k + 1 \in Waits(b)
      BY <2>3
    <3> QED
      BY <3>1, <3>2
  <2>5. ASSUME NEW i \in Waits("radio")', NEW j \in Waits("radio")' PROVE i = j
    <3>1. i \in 1 .. Len(wire) - 1 /\ j \in 1 .. Len(wire) - 1 /\ i + 1 = j + 1
      BY <2>3 DEF Waiting
    <3> QED
      BY <1>1, <3>1
  <2>6. wire[1].by # "radio"
    BY <1>8
  <2>7. radio'.pc = "publishing" <=> Waits("radio")' # {}
    BY <2>1, <2>4, <2>6 DEF Waiting
  <2>8. mqtt'.pc \in {"clearing", "telling"} => Waits("mqtt")' # {}
    <3>1. CASE wire[1].by = "mqtt"
      <4>1. mqtt' = IF mqtt.pc = "clearing" THEN [mqtt EXCEPT !.pc = "cleared"]
                    ELSE [pc |-> "covers", todo |-> Tail(mqtt.todo)]
        BY <1>1, <3>1 DEF Deliver
      <4> QED
        BY <1>3, <4>1
    <3>2. CASE wire[1].by = "nobody"
      <4>1. mqtt' = mqtt
        BY <1>1, <3>2 DEF Deliver
      <4>2. wire[1].by # "mqtt"
        BY <3>2
      <4> QED
        BY <2>4, <4>1, <4>2 DEF Waiting
    <3> QED
      BY <1>8, <3>1, <3>2
  <2> QED
    BY <1>2, <2>1, <2>3, <2>5, <2>7, <2>8 DEF Waiting
<1>9. wire[1].by \in {"radio", "mqtt", "nobody"}
  BY <1>1 DEF TaskOK
<1> QED
  BY <1>7, <1>8, <1>9

\* Steps that leave the messages in the client alone
LEMMA QuietWaits ==
  ASSUME Waiting, AllInRange, wire' = wire,
         \/ radio'.pc = radio.pc
         \/ radio.pc # "publishing" /\ radio'.pc \in {"down", "reading", "framing"},
         mqtt'.pc = mqtt.pc \/ mqtt'.pc \notin {"clearing", "telling"}
  PROVE  Waiting' /\ AllInRange'
<1>1. \A b : Waits(b)' = Waits(b)
  BY DEF Waits
<1> QED
  BY <1>1 DEF Waiting, AllInRange, InRange, About

\* The transceiver task gives up waiting.
LEMMA TimesOutWaits ==
  ASSUME TaskOK, Waiting, AllInRange, TimesOut
  PROVE  Waiting' /\ AllInRange'
<1>1. PICK k \in DOMAIN wire : wire[k].by = "radio" /\ wire' = [wire EXCEPT ![k].by = "nobody"]
  BY DEF TimesOut
<1>2. radio' = Unlinked /\ mqtt' = mqtt
  BY DEF TimesOut, LinkDown
<1>3. IsSequence(wire) /\ DOMAIN wire = 1 .. Len(wire) /\ Len(wire) \in Nat
  BY SequenceIs DEF TaskOK
<1>4. PICK T : wire \in Seq(T)
  BY <1>3, SequenceIs
<1> DEFINE x == [wire[k] EXCEPT !.by = "nobody"]
<1>5. x.by = "nobody" /\ x.message = wire[k].message
  BY <1>1, <1>3 DEF TaskOK
<1>6. wire' = [wire EXCEPT ![k] = x]
  BY <1>1
<1> HIDE DEF x
<1>7. Len(wire') = Len(wire) /\ \A i \in 1 .. Len(wire) : wire'[i] = IF i = k THEN x ELSE wire[i]
  BY <1>3, <1>4, <1>6
<1>8. k \in Waits("radio")
  BY <1>1, <1>3 DEF Waits
<1>9. \A i \in 1 .. Len(wire') : wire'[i].by # "radio"
  <2>1. \A i \in 1 .. Len(wire) : i # k => wire[i].by # "radio"
    BY <1>8 DEF Waiting, Waits
  <2> QED
    BY <1>5, <1>7, <2>1
<1>10. \A i \in 1 .. Len(wire) : wire[i].by = "mqtt" => wire'[i].by = "mqtt"
  <2>1. ASSUME NEW i \in 1 .. Len(wire), wire[i].by = "mqtt" PROVE wire'[i].by = "mqtt"
    <3>1. i # k
      BY <1>1, <2>1
    <3> QED
      BY <1>7, <2>1, <3>1
  <2> QED
    BY <2>1
<1>11. \A i \in 1 .. Len(wire') : wire'[i].message = wire[i].message
  BY <1>5, <1>7
<1>12. AllInRange'
  BY <1>7, <1>11 DEF AllInRange, InRange, About
<1>13. Waits("radio")' = {} /\ (Waits("mqtt") # {} => Waits("mqtt")' # {})
  BY <1>7, <1>9, <1>10 DEF Waits
<1> QED
  BY <1>2, <1>12, <1>13 DEF Waiting, Unlinked

\* The MQTT task hands a message over.
LEMMA MqttWaits ==
  ASSUME TaskOK, Waiting, AllInRange, NEW message, HandOver("mqtt", message), UNCHANGED radio,
         InRange(message)
  PROVE  Waiting' /\ AllInRange'
<1>1. IsSequence(wire)
  BY DEF TaskOK
<1>2. /\ Waits("mqtt")' = Waits("mqtt") \cup {Len(wire) + 1}
      /\ Waits("radio")' = Waits("radio") /\ AllInRange'
  BY <1>1, HandedOver
<1> QED
  BY <1>2 DEF Waiting

\* The whole invariant, beside ToldInv
StreamOK ==
  /\ CoverInv /\ BytesOK /\ Waiting /\ AllInRange /\ RetainedOK
  /\ behind \subseteq Covers

LEMMA StreamTypes == ToldInv /\ StreamOK => TypeOK
<1> SUFFICES ASSUME ToldInv, StreamOK PROVE TypeOK
  OBVIOUS
<1>1. IsSequence(wire) /\ DOMAIN wire = 1 .. Len(wire)
  BY SequenceIs DEF ToldInv, TaskOK
<1>2. \A by : (\E i \in DOMAIN wire : wire[i].by = by) <=> Waits(by) # {}
  BY <1>1 DEF Waits
<1>3. (radio.pc = "publishing") = (\E i \in DOMAIN wire : wire[i].by = "radio")
  BY <1>2 DEF StreamOK, Waiting
<1>4. (mqtt.pc \in {"clearing", "telling"}) = (\E i \in DOMAIN wire : wire[i].by = "mqtt")
  <2>1. (\E i \in DOMAIN wire : wire[i].by = "mqtt") => mqtt.pc \in {"clearing", "telling"}
    BY <1>1 DEF ToldInv, TaskOK
  <2> DEFINE some == \E i \in DOMAIN wire : wire[i].by = "mqtt"
  <2>2. mqtt.pc \in {"clearing", "telling"} => some
    BY <1>2 DEF StreamOK, Waiting
  <2> HIDE DEF some
  <2>3. mqtt.pc \in {"clearing", "telling"} <=> some
    BY <2>1, <2>2 DEF some
  <2> DEFINE busy == mqtt.pc \in {"clearing", "telling"}
  <2>4. busy \in BOOLEAN /\ some \in BOOLEAN /\ (busy <=> some)
    BY <2>3 DEF some
  <2> HIDE DEF busy
  <2>5. busy = some
    BY <2>4
  <2> QED
    BY <2>5 DEF some, busy
<1>5. rows \subseteq Covers /\ mqtt.pc \in {"down", "discovery", "covers", "clearing", "cleared", "telling", "up"}
  BY DEF ToldInv, TaskOK, Rows
<1>6. buffer \in Seq(0 .. 255) /\ Len(buffer) <= MaxBuffer /\ line \in Seq(0 .. 255)
  BY DEF StreamOK, BytesOK, Octets
<1>7. CoverTypeOK /\ behind \subseteq Covers /\ retained \in [Covers -> {NoPosition} \cup 0 .. 100]
      /\ radio.pc \in {"down", "reading", "framing", "publishing"}
  BY DEF StreamOK, CoverInv, RetainedOK, Waiting
<1> QED
  BY <1>3, <1>4, <1>5, <1>6, <1>7 DEF TypeOK

LEMMA StreamInit == Init => StreamOK
<1> SUFFICES ASSUME Init PROVE StreamOK
  OBVIOUS
<1>1. CoverInv /\ BytesOK
  BY CoverInitInv, BytesInit DEF Init
<1>2. Len(wire) = 0 /\ radio.pc = "down" /\ mqtt.pc = "down"
  BY EmptySeq DEF Init, Unlinked, Offline
<1>3. \A b : Waits(b) = {}
  BY <1>2 DEF Waits
<1>4. Waiting /\ AllInRange
  BY <1>2, <1>3 DEF Waiting, AllInRange
<1> QED
  BY <1>1, <1>4 DEF Init, StreamOK, RetainedOK

LEMMA TasksWait ==
  ASSUME ToldInv, StreamOK, [Next]_vars
  PROVE  Waiting' /\ AllInRange' /\ RetainedOK'
<1>0. /\ TaskOK /\ Waiting /\ AllInRange /\ RetainedOK /\ CoverInv /\ BytesOK
      /\ radio = [pc |-> radio.pc, todo |-> radio.todo]
  BY DEF ToldInv, StreamOK, TaskOK
<1>1. CASE Deliver
  BY <1>0, <1>1, DeliverWaits
<1>2. CASE ~Deliver
  <2>1. retained' = retained
    BY <1>2 DEF Next, Send, Read, Connect, Frame, Online, Discover, NextCover, TellPosition, DeleteRow,
                LinkBreaks, StoreFails, TimesOut, BrokerDrop, Crash, vars
  <2>2. RetainedOK'
    BY <1>0, <2>1 DEF RetainedOK
  <2>3. CASE Frame
    BY <1>0, <2>2, <2>3, FrameWaits
  <2>4. CASE TimesOut
    BY <1>0, <2>2, <2>4, TimesOutWaits
  <2>5. CASE Online \/ Discover
    <3>1. wire' = wire /\ radio' = radio /\ mqtt'.pc \in {"discovery", "up", "covers"}
      BY <2>5 DEF Online, Discover, Offline
    <3> QED
      BY <1>0, <2>2, <3>1, QuietWaits
  <2>6. CASE \/ \E f \in DOMAIN Frames, d \in Damages : Send(f, d)
             \/ (\E c \in Covers : DeleteRow(c)) \/ UNCHANGED vars
    <3>1. wire' = wire /\ radio' = radio /\ mqtt' = mqtt
      BY <2>6 DEF Send, DeleteRow, vars
    <3> QED
      BY <1>0, <2>2, <3>1, QuietWaits
  <2>7. CASE \E n \in Chunks : Read(n)
    <3>1. wire' = wire /\ mqtt' = mqtt /\ radio.pc = "reading"
          /\ (radio' = radio \/ radio' = [radio EXCEPT !.pc = "framing"])
      BY <2>7 DEF Read
    <3>2. radio'.pc \in {"reading", "framing"}
      BY <1>0, <3>1
    <3> QED
      BY <1>0, <2>2, <3>1, <3>2, QuietWaits
  <2>8. CASE Connect \/ LinkBreaks \/ StoreFails
    <3>1. wire' = wire /\ mqtt' = mqtt /\ radio.pc # "publishing" /\ radio'.pc \in {"down", "reading"}
      BY <2>8 DEF Connect, LinkBreaks, StoreFails, LinkDown, Reading, Unlinked
    <3> QED
      BY <1>0, <2>2, <3>1, QuietWaits
  <2>9. CASE BrokerDrop \/ Crash
    <3>1. wire' = <<>> /\ radio' = Unlinked /\ mqtt' = Offline
      BY <2>9 DEF BrokerDrop, Crash, SessionEnds
    <3>2. Len(wire') = 0 /\ radio'.pc = "down" /\ mqtt'.pc = "down"
      BY <3>1, EmptySeq DEF Unlinked, Offline
    <3>3. \A b : Waits(b)' = {}
      BY <3>2 DEF Waits
    <3> QED
      BY <2>2, <3>2, <3>3 DEF Waiting, AllInRange
  <2>10. CASE NextCover
    <3>1. radio' = radio
      BY <2>10 DEF NextCover
    <3>2. CASE mqtt.todo = <<>>
      <4>1. wire' = wire /\ mqtt' = [mqtt EXCEPT !.pc = "up"]
        BY <2>10, <3>2 DEF NextCover
      <4>2. mqtt'.pc = "up"
        BY <1>0, <4>1 DEF TaskOK
      <4> QED
        BY <1>0, <2>2, <3>1, <4>1, <4>2, QuietWaits
    <3>3. CASE mqtt.todo # <<>>
      <4> DEFINE message == Told(LegacyTopic(Head(mqtt.todo)), [n \in {} |-> 0])
      <4>1. HandOver("mqtt", message)
        BY <2>10, <3>3 DEF NextCover
      <4>2. \A c : ~About(message, c)
        BY TopicsApart
      <4> HIDE DEF message
      <4>3. InRange(message)
        BY <4>2 DEF InRange
      <4> QED
        BY <1>0, <2>2, <3>1, <4>1, <4>3, MqttWaits
    <3> QED
      BY <3>2, <3>3
  <2>11. CASE TellPosition
    <3> DEFINE c == Head(mqtt.todo)
               p == position[c]
    <3>1. radio' = radio /\ mqtt.pc = "cleared"
      BY <2>11 DEF TellPosition
    <3>2. c \in Covers
      <4>1. mqtt.todo \in Seq(Covers) /\ mqtt.todo # <<>>
        BY <1>0, <3>1 DEF TaskOK
      <4> QED
        BY <4>1, HeadTailProperties
    <3>3. p \in {NoPosition} \cup 0 .. 100
      BY <1>0, <3>2 DEF CoverInv, CoverTypeOK
    <3>4. CASE p = NoPosition
      <4>1. wire' = wire /\ mqtt' = [pc |-> "covers", todo |-> Tail(mqtt.todo)]
        BY <2>11, <3>4 DEF TellPosition
      <4>2. mqtt'.pc = "covers"
        BY <4>1
      <4> QED
        BY <1>0, <2>2, <3>1, <4>1, <4>2, QuietWaits
    <3>5. CASE p # NoPosition
      <4> DEFINE message == Position(c, p)
      <4>1. HandOver("mqtt", message)
        BY <2>11, <3>5 DEF TellPosition
      <4>2. \A d : About(message, d) => message.payload["POS"][1] = p
        BY TopicsApart
      <4> HIDE DEF message, p
      <4>3. InRange(message)
        BY <3>3, <3>5, <4>2 DEF InRange
      <4> QED
        BY <1>0, <2>2, <3>1, <4>1, <4>3, MqttWaits
    <3> QED
      BY <3>4, <3>5
  <2> QED
    BY <1>2, <2>3, <2>4, <2>5, <2>6, <2>7, <2>8, <2>9, <2>10, <2>11 DEF Next
<1> QED
  BY <1>1, <1>2

LEMMA StreamStep == ToldInv /\ StreamOK /\ [Next]_vars => StreamOK'
<1> SUFFICES ASSUME ToldInv, StreamOK, [Next]_vars PROVE StreamOK'
  OBVIOUS
<1>1. BytesOK'
  BY BytesStep DEF ToldInv, TaskOK, StreamOK
<1>2. RowsInv
  BY DEF ToldInv, TaskOK, Rows, RowsInv
<1>3. CoverInv'
  BY <1>2, PositionsKept DEF StreamOK
<1>4. behind' \subseteq Covers
  <2>1. CASE Frame
    <3> DEFINE packet == ParseMsg(buffer).packet
               device == Matching(Devices, packet)
    <3>1. behind' = behind \/ Tell(device, packet)
      BY <2>1 DEF Frame
    <3> HIDE DEF device, packet
    <3> QED
      BY <3>1 DEF Tell, Stored, StreamOK
  <2>2. CASE NextCover \/ BrokerDrop \/ Crash \/ \E c \in Covers : DeleteRow(c)
    BY <2>2 DEF NextCover, BrokerDrop, Crash, SessionEnds, DeleteRow, StreamOK
  <2>3. CASE \/ \E f \in DOMAIN Frames, d \in Damages : Send(f, d)
             \/ \E n \in Chunks : Read(n)
             \/ Connect \/ Deliver \/ Online \/ Discover \/ TellPosition
             \/ LinkBreaks \/ TimesOut \/ StoreFails \/ UNCHANGED vars
    <3>1. behind' = behind
      BY <2>3 DEF Send, Read, Connect, Deliver, Online, Discover, TellPosition, LinkBreaks, StoreFails,
                  TimesOut, vars
    <3> QED
      BY <3>1 DEF StreamOK
  <2> QED
    BY <2>1, <2>2, <2>3 DEF Next
<1>5. Waiting' /\ AllInRange' /\ RetainedOK'
  BY TasksWait
<1> QED
  BY <1>1, <1>3, <1>4, <1>5 DEF StreamOK

LEMMA StreamKept == Spec => [](ToldInv /\ StreamOK)
<1>1. Init => ToldInv /\ StreamOK
  BY ToldInit, StreamInit
<1>2. (ToldInv /\ StreamOK) /\ [Next]_vars => (ToldInv /\ StreamOK)'
  BY ToldStep, StreamStep
<1> QED
  BY <1>1, <1>2, PTL DEF Spec

\* For any configuration, any frames and damages, any chunks and any faults: the buffer
\* (_MAX_BUFFER in stream.py) holds bytes and never more than its limit, a position is a percentage
\* on its way from a telegram to the broker, and each task waits for at most one message, which is
\* then in the client.
THEOREM Typed == Spec => []TypeOK
  BY StreamKept, StreamTypes, PTL

\* The stored position drifts by at most one percent per movement whatever becomes of telegrams,
\* connections and the process.
THEOREM ReceptionDrift == Spec => []DriftBounded
<1>1. ToldInv /\ StreamOK => DriftBounded
  BY DEF StreamOK, CoverInv
<1> QED
  BY <1>1, StreamKept, PTL

\* With all running times of two bytes with a sign, every step of Reception is one of Cover, and a
\* position is forgotten with its row only.
THEOREM ReceptionImplementsCover ==
  ASSUME \A n \in Int : -65535 <= n /\ n <= 65535 => n \in Runs
  PROVE  Spec => CoverKept
<1>1. ToldInv /\ StreamOK => RunsHeard
  BY SaysInt DEF StreamOK, RunsHeard
<1> QED
  BY <1>1, StreamKept, ReceptionKeepsCover, PTL

LEMMA XorTableInjective ==
  ASSUME NEW a \in 0 .. 15, NEW b \in 0 .. 15, NEW c \in 0 .. 15, XorTable[a][b] = XorTable[a][c]
  PROVE  b = c
<1> DEFINE bit(x, k) == ((a \div k) + (x \div k)) % 2
<1>1. ASSUME NEW x \in 0 .. 15
      PROVE  /\ XorTable[a][x] = 8 * bit(x, 8) + 4 * bit(x, 4) + 2 * bit(x, 2) + bit(x, 1)
             /\ bit(x, 8) \in 0 .. 1 /\ bit(x, 4) \in 0 .. 1 /\ bit(x, 2) \in 0 .. 1 /\ bit(x, 1) \in 0 .. 1
  <2>1. bit(x, 8) \in 0 .. 1 /\ bit(x, 4) \in 0 .. 1 /\ bit(x, 2) \in 0 .. 1 /\ bit(x, 1) \in 0 .. 1
    OBVIOUS
  <2> QED
    BY <2>1 DEF XorTable
<1>2. ASSUME bit(b, 8) = bit(c, 8), bit(b, 4) = bit(c, 4), bit(b, 2) = bit(c, 2), bit(b, 1) = bit(c, 1)
      PROVE  b = c
  <2>1. ASSUME NEW x \in Nat, NEW y \in Nat, NEW z \in Nat, (z + x) % 2 = (z + y) % 2 PROVE x % 2 = y % 2
    BY <2>1
  <2>2. ASSUME NEW k \in {1, 2, 4, 8} PROVE (b \div k) % 2 = (c \div k) % 2
    <3>1. bit(b, k) = bit(c, k)
      BY <1>2
    <3>2. a \div k \in Nat /\ b \div k \in Nat /\ c \div k \in Nat
      OBVIOUS
    <3> QED
      BY <2>1, <3>1, <3>2
  <2>3. (b \div 8) % 2 = (c \div 8) % 2 /\ (b \div 4) % 2 = (c \div 4) % 2
        /\ (b \div 2) % 2 = (c \div 2) % 2 /\ (b \div 1) % 2 = (c \div 1) % 2
    BY <2>2
  <2> QED
    BY <2>3
<1> HIDE DEF bit
<1>3. \A p, q, r, s, t, u, v, w \in 0 .. 1 :
        8 * p + 4 * q + 2 * r + s = 8 * t + 4 * u + 2 * v + w => p = t /\ q = u /\ r = v /\ s = w
  OBVIOUS
<1>4. /\ bit(b, 8) = bit(c, 8) /\ bit(b, 4) = bit(c, 4) /\ bit(b, 2) = bit(c, 2) /\ bit(b, 1) = bit(c, 1)
  <2>1. /\ bit(b, 8) \in 0 .. 1 /\ bit(b, 4) \in 0 .. 1 /\ bit(b, 2) \in 0 .. 1 /\ bit(b, 1) \in 0 .. 1
        /\ bit(c, 8) \in 0 .. 1 /\ bit(c, 4) \in 0 .. 1 /\ bit(c, 2) \in 0 .. 1 /\ bit(c, 1) \in 0 .. 1
    BY <1>1
  <2>2. 8 * bit(b, 8) + 4 * bit(b, 4) + 2 * bit(b, 2) + bit(b, 1)
          = 8 * bit(c, 8) + 4 * bit(c, 4) + 2 * bit(c, 2) + bit(c, 1)
    <3>1. XorTable[a][b] = 8 * bit(b, 8) + 4 * bit(b, 4) + 2 * bit(b, 2) + bit(b, 1)
      BY <1>1
    <3>2. XorTable[a][c] = 8 * bit(c, 8) + 4 * bit(c, 4) + 2 * bit(c, 2) + bit(c, 1)
      BY <1>1
    <3> QED
      BY <3>1, <3>2
  <2> QED
    BY <1>3, <2>1, <2>2
<1> QED
  BY <1>2, <1>4

\* Either operand of an exclusive or can be told from the other and the result.
LEMMA XorInjective ==
  ASSUME NEW a \in Octets, NEW b \in Octets, NEW c \in Octets, Xor(a, b) = Xor(a, c)
  PROVE  b = c
<1> DEFINE high(x) == XorTable[a \div 16][x \div 16]
           low(x) == XorTable[a % 16][x % 16]
<1>1. ASSUME NEW x \in Octets
      PROVE  Xor(a, x) = 16 * high(x) + low(x) /\ high(x) \in 0 .. 15 /\ low(x) \in 0 .. 15
  <2>1. a \div 16 \in 0 .. 15 /\ a % 16 \in 0 .. 15 /\ x \div 16 \in 0 .. 15 /\ x % 16 \in 0 .. 15
    BY DEF Octets
  <2> QED
    BY <2>1, XorTableType DEF Xor
<1>2. a \div 16 \in 0 .. 15 /\ a % 16 \in 0 .. 15 /\ b \div 16 \in 0 .. 15 /\ b % 16 \in 0 .. 15
      /\ c \div 16 \in 0 .. 15 /\ c % 16 \in 0 .. 15
  BY DEF Octets
<1>3. high(b) = high(c) /\ low(b) = low(c)
  <2> HIDE DEF high, low
  <2> QED
    BY <1>1, SMTT(30)
<1>4. b \div 16 = c \div 16 /\ b % 16 = c % 16
  BY <1>2, <1>3, XorTableInjective
<1>5. b \in Nat /\ c \in Nat
  BY DEF Octets
<1> QED
  BY <1>4, <1>5

LEMMA XorTableSymmetric ==
  ASSUME NEW a \in 0 .. 15, NEW b \in 0 .. 15
  PROVE  XorTable[a][b] = XorTable[b][a]
<1> DEFINE bit(x, y, k) == ((x \div k) + (y \div k)) % 2
<1>1. \A x, y \in 0 .. 15 : XorTable[x][y] = 8 * bit(x, y, 8) + 4 * bit(x, y, 4) + 2 * bit(x, y, 2) + bit(x, y, 1)
  BY DEF XorTable
<1>2. \A k \in {1, 2, 4, 8} : bit(a, b, k) = bit(b, a, k)
  OBVIOUS
<1> HIDE DEF bit
<1> QED
  BY <1>1, <1>2

LEMMA XorSymmetric ==
  ASSUME NEW a \in Octets, NEW b \in Octets
  PROVE  Xor(a, b) = Xor(b, a)
<1>1. a \div 16 \in 0 .. 15 /\ a % 16 \in 0 .. 15 /\ b \div 16 \in 0 .. 15 /\ b % 16 \in 0 .. 15
  BY DEF Octets
<1> QED
  BY <1>1, XorTableSymmetric DEF Xor

\* The last bit of an exclusive or
LEMMA XorParity ==
  ASSUME NEW a \in Octets, NEW b \in Octets
  PROVE  Xor(a, b) % 2 = (a + b) % 2
<1>1. ASSUME NEW x \in 0 .. 15, NEW y \in 0 .. 15 PROVE XorTable[x][y] % 2 = (x + y) % 2
  <2> DEFINE bit(k) == ((x \div k) + (y \div k)) % 2
  <2>1. bit(8) \in 0 .. 1 /\ bit(4) \in 0 .. 1 /\ bit(2) \in 0 .. 1 /\ bit(1) = (x + y) % 2 /\ bit(1) \in 0 .. 1
    OBVIOUS
  <2>2. XorTable[x][y] = 8 * bit(8) + 4 * bit(4) + 2 * bit(2) + bit(1)
    BY DEF XorTable
  <2> HIDE DEF bit
  <2>3. (8 * bit(8) + 4 * bit(4) + 2 * bit(2) + bit(1)) % 2 = bit(1)
    BY <2>1
  <2> QED
    BY <2>1, <2>2, <2>3
<1>2. a \div 16 \in 0 .. 15 /\ a % 16 \in 0 .. 15 /\ b \div 16 \in 0 .. 15 /\ b % 16 \in 0 .. 15
  BY DEF Octets
<1> DEFINE high == XorTable[a \div 16][b \div 16]
           low == XorTable[a % 16][b % 16]
<1>3. high \in 0 .. 15 /\ low \in 0 .. 15 /\ Xor(a, b) = 16 * high + low
  BY <1>2, XorTableType DEF Xor
<1>4. low % 2 = ((a % 16) + (b % 16)) % 2
  BY <1>1, <1>2
<1> HIDE DEF high, low
<1>5. (16 * high + low) % 2 = low % 2
  BY <1>3
<1>6. a \in Nat /\ b \in Nat
  BY DEF Octets
<1>7. ((a % 16) + (b % 16)) % 2 = (a + b) % 2
  BY <1>6
<1> QED
  BY <1>3, <1>4, <1>5, <1>7

LEMMA ShiftType == \A c \in Octets : Shift[c] \in Octets
<1>1. ASSUME NEW c \in Octets PROVE Shift[c] \in Octets
  <2>1. CASE c >= 128
    <3>1. (2 * c) % 256 \in Octets /\ 7 \in Octets
      BY DEF Octets
    <3>2. Xor((2 * c) % 256, 7) \in Octets
      BY <3>1, XorType
    <3> QED
      BY <2>1, <3>2 DEF Shift, Octets
  <2>2. CASE ~(c >= 128)
    BY <2>2 DEF Shift, Octets
  <2> QED
    BY <2>1, <2>2
<1> QED
  BY <1>1

\* A shift loses nothing: the bit that leaves on the left comes back on the right.
LEMMA ShiftInjective ==
  ASSUME NEW a \in Octets, NEW b \in Octets, Shift[a] = Shift[b]
  PROVE  a = b
<1> DEFINE doubled(c) == (2 * c) % 256
<1>0. \A c \in Octets : c \in Nat /\ c <= 255 /\ doubled(c) \in Octets
  BY DEF Octets
<1>1. ASSUME NEW c \in Octets, c >= 128
      PROVE  Shift[c] = Xor(7, doubled(c)) /\ Shift[c] % 2 = 1 /\ doubled(c) = 2 * c - 256
  <2>0. c \in Nat /\ c <= 255 /\ doubled(c) \in Octets /\ 7 \in Octets
    BY <1>0 DEF Octets
  <2>1. Shift[c] = Xor(doubled(c), 7)
    BY <1>1 DEF Shift, Octets
  <2>2. doubled(c) = 2 * c - 256
    BY <1>1, <2>0
  <2> HIDE DEF doubled
  <2>3. Xor(doubled(c), 7) = Xor(7, doubled(c)) /\ Xor(doubled(c), 7) % 2 = (doubled(c) + 7) % 2
    BY <2>0, XorSymmetric, XorParity
  <2>4. (doubled(c) + 7) % 2 = 1
    BY <2>0, <2>2
  <2> QED
    BY <2>1, <2>2, <2>3, <2>4
<1>2. ASSUME NEW c \in Octets, c < 128 PROVE Shift[c] = 2 * c /\ Shift[c] % 2 = 0
  <2>1. c \in Nat /\ ~(c >= 128)
    BY <1>0, <1>2
  <2>2. Shift[c] = 2 * c
    BY <2>1 DEF Shift, Octets
  <2> QED
    BY <2>1, <2>2
<1> HIDE DEF doubled
<1>3. CASE a >= 128 /\ b >= 128
  <2>1. 7 \in Octets
    BY DEF Octets
  <2>2. doubled(a) = doubled(b)
    BY <1>0, <1>1, <1>3, <2>1, XorInjective
  <2> QED
    BY <1>0, <1>1, <1>3, <2>2
<1>4. CASE a < 128 /\ b < 128
  <2>1. 2 * a = 2 * b
    BY <1>2, <1>4
  <2> QED
    BY <1>0, <2>1
<1>5. CASE a >= 128 /\ b < 128
  BY <1>1, <1>2, <1>5
<1>6. CASE a < 128 /\ b >= 128
  BY <1>1, <1>2, <1>6
<1>7. (a >= 128 \/ a < 128) /\ (b >= 128 \/ b < 128)
  BY <1>0
<1> QED
  BY <1>3, <1>4, <1>5, <1>6, <1>7

LEMMA CrcTableInjective ==
  ASSUME NEW a \in Octets, NEW b \in Octets, CrcTable[a] = CrcTable[b]
  PROVE  a = b
<1> DEFINE twice(c) == Shift[Shift[c]]
<1>1. ASSUME NEW x \in Octets, NEW y \in Octets PROVE twice(x) \in Octets /\ (twice(x) = twice(y) => x = y)
  BY ShiftType, ShiftInjective
<1>2. \A x \in Octets : CrcTable[x] = twice(twice(twice(twice(x))))
  BY DEF CrcTable, Octets
<1> HIDE DEF twice
<1> QED
  BY <1>1, <1>2

\* A byte is never its own inverse.
LEMMA AlteredByte ==
  ASSUME NEW a \in Octets
  PROVE  Xor(a, 255) \in Octets /\ Xor(a, 255) # a
<1>1. 255 \in Octets /\ a \in Nat
  BY DEF Octets
<1>2. Xor(a, 255) % 2 = (a + 255) % 2
  BY <1>1, XorParity
<1>3. (a + 255) % 2 # a % 2
  BY <1>1
<1> QED
  BY <1>1, <1>2, <1>3, XorType

\* The checksum tells two lists of bytes apart that differ in one place.
LEMMA CrcDiffers ==
  ASSUME NEW s \in Seq(Octets), NEW t \in Seq(Octets), Len(s) = Len(t), NEW k \in 1 .. Len(s),
         s[k] # t[k], \A i \in 1 .. Len(s) : i # k => s[i] = t[i]
  PROVE  Crc(s) # Crc(t)
<1> DEFINE N == Len(s)
<1>0. N \in Nat /\ Len(t) = N /\ k \in 1 .. N /\ \A i \in 1 .. N : s[i] \in Octets /\ t[i] \in Octets
  OBVIOUS
<1>1. PICK c : IsCrc(c, s, N) /\ Crc(s) = c[N]
  BY <1>0, CrcValue
<1>2. PICK d : IsCrc(d, t, N) /\ Crc(t) = d[N]
  BY <1>0, CrcValue
<1>a. \A i \in 1 .. N : i # k => s[i] = t[i]
  OBVIOUS
<1> HIDE DEF N
<1>3. /\ c[0] = 0 /\ d[0] = 0
      /\ \A i \in 1 .. N : c[i] = CrcTable[Xor(c[i - 1], s[i])] /\ d[i] = CrcTable[Xor(d[i - 1], t[i])]
  BY <1>0, <1>1, <1>2 DEF IsCrc
<1> DEFINE S == {i \in Nat : i <= N => c[i] \in Octets /\ d[i] \in Octets /\ (c[i] = d[i] <=> i < k)}
<1>4. 0 \in S
  BY <1>0, <1>3 DEF Octets
<1>5. ASSUME NEW i \in Nat, i \in S, i + 1 <= N
      PROVE  /\ c[i + 1] \in Octets /\ d[i + 1] \in Octets
             /\ c[i + 1] = d[i + 1] <=> i + 1 < k
  <2>1. /\ c[i] \in Octets /\ d[i] \in Octets /\ (c[i] = d[i] <=> i < k)
        /\ i + 1 \in 1 .. N /\ (i + 1) - 1 = i
    BY <1>0, <1>5
  <2> DEFINE j == i + 1
             x == Xor(c[i], s[j])
             y == Xor(d[i], t[j])
  <2>2. c[j] = CrcTable[x] /\ d[j] = CrcTable[y] /\ s[j] \in Octets /\ t[j] \in Octets
    BY <1>0, <1>3, <2>1
  <2>3. x \in Octets /\ y \in Octets
    BY <2>1, <2>2, XorType
  <2>4. c[j] \in Octets /\ d[j] \in Octets /\ (c[j] = d[j] <=> x = y)
    <3> HIDE DEF x, y, j
    <3> QED
      BY <2>2, <2>3, CrcTableType, CrcTableInjective
  <2>5. CASE j < k
    <3>1. c[i] = d[i] /\ s[j] = t[j]
      BY <1>0, <1>a, <2>1, <2>5
    <3>2. x = y
      BY <3>1
    <3> QED
      BY <2>4, <2>5, <3>2
  <2>6. CASE j = k
    <3>1. c[i] = d[i] /\ s[j] # t[j]
      BY <1>0, <2>1, <2>6
    <3>2. x # y
      BY <2>1, <2>2, <3>1, XorInjective
    <3> QED
      BY <2>4, <2>6, <3>2
  <2>7. CASE j > k
    <3>1. c[i] # d[i] /\ s[j] = t[j]
      BY <1>0, <1>a, <2>1, <2>7
    <3>2. x = Xor(s[j], c[i]) /\ y = Xor(s[j], d[i])
      BY <2>1, <2>2, <3>1, XorSymmetric
    <3>3. x # y
      BY <2>1, <2>2, <3>1, <3>2, XorInjective
    <3>4. ~(j < k)
      BY <1>0, <2>7
    <3> QED
      BY <2>4, <3>3, <3>4
  <2>8. j < k \/ j = k \/ j > k
    BY <1>0
  <2> QED
    BY <2>4, <2>5, <2>6, <2>7, <2>8
<1>6. Nat \subseteq S
  <2>1. \A i \in Nat : i \in S => i + 1 \in S
    <3> SUFFICES ASSUME NEW i \in Nat, i \in S, i + 1 <= N
                 PROVE  c[i + 1] \in Octets /\ d[i + 1] \in Octets /\ (c[i + 1] = d[i + 1] <=> i + 1 < k)
      OBVIOUS
    <3> QED
      BY <1>5
  <2> HIDE DEF S
  <2> QED
    BY <1>4, <2>1, Induct
<1>7. N \in S /\ ~(N < k)
  BY <1>0, <1>6
<1> QED
  BY <1>0, <1>1, <1>2, <1>7

-----------------------------------------------------------------------------
(* Frames: one that was built is parsed whatever follows it, a part of it  *)
(* is left for later, and one with an altered byte is thrown away alone.   *)

\* A frame whose header has the lengths of what it contains, n bytes and m bytes
IsFrame(bytes, n, m) ==
  /\ bytes \in Seq(Octets) /\ n \in Nat /\ m \in Nat /\ Len(bytes) = 7 + n + m
  /\ bytes[1] = Sync /\ 256 * bytes[2] + bytes[3] = n /\ bytes[4] = m
Body(bytes) == SubSeq(bytes, 7, Len(bytes) - 1)
Checks(bytes) == bytes[6] = Crc(SubSeq(bytes, 2, 5)) /\ bytes[Len(bytes)] = Crc(Body(bytes))

\* With the sync byte in front nothing is skipped.
LEMMA SyncFirst ==
  ASSUME NEW bytes \in Seq(Octets), Len(bytes) >= 1, bytes[1] = Sync
  PROVE  LET syncs == {i \in DOMAIN bytes : bytes[i] = Sync}
             start == CHOOSE i \in syncs : \A j \in syncs : i <= j
         IN syncs # {} /\ SubSeq(bytes, start, Len(bytes)) = bytes
<1> DEFINE syncs == {i \in DOMAIN bytes : bytes[i] = Sync}
           start == CHOOSE i \in syncs : \A j \in syncs : i <= j
<1>1. Len(bytes) \in Nat /\ DOMAIN bytes = 1 .. Len(bytes)
  OBVIOUS
<1>2. 1 \in syncs /\ \A j \in syncs : j \in Int /\ 1 <= j
  BY <1>1
<1> HIDE DEF syncs
<1>3. start \in syncs /\ \A j \in syncs : start <= j
  BY <1>2
<1>4. start = 1
  BY <1>2, <1>3
<1>5. SubSeq(bytes, 1, Len(bytes)) = bytes
  BY SubSeqFull
<1> QED
  BY <1>2, <1>4, <1>5 DEF syncs

LEMMA FrameParsed ==
  ASSUME NEW bytes, NEW n, NEW m, IsFrame(bytes, n, m), NEW more \in Seq(Octets)
  PROVE  LET data == SubSeq(bytes, 7, 6 + n)
             optional == SubSeq(bytes, 7 + n, 6 + n + m)
         IN ParseMsg(bytes \o more) =
              IF ~Checks(bytes) THEN Parsed("mismatch", more, NoPacket)
              ELSE IF ~Readable(bytes[5], data, optional) THEN Parsed("raises", bytes \o more, NoPacket)
              ELSE Parsed("ok", more, Packet(bytes[5], data, optional))
<1> DEFINE whole == bytes \o more
           L == Len(bytes)
           syncs == {i \in DOMAIN whole : whole[i] = Sync}
           start == CHOOSE i \in syncs : \A j \in syncs : i <= j
           buf == SubSeq(whole, start, Len(whole))
           dataLen == 256 * buf[2] + buf[3]
           end == 7 + dataLen + buf[4]
           data == SubSeq(buf, 7, 6 + dataLen)
           optional == SubSeq(buf, 7 + dataLen, end - 1)
           rest == SubSeq(buf, end + 1, Len(buf))
<1>0. ParseMsg(whole) =
        IF syncs = {} THEN Parsed("incomplete", <<>>, NoPacket)
        ELSE IF Len(buf) < 4 \/ Len(buf) < end THEN Parsed("incomplete", buf, NoPacket)
        ELSE IF buf[6] # Crc(SubSeq(buf, 2, 5)) \/ buf[end] # Crc(data \o optional)
             THEN Parsed("mismatch", rest, NoPacket)
        ELSE IF ~Readable(buf[5], data, optional) THEN Parsed("raises", whole, NoPacket)
        ELSE Parsed("ok", rest, Packet(buf[5], data, optional))
  BY DEF ParseMsg
<1>1. /\ bytes \in Seq(Octets) /\ n \in Nat /\ m \in Nat /\ L = 7 + n + m /\ L \in Nat
      /\ bytes[1] = Sync /\ 256 * bytes[2] + bytes[3] = n /\ bytes[4] = m
  BY DEF IsFrame
<1>2. /\ whole \in Seq(Octets) /\ Len(whole) = L + Len(more) /\ Len(more) \in Nat
      /\ \A i \in 1 .. L : whole[i] = bytes[i]
  BY <1>1, ConcatProperties, ConcatIndex
<1>3. whole[1] = Sync /\ Len(whole) >= 1
  <2> HIDE DEF L, whole
  <2> QED
    BY <1>1, <1>2
<1>4. syncs # {} /\ buf = whole
  <2> HIDE DEF whole
  <2> QED
    BY <1>2, <1>3, SyncFirst
<1> HIDE DEF buf, syncs
<1>5. dataLen = n /\ end = L /\ buf[end] = bytes[L] /\ buf[5] = bytes[5] /\ buf[6] = bytes[6]
  <2> HIDE DEF L, whole
  <2>1. /\ buf[2] = bytes[2] /\ buf[3] = bytes[3] /\ buf[4] = bytes[4] /\ buf[5] = bytes[5] /\ buf[6] = bytes[6]
        /\ buf[L] = bytes[L]
    BY <1>1, <1>2, <1>4
  <2> QED
    BY <1>1, <2>1
<1> HIDE DEF dataLen, end
<1>6. ~(Len(buf) < 4 \/ Len(buf) < end)
  <2> HIDE DEF L, whole
  <2> QED
    BY <1>1, <1>2, <1>4, <1>5
<1>7. /\ SubSeq(whole, 2, 5) = SubSeq(bytes, 2, 5)
      /\ SubSeq(whole, 7, 6 + n) = SubSeq(bytes, 7, 6 + n)
      /\ SubSeq(whole, 7 + n, 6 + n + m) = SubSeq(bytes, 7 + n, 6 + n + m)
  <2>1. /\ 2 \in 1 .. L /\ 5 \in 1 .. L /\ 7 \in 1 .. L /\ 6 + n \in 1 .. L /\ 7 + n \in 1 .. L
        /\ 6 + n + m \in 1 .. L
    BY <1>1
  <2> QED
    BY <1>1, <2>1, SubSeqOfConcat1
<1>8. SubSeq(whole, L + 1, Len(whole)) = more
  <2>1. CASE Len(more) = 0
    <3>1. L + 1 \in Int /\ Len(whole) \in Int /\ Len(whole) < L + 1
      BY <1>1, <1>2, <2>1
    <3> HIDE DEF L, whole
    <3>2. SubSeq(whole, L + 1, Len(whole)) = <<>>
      BY <3>1, SubSeqEmpty
    <3>3. more = <<>>
      BY <2>1, EmptySeq
    <3> QED
      BY <3>2, <3>3
  <2>2. CASE Len(more) # 0
    <3>1. /\ L + 1 \in L + 1 .. L + Len(more) /\ L + Len(more) \in L + 1 .. L + Len(more)
      BY <1>1, <1>2, <2>2
    <3>2. SubSeq(whole, L + 1, L + Len(more)) = SubSeq(more, (L + 1) - L, (L + Len(more)) - L)
      BY <1>1, <3>1, SubSeqOfConcat2, SMTT(30)
    <3>3. (L + 1) - L = 1 /\ (L + Len(more)) - L = Len(more)
      BY <1>1, <1>2
    <3>4. SubSeq(more, 1, Len(more)) = more
      BY SubSeqFull
    <3> QED
      BY <1>2, <3>2, <3>3, <3>4
  <2> QED
    BY <2>1, <2>2
<1> DEFINE d == SubSeq(bytes, 7, 6 + n)
           o == SubSeq(bytes, 7 + n, 6 + n + m)
<1>9. d \o o = Body(bytes)
  <2>1. 7 \in 1 .. Len(bytes) + 1 /\ 6 + n \in 7 - 1 .. Len(bytes) /\ 6 + n + m \in 6 + n .. Len(bytes)
        /\ (6 + n) + 1 = 7 + n /\ Len(bytes) - 1 = 6 + n + m
    BY <1>1
  <2>2. SubSeq(bytes, 7, 6 + n) \o SubSeq(bytes, (6 + n) + 1, 6 + n + m) = SubSeq(bytes, 7, 6 + n + m)
    BY <1>1, <2>1, ConcatAdjacentSubSeq
  <2> QED
    BY <2>1, <2>2 DEF Body
<1>10. end - 1 = 6 + n + m
  <2> HIDE DEF L
  <2> QED
    BY <1>1, <1>5
<1>11. data = d /\ optional = o /\ rest = more /\ SubSeq(buf, 2, 5) = SubSeq(bytes, 2, 5)
  <2>1. data = SubSeq(whole, 7, 6 + n) /\ optional = SubSeq(whole, 7 + n, 6 + n + m)
        /\ rest = SubSeq(whole, L + 1, Len(whole))
    <3> HIDE DEF whole, L
    <3> QED
      BY <1>4, <1>5, <1>10
  <2> HIDE DEF whole, L, data, optional, rest, d, o
  <2> QED
    BY <1>4, <1>7, <1>8, <2>1 DEF d, o
<1> HIDE DEF data, optional, rest, whole
<1>12. buf[6] # Crc(SubSeq(buf, 2, 5)) \/ buf[end] # Crc(data \o optional) <=> ~Checks(bytes)
  BY <1>5, <1>9, <1>11 DEF Checks
<1> HIDE DEF d, o
<1>13. ParseMsg(whole) = IF ~Checks(bytes) THEN Parsed("mismatch", more, NoPacket)
              ELSE IF ~Readable(bytes[5], d, o) THEN Parsed("raises", whole, NoPacket)
              ELSE Parsed("ok", more, Packet(bytes[5], d, o))
  <2>1. buf[5] = bytes[5]
    BY <1>5
  <2>2. ParseMsg(whole) =
        IF buf[6] # Crc(SubSeq(buf, 2, 5)) \/ buf[end] # Crc(data \o optional)
             THEN Parsed("mismatch", rest, NoPacket)
        ELSE IF ~Readable(buf[5], data, optional) THEN Parsed("raises", whole, NoPacket)
        ELSE Parsed("ok", rest, Packet(buf[5], data, optional))
    BY <1>0, <1>4, <1>6, Zenon
  <2> QED
    BY <1>11, <1>12, <2>1, <2>2, Zenon
<1> QED
  BY <1>13 DEF whole, d, o

LEMMA PrefixParsed ==
  ASSUME NEW bytes, NEW n, NEW m, IsFrame(bytes, n, m), NEW k \in Nat, k < Len(bytes)
  PROVE  LET part == SubSeq(bytes, 1, k) IN ParseMsg(part) = Parsed("incomplete", part, NoPacket)
<1> DEFINE part == SubSeq(bytes, 1, k)
           syncs == {i \in DOMAIN part : part[i] = Sync}
           start == CHOOSE i \in syncs : \A j \in syncs : i <= j
           buf == SubSeq(part, start, Len(part))
           dataLen == 256 * buf[2] + buf[3]
           end == 7 + dataLen + buf[4]
           data == SubSeq(buf, 7, 6 + dataLen)
           optional == SubSeq(buf, 7 + dataLen, end - 1)
           rest == SubSeq(buf, end + 1, Len(buf))
<1>0. ParseMsg(part) =
        IF syncs = {} THEN Parsed("incomplete", <<>>, NoPacket)
        ELSE IF Len(buf) < 4 \/ Len(buf) < end THEN Parsed("incomplete", buf, NoPacket)
        ELSE IF buf[6] # Crc(SubSeq(buf, 2, 5)) \/ buf[end] # Crc(data \o optional)
             THEN Parsed("mismatch", rest, NoPacket)
        ELSE IF ~Readable(buf[5], data, optional) THEN Parsed("raises", part, NoPacket)
        ELSE Parsed("ok", rest, Packet(buf[5], data, optional))
  BY DEF ParseMsg
<1>1. /\ bytes \in Seq(Octets) /\ n \in Nat /\ m \in Nat /\ Len(bytes) = 7 + n + m /\ Len(bytes) \in Nat
      /\ bytes[1] = Sync /\ 256 * bytes[2] + bytes[3] = n /\ bytes[4] = m
  BY DEF IsFrame
<1>2. part \in Seq(Octets) /\ Len(part) = k /\ \A i \in 1 .. k : part[i] = bytes[i]
  BY <1>1
<1> HIDE DEF part
<1>3. CASE k = 0
  <2>1. part = <<>> /\ syncs = {}
    BY <1>2, <1>3
  <2> HIDE DEF syncs, buf, end, data, optional, rest
  <2> QED
    BY <1>0, <2>1 DEF part
<1>4. CASE k # 0
  <2>1. part[1] = Sync /\ Len(part) >= 1
    BY <1>1, <1>2, <1>4
  <2>2. syncs # {} /\ buf = part
    BY <1>2, <2>1, SyncFirst
  <2> HIDE DEF syncs, buf
  <2>3. Len(buf) < 4 \/ Len(buf) < end
    <3>1. CASE k < 4
      BY <1>2, <2>2, <3>1
    <3>2. CASE ~(k < 4)
      <4>1. buf[2] = bytes[2] /\ buf[3] = bytes[3] /\ buf[4] = bytes[4]
        BY <1>2, <2>2, <3>2
      <4>2. end = Len(bytes)
        BY <1>1, <4>1
      <4> HIDE DEF end
      <4> QED
        BY <1>2, <2>2, <4>2
    <3> QED
      BY <3>1, <3>2
  <2> HIDE DEF end, data, optional, rest
  <2>4. ParseMsg(part) = Parsed("incomplete", buf, NoPacket)
    BY <1>0, <2>2, <2>3
  <2> QED
    BY <2>2, <2>4 DEF part
<1> QED
  BY <1>3, <1>4

LEMMA PartIs ==
  ASSUME NEW s \in Seq(Octets), NEW u \in Seq(Octets), NEW a \in Nat \ {0}, NEW b \in Nat,
         b = a + Len(u) - 1, b <= Len(s), \A i \in 1 .. Len(u) : s[a + i - 1] = u[i]
  PROVE  SubSeq(s, a, b) = u
<1> DEFINE t == SubSeq(s, a, b)
<1>1. Len(s) \in Nat /\ Len(u) \in Nat /\ a \in Int /\ b \in Int
  OBVIOUS
<1>2. t \in Seq(Octets) /\ Len(t) = Len(u)
  BY <1>1
<1>3. \A i \in 1 .. Len(u) : t[i] = s[a + i - 1]
  BY <1>1
<1> HIDE DEF t
<1>4. t = u
  BY <1>2, <1>3, SeqEqual
<1> QED
  BY <1>4 DEF t

\* r is s of length n followed by t of length m.
IsJoin(r, s, t, n, m) ==
  /\ r \in Seq(Octets) /\ Len(r) = n + m
  /\ \A i \in 1 .. n : r[i] = s[i]
  /\ \A i \in 1 .. m : r[n + i] = t[i]

LEMMA JoinBytes ==
  ASSUME NEW s \in Seq(Octets), NEW t \in Seq(Octets), NEW n \in Nat, NEW m \in Nat, Len(s) = n, Len(t) = m
  PROVE  IsJoin(s \o t, s, t, n, m)
<1>1. s \o t \in Seq(Octets) /\ Len(s \o t) = n + m
  BY ByteConcat
<1>2. /\ \A i \in 1 .. Len(s) : (s \o t)[i] = s[i]
      /\ \A i \in 1 .. Len(t) : (s \o t)[Len(s) + i] = t[i]
  BY ConcatIndex
<1> QED
  BY <1>1, <1>2 DEF IsJoin

\* The first six bytes, and the bytes of the whole frame
LEMMA HeadBytes ==
  ASSUME NEW header \in Seq(Octets), Len(header) = 4, NEW h \in Octets
  PROVE  LET six == <<Sync>> \o header \o <<h>>
         IN /\ six \in Seq(Octets) /\ Len(six) = 6
            /\ six[1] = Sync /\ six[6] = h /\ \A i \in 1 .. 4 : six[i + 1] = header[i]
<1> DEFINE six == <<Sync>> \o header \o <<h>>
<1> DEFINE s == <<Sync>>
           t == <<h>>
           five == s \o header
<1>1. s \in Seq(Octets) /\ Len(s) = 1 /\ s[1] = Sync /\ t \in Seq(Octets) /\ Len(t) = 1 /\ t[1] = h
  <2>1. Sync \in Octets
    BY DEF Sync, Octets
  <2> QED
    BY <2>1
<1> HIDE DEF s, t
<1>a. IsJoin(five, s, header, 1, 4)
  BY <1>1, JoinBytes, Zenon
<1>2. /\ five \in Seq(Octets) /\ Len(five) = 5
      /\ \A i \in 1 .. 1 : five[i] = s[i]
      /\ \A i \in 1 .. 4 : five[1 + i] = header[i]
  <2> HIDE DEF five
  <2> QED
    BY <1>a DEF IsJoin
<1> HIDE DEF five
<1>4. six = five \o t
  BY DEF six, five, s, t
<1> HIDE DEF six
<1>b. IsJoin(six, five, t, 5, 1)
  BY <1>1, <1>2, <1>4, JoinBytes, Zenon
<1>3. /\ six \in Seq(Octets) /\ Len(six) = 6
      /\ \A i \in 1 .. 5 : six[i] = five[i]
      /\ \A i \in 1 .. 1 : six[5 + i] = t[i]
  BY <1>b DEF IsJoin
<1>5. six[1] = five[1] /\ six[6] = t[1] /\ five[1] = s[1]
  BY <1>2, <1>3
<1>6. ASSUME NEW i \in 1 .. 4 PROVE six[i + 1] = header[i]
  <2>1. i + 1 \in 1 .. 5 /\ 1 + i = i + 1
    OBVIOUS
  <2> QED
    BY <1>2, <1>3, <2>1
<1> QED
  BY <1>1, <1>3, <1>5, <1>6 DEF six

\* bytes is six, data, optional and c in their places, n and m the lengths of the data.
IsLaid(bytes, six, data, optional, c, n, m) ==
  /\ Len(bytes) = 7 + n + m
  /\ \A i \in 1 .. 6 : bytes[i] = six[i]
  /\ \A i \in 1 .. n : bytes[6 + i] = data[i]
  /\ \A i \in 1 .. m : bytes[6 + n + i] = optional[i]
  /\ bytes[7 + n + m] = c

LEMMA FrameBytes ==
  ASSUME NEW six \in Seq(Octets), Len(six) = 6, NEW data \in Seq(Octets), NEW optional \in Seq(Octets),
         NEW c \in Octets, NEW n \in Nat, NEW m \in Nat, Len(data) = n, Len(optional) = m
  PROVE  IsLaid(six \o data \o optional \o <<c>>, six, data, optional, c, n, m)
<1> DEFINE bytes == six \o data \o optional \o <<c>>
<1>0. n \in Nat /\ m \in Nat /\ Len(data) = n /\ Len(optional) = m
  OBVIOUS
<1> DEFINE t == <<c>>
           p == six \o data
           q == p \o optional
<1>1. t \in Seq(Octets) /\ Len(t) = 1 /\ t[1] = c
  OBVIOUS
<1> HIDE DEF t
<1>2. IsJoin(p, six, data, 6, n)
  BY <1>0, JoinBytes, Zenon
<1> HIDE DEF p
<1>3. IsJoin(q, p, optional, 6 + n, m)
  <2>1. p \in Seq(Octets) /\ Len(p) = 6 + n /\ 6 + n \in Nat
    BY <1>0, <1>2 DEF IsJoin
  <2> QED
    BY <1>0, <2>1, JoinBytes, Zenon
<1> HIDE DEF q
<1>5. bytes = q \o t
  BY DEF bytes, q, p, t
<1> HIDE DEF bytes
<1>4. IsJoin(bytes, q, t, 6 + n + m, 1)
  <2>1. q \in Seq(Octets) /\ Len(q) = 6 + n + m /\ 6 + n + m \in Nat /\ 1 \in Nat
    BY <1>0, <1>3 DEF IsJoin
  <2> QED
    BY <1>1, <1>5, <2>1, JoinBytes, Zenon
<1>6. Len(bytes) = 7 + n + m
  BY <1>0, <1>4 DEF IsJoin
<1>7. ASSUME NEW i \in 1 .. 6 PROVE bytes[i] = six[i]
  <2>1. i \in 1 .. 6 + n /\ i \in 1 .. 6 + n + m
    BY <1>0
  <2> QED
    BY <1>2, <1>3, <1>4, <2>1 DEF IsJoin
<1>8. ASSUME NEW i \in 1 .. n PROVE bytes[6 + i] = data[i]
  <2>1. 6 + i \in 1 .. 6 + n /\ 6 + i \in 1 .. 6 + n + m
    BY <1>0
  <2> QED
    BY <1>2, <1>3, <1>4, <2>1 DEF IsJoin
<1>9. ASSUME NEW i \in 1 .. m PROVE bytes[6 + n + i] = optional[i]
  <2>1. 6 + n + i \in 1 .. 6 + n + m
    BY <1>0
  <2> QED
    BY <1>3, <1>4, <2>1 DEF IsJoin
<1>10. bytes[7 + n + m] = c
  <2>1. 6 + n + m + 1 = 7 + n + m
    BY <1>0
  <2> QED
    BY <1>1, <1>4, <2>1 DEF IsJoin
<1> QED
  BY <1>6, <1>7, <1>8, <1>9, <1>10 DEF bytes, IsLaid

\* bytes is header, h, data, optional and c in their places, n and m the lengths of the data.
IsWhole(bytes, header, h, data, optional, c, n, m) ==
  /\ Len(bytes) = 7 + n + m
  /\ bytes[1] = Sync /\ bytes[6] = h /\ bytes[7 + n + m] = c
  /\ bytes[2] = header[1] /\ bytes[3] = header[2] /\ bytes[4] = header[3] /\ bytes[5] = header[4]
  /\ SubSeq(bytes, 2, 5) = header /\ SubSeq(bytes, 7, 6 + n) = data
  /\ SubSeq(bytes, 7 + n, 6 + n + m) = optional /\ Body(bytes) = data \o optional

LEMMA WholeIs ==
  ASSUME NEW bytes \in Seq(Octets), NEW header \in Seq(Octets), Len(header) = 4, NEW h \in Octets,
         NEW data \in Seq(Octets), NEW optional \in Seq(Octets), NEW c \in Octets,
         NEW n \in Nat, NEW m \in Nat, Len(data) = n, Len(optional) = m,
         bytes = <<Sync>> \o header \o <<h>> \o data \o optional \o <<c>>
  PROVE  IsWhole(bytes, header, h, data, optional, c, n, m)
<1> DEFINE six == <<Sync>> \o header \o <<h>>
<1>1. /\ six \in Seq(Octets) /\ Len(six) = 6
      /\ six[1] = Sync /\ six[6] = h /\ \A i \in 1 .. 4 : six[i + 1] = header[i]
  BY HeadBytes
<1>2. bytes = six \o data \o optional \o <<c>>
  OBVIOUS
<1> HIDE DEF six
<1>3. /\ Len(bytes) = 7 + n + m
      /\ \A i \in 1 .. 6 : bytes[i] = six[i]
      /\ \A i \in 1 .. n : bytes[6 + i] = data[i]
      /\ \A i \in 1 .. m : bytes[6 + n + i] = optional[i]
      /\ bytes[7 + n + m] = c
  <2>1. IsLaid(six \o data \o optional \o <<c>>, six, data, optional, c, n, m)
    BY <1>1, FrameBytes, Zenon
  <2> HIDE DEF six
  <2> QED
    BY <1>2, <2>1 DEF IsLaid
<1>4. bytes[1] = Sync /\ bytes[6] = h /\ \A i \in 1 .. 4 : bytes[i + 1] = header[i]
  <2>1. \A i \in 1 .. 4 : i + 1 \in 1 .. 6
    OBVIOUS
  <2> QED
    BY <1>1, <1>3, <2>1, SMTT(30)
<1>5. bytes[2] = header[1] /\ bytes[3] = header[2] /\ bytes[4] = header[3] /\ bytes[5] = header[4]
  <2>1. 1 \in 1 .. 4 /\ 2 \in 1 .. 4 /\ 3 \in 1 .. 4 /\ 4 \in 1 .. 4 /\ 1 + 1 = 2 /\ 2 + 1 = 3 /\ 3 + 1 = 4 /\ 4 + 1 = 5
    OBVIOUS
  <2> QED
    BY <1>4, <2>1
<1>6. SubSeq(bytes, 2, 5) = header
  <2>1. \A i \in 1 .. Len(header) : bytes[2 + i - 1] = header[i]
    <3>1. \A i \in 1 .. 4 : 2 + i - 1 = i + 1
      OBVIOUS
    <3> QED
      BY <1>4, <3>1
  <2>2. 5 = 2 + Len(header) - 1 /\ 5 <= Len(bytes) /\ 2 \in Nat \ {0} /\ 5 \in Nat
    BY <1>3
  <2> QED
    BY <2>1, <2>2, PartIs, Zenon
<1>7. SubSeq(bytes, 7, 6 + n) = data
  <2>1. \A i \in 1 .. n : 7 + i - 1 = 6 + i
    OBVIOUS
  <2>2. \A i \in 1 .. n : bytes[7 + i - 1] = data[i]
    BY <1>3, <2>1
  <2>3. 6 + n \in Nat /\ 6 + n = 7 + n - 1 /\ 6 + n <= Len(bytes) /\ 7 \in Nat \ {0}
    BY <1>3
  <2> QED
    BY <2>2, <2>3, PartIs
<1>8. SubSeq(bytes, 7 + n, 6 + n + m) = optional
  <2>1. \A i \in 1 .. m : (7 + n) + i - 1 = 6 + n + i
    OBVIOUS
  <2>2. \A i \in 1 .. Len(optional) : bytes[(7 + n) + i - 1] = optional[i]
    BY <1>3, <2>1
  <2>3. 6 + n + m \in Nat /\ 6 + n + m = (7 + n) + Len(optional) - 1 /\ 6 + n + m <= Len(bytes) /\ 7 + n \in Nat \ {0}
    BY <1>3
  <2> QED
    BY <2>2, <2>3, PartIs, ZenonT(30)
<1>9. Body(bytes) = data \o optional
  <2>1. 7 \in 1 .. Len(bytes) + 1 /\ 6 + n \in 7 - 1 .. Len(bytes) /\ 6 + n + m \in 6 + n .. Len(bytes)
        /\ (6 + n) + 1 = 7 + n /\ Len(bytes) - 1 = 6 + n + m
    BY <1>3
  <2>2. SubSeq(bytes, 7, 6 + n) \o SubSeq(bytes, (6 + n) + 1, 6 + n + m) = SubSeq(bytes, 7, 6 + n + m)
    BY <2>1, ConcatAdjacentSubSeq
  <2> QED
    BY <1>7, <1>8, <2>1, <2>2 DEF Body
<1> QED
  BY <1>3, <1>4, <1>5, <1>6, <1>7, <1>8, <1>9 DEF IsWhole

\* What Build makes is a frame with good checksums.
IsBuilt(bytes, type, data, optional, n, m) ==
  /\ IsFrame(bytes, n, m) /\ Checks(bytes) /\ bytes[5] = type
  /\ SubSeq(bytes, 7, 6 + n) = data /\ SubSeq(bytes, 7 + n, 6 + n + m) = optional

IsHeader(header, n, m, type) ==
  /\ header \in Seq(Octets) /\ Len(header) = 4 /\ 256 * header[1] + header[2] = n
  /\ header[3] = m /\ header[4] = type

LEMMA HeaderIs ==
  ASSUME NEW n \in Nat, NEW m \in Nat, n < 65536, m < 256, NEW type \in Octets
  PROVE  IsHeader(<<n \div 256, n % 256, m, type>>, n, m, type)
<1> DEFINE x == n \div 256
           y == n % 256
<1>1. x \in Nat /\ x <= 255 /\ y \in Nat /\ y <= 255 /\ 256 * x + y = n
  OBVIOUS
<1> HIDE DEF x, y
<1>2. x \in Octets /\ y \in Octets /\ m \in Octets
  BY <1>1 DEF Octets
<1>3. <<x, y, m, type>> \in Seq(Octets) /\ Len(<<x, y, m, type>>) = 4
  BY <1>2
<1> QED
  BY <1>1, <1>3 DEF x, y, IsHeader

IsMade(bytes, header, data, optional) ==
  bytes = <<Sync>> \o header \o <<Crc(header)>> \o data \o optional \o <<Crc(data \o optional)>>

LEMMA BuiltOf ==
  ASSUME NEW type \in Octets, NEW data \in Seq(Octets), NEW optional \in Seq(Octets),
         NEW n \in Nat, NEW m \in Nat, Len(data) = n, Len(optional) = m,
         NEW header, IsHeader(header, n, m, type), NEW bytes \in Seq(Octets),
         IsMade(bytes, header, data, optional)
  PROVE  IsBuilt(bytes, type, data, optional, n, m)
<1>1. /\ header \in Seq(Octets) /\ Len(header) = 4 /\ 256 * header[1] + header[2] = n
      /\ header[3] = m /\ header[4] = type
  BY DEF IsHeader
<1>2. Crc(header) \in Octets
  BY <1>1, CrcType
<1>3. Crc(data \o optional) \in Octets
  BY ByteConcat, CrcType
<1>4. IsWhole(bytes, header, Crc(header), data, optional, Crc(data \o optional), n, m)
  <2>1. bytes = <<Sync>> \o header \o <<Crc(header)>> \o data \o optional \o <<Crc(data \o optional)>>
    BY SMT DEF IsMade
  <2> QED
    BY <1>1, <1>2, <1>3, <2>1, WholeIs, Zenon
<1>5. IsFrame(bytes, n, m) /\ bytes[5] = type
  BY <1>1, <1>4 DEF IsWhole, IsFrame
<1>6. Checks(bytes)
  BY <1>4 DEF IsWhole, Checks
<1> QED
  BY <1>4, <1>5, <1>6 DEF IsWhole, IsBuilt

LEMMA BuiltIs ==
  ASSUME NEW type \in Octets, NEW data \in Seq(Octets), NEW optional \in Seq(Octets),
         NEW n \in Nat, NEW m \in Nat, Len(data) = n, Len(optional) = m, n < 65536, m < 256
  PROVE  IsBuilt(Build(type, data, optional), type, data, optional, n, m)
<1>1. IsHeader(<<n \div 256, n % 256, m, type>>, n, m, type)
  BY HeaderIs
<1>2. Build(type, data, optional) \in Seq(Octets)
  BY BuildType
<1>3. ASSUME NEW header, header = <<n \div 256, n % 256, m, type>>
      PROVE  IsMade(Build(type, data, optional), header, data, optional)
  BY <1>3, SMT DEF Build, IsMade
<1>4. ASSUME NEW header, header = <<n \div 256, n % 256, m, type>>
      PROVE  IsBuilt(Build(type, data, optional), type, data, optional, n, m)
  <2>1. IsHeader(header, n, m, type)
    BY <1>1, <1>4, SMT
  <2>2. IsMade(Build(type, data, optional), header, data, optional)
    BY <1>3, <1>4, SMT
  <2> QED
    BY <1>2, <2>1, <2>2, BuiltOf, SMT
<1> DEFINE made == <<n \div 256, n % 256, m, type>>
<1>5. made = <<n \div 256, n % 256, m, type>>
  OBVIOUS
<1> HIDE DEF made
<1> QED
  BY <1>4, <1>5, SMT

\* t is the piece of s of length k from a on.
IsPiece(t, s, a, k) == t \in Seq(Octets) /\ Len(t) = k /\ \A i \in 1 .. k : t[i] = s[i + (a - 1)]

LEMMA PieceIs ==
  ASSUME NEW s \in Seq(Octets), NEW a \in 1 .. Len(s), NEW k \in Nat, NEW b, b = a + k - 1, b <= Len(s)
  PROVE  IsPiece(SubSeq(s, a, b), s, a, k)
<1>1. Len(s) \in Nat /\ a \in Int /\ b \in Int
  OBVIOUS
<1>2. SubSeq(s, a, b) \in Seq(Octets) /\ Len(SubSeq(s, a, b)) = k
  BY <1>1
<1>3. \A i \in 1 .. k : SubSeq(s, a, b)[i] = s[i + (a - 1)]
  BY <1>1
<1> QED
  BY <1>2, <1>3 DEF IsPiece

\* The lists are one but for the byte at this place.
Differ(s, t, at) ==
  /\ Len(t) = Len(s) /\ at \in 1 .. Len(s) /\ s[at] # t[at]
  /\ \A i \in 1 .. Len(s) : i # at => s[i] = t[i]

SumsDiffer(u, v, inside) == (inside => Crc(u) # Crc(v)) /\ (~inside => u = v)

LEMMA PieceDiffers ==
  ASSUME NEW s, NEW t, NEW at, Differ(s, t, at), Len(s) \in Nat, NEW a \in 1 .. Len(s), NEW k \in Nat,
         a + k - 1 <= Len(s), NEW u, NEW v, IsPiece(u, s, a, k), IsPiece(v, t, a, k)
  PROVE  SumsDiffer(u, v, a <= at /\ at <= a + k - 1)
<1>1. /\ u \in Seq(Octets) /\ Len(u) = k /\ v \in Seq(Octets) /\ Len(v) = k
      /\ \A i \in 1 .. k : u[i] = s[i + (a - 1)] /\ v[i] = t[i + (a - 1)]
  BY DEF IsPiece
<1>2. at \in 1 .. Len(s) /\ s[at] # t[at] /\ \A i \in 1 .. Len(s) : i # at => s[i] = t[i]
  BY DEF Differ
<1>3. \A i \in 1 .. k : i + (a - 1) \in 1 .. Len(s)
  OBVIOUS
<1>4. CASE a <= at /\ at <= a + k - 1
  <2> DEFINE j == at - (a - 1)
  <2>1. j \in 1 .. k /\ j + (a - 1) = at
    BY <1>2, <1>4
  <2>2. \A i \in 1 .. k : i # j => i + (a - 1) # at
    BY <1>2
  <2> HIDE DEF j
  <2>3. u[j] = s[j + (a - 1)] /\ v[j] = t[j + (a - 1)]
    BY <1>1, <2>1
  <2>4. u[j] # v[j]
    BY <1>2, <2>1, <2>3
  <2>5. ASSUME NEW i \in 1 .. k, i # j PROVE u[i] = v[i]
    <3>1. u[i] = s[i + (a - 1)] /\ v[i] = t[i + (a - 1)]
      BY <1>1
    <3>2. i + (a - 1) \in 1 .. Len(s) /\ i + (a - 1) # at
      BY <1>3, <2>2, <2>5
    <3>3. s[i + (a - 1)] = t[i + (a - 1)]
      BY <1>2, <3>2
    <3> QED
      BY <3>1, <3>3
  <2>6. Len(u) = Len(v) /\ j \in 1 .. Len(u) /\ \A i \in 1 .. Len(u) : i # j => u[i] = v[i]
    BY <1>1, <2>1, <2>5
  <2>7. Crc(u) # Crc(v)
    BY <1>1, <2>4, <2>6, CrcDiffers
  <2> QED
    BY <1>4, <2>7 DEF SumsDiffer
<1>5. CASE ~(a <= at /\ at <= a + k - 1)
  <2>1. \A i \in 1 .. k : i + (a - 1) # at
    BY <1>2, <1>5
  <2>2. ASSUME NEW i \in 1 .. k PROVE u[i] = v[i]
    <3>1. u[i] = s[i + (a - 1)] /\ v[i] = t[i + (a - 1)]
      BY <1>1
    <3>2. s[i + (a - 1)] = t[i + (a - 1)]
      BY <1>2, <1>3, <2>1
    <3> QED
      BY <3>1, <3>2
  <2>3. u = v
    BY <1>1, <2>2, SeqEqual
  <2> QED
    BY <1>5, <2>3 DEF SumsDiffer
<1> QED
  BY <1>4, <1>5

\* A byte that differs behind the lengths leaves a frame, whose checksums are wrong.
LEMMA DifferentFrame ==
  ASSUME NEW bytes, NEW n, NEW m, IsFrame(bytes, n, m), Checks(bytes),
         NEW at, NEW altered \in Seq(Octets), Differ(bytes, altered, at), at >= 5
  PROVE  IsFrame(altered, n, m) /\ ~Checks(altered)
<1> DEFINE L == Len(bytes)
           k == n + m
<1>1. /\ bytes \in Seq(Octets) /\ n \in Nat /\ m \in Nat /\ L = 7 + n + m
      /\ bytes[1] = Sync /\ 256 * bytes[2] + bytes[3] = n /\ bytes[4] = m
  BY DEF IsFrame
<1>2. k \in Nat /\ L = 7 + k /\ L \in Nat /\ L - 1 = 7 + k - 1
  BY <1>1
<1>3. Len(altered) = L /\ at \in 1 .. L /\ bytes[at] # altered[at] /\ \A i \in 1 .. L : i # at => bytes[i] = altered[i]
  BY DEF Differ
<1>4. L = Len(bytes)
  OBVIOUS
<1> HIDE DEF L, k
<1>5. IsFrame(altered, n, m)
  <2>1. /\ 1 \in 1 .. L /\ 2 \in 1 .. L /\ 3 \in 1 .. L /\ 4 \in 1 .. L
        /\ 1 # at /\ 2 # at /\ 3 # at /\ 4 # at
    BY <1>2, <1>3
  <2>2. altered[1] = bytes[1] /\ altered[2] = bytes[2] /\ altered[3] = bytes[3] /\ altered[4] = bytes[4]
    BY <1>3, <2>1
  <2>3. Len(altered) = 7 + n + m
    BY <1>1, <1>3
  <2>4. altered[1] = Sync /\ 256 * altered[2] + altered[3] = n /\ altered[4] = m
    BY <1>1, <2>2
  <2> QED
    BY <1>1, <2>3, <2>4 DEF IsFrame
<1> DEFINE s == SubSeq(bytes, 2, 5)
           t == SubSeq(altered, 2, 5)
           u == SubSeq(bytes, 7, L - 1)
           v == SubSeq(altered, 7, L - 1)
<1>6. IsPiece(s, bytes, 2, 4) /\ IsPiece(t, altered, 2, 4)
  <2>1. /\ bytes \in Seq(Octets) /\ altered \in Seq(Octets) /\ 2 \in 1 .. Len(bytes) /\ 2 \in 1 .. Len(altered)
        /\ 5 = 2 + 4 - 1 /\ 5 <= Len(bytes) /\ 5 <= Len(altered) /\ 4 \in Nat
    BY <1>1, <1>2, <1>3, <1>4
  <2>2. IsPiece(s, bytes, 2, 4)
    BY <2>1, PieceIs
  <2>3. IsPiece(t, altered, 2, 4)
    BY <2>1, PieceIs
  <2> QED
    BY <2>2, <2>3
<1>7. IsPiece(u, bytes, 7, k) /\ IsPiece(v, altered, 7, k)
  <2> DEFINE end == L - 1
  <2>1. /\ bytes \in Seq(Octets) /\ altered \in Seq(Octets) /\ 7 \in 1 .. Len(bytes) /\ 7 \in 1 .. Len(altered)
        /\ end = 7 + k - 1 /\ end <= Len(bytes) /\ end <= Len(altered) /\ k \in Nat
    BY <1>1, <1>2, <1>3, <1>4
  <2> HIDE DEF end
  <2>2. IsPiece(SubSeq(bytes, 7, end), bytes, 7, k)
    BY <2>1, PieceIs
  <2>3. IsPiece(SubSeq(altered, 7, end), altered, 7, k)
    BY <2>1, PieceIs
  <2> QED
    BY <2>2, <2>3 DEF end
<1>8. bytes[6] = Crc(s) /\ bytes[L] = Crc(u)
  BY <1>4 DEF Checks, Body
<1>9. Checks(altered) => altered[6] = Crc(t) /\ altered[L] = Crc(v)
  BY <1>3 DEF Checks, Body
<1> HIDE DEF s, t, u, v
<1>10. IF 2 <= at /\ at <= 5 THEN Crc(s) # Crc(t) ELSE s = t
  <2>1. 2 \in 1 .. Len(bytes) /\ 4 \in Nat /\ 2 + 4 - 1 <= Len(bytes) /\ Len(bytes) \in Nat /\ 2 + 4 - 1 = 5
    BY <1>2, <1>4
  <2>2. SumsDiffer(s, t, 2 <= at /\ at <= 2 + 4 - 1)
    BY <1>6, <2>1, PieceDiffers
  <2> QED
    BY <2>1, <2>2 DEF SumsDiffer
<1>11. IF 7 <= at /\ at <= L - 1 THEN Crc(u) # Crc(v) ELSE u = v
  <2>1. 7 \in 1 .. Len(bytes) /\ 7 + k - 1 <= Len(bytes) /\ Len(bytes) \in Nat
    BY <1>2, <1>4
  <2>2. SumsDiffer(u, v, 7 <= at /\ at <= 7 + k - 1)
    BY <1>2, <1>7, <2>1, PieceDiffers
  <2> QED
    BY <1>2, <2>2 DEF SumsDiffer
<1>12. altered[6] # Crc(t) \/ altered[L] # Crc(v)
  <2>1. CASE at = 5
    <3>1. 6 \in 1 .. L /\ 6 # at /\ 2 <= at /\ at <= 5
      BY <1>2, <2>1
    <3> QED
      BY <1>3, <1>8, <1>10, <3>1
  <2>2. CASE at = 6
    <3>1. ~(at <= 5)
      BY <2>2
    <3> QED
      BY <1>3, <1>8, <1>10, <2>2, <3>1
  <2>3. CASE 7 <= at /\ at <= L - 1
    <3>1. L \in 1 .. L /\ L # at
      BY <1>2, <2>3
    <3> QED
      BY <1>3, <1>8, <1>11, <2>3, <3>1
  <2>4. CASE at = L
    <3>1. ~(at <= L - 1)
      BY <1>2, <2>4
    <3> QED
      BY <1>3, <1>8, <1>11, <2>4, <3>1
  <2>5. at = 5 \/ at = 6 \/ (7 <= at /\ at <= L - 1) \/ at = L
    BY <1>2, <1>3
  <2> QED
    BY <2>1, <2>2, <2>3, <2>4, <2>5
<1> QED
  BY <1>5, <1>9, <1>12

LEMMA AlteredFrame ==
  ASSUME NEW bytes, NEW n, NEW m, IsFrame(bytes, n, m), Checks(bytes),
         NEW at \in 5 .. Len(bytes), NEW b \in Octets, b # bytes[at], NEW altered, altered = [bytes EXCEPT ![at] = b]
  PROVE  IsFrame(altered, n, m) /\ ~Checks(altered)
<1>1. bytes \in Seq(Octets)
  BY DEF IsFrame
<1>2. at \in 1 .. Len(bytes) /\ at >= 5
  BY <1>1
<1>3. altered \in Seq(Octets) /\ Len(altered) = Len(bytes) /\ altered[at] = b
  BY <1>1, <1>2
<1>4. \A i \in 1 .. Len(bytes) : i # at => bytes[i] = altered[i]
  BY <1>1, <1>2
<1>5. Differ(bytes, altered, at)
  BY <1>2, <1>3, <1>4 DEF Differ
<1> QED
  BY <1>2, <1>3, <1>5, DifferentFrame

-----------------------------------------------------------------------------
(* What each frame on the line leads to.                                   *)

\* Whatever follows the bytes, they are read as the frame, or refused and nothing else is.
ReadAs(bytes, frame) ==
  \A more \in Seq(Octets) : ParseMsg(bytes \o more) =
    IF ~Readable(frame.type, frame.data, frame.optional) THEN Parsed("raises", bytes \o more, NoPacket)
    ELSE Parsed("ok", more, Packet(frame.type, frame.data, frame.optional))
Refused(bytes) == \A more \in Seq(Octets) : ParseMsg(bytes \o more) = Parsed("mismatch", more, NoPacket)
\* Of the bytes alone, as long as some are missing, nothing is taken.
Held(bytes) ==
  \A k \in 0 .. Len(bytes) - 1 : ParseMsg(SubSeq(bytes, 1, k)) = Parsed("incomplete", SubSeq(bytes, 1, k), NoPacket)

\* A stretch of the line that leads to these messages, if it is not a packet that raises
IsPart(bytes, told, frames) ==
  /\ bytes \in Seq(Octets) /\ bytes # <<>> /\ Held(bytes)
  /\ \/ told = <<>> /\ Refused(bytes)
     \/ \E f \in DOMAIN frames : told = frames[f].told /\ ReadAs(bytes, frames[f])

LEMMA FrameHeld ==
  ASSUME NEW bytes, NEW n, NEW m, IsFrame(bytes, n, m)
  PROVE  bytes \in Seq(Octets) /\ bytes # <<>> /\ Held(bytes)
<1>1. bytes \in Seq(Octets) /\ Len(bytes) >= 7
  BY DEF IsFrame
<1>2. ASSUME NEW k \in 0 .. Len(bytes) - 1
      PROVE  ParseMsg(SubSeq(bytes, 1, k)) = Parsed("incomplete", SubSeq(bytes, 1, k), NoPacket)
  <2>1. k \in Nat /\ k < Len(bytes)
    BY <1>1
  <2> QED
    BY <2>1, PrefixParsed
<1> QED
  BY <1>1, <1>2 DEF Held

IsRead(bytes, more, type, data, optional) ==
  ParseMsg(bytes \o more) =
    IF ~Checks(bytes) THEN Parsed("mismatch", more, NoPacket)
    ELSE IF ~Readable(type, data, optional) THEN Parsed("raises", bytes \o more, NoPacket)
    ELSE Parsed("ok", more, Packet(type, data, optional))

\* A frame that was built is read as it was built.
LEMMA BuiltReadAs ==
  ASSUME NEW frame, frame.type \in Octets, frame.data \in Seq(Octets), frame.optional \in Seq(Octets),
         Len(frame.data) < 65536, Len(frame.optional) < 256,
         NEW bytes, bytes = Build(frame.type, frame.data, frame.optional)
  PROVE  ReadAs(bytes, frame) /\ \E n, m : IsFrame(bytes, n, m) /\ Checks(bytes)
<1> DEFINE n == Len(frame.data)
           m == Len(frame.optional)
<1>1. n \in Nat /\ m \in Nat /\ n < 65536 /\ m < 256
  OBVIOUS
<1>2. IsBuilt(bytes, frame.type, frame.data, frame.optional, n, m)
  BY <1>1, BuiltIs, SMT
<1> HIDE DEF n, m
<1>3. ASSUME NEW more \in Seq(Octets)
      PROVE  ParseMsg(bytes \o more) =
               IF ~Readable(frame.type, frame.data, frame.optional) THEN Parsed("raises", bytes \o more, NoPacket)
               ELSE Parsed("ok", more, Packet(frame.type, frame.data, frame.optional))
  <2>1. /\ IsFrame(bytes, n, m) /\ Checks(bytes) /\ bytes[5] = frame.type
        /\ SubSeq(bytes, 7, 6 + n) = frame.data /\ SubSeq(bytes, 7 + n, 6 + n + m) = frame.optional
    BY <1>2 DEF IsBuilt
  <2>2. IsRead(bytes, more, bytes[5], SubSeq(bytes, 7, 6 + n), SubSeq(bytes, 7 + n, 6 + n + m))
    BY <2>1, FrameParsed DEF IsRead
  <2>3. IsRead(bytes, more, frame.type, frame.data, frame.optional)
    <3> DEFINE d == SubSeq(bytes, 7, 6 + n)
               o == SubSeq(bytes, 7 + n, 6 + n + m)
    <3>1. d = frame.data
      BY <2>1
    <3>2. o = frame.optional
      BY <2>1
    <3>3. IsRead(bytes, more, bytes[5], d, o)
      BY <2>2
    <3> HIDE DEF d, o
    <3> QED
      BY <2>1, <3>1, <3>2, <3>3, SMT
  <2> QED
    BY <2>1, <2>3 DEF IsRead
<1>4. ReadAs(bytes, frame)
  BY <1>3 DEF ReadAs
<1>5. IsFrame(bytes, n, m) /\ Checks(bytes)
  BY <1>2 DEF IsBuilt
<1> QED
  BY <1>4, <1>5

LEMMA UncheckedRefused ==
  ASSUME NEW bytes, NEW n, NEW m, IsFrame(bytes, n, m), ~Checks(bytes)
  PROVE  Refused(bytes)
<1>1. ASSUME NEW more \in Seq(Octets) PROVE ParseMsg(bytes \o more) = Parsed("mismatch", more, NoPacket)
  BY FrameParsed
<1> QED
  BY <1>1 DEF Refused

\* What is sent without confusing the stream is such a stretch.
LEMMA SentIsPart ==
  ASSUME NEW frames, NEW f \in DOMAIN frames, frames[f].type \in Octets, frames[f].data \in Seq(Octets),
         frames[f].optional \in Seq(Octets), Len(frames[f].data) < 65536, Len(frames[f].optional) < 256,
         NEW d \in Damages, ~Confusing(d), NEW bytes, bytes = Build(frames[f].type, frames[f].data, frames[f].optional),
         d.at <= Len(bytes)
  PROVE  IsPart(Damaged(bytes, d), IF d = Intact THEN frames[f].told ELSE <<>>, frames)
<1>1. ReadAs(bytes, frames[f]) /\ \E n, m : IsFrame(bytes, n, m) /\ Checks(bytes)
  <2> DEFINE frame == frames[f]
  <2>1. /\ frame.type \in Octets /\ frame.data \in Seq(Octets) /\ frame.optional \in Seq(Octets)
        /\ Len(frame.data) < 65536 /\ Len(frame.optional) < 256
        /\ bytes = Build(frame.type, frame.data, frame.optional)
    OBVIOUS
  <2> HIDE DEF frame
  <2>2. ReadAs(bytes, frame) /\ \E n, m : IsFrame(bytes, n, m) /\ Checks(bytes)
    BY <2>1, BuiltReadAs
  <2> QED
    BY <2>2 DEF frame
<1>2. PICK n, m : IsFrame(bytes, n, m) /\ Checks(bytes)
  BY <1>1
<1>3. CASE d = Intact
  <2>1. Damaged(bytes, d) = bytes
    BY <1>3 DEF Damaged, Intact
  <2>2. bytes \in Seq(Octets) /\ bytes # <<>> /\ Held(bytes)
    BY <1>2, FrameHeld
  <2> QED
    BY <1>1, <1>3, <2>1, <2>2 DEF IsPart
<1>4. CASE d # Intact
  <2>1. d.kind = "alter" /\ d.at \in Nat /\ d.at > 4
    BY <1>4, DamagesAssumption DEF Confusing
  <2>2. bytes \in Seq(Octets)
    BY <1>2 DEF IsFrame
  <2> DEFINE altered == Damaged(bytes, d)
             at == d.at
  <2>3. altered = [bytes EXCEPT ![at] = Xor(@, 255)] /\ at \in 5 .. Len(bytes)
    BY <2>1, <2>2 DEF Damaged
  <2> HIDE DEF altered, at
  <2>4. IsFrame(altered, n, m) /\ ~Checks(altered)
    <3> DEFINE b == Xor(bytes[at], 255)
    <3>1. bytes[at] \in Octets
      BY <2>2, <2>3
    <3>2. b \in Octets /\ b # bytes[at]
      BY <3>1, AlteredByte
    <3>3. altered = [bytes EXCEPT ![at] = b]
      BY <2>3
    <3> HIDE DEF b
    <3> QED
      BY <1>2, <2>3, <3>2, <3>3, AlteredFrame
  <2>5. Refused(altered) /\ altered \in Seq(Octets) /\ altered # <<>> /\ Held(altered)
    BY <2>4, FrameHeld, UncheckedRefused
  <2>6. IsPart(altered, <<>>, frames)
    BY <2>5 DEF IsPart
  <2> QED
    BY <1>4, <2>6 DEF altered
<1> QED
  BY <1>3, <1>4

\* Whatever follows a frame that was built (packet.py, crc8.py), parsing takes it off and gives the
\* packet it was built from.
THEOREM BuiltIsRead ==
  ASSUME NEW type \in Octets, NEW data \in Seq(Octets), NEW optional \in Seq(Octets),
         Len(data) < 65536, Len(optional) < 256, Readable(type, data, optional), NEW more \in Seq(Octets)
  PROVE  ParseMsg(Build(type, data, optional) \o more) = Parsed("ok", more, Packet(type, data, optional))
<1> DEFINE frame == [type |-> type, data |-> data, optional |-> optional]
           bytes == Build(frame.type, frame.data, frame.optional)
<1>1. frame.type = type /\ frame.data = data /\ frame.optional = optional
  OBVIOUS
<1> HIDE DEF frame
<1>2. ReadAs(bytes, frame)
  BY <1>1, BuiltReadAs
<1>3. bytes = Build(type, data, optional)
  BY <1>1
<1> HIDE DEF bytes
<1>4. ParseMsg(bytes \o more) = Parsed("ok", more, Packet(type, data, optional))
  BY <1>1, <1>2 DEF ReadAs
<1> QED
  BY <1>3, <1>4

LEMMA AlteredRefused ==
  ASSUME NEW bytes, \E n, m : IsFrame(bytes, n, m) /\ Checks(bytes),
         NEW at \in 5 .. Len(bytes), NEW b \in Octets, b # bytes[at], NEW more \in Seq(Octets)
  PROVE  ParseMsg([bytes EXCEPT ![at] = b] \o more) = Parsed("mismatch", more, NoPacket)
<1> DEFINE altered == [bytes EXCEPT ![at] = b]
<1>1. PICK n, m : IsFrame(bytes, n, m) /\ Checks(bytes)
  OBVIOUS
<1>2. altered = [bytes EXCEPT ![at] = b]
  OBVIOUS
<1> HIDE DEF altered
<1>3. IsFrame(altered, n, m) /\ ~Checks(altered)
  BY <1>1, <1>2, AlteredFrame
<1>4. Refused(altered)
  BY <1>3, UncheckedRefused
<1>5. ParseMsg(altered \o more) = Parsed("mismatch", more, NoPacket)
  BY <1>4 DEF Refused
<1> QED
  BY <1>5 DEF altered

\* With any one byte behind its lengths altered, to whatever byte, the frame is refused, and it
\* alone: parsing goes on with what follows.
THEOREM AlteredIsRefused ==
  ASSUME NEW type \in Octets, NEW data \in Seq(Octets), NEW optional \in Seq(Octets),
         Len(data) < 65536, Len(optional) < 256, NEW bytes, bytes = Build(type, data, optional),
         NEW at \in 5 .. Len(bytes), NEW b \in Octets, b # bytes[at], NEW more \in Seq(Octets)
  PROVE  ParseMsg([bytes EXCEPT ![at] = b] \o more) = Parsed("mismatch", more, NoPacket)
<1> DEFINE frame == [type |-> type, data |-> data, optional |-> optional]
<1>1. frame.type = type /\ frame.data = data /\ frame.optional = optional
  OBVIOUS
<1> HIDE DEF frame
<1>2. \E n, m : IsFrame(bytes, n, m) /\ Checks(bytes)
  BY <1>1, BuiltReadAs
<1> QED
  BY <1>2, AlteredRefused

IsTaken(part, s, t, rest) ==
  \/ Len(s) < Len(part) /\ s = SubSeq(part, 1, Len(s))
  \/ Len(s) >= Len(part) /\ \E more \in Seq(Octets) : s = part \o more /\ more \o t = rest

\* What parsing finds in a buffer when the bytes received begin with a part: a proper part of it is
\* left where it is, and otherwise the part is taken off.
LEMMA PartTaken ==
  ASSUME NEW part \in Seq(Octets), NEW s \in Seq(Octets), NEW t \in Seq(Octets), NEW rest \in Seq(Octets),
         s \o t = part \o rest
  PROVE  IsTaken(part, s, t, rest)
<1> SUFFICES \/ Len(s) < Len(part) /\ s = SubSeq(part, 1, Len(s))
             \/ Len(s) >= Len(part) /\ \E more \in Seq(Octets) : s = part \o more /\ more \o t = rest
  BY DEF IsTaken
<1> DEFINE whole == s \o t
<1>1. whole = part \o rest /\ whole \in Seq(Octets) /\ Len(whole) = Len(s) + Len(t)
      /\ Len(s) \in Nat /\ Len(t) \in Nat /\ Len(part) \in Nat /\ Len(rest) \in Nat
      /\ Len(s) + Len(t) = Len(part) + Len(rest)
  BY ByteConcat
<1>2. /\ \A i \in 1 .. Len(s) : whole[i] = s[i]
      /\ \A i \in 1 .. Len(t) : whole[Len(s) + i] = t[i]
  <2>1. IsJoin(whole, s, t, Len(s), Len(t))
    BY <1>1, JoinBytes, Zenon
  <2> HIDE DEF whole
  <2> QED
    BY <2>1 DEF IsJoin
<1>3. /\ \A i \in 1 .. Len(part) : whole[i] = part[i]
      /\ \A i \in 1 .. Len(rest) : whole[Len(part) + i] = rest[i]
  BY <1>1, ConcatIndex
<1> HIDE DEF whole
<1>4. CASE Len(s) < Len(part)
  <2>1. Len(s) = 1 + Len(s) - 1 /\ Len(s) <= Len(part) /\ 1 \in Nat \ {0}
    BY <1>1, <1>4
  <2>2. \A i \in 1 .. Len(s) : part[1 + i - 1] = s[i]
    <3>1. \A i \in 1 .. Len(s) : 1 + i - 1 = i /\ i \in 1 .. Len(part)
      BY <1>1, <1>4
    <3> QED
      BY <1>2, <1>3, <3>1
  <2>3. SubSeq(part, 1, Len(s)) = s
    BY <1>1, <2>1, <2>2, PartIs
  <2> QED
    BY <1>4, <2>3
<1>5. CASE Len(s) >= Len(part)
  <2> DEFINE P == Len(part)
             more == [i \in 1 .. Len(s) - P |-> s[P + i]]
  <2>1. Len(s) - P \in Nat /\ \A i \in 1 .. Len(s) - P : P + i \in 1 .. Len(s) /\ i \in 1 .. Len(rest)
    BY <1>1, <1>5
  <2>2. more \in Seq(Octets) /\ Len(more) = Len(s) - P /\ \A i \in 1 .. Len(s) - P : more[i] = s[P + i]
    <3>1. more \in [1 .. Len(s) - P -> Octets]
      BY <2>1
    <3> QED
      BY <2>1, <3>1, SeqDef, LenProperties
  <2> HIDE DEF more
  <2>3. IsJoin(part \o more, part, more, P, Len(s) - P)
    BY <1>1, <2>1, <2>2, JoinBytes, Zenon
  <2>4. s = part \o more
    <3> DEFINE r == part \o more
    <3>1. r \in Seq(Octets) /\ Len(r) = Len(s) /\ (\A i \in 1 .. P : r[i] = part[i])
          /\ \A i \in 1 .. Len(s) - P : r[P + i] = more[i]
      <4> HIDE DEF r
      <4>1. IsJoin(r, part, more, P, Len(s) - P)
        BY <2>3 DEF r
      <4> QED
        BY <1>1, <2>1, <4>1 DEF IsJoin
    <3> HIDE DEF r
    <3>2. ASSUME NEW i \in 1 .. Len(s) PROVE s[i] = r[i]
      <4>1. CASE i <= P
        <5>1. i \in 1 .. P
          BY <1>1, <4>1
        <5> QED
          BY <1>2, <1>3, <3>1, <5>1
      <4>2. CASE i > P
        <5>1. i - P \in 1 .. Len(s) - P /\ P + (i - P) = i
          BY <1>1, <4>2
        <5> QED
          BY <2>2, <3>1, <5>1
      <4> QED
        BY <1>1, <4>1, <4>2
    <3>3. s = r
      BY <3>1, <3>2, SeqEqual
    <3> QED
      BY <3>3 DEF r
  <2>5. IsJoin(more \o t, more, t, Len(s) - P, Len(t))
    BY <1>1, <2>1, <2>2, JoinBytes, Zenon
  <2>6. more \o t = rest
    <3> DEFINE r == more \o t
    <3>1. r \in Seq(Octets) /\ Len(r) = Len(rest) /\ (\A i \in 1 .. Len(s) - P : r[i] = more[i])
          /\ \A i \in 1 .. Len(t) : r[Len(s) - P + i] = t[i]
      <4> HIDE DEF r
      <4>1. IsJoin(r, more, t, Len(s) - P, Len(t))
        BY <2>5 DEF r
      <4> QED
        BY <1>1, <2>1, <4>1 DEF IsJoin
    <3> HIDE DEF r
    <3>2. ASSUME NEW i \in 1 .. Len(rest) PROVE r[i] = rest[i]
      <4>1. CASE i <= Len(s) - P
        <5>1. i \in 1 .. Len(s) - P /\ P + i \in 1 .. Len(s)
          BY <1>1, <2>1, <4>1
        <5> QED
          BY <1>2, <1>3, <2>2, <3>1, <5>1
      <4>2. CASE i > Len(s) - P
        <5> DEFINE j == i - (Len(s) - P)
        <5>1. j \in 1 .. Len(t) /\ Len(s) - P + j = i /\ Len(s) + j = P + i
          BY <1>1, <4>2
        <5> HIDE DEF j
        <5>2. r[i] = t[j]
          BY <3>1, <5>1
        <5> QED
          BY <1>2, <1>3, <5>1, <5>2
      <4> QED
        BY <1>1, <4>1, <4>2
    <3>3. r = rest
      BY <3>1, <3>2, SeqEqual
    <3> QED
      BY <3>3 DEF r
  <2> QED
    BY <1>5, <2>2, <2>4, <2>6
<1>6. Len(s) < Len(part) \/ Len(s) >= Len(part)
  BY <1>1
<1> QED
  BY <1>4, <1>5, <1>6, Zenon

-----------------------------------------------------------------------------
(* Lists of messages without their positions.                              *)

LEMMA SequenceSame ==
  ASSUME NEW s, NEW t, IsSequence(s), IsSequence(t), Len(s) = Len(t), \A i \in 1 .. Len(s) : s[i] = t[i]
  PROVE  s = t
<1>1. PICK S : s \in Seq(S)
  BY SequenceIs
<1>2. PICK T : t \in Seq(T)
  BY SequenceIs
<1>3. s \in Seq(S \cup T) /\ t \in Seq(S \cup T)
  BY <1>1, <1>2
<1> QED
  BY <1>3, SeqEqual

LEMMA SequenceAssoc ==
  ASSUME NEW s, NEW t, NEW u, IsSequence(s), IsSequence(t), IsSequence(u)
  PROVE  (s \o t) \o u = s \o (t \o u)
<1>1. PICK S : s \in Seq(S)
  BY SequenceIs
<1>2. PICK T : t \in Seq(T)
  BY SequenceIs
<1>3. PICK R : u \in Seq(R)
  BY SequenceIs
<1>4. s \in Seq(S \cup T \cup R) /\ t \in Seq(S \cup T \cup R) /\ u \in Seq(S \cup T \cup R)
  BY <1>1, <1>2, <1>3
<1> QED
  BY <1>4, ConcatAssociative

LEMMA SequenceEmpty ==
  ASSUME NEW s, IsSequence(s)
  PROVE  IsSequence(<<>>) /\ s \o <<>> = s /\ <<>> \o s = s
<1>1. PICK S : s \in Seq(S)
  BY SequenceIs
<1>2. <<>> \in Seq(S)
  OBVIOUS
<1>3. s \o <<>> = s /\ <<>> \o s = s
  BY <1>1, ConcatEmptySeq
<1> QED
  BY <1>2, <1>3, IsSeqOf

LEMMA SequenceAppended ==
  ASSUME NEW s, IsSequence(s), NEW x
  PROVE  Append(s, x) = s \o <<x>>
<1>1. PICK S : s \in Seq(S)
  BY SequenceIs
<1>2. s \in Seq(S \cup {x})
  BY <1>1
<1> QED
  BY <1>2, AppendIsConcat

LEMMA BareIs ==
  ASSUME NEW messages, IsSequence(messages)
  PROVE  /\ IsSequence(Bare(messages)) /\ Len(Bare(messages)) = Len(messages)
         /\ \A i \in 1 .. Len(messages) : Bare(messages)[i] = Unplaced(messages[i])
<1> DEFINE bare == Bare(messages)
<1>1. Len(messages) \in Nat /\ DOMAIN messages = 1 .. Len(messages)
  BY SequenceIs
<1>2. bare = [k \in 1 .. Len(messages) |-> bare[k]] /\ \A i \in 1 .. Len(messages) : bare[i] = Unplaced(messages[i])
  BY <1>1 DEF Bare
<1> HIDE DEF bare
<1>3. IsSequence(bare) /\ Len(bare) = Len(messages)
  BY <1>1, <1>2, ListIs
<1> QED
  BY <1>2, <1>3 DEF bare

LEMMA BareEmpty == Bare(<<>>) = <<>>
<1>1. IsSequence(<<>>)
  <2>1. <<>> \in Seq({})
    OBVIOUS
  <2> QED
    BY <2>1, IsSeqOf
<1>2. IsSequence(Bare(<<>>)) /\ Len(Bare(<<>>)) = 0
  BY <1>1, BareIs
<1> QED
  BY <1>2, SequenceIs

LEMMA BareAppend ==
  ASSUME NEW messages, IsSequence(messages), NEW m
  PROVE  Bare(Append(messages, m)) = Bare(messages) \o <<Unplaced(m)>>
<1> DEFINE more == Append(messages, m)
           bare == Bare(messages)
           x == Unplaced(m)
<1>1. /\ IsSequence(more) /\ Len(more) = Len(messages) + 1
      /\ more[Len(messages) + 1] = m /\ \A i \in 1 .. Len(messages) : more[i] = messages[i]
      /\ Len(messages) \in Nat
  BY SequenceAppend, SequenceIs
<1> HIDE DEF more
<1>2. /\ IsSequence(bare) /\ Len(bare) = Len(messages)
      /\ \A i \in 1 .. Len(messages) : bare[i] = Unplaced(messages[i])
  BY BareIs
<1>3. /\ IsSequence(Bare(more)) /\ Len(Bare(more)) = Len(more)
      /\ \A i \in 1 .. Len(more) : Bare(more)[i] = Unplaced(more[i])
  BY <1>1, BareIs
<1>4. x = Unplaced(m)
  OBVIOUS
<1> HIDE DEF bare, x
<1>5. /\ IsSequence(bare \o <<x>>) /\ Len(bare \o <<x>>) = Len(bare) + 1
      /\ \A i \in 1 .. Len(bare) + 1 : (bare \o <<x>>)[i] = IF i <= Len(bare) THEN bare[i] ELSE <<x>>[i - Len(bare)]
  BY <1>2, OneOf, SequenceConcat
<1>6. ASSUME NEW i \in 1 .. Len(messages) + 1 PROVE Bare(more)[i] = (bare \o <<x>>)[i]
  <2>1. CASE i <= Len(messages)
    <3>1. i \in 1 .. Len(messages)
      BY <1>1, <2>1
    <3> QED
      BY <1>1, <1>2, <1>3, <1>5, <2>1, <3>1
  <2>2. CASE i = Len(messages) + 1
    <3>1. i - Len(bare) = 1 /\ ~(i <= Len(bare)) /\ <<x>>[1] = x
      BY <1>1, <1>2, <2>2
    <3>2. (bare \o <<x>>)[i] = x
      BY <1>2, <1>5, <3>1
    <3>3. Bare(more)[i] = Unplaced(more[i])
      BY <1>1, <1>3
    <3>4. more[i] = m
      BY <1>1, <2>2
    <3> QED
      BY <1>4, <3>2, <3>3, <3>4, Zenon
  <2>3. i <= Len(messages) \/ i = Len(messages) + 1
    BY <1>1
  <2> QED
    BY <2>1, <2>2, <2>3, Zenon
<1>7. /\ Len(Bare(more)) = Len(bare \o <<x>>)
      /\ \A i \in 1 .. Len(Bare(more)) : Bare(more)[i] = (bare \o <<x>>)[i]
  BY <1>1, <1>2, <1>3, <1>5, <1>6
<1>8. Bare(more) = bare \o <<x>>
  BY <1>3, <1>5, <1>7, SequenceSame, Zenon
<1> QED
  BY <1>8 DEF more, bare, x

LEMMA BareHead ==
  ASSUME NEW messages, IsSequence(messages), messages # <<>>
  PROVE  Bare(messages) = <<Unplaced(Head(messages))>> \o Bare(Tail(messages))
<1> DEFINE rest == Tail(messages)
           x == Unplaced(Head(messages))
<1>1. /\ IsSequence(rest) /\ Len(messages) >= 1 /\ Len(rest) = Len(messages) - 1 /\ Head(messages) = messages[1]
      /\ \A i \in 1 .. Len(rest) : rest[i] = messages[i + 1]
      /\ Len(messages) \in Nat
  BY SequenceTail, SequenceIs
<1> HIDE DEF rest
<1> DEFINE bare == Bare(rest)
           all == Bare(messages)
<1>2. /\ IsSequence(bare) /\ Len(bare) = Len(rest) /\ \A i \in 1 .. Len(rest) : bare[i] = Unplaced(rest[i])
  BY <1>1, BareIs
<1>3. /\ IsSequence(all) /\ Len(all) = Len(messages)
      /\ \A i \in 1 .. Len(messages) : all[i] = Unplaced(messages[i])
  BY BareIs
<1>4. x = Unplaced(messages[1])
  BY <1>1
<1> HIDE DEF bare, x, all
<1>5. /\ IsSequence(<<x>> \o bare) /\ Len(<<x>> \o bare) = 1 + Len(bare)
      /\ \A i \in 1 .. 1 + Len(bare) : (<<x>> \o bare)[i] = IF i <= 1 THEN <<x>>[i] ELSE bare[i - 1]
  <2>1. IsSequence(<<x>>) /\ Len(<<x>>) = 1
    BY OneOf
  <2> QED
    BY <1>2, <2>1, SequenceConcat
<1>6. ASSUME NEW i \in 1 .. Len(messages) PROVE all[i] = (<<x>> \o bare)[i]
  <2>1. CASE i = 1
    <3>1. 1 \in 1 .. 1 + Len(bare) /\ <<x>>[1] = x
      BY <1>1, <1>2
    <3> QED
      BY <1>3, <1>4, <1>5, <2>1, <3>1
  <2>2. CASE i > 1
    <3>1. i - 1 \in 1 .. Len(rest) /\ i - 1 + 1 = i /\ i \in 1 .. 1 + Len(bare) /\ ~(i <= 1)
      BY <1>1, <1>2, <2>2
    <3>2. (<<x>> \o bare)[i] = bare[i - 1]
      BY <1>5, <3>1
    <3>3. bare[i - 1] = Unplaced(messages[i])
      BY <1>1, <1>2, <3>1
    <3> QED
      BY <1>3, <3>2, <3>3, Zenon
  <2>3. i = 1 \/ i > 1
    BY <1>1
  <2> QED
    BY <2>1, <2>2, <2>3, Zenon
<1>7. Len(all) = Len(<<x>> \o bare) /\ \A i \in 1 .. Len(all) : all[i] = (<<x>> \o bare)[i]
  BY <1>1, <1>2, <1>3, <1>5, <1>6
<1>8. all = <<x>> \o bare
  BY <1>3, <1>5, <1>7, SequenceSame, Zenon
<1> QED
  BY <1>8 DEF x, bare, rest, all

-----------------------------------------------------------------------------
(* What the transceiver task still owes to the broker.                     *)

\* A message that is none of a shutter's position
Ordinary(message) == \A c \in Covers : ~About(message, c) /\ message.topic # LegacyTopic(c)

LEMMA OthersOrdinary ==
  ASSUME NEW message, message.topic.name \notin Covers
  PROVE  Ordinary(message)
  BY DEF Ordinary, About, PositionTopic, LegacyTopic, Topic

LEMMA PositionsNotOrdinary ==
  ASSUME NEW c \in Covers, NEW p, NEW payload
  PROVE  ~Ordinary(Position(c, p)) /\ ~Ordinary(Told(LegacyTopic(c), payload))
<1>1. About(Position(c, p), c)
  BY TopicsApart
<1>2. Told(LegacyTopic(c), payload).topic = LegacyTopic(c)
  BY DEF Told
<1> QED
  BY <1>1, <1>2 DEF Ordinary

LEMMA PublicationsOrdinary ==
  ASSUME setup \in DOMAIN Setups, NEW packet, NEW content,
         IsPublished(Matching(Devices, packet), packet)
  PROVE  LET device == Matching(Devices, packet)
             messages == Publications(device, content, Order(device, packet))
         IN IsSequence(messages) /\ \A i \in 1 .. Len(messages) : Ordinary(messages[i])
<1> DEFINE device == Matching(Devices, packet)
           messages == Publications(device, content, Order(device, packet))
<1>1. PICK i \in DOMAIN Devices : device = Devices[i]
  BY DeviceIs DEF IsPublished
<1>2. device.cases # <<>>
  BY DEF IsPublished, Interpretable, Decoded, Parse
<1> HIDE DEF device
<1>3. /\ device.name \notin Covers /\ IsSequence(device.cases)
      /\ \A k \in DOMAIN device.cases : IsSequence(device.cases[k].fields) /\ IsSequence(device.cases[k].status)
  BY <1>1, Configured
<1>4. IsSequence(Order(device, packet))
  BY <1>2, <1>3, OrderIs
<1>5. Of(messages, device.name)
  BY <1>4, PublicationsOf
<1> HIDE DEF messages
<1>6. IsSequence(messages) /\ \A j \in 1 .. Len(messages) : Ordinary(messages[j])
  BY <1>3, <1>5, OthersOrdinary DEF Of
<1> QED
  BY <1>6 DEF device, messages

\* What is owed once the message is the one the task waits for
Owing(message) == (IF Ordinary(message) THEN <<Unplaced(message)>> ELSE <<>>) \o Bare(radio.todo)

\* What was told and what is owed is all that is to be told by now.
Balanced(total) ==
  IF radio.pc = "publishing" THEN \A i \in Waits("radio") : Bare(readings) \o Owing(wire[i].message) = total
  ELSE Bare(readings) = total

\* While nothing disturbs the stream, the messages about positions are the MQTT task's, and those
\* that start what a telegram leads to.
Sources ==
  /\ IsSequence(readings)
  /\ \A i \in 1 .. Len(radio.todo) : Ordinary(radio.todo[i])
  /\ Waits("nobody") = {}
  /\ \A i \in Waits("mqtt") : ~Ordinary(wire[i].message)

LEMMA HandedSources ==
  ASSUME TaskOK, Sources, NEW by \in {"radio", "mqtt"}, NEW message, HandOver(by, message),
         by = "mqtt" => ~Ordinary(message), \A i \in 1 .. Len(radio'.todo) : Ordinary(radio'.todo[i]), UNCHANGED readings
  PROVE  Sources' /\ wire'[Len(wire) + 1].message = message /\ Waits(by)' = Waits(by) \cup {Len(wire) + 1}
<1> DEFINE x == [by |-> by, message |-> message]
<1>0. x.message = message /\ wire' = Append(wire, x) /\ IsSequence(wire)
  BY DEF HandOver, TaskOK
<1> HIDE DEF x
<1>1. wire'[Len(wire) + 1] = x /\ \A i \in 1 .. Len(wire) : wire'[i] = wire[i]
  BY <1>0, SequenceAppend
<1>2. /\ Waits(by)' = Waits(by) \cup {Len(wire) + 1}
      /\ \A b : b # by => Waits(b)' = Waits(b)
  BY <1>0, HandedOver
<1>3. Waits("nobody")' = {}
  BY <1>2 DEF Sources
<1>4. \A i \in Waits("mqtt") : i \in 1 .. Len(wire)
  BY DEF Waits
<1>5. ASSUME NEW i \in Waits("mqtt")' PROVE ~Ordinary(wire'[i].message)
  <2>1. CASE i \in Waits("mqtt")
    BY <1>1, <1>4, <2>1 DEF Sources
  <2>2. CASE i \notin Waits("mqtt")
    <3>1. by = "mqtt" /\ i = Len(wire) + 1
      BY <1>2, <2>2
    <3> QED
      BY <1>0, <1>1, <3>1
  <2> QED
    BY <2>1, <2>2
<1>6. \A i \in 1 .. Len(radio'.todo) : Ordinary(radio'.todo[i])
  OBVIOUS
<1> QED
  BY <1>0, <1>1, <1>2, <1>3, <1>5, <1>6 DEF Sources, Ordinary, About

\* The messages a telegram leads to are owed from the moment it is framed.
LEMMA StartBalanced ==
  ASSUME TaskOK, Sources, Waits("radio") = {}, radio.pc = "framing", UNCHANGED readings,
         NEW total, Balanced(total), NEW messages, IsSequence(messages), Start(messages),
         \A i \in 1 .. Len(Tail(messages)) : Ordinary(Tail(messages)[i]),
         NEW told, messages = <<>> => told = <<>>,
         messages # <<>> => told = (IF Ordinary(Head(messages)) THEN <<Unplaced(Head(messages))>> ELSE <<>>)
                                   \o Bare(Tail(messages))
  PROVE  Sources' /\ Balanced(total \o told)'
<1>0. Bare(readings) = total /\ IsSequence(Bare(readings))
  BY BareIs DEF Balanced, Sources
<1>1. CASE messages = <<>>
  <2>1. UNCHANGED <<radio, wire>>
    BY <1>1 DEF Start
  <2>2. total \o <<>> = total
    BY <1>0, SequenceEmpty
  <2>3. Balanced(total)'
    BY <1>0, <2>1 DEF Balanced, Bare, Unplaced
  <2>4. Sources'
    BY <2>1 DEF Sources, Waits, Ordinary, About
  <2> QED
    BY <1>1, <2>2, <2>3, <2>4
<1>2. CASE messages # <<>>
  <2> DEFINE m == Head(messages)
             rest == Tail(messages)
             owed == (IF Ordinary(m) THEN <<Unplaced(m)>> ELSE <<>>) \o Bare(rest)
  <2>1. radio' = [pc |-> "publishing", todo |-> rest] /\ HandOver("radio", m)
    BY <1>2 DEF Start
  <2>2. \A i \in 1 .. Len(rest) : Ordinary(rest[i])
    OBVIOUS
  <2> HIDE DEF m, rest
  <2>3. radio'.todo = rest /\ radio'.pc = "publishing"
    BY <2>1
  <2>4. Sources' /\ wire'[Len(wire) + 1].message = m /\ Waits("radio")' = Waits("radio") \cup {Len(wire) + 1}
    BY <2>1, <2>2, <2>3, HandedSources
  <2>5. ASSUME NEW i \in Waits("radio")' PROVE Bare(readings)' \o Owing(wire[i].message)' = total \o owed
    <3>1. wire'[i].message = m
      BY <2>4
    <3>2. Owing(wire[i].message)' = owed
      BY <2>3, <3>1 DEF Owing, Ordinary, About
    <3> QED
      BY <1>0, <3>2 DEF Bare
  <2>6. told = owed
    BY <1>2 DEF m, rest
  <2> HIDE DEF owed
  <2>7. ASSUME NEW i \in Waits("radio")' PROVE Bare(readings)' \o Owing(wire[i].message)' = total \o told
    BY <2>5, <2>6
  <2>8. Balanced(total \o told)'
    BY <2>3, <2>7 DEF Balanced
  <2> QED
    BY <2>4, <2>8
<1> QED
  BY <1>1, <1>2

LEMMA TellBalanced ==
  ASSUME TaskOK, CoverInv, Sources, Waits("radio") = {}, radio.pc = "framing", UNCHANGED readings,
         NEW total, Balanced(total), NEW packet, IsPublished(Matching(Devices, packet), packet),
         Tell(Matching(Devices, packet), packet), Says(packet).what = "run" => Says(packet).n \in Int,
         NEW told,
         LET device == Matching(Devices, packet)
             content == Content(device, packet)
             bare(values) == Bare(Publications(device, values, Order(device, packet)))
         IN IF device.cover \notin Covers \/ Says(packet).what = "nothing" THEN told = bare(content)
            ELSE \A p \in 0 .. 100 : told = bare(Placed(content, p))
  PROVE  Sources' /\ Balanced(total \o told)'
<1> DEFINE device == Matching(Devices, packet)
           content == Content(device, packet)
           says == Says(packet)
           order == Order(device, packet)
           pubs(values) == Publications(device, values, order)
<1>0. setup \in DOMAIN Setups
  BY DEF TaskOK
<1>1. ASSUME NEW values
      PROVE  IsSequence(pubs(values)) /\ \A i \in 1 .. Len(pubs(values)) : Ordinary(pubs(values)[i])
  BY <1>0, PublicationsOrdinary
<1>2. CASE device.cover \notin Covers \/ says.what = "nothing"
  <2> DEFINE messages == pubs(content)
  <2>1. Start(messages) /\ told = Bare(messages)
    BY <1>2 DEF Tell
  <2>2. IsSequence(messages) /\ \A i \in 1 .. Len(messages) : Ordinary(messages[i])
    BY <1>1
  <2> HIDE DEF device, content, says, order, messages
  <2>3. CASE messages = <<>>
    <3>1. \A i \in 1 .. Len(Tail(messages)) : Ordinary(Tail(messages)[i])
      BY <2>3
    <3>2. told = <<>>
      BY <2>1, <2>3, BareEmpty
    <3> QED
      BY <2>1, <2>2, <2>3, <3>1, <3>2, StartBalanced
  <2>4. CASE messages # <<>>
    <3> DEFINE rest == Tail(messages)
               m == Head(messages)
    <3>1. /\ IsSequence(rest) /\ Len(messages) >= 1 /\ Len(rest) = Len(messages) - 1 /\ m = messages[1]
          /\ \A i \in 1 .. Len(rest) : rest[i] = messages[i + 1]
          /\ Len(messages) \in Nat
      BY <2>2, <2>4, SequenceTail, SequenceIs
    <3>2. \A i \in 1 .. Len(rest) : i + 1 \in 1 .. Len(messages)
      BY <3>1
    <3>3. (\A i \in 1 .. Len(rest) : Ordinary(rest[i])) /\ Ordinary(m)
      BY <2>2, <3>1, <3>2
    <3>4. told = <<Unplaced(m)>> \o Bare(rest)
      BY <2>1, <2>2, <2>4, BareHead
    <3>5. told = (IF Ordinary(m) THEN <<Unplaced(m)>> ELSE <<>>) \o Bare(rest)
      <4> HIDE DEF m, rest
      <4> QED
        BY <3>3, <3>4
    <3> QED
      BY <2>1, <2>2, <2>4, <3>3, <3>5, StartBalanced
  <2> QED
    BY <2>3, <2>4
<1>3. CASE device.cover \in Covers /\ says.what # "nothing"
  <2> DEFINE c == device.cover
  <2>1. PICK p \in IF says.what = "end" THEN {says.n} ELSE Moved(c, position[c], says.n) :
          Stored(c, says, p) /\ Start(<<Position(c, p)>> \o pubs(Placed(content, p)))
    BY <1>3 DEF Tell
  <2>2. \A q \in 0 .. 100 : told = Bare(pubs(Placed(content, q)))
    BY <1>3
  <2> DEFINE messages == pubs(Placed(content, p))
             m == Position(c, p)
             all == <<m>> \o messages
  <2>3. /\ IsSequence(messages) /\ Start(all) /\ c \in Covers
        /\ \A i \in 1 .. Len(messages) : Ordinary(messages[i])
    BY <1>1, <1>3, <2>1
  <2>4. says.what \in {"end", "run", "nothing"} /\ (says.what = "end" => says.n \in {0, 100})
    BY SaysWhat
  <2>5. p \in 0 .. 100
    <3>1. says.what = "run" => says.n \in Int
      OBVIOUS
    <3>2. /\ says.what = "end" => says.n \in {0, 100} /\ p = says.n
          /\ says.what = "run" => says.n \in Int /\ p \in Moved(c, position[c], says.n)
      <4> HIDE DEF says, c
      <4> QED
        BY <2>1, <2>4, <3>1
    <3>3. says.what \in {"end", "run"}
      BY <1>3, <2>4
    <3>4. Stored(c, says, p)
      BY <2>1
    <3>5. c \in Covers
      BY <2>3
    <3> HIDE DEF says, c, pubs, messages
    <3> QED
      BY <3>2, <3>3, <3>4, <3>5, StoredKeepsInv
  <2>6. told = Bare(messages)
    BY <2>2, <2>5
  <2>7. ~Ordinary(m)
    BY <2>3, PositionsNotOrdinary
  <2> HIDE DEF device, content, order, messages, says, c, m
  <2>8. /\ IsSequence(all) /\ Len(all) = 1 + Len(messages) /\ Len(messages) \in Nat
        /\ \A i \in 1 .. 1 + Len(messages) : all[i] = IF i <= 1 THEN <<m>>[i] ELSE messages[i - 1]
    <3>1. Len(<<m>>) = 1 /\ IsSequence(<<m>>)
      BY OneOf
    <3> QED
      BY <2>3, <3>1, SequenceConcat, SequenceIs
  <2> HIDE DEF all
  <2>9. all # <<>> /\ Head(all) = m /\ Tail(all) = messages
    <3>1. all # <<>>
      BY <2>8, SequenceIs
    <3>2. 1 \in 1 .. 1 + Len(messages) /\ <<m>>[1] = m
      BY <2>8
    <3>3. all[1] = m
      BY <2>8, <3>2
    <3>4. /\ IsSequence(Tail(all)) /\ Len(Tail(all)) = Len(all) - 1 /\ Head(all) = all[1]
          /\ \A i \in 1 .. Len(Tail(all)) : Tail(all)[i] = all[i + 1]
      BY <2>8, <3>1, SequenceTail
    <3>5. Len(Tail(all)) = Len(messages)
      BY <2>8, <3>4
    <3>6. ASSUME NEW i \in 1 .. Len(Tail(all)) PROVE Tail(all)[i] = messages[i]
      <4>1. i + 1 \in 1 .. 1 + Len(messages) /\ ~(i + 1 <= 1) /\ i + 1 - 1 = i
        BY <2>8, <3>5
      <4>2. all[i + 1] = messages[i + 1 - 1]
        BY <2>8, <4>1
      <4> QED
        BY <3>4, <4>1, <4>2
    <3>7. Tail(all) = messages
      BY <2>3, <3>4, <3>5, <3>6, SequenceSame, Zenon
    <3> QED
      BY <3>1, <3>3, <3>4, <3>7
  <2>10. told = (IF Ordinary(m) THEN <<Unplaced(m)>> ELSE <<>>) \o Bare(messages)
    <3>1. <<>> \o Bare(messages) = Bare(messages)
      BY <2>3, BareIs, SequenceEmpty
    <3> QED
      BY <2>6, <2>7, <3>1
  <2>11. \A i \in 1 .. Len(Tail(all)) : Ordinary(Tail(all)[i])
    BY <2>3, <2>9
  <2>12. all # <<>> /\ told = (IF Ordinary(Head(all)) THEN <<Unplaced(Head(all))>> ELSE <<>>) \o Bare(Tail(all))
    BY <2>9, <2>10
  <2> QED
    BY <2>3, <2>8, <2>11, <2>12, StartBalanced
<1> QED
  BY <1>2, <1>3

\* What is delivered is told instead of owed.
LEMMA DeliverBalanced ==
  ASSUME TaskOK, Waiting, Sources, NEW total, Balanced(total), Deliver
  PROVE  Sources' /\ Balanced(total)'
<1> DEFINE m == wire[1].message
           got == IF Ordinary(m) THEN <<Unplaced(m)>> ELSE <<>>
           rest == Bare(radio.todo)
<1>0. wire # <<>> /\ Got(Head(wire).message)
  BY DEF Deliver
<1>1. /\ IsSequence(wire) /\ Len(wire) >= 1 /\ Head(wire) = wire[1] /\ 1 \in 1 .. Len(wire) /\ Len(wire) \in Nat
      /\ IsSequence(radio.todo) /\ radio = [pc |-> radio.pc, todo |-> radio.todo]
      /\ wire[1].by \in {"radio", "mqtt", "nobody"}
  <2>1. /\ IsSequence(wire) /\ IsSequence(radio.todo) /\ radio = [pc |-> radio.pc, todo |-> radio.todo]
        /\ \A i \in 1 .. Len(wire) : wire[i].by \in {"radio", "mqtt", "nobody"}
    BY DEF TaskOK
  <2>2. Len(wire) >= 1 /\ Head(wire) = wire[1] /\ Len(wire) \in Nat
    BY <1>0, <2>1, SequenceTail, SequenceIs
  <2>3. 1 \in 1 .. Len(wire)
    BY <2>2
  <2> QED
    BY <2>1, <2>2, <2>3
<1>2. readings' = IF Ordinary(m) THEN Append(readings, m) ELSE readings
  BY <1>0, <1>1 DEF Got, Ordinary, About
<1>3. IsSequence(readings) /\ IsSequence(Bare(readings)) /\ IsSequence(rest) /\ IsSequence(<<>>)
  BY <1>1, BareIs, SequenceEmpty DEF Sources
<1>4. IsSequence(got)
  BY <1>3, OneOf
<1>5. IsSequence(readings') /\ Bare(readings') = Bare(readings) \o got
  <2>1. CASE Ordinary(m)
    <3>1. readings' = Append(readings, m) /\ got = <<Unplaced(m)>>
      BY <1>2, <2>1
    <3>2. IsSequence(Append(readings, m))
      BY <1>3, SequenceAppend
    <3>3. Bare(Append(readings, m)) = Bare(readings) \o <<Unplaced(m)>>
      BY <1>3, BareAppend
    <3> QED
      BY <3>1, <3>2, <3>3
  <2>2. CASE ~Ordinary(m)
    <3>1. readings' = readings /\ got = <<>>
      BY <1>2, <2>2
    <3>2. Bare(readings) \o <<>> = Bare(readings)
      BY <1>3, SequenceEmpty
    <3> QED
      BY <1>3, <3>1, <3>2
  <2> QED
    BY <2>1, <2>2
<1>6. Owing(m) = got \o rest
  BY DEF Owing
<1> HIDE DEF got, rest
<1>7. Bare(readings) \o Owing(m) = Bare(readings') \o rest
  <2>1. (Bare(readings) \o got) \o rest = Bare(readings) \o (got \o rest)
    <3> DEFINE r == Bare(readings)
    <3>1. IsSequence(r) /\ IsSequence(got) /\ IsSequence(rest)
      BY <1>3, <1>4
    <3> HIDE DEF r
    <3>2. (r \o got) \o rest = r \o (got \o rest)
      BY <3>1, SequenceAssoc
    <3> QED
      BY <3>2 DEF r
  <2> QED
    BY <1>5, <1>6, <2>1
<1>8. \A b : 1 \in Waits(b) <=> wire[1].by = b
  BY <1>1 DEF Waits
<1>9. wire[1].by # "nobody"
  BY <1>8 DEF Sources
<1>a. wire[1].by = "radio" => radio.pc = "publishing" /\ Bare(readings') \o rest = total
      /\ \A i \in Waits("radio") : i = 1
  BY <1>7, <1>8 DEF Waiting, Balanced
<1>b. \A i : i \in 1 .. Len(wire) - 1 => i + 1 # 1 /\ i \in Int
  BY <1>1
<1>10. CASE wire[1].by = "radio" /\ radio.todo # <<>>
  <2> DEFINE x == [by |-> "radio", message |-> Head(radio.todo)]
             left == Tail(radio.todo)
  <2>1. /\ wire' = Append(Tail(wire), x) /\ radio' = [radio EXCEPT !.todo = left]
    BY <1>1, <1>10 DEF Deliver
  <2>2. x.by = "radio" /\ x.message = Head(radio.todo)
    OBVIOUS
  <2>3. /\ IsSequence(left) /\ Len(radio.todo) >= 1 /\ Len(radio.todo) \in Nat /\ Len(left) = Len(radio.todo) - 1
        /\ Head(radio.todo) = radio.todo[1] /\ \A i \in 1 .. Len(left) : left[i] = radio.todo[i + 1]
    BY <1>1, <1>10, SequenceTail, SequenceIs
  <2> HIDE DEF x, left
  <2>4. wire' = IF TRUE THEN Append(Tail(wire), x) ELSE Tail(wire)
    BY <2>1
  <2>5. radio'.pc = radio.pc /\ radio'.todo = left
    BY <1>1, <2>1
  <2>6. /\ \A i \in 1 .. Len(wire) - 1 : wire'[i] = wire[i + 1]
        /\ wire'[Len(wire)] = x
    BY <1>0, <2>4, WireShifted
  <2>7. \A b, i : i \in Waits(b)' <=> \/ i \in 1 .. Len(wire) - 1 /\ i + 1 \in Waits(b)
                                      \/ i = Len(wire) /\ x.by = b
    <3>1. \A b, i : i \in Waits(b)' <=> \/ i \in 1 .. Len(wire) - 1 /\ i + 1 \in Waits(b)
                                        \/ TRUE /\ i = Len(wire) /\ x.by = b
      BY <1>0, <2>4, DeliveredWaits
    <3> QED
      BY <3>1
  <2>8. \A i \in Waits("radio")' : i = Len(wire)
    BY <1>10, <1>a, <1>b, <2>7
  <2>9. Ordinary(Head(radio.todo)) /\ \A i \in 1 .. Len(left) : Ordinary(left[i])
    <3>1. 1 \in 1 .. Len(radio.todo) /\ \A i \in 1 .. Len(left) : i + 1 \in 1 .. Len(radio.todo)
      BY <2>3
    <3> QED
      BY <2>3, <3>1 DEF Sources
  <2>10. rest = <<Unplaced(Head(radio.todo))>> \o Bare(left)
    BY <1>1, <1>10, BareHead DEF rest, left
  <2>11. ASSUME NEW i \in Waits("radio")' PROVE Bare(readings)' \o Owing(wire[i].message)' = total
    <3>1. wire'[i].message = Head(radio.todo)
      BY <2>2, <2>6, <2>8
    <3>2. Owing(wire[i].message)' = rest
      BY <2>5, <2>9, <2>10, <3>1 DEF Owing, Ordinary, About
    <3> QED
      BY <1>10, <1>a, <3>2 DEF Bare
  <2>12. Balanced(total)'
    BY <1>10, <1>a, <2>5, <2>11 DEF Balanced
  <2>13. Waits("nobody")' = {}
    BY <2>2, <2>7 DEF Sources
  <2>14. ASSUME NEW i \in Waits("mqtt")' PROVE ~Ordinary(wire'[i].message)
    <3>1. i \in 1 .. Len(wire) - 1 /\ i + 1 \in Waits("mqtt")
      BY <2>2, <2>7
    <3> QED
      BY <2>6, <3>1 DEF Sources
  <2> QED
    BY <1>5, <2>5, <2>9, <2>12, <2>13, <2>14 DEF Sources, Ordinary, About
<1>11. CASE ~(wire[1].by = "radio" /\ radio.todo # <<>>)
  <2> DEFINE y == [by |-> "radio", message |-> 0]
  <2>1. /\ wire' = Tail(wire) /\ radio'.todo = radio.todo
        /\ wire[1].by = "radio" => radio'.pc = "framing" /\ radio.todo = <<>>
        /\ wire[1].by = "mqtt" => radio' = radio
    <3>1. CASE wire[1].by = "radio" /\ radio.todo = <<>>
      <4>1. wire' = Tail(wire) /\ radio' = [radio EXCEPT !.pc = "framing"]
        BY <1>1, <3>1 DEF Deliver
      <4> QED
        BY <1>1, <3>1, <4>1
    <3>2. CASE wire[1].by = "mqtt"
      <4>1. wire' = Tail(wire) /\ radio' = radio
        BY <1>1, <3>2 DEF Deliver
      <4> QED
        BY <3>2, <4>1
    <3> QED
      BY <1>1, <1>9, <1>11, <3>1, <3>2
  <2>2. wire' = IF FALSE THEN Append(Tail(wire), y) ELSE Tail(wire)
    BY <2>1
  <2> HIDE DEF y
  <2>3. \A i \in 1 .. Len(wire) - 1 : wire'[i] = wire[i + 1]
    BY <1>0, <2>2, WireShifted
  <2>4. \A b, i : i \in Waits(b)' <=> i \in 1 .. Len(wire) - 1 /\ i + 1 \in Waits(b)
    BY <1>0, <2>2, DeliveredWaits
  <2>5. Waits("nobody")' = {}
    BY <2>4 DEF Sources
  <2>6. ASSUME NEW i \in Waits("mqtt")' PROVE ~Ordinary(wire'[i].message)
    <3>1. i \in 1 .. Len(wire) - 1 /\ i + 1 \in Waits("mqtt")
      BY <2>4
    <3> QED
      BY <2>3, <3>1 DEF Sources
  <2>7. Sources'
    BY <1>5, <2>1, <2>5, <2>6 DEF Sources, Ordinary, About
  <2>8. CASE wire[1].by = "radio"
    <3>1. radio'.pc = "framing" /\ rest = <<>>
      BY <2>1, <2>8, BareEmpty DEF rest
    <3>2. IsSequence(Bare(readings'))
      BY <1>5, BareIs
    <3>3. Bare(readings') = total
      BY <1>a, <2>8, <3>1, <3>2, SequenceEmpty
    <3> QED
      BY <2>7, <3>1, <3>3 DEF Balanced, Bare
  <2>9. CASE wire[1].by = "mqtt"
    <3>1. ~Ordinary(m)
      BY <1>8, <2>9 DEF Sources
    <3>2. readings' = readings /\ radio' = radio
      BY <1>2, <2>1, <2>9, <3>1
    <3>3. ASSUME NEW i \in Waits("radio")', radio.pc = "publishing"
          PROVE  Bare(readings)' \o Owing(wire[i].message)' = total
      <4>1. i \in 1 .. Len(wire) - 1 /\ i + 1 \in Waits("radio") /\ wire'[i] = wire[i + 1]
        BY <2>3, <2>4
      <4>2. Bare(readings) \o Owing(wire[i + 1].message) = total
        BY <3>3, <4>1 DEF Balanced
      <4>3. Owing(wire[i].message)' = Owing(wire[i + 1].message)
        BY <3>2, <4>1 DEF Owing, Ordinary, About
      <4> QED
        BY <3>2, <4>2, <4>3 DEF Bare
    <3>4. radio.pc # "publishing" => Bare(readings)' = total
      BY <3>2 DEF Balanced, Bare
    <3> QED
      BY <2>7, <3>2, <3>3, <3>4 DEF Balanced
  <2> QED
    BY <1>1, <1>9, <2>8, <2>9
<1> QED
  BY <1>10, <1>11

-----------------------------------------------------------------------------
(* The frames on their way: all that is received, and on the line, is the  *)
(* stretches of the frames that were not taken off yet, one after the      *)
(* other.                                                                  *)

\* What each of the frames sent is to tell
Tells == [k \in DOMAIN sent |-> IF sent[k].intact THEN Frames[sent[k].frame].told ELSE <<>>]

Streamed(done, parts, left) ==
  /\ IsSequence(done) /\ IsSequence(left) /\ Tells = done \o left
  /\ parts \in Seq(Seq(Octets)) /\ Len(parts) = Len(left)
  /\ \A i \in 1 .. Len(parts) : IsPart(parts[i], left[i], Frames)
  /\ buffer \o line = Chain(parts)
  /\ radio.pc \in {"down", "reading"} /\ parts # <<>> => Len(buffer) < Len(parts[1])

LEMMA ChainHead ==
  ASSUME NEW parts \in Seq(Seq(Octets)), parts # <<>>
  PROVE  /\ parts[1] \in Seq(Octets) /\ Tail(parts) \in Seq(Seq(Octets)) /\ Chain(Tail(parts)) \in Seq(Octets)
         /\ Len(Tail(parts)) = Len(parts) - 1 /\ Len(parts) \in Nat
         /\ \A i \in 1 .. Len(Tail(parts)) : Tail(parts)[i] = parts[i + 1]
         /\ Chain(parts) = parts[1] \o Chain(Tail(parts))
<1> DEFINE T == Seq(Octets)
           h == parts[1]
           rest == Tail(parts)
<1>1. parts \in Seq(T)
  OBVIOUS
<1> HIDE DEF T
<1>2. /\ h \in T /\ rest \in Seq(T) /\ Len(rest) = Len(parts) - 1 /\ Len(parts) \in Nat /\ Len(parts) >= 1
      /\ \A i \in 1 .. Len(rest) : rest[i] = parts[i + 1]
  BY <1>1
<1> HIDE DEF h, rest
<1>3. parts = <<h>> \o rest /\ <<h>> \in Seq(T)
  <2>1. /\ IsSequence(parts) /\ IsSequence(rest)
    BY <1>1, <1>2, IsSeqOf
  <2>2. /\ IsSequence(<<h>> \o rest) /\ Len(<<h>> \o rest) = 1 + Len(rest)
        /\ \A i \in 1 .. 1 + Len(rest) : (<<h>> \o rest)[i] = IF i <= 1 THEN <<h>>[i] ELSE rest[i - 1]
    <3>1. IsSequence(<<h>>) /\ Len(<<h>>) = 1
      BY OneOf
    <3> QED
      BY <2>1, <3>1, SequenceConcat
  <2>3. ASSUME NEW i \in 1 .. Len(parts) PROVE parts[i] = (<<h>> \o rest)[i]
    <3>1. CASE i = 1
      <4>1. 1 \in 1 .. 1 + Len(rest) /\ <<h>>[1] = h
        BY <1>2
      <4> QED
        BY <2>2, <3>1, <4>1 DEF h
    <3>2. CASE i > 1
      <4>1. i - 1 \in 1 .. Len(rest) /\ i - 1 + 1 = i /\ i \in 1 .. 1 + Len(rest) /\ ~(i <= 1)
        BY <1>2, <3>2
      <4>2. (<<h>> \o rest)[i] = rest[i - 1]
        BY <2>2, <4>1
      <4>3. rest[i - 1] = parts[i]
        BY <1>2, <4>1
      <4> QED
        BY <4>2, <4>3
    <3>3. i = 1 \/ i > 1
      BY <1>2
    <3> QED
      BY <3>1, <3>2, <3>3, Zenon
  <2>4. Len(parts) = Len(<<h>> \o rest)
    BY <1>2, <2>2
  <2>5. parts = <<h>> \o rest
    BY <2>1, <2>2, <2>3, <2>4, SequenceSame, Zenon
  <2> QED
    BY <1>2, <2>5
<1>4. Chain(<<h>>) = h /\ Chain(rest) \in T
  BY <1>2, ChainSingle, ChainType DEF T
<1>5. Chain(<<h>> \o rest) = Chain(<<h>>) \o Chain(rest)
  BY <1>2, <1>3, ChainConcat DEF T
<1> QED
  BY <1>2, <1>3, <1>4, <1>5 DEF h, rest, T

\* A frame is sent.
LEMMA SentStreamed ==
  ASSUME NEW done, NEW parts, NEW left, Streamed(done, parts, left), BytesOK, NEW bytes, NEW told,
         IsPart(bytes, told, Frames), line' = line \o bytes, UNCHANGED <<setup, buffer, radio>>,
         Tells' = Append(Tells, told)
  PROVE  \E p, l : Streamed(done, p, l)'
<1> DEFINE p == Append(parts, bytes)
           l == Append(left, told)
           T == Seq(Octets)
<1>1. /\ IsSequence(done) /\ IsSequence(left) /\ Tells = done \o left
      /\ parts \in Seq(T) /\ Len(parts) = Len(left)
      /\ \A i \in 1 .. Len(parts) : IsPart(parts[i], left[i], Frames)
      /\ buffer \o line = Chain(parts)
      /\ radio.pc \in {"down", "reading"} /\ parts # <<>> => Len(buffer) < Len(parts[1])
  BY DEF Streamed
<1>2. bytes \in T /\ bytes # <<>>
  BY DEF IsPart
<1>3. /\ IsSequence(l) /\ Len(l) = Len(left) + 1 /\ l[Len(left) + 1] = told
      /\ \A i \in 1 .. Len(left) : l[i] = left[i]
  BY <1>1, SequenceAppend
<1>4. Append(Tells, told) = done \o l
  <2>1. IsSequence(Tells) /\ IsSequence(<<told>>)
    BY <1>1, SequenceConcat, OneOf
  <2>2. Append(Tells, told) = Tells \o <<told>> /\ l = left \o <<told>>
    BY <1>1, <2>1, SequenceAppended
  <2>3. (done \o left) \o <<told>> = done \o (left \o <<told>>)
    <3> DEFINE one == <<told>>
    <3>1. IsSequence(done) /\ IsSequence(left) /\ IsSequence(one)
      BY <1>1, <2>1
    <3> HIDE DEF one, T, p, l
    <3>2. (done \o left) \o one = done \o (left \o one)
      BY <3>1, SequenceAssoc
    <3> QED
      BY <3>2 DEF one
  <2> QED
    BY <1>1, <2>2, <2>3
<1> HIDE DEF l
<1>5. /\ p \in Seq(T) /\ Len(p) = Len(parts) + 1 /\ p[Len(parts) + 1] = bytes /\ Len(parts) \in Nat
      /\ \A i \in 1 .. Len(parts) : p[i] = parts[i]
  <2> HIDE DEF T
  <2> QED
    BY <1>1, <1>2, AppendProperties
<1>6. Chain(p) = Chain(parts) \o bytes
  BY <1>1, <1>2, ChainAppend
<1> HIDE DEF p
<1>7. buffer \o (line \o bytes) = Chain(p)
  <2>1. buffer \in T /\ line \in T
    BY DEF BytesOK
  <2>2. (buffer \o line) \o bytes = buffer \o (line \o bytes)
    BY <1>2, <2>1, ConcatAssociative DEF T
  <2> QED
    BY <1>1, <1>6, <2>2
<1>8. ASSUME NEW i \in 1 .. Len(p) PROVE IsPart(p[i], l[i], Frames)
  <2>1. CASE i \in 1 .. Len(parts)
    BY <1>1, <1>3, <1>5, <2>1
  <2>2. CASE i = Len(parts) + 1
    BY <1>1, <1>3, <1>5, <2>2
  <2> QED
    BY <1>5, <2>1, <2>2
<1>9. radio.pc \in {"down", "reading"} /\ p # <<>> => Len(buffer) < Len(p[1])
  <2>1. CASE parts = <<>>
    <3>1. p[1] = bytes /\ Len(bytes) > 0
      BY <1>2, <1>5, <2>1
    <3>2. buffer = <<>>
      <4>1. buffer \in T /\ line \in T /\ buffer \o line = <<>>
        BY <1>1, <2>1, ChainEmpty DEF BytesOK
      <4>2. Len(buffer \o line) = Len(buffer) + Len(line) /\ Len(buffer) \in Nat /\ Len(line) \in Nat
        BY <4>1, ByteConcat
      <4>3. Len(buffer) = 0
        BY <4>1, <4>2
      <4> QED
        BY <4>1, <4>3, EmptySeq
    <3> QED
      BY <3>1, <3>2
  <2>2. CASE parts # <<>>
    <3>1. p[1] = parts[1]
      BY <1>1, <1>5, <2>2
    <3> QED
      BY <1>1, <2>2, <3>1
  <2> QED
    BY <2>1, <2>2
<1>10. Frames' = Frames
  BY DEF Frames
<1>11. Streamed(done, p, l)'
  <2> HIDE DEF T
  <2>1. IsSequence(done)' /\ IsSequence(l)' /\ Tells' = done \o l
    BY <1>1, <1>3, <1>4
  <2>2. p \in Seq(T) /\ Len(p) = Len(l)
    BY <1>1, <1>3, <1>5
  <2>3. \A i \in 1 .. Len(p) : IsPart(p[i], l[i], Frames)'
    BY <1>8, <1>10 DEF IsPart
  <2>4. buffer' \o line' = Chain(p)
    BY <1>7
  <2>5. radio'.pc \in {"down", "reading"} /\ p # <<>> => Len(buffer') < Len(p[1])
    BY <1>9
  <2> QED
    BY <2>1, <2>2, <2>3, <2>4, <2>5 DEF Streamed, T
<1> QED
  BY <1>11

LEMMA StreamIs ==
  ASSUME NEW done, NEW parts, NEW left, Streamed(done, parts, left)
  PROVE  /\ IsSequence(done) /\ IsSequence(left) /\ Tells = done \o left
         /\ parts \in Seq(Seq(Octets)) /\ Len(parts) = Len(left)
         /\ \A i \in 1 .. Len(parts) : IsPart(parts[i], left[i], Frames)
         /\ buffer \o line = Chain(parts)
         /\ radio.pc \in {"down", "reading"} /\ parts # <<>> => Len(buffer) < Len(parts[1])
BY DEF Streamed

\* Nothing is sent and nothing is taken off.
LEMMA StreamSame ==
  ASSUME NEW done, NEW parts, NEW left, Streamed(done, parts, left), UNCHANGED <<setup, sent>>,
         buffer' \o line' = buffer \o line,
         radio'.pc \in {"down", "reading"} /\ parts # <<>> => Len(buffer') < Len(parts[1])
  PROVE  Streamed(done, parts, left)'
<1>1. /\ IsSequence(done) /\ IsSequence(left) /\ Tells = done \o left
      /\ parts \in Seq(Seq(Octets)) /\ Len(parts) = Len(left)
      /\ \A i \in 1 .. Len(parts) : IsPart(parts[i], left[i], Frames)
      /\ buffer \o line = Chain(parts)
      /\ radio.pc \in {"down", "reading"} /\ parts # <<>> => Len(buffer) < Len(parts[1])
  BY DEF Streamed
<1>2. Frames' = Frames /\ Tells' = Tells
  BY DEF Frames, Tells
<1>3. \A i \in 1 .. Len(parts) : IsPart(parts[i], left[i], Frames)'
  BY <1>1, <1>2 DEF IsPart
<1>4. buffer' \o line' = Chain(parts)
  BY <1>1
<1>5. radio'.pc \in {"down", "reading"} /\ parts # <<>> => Len(buffer') < Len(parts[1])
  BY <1>1
<1>6. IsSequence(done)' /\ IsSequence(left)' /\ Tells' = done \o left
  BY <1>1, <1>2
<1> QED
  BY <1>1, <1>3, <1>4, <1>5, <1>6 DEF Streamed

\* A chunk is read; the bytes that are left where they were keep their order.
LEMMA ReadStreamed ==
  ASSUME NEW done, NEW parts, NEW left, Streamed(done, parts, left), BytesOK, TaskOK,
         NEW n \in Chunks, Read(n), ~trouble'
  PROVE  Streamed(done, parts, left)' /\ radio'.pc = "framing"
<1> DEFINE taken == Min({n, Len(line)})
           head == SubSeq(line, 1, taken)
           rest == SubSeq(line, taken + 1, Len(line))
           bytes == buffer \o head
<1>1. /\ line' = rest /\ buffer' = Kept(bytes) /\ UNCHANGED <<setup, sent>> /\ line # <<>>
      /\ radio' = IF Kept(bytes) = <<>> THEN radio ELSE [radio EXCEPT !.pc = "framing"]
      /\ Kept(bytes) # <<>>
  BY DEF Read
<1>2. buffer \in Seq(Octets) /\ line \in Seq(Octets) /\ n \in Nat
  BY ChunksAssumption DEF BytesOK
<1>3. taken \in 0 .. Len(line) /\ head \in Seq(Octets) /\ rest \in Seq(Octets)
  BY <1>1, <1>2, ReadType
<1>4. head \o rest = line
  <2> HIDE DEF taken
  <2>1. Len(line) \in Nat /\ taken \in Nat /\ taken <= Len(line)
    BY <1>2, <1>3
  <2>2. SubSeq(line, 1, taken) \o SubSeq(line, taken + 1, Len(line)) = SubSeq(line, 1, Len(line))
    <3> DEFINE N == Len(line)
    <3>1. N \in Nat /\ taken \in 1 - 1 .. N /\ N \in taken .. N /\ 1 \in 1 .. N + 1
      BY <2>1
    <3> HIDE DEF N
    <3>2. SubSeq(line, 1, taken) \o SubSeq(line, taken + 1, N) = SubSeq(line, 1, N)
      BY <1>2, <3>1, ConcatAdjacentSubSeq, SMTT(30)
    <3> QED
      BY <3>2 DEF N
  <2>3. SubSeq(line, 1, Len(line)) = line
    BY <1>2, SubSeqFull
  <2> QED
    BY <2>2, <2>3
<1> HIDE DEF taken, head, rest
<1>5. buffer' = bytes
  BY <1>1 DEF Kept
<1>6. (buffer \o head) \o rest = buffer \o (head \o rest)
  BY <1>2, <1>3, ConcatAssociative
<1>7. buffer' \o line' = buffer \o line
  BY <1>1, <1>4, <1>5, <1>6
<1>8. radio'.pc = "framing"
  <2>1. radio' = [radio EXCEPT !.pc = "framing"] /\ radio = [pc |-> radio.pc, todo |-> radio.todo]
    BY <1>1 DEF TaskOK
  <2> QED
    BY <2>1
<1> QED
  BY <1>1, <1>7, <1>8, StreamSame

LEMMA ParseEmpty == ParseMsg(<<>>) = Parsed("incomplete", <<>>, NoPacket)
BY DEF ParseMsg

\* done with its next, and what comes after
LEMMA SequenceShift ==
  ASSUME NEW done, NEW left, IsSequence(done), IsSequence(left), left # <<>>
  PROVE  /\ IsSequence(Append(done, left[1])) /\ IsSequence(Tail(left)) /\ Len(Tail(left)) = Len(left) - 1
         /\ \A i \in 1 .. Len(Tail(left)) : Tail(left)[i] = left[i + 1]
         /\ done \o left = Append(done, left[1]) \o Tail(left)
<1> DEFINE rest == Tail(left)
           one == <<left[1]>>
<1>1. /\ IsSequence(rest) /\ Len(rest) = Len(left) - 1 /\ Len(left) \in Nat /\ Len(left) >= 1
      /\ \A i \in 1 .. Len(rest) : rest[i] = left[i + 1]
  BY SequenceTail
<1>2. IsSequence(one) /\ Len(one) = 1 /\ one[1] = left[1]
  BY OneOf
<1>3. IsSequence(Append(done, left[1])) /\ Append(done, left[1]) = done \o one
  BY SequenceAppend, SequenceAppended
<1>4. left = one \o rest
  <2> HIDE DEF one, rest
  <2>1. /\ IsSequence(one \o rest) /\ Len(one \o rest) = 1 + Len(rest)
        /\ \A i \in 1 .. 1 + Len(rest) : (one \o rest)[i] = IF i <= 1 THEN one[i] ELSE rest[i - 1]
    <3>1. IsSequence(one) /\ IsSequence(rest) /\ Len(one) = 1
      BY <1>1, <1>2
    <3>2. /\ IsSequence(one \o rest) /\ Len(one \o rest) = Len(one) + Len(rest)
          /\ \A i \in 1 .. Len(one) + Len(rest) :
               (one \o rest)[i] = IF i <= Len(one) THEN one[i] ELSE rest[i - Len(one)]
      BY <3>1, SequenceConcat
    <3> QED
      BY <3>1, <3>2
  <2>2. ASSUME NEW i \in 1 .. Len(left) PROVE left[i] = (one \o rest)[i]
    <3>1. CASE i = 1
      BY <1>1, <1>2, <2>1, <3>1
    <3>2. CASE i > 1
      <4>1. i - 1 \in 1 .. Len(rest) /\ i - 1 + 1 = i /\ i \in 1 .. 1 + Len(rest) /\ ~(i <= 1)
        BY <1>1, <3>2
      <4>2. (one \o rest)[i] = rest[i - 1]
        BY <2>1, <4>1
      <4>3. rest[i - 1] = left[i]
        BY <1>1, <4>1
      <4> QED
        BY <4>2, <4>3
    <3>3. i = 1 \/ i > 1
      BY <1>1
    <3> QED
      BY <3>1, <3>2, <3>3, Zenon
  <2>3. Len(left) = Len(one \o rest)
    BY <1>1, <2>1
  <2> QED
    BY <2>1, <2>2, <2>3, SequenceSame, Zenon
<1>5. (done \o one) \o rest = done \o (one \o rest)
  <2> HIDE DEF one, rest
  <2>1. IsSequence(done) /\ IsSequence(one) /\ IsSequence(rest)
    BY <1>1, <1>2
  <2> QED
    BY <2>1, SequenceAssoc
<1> QED
  BY <1>1, <1>3, <1>4, <1>5

LEMMA ChainMore ==
  ASSUME NEW done, IsSequence(done), NEW x
  PROVE  Chain(Append(done, x)) = Chain(done) \o x
<1> DEFINE T == {done[i] : i \in DOMAIN done} \cup {x}
<1>1. done \in Seq(T)
  <2>1. done \in Seq({done[i] : i \in DOMAIN done})
    BY DEF IsSequence
  <2> QED
    BY <2>1
<1>2. x \in T
  OBVIOUS
<1> HIDE DEF T
<1> QED
  BY <1>1, <1>2, ChainAppend

\* A frame is taken off.
LEMMA StreamAdvances ==
  ASSUME NEW done, NEW parts, NEW left, Streamed(done, parts, left), parts # <<>>, UNCHANGED <<setup, sent, line>>,
         buffer' \o line = Chain(Tail(parts)), radio'.pc \notin {"down", "reading"}
  PROVE  Streamed(Append(done, left[1]), Tail(parts), Tail(left))'
<1> DEFINE d == Append(done, left[1])
           p == Tail(parts)
           l == Tail(left)
<1>1. /\ IsSequence(done) /\ IsSequence(left) /\ Tells = done \o left
      /\ parts \in Seq(Seq(Octets)) /\ Len(parts) = Len(left)
      /\ \A i \in 1 .. Len(parts) : IsPart(parts[i], left[i], Frames)
  BY DEF Streamed
<1>2. /\ p \in Seq(Seq(Octets)) /\ Len(p) = Len(parts) - 1 /\ Len(parts) \in Nat
      /\ \A i \in 1 .. Len(p) : p[i] = parts[i + 1]
  BY <1>1, ChainHead
<1>3. left # <<>>
  BY <1>1, <1>2
<1>4. /\ IsSequence(d) /\ IsSequence(l) /\ Len(l) = Len(left) - 1
      /\ \A i \in 1 .. Len(l) : l[i] = left[i + 1]
      /\ done \o left = d \o l
  BY <1>1, <1>3, SequenceShift
<1>5. Frames' = Frames /\ Tells' = Tells
  BY DEF Frames, Tells
<1> HIDE DEF d, p, l
<1>6. ASSUME NEW i \in 1 .. Len(p) PROVE IsPart(p[i], l[i], Frames)
  <2>1. i + 1 \in 1 .. Len(parts) /\ i \in 1 .. Len(l)
    BY <1>1, <1>2, <1>4
  <2>2. p[i] = parts[i + 1] /\ l[i] = left[i + 1]
    BY <1>2, <1>4, <2>1
  <2> QED
    BY <1>1, <2>1, <2>2
<1>7. \A i \in 1 .. Len(p) : IsPart(p[i], l[i], Frames)'
  BY <1>5, <1>6 DEF IsPart
<1>8. buffer' \o line' = Chain(p)
  BY DEF p
<1>9. Tells' = d \o l /\ Len(p) = Len(l)
  BY <1>1, <1>2, <1>4, <1>5
<1>10. IsSequence(d)' /\ IsSequence(l)'
  BY <1>4
<1>11. Streamed(d, p, l)'
  BY <1>2, <1>7, <1>8, <1>9, <1>10 DEF Streamed
<1> QED
  BY <1>11 DEF d, p, l

-----------------------------------------------------------------------------
(* Frames are told in the order in which they are sent.                    *)

\* What was taken off is told or owed, and the rest is on its way.
Flowing == \E done, parts, left : Streamed(done, parts, left) /\ Balanced(Chain(done))

LEMMA ToldOf ==
  ASSUME setup \in DOMAIN Setups, NEW f \in DOMAIN Frames,
         Readable(Frames[f].type, Frames[f].data, Frames[f].optional)
  PROVE  Leads(Frames[f], Devices, Packet(Frames[f].type, Frames[f].data, Frames[f].optional))
<1>1. ASSUME NEW s \in DOMAIN Setups, NEW g \in DOMAIN Setups[s].frames
      PROVE  LET frame == Setups[s].frames[g]
             IN Readable(frame.type, frame.data, frame.optional) =>
                  Leads(frame, Setups[s].devices, Packet(frame.type, frame.data, frame.optional))
  BY ToldAssumption, Zenon
<1>2. f \in DOMAIN Setups[setup].frames
  BY DEF Frames
<1>3. Frames = Setups[setup].frames /\ Devices = Setups[setup].devices
  BY DEF Frames, Devices
<1> QED
  BY <1>1, <1>2, <1>3
LEMMA TellGoesOn ==
  ASSUME NEW device, NEW packet, Tell(device, packet), radio.pc = "framing"
  PROVE  radio'.pc \in {"framing", "publishing"}
<1>1. \A messages : Start(messages) => radio'.pc \in {"framing", "publishing"}
  BY DEF Start
<1> QED
  BY <1>1 DEF Tell

LEMMA QuietBalanced ==
  ASSUME Sources, UNCHANGED <<wire, readings>>, radio'.todo \in {radio.todo, <<>>}, radio.pc # "publishing",
         radio'.pc # "publishing", NEW total, Balanced(total)
  PROVE  Sources' /\ Balanced(total)'
<1>1. Bare(readings)' = Bare(readings)
  BY DEF Bare
<1>2. Balanced(total)'
  BY <1>1 DEF Balanced
<1>3. \A i \in 1 .. Len(radio'.todo) : Ordinary(radio'.todo[i])
  <2>1. CASE radio'.todo = radio.todo
    BY <2>1 DEF Sources
  <2>2. CASE radio'.todo = <<>>
    BY <2>2
  <2> QED
    BY <2>1, <2>2
<1>4. Sources'
  BY <1>3 DEF Sources, Waits, Ordinary, About
<1> QED
  BY <1>2, <1>4

LEMMA TellFlows ==
  ASSUME TaskOK, CoverInv, Sources, Waits("radio") = {}, radio.pc = "framing", UNCHANGED readings,
         NEW total, Balanced(total), NEW packet, packet.type = Radio, IsPublished(Matching(Devices, packet), packet),
         Tell(Matching(Devices, packet), packet), Says(packet).what = "run" => Says(packet).n \in Int,
         NEW f, Leads(Frames[f], Devices, packet), Frames[f].type = Radio, NEW told, told = Frames[f].told
  PROVE  Sources' /\ Balanced(total \o told)'
<1>1. LET device == Matching(Devices, packet)
          content == Content(device, packet)
          bare(values) == Bare(Publications(device, values, Order(device, packet)))
      IN IF device.cover \notin Covers \/ Says(packet).what = "nothing" THEN told = bare(content)
         ELSE \A p \in 0 .. 100 : told = bare(Placed(content, p))
  BY Zenon DEF Leads
<1> QED
  BY <1>1, TellBalanced

LEMMA PacketType ==
  ASSUME NEW type, NEW data, NEW optional
  PROVE  Packet(type, data, optional).type = Radio <=> type = Radio
BY DEF Packet

\* A frame is taken off: what it is to tell is owed from then on.
LEMMA FrameFlows ==
  ASSUME TaskOK, StreamOK, Sources, Flowing, Frame, ~trouble'
  PROVE  Sources' /\ Flowing'
<1> DEFINE P == ParseMsg(buffer)
           device == Matching(Devices, P.packet)
<1>1. PICK done, parts, left : Streamed(done, parts, left) /\ Balanced(Chain(done))
  BY DEF Flowing
<1>2. /\ parts \in Seq(Seq(Octets)) /\ Len(parts) = Len(left) /\ IsSequence(done)
      /\ \A i \in 1 .. Len(parts) : IsPart(parts[i], left[i], Frames)
      /\ buffer \o line = Chain(parts)
  BY <1>1, StreamIs
<1>3. /\ radio.pc = "framing" /\ buffer' = P.rest /\ P.status # "raises"
      /\ UNCHANGED <<setup, sent, line, readings>>
      /\ IF P.status = "ok" /\ P.packet.type = Radio /\ IsPublished(device, P.packet)
         THEN Tell(device, P.packet)
         ELSE radio' = [radio EXCEPT !.pc = Framed(P)] /\ UNCHANGED wire
  BY DEF Frame
<1>4. Waits("radio") = {}
  BY <1>3 DEF StreamOK, Waiting
<1>5. /\ buffer \in Seq(Octets) /\ line \in Seq(Octets)
      /\ Says(P.packet).what = "run" => Says(P.packet).n \in Int
  BY SaysInt DEF StreamOK, BytesOK
<1>6. radio = [pc |-> radio.pc, todo |-> radio.todo]
  BY DEF TaskOK
<1>7. IsSequence(Bare(readings)) /\ Bare(readings) = Chain(done) /\ Chain(done) \o <<>> = Chain(done)
  <2>1. IsSequence(Bare(readings)) /\ Bare(readings) = Chain(done)
    BY <1>1, <1>3, BareIs DEF Sources, Balanced
  <2> QED
    BY <2>1, SequenceEmpty
<1> HIDE DEF P
<1>8. ASSUME P = Parsed("incomplete", buffer, NoPacket), parts # <<>> => Len(buffer) < Len(parts[1])
      PROVE  Sources' /\ Flowing'
  <2>1. buffer' = buffer /\ radio' = [radio EXCEPT !.pc = "reading"] /\ UNCHANGED wire
    BY <1>3, <1>8 DEF Parsed, Framed
  <2>2. radio'.pc = "reading" /\ radio'.todo = radio.todo
    BY <1>6, <2>1
  <2>3. Streamed(done, parts, left)'
    BY <1>1, <1>3, <1>8, <2>1, StreamSame
  <2>4. Sources' /\ Balanced(Chain(done))'
    BY <1>1, <1>3, <2>1, <2>2, QuietBalanced
  <2> QED
    BY <2>3, <2>4 DEF Flowing
<1>9. CASE parts = <<>>
  <2>1. buffer = <<>>
    <3>1. Len(buffer \o line) = Len(buffer) + Len(line) /\ Len(buffer) \in Nat /\ Len(line) \in Nat
      BY <1>5, ByteConcat
    <3>2. buffer \o line = <<>>
      BY <1>2, <1>9, ChainEmpty
    <3>3. Len(buffer) = 0
      BY <3>1, <3>2
    <3> QED
      BY <1>5, <3>3, EmptySeq
  <2>2. P = Parsed("incomplete", buffer, NoPacket)
    BY <2>1, ParseEmpty DEF P
  <2> QED
    BY <1>8, <1>9, <2>2
<1>10. CASE parts # <<>>
  <2> DEFINE h == parts[1]
             rest == Chain(Tail(parts))
             told == left[1]
  <2>1. h \in Seq(Octets) /\ rest \in Seq(Octets) /\ buffer \o line = h \o rest /\ 1 \in 1 .. Len(parts)
    <3>1. h \in Seq(Octets) /\ rest \in Seq(Octets) /\ Len(parts) \in Nat /\ Chain(parts) = h \o rest
      BY <1>2, <1>10, ChainHead
    <3>2. Len(parts) # 0
      BY <1>2, <1>10, EmptySeq
    <3> QED
      BY <1>2, <3>1, <3>2
  <2>2. IsPart(h, told, Frames)
    BY <1>2, <2>1
  <2> HIDE DEF h, rest, told
  <2>3. CASE Len(buffer) < Len(h) /\ buffer = SubSeq(h, 1, Len(buffer))
    <3>1. Len(buffer) \in 0 .. Len(h) - 1
      BY <1>5, <2>1, <2>3
    <3>2. \A k \in 0 .. Len(h) - 1 : ParseMsg(SubSeq(h, 1, k)) = Parsed("incomplete", SubSeq(h, 1, k), NoPacket)
      BY <2>2 DEF IsPart, Held
    <3>3. P = Parsed("incomplete", buffer, NoPacket)
      BY <2>3, <3>1, <3>2 DEF P
    <3> QED
      BY <1>8, <2>3, <3>3 DEF h
  <2>4. ASSUME NEW more \in Seq(Octets), buffer = h \o more, more \o line = rest PROVE Sources' /\ Flowing'
    <3>1. ASSUME buffer' = more, radio'.pc \in {"framing", "publishing"}, Sources', Balanced(Chain(done) \o told)'
          PROVE  Sources' /\ Flowing'
      <4>1. Streamed(Append(done, told), Tail(parts), Tail(left))'
        BY <1>1, <1>3, <1>10, <2>4, <3>1, StreamAdvances DEF rest, told
      <4>2. Chain(Append(done, told)) = Chain(done) \o told
        BY <1>2, ChainMore
      <4>3. Balanced(Chain(Append(done, told)))'
        BY <3>1, <4>2
      <4> QED
        BY <3>1, <4>1, <4>3 DEF Flowing
    <3>2. ASSUME told = <<>>, buffer' = more, radio' = [radio EXCEPT !.pc = "framing"], UNCHANGED wire
          PROVE  Sources' /\ Flowing'
      <4>1. radio'.pc = "framing" /\ radio'.todo = radio.todo
        BY <1>6, <3>2
      <4>2. Sources' /\ Balanced(Chain(done))'
        BY <1>1, <1>3, <3>2, <4>1, QuietBalanced
      <4>3. Chain(done) \o told = Chain(done)
        BY <1>7, <3>2
      <4>4. Balanced(Chain(done) \o told)'
        BY <4>2, <4>3
      <4> QED
        BY <3>1, <3>2, <4>1, <4>2, <4>4
    <3>3. CASE told = <<>> /\ Refused(h)
      <4>1. P = Parsed("mismatch", more, NoPacket)
        BY <2>4, <3>3 DEF Refused, P
      <4>2. buffer' = more /\ radio' = [radio EXCEPT !.pc = "framing"] /\ UNCHANGED wire
        BY <1>3, <4>1 DEF Parsed, Framed
      <4> QED
        BY <3>2, <3>3, <4>2
    <3>4. ASSUME NEW f \in DOMAIN Frames, told = Frames[f].told, ReadAs(h, Frames[f]) PROVE Sources' /\ Flowing'
      <4> DEFINE frame == Frames[f]
                 packet == Packet(frame.type, frame.data, frame.optional)
                 readable == Readable(frame.type, frame.data, frame.optional)
      <4>1. P = IF ~readable THEN Parsed("raises", buffer, NoPacket) ELSE Parsed("ok", more, packet)
        BY <2>4, <3>4 DEF ReadAs, P
      <4> HIDE DEF readable, packet, frame
      <4>2. readable /\ P.status = "ok" /\ P.rest = more /\ P.packet = packet
        BY <1>3, <4>1 DEF Parsed
      <4>3. Leads(Frames[f], Devices, packet)
        BY <3>4, <4>2, ToldOf DEF TaskOK, readable, packet, frame
      <4>4. packet.type = Radio <=> Frames[f].type = Radio
        BY PacketType DEF packet, frame
      <4>5. CASE packet.type = Radio /\ IsPublished(device, packet)
        <5>1. Tell(Matching(Devices, packet), packet) /\ IsPublished(Matching(Devices, packet), packet)
          BY <1>3, <4>2, <4>5
        <5>2. Sources' /\ Balanced(Chain(done) \o told)'
          BY <1>1, <1>3, <1>4, <1>5, <3>4, <4>2, <4>3, <4>4, <4>5, <5>1, TellFlows DEF StreamOK
        <5>3. radio'.pc \in {"framing", "publishing"}
          BY <1>3, <5>1, TellGoesOn
        <5> QED
          BY <1>3, <3>1, <4>2, <5>2, <5>3
      <4>6. CASE ~(packet.type = Radio /\ IsPublished(device, packet))
        <5>1. told = <<>>
          BY <3>4, <4>2, <4>3, <4>4, <4>6 DEF Leads
        <5>2. buffer' = more /\ radio' = [radio EXCEPT !.pc = "framing"] /\ UNCHANGED wire
          BY <1>3, <4>2, <4>6 DEF Framed
        <5> QED
          BY <3>2, <5>1, <5>2
      <4> QED
        BY <4>5, <4>6
    <3> QED
      BY <2>2, <3>3, <3>4 DEF IsPart
  <2>5. \/ Len(buffer) < Len(h) /\ buffer = SubSeq(h, 1, Len(buffer))
        \/ Len(buffer) >= Len(h) /\ \E more \in Seq(Octets) : buffer = h \o more /\ more \o line = rest
    <3>1. buffer \o line = h \o rest
      BY <2>1
    <3>2. IsTaken(h, buffer, line, rest)
      BY <1>5, <2>1, <3>1, PartTaken
    <3> QED
      BY <3>2 DEF IsTaken
  <2> QED
    BY <2>3, <2>4, <2>5
<1> QED
  BY <1>9, <1>10

LEMMA TellsIs ==
  ASSUME IsSequence(sent)
  PROVE  /\ IsSequence(Tells) /\ Len(Tells) = Len(sent)
         /\ \A i \in 1 .. Len(sent) : Tells[i] = IF sent[i].intact THEN Frames[sent[i].frame].told ELSE <<>>
<1> DEFINE tells == Tells
<1>1. Len(sent) \in Nat /\ DOMAIN sent = 1 .. Len(sent)
  BY SequenceIs
<1>2. /\ tells = [k \in 1 .. Len(sent) |-> tells[k]]
      /\ \A i \in 1 .. Len(sent) : tells[i] = IF sent[i].intact THEN Frames[sent[i].frame].told ELSE <<>>
  BY <1>1 DEF Tells
<1> HIDE DEF tells
<1>3. IsSequence(tells) /\ Len(tells) = Len(sent)
  BY <1>1, <1>2, ListIs
<1> QED
  BY <1>2, <1>3 DEF tells

LEMMA TellsMore ==
  ASSUME IsSequence(sent), NEW x, sent' = Append(sent, x), UNCHANGED setup,
         NEW told, told = IF x.intact THEN Frames[x.frame].told ELSE <<>>
  PROVE  Tells' = Append(Tells, told) /\ IsSequence(sent)'
<1> DEFINE more == Append(Tells, told)
<1>1. /\ IsSequence(sent') /\ Len(sent') = Len(sent) + 1 /\ Len(sent) \in Nat
      /\ sent'[Len(sent) + 1] = x /\ \A i \in 1 .. Len(sent) : sent'[i] = sent[i]
  BY SequenceAppend, SequenceIs
<1>2. /\ IsSequence(Tells) /\ Len(Tells) = Len(sent)
      /\ \A i \in 1 .. Len(sent) : Tells[i] = IF sent[i].intact THEN Frames[sent[i].frame].told ELSE <<>>
  BY TellsIs
<1>3. /\ IsSequence(Tells') /\ Len(Tells') = Len(sent')
      /\ \A i \in 1 .. Len(sent') : Tells'[i] = IF sent'[i].intact THEN Frames'[sent'[i].frame].told ELSE <<>>
  <2>1. DOMAIN sent' = 1 .. Len(sent')
    BY <1>1, SequenceIs
  <2>2. Tells' = [k \in DOMAIN sent' |-> IF sent'[k].intact THEN Frames'[sent'[k].frame].told ELSE <<>>]
    BY DEF Tells
  <2>3. /\ Tells' = [k \in 1 .. Len(sent') |-> Tells'[k]]
        /\ \A i \in 1 .. Len(sent') : Tells'[i] = IF sent'[i].intact THEN Frames'[sent'[i].frame].told ELSE <<>>
    BY <2>1, <2>2
  <2>4. IsSequence(Tells') /\ Len(Tells') = Len(sent')
    BY <1>1, <2>3, ListIs
  <2> QED
    BY <2>3, <2>4
<1>4. Frames' = Frames
  BY DEF Frames
<1>5. /\ IsSequence(more) /\ Len(more) = Len(sent) + 1
      /\ more[Len(sent) + 1] = told /\ \A i \in 1 .. Len(sent) : more[i] = Tells[i]
  BY <1>2, SequenceAppend
<1> HIDE DEF more
<1>6. ASSUME NEW i \in 1 .. Len(Tells') PROVE Tells'[i] = more[i]
  <2>1. CASE i \in 1 .. Len(sent)
    BY <1>1, <1>2, <1>3, <1>4, <1>5, <2>1
  <2>2. CASE i = Len(sent) + 1
    <3>1. Tells'[i] = IF x.intact THEN Frames[x.frame].told ELSE <<>>
      BY <1>1, <1>3, <1>4, <2>2
    <3> QED
      BY <1>5, <2>2, <3>1
  <2>3. i \in 1 .. Len(sent) \/ i = Len(sent) + 1
    BY <1>1, <1>3
  <2> QED
    BY <2>1, <2>2, <2>3
<1>7. Tells' = more
  <2>1. Len(Tells') = Len(more)
    BY <1>1, <1>3, <1>5
  <2> QED
    BY <1>3, <1>5, <1>6, <2>1, SequenceSame
<1> QED
  BY <1>1, <1>7 DEF more

\* What a task has not to do with
LEMMA SameBalanced ==
  ASSUME Sources, UNCHANGED <<radio, wire, readings>>, NEW total, Balanced(total)
  PROVE  Sources' /\ Balanced(total)'
<1>1. Bare(readings)' = Bare(readings) /\ Waits("radio")' = Waits("radio")
  BY DEF Bare, Waits
<1>2. \A message : Owing(message)' = Owing(message)
  BY DEF Owing, Bare
<1>3. Balanced(total)'
  BY <1>1, <1>2 DEF Balanced
<1>4. Sources'
  BY DEF Sources, Waits
<1> QED
  BY <1>3, <1>4

\* A message about the position of a shutter stands for nothing that is owed.
LEMMA MqttBalanced ==
  ASSUME TaskOK, Sources, UNCHANGED <<radio, readings>>, NEW message, HandOver("mqtt", message), ~Ordinary(message),
         NEW total, Balanced(total)
  PROVE  Sources' /\ Balanced(total)'
<1>1. \A i \in 1 .. Len(radio'.todo) : Ordinary(radio'.todo[i])
  BY DEF Sources
<1>2. Sources'
  BY <1>1, HandedSources
<1>3. Waits("radio")' = Waits("radio")
  BY HandedOver DEF TaskOK
<1>4. \A i \in 1 .. Len(wire) : wire'[i] = wire[i]
  BY SequenceAppend DEF TaskOK, HandOver
<1>5. \A i \in Waits("radio") : i \in 1 .. Len(wire)
  BY DEF Waits
<1>6. \A m : Owing(m)' = Owing(m)
  BY DEF Owing, Bare
<1>7. Bare(readings)' = Bare(readings)
  BY DEF Bare
<1>8. Balanced(total)'
  BY <1>3, <1>4, <1>5, <1>6, <1>7 DEF Balanced
<1> QED
  BY <1>2, <1>8

LEMMA SendFlows ==
  ASSUME TaskOK, BytesOK, Sources, Flowing, IsSequence(sent), NEW f \in DOMAIN Frames, NEW d \in Damages,
         Send(f, d), ~trouble'
  PROVE  Sources' /\ Flowing' /\ IsSequence(sent)'
<1> DEFINE frame == Frames[f]
           built == Build(frame.type, frame.data, frame.optional)
           bytes == Damaged(built, d)
<1>1. PICK done, parts, left : Streamed(done, parts, left) /\ Balanced(Chain(done))
  BY DEF Flowing
<1>2. /\ UNCHANGED <<setup, buffer, radio, wire, readings>> /\ line' = line \o bytes /\ ~Confusing(d)
      /\ sent' = Append(sent, [frame |-> f, intact |-> d = Intact]) /\ d.at <= Len(built)
  BY DEF Send
<1>3. /\ frame.type \in Octets /\ frame.data \in Seq(Octets) /\ frame.optional \in Seq(Octets)
      /\ Len(frame.data) < 65536 /\ Len(frame.optional) < 256
  <2>1. setup \in DOMAIN Setups /\ f \in DOMAIN Setups[setup].frames /\ frame = Setups[setup].frames[f]
    BY DEF TaskOK, Frames
  <2> QED
    BY <2>1, FramesAssumption, SMTT(30) DEF Octets
<1> HIDE DEF built
<1>4. ASSUME NEW told, told = IF d = Intact THEN Frames[f].told ELSE <<>> PROVE Flowing' /\ IsSequence(sent)'
  <2>1. IsPart(Damaged(built, d), IF d = Intact THEN Frames[f].told ELSE <<>>, Frames)
    BY <1>2, <1>3, SentIsPart DEF built
  <2>2. IsPart(bytes, told, Frames)
    BY <1>4, <2>1
  <2> HIDE DEF bytes
  <2>3. Tells' = Append(Tells, told) /\ IsSequence(sent)'
    <3> DEFINE x == [frame |-> f, intact |-> d = Intact]
    <3>1. x.frame = f /\ (x.intact <=> d = Intact)
      OBVIOUS
    <3>2. sent' = Append(sent, x)
      BY <1>2
    <3> HIDE DEF x
    <3>3. told = IF x.intact THEN Frames[x.frame].told ELSE <<>>
      BY <1>4, <3>1
    <3> QED
      BY <1>2, <3>2, <3>3, TellsMore
  <2>4. \E p, l : Streamed(done, p, l)'
    BY <1>1, <1>2, <2>2, <2>3, SentStreamed
  <2>5. Balanced(Chain(done))'
    BY <1>1, <1>2, SameBalanced
  <2> QED
    BY <2>3, <2>4, <2>5 DEF Flowing
<1>5. Sources'
  BY <1>1, <1>2, SameBalanced
<1>6. Flowing' /\ IsSequence(sent)'
  BY <1>4
<1> QED
  BY <1>5, <1>6

LEMMA ReadFlows ==
  ASSUME TaskOK, BytesOK, Sources, Flowing, NEW n \in Chunks, Read(n), ~trouble'
  PROVE  Sources' /\ Flowing'
<1>1. PICK done, parts, left : Streamed(done, parts, left) /\ Balanced(Chain(done))
  BY DEF Flowing
<1>2. Streamed(done, parts, left)' /\ radio'.pc = "framing"
  BY <1>1, ReadStreamed
<1>3. UNCHANGED <<wire, readings>> /\ radio.pc = "reading" /\ (radio' = radio \/ radio' = [radio EXCEPT !.pc = "framing"])
  BY DEF Read
<1>4. radio'.todo = radio.todo
  BY <1>3 DEF TaskOK
<1>5. Sources' /\ Balanced(Chain(done))'
  BY <1>1, <1>2, <1>3, <1>4, QuietBalanced
<1> QED
  BY <1>2, <1>5 DEF Flowing

LEMMA DeliverFlows ==
  ASSUME TaskOK, Waiting, Sources, Flowing, Deliver
  PROVE  Sources' /\ Flowing'
<1>1. PICK done, parts, left : Streamed(done, parts, left) /\ Balanced(Chain(done))
  BY DEF Flowing
<1>2. Sources' /\ Balanced(Chain(done))'
  BY <1>1, DeliverBalanced
<1>3. UNCHANGED <<setup, sent, line, buffer>>
  BY DEF Deliver
<1>4. radio'.pc \in {"framing", radio.pc}
  <2>1. \/ radio' = radio \/ radio' = [radio EXCEPT !.todo = Tail(@)] \/ radio' = [radio EXCEPT !.pc = "framing"]
    <3>1. Head(wire).by \in {"radio", "mqtt", "nobody"}
      <4>1. 1 \in 1 .. Len(wire) /\ Head(wire) = wire[1]
        BY SequenceTail, SequenceIs DEF Deliver, TaskOK
      <4> QED
        BY <4>1 DEF TaskOK
    <3>2. CASE Head(wire).by = "radio" /\ radio.todo # <<>>
      BY <3>2 DEF Deliver
    <3>3. CASE Head(wire).by = "radio" /\ radio.todo = <<>>
      BY <3>3 DEF Deliver
    <3>4. CASE Head(wire).by = "mqtt"
      BY <3>4 DEF Deliver
    <3>5. CASE Head(wire).by = "nobody"
      BY <3>5 DEF Deliver
    <3> QED
      BY <3>1, <3>2, <3>3, <3>4, <3>5
  <2>2. radio = [pc |-> radio.pc, todo |-> radio.todo]
    BY DEF TaskOK
  <2> QED
    BY <2>1, <2>2
<1>5. radio.pc \in {"down", "reading"} /\ parts # <<>> => Len(buffer) < Len(parts[1])
  BY <1>1, StreamIs
<1>6. Streamed(done, parts, left)'
  BY <1>1, <1>3, <1>4, <1>5, StreamSame
<1> QED
  BY <1>2, <1>6 DEF Flowing

LEMMA MqttFlows ==
  ASSUME TaskOK, Sources, Flowing, UNCHANGED <<setup, sent, line, buffer, radio, readings>>,
         \/ UNCHANGED wire
         \/ \E message : HandOver("mqtt", message) /\ ~Ordinary(message)
  PROVE  Sources' /\ Flowing'
<1>1. PICK done, parts, left : Streamed(done, parts, left) /\ Balanced(Chain(done))
  BY DEF Flowing
<1>2. Sources' /\ Balanced(Chain(done))'
  BY <1>1, SameBalanced, MqttBalanced
<1>3. radio.pc \in {"down", "reading"} /\ parts # <<>> => Len(buffer) < Len(parts[1])
  BY <1>1, StreamIs
<1>4. Streamed(done, parts, left)'
  BY <1>1, <1>3, StreamSame
<1> QED
  BY <1>2, <1>4 DEF Flowing

LEMMA ConnectFlows ==
  ASSUME TaskOK, Sources, Flowing, Connect
  PROVE  Sources' /\ Flowing'
<1>1. PICK done, parts, left : Streamed(done, parts, left) /\ Balanced(Chain(done))
  BY DEF Flowing
<1>2. /\ UNCHANGED <<setup, sent, line, buffer, wire, readings>> /\ radio.pc = "down"
      /\ radio'.todo = <<>> /\ radio'.pc = "reading"
  BY DEF Connect, Reading
<1>3. Sources' /\ Balanced(Chain(done))'
  BY <1>1, <1>2, QuietBalanced
<1>4. radio.pc \in {"down", "reading"} /\ parts # <<>> => Len(buffer) < Len(parts[1])
  BY <1>1, StreamIs
<1>5. Streamed(done, parts, left)'
  BY <1>1, <1>2, <1>4, StreamSame
<1> QED
  BY <1>3, <1>5 DEF Flowing

-----------------------------------------------------------------------------
FlowInv == IsSequence(sent) /\ (~trouble => Sources /\ Flowing)

LEMMA FlowInit == Init => FlowInv
<1> SUFFICES ASSUME Init PROVE FlowInv
  OBVIOUS
<1>1. /\ sent = <<>> /\ line = <<>> /\ buffer = <<>> /\ wire = <<>> /\ readings = <<>>
      /\ radio.pc = "down" /\ radio.todo = <<>>
  BY DEF Init, Unlinked
<1>2. IsSequence(<<>>) /\ <<>> \o <<>> = <<>> /\ Len(<<>>) = 0
  <2>1. <<>> \in Seq({}) /\ Len(<<>>) = 0
    OBVIOUS
  <2>2. IsSequence(<<>>)
    BY <2>1, IsSeqOf
  <2> QED
    BY <2>1, <2>2, SequenceEmpty
<1>3. Tells = <<>>
  <2>1. IsSequence(Tells) /\ Len(Tells) = 0
    BY <1>1, <1>2, TellsIs
  <2> QED
    BY <2>1, SequenceIs
<1>4. <<>> \in Seq(Seq(Octets)) /\ Chain(<<>>) = <<>>
  BY ChainEmpty, EmptySeq
<1>5. Streamed(<<>>, <<>>, <<>>)
  BY <1>1, <1>2, <1>3, <1>4 DEF Streamed
<1>6. Balanced(Chain(<<>>))
  BY <1>1, <1>4, BareEmpty DEF Balanced
<1>7. Sources
  BY <1>1, <1>2 DEF Sources, Waits
<1> QED
  BY <1>1, <1>2, <1>5, <1>6, <1>7 DEF FlowInv, Flowing

LEMMA FlowStep == ToldInv /\ StreamOK /\ FlowInv /\ [Next]_vars => FlowInv'
<1> SUFFICES ASSUME ToldInv, StreamOK, FlowInv, [Next]_vars PROVE FlowInv'
  OBVIOUS
<1>0. TaskOK /\ CoverInv /\ BytesOK /\ Waiting /\ IsSequence(sent)
  BY DEF ToldInv, StreamOK, FlowInv
<1>1. ASSUME NEW f \in DOMAIN Frames, NEW d \in Damages, Send(f, d) PROVE FlowInv'
  <2>1. IsSequence(sent')
    BY <1>0, <1>1, SequenceAppend DEF Send
  <2>2. ~trouble' => ~trouble
    BY <1>1 DEF Send
  <2> QED
    BY <1>0, <1>1, <2>1, <2>2, SendFlows DEF FlowInv
<1>2. CASE ~\E f \in DOMAIN Frames, d \in Damages : Send(f, d)
  <2>1. sent' = sent
    BY <1>2 DEF Next, Read, Connect, Frame, Deliver, Online, Discover, NextCover, TellPosition, DeleteRow,
                LinkBreaks, StoreFails, TimesOut, BrokerDrop, Crash, vars
  <2>2. SUFFICES ASSUME ~trouble' PROVE Sources' /\ Flowing'
    BY <1>0, <2>1 DEF FlowInv
  <2>3. ~(LinkBreaks \/ StoreFails \/ TimesOut \/ BrokerDrop \/ Crash)
    BY <2>2 DEF LinkBreaks, StoreFails, TimesOut, BrokerDrop, Crash, Fault
  <2>4. CASE trouble' = trouble \/ ~trouble
    <3>1. Sources /\ Flowing
      BY <2>2, <2>4 DEF FlowInv
    <3>2. CASE \E n \in Chunks : Read(n)
      BY <1>0, <2>2, <3>1, <3>2, ReadFlows
    <3>3. CASE Connect
      BY <1>0, <3>1, <3>3, ConnectFlows
    <3>4. CASE Frame
      BY <1>0, <2>2, <3>1, <3>4, FrameFlows
    <3>5. CASE Deliver
      BY <1>0, <3>1, <3>5, DeliverFlows
    <3>6. CASE Online \/ Discover \/ (\E c \in Covers : DeleteRow(c)) \/ UNCHANGED vars
      <4>1. UNCHANGED <<setup, sent, line, buffer, radio, readings, wire>>
        BY <3>6 DEF Online, Discover, DeleteRow, vars
      <4> QED
        BY <1>0, <3>1, <4>1, MqttFlows
    <3>7. CASE NextCover
      <4>1. UNCHANGED <<setup, sent, line, buffer, radio, readings>> /\ mqtt.pc = "covers"
        BY <3>7 DEF NextCover
      <4>2. CASE mqtt.todo = <<>>
        <5>1. UNCHANGED wire
          BY <3>7, <4>2 DEF NextCover
        <5> QED
          BY <1>0, <3>1, <4>1, <5>1, MqttFlows
      <4>3. CASE mqtt.todo # <<>>
        <5> DEFINE message == Told(LegacyTopic(Head(mqtt.todo)), [n \in {} |-> 0])
        <5>1. HandOver("mqtt", message)
          BY <3>7, <4>3 DEF NextCover
        <5>2. Head(mqtt.todo) \in Covers
          BY <1>0, <4>3, HeadTailProperties DEF TaskOK
        <5>3. ~Ordinary(message)
          BY <5>2, PositionsNotOrdinary
        <5> HIDE DEF message
        <5> QED
          BY <1>0, <3>1, <4>1, <5>1, <5>3, MqttFlows
      <4> QED
        BY <4>2, <4>3
    <3>8. CASE TellPosition
      <4> DEFINE c == Head(mqtt.todo)
      <4>1. UNCHANGED <<setup, sent, line, buffer, radio, readings>> /\ mqtt.pc = "cleared"
        BY <3>8 DEF TellPosition
      <4>2. CASE position[c] = NoPosition
        <5>1. UNCHANGED wire
          BY <3>8, <4>2 DEF TellPosition
        <5> QED
          BY <1>0, <3>1, <4>1, <5>1, MqttFlows
      <4>3. CASE position[c] # NoPosition
        <5> DEFINE message == Position(c, position[c])
        <5>1. HandOver("mqtt", message)
          BY <3>8, <4>3 DEF TellPosition
        <5>2. c \in Covers
          BY <1>0, <4>1, HeadTailProperties DEF TaskOK
        <5>3. ~Ordinary(message)
          BY <5>2, PositionsNotOrdinary
        <5> HIDE DEF message
        <5> QED
          BY <1>0, <3>1, <4>1, <5>1, <5>3, MqttFlows
      <4> QED
        BY <4>2, <4>3
    <3> QED
      BY <1>2, <2>3, <3>2, <3>3, <3>4, <3>5, <3>6, <3>7, <3>8 DEF Next
  <2>5. trouble' = trouble \/ ~trouble
    <3>1. CASE \E n \in Chunks : Read(n)
      BY <2>2, <3>1 DEF Read
    <3>2. CASE Frame
      BY <2>2, <3>2 DEF Frame
    <3>3. CASE \/ Connect \/ Deliver \/ Online \/ Discover \/ NextCover \/ TellPosition
               \/ (\E c \in Covers : DeleteRow(c)) \/ UNCHANGED vars
      BY <3>3 DEF Connect, Deliver, Online, Discover, NextCover, TellPosition, DeleteRow, vars
    <3> QED
      BY <1>2, <2>3, <3>1, <3>2, <3>3 DEF Next
  <2> QED
    BY <2>4, <2>5
<1> QED
  BY <1>1, <1>2

LEMMA FlowSuffices == ToldInv /\ StreamOK /\ FlowInv => NothingLost
<1> SUFFICES ASSUME ToldInv, StreamOK, FlowInv, ~trouble, line = <<>>, radio.pc = "reading"
             PROVE  Actual = Expected
  BY DEF NothingLost
<1>1. PICK done, parts, left : Streamed(done, parts, left) /\ Balanced(Chain(done))
  BY DEF FlowInv, Flowing
<1>2. /\ IsSequence(done) /\ IsSequence(left) /\ Tells = done \o left
      /\ parts \in Seq(Seq(Octets)) /\ Len(parts) = Len(left)
      /\ buffer \o line = Chain(parts)
      /\ parts # <<>> => Len(buffer) < Len(parts[1])
  BY <1>1, StreamIs
<1>3. buffer \in Seq(Octets) /\ buffer \o line = buffer
  <2>1. buffer \in Seq(Octets)
    BY DEF StreamOK, BytesOK
  <2> QED
    BY <2>1, ConcatEmptySeq
<1>4. parts = <<>>
  <2> SUFFICES ASSUME parts # <<>> PROVE FALSE
    OBVIOUS
  <2> DEFINE h == parts[1]
             rest == Chain(Tail(parts))
  <2>1. h \in Seq(Octets) /\ rest \in Seq(Octets) /\ Chain(parts) = h \o rest
    BY <1>2, ChainHead
  <2>2. Len(buffer) < Len(h)
    BY <1>2
  <2> HIDE DEF h, rest
  <2>3. Len(h \o rest) = Len(h) + Len(rest) /\ Len(h) \in Nat /\ Len(rest) \in Nat
    BY <2>1, ByteConcat
  <2>4. Len(buffer) = Len(h) + Len(rest)
    BY <1>2, <1>3, <2>1, <2>3
  <2> QED
    BY <2>2, <2>3, <2>4
<1>5. left = <<>>
  <2>1. Len(parts) = 0
    BY <1>4
  <2> QED
    BY <1>2, <2>1, SequenceIs
<1>6. Tells = done
  BY <1>2, <1>5, SequenceEmpty
<1>7. Bare(readings) = Chain(done)
  BY <1>1 DEF Balanced
<1>8. Actual = Bare(readings) /\ Expected = Chain(Tells)
  BY DEF Actual, Bare, Expected, Tells
<1> QED
  BY <1>6, <1>7, <1>8

\* For any frames, any configuration, any chunks and any sending of other messages in between: as
\* long as nothing disturbs the stream, the messages of every undamaged frame (stream.py, _emit of
\* daemon.py) are told, in the order of the frames, as soon as the task waits for bytes that are
\* not there; an altered frame costs itself alone.
THEOREM NothingIsLost == Spec => []NothingLost
<1>1. Init => FlowInv
  BY FlowInit
<1>2. FlowInv /\ (ToldInv /\ StreamOK) /\ [Next]_vars => FlowInv'
  BY FlowStep
<1>3. (ToldInv /\ StreamOK) /\ FlowInv => NothingLost
  BY FlowSuffices
<1> QED
  BY <1>1, <1>2, <1>3, StreamKept, PTL DEF Spec

=============================================================================
