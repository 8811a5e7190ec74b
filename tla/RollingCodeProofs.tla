-------------------------- MODULE RollingCodeProofs --------------------------
(***************************************************************************)
(* Proofs about RollingCode, for every set of devices, code width, window, *)
(* horizon and bound: type correctness, AtMostOnce, OutboundFresh and      *)
(* NextAccepted.  The inductive invariant says, for a device, what the     *)
(* code in memory, the code in the store, the telegram in work and the     *)
(* newest published telegram have to do with each other.                   *)
(***************************************************************************)
EXTENDS RollingCode, TLAPS

(* Arithmetic of codes                                                     *)

\* Quotient and remainder: how % is unfolded below.
LEMMA DivMod ==
  ASSUME NEW n \in Int
  PROVE  /\ n = Width * (n \div Width) + (n % Width)
         /\ n \div Width \in Int
         /\ n % Width \in Code
  BY ConstantsAssumption, SMT DEF Code

\* The remainder is the only number below Width that n exceeds by a multiple of Width.
LEMMA ModUnique ==
  ASSUME NEW q \in Int, NEW r \in Code, NEW n \in Int, n = Width * q + r
  PROVE  n % Width = r
  BY ConstantsAssumption, SMT DEF Code

\* The step the solver does not find among other facts
LEMMA Distribute ==
  ASSUME NEW x \in Int, NEW y \in Int
  PROVE  Width * (x + y) = Width * x + Width * y
<1> Width \in Int
  BY ConstantsAssumption
<1> QED
  BY SMT

\* _wrap_rlc yields a code, and leaves alone a number that is one.
LEMMA WrapCode ==
  /\ \A n \in Nat : Wrap(n) \in Code
  /\ \A n \in Code : Wrap(n) = n
  BY ConstantsAssumption, SMT DEF Wrap, Code

\* Two telegrams fewer than Width apart have different codes.
LEMMA WrapInjective ==
  ASSUME NEW a \in Nat, NEW b \in Nat, a < b, b - a < Width
  PROVE  Wrap(a) # Wrap(b)
<1> DEFINE qa == a \div Width  qb == b \div Width
<1>1. a = Width * qa + (a % Width) /\ qa \in Int /\ a % Width \in Code
  BY DivMod
<1>2. b = Width * qb + (b % Width) /\ qb \in Int /\ b % Width \in Code
  BY DivMod
<1> HIDE DEF qa, qb
<1>3. SUFFICES ASSUME a % Width = b % Width PROVE FALSE
  BY DEF Wrap
<1>4. Width \in Nat /\ Width > 0
  BY ConstantsAssumption
<1>5. b - a = Width * (qb - qa)
  BY <1>1, <1>2, <1>3, <1>4 DEF Code
<1>6. qb - qa >= 1
  BY <1>1, <1>2, <1>4, <1>5
<1>7. qa \in Int /\ qb \in Int
  BY <1>1, <1>2
<1>8. Width * (qb - qa) >= Width
  BY <1>4, <1>6, <1>7
<1> QED
  BY <1>4, <1>5, <1>8

\* Reducing before an addition makes no difference.
LEMMA WrapPlus ==
  ASSUME NEW a \in Nat, NEW i \in Nat
  PROVE  Wrap(Wrap(a) + i) = Wrap(a + i)
<1> DEFINE qa == a \div Width  m == (a % Width) + i  qm == m \div Width
<1>1. a = Width * qa + (a % Width) /\ qa \in Int /\ a % Width \in Code
  BY DivMod
<1>2. m \in Int
  BY <1>1, ConstantsAssumption DEF Code
<1>3. m = Width * qm + (m % Width) /\ qm \in Int /\ m % Width \in Code
  BY <1>2, DivMod
<1>4. a + i = Width * qa + m
  BY <1>1, ConstantsAssumption DEF Code
<1> HIDE DEF qa, m, qm
<1>5. /\ a + i = Width * (qa + qm) + (m % Width)
      /\ qa + qm \in Int /\ a + i \in Int
  <2> DEFINE r == m % Width  x == Width * qa  y == Width * qm
  <2>1. Width * (qa + qm) = x + y
    BY <1>1, <1>3, Distribute
  <2>2. x \in Int /\ y \in Int /\ r \in Int
    BY <1>1, <1>3, ConstantsAssumption DEF Code
  <2>3. m = y + r /\ a + i = x + m
    BY <1>3, <1>4
  <2> HIDE DEF r, x, y
  <2>4. a + i = Width * (qa + qm) + r
    BY <2>1, <2>2, <2>3
  <2> QED
    BY <1>1, <1>3, <2>4 DEF r
<1>6. (a + i) % Width = m % Width
  BY <1>3, <1>5, ModUnique
<1> QED
  BY <1>6 DEF m, Wrap

LEMMA SomeDeviceType == SomeDevice \in Device
  BY ConstantsAssumption DEF SomeDevice
-----------------------------------------------------------------------------
(* Type correctness                                                        *)

LEMMA CodeFacts ==
  /\ Code \subseteq Nat /\ 0 \in Code /\ Unset \notin Code
  /\ Window \in Nat /\ Horizon \in Nat \ {0} /\ Width \in Nat
  BY ConstantsAssumption DEF Code

LEMMA TypeInit == Init => TypeOK
  BY SomeDeviceType, CodeFacts DEF Init, TypeOK, Idle, NoJob

LEMMA TypeNext == TypeOK /\ [Next]_vars => TypeOK'
<1> SUFFICES ASSUME TypeOK, [Next]_vars
             PROVE  TypeOK'
  OBVIOUS
<1>1. ASSUME NEW d \in Device, DeviceSends(d)
      PROVE  TypeOK'
  <2>1. sent[d] \in Nat /\ air[d] \in SUBSET Nat
    BY DEF TypeOK
  <2>2. sent[d] + 1 \in Nat /\ air[d] \cup {sent[d]} \in SUBSET Nat
    BY <2>1
  <2>3. sent' \in [Device -> Nat]
    BY <1>1, <2>2 DEF DeviceSends, TypeOK
  <2>4. air' \in [Device -> SUBSET Nat]
    BY <1>1, <2>2 DEF DeviceSends, TypeOK
  <2> QED
    BY <1>1, <2>3, <2>4 DEF DeviceSends, TypeOK, history
<1>2. ASSUME NEW d \in Device, NEW n \in air[d], Fade(d, n)
      PROVE  TypeOK'
  BY <1>2 DEF Fade, TypeOK, history
<1>3. ASSUME NEW d \in Device, NEW n \in air[d], Decrypt(d, n)
      PROVE  TypeOK'
  <2>1. n \in Nat
    BY DEF TypeOK
  <2>2. n + 1 \in Nat /\ Wrap(n + 1) \in Code
    BY <2>1, WrapCode
  <2>3. /\ rlc' \in [Device -> Code]
        /\ idx' \in [Device -> Nat]
        /\ step' \in [op : {"idle", "receive", "transmit", "teach"}, dev : Device, n : Nat]
    BY <1>3, <2>1, <2>2 DEF Decrypt, TypeOK
  <2> QED
    BY <1>3, <2>3 DEF Decrypt, TypeOK
<1>4. ASSUME NEW d \in Device, WrapSecure(d)
      PROVE  TypeOK'
  <2>1. rlcSnd[d] \in Code /\ rlcSnd[d] \in Nat
    BY CodeFacts DEF TypeOK
  <2>2. Wrap(rlcSnd[d] + 1) \in Code
    BY <2>1, WrapCode
  <2>3. /\ rlcSnd' \in [Device -> Code]
        /\ step' \in [op : {"idle", "receive", "transmit", "teach"}, dev : Device, n : Nat]
        /\ rolled' \subseteq Device
    BY <1>4, <2>1, <2>2 DEF WrapSecure, TypeOK
  <2> QED
    BY <1>4, <2>3 DEF WrapSecure, TypeOK
<1>5. ASSUME NEW d \in Device, Transmit(d)
      PROVE  TypeOK'
  <2>1. queue[d] \in Seq(Nat) /\ queue[d] # <<>>
    BY <1>5 DEF Transmit, TypeOK
  <2>2. Head(queue[d]) \in Nat /\ Tail(queue[d]) \in Seq(Nat)
    BY <2>1
  <2>3. queue' \in [Device -> Seq(Nat)]
    BY <1>5, <2>2 DEF Transmit, TypeOK
  <2>4. lastTx' \in [Device -> Int]
    <3> DEFINE v == IF Head(queue[d]) > lastTx[d] THEN Head(queue[d]) ELSE lastTx[d]
    <3>1. lastTx \in [Device -> Int]
      BY DEF TypeOK
    <3>2. lastTx[d] \in Int
      BY <3>1
    <3>3. v \in Int
      BY <2>2, <3>2
    <3>4. lastTx' = [lastTx EXCEPT ![d] = v]
      BY <1>5 DEF Transmit
    <3> HIDE DEF v
    <3> QED
      BY <3>1, <3>3, <3>4
  <2>5. reused' \subseteq Device
    BY <1>5 DEF Transmit, TypeOK
  <2> QED
    BY <1>5, <2>3, <2>4, <2>5 DEF Transmit, TypeOK
<1>6. ASSUME NEW d \in Device, TransmitFails(d)
      PROVE  TypeOK'
  <2>1. queue[d] \in Seq(Nat) /\ queue[d] # <<>>
    BY <1>6 DEF TransmitFails, TypeOK
  <2>2. Tail(queue[d]) \in Seq(Nat)
    BY <2>1
  <2> QED
    BY <1>6, <2>2 DEF TransmitFails, TypeOK, history
<1>7. ASSUME NEW d \in Device, SecureTeachIn(d)
      PROVE  TypeOK'
  <2>1. sent[d] \in Nat /\ Wrap(sent[d]) \in Code
    BY WrapCode DEF TypeOK
  <2>2. /\ rlc' \in [Device -> Code]
        /\ idx' \in [Device -> Nat]
        /\ step' \in [op : {"idle", "receive", "transmit", "teach"}, dev : Device, n : Nat]
    BY <1>7, <2>1 DEF SecureTeachIn, TypeOK
  <2> QED
    BY <1>7, <2>2 DEF SecureTeachIn, TypeOK
<1>8. ASSUME NEW d \in Device, Discover(d)
      PROVE  TypeOK'
  BY <1>8 DEF Discover, TypeOK, history
<1>9. ASSUME NEW d \in Device, Delete(d)
      PROVE  TypeOK'
  BY <1>9 DEF Delete, TypeOK
<1>10. NoJob \in [op : {"none", "publish"}, dev : Device, n : Nat]
  BY SomeDeviceType DEF NoJob
<1>11. Idle \in [op : {"idle", "receive", "transmit", "teach"}, dev : Device, n : Nat]
  BY SomeDeviceType DEF Idle
<1>12. CASE Publish
  <2>1. job.dev \in Device /\ job.n \in Nat
    BY DEF TypeOK
  <2>2. /\ last' \in [Device -> Int]
        /\ replayed' \subseteq Device
    BY <1>12, <2>1 DEF Publish, TypeOK
  <2> QED
    BY <1>10, <1>12, <2>2 DEF Publish, TypeOK
<1>13. CASE PublishFails
  BY <1>10, <1>13 DEF PublishFails, TypeOK, history
<1>14. step.dev \in Device /\ step.n \in Nat
  BY DEF TypeOK
<1>15. ASSUME AfterPersist
       PROVE  /\ step' \in [op : {"idle", "receive", "transmit", "teach"}, dev : Device, n : Nat]
              /\ job' \in [op : {"none", "publish"}, dev : Device, n : Nat]
              /\ queue' \in [Device -> Seq(Nat)]
  <2>1. Append(queue[step.dev], step.n) \in Seq(Nat)
    BY <1>14 DEF TypeOK
  <2>2. queue' \in [Device -> Seq(Nat)]
    BY <1>15, <2>1 DEF AfterPersist, TypeOK
  <2>3. job' \in [op : {"none", "publish"}, dev : Device, n : Nat]
    BY <1>14, <1>15 DEF AfterPersist, TypeOK
  <2> QED
    BY <1>11, <1>15, <2>2, <2>3 DEF AfterPersist
<1>16. CASE PersistRow
  <2>1. AfterPersist
    BY <1>16 DEF PersistRow
  <2>2. /\ rowRlc' \in [Device -> Code \cup {Unset}]
        /\ rowSnd' \in [Device -> Code \cup {Unset}]
        /\ rowIdx' \in [Device -> Nat]
        /\ missed' \subseteq Device
    BY <1>14, <1>16 DEF PersistRow, TypeOK
  <2> QED
    BY <1>15, <1>16, <2>1, <2>2 DEF PersistRow, TypeOK
<1>17. CASE PersistMissed
  <2>1. AfterPersist
    BY <1>17 DEF PersistMissed
  <2>2. missed' \subseteq Device
    BY <1>14, <1>17 DEF PersistMissed, TypeOK
  <2> QED
    BY <1>15, <1>17, <2>1, <2>2 DEF PersistMissed, TypeOK
<1>18. CASE Restart
  <2>1. \A code \in Code \cup {Unset} : Loaded(code) \in Code
    BY CodeFacts DEF Loaded
  <2>2. rlc' \in [Device -> Code] /\ rlcSnd' \in [Device -> Code]
    BY <1>18, <2>1 DEF Restart, TypeOK
  <2>3. idx' \in [Device -> Nat]
    BY <1>18 DEF Restart, TypeOK
  <2>4. queue' \in [Device -> Seq(Nat)]
    BY <1>18 DEF Restart
  <2>5. /\ step' \in [op : {"idle", "receive", "transmit", "teach"}, dev : Device, n : Nat]
        /\ job' \in [op : {"none", "publish"}, dev : Device, n : Nat]
    BY <1>10, <1>11, <1>18 DEF Restart
  <2>6. /\ restarts' \in Nat /\ synced' \subseteq Device /\ lost' \subseteq Device
        /\ UNCHANGED <<mode, sent, air, rows, rowRlc, rowSnd, rowIdx, last, lastTx, rolled,
                       missed, replayed, reused>>
    BY <1>18 DEF Restart, TypeOK
  <2> QED
    BY <2>2, <2>3, <2>4, <2>5, <2>6 DEF TypeOK
<1>19. CASE UNCHANGED vars
  BY <1>19 DEF vars, TypeOK
<1> QED
  BY <1>1, <1>2, <1>3, <1>4, <1>5, <1>6, <1>7, <1>8, <1>9, <1>12, <1>13, <1>16,
     <1>17, <1>18, <1>19 DEF Next

(* Every variable keeps its type: in particular both codes stay below      *)
(* Width in memory and in the store (security.py, _wrap_rlc).              *)
THEOREM TypeCorrect == Spec => []TypeOK
  BY TypeInit, TypeNext, PTL DEF Spec
-----------------------------------------------------------------------------
(* The inductive invariant, for one device d                               *)

\* Copies still on the air are of telegrams sent, and none is older than Horizon.
AirInv(d) ==
  \A n \in air[d] : n < sent[d] /\ sent[d] - n <= Horizon

\* The codes in memory and in the row are those of the telegram numbers kept as history.
CodeInv(d) ==
  /\ rlc[d] = Wrap(idx[d]) /\ idx[d] <= sent[d]
  /\ rowRlc[d] # Unset => rowRlc[d] = Wrap(rowIdx[d])
  /\ rowIdx[d] <= sent[d]

\* What AtMostOnce excepts; once true it stays true.
Exempt(d) == d \in lost \/ (mode[d] = "explicit" /\ sent[d] >= Width)

\* The telegram number a restart would count from
StoredIdx(d) == IF rowRlc[d] = Unset THEN 0 ELSE rowIdx[d]

Receiving(d) == step.op = "receive" /\ step.dev = d
Publishing(d) == job # NoJob /\ job.dev = d

\* Memory is past every published telegram and past the one on its way to MQTT, and so
\* is the row unless the latest write of it was missed.
Fresh(d) ==
  /\ last[d] < idx[d]
  /\ Receiving(d) => last[d] < step.n /\ idx[d] = step.n + 1
  /\ Publishing(d) => last[d] < job.n /\ job.n < idx[d]
  /\ d \notin missed =>
       /\ last[d] < StoredIdx(d)
       /\ Publishing(d) => job.n < StoredIdx(d)
  /\ d \notin replayed

FreshInv(d) == ~Exempt(d) => Fresh(d)

Transmitting(d) == step.op = "transmit" /\ step.dev = d

\* The code in memory is past every code transmitted and every code that waits, which
\* wait in increasing order, and so is the row unless the latest write of it was missed.
Ascending(d) ==
  /\ lastTx[d] < rlcSnd[d]
  /\ \A i \in 1 .. Len(queue[d]) : lastTx[d] < queue[d][i] /\ queue[d][i] < rlcSnd[d]
  /\ \A i, j \in 1 .. Len(queue[d]) : i < j => queue[d][i] < queue[d][j]
  /\ Transmitting(d) =>
       /\ lastTx[d] < step.n /\ rlcSnd[d] = step.n + 1
       /\ \A i \in 1 .. Len(queue[d]) : queue[d][i] < step.n
  /\ d \notin missed =>
       /\ lastTx[d] < Loaded(rowSnd[d])
       /\ \A i \in 1 .. Len(queue[d]) : queue[d][i] < Loaded(rowSnd[d])
  /\ d \notin reused

SendInv(d) == d \notin lost \cup rolled => Ascending(d)

IInv == TypeOK /\ \A d \in Device : AirInv(d) /\ CodeInv(d) /\ FreshInv(d) /\ SendInv(d)
-----------------------------------------------------------------------------
(* Preservation                                                            *)

\* A queue without its first element
LEMMA TailFacts ==
  ASSUME NEW q \in Seq(Nat), q # <<>>
  PROVE  /\ Head(q) = q[1] /\ q[1] \in Nat /\ 1 \in 1 .. Len(q)
         /\ Tail(q) \in Seq(Nat)
         /\ \A i \in 1 .. Len(Tail(q)) : i + 1 \in 1 .. Len(q) /\ Tail(q)[i] = q[i + 1]
<1>1. Len(q) \in Nat /\ Len(q) > 0 /\ Len(Tail(q)) = Len(q) - 1
  OBVIOUS
<1>2. Head(q) = q[1] /\ q[1] \in Nat /\ Tail(q) \in Seq(Nat)
  OBVIOUS
<1>3. ASSUME NEW i \in 1 .. Len(Tail(q))
      PROVE  i + 1 \in 1 .. Len(q) /\ Tail(q)[i] = q[i + 1]
  BY <1>1
<1> QED
  BY <1>1, <1>2, <1>3

\* What TypeOK says of one device
LEMMA Typing ==
  ASSUME TypeOK, NEW d \in Device
  PROVE  /\ mode[d] \in {"implicit", "explicit"}
         /\ sent[d] \in Nat /\ air[d] \subseteq Nat
         /\ rlc[d] \in Code /\ rlc[d] \in Nat /\ rlcSnd[d] \in Code /\ rlcSnd[d] \in Nat
         /\ rowRlc[d] \in Code \cup {Unset} /\ rowSnd[d] \in Code \cup {Unset}
         /\ Loaded(rowSnd[d]) \in Nat
         /\ idx[d] \in Nat /\ rowIdx[d] \in Nat /\ StoredIdx(d) \in Nat
         /\ last[d] \in Int /\ lastTx[d] \in Int
         /\ queue[d] \in Seq(Nat)
         /\ step.dev \in Device /\ step.n \in Nat
         /\ job.dev \in Device /\ job.n \in Nat
<1>1. mode[d] \in {"implicit", "explicit"} /\ sent[d] \in Nat /\ air[d] \subseteq Nat
  BY DEF TypeOK
<1>2. rlc[d] \in Code /\ rlc[d] \in Nat /\ rlcSnd[d] \in Code /\ rlcSnd[d] \in Nat
  BY CodeFacts DEF TypeOK
<1>3. rowRlc[d] \in Code \cup {Unset} /\ rowSnd[d] \in Code \cup {Unset}
  BY DEF TypeOK
<1>4. Loaded(rowSnd[d]) \in Nat
  BY <1>3, CodeFacts DEF Loaded
<1>5. idx[d] \in Nat /\ rowIdx[d] \in Nat /\ last[d] \in Int /\ lastTx[d] \in Int
  BY DEF TypeOK
<1>6. StoredIdx(d) \in Nat
  BY <1>5 DEF StoredIdx
<1>7. queue[d] \in Seq(Nat)
  BY DEF TypeOK
<1>8. step.dev \in Device /\ step.n \in Nat /\ job.dev \in Device /\ job.n \in Nat
  BY DEF TypeOK
<1> QED
  BY <1>1, <1>2, <1>3, <1>4, <1>5, <1>6, <1>7, <1>8

\* A device that sends leaves no copy on the air that is too old.
LEMMA AirNext ==
  ASSUME TypeOK, [Next]_vars, NEW d \in Device, AirInv(d)
  PROVE  AirInv(d)'
<1>1. sent[d] \in Nat /\ air[d] \subseteq Nat
  BY Typing
<1>2. ASSUME NEW e \in Device, DeviceSends(e)
      PROVE  AirInv(d)'
  <2>1. CASE e = d
    <3>1. sent'[d] = sent[d] + 1 /\ air'[d] = air[d] \cup {sent[d]}
      BY <1>2, <2>1 DEF DeviceSends, TypeOK
    <3>2. \A n \in air[d] : sent[d] - n < Horizon
      BY <1>2, <2>1 DEF DeviceSends
    <3> QED
      BY <1>1, <3>1, <3>2, CodeFacts DEF AirInv
  <2>2. CASE e # d
    <3>1. sent'[d] = sent[d] /\ air'[d] = air[d]
      BY <1>2, <2>2 DEF DeviceSends, TypeOK
    <3> QED
      BY <3>1 DEF AirInv
  <2> QED
    BY <2>1, <2>2
<1>3. ASSUME NEW e \in Device, NEW n \in air[e], Fade(e, n)
      PROVE  AirInv(d)'
  <2>1. sent'[d] = sent[d] /\ air'[d] \subseteq air[d]
    BY <1>3 DEF Fade, TypeOK
  <2> QED
    BY <2>1 DEF AirInv
<1>4. ASSUME UNCHANGED <<sent, air>>
      PROVE  AirInv(d)'
  BY <1>4 DEF AirInv
<1> QED
  BY <1>2, <1>3, <1>4 DEF Next, vars, Decrypt, WrapSecure, Transmit, TransmitFails, SecureTeachIn,
     Discover, Delete, Publish, PublishFails, PersistRow, PersistMissed, Restart

\* Every code stays that of its telegram number, and no number runs ahead of the device.
LEMMA CodeNext ==
  ASSUME TypeOK, [Next]_vars, NEW d \in Device, AirInv(d), CodeInv(d)
  PROVE  CodeInv(d)'
<1>1. /\ sent[d] \in Nat /\ air[d] \subseteq Nat
      /\ idx[d] \in Nat /\ rowIdx[d] \in Nat
  BY Typing
<1>2. ASSUME NEW e \in Device, DeviceSends(e)
      PROVE  CodeInv(d)'
  <2>1. /\ sent'[d] = sent[d] \/ sent'[d] = sent[d] + 1
        /\ UNCHANGED <<rlc, idx, rowRlc, rowIdx>>
    BY <1>2 DEF DeviceSends, TypeOK, history
  <2> QED
    BY <1>1, <2>1 DEF CodeInv
<1>3. ASSUME NEW e \in Device, NEW n \in air[e], Decrypt(e, n)
      PROVE  CodeInv(d)'
  <2>1. UNCHANGED <<sent, rowRlc, rowIdx>>
    BY <1>3 DEF Decrypt
  <2>2. CASE e = d
    <3>1. rlc'[d] = Wrap(n + 1) /\ idx'[d] = n + 1
      BY <1>3, <2>2 DEF Decrypt, TypeOK
    <3>2. n \in Nat /\ n + 1 <= sent[d]
      BY <1>1, <2>2 DEF AirInv
    <3> QED
      BY <2>1, <3>1, <3>2 DEF CodeInv
  <2>3. CASE e # d
    <3>1. rlc'[d] = rlc[d] /\ idx'[d] = idx[d]
      BY <1>3, <2>3 DEF Decrypt, TypeOK
    <3> QED
      BY <2>1, <3>1 DEF CodeInv
  <2> QED
    BY <2>2, <2>3
<1>4. ASSUME NEW e \in Device, SecureTeachIn(e)
      PROVE  CodeInv(d)'
  <2>1. UNCHANGED <<sent, rowRlc, rowIdx>>
    BY <1>4 DEF SecureTeachIn
  <2>2. \/ rlc'[d] = Wrap(sent[d]) /\ idx'[d] = sent[d]
        \/ rlc'[d] = rlc[d] /\ idx'[d] = idx[d]
    BY <1>4 DEF SecureTeachIn, TypeOK
  <2> QED
    BY <1>1, <2>1, <2>2 DEF CodeInv
<1>5. ASSUME NEW e \in Device, Delete(e)
      PROVE  CodeInv(d)'
  <2>1. UNCHANGED <<sent, rlc, idx, rowIdx>>
    BY <1>5 DEF Delete
  <2>2. rowRlc'[d] = rowRlc[d] \/ rowRlc'[d] = Unset
    BY <1>5 DEF Delete, TypeOK
  <2> QED
    BY <2>1, <2>2 DEF CodeInv
<1>6. CASE PersistRow
  <2>1. UNCHANGED <<sent, rlc, idx>>
    BY <1>6 DEF PersistRow
  <2>2. \/ rowRlc'[d] = rowRlc[d] /\ rowIdx'[d] = rowIdx[d]
        \/ rowRlc'[d] = rlc[d] /\ rowIdx'[d] = idx[d]
    BY <1>6 DEF PersistRow, TypeOK
  <2> QED
    BY <2>1, <2>2 DEF CodeInv
<1>7. CASE Restart
  <2>1. UNCHANGED <<sent, rowRlc, rowIdx>>
    BY <1>7 DEF Restart
  <2>2. CASE rowRlc[d] = Unset
    <3>1. rlc'[d] = 0 /\ idx'[d] = 0
      BY <1>7, <2>2 DEF Restart, Loaded
    <3>2. Wrap(0) = 0
      BY WrapCode, CodeFacts
    <3> QED
      BY <1>1, <2>1, <3>1, <3>2 DEF CodeInv
  <2>3. CASE rowRlc[d] # Unset
    <3>1. rlc'[d] = rowRlc[d] /\ idx'[d] = rowIdx[d]
      BY <1>7, <2>3 DEF Restart, Loaded
    <3> QED
      BY <2>1, <2>3, <3>1 DEF CodeInv
  <2> QED
    BY <2>2, <2>3
<1>8. ASSUME UNCHANGED <<sent, rlc, idx, rowRlc, rowIdx>>
      PROVE  CodeInv(d)'
  BY <1>8 DEF CodeInv
<1> QED
  BY <1>2, <1>3, <1>4, <1>5, <1>6, <1>7, <1>8 DEF Next, vars, history, Fade, WrapSecure, Transmit,
     TransmitFails, Discover, Publish, PublishFails, PersistMissed

\* A code below the width stands for itself.
LEMMA WrapSmall ==
  ASSUME NEW n \in Nat, n < Width
  PROVE  Wrap(n) = n
<1>1. n \in Code
  BY CodeFacts DEF Code
<1> QED
  BY <1>1, WrapCode

\* A telegram that authenticates is not older than the one expected: the window is too
\* narrow to reach, across the roll-over, a copy that may still be on the air.
LEMMA NoOldAccepted ==
  ASSUME TypeOK, NEW d \in Device, NEW n \in air[d],
         AirInv(d), CodeInv(d), ~Exempt(d), Authenticates(d, n)
  PROVE  idx[d] <= n
<1>1. /\ sent[d] \in Nat /\ n \in Nat /\ idx[d] \in Nat
      /\ mode[d] \in {"implicit", "explicit"}
  BY Typing
<1>2. n < sent[d] /\ sent[d] - n <= Horizon
  BY DEF AirInv
<1>3. rlc[d] = Wrap(idx[d]) /\ idx[d] <= sent[d]
  BY DEF CodeInv
<1>4. CASE mode[d] = "explicit"
  <2>1. sent[d] < Width
    BY <1>1, <1>4, CodeFacts DEF Exempt
  <2>2. n < Width /\ idx[d] < Width
    BY <1>1, <1>2, <1>3, <2>1, CodeFacts
  <2>3. Wrap(n) = n /\ Wrap(idx[d]) = idx[d]
    BY <1>1, <2>2, WrapSmall
  <2>4. Wrap(n) >= rlc[d]
    BY <1>4 DEF Authenticates
  <2> QED
    BY <1>3, <2>3, <2>4
<1>5. CASE mode[d] = "implicit"
  <2>1. PICK i \in 0 .. Window : Wrap(rlc[d] + i) = Wrap(n)
    BY <1>5 DEF Authenticates
  <2>2. i \in Nat /\ i <= Window
    BY <2>1, CodeFacts
  <2>3. Wrap(rlc[d] + i) = Wrap(idx[d] + i)
    BY <1>1, <1>3, <2>2, WrapPlus
  <2>4. SUFFICES ASSUME n < idx[d] PROVE FALSE
    BY <1>1
  <2>5. idx[d] + i \in Nat /\ n < idx[d] + i
    BY <1>1, <2>2, <2>4
  <2>6. Window + Horizon < Width
    BY ConstantsAssumption
  <2>7. idx[d] + i - n < Width
    BY <1>1, <1>2, <1>3, <2>2, <2>6, CodeFacts
  <2>8. Wrap(n) # Wrap(idx[d] + i)
    BY <1>1, <2>5, <2>7, WrapInjective
  <2> QED
    BY <2>1, <2>3, <2>8
<1> QED
  BY <1>1, <1>4, <1>5

\* Once an exception to AtMostOnce, always one
LEMMA ExemptStays ==
  ASSUME TypeOK, [Next]_vars, NEW d \in Device, Exempt(d)
  PROVE  Exempt(d)'
<1>1. mode' = mode /\ lost \subseteq lost'
  BY DEF Next, vars, history, DeviceSends, Fade, Decrypt, WrapSecure, Transmit, TransmitFails,
     SecureTeachIn, Discover, Delete, Publish, PublishFails, PersistRow, PersistMissed, Restart
<1>2. sent'[d] = sent[d] \/ sent'[d] = sent[d] + 1
  <2>1. ASSUME NEW e \in Device, DeviceSends(e)
        PROVE  sent'[d] = sent[d] \/ sent'[d] = sent[d] + 1
    BY <2>1 DEF DeviceSends, TypeOK
  <2>2. sent' = sent \/ \E e \in Device : DeviceSends(e)
    BY DEF Next, vars, history, Fade, Decrypt, WrapSecure, Transmit, TransmitFails,
       SecureTeachIn, Discover, Delete, Publish, PublishFails, PersistRow, PersistMissed, Restart
  <2> QED
    BY <2>1, <2>2
<1>3. sent[d] \in Nat /\ Width \in Nat
  BY Typing, CodeFacts
<1> QED
  BY <1>1, <1>2, <1>3 DEF Exempt

LEMMA FreshNext ==
  ASSUME TypeOK, [Next]_vars, NEW d \in Device, AirInv(d), CodeInv(d), FreshInv(d)
  PROVE  FreshInv(d)'
<1> SUFFICES ASSUME ~Exempt(d)'
             PROVE  Fresh(d)'
  BY DEF FreshInv
<1>1. ~Exempt(d) /\ Fresh(d)
  BY ExemptStays DEF FreshInv
<1>2. /\ sent[d] \in Nat /\ idx[d] \in Nat /\ StoredIdx(d) \in Nat /\ last[d] \in Int
      /\ step.dev \in Device /\ step.n \in Nat /\ job.dev \in Device /\ job.n \in Nat
      /\ rlc[d] # Unset
  BY Typing, CodeFacts
<1>3. ASSUME UNCHANGED <<last, idx, step, job, missed, rowRlc, rowIdx, replayed>>
      PROVE  Fresh(d)'
  BY <1>1, <1>3 DEF Fresh, Receiving, Publishing, StoredIdx
<1>4. ASSUME NEW e \in Device, NEW n \in air[e], Decrypt(e, n)
      PROVE  Fresh(d)'
  <2>1. /\ UNCHANGED <<last, job, missed, rowRlc, rowIdx, replayed>>
        /\ job = NoJob /\ step' = [op |-> "receive", dev |-> e, n |-> n]
    BY <1>4 DEF Decrypt
  <2>2. CASE e = d
    <3>1. idx'[d] = n + 1
      BY <1>4, <2>2 DEF Decrypt, TypeOK
    <3>2. idx[d] <= n /\ n \in Nat
      BY <1>1, <1>4, <2>2, NoOldAccepted, Typing DEF Decrypt
    <3> QED
      BY <1>1, <1>2, <2>1, <3>1, <3>2 DEF Fresh, Receiving, Publishing, StoredIdx
  <2>3. CASE e # d
    <3>1. idx'[d] = idx[d] /\ ~Receiving(d)'
      BY <1>4, <2>1, <2>3 DEF Decrypt, TypeOK, Receiving
    <3> QED
      BY <1>1, <2>1, <3>1 DEF Fresh, Publishing, StoredIdx
  <2> QED
    BY <2>2, <2>3
<1>5. ASSUME NEW e \in Device, WrapSecure(e)
      PROVE  Fresh(d)'
  <2>1. /\ UNCHANGED <<last, idx, job, missed, rowRlc, rowIdx, replayed>>
        /\ ~Receiving(d)'
    BY <1>5 DEF WrapSecure, Receiving
  <2> QED
    BY <1>1, <2>1 DEF Fresh, Publishing, StoredIdx
<1>6. ASSUME NEW e \in Device, SecureTeachIn(e)
      PROVE  Fresh(d)'
  <2>1. /\ UNCHANGED <<last, job, missed, rowRlc, rowIdx, replayed>>
        /\ job = NoJob /\ ~Receiving(d)'
    BY <1>6 DEF SecureTeachIn, Receiving
  <2>2. idx'[d] = sent[d] \/ idx'[d] = idx[d]
    BY <1>6 DEF SecureTeachIn, TypeOK
  <2>3. last[d] < idx'[d]
    BY <1>1, <1>2, <2>2 DEF Fresh, CodeInv
  <2> QED
    BY <1>1, <2>1, <2>3 DEF Fresh, Publishing, StoredIdx
<1>7. CASE Publish
  <2>1. /\ UNCHANGED <<idx, missed, rowRlc, rowIdx>>
        /\ ~Publishing(d)' /\ ~Receiving(d)'
    BY <1>7 DEF Publish, Receiving, Publishing, Idle
  <2>2. CASE job.dev = d
    <3>1. Publishing(d)
      BY <1>7, <2>2 DEF Publish, Publishing
    <3>2. last[d] < job.n /\ job.n < idx[d] /\ (d \notin missed => job.n < StoredIdx(d))
      BY <1>1, <3>1 DEF Fresh
    <3>3. last'[d] = job.n
      BY <1>2, <1>7, <2>2, <3>2 DEF Publish, TypeOK
    <3>4. replayed' = replayed
      BY <1>2, <1>7, <2>2, <3>2 DEF Publish
    <3> QED
      BY <1>1, <2>1, <3>2, <3>3, <3>4 DEF Fresh, StoredIdx
  <2>3. CASE job.dev # d
    <3>1. last'[d] = last[d]
      BY <1>2, <1>7, <2>3 DEF Publish, TypeOK
    <3>2. d \in replayed' => d \in replayed
      BY <1>7, <2>3 DEF Publish
    <3> QED
      BY <1>1, <2>1, <3>1, <3>2 DEF Fresh, StoredIdx
  <2> QED
    BY <2>2, <2>3
<1>8. CASE PublishFails
  <2>1. /\ UNCHANGED <<last, idx, step, missed, rowRlc, rowIdx, replayed>>
        /\ ~Publishing(d)'
    BY <1>8 DEF PublishFails, Publishing, history
  <2> QED
    BY <1>1, <2>1 DEF Fresh, Receiving, StoredIdx
<1>9. ASSUME NEW e \in Device, Delete(e)
      PROVE  Fresh(d)'
  <2>1. UNCHANGED <<last, idx, step, job, rowIdx, replayed>>
    BY <1>9 DEF Delete
  <2>2. CASE e = d
    <3>1. d \in missed'
      BY <1>9, <2>2 DEF Delete
    <3> QED
      BY <1>1, <2>1, <3>1 DEF Fresh, Receiving, Publishing
  <2>3. CASE e # d
    <3>1. rowRlc'[d] = rowRlc[d] /\ (d \in missed => d \in missed')
      BY <1>9, <2>3 DEF Delete, TypeOK
    <3> QED
      BY <1>1, <2>1, <3>1 DEF Fresh, Receiving, Publishing, StoredIdx
  <2> QED
    BY <2>2, <2>3
<1>10. ASSUME AfterPersist
       PROVE  /\ ~Receiving(d)'
              /\ Publishing(d)' => /\ last[d] < job'.n /\ job'.n < idx[d]
                                   /\ step.dev = d \/ (Publishing(d) /\ job' = job)
  <2>1. ~Receiving(d)'
    BY <1>10 DEF AfterPersist, Receiving, Idle
  <2>2. CASE step.op = "receive"
    <3>1. job'.dev = step.dev /\ job'.n = step.n
      BY <1>10, <2>2 DEF AfterPersist
    <3>2. step.dev = d => last[d] < step.n /\ idx[d] = step.n + 1
      BY <1>1, <2>2 DEF Fresh, Receiving
    <3> QED
      BY <1>2, <2>1, <3>1, <3>2 DEF Publishing
  <2>3. CASE step.op # "receive"
    <3>1. job' = job
      BY <1>10, <2>3 DEF AfterPersist
    <3> QED
      BY <1>1, <2>1, <3>1 DEF Publishing, Fresh
  <2> QED
    BY <2>2, <2>3
<1>11. CASE PersistRow
  <2>1. AfterPersist /\ UNCHANGED <<last, idx, replayed>>
    BY <1>11 DEF PersistRow
  <2>2. CASE step.dev = d
    <3>1. rowRlc'[d] = rlc[d] /\ rowIdx'[d] = idx[d]
      BY <1>11, <2>2 DEF PersistRow, TypeOK
    <3>2. StoredIdx(d)' = idx[d]
      BY <1>2, <3>1 DEF StoredIdx
    <3> QED
      BY <1>1, <1>10, <2>1, <3>2 DEF Fresh
  <2>3. CASE step.dev # d
    <3>1. rowRlc'[d] = rowRlc[d] /\ rowIdx'[d] = rowIdx[d] /\ (d \in missed => d \in missed')
      BY <1>2, <1>11, <2>3 DEF PersistRow, TypeOK
    <3> QED
      BY <1>1, <1>10, <2>1, <2>3, <3>1 DEF Fresh, StoredIdx
  <2> QED
    BY <2>2, <2>3
<1>12. CASE PersistMissed
  <2>1. AfterPersist /\ UNCHANGED <<last, idx, rowRlc, rowIdx, replayed>>
    BY <1>12 DEF PersistMissed
  <2>2. step.dev = d => d \in missed'
    BY <1>12 DEF PersistMissed
  <2>3. d \in missed => d \in missed'
    BY <1>12 DEF PersistMissed
  <2> QED
    BY <1>1, <1>10, <2>1, <2>2, <2>3 DEF Fresh, StoredIdx
<1>13. CASE Restart
  <2>1. /\ UNCHANGED <<last, rowRlc, rowIdx, missed, replayed>>
        /\ ~Receiving(d)' /\ ~Publishing(d)'
    BY <1>13 DEF Restart, Receiving, Publishing, Idle
  <2>2. d \notin missed
    BY <1>13 DEF Restart, Exempt
  <2>3. idx'[d] = StoredIdx(d)
    BY <1>13 DEF Restart, StoredIdx
  <2> QED
    BY <1>1, <2>1, <2>2, <2>3 DEF Fresh, StoredIdx
<1> QED
  BY <1>3, <1>4, <1>5, <1>6, <1>7, <1>8, <1>9, <1>11, <1>12, <1>13
  DEF Next, vars, history, DeviceSends, Fade, Transmit, TransmitFails, Discover

LEMMA SendNext ==
  ASSUME TypeOK, [Next]_vars, NEW d \in Device, SendInv(d)
  PROVE  SendInv(d)'
<1> SUFFICES ASSUME d \notin lost', d \notin rolled'
             PROVE  Ascending(d)'
  BY DEF SendInv
<1>1. lost \subseteq lost' /\ rolled \subseteq rolled'
  BY DEF Next, vars, history, DeviceSends, Fade, Decrypt, WrapSecure, Transmit, TransmitFails,
     SecureTeachIn, Discover, Delete, Publish, PublishFails, PersistRow, PersistMissed, Restart
<1>2. Ascending(d)
  BY <1>1 DEF SendInv
<1>3. /\ rlcSnd[d] \in Nat /\ rlcSnd[d] \in Code /\ Loaded(rowSnd[d]) \in Nat
      /\ lastTx[d] \in Int /\ queue[d] \in Seq(Nat)
      /\ step.dev \in Device /\ step.n \in Nat
  BY Typing
<1>4. ASSUME UNCHANGED <<rlcSnd, queue, lastTx, missed, rowSnd, reused>>,
             Transmitting(d)' => Transmitting(d) /\ step' = step
      PROVE  Ascending(d)'
  BY <1>2, <1>4 DEF Ascending
<1>5. ASSUME NEW e \in Device, NEW n \in air[e], Decrypt(e, n)
      PROVE  Ascending(d)'
  BY <1>4, <1>5 DEF Decrypt, Transmitting
<1>6. ASSUME NEW e \in Device, SecureTeachIn(e)
      PROVE  Ascending(d)'
  BY <1>4, <1>6 DEF SecureTeachIn, Transmitting
<1>7. ASSUME NEW e \in Device, WrapSecure(e)
      PROVE  Ascending(d)'
  <2>1. /\ UNCHANGED <<queue, lastTx, missed, rowSnd, reused>>
        /\ step' = [op |-> "transmit", dev |-> e, n |-> rlcSnd[e]]
    BY <1>7 DEF WrapSecure
  <2>2. CASE e = d
    <3>1. rlcSnd[d] # Width - 1
      BY <1>7, <2>2 DEF WrapSecure
    <3>2. rlcSnd[d] + 1 \in Nat /\ rlcSnd[d] + 1 < Width
      BY <1>3, <3>1, CodeFacts DEF Code
    <3>3. rlcSnd'[d] = rlcSnd[d] + 1
      BY <1>7, <2>2, <3>2, WrapSmall DEF WrapSecure, TypeOK
    <3>4. \A i \in 1 .. Len(queue[d]) : queue[d][i] \in Nat
      BY <1>3
    <3> QED
      BY SMTT(30), <1>2, <1>3, <2>1, <2>2, <3>3, <3>4 DEF Ascending, Transmitting
  <2>3. CASE e # d
    <3>1. rlcSnd'[d] = rlcSnd[d] /\ ~Transmitting(d)'
      BY <1>7, <2>1, <2>3 DEF WrapSecure, TypeOK, Transmitting
    <3> QED
      BY <1>2, <2>1, <3>1 DEF Ascending
  <2> QED
    BY <2>2, <2>3
<1>8. ASSUME NEW e \in Device, queue[e] # <<>>, queue' = [queue EXCEPT ![e] = Tail(@)], e = d
      PROVE  /\ \A i \in 1 .. Len(queue'[d]) :
                  i + 1 \in 1 .. Len(queue[d]) /\ queue'[d][i] = queue[d][i + 1]
             /\ \A i \in 1 .. Len(queue'[d]) : i \in Nat
  <2>1. queue'[d] = Tail(queue[d])
    BY <1>8 DEF TypeOK
  <2>2. \A i \in 1 .. Len(Tail(queue[d])) :
          i \in Nat /\ i + 1 \in 1 .. Len(queue[d]) /\ Tail(queue[d])[i] = queue[d][i + 1]
    BY <1>3, <1>8, TailFacts
  <2> QED
    BY <2>1, <2>2
<1>9. ASSUME NEW e \in Device, Transmit(e)
      PROVE  Ascending(d)'
  <2>1. /\ UNCHANGED <<rlcSnd, missed, rowSnd>> /\ ~Transmitting(d)'
        /\ queue[e] # <<>> /\ queue' = [queue EXCEPT ![e] = Tail(@)]
    BY <1>9 DEF Transmit, Transmitting, Idle
  <2>2. CASE e = d
    <3>1. Head(queue[d]) = queue[d][1] /\ 1 \in 1 .. Len(queue[d]) /\ queue[d][1] \in Nat
      BY <1>3, <2>1, <2>2
    <3>2. lastTx[d] < queue[d][1]
      BY <1>2, <3>1 DEF Ascending
    <3>3. lastTx'[d] = queue[d][1]
      BY <1>3, <1>9, <2>2, <3>1, <3>2 DEF Transmit, TypeOK
    <3>4. reused' = reused
      BY <1>3, <1>9, <2>2, <3>1, <3>2 DEF Transmit
    <3>6. \A i \in 1 .. Len(queue'[d]) : i + 1 \in 1 .. Len(queue[d]) /\ queue'[d][i] = queue[d][i + 1]
      BY <1>8, <2>1, <2>2
    <3>7. \A i \in 1 .. Len(queue'[d]) : queue[d][1] < queue[d][i + 1]
      BY <1>2, <3>1, <3>6 DEF Ascending
    <3> QED
      BY <1>2, <2>1, <3>1, <3>3, <3>4, <3>6, <3>7 DEF Ascending
  <2>3. CASE e # d
    <3>1. lastTx'[d] = lastTx[d] /\ queue'[d] = queue[d] /\ (d \in reused' => d \in reused)
      BY <1>9, <2>3 DEF Transmit, TypeOK
    <3> QED
      BY <1>2, <2>1, <3>1 DEF Ascending
  <2> QED
    BY <2>2, <2>3
<1>10. ASSUME NEW e \in Device, TransmitFails(e)
       PROVE  Ascending(d)'
  <2>1. /\ UNCHANGED <<rlcSnd, lastTx, missed, rowSnd, reused>> /\ ~Transmitting(d)'
        /\ queue[e] # <<>> /\ queue' = [queue EXCEPT ![e] = Tail(@)]
    BY <1>10 DEF TransmitFails, Transmitting, Idle, history
  <2>2. CASE e = d
    <3>1. /\ \A i \in 1 .. Len(queue'[d]) :
               i + 1 \in 1 .. Len(queue[d]) /\ queue'[d][i] = queue[d][i + 1]
          /\ \A i \in 1 .. Len(queue'[d]) : i \in Nat
      BY <1>8, <2>1, <2>2
    <3>2. \A i \in 1 .. Len(queue'[d]) : lastTx[d] < queue'[d][i] /\ queue'[d][i] < rlcSnd[d]
      BY <1>2, <3>1 DEF Ascending
    <3>3. ASSUME NEW i \in 1 .. Len(queue'[d]), NEW j \in 1 .. Len(queue'[d]), i < j
          PROVE  queue'[d][i] < queue'[d][j]
      <4>1. i + 1 < j + 1
        BY <3>1, <3>3
      <4> QED
        BY <1>2, <3>1, <4>1 DEF Ascending
    <3>4. d \notin missed => \A i \in 1 .. Len(queue'[d]) : queue'[d][i] < Loaded(rowSnd[d])
      BY <1>2, <3>1 DEF Ascending
    <3>5. Loaded(rowSnd[d])' = Loaded(rowSnd[d])
      BY <2>1 DEF Loaded
    <3> QED
      BY <1>2, <2>1, <3>2, <3>3, <3>4, <3>5 DEF Ascending
  <2>3. CASE e # d
    <3>1. queue'[d] = queue[d]
      BY <2>1, <2>3 DEF TypeOK
    <3> QED
      BY <1>2, <2>1, <3>1 DEF Ascending
  <2> QED
    BY <2>2, <2>3
<1>11. ASSUME NEW e \in Device, Delete(e)
       PROVE  Ascending(d)'
  <2>1. /\ UNCHANGED <<rlcSnd, queue, step, lastTx, reused>> /\ ~Transmitting(d)'
        /\ d \in missed' \/ (d \notin missed /\ rowSnd'[d] = rowSnd[d])
    BY <1>11 DEF Delete, Transmitting, Idle, TypeOK
  <2> QED
    BY <1>2, <2>1 DEF Ascending
<1>12. ASSUME AfterPersist
       PROVE  /\ ~Transmitting(d)'
              /\ queue'[d] \in Seq(Nat)
              /\ \A i \in 1 .. Len(queue'[d]) :
                   lastTx[d] < queue'[d][i] /\ queue'[d][i] < rlcSnd[d]
              /\ \A i, j \in 1 .. Len(queue'[d]) : i < j => queue'[d][i] < queue'[d][j]
              /\ step.dev # d => queue'[d] = queue[d]
  <2>1. ~Transmitting(d)'
    BY <1>12 DEF AfterPersist, Transmitting, Idle
  <2>2. CASE Transmitting(d)
    <3>1. queue'[d] = Append(queue[d], step.n)
      BY <1>12, <2>2 DEF AfterPersist, TypeOK, Transmitting
    <3>2. /\ queue'[d] \in Seq(Nat) /\ Len(queue'[d]) = Len(queue[d]) + 1
          /\ Len(queue[d]) \in Nat
          /\ \A i \in 1 .. Len(queue[d]) : queue'[d][i] = queue[d][i]
          /\ queue'[d][Len(queue[d]) + 1] = step.n
      BY <1>3, <3>1
    <3>3. /\ lastTx[d] < step.n /\ rlcSnd[d] = step.n + 1
          /\ \A i \in 1 .. Len(queue[d]) : queue[d][i] < step.n
      BY <1>2, <2>2 DEF Ascending
    <3>4. \A i \in 1 .. Len(queue'[d]) : i \in 1 .. Len(queue[d]) \/ i = Len(queue[d]) + 1
      BY <3>2
    <3>5. ASSUME NEW i \in 1 .. Len(queue'[d])
          PROVE  lastTx[d] < queue'[d][i] /\ queue'[d][i] < rlcSnd[d]
      <4>1. CASE i \in 1 .. Len(queue[d])
        BY <1>2, <3>2, <4>1 DEF Ascending
      <4>2. CASE i = Len(queue[d]) + 1
        BY <1>3, <3>2, <3>3, <4>2
      <4> QED
        BY <3>4, <4>1, <4>2
    <3>6. ASSUME NEW i \in 1 .. Len(queue'[d]), NEW j \in 1 .. Len(queue'[d]), i < j
          PROVE  queue'[d][i] < queue'[d][j]
      <4>1. i \in 1 .. Len(queue[d])
        BY <3>2, <3>6
      <4> QED
        BY <1>2, <3>2, <3>3, <3>4, <3>6, <4>1 DEF Ascending
    <3> QED
      BY <2>1, <2>2, <3>2, <3>5, <3>6 DEF Transmitting
  <2>3. CASE ~Transmitting(d)
    <3>1. queue'[d] = queue[d]
      BY <1>12, <2>3 DEF AfterPersist, TypeOK, Transmitting
    <3> QED
      BY <1>2, <1>3, <2>1, <3>1 DEF Ascending
  <2> QED
    BY <2>2, <2>3
<1>13. CASE PersistRow
  <2>1. AfterPersist /\ UNCHANGED <<rlcSnd, lastTx, reused>>
    BY <1>13 DEF PersistRow
  <2>2. CASE step.dev = d
    <3>1. rowSnd'[d] = rlcSnd[d]
      BY <1>13, <2>2 DEF PersistRow, TypeOK
    <3>2. Loaded(rowSnd[d])' = rlcSnd[d]
      BY <1>3, <3>1, CodeFacts DEF Loaded
    <3> QED
      BY <1>2, <1>12, <2>1, <3>2 DEF Ascending
  <2>3. CASE step.dev # d
    <3>1. rowSnd'[d] = rowSnd[d] /\ (d \in missed => d \in missed')
      BY <1>13, <2>3 DEF PersistRow, TypeOK
    <3> QED
      BY <1>2, <1>12, <2>1, <2>3, <3>1 DEF Ascending
  <2> QED
    BY <2>2, <2>3
<1>14. CASE PersistMissed
  <2>1. AfterPersist /\ UNCHANGED <<rlcSnd, lastTx, rowSnd, reused>>
    BY <1>14 DEF PersistMissed
  <2>2. /\ step.dev = d => d \in missed'
        /\ d \in missed => d \in missed'
    BY <1>14 DEF PersistMissed
  <2> QED
    BY <1>2, <1>12, <2>1, <2>2 DEF Ascending
<1>15. CASE Restart
  <2>1. /\ UNCHANGED <<lastTx, rowSnd, missed, reused>>
        /\ ~Transmitting(d)'
    BY <1>15 DEF Restart, Transmitting, Idle
  <2>2. d \notin missed
    BY <1>15 DEF Restart
  <2>3. rlcSnd'[d] = Loaded(rowSnd[d]) /\ queue'[d] = <<>>
    BY <1>15 DEF Restart
  <2> QED
    BY <1>2, <2>1, <2>2, <2>3 DEF Ascending
<1> QED
  BY <1>4, <1>5, <1>6, <1>7, <1>9, <1>10, <1>11, <1>13, <1>14, <1>15
  DEF Next, vars, history, DeviceSends, Fade, Publish, PublishFails, Discover, Transmitting
-----------------------------------------------------------------------------
(* The theorems                                                            *)

LEMMA InvInit == Init => IInv
<1> SUFFICES ASSUME Init
             PROVE  IInv
  OBVIOUS
<1>1. TypeOK
  BY TypeInit
<1>2. ASSUME NEW d \in Device
      PROVE  AirInv(d) /\ CodeInv(d) /\ FreshInv(d) /\ SendInv(d)
  <2>1. /\ air[d] = {} /\ sent[d] = 0 /\ rlc[d] = 0 /\ idx[d] = 0 /\ rowIdx[d] = 0
        /\ rowRlc[d] = Unset /\ rowSnd[d] = Unset /\ last[d] = -1
    BY DEF Init
  <2>2. /\ lastTx[d] = -1 /\ rlcSnd[d] = 0 /\ queue[d] = <<>>
        /\ replayed = {} /\ reused = {} /\ step = Idle /\ job = NoJob
    BY DEF Init
  <2>3. Wrap(0) = 0
    BY WrapCode, CodeFacts
  <2>4. ~Receiving(d) /\ ~Publishing(d) /\ ~Transmitting(d)
    BY <2>2 DEF Receiving, Publishing, Transmitting, Idle
  <2>5. AirInv(d) /\ CodeInv(d)
    BY <2>1, <2>3 DEF AirInv, CodeInv
  <2>6. FreshInv(d)
    BY <2>1, <2>2, <2>4 DEF FreshInv, Fresh, StoredIdx
  <2>7. SendInv(d)
    BY <2>1, <2>2, <2>4 DEF SendInv, Ascending, Loaded
  <2> QED
    BY <2>5, <2>6, <2>7
<1> QED
  BY <1>1, <1>2 DEF IInv

LEMMA InvNext == IInv /\ [Next]_vars => IInv'
  BY TypeNext, AirNext, CodeNext, FreshNext, SendNext DEF IInv

\* An invariant of its own: memory, store, telegram in work and history agree.
THEOREM Consistent == Spec => []IInv
  BY InvInit, InvNext, PTL DEF Spec

(* No telegram of a secure device is published twice or out of order, for  *)
(* every width, window and horizon with Window + Horizon < Width.          *)
THEOREM NoReplay == Spec => []AtMostOnce
<1>1. IInv => AtMostOnce
  BY DEF IInv, AtMostOnce, FreshInv, Fresh, Exempt
<1> QED
  BY <1>1, Consistent, PTL

(* No outbound code is transmitted twice or out of order.                  *)
THEOREM NoReuse == Spec => []OutboundFresh
<1>1. IInv => OutboundFresh
  BY DEF IInv, OutboundFresh, SendInv, Ascending
<1> QED
  BY <1>1, Consistent, PTL

(* The device's next telegram authenticates as long as it is within the    *)
(* window: the daemon and the device never lose each other by themselves.  *)
THEOREM NoLockout == Spec => []NextAccepted
<1>1. ASSUME IInv, NEW d \in Device,
             ~(mode[d] = "implicit" /\ (d \in lost \/ sent[d] - last[d] - 1 > Window)),
             ~(mode[d] = "explicit" /\ sent[d] >= Width)
      PROVE  Authenticates(d, sent[d])
  <2>1. /\ TypeOK /\ mode[d] \in {"implicit", "explicit"}
        /\ sent[d] \in Nat /\ idx[d] \in Nat /\ last[d] \in Int
    BY <1>1, Typing DEF IInv
  <2>2. rlc[d] = Wrap(idx[d]) /\ idx[d] <= sent[d]
    BY <1>1 DEF IInv, CodeInv
  <2>3. CASE mode[d] = "explicit"
    <3>1. sent[d] < Width /\ idx[d] < Width
      BY <1>1, <2>1, <2>2, <2>3, CodeFacts
    <3>2. Wrap(sent[d]) = sent[d] /\ rlc[d] = idx[d]
      BY <2>1, <2>2, <3>1, WrapSmall
    <3> QED
      BY <2>2, <2>3, <3>2 DEF Authenticates
  <2>4. CASE mode[d] = "implicit"
    <3>1. last[d] < idx[d]
      BY <1>1, <2>4 DEF IInv, FreshInv, Fresh, Exempt
    <3>2. sent[d] - last[d] - 1 <= Window
      BY <1>1, <2>1, <2>4, CodeFacts
    <3>3. sent[d] - idx[d] \in 0 .. Window
      BY <2>1, <2>2, <3>1, <3>2, CodeFacts
    <3>4. Wrap(rlc[d] + (sent[d] - idx[d])) = Wrap(sent[d])
      <4>1. sent[d] - idx[d] \in Nat
        BY <2>1, <2>2
      <4>2. Wrap(Wrap(idx[d]) + (sent[d] - idx[d])) = Wrap(idx[d] + (sent[d] - idx[d]))
        BY <2>1, <4>1, WrapPlus
      <4>3. idx[d] + (sent[d] - idx[d]) = sent[d]
        BY <2>1
      <4> QED
        BY <2>2, <4>2, <4>3
    <3> QED
      BY <2>4, <3>3, <3>4 DEF Authenticates
  <2> QED
    BY <2>1, <2>3, <2>4
<1>2. IInv => NextAccepted
  BY <1>1 DEF NextAccepted
<1> QED
  BY <1>2, Consistent, PTL
=============================================================================
