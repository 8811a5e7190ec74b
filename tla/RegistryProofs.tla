---------------------------- MODULE RegistryProofs ----------------------------
(***************************************************************************)
(* Theorems about Registry, for any set of devices.  Provisioning          *)
(* implements Registry (LearningImplementsRegistry), so they speak about   *)
(* its states as well.                                                     *)
(***************************************************************************)
EXTENDS Registry, TLAPS

LEMMA InitTyped == Init => TypeOK
BY DEF Init, TypeOK

LEMMA StepTyped == TypeOK /\ [Next]_vars => TypeOK'
<1> SUFFICES ASSUME TypeOK, [Next]_vars PROVE TypeOK'
  OBVIOUS
<1>1. CASE Start
  BY <1>1 DEF Start, TypeOK, Listed
<1>2. CASE Stop
  BY <1>2 DEF Stop, TypeOK
<1>3. CASE Switch
  BY <1>3 DEF Switch, TypeOK
<1>4. ASSUME NEW d \in Devices, Meet(d) \/ Write(d) \/ Fail(d) \/ Announce(d) PROVE TypeOK'
  BY <1>4 DEF Meet, Write, Fail, Announce, TypeOK
<1>5. ASSUME NEW d \in Devices, Edit(d) PROVE TypeOK'
  BY <1>5 DEF Edit, TypeOK
<1>6. CASE UNCHANGED vars
  BY <1>6 DEF vars, TypeOK
<1> QED
  BY <1>1, <1>2, <1>3, <1>4, <1>5, <1>6 DEF Next

\* Every variable of the registry keeps its type (ha_bridge.py:447-542, devices.py:178-214).
THEOREM RegistryTyped == Spec => []TypeOK
<1>1. Init => TypeOK
  BY InitTyped
<1>2. TypeOK /\ [Next]_vars => TypeOK'
  BY StepTyped
<1> QED
  BY <1>1, <1>2, PTL DEF Spec

LEMMA InitKept == Init => Kept
BY DEF Init, Kept

LEMMA StepKept == TypeOK /\ Kept /\ [Next]_vars => Kept'
<1> SUFFICES ASSUME TypeOK, Kept, [Next]_vars PROVE Kept'
  OBVIOUS
<1>1. CASE Start
  BY <1>1 DEF Start, Kept, Listed
<1>2. CASE Stop
  BY <1>2 DEF Stop, Kept, Listed
<1>3. CASE Switch
  BY <1>3 DEF Switch, Kept, Listed
<1>4. ASSUME NEW d \in Devices, Meet(d) PROVE Kept'
  BY <1>4 DEF Meet, Kept, Listed
<1>5. ASSUME NEW d \in Devices, Write(d) PROVE Kept'
  BY <1>5 DEF Write, Kept, Listed
<1>6. ASSUME NEW d \in Devices, Fail(d) PROVE Kept'
  BY <1>6 DEF Fail, Kept, Listed
<1>7. ASSUME NEW d \in Devices, Announce(d) PROVE Kept'
  BY <1>7 DEF Announce, Kept, Listed
<1>8. ASSUME NEW d \in Devices, Edit(d) PROVE Kept'
  BY <1>8 DEF Edit, Kept, Listed
<1>9. CASE UNCHANGED vars
  BY <1>9 DEF vars, Kept, Listed
<1> QED
  BY <1>1, <1>2, <1>3, <1>4, <1>5, <1>6, <1>7, <1>8, <1>9 DEF Next

\* What was announced as provisioned is in the device list, unless writing it failed or the user
\* took it out since, and the bridge adds no second entry for a device the user lists
\* (devices.py:200-204, ha_bridge.py:484-489).
THEOREM AnnouncedIsKept == Spec => []Kept
<1>1. Init => TypeOK /\ Kept
  BY InitTyped, InitKept
<1>2. TypeOK /\ Kept /\ [Next]_vars => TypeOK' /\ Kept'
  BY StepTyped, StepKept
<1> QED
  BY <1>1, <1>2, PTL DEF Spec

\* A device becomes known only while LEARN is on, or because a start finds it in the list
\* (ha_bridge.py:455-456, 498-499).
OnlyWhileLearning ==
  [][\A d \in known' \ known : (running /\ learning) \/ (~running /\ d \in Listed)]_vars

LEMMA StepLearns ==
  [Next]_vars => [\A d \in known' \ known :
                    (running /\ learning) \/ (~running /\ d \in Listed)]_vars
<1> SUFFICES ASSUME [Next]_vars, NEW d \in known' \ known
             PROVE  (running /\ learning) \/ (~running /\ d \in Listed)
  OBVIOUS
<1>1. CASE Start
  BY <1>1 DEF Start
<1>2. CASE Stop \/ Switch \/ UNCHANGED vars
  BY <1>2 DEF Stop, Switch, vars
<1>3. ASSUME NEW c \in Devices, Meet(c) PROVE running /\ learning
  BY <1>3 DEF Meet
<1>4. ASSUME NEW c \in Devices, Write(c) \/ Fail(c) \/ Announce(c) \/ Edit(c) PROVE FALSE
  BY <1>4 DEF Write, Fail, Announce, Edit
<1> QED
  BY <1>1, <1>2, <1>3, <1>4 DEF Next

\* The same as a theorem of the registry: no device is met with LEARN off.
THEOREM LearnsOnlyWhileLearning == Spec => OnlyWhileLearning
BY StepLearns, PTL DEF Spec, OnlyWhileLearning
=============================================================================
