---------------------------- MODULE InboundProofs ----------------------------
(***************************************************************************)
(* Proofs about Inbound, for every list of devices and every set of        *)
(* messages and telegrams.  The send lock belongs to a task that sends,    *)
(* whatever raises, is cancelled or is cut off; and what goes out is a     *)
(* telegram that a receiver can read, from the device's own sender or the  *)
(* Base ID, but where default bytes or an answer overrun the sender.       *)
(***************************************************************************)
EXTENDS Inbound, ChainProofs, FiniteSetTheorems, TLAPS

Sending(task) == task.pc \in {"waiting", "written"}

\* LockInUse with the two tasks spelled out, and that a task always has a place.
LockInv ==
  /\ "pc" \in DOMAIN mqtt /\ "pc" \in DOMAIN radio
  /\ lock \in {"mqtt", "radio", "free"}
  /\ lock = "free" => ~Sending(mqtt) /\ ~Sending(radio)
  /\ lock = "mqtt" => Sending(mqtt)
  /\ lock = "radio" => Sending(radio)
  /\ mqtt.pc = "written" => lock = "mqtt"
  /\ radio.pc = "written" => lock = "radio"

LEMMA LockInvSuffices == LockInv => LockInUse
  BY DEF LockInv, LockInUse, Sending, Tasks

LEMMA IdleTask == "pc" \in DOMAIN Idle /\ Idle.pc = "idle"
  BY DEF Idle

LEMMA LockInit == Init => LockInv
  BY IdleTask DEF Init, LockInv, Sending

LEMMA LockKept == LockInv /\ UNCHANGED <<lock, mqtt, radio>> => LockInv'
  BY DEF LockInv, Sending

\* The end of the process frees the lock with both tasks idle.
LEMMA EndLock ==
  ASSUME NEW cause, End(cause)
  PROVE  LockInv'
  BY IdleTask DEF End, LockInv, Sending

\* A request to send ends the process, leaves the lock alone, or queues for it.
LEMMA SendMessageLock ==
  ASSUME LockInv, mqtt.pc = "idle",
         NEW d, NEW clear, NEW s, NEW user, NEW asks, SendMessage(d, clear, s, user, asks)
  PROVE  LockInv'
  <1>1. \/ UNCHANGED <<lock, mqtt, radio>>
        \/ End("malformed") \/ End("unlinked")
        \/ /\ lock' = (IF lock = "free" THEN "mqtt" ELSE lock) /\ radio' = radio
           /\ mqtt'.pc = "waiting" /\ "pc" \in DOMAIN mqtt'
    <2>1. CASE CommandMissing(d, s)
      BY <2>1 DEF SendMessage
    <2>2. CASE ~CommandMissing(d, s)
      <3> PICK out : \/ UNCHANGED <<lock, mqtt, radio>>
                     \/ End("malformed") \/ End("unlinked")
                     \/ /\ lock' = (IF lock = "free" THEN "mqtt" ELSE lock) /\ radio' = radio
                        /\ mqtt' = [pc |-> "waiting", dev |-> d, data |-> out.data,
                                    clear |-> clear, raw |-> s.raw, learnt |-> Absent,
                                    asked |-> asks, wanted |-> user]
        BY <2>2 DEF SendMessage
      <3> QED
        OBVIOUS
    <2> QED
      BY <2>1, <2>2
  <1>2. CASE UNCHANGED <<lock, mqtt, radio>>
    BY <1>2, LockKept
  <1>3. CASE End("malformed") \/ End("unlinked")
    BY <1>3, EndLock
  <1>4. CASE /\ lock' = (IF lock = "free" THEN "mqtt" ELSE lock) /\ radio' = radio
             /\ mqtt'.pc = "waiting" /\ "pc" \in DOMAIN mqtt'
    BY <1>4 DEF LockInv, Sending
  <1> QED
    BY <1>1, <1>2, <1>3, <1>4

\* The transceiver task gives up its lock to the MQTT task when that waits.
LEMMA LinkDownLock ==
  ASSUME LockInv, LinkDown
  PROVE  LockInv'
  BY IdleTask DEF LinkDown, Release, LockInv, Sending

LEMMA MessageLock ==
  ASSUME LockInv, Message
  PROVE  LockInv'
  <1>1. CASE \E m \in Singles : Single(m[1], m[2], m[3])
    <2>1. UNCHANGED <<lock, mqtt, radio>>
      BY <1>1 DEF Single
    <2> QED
      BY <2>1, LockKept
  <1>2. CASE \E m \in RawTopics : RawTopic(m[1], m[2])
    BY <1>2, LockKept DEF RawTopic
  <1>3. CASE \E m \in Sends : SendTopic(m[1], m[2])
    BY <1>3, SendMessageLock DEF SendTopic
  <1>4. CASE \E m \in Bulks : Bulk(m)
    <2> PICK m \in Bulks : Bulk(m)
      BY <1>4
    <2>1. mqtt.pc = "idle"
      BY DEF Bulk
    <2>2. \/ End("malformed")
          \/ \E d, clear, s, user, asks : SendMessage(d, clear, s, user, asks)
          \/ UNCHANGED <<lock, mqtt, radio>>
      BY DEF Bulk
    <2> QED
      BY <2>1, <2>2, EndLock, SendMessageLock, LockKept
  <1> QED
    BY <1>1, <1>2, <1>3, <1>4 DEF Message

LEMMA MqttProceedsLock ==
  ASSUME LockInv, MqttProceeds
  PROVE  LockInv'
  <1>1. CASE MqttWrite
    <2>1. CASE End("unlinked") \/ End("malformed")
      BY <2>1, EndLock
    <2>2. CASE mqtt' = [mqtt EXCEPT !.pc = "written"] /\ UNCHANGED <<lock, radio>>
      BY <1>1, <2>2 DEF MqttWrite, LockInv, Sending
    <2> QED
      BY <1>1, <2>1, <2>2 DEF MqttWrite
  <1>2. CASE MqttSent
    <2>1. mqtt.pc = "written" /\ mqtt' = Idle /\ Release("mqtt", radio) /\ radio' = radio
      BY <1>2 DEF MqttSent
    <2> QED
      BY <2>1, IdleTask DEF Release, LockInv, Sending
  <1> QED
    BY <1>1, <1>2 DEF MqttProceeds

\* A reply is dropped, closes the connection, or queues for the lock.
LEMMA ReplyWithLock ==
  ASSUME LockInv, radio.pc = "publishing", NEW d, NEW out, ReplyWith(d, out)
  PROVE  LockInv'
  <1>1. CASE ~MaySend(d) \/ out.result = "dropped"
    BY <1>1, LinkDownLock, IdleTask DEF ReplyWith, LockInv, Sending
  <1>2. CASE LinkDown
    BY <1>2, LinkDownLock
  <1>3. CASE /\ radio' = [radio EXCEPT !.pc = "waiting", !.data = out.data, !.raw = scratch[d].raw,
                                       !.asked = askedLearn[d], !.wanted = wanted[d]]
             /\ lock' = (IF lock = "free" THEN "radio" ELSE lock) /\ mqtt' = mqtt
    <2>1. "pc" \in DOMAIN radio' /\ radio'.pc = "waiting"
      BY <1>3 DEF LockInv
    <2> QED
      BY <1>3, <2>1 DEF LockInv, Sending
  <1> QED
    BY <1>1, <1>2, <1>3 DEF ReplyWith

LEMMA RadioProceedsLock ==
  ASSUME LockInv, RadioProceeds
  PROVE  LockInv'
  <1>1. CASE Reply
    <2> PICK d, out : radio.pc = "publishing" /\ ReplyWith(d, out)
      BY <1>1 DEF Reply
    <2> QED
      BY ReplyWithLock
  <1>2. CASE RadioWrite
    <2>1. CASE LinkDown
      BY <2>1, LinkDownLock
    <2>2. CASE radio' = [radio EXCEPT !.pc = "written"] /\ UNCHANGED <<lock, mqtt>>
      BY <1>2, <2>2 DEF RadioWrite, LockInv, Sending
    <2> QED
      BY <1>2, <2>1, <2>2 DEF RadioWrite
  <1>3. CASE RadioSent
    BY <1>3, IdleTask DEF RadioSent, Release, LockInv, Sending
  <1> QED
    BY <1>1, <1>2, <1>3 DEF RadioProceeds

LEMMA FaultLock ==
  ASSUME LockInv, Fault
  PROVE  LockInv'
  <1>1. CASE MqttWriteFails
    BY <1>1, EndLock DEF MqttWriteFails
  <1>2. CASE LinkBreaks
    BY <1>2, LinkDownLock DEF LinkBreaks
  <1>3. CASE BrokerDrop
    BY <1>3, IdleTask DEF BrokerDrop, LockInv, Sending
  <1> QED
    BY <1>1, <1>2, <1>3 DEF Fault

\* A telegram is published before it is answered; the lock is not asked for yet.
LEMMA TelegramsLock ==
  ASSUME LockInv, Telegrams
  PROVE  LockInv'
  <1>1. PICK d, learnt : Hear(d, learnt)
    BY DEF Telegrams
  <1>2. /\ radio.pc = "idle" /\ UNCHANGED <<lock, mqtt>>
        /\ radio' = [Idle EXCEPT !.pc = "publishing", !.dev = d, !.learnt = learnt]
    BY <1>1 DEF Hear
  <1>3. "pc" \in DOMAIN radio' /\ radio'.pc = "publishing"
    BY <1>2 DEF Idle
  <1> QED
    BY <1>2, <1>3 DEF LockInv, Sending

LEMMA LockStep == LockInv /\ [Next]_vars => LockInv'
<1> SUFFICES ASSUME LockInv, [Next]_vars PROVE LockInv'
  OBVIOUS
<1>1. CASE Message
  BY <1>1, MessageLock
<1>2. CASE MqttProceeds
  BY <1>2, MqttProceedsLock
<1>3. CASE RadioProceeds
  BY <1>3, RadioProceedsLock
<1>4. CASE Connects \/ ReadsBaseId \/ Restart
  BY <1>4, LockKept DEF Connects, ReadsBaseId, Restart
<1>5. CASE Telegrams
  BY <1>5, TelegramsLock
<1>6. CASE Fault
  BY <1>6, FaultLock
<1>7. CASE UNCHANGED vars
  BY <1>7, LockKept DEF vars
<1> QED
  BY <1>1, <1>2, <1>3, <1>4, <1>5, <1>6, <1>7 DEF Next

\* For every list of devices and every set of messages and telegrams, the lock is free when
\* neither task sends, else it belongs to one that does.
THEOREM LockAlwaysInUse == Spec => []LockInUse
  BY LockInit, LockStep, LockInvSuffices, PTL DEF Spec

---------------------------------------------------------------------------
(* The telegram that is built: whatever a command or a reply asks for, it  *)
(* is one of the kinds the transceiver knows, as long as its kind says,    *)
(* with the sender's address where a receiver looks for it.                *)

\* The least number of a set is in it.
LEMMA LeastIn ==
  ASSUME NEW S \in SUBSET Nat, S # {}
  PROVE  Min(S) \in S
  BY LeastNat DEF Min

\* One of the cases is selected.
LEMMA SelectedCase ==
  ASSUME NEW cases, IsSequence(cases), cases # <<>>, NEW data, NEW status, NEW direction, NEW command
  PROVE  \E k \in DOMAIN cases : SelectCase(cases, data, status, direction, command) = cases[k]
<1>1. DOMAIN cases \in SUBSET Nat /\ 1 \in DOMAIN cases
  BY SequenceIs
<1> DEFINE taken == {i \in DOMAIN cases : Takes(cases[i], data, status, direction, command)}
           default == {i \in DOMAIN cases : cases[i].conditions = {} /\ cases[i].direction = None}
<1>2. taken # {} => Min(taken) \in DOMAIN cases
  <2>1. taken \in SUBSET Nat /\ taken \subseteq DOMAIN cases
    BY <1>1
  <2> HIDE DEF taken
  <2> QED
    BY <2>1, LeastIn
<1>3. default # {} => Min(default) \in DOMAIN cases
  <2>1. default \in SUBSET Nat /\ default \subseteq DOMAIN cases
    BY <1>1
  <2> HIDE DEF default
  <2> QED
    BY <2>1, LeastIn
<1>4. SelectCase(cases, data, status, direction, command) =
        cases[IF taken # {} THEN Min(taken) ELSE IF default # {} THEN Min(default) ELSE 1]
  BY DEF SelectCase
<1> HIDE DEF taken, default
<1> QED
  BY <1>1, <1>2, <1>3, <1>4

\* Finitely many numbers have a greatest.
LEMMA GreatestOf ==
  ASSUME NEW s, IsSequence(s), s # <<>>, NEW f, \A k \in DOMAIN s : f[k] \in Nat
  PROVE  Max({f[k] : k \in DOMAIN s}) \in Nat
<1>1. Len(s) \in Nat /\ DOMAIN s = 1 .. Len(s) /\ Len(s) # 0
  BY SequenceIs
<1> DEFINE S == {n \in Nat : \E b \in Nat : \A k \in DOMAIN s : k <= n => f[k] <= b}
<1>2. 0 \in S
  BY <1>1
<1>3. ASSUME NEW n \in Nat, n \in S PROVE n + 1 \in S
  <2>1. PICK b \in Nat : \A k \in DOMAIN s : k <= n => f[k] <= b
    BY <1>3
  <2> DEFINE more == IF n + 1 \in DOMAIN s THEN b + f[n + 1] ELSE b
  <2>2. more \in Nat /\ b <= more /\ (n + 1 \in DOMAIN s => f[n + 1] <= more)
    BY <1>1
  <2>3. \A k \in DOMAIN s : k <= n + 1 => k <= n \/ k = n + 1
    BY <1>1
  <2>4. \A k \in DOMAIN s : k <= n + 1 => f[k] <= more
    <3> HIDE DEF more
    <3> QED
      BY <2>1, <2>2, <2>3
  <2> HIDE DEF more
  <2> QED
    BY <2>2, <2>4
<1>4. Nat \subseteq S
  <2> HIDE DEF S
  <2> QED
    BY <1>2, <1>3, Induct
<1>5. PICK b \in Nat : \A k \in DOMAIN s : f[k] <= b
  <2>1. Len(s) \in S
    <3> HIDE DEF S
    <3> QED
      BY <1>1, <1>4
  <2>2. PICK b \in Nat : \A k \in DOMAIN s : k <= Len(s) => f[k] <= b
    BY <2>1
  <2>3. \A k \in DOMAIN s : k <= Len(s)
    BY <1>1
  <2> QED
    BY <2>2, <2>3
<1> DEFINE U == {b - f[k] : k \in DOMAIN s}
<1>6. U \in SUBSET Nat /\ U # {}
  BY <1>1, <1>5
<1>7. PICK k \in DOMAIN s : \A j \in DOMAIN s : b - f[k] <= b - f[j]
  <2>1. PICK u \in U : \A v \in U : u <= v
    <3> HIDE DEF U
    <3> QED
      BY <1>6, LeastNat
  <2>2. PICK k \in DOMAIN s : u = b - f[k]
    BY <2>1
  <2>3. \A j \in DOMAIN s : b - f[j] \in U
    OBVIOUS
  <2> HIDE DEF U
  <2> QED
    BY <2>1, <2>2, <2>3
<1>8. \A j \in DOMAIN s : f[k] >= f[j]
  BY <1>7
<1>9. \E x \in {f[j] : j \in DOMAIN s} : \A y \in {f[j] : j \in DOMAIN s} : x >= y
  BY <1>7, <1>8
<1> QED
  BY <1>9 DEF Max

\* How many payload bytes a packet gets
LEMMA PayloadIs ==
  ASSUME NEW d \in Devices, NEW direction, NEW command
  PROVE  VldDataBytes(Sensors[d].cases, direction, command) \in Nat
<1> DEFINE cases == Sensors[d].cases
           case == SelectCase(cases, <<0>>, ToBits(0, 8), direction, command)
           ends == {case.fields[k].offset + case.fields[k].size : k \in DOMAIN case.fields}
<1>1. CASE cases = <<>>
  BY <1>1 DEF VldDataBytes
<1>2. CASE cases # <<>>
  <2>1. IsSequence(cases)
    BY SensorsAssumption
  <2>2. PICK k \in DOMAIN cases : case = cases[k]
    <3> HIDE DEF cases
    <3> QED
      BY <1>2, <2>1, SelectedCase
  <2>3. /\ IsSequence(case.fields)
        /\ \A i \in DOMAIN case.fields : case.fields[i].offset \in Nat /\ case.fields[i].size \in Nat
    <3> HIDE DEF case
    <3> QED
      BY <2>2, SensorsAssumption
  <2> DEFINE f == [i \in DOMAIN case.fields |-> case.fields[i].offset + case.fields[i].size]
  <2>4. VldDataBytes(cases, direction, command) = IF ends = {} THEN 1 ELSE (Max(ends) + 7) \div 8
    BY <1>2 DEF VldDataBytes
  <2>5. ends = {f[i] : i \in DOMAIN case.fields}
    OBVIOUS
  <2>6. ends # {} => Max(ends) \in Nat
    <3> SUFFICES ASSUME ends # {} PROVE Max(ends) \in Nat
      OBVIOUS
    <3> HIDE DEF case
    <3>1. case.fields # <<>>
      OBVIOUS
    <3>2. \A i \in DOMAIN case.fields : f[i] \in Nat
      BY <2>3
    <3> HIDE DEF f, ends
    <3> QED
      BY <2>3, <2>5, <3>1, <3>2, GreatestOf
  <2> HIDE DEF ends
  <2>7. ends # {} => (Max(ends) + 7) \div 8 \in Nat
    BY <2>6
  <2> QED
    BY <2>4, <2>7
<1> QED
  BY <1>1, <1>2

\* A telegram as the transceiver takes it: of a kind it knows, as long as the kind says, with the
\* address it is sent from before the last byte.
Formed(data, sender) ==
  /\ IsSequence(data) /\ Len(data) >= 6
  /\ data[1] \in {Rps, Bs1, Bs4, Vld}
  /\ data[1] \in {Rps, Bs1} => Len(data) = 7
  /\ data[1] = Bs4 => Len(data) = 10
  /\ \A k \in 1 .. 4 : data[Len(data) - 5 + k] = sender[k]

\* A packet that holds one
PacketOK(packet, rorg, sender) ==
  /\ DOMAIN packet = {"data", "status", "cases", "direction", "command", "wrong"}
  /\ Formed(packet.data, sender) /\ packet.data[1] = rorg

\* The payload and the last byte may change.
LEMMA FormedKept ==
  ASSUME NEW data, NEW sender, Formed(data, sender), NEW new, new = [k \in DOMAIN data |-> new[k]],
         \A k \in DOMAIN data : k = 1 \/ (Len(data) - 4 <= k /\ k <= Len(data) - 1) => new[k] = data[k]
  PROVE  Formed(new, sender) /\ new[1] = data[1] /\ Len(new) = Len(data)
<1>1. Len(data) \in Nat /\ DOMAIN data = 1 .. Len(data) /\ Len(data) >= 6
  BY SequenceIs DEF Formed
<1>2. IsSequence(new) /\ Len(new) = Len(data)
  BY <1>1, ListIs
<1>3. new[1] = data[1]
  BY <1>1
<1>4. ASSUME NEW k \in 1 .. 4 PROVE new[Len(data) - 5 + k] = sender[k]
  <2>1. /\ Len(data) - 5 + k \in DOMAIN data
        /\ Len(data) - 4 <= Len(data) - 5 + k /\ Len(data) - 5 + k <= Len(data) - 1
    BY <1>1
  <2>2. new[Len(data) - 5 + k] = data[Len(data) - 5 + k]
    BY <2>1
  <2> QED
    BY <2>2 DEF Formed
<1> QED
  BY <1>1, <1>2, <1>3, <1>4 DEF Formed

\* ... of a packet, too.
LEMMA PacketKept ==
  ASSUME NEW packet, NEW rorg, NEW sender, PacketOK(packet, rorg, sender), NEW other,
         DOMAIN other = DOMAIN packet, other.data = [k \in DOMAIN packet.data |-> other.data[k]],
         \A k \in DOMAIN packet.data :
           k = 1 \/ (Len(packet.data) - 4 <= k /\ k <= Len(packet.data) - 1) => other.data[k] = packet.data[k]
  PROVE  PacketOK(other, rorg, sender) /\ Len(other.data) = Len(packet.data)
  BY FormedKept DEF PacketOK

\* What a packet holds is a list, and can be replaced.
LEMMA DataIs ==
  ASSUME NEW packet, NEW rorg, NEW sender, PacketOK(packet, rorg, sender)
  PROVE  /\ Len(packet.data) \in Nat /\ DOMAIN packet.data = 1 .. Len(packet.data) /\ Len(packet.data) >= 6
         /\ packet.data = [k \in 1 .. Len(packet.data) |-> packet.data[k]]
         /\ {"data", "status", "wrong"} \subseteq DOMAIN packet
<1>1. packet.data \in Seq({packet.data[i] : i \in DOMAIN packet.data}) /\ Len(packet.data) >= 6
  BY DEF PacketOK, Formed, IsSequence
<1> QED
  BY <1>1 DEF PacketOK

\* Writing the status, values, both, ...
LEMMA WithStatusOK ==
  ASSUME NEW packet, NEW rorg, NEW sender, PacketOK(packet, rorg, sender)
  PROVE  PacketOK(WithStatus(packet), rorg, sender) /\ WithStatus(packet).wrong = packet.wrong
         /\ Len(WithStatus(packet).data) = Len(packet.data)
<1> DEFINE other == WithStatus(packet)
<1>1. /\ Len(packet.data) \in Nat /\ DOMAIN packet.data = 1 .. Len(packet.data) /\ Len(packet.data) >= 6
      /\ {"data", "status", "wrong"} \subseteq DOMAIN packet
  BY DataIs
<1>2. other = [packet EXCEPT !.data = [packet.data EXCEPT ![Len(packet.data)] = packet.status]]
  BY DEF WithStatus
<1>3. /\ DOMAIN other = DOMAIN packet /\ other.wrong = packet.wrong
      /\ other.data = [packet.data EXCEPT ![Len(packet.data)] = packet.status]
  BY <1>1, <1>2
<1> HIDE DEF other
<1>4. other.data = [k \in DOMAIN packet.data |-> other.data[k]]
  BY <1>3
<1>5. \A k \in DOMAIN packet.data : k # Len(packet.data) => other.data[k] = packet.data[k]
  BY <1>3
<1>6. PacketOK(other, rorg, sender) /\ Len(other.data) = Len(packet.data)
  BY <1>1, <1>3, <1>4, <1>5, PacketKept
<1> QED
  BY <1>3, <1>6 DEF other

LEMMA WriteOK ==
  ASSUME NEW packet, NEW rorg, NEW sender, PacketOK(packet, rorg, sender),
         NEW case, NEW bits, NEW st, NEW values
  PROVE  /\ PacketOK(Write(packet, case, bits, st, values), rorg, sender)
         /\ Len(Write(packet, case, bits, st, values).data) = Len(packet.data)
<1> DEFINE data == WithBits(packet.data, Written(bits, case, values, TRUE))
           other == [packet EXCEPT !.data = data, !.status = FromBits(Written(st, case, values, FALSE))]
<1>1. /\ Len(packet.data) \in Nat /\ DOMAIN packet.data = 1 .. Len(packet.data) /\ Len(packet.data) >= 6
      /\ {"data", "status", "wrong"} \subseteq DOMAIN packet
  BY DataIs
<1>2. CASE Rejected(case, values)
  <2> DEFINE same == [packet EXCEPT !.wrong = TRUE]
  <2>1. DOMAIN same = DOMAIN packet /\ same.data = packet.data
    BY <1>1
  <2> HIDE DEF same
  <2>2. PacketOK(same, rorg, sender)
    BY <2>1 DEF PacketOK
  <2>3. same = Write(packet, case, bits, st, values)
    BY <1>2 DEF Write, same
  <2> QED
    BY <2>1, <2>2, <2>3
<1>3. CASE ~Rejected(case, values)
  <2>1. data = [k \in DOMAIN packet.data |-> data[k]]
    BY DEF WithBits
  <2>2. \A k \in DOMAIN packet.data : k \notin 2 .. (Len(packet.data) - 5) => data[k] = packet.data[k]
    BY DEF WithBits
  <2> HIDE DEF data
  <2>3. DOMAIN other = DOMAIN packet /\ other.data = data
    BY <1>1
  <2>4. other = Write(packet, case, bits, st, values)
    BY <1>3 DEF Write, data
  <2> HIDE DEF other
  <2>5. PacketOK(other, rorg, sender) /\ Len(other.data) = Len(packet.data)
    BY <1>1, <2>1, <2>2, <2>3, PacketKept
  <2> QED
    BY <2>4, <2>5
<1> QED
  BY <1>2, <1>3

LEMMA SetEepOK ==
  ASSUME NEW packet, NEW rorg, NEW sender, PacketOK(packet, rorg, sender), NEW values
  PROVE  PacketOK(SetEep(packet, values), rorg, sender) /\ Len(SetEep(packet, values).data) = Len(packet.data)
  BY WriteOK DEF SetEep, SetBits

LEMMA WithValuesOK ==
  ASSUME NEW packet, NEW rorg, NEW sender, PacketOK(packet, rorg, sender), NEW values
  PROVE  /\ PacketOK(WithValues(packet, values), rorg, sender)
         /\ Len(WithValues(packet, values).data) = Len(packet.data)
  BY SetEepOK, WithStatusOK DEF WithValues, StatusUnlessWrong

\* What a telegram is put together from
Joined(rorg, payload, sender, last) == <<rorg>> \o payload \o sender \o <<last>>
FormedAs(data, rorg, sender) == Formed(data, sender) /\ data[1] = rorg

LEMMA JoinedFormed ==
  ASSUME NEW rorg, NEW payload, IsSequence(payload),
         NEW sender, IsSequence(sender), Len(sender) = 4, NEW last,
         NEW from, \A k \in 1 .. 4 : sender[k] = from[k],
         rorg \in {Rps, Bs1, Bs4, Vld},
         rorg \in {Rps, Bs1} => Len(payload) = 1, rorg = Bs4 => Len(payload) = 4
  PROVE  FormedAs(Joined(rorg, payload, sender, last), rorg, from)
<1> DEFINE a == <<rorg>> \o payload
           b == a \o sender
           c == b \o <<last>>
           n == Len(payload)
<1>0. n \in Nat
  BY SequenceIs
<1>1. IsSequence(a) /\ Len(a) = 1 + n /\ a[1] = rorg
  <2>1. /\ IsSequence(a) /\ Len(a) = 1 + n
        /\ \A i \in 1 .. 1 + n : a[i] = IF i <= 1 THEN <<rorg>>[i] ELSE payload[i - 1]
    BY SequenceConcat, OneOf
  <2>2. 1 \in 1 .. 1 + n
    BY <1>0
  <2> QED
    BY <2>1, <2>2, OneOf
<1> HIDE DEF a
<1>2. IsSequence(b) /\ Len(b) = n + 5 /\ b[1] = rorg /\ \A k \in 1 .. 4 : b[1 + n + k] = from[k]
  <2>0. /\ IsSequence(b) /\ Len(b) = Len(a) + Len(sender)
        /\ \A i \in 1 .. Len(a) + Len(sender) : b[i] = IF i <= Len(a) THEN a[i] ELSE sender[i - Len(a)]
    BY <1>1, SequenceConcat
  <2> HIDE DEF b, n
  <2>1. /\ IsSequence(b) /\ Len(b) = 1 + n + 4
        /\ \A i \in 1 .. 1 + n + 4 : b[i] = IF i <= 1 + n THEN a[i] ELSE sender[i - (1 + n)]
    BY <2>0, <1>1, Zenon
  <2>2. 1 \in 1 .. 1 + n + 4 /\ 1 <= 1 + n
    BY <1>0
  <2>3. \A k \in 1 .. 4 : 1 + n + k \in 1 .. 1 + n + 4 /\ ~(1 + n + k <= 1 + n) /\ 1 + n + k - (1 + n) = k
    BY <1>0
  <2>4. ASSUME NEW k \in 1 .. 4 PROVE b[1 + n + k] = sender[k]
    <3>1. PICK j : j = 1 + n + k
      OBVIOUS
    <3>2. j \in 1 .. 1 + n + 4 /\ ~(j <= 1 + n) /\ j - (1 + n) = k
      BY <1>0, <3>1
    <3>3. b[j] = IF j <= 1 + n THEN a[j] ELSE sender[j - (1 + n)]
      BY <2>1, <3>2
    <3>4. b[j] = sender[k]
      BY <3>2, <3>3, Zenon
    <3> QED
      BY <3>1, <3>4
  <2> QED
    BY <1>0, <1>1, <2>1, <2>2, <2>4
<1> HIDE DEF b
<1>3. IsSequence(c) /\ Len(c) = n + 6 /\ \A i \in 1 .. n + 5 : c[i] = b[i]
  <2>1. /\ IsSequence(c) /\ Len(c) = n + 5 + 1
        /\ \A i \in 1 .. n + 5 + 1 : c[i] = IF i <= n + 5 THEN b[i] ELSE <<last>>[i - (n + 5)]
    BY <1>2, SequenceConcat, OneOf
  <2> HIDE DEF c, n
  <2> QED
    BY <1>0, <2>1
<1>4. c = Joined(rorg, payload, sender, last)
  BY DEF a, b, Joined
<1> HIDE DEF c, n
<1>5. c[1] = rorg /\ \A k \in 1 .. 4 : c[Len(c) - 5 + k] = from[k]
  <2>1. \A k \in 1 .. 4 : Len(c) - 5 + k \in 1 .. n + 5 /\ Len(c) - 5 + k = 1 + n + k
    BY <1>0, <1>3
  <2>2. 1 \in 1 .. n + 5
    BY <1>0
  <2> QED
    BY <1>2, <1>3, <2>1, <2>2
<1>6. Formed(c, from)
  <2>1. (rorg \in {Rps, Bs1} => n = 1) /\ (rorg = Bs4 => n = 4)
    BY DEF n
  <2>2. Len(c) >= 6 /\ (rorg \in {Rps, Bs1} => Len(c) = 7) /\ (rorg = Bs4 => Len(c) = 10)
    BY <1>0, <1>3, <2>1
  <2> QED
    BY <1>3, <1>5, <2>2 DEF Formed
<1> QED
  BY <1>4, <1>5, <1>6 DEF FormedAs

\* An empty packet of a kind the transceiver knows
LEMMA EmptyOK ==
  ASSUME NEW d \in Devices, NEW rorg, rorg \in {Rps, Bs1, Bs4, Vld},
         NEW direction, NEW command, NEW sender \in Addresses
  PROVE  PacketOK(Empty(rorg, Sensors[d].cases, direction, command, sender), rorg, sender)
<1> DEFINE cases == Sensors[d].cases
           length == CASE rorg \in {Rps, Bs1} -> 1
                       [] rorg = Bs4 -> 4
                       [] OTHER -> VldDataBytes(cases, direction, command)
           payload == [k \in 1 .. length |-> 0]
           packet == Empty(rorg, cases, direction, command, sender)
<1>1. packet = [data |-> <<rorg>> \o payload \o sender \o <<0>>, status |-> 0,
                cases |-> cases, direction |-> direction, command |-> command,
                wrong |-> rorg \notin {Rps, Bs1, Bs4, Vld}]
  BY DEF Empty
<1>2. length \in Nat /\ (rorg \in {Rps, Bs1} => length = 1) /\ (rorg = Bs4 => length = 4)
  <2>1. VldDataBytes(cases, direction, command) \in Nat
    BY PayloadIs
  <2> HIDE DEF cases
  <2> QED
    BY <2>1 DEF Rps, Bs1, Bs4
<1> HIDE DEF length
<1>3. IsSequence(payload) /\ Len(payload) = length
  <2>1. payload = [k \in 1 .. length |-> payload[k]]
    OBVIOUS
  <2> HIDE DEF payload
  <2> QED
    BY <1>2, <2>1, ListIs
<1>4. IsSequence(sender) /\ Len(sender) = 4
  <2>1. sender = [k \in 1 .. 4 |-> sender[k]]
    BY DEF Addresses
  <2> QED
    BY <2>1, ListIs
<1> HIDE DEF payload, cases
<1> DEFINE data == Joined(rorg, payload, sender, 0)
<1>6. FormedAs(data, rorg, sender)
  <2>2. (rorg \in {Rps, Bs1} => Len(payload) = 1) /\ (rorg = Bs4 => Len(payload) = 4)
    BY <1>2, <1>3
  <2>3. \A k \in 1 .. 4 : sender[k] = sender[k]
    OBVIOUS
  <2>4. IsSequence(payload)
    BY <1>3
  <2> QED
    BY <1>4, <2>2, <2>3, <2>4, JoinedFormed, Zenon
<1> HIDE DEF data
<1>7. packet.data = data /\ DOMAIN packet = {"data", "status", "cases", "direction", "command", "wrong"}
  BY <1>1 DEF data, Joined
<1> HIDE DEF packet
<1>8. PacketOK(packet, rorg, sender)
  BY <1>6, <1>7 DEF PacketOK, FormedAs
<1> QED
  BY <1>8 DEF packet, cases

\* How long the data is
LEMMA LongEnough ==
  ASSUME NEW packet, NEW rorg, NEW sender, PacketOK(packet, rorg, sender)
  PROVE  /\ rorg \in {Rps, Bs1} => Len(packet.data) = 7
         /\ rorg = Bs4 => Len(packet.data) = 10
         /\ packet.data[1] = rorg
  BY DEF PacketOK, Formed

\* The learn bit is in the payload.
LEMMA LearningOK ==
  ASSUME NEW packet, NEW rorg, NEW sender, PacketOK(packet, rorg, sender), NEW learn
  PROVE  PacketOK(Learning(packet, learn), rorg, sender) /\ Learning(packet, learn).wrong = packet.wrong
<1> DEFINE data == Learnable(packet.data, learn)
           other == [packet EXCEPT !.data = data]
<1>1. /\ Len(packet.data) \in Nat /\ DOMAIN packet.data = 1 .. Len(packet.data) /\ Len(packet.data) >= 6
      /\ packet.data = [k \in 1 .. Len(packet.data) |-> packet.data[k]]
      /\ {"data", "status", "wrong"} \subseteq DOMAIN packet
  BY DataIs
<1>2. data = [k \in DOMAIN packet.data |-> data[k]]
      /\ \A k \in DOMAIN packet.data :
           k = 1 \/ (Len(packet.data) - 4 <= k /\ k <= Len(packet.data) - 1) => data[k] = packet.data[k]
  <2>1. CASE data = packet.data
    BY <1>1, <2>1
  <2>2. CASE packet.data[1] \in {Bs1, Bs4} /\ data = [packet.data EXCEPT ![Len(packet.data) - 5] = @ + 8]
    <3>1. Len(packet.data) >= 7
      <4>1. packet.data[1] \in {Bs1, Bs4}
        BY <2>2
      <4>2. rorg \in {Bs1, Bs4}
        BY <4>1, LongEnough
      <4>3. CASE Len(packet.data) = 7
        BY <4>3
      <4>4. CASE Len(packet.data) = 10
        BY <4>4
      <4> QED
        BY <4>2, <4>3, <4>4, LongEnough
    <3>2. data = [k \in DOMAIN packet.data |-> data[k]]
          /\ \A k \in DOMAIN packet.data : k # Len(packet.data) - 5 => data[k] = packet.data[k]
      <4> HIDE DEF data
      <4> QED
        BY <2>2
    <3> HIDE DEF data
    <3> QED
      BY <1>1, <3>1, <3>2
  <2> QED
    BY <2>1, <2>2 DEF Learnable
<1> HIDE DEF data
<1>3. DOMAIN other = DOMAIN packet /\ other.data = data /\ other.wrong = packet.wrong
  BY <1>1
<1>4. Learning(packet, learn) = WithStatus(other)
  BY DEF Learning, data
<1> HIDE DEF other
<1>5. PacketOK(other, rorg, sender)
  BY <1>2, <1>3, PacketKept
<1> QED
  BY <1>3, <1>4, <1>5, WithStatusOK

\* The command is a value like any other.
LEMMA CommandingOK ==
  ASSUME NEW packet, NEW rorg, NEW sender, PacketOK(packet, rorg, sender), NEW command
  PROVE  PacketOK(Commanding(packet, command), rorg, sender)
  BY SetEepOK DEF Commanding

\* A kind that the transceiver does not know makes a packet that is wrong from the start.
LEMMA CreateWrong ==
  ASSUME NEW rorg, rorg \notin {Rps, Bs1, Bs4, Vld},
         NEW cases, NEW direction, NEW command, NEW sender, NEW learn
  PROVE  Create(rorg, cases, direction, command, sender, learn).wrong = TRUE
<1> DEFINE packet == Empty(rorg, cases, direction, command, sender)
           other == [packet EXCEPT !.data = Learnable(packet.data, learn)]
<1>1. DOMAIN packet = {"data", "status", "cases", "direction", "command", "wrong"} /\ packet.wrong = TRUE
  BY DEF Empty
<1>2. Commanding(packet, command) = packet
  BY <1>1, Zenon DEF Commanding
<1>3. Create(rorg, cases, direction, command, sender, learn) = WithStatus(other)
  BY <1>2, Zenon DEF Create, Learning
<1> HIDE DEF packet
<1>4. DOMAIN other = DOMAIN packet /\ other.wrong = packet.wrong
  BY <1>1
<1> HIDE DEF other
<1>5. WithStatus(other).wrong = other.wrong
  BY <1>1, <1>4 DEF WithStatus
<1> QED
  BY <1>1, <1>3, <1>4, <1>5

\* Any other kind makes a packet for a telegram.
LEMMA CreateOK ==
  ASSUME NEW d \in Devices, Sensors[d].rorg \in {Rps, Bs1, Bs4, Vld},
         NEW direction, NEW command, NEW sender \in Addresses, NEW learn
  PROVE  PacketOK(Create(Sensors[d].rorg, Sensors[d].cases, direction, command, sender, learn),
                  Sensors[d].rorg, sender)
  BY EmptyOK, CommandingOK, LearningOK DEF Create

\* A packet from the sender, unless it is too short for four bytes of payload: then it is from
\* whatever address these have left.
Overwritten(packet, rorg, sender) ==
  \E from : PacketOK(packet, rorg, from) /\ (from = sender \/ Len(packet.data) < 10)

\* Four bytes after the RORG, whatever they are
LEMMA FourBytesOK ==
  ASSUME NEW packet, NEW rorg, NEW sender, PacketOK(packet, rorg, sender), NEW other,
         DOMAIN other = DOMAIN packet, other.data = [k \in DOMAIN packet.data |-> other.data[k]],
         \A k \in DOMAIN packet.data : k \notin 2 .. 5 => other.data[k] = packet.data[k]
  PROVE  Overwritten(other, rorg, sender)
<1> DEFINE n == Len(packet.data)
           from == [k \in 1 .. 4 |-> other.data[n - 5 + k]]
<1>1. n \in Nat /\ n >= 6 /\ DOMAIN packet.data = 1 .. n
  BY DataIs
<1>2. CASE n >= 10
  <2> HIDE DEF n
  <2>1. \A k \in DOMAIN packet.data : k = 1 \/ (n - 4 <= k /\ k <= n - 1) => other.data[k] = packet.data[k]
    BY <1>1, <1>2
  <2> USE DEF n
  <2>2. PacketOK(other, rorg, sender)
    BY <2>1, PacketKept
  <2> QED
    BY <2>2 DEF Overwritten
<1>3. CASE n < 10
  <2> HIDE DEF n
  <2>0. other.data = [k \in 1 .. n |-> other.data[k]]
    BY <1>1
  <2>1. IsSequence(other.data) /\ Len(other.data) = n
    BY <1>1, <2>0, ListIs
  <2>2. other.data[1] = packet.data[1]
    BY <1>1
  <2>3. \A k \in 1 .. 4 : other.data[n - 5 + k] = from[k]
    OBVIOUS
  <2> HIDE DEF from
  <2>4. PacketOK(other, rorg, from)
    BY <1>1, <2>1, <2>2, <2>3 DEF PacketOK, Formed, n
  <2> QED
    BY <1>3, <2>1, <2>4 DEF Overwritten
<1> QED
  BY <1>1, <1>2, <1>3

\* A learn response is four bytes; ...
LEMMA LearnResponseOK ==
  ASSUME NEW packet, NEW rorg, NEW sender, PacketOK(packet, rorg, sender), NEW learnt
  PROVE  Overwritten(LearnResponse(packet, learnt), rorg, sender)
<1> DEFINE other == LearnResponse(packet, learnt)
           data == [k \in DOMAIN packet.data |-> IF k = 5 THEN 240
                                              ELSE IF k \in 2..4 THEN learnt[k] ELSE packet.data[k]]
<1>1. /\ DOMAIN packet.data = 1 .. Len(packet.data)
      /\ {"data", "status", "wrong"} \subseteq DOMAIN packet
  BY DataIs
<1>2. other = [packet EXCEPT !.data = data]
  BY DEF LearnResponse
<1>3. /\ data = [k \in DOMAIN packet.data |-> data[k]]
      /\ \A k \in DOMAIN packet.data : k \notin 2 .. 5 => data[k] = packet.data[k]
  OBVIOUS
<1> HIDE DEF other, data
<1>4. DOMAIN other = DOMAIN packet /\ other.data = data
  BY <1>1, <1>2
<1>5. Overwritten(other, rorg, sender)
  BY <1>3, <1>4, FourBytesOK
<1> QED
  BY <1>5 DEF other

\* ... default data is four bytes or values; ...
LEMMA DefaultOK ==
  ASSUME NEW packet, NEW d \in Devices, NEW sender, PacketOK(packet, Sensors[d].rorg, sender)
  PROVE  IF Sensors[d].default.bytes # <<>>
         THEN Overwritten(Default(packet, Sensors[d].default), Sensors[d].rorg, sender)
         ELSE PacketOK(Default(packet, Sensors[d].default), Sensors[d].rorg, sender)
<1> DEFINE default == Sensors[d].default
           data == [k \in DOMAIN packet.data |-> IF k \in 2..5 THEN default.bytes[k - 1] ELSE packet.data[k]]
           other == [packet EXCEPT !.data = data]
<1>1. CASE default.bytes # <<>>
  <2>2. {"data", "status", "wrong"} \subseteq DOMAIN packet
    BY DataIs
  <2>3. /\ data = [k \in DOMAIN packet.data |-> data[k]]
        /\ \A k \in DOMAIN packet.data : k \notin 2 .. 5 => data[k] = packet.data[k]
    OBVIOUS
  <2>4. Default(packet, default) = other
    BY <1>1 DEF Default
  <2> HIDE DEF data
  <2>5. DOMAIN other = DOMAIN packet /\ other.data = data
    BY <2>2
  <2> HIDE DEF other
  <2>6. Overwritten(other, Sensors[d].rorg, sender)
    BY <2>3, <2>5, FourBytesOK
  <2> QED
    BY <1>1, <2>4, <2>6
<1>2. CASE default.bytes = <<>>
  BY <1>2, WithValuesOK DEF Default
<1> QED
  BY <1>1, <1>2

\* ... a command's data is values; ...
LEMMA GivenOK ==
  ASSUME NEW packet, NEW rorg, NEW sender, PacketOK(packet, rorg, sender), NEW s
  PROVE  PacketOK(GivenData(packet, s), rorg, sender) /\ Len(GivenData(packet, s).data) = Len(packet.data)
  BY WithValuesOK DEF GivenData

\* ... and raw data fills the payload, with the old sender after it.
LEMMA RawDataOK ==
  ASSUME NEW packet, NEW rorg, NEW sender, PacketOK(packet, rorg, sender),
         NEW raw \in Seq(Int), RawFits(packet, raw)
  PROVE  PacketOK(RawData(packet, raw), rorg, sender) /\ RawData(packet, raw).wrong = packet.wrong
<1> DEFINE data == packet.data
           n == Len(packet.data)
           payload == SubSeq(raw, 1, n - 6)
           from == SubSeq(data, n - 4, n - 1)
           last == IF Len(raw) = n - 5 THEN raw[n - 5] ELSE data[n]
           other == [packet EXCEPT !.data = Joined(data[1], payload, from, last)]
<1>1. /\ n \in Nat /\ n >= 6 /\ {"data", "status", "wrong"} \subseteq DOMAIN packet
  BY DataIs
<1>2. RawData(packet, raw) = other
  BY DEF RawData, Joined
<1>3. IsSequence(payload) /\ Len(payload) = n - 6
  <2>1. Len(raw) \in {n - 6, n - 5} /\ Len(raw) \in Nat
    BY DEF RawFits
  <2>2. IsSequence(raw)
    BY IsSeqOf
  <2> HIDE DEF n
  <2>3. 1 \in Nat /\ n - 6 \in Nat /\ 1 <= 1 /\ 1 <= n - 6 + 1 /\ n - 6 <= Len(raw) /\ n - 6 - 1 + 1 = n - 6
    BY <1>1, <2>1
  <2>4. IsSequence(payload) /\ Len(payload) = n - 6 - 1 + 1
    BY <2>2, <2>3, SequencePart
  <2> QED
    BY <2>3, <2>4
<1>4. IsSequence(data) /\ data[1] = rorg /\ data[1] \in {Rps, Bs1, Bs4, Vld}
      /\ (data[1] \in {Rps, Bs1} => n = 7) /\ (data[1] = Bs4 => n = 10)
      /\ \A k \in 1 .. 4 : data[n - 5 + k] = sender[k]
  BY DEF PacketOK, Formed
<1> HIDE DEF data
<1>5. IsSequence(from) /\ Len(from) = 4 /\ \A k \in 1 .. 4 : from[k] = sender[k]
  <2>1. n = Len(data)
    BY DEF data
  <2> HIDE DEF n
  <2>2. /\ IsSequence(from) /\ Len(from) = n - 1 - (n - 4) + 1
        /\ \A i \in 1 .. n - 1 - (n - 4) + 1 : from[i] = data[n - 4 + i - 1]
    BY <1>1, <1>4, <2>1, SequencePart
  <2> HIDE DEF from
  <2>3. n - 1 - (n - 4) + 1 = 4 /\ \A i \in 1 .. 4 : n - 4 + i - 1 = n - 5 + i
    BY <1>1
  <2>4. ASSUME NEW k \in 1 .. 4 PROVE from[k] = sender[k]
    BY <1>4, <2>2, <2>3
  <2> QED
    BY <2>2, <2>3, <2>4
<1> HIDE DEF n, payload, from, last
<1>6. FormedAs(Joined(data[1], payload, from, last), data[1], sender)
  <2>1. (data[1] \in {Rps, Bs1} => Len(payload) = 1) /\ (data[1] = Bs4 => Len(payload) = 4)
    BY <1>1, <1>3, <1>4
  <2>2. IsSequence(payload)
    BY <1>3
  <2> QED
    BY <1>4, <1>5, <2>1, <2>2, JoinedFormed, Zenon
<1>7. DOMAIN other = DOMAIN packet /\ other.data = Joined(data[1], payload, from, last)
      /\ other.wrong = packet.wrong
  BY <1>1
<1> HIDE DEF other
<1>8. PacketOK(other, rorg, sender)
  BY <1>4, <1>6, <1>7 DEF PacketOK, FormedAs
<1> QED
  BY <1>2, <1>7, <1>8

\* What overruns the sender: an answer to a teach-in or default bytes, when the payload is short.
Spoilt(d, data, raw, learnt) ==
  Len(data) < 10 /\ (learnt # Absent \/ (raw = Absent /\ Sensors[d].default.bytes # <<>>))
\* A telegram from the sender, or spoilt
Sent(d, data, raw, learnt, sender) ==
  \E from : Formed(data, from) /\ (from = sender \/ Spoilt(d, data, raw, learnt))

\* What is sent is a telegram, and it comes from the sender it was made for unless it is spoilt.
LEMMA FillFormed ==
  ASSUME NEW d \in Devices, NEW packet, NEW sender, PacketOK(packet, Sensors[d].rorg, sender),
         NEW s, s.raw \in Seq(Int), NEW learnt,
         Fill(packet, Sensors[d], s, learnt).result = "sent"
  PROVE  Sent(d, Fill(packet, Sensors[d], s, learnt).data, s.raw, learnt, sender)
<1> DEFINE out == Fill(packet, Sensors[d], s, learnt)
<1>1. ASSUME NEW p, NEW from, PacketOK(p, Sensors[d].rorg, from), Filled(p).result = "sent"
      PROVE  Formed(Filled(p).data, from) /\ Filled(p).data = p.data
  BY <1>1 DEF Filled, Outcome, PacketOK
<1>2. ~packet.wrong
  BY DEF Fill, Outcome
<1>3. CASE learnt # <<>>
  <2>1. out = Filled(LearnResponse(packet, learnt))
    BY <1>2, <1>3 DEF Fill
  <2>2. Overwritten(LearnResponse(packet, learnt), Sensors[d].rorg, sender)
    BY LearnResponseOK
  <2>3. PICK from : /\ PacketOK(LearnResponse(packet, learnt), Sensors[d].rorg, from)
                    /\ from = sender \/ Len(LearnResponse(packet, learnt).data) < 10
    BY <2>2 DEF Overwritten
  <2>4. Formed(out.data, from) /\ out.data = LearnResponse(packet, learnt).data
    BY <1>1, <2>1, <2>3
  <2> QED
    BY <1>3, <2>3, <2>4 DEF Sent, Spoilt, Absent
<1>4. CASE learnt = <<>> /\ s.raw = Absent
  <2> DEFINE seeded == Default(packet, Sensors[d].default)
  <2>1. out = Filled(GivenData(seeded, s))
    BY <1>2, <1>4 DEF Fill
  <2>2. PICK from : /\ PacketOK(seeded, Sensors[d].rorg, from)
                    /\ from = sender \/ (Len(seeded.data) < 10 /\ Sensors[d].default.bytes # <<>>)
    BY DefaultOK DEF Overwritten
  <2> HIDE DEF seeded, out
  <2>3. PacketOK(GivenData(seeded, s), Sensors[d].rorg, from) /\ Len(GivenData(seeded, s).data) = Len(seeded.data)
    BY <2>2, GivenOK
  <2>4. Formed(out.data, from) /\ out.data = GivenData(seeded, s).data
    BY <1>1, <2>1, <2>3 DEF out
  <2> QED
    BY <1>4, <2>2, <2>3, <2>4 DEF Sent, Spoilt, out
<1>5. CASE learnt = <<>> /\ s.raw # Absent /\ RawFits(packet, s.raw)
  <2>1. out = Filled(RawData(packet, s.raw))
    BY <1>2, <1>5 DEF Fill
  <2>2. PacketOK(RawData(packet, s.raw), Sensors[d].rorg, sender)
    BY <1>5, RawDataOK
  <2> QED
    BY <1>1, <2>1, <2>2 DEF Sent
<1>6. CASE learnt = <<>> /\ s.raw # Absent /\ ~RawFits(packet, s.raw)
  BY <1>2, <1>6 DEF Fill, Outcome
<1> QED
  BY <1>3, <1>4, <1>5, <1>6

\* So it is for every request, of a command (learnt is absent) or of a telegram to answer.
LEMMA TelegramFormed ==
  ASSUME NEW d \in Devices, NEW s, s.raw \in Seq(Int), NEW command, NEW negate, NEW sender \in Addresses,
         NEW learnt,
         Telegram(Sensors[d], s, command, negate, learnt, sender).result = "sent"
  PROVE  Sent(d, Telegram(Sensors[d], s, command, negate, learnt, sender).data, s.raw, learnt, sender)
<1> DEFINE packet == Create(Sensors[d].rorg, Sensors[d].cases, Direction(Sensors[d], negate), command, sender,
                            learnt # <<>> \/ s.learn)
<1>1. Telegram(Sensors[d], s, command, negate, learnt, sender) = Fill(packet, Sensors[d], s, learnt)
  BY DEF Telegram
<1>2. Sensors[d].rorg \in {Rps, Bs1, Bs4, Vld} => PacketOK(packet, Sensors[d].rorg, sender)
  BY CreateOK
<1>3. Sensors[d].rorg \notin {Rps, Bs1, Bs4, Vld} => packet.wrong = TRUE
  BY CreateWrong
<1> HIDE DEF packet
<1>4. packet.wrong = TRUE => Fill(packet, Sensors[d], s, learnt).result = "dropped"
  BY DEF Fill, Outcome
<1> QED
  BY <1>1, <1>2, <1>3, <1>4, FillFormed

---------------------------------------------------------------------------
(* What waits to be sent is such a telegram, from the device's own sender  *)
(* or the Base ID unless it is spoilt, and the scratch fields it is built  *)
(* from keep their type.  Both are in one invariant, since a telegram is   *)
(* only well formed when the raw data and the device it was built from     *)
(* were.                                                                   *)

\* The address a device's telegrams come from
OwnSender(d) == IF Sensors[d].sender # <<>> THEN Sensors[d].sender ELSE BaseId

\* A device's scratch fields; those of a device that was given nothing are empty.
ScratchOK(s) ==
  /\ DOMAIN s = {"learn", "raw", "given", "data"}
  /\ s.learn \in BOOLEAN /\ s.given \in BOOLEAN /\ s.raw \in Seq(Int)
  /\ IsFiniteSet(DOMAIN s.data) /\ Cardinality(DOMAIN s.data) <= MaxFields
  /\ ~s.given => s.data = NoValues
\* A task that sends has a telegram, from the device's own address or spoilt.
TaskOK(t) ==
  /\ DOMAIN t = {"pc", "dev", "data", "clear", "raw", "learnt", "asked", "wanted"}
  /\ t.clear \in BOOLEAN
  /\ Sending(t) => t.dev \in Devices /\ Sent(t.dev, t.data, t.raw, t.learnt, OwnSender(t.dev))
\* The invariant, variable by variable
ScratchInv == DOMAIN scratch = Devices /\ \A d \in Devices : ScratchOK(scratch[d])
LinkInv ==
  /\ base \in BOOLEAN /\ link \in BOOLEAN /\ ended \in {"no", "malformed", "unlinked"}
  /\ lock \in {"mqtt", "radio", "free"}
MqttInv == TaskOK(mqtt) /\ mqtt.pc \in {"idle", "waiting", "written"}
RadioInv ==
  /\ TaskOK(radio) /\ radio.pc \in {"idle", "publishing", "waiting", "written"}
  /\ radio.pc = "publishing" => radio.dev \in Devices
SendInv == ScratchInv /\ LinkInv /\ MqttInv /\ RadioInv

LEMMA IdleOK == TaskOK(Idle) /\ Idle.pc = "idle"
  BY DEF Idle, TaskOK, Sending

LEMMA NothingOK == DOMAIN Nothing = Devices /\ \A d \in Devices : ScratchOK(Nothing[d])
<1>1. NoScratch.data = NoValues /\ NoScratch.raw = <<>> /\ NoScratch.learn = FALSE /\ NoScratch.given = FALSE
      /\ DOMAIN NoScratch = {"learn", "raw", "given", "data"}
  BY DEF NoScratch, Absent
<1>2. DOMAIN NoValues = {}
  BY DEF NoValues
<1>3. IsFiniteSet({}) /\ Cardinality({}) = 0
  BY FS_EmptySet
<1>4. <<>> \in Seq(Int) /\ 0 <= MaxFields
  BY FieldsAssumption
<1>5. ScratchOK(NoScratch)
  BY <1>1, <1>2, <1>3, <1>4, Zenon DEF ScratchOK
<1> QED
  BY <1>5 DEF Nothing
LEMMA SendInit == Init => SendInv
  BY IdleOK, NothingOK DEF Init, SendInv, ScratchInv, LinkInv, MqttInv, RadioInv

LEMMA ScratchKept == ScratchInv /\ UNCHANGED scratch => ScratchInv'
  BY DEF ScratchInv
LEMMA LinkKept == LinkInv /\ UNCHANGED <<base, link, ended, lock>> => LinkInv'
  BY DEF LinkInv
LEMMA MqttKept == MqttInv /\ UNCHANGED mqtt => MqttInv'
  BY DEF MqttInv
LEMMA RadioKept == RadioInv /\ UNCHANGED radio => RadioInv'
  BY DEF RadioInv
LEMMA MqttIdle == mqtt' = Idle => MqttInv'
  BY IdleOK DEF MqttInv
LEMMA RadioIdle == radio' = Idle => RadioInv'
  BY IdleOK DEF RadioInv

LEMMA EndSend ==
  ASSUME NEW cause \in {"malformed", "unlinked"}, End(cause)
  PROVE  SendInv'
<1>1. ScratchInv'
  BY NothingOK DEF End, ScratchInv
<1>2. LinkInv'
  BY DEF End, LinkInv
<1> QED
  BY <1>1, <1>2, MqttIdle, RadioIdle DEF End, SendInv

\* One device's fields are replaced.
LEMMA ScratchSet ==
  ASSUME ScratchInv, NEW d, NEW s, ScratchOK(s), scratch' = [scratch EXCEPT ![d] = s]
  PROVE  ScratchInv'
  BY DEF ScratchInv

\* What a telegram leaves of the fields
LEMMA ClearedOK ==
  ASSUME NEW s, ScratchOK(s), NEW clear \in BOOLEAN
  PROVE  ScratchOK(Cleared(s, clear))
<1>1. DOMAIN NoValues = {} /\ IsFiniteSet({}) /\ Cardinality({}) = 0
  BY FS_EmptySet DEF NoValues
<1> DEFINE r == Cleared(s, clear)
<1>2. /\ DOMAIN r = {"learn", "raw", "given", "data"}
      /\ r.learn = FALSE /\ r.raw = <<>> /\ r.given = (s.given /\ ~clear)
      /\ r.data = IF clear THEN NoValues ELSE s.data
  BY DEF Cleared, Absent
<1> HIDE DEF r
<1>3. <<>> \in Seq(Int) /\ 0 <= MaxFields /\ r.given \in BOOLEAN
  BY <1>2, FieldsAssumption DEF ScratchOK
<1>4. ASSUME clear PROVE ScratchOK(r)
  <2>1. r.data = NoValues
    BY <1>2, <1>4
  <2> QED
    BY <1>1, <1>2, <1>3, <2>1, Zenon DEF ScratchOK
<1>5. ASSUME ~clear PROVE ScratchOK(r)
  <2>1. r.data = s.data /\ r.given = s.given
    BY <1>2, <1>5 DEF ScratchOK
  <2> QED
    BY <1>2, <1>3, <2>1, Zenon DEF ScratchOK
<1> QED
  BY <1>4, <1>5 DEF r

\* A device that may send has its address, never the placeholder.
LEMMA SenderIs ==
  ASSUME NEW d \in Devices, MaySend(d)
  PROVE  SenderOf(d) = OwnSender(d) /\ SenderOf(d) \in Addresses
  BY SensorsAssumption DEF MaySend, SenderOf, OwnSender

\* A request to send keeps the invariant: what waits then was built from fields of their type.
LEMMA SendMessageKept ==
  ASSUME SendInv, NEW d \in Devices, NEW clear \in BOOLEAN, NEW s, ScratchOK(s), NEW user, NEW asks,
         SendMessage(d, clear, s, user, asks)
  PROVE  SendInv'
<1> DEFINE out == Telegram(Sensors[d], s, CommandOf(d, s), FALSE, Absent, SenderOf(d))
<1>1. CASE /\ UNCHANGED <<base, link, radio, ended, lock, mqtt>>
           /\ Kept(d, s, user, asks) \/ Spent(d, clear, s, user)
  <2>1. ScratchInv'
    BY <1>1, ScratchSet, ClearedOK DEF Kept, Spent, SendInv
  <2> QED
    BY <1>1, <2>1, LinkKept, MqttKept, RadioKept DEF SendInv
<1>2. CASE End("malformed") \/ End("unlinked")
  BY <1>2, EndSend
<1>3. CASE /\ MaySend(d) /\ out.result = "sent" /\ Kept(d, s, user, asks)
           /\ lock' = (IF lock = "free" THEN "mqtt" ELSE lock)
           /\ mqtt' = [pc |-> "waiting", dev |-> d, data |-> out.data, clear |-> clear, raw |-> s.raw,
                       learnt |-> Absent, asked |-> asks, wanted |-> user]
           /\ UNCHANGED <<base, link, radio, ended>>
  <2>1. ScratchInv'
    BY <1>3, ScratchSet DEF Kept, SendInv
  <2>2. LinkInv'
    BY <1>3 DEF LinkInv, SendInv
  <2>3. Sent(d, out.data, s.raw, Absent, OwnSender(d))
    <3>1. s.raw \in Seq(Int)
      BY DEF ScratchOK
    <3> QED
      BY <1>3, <3>1, SenderIs, TelegramFormed
  <2> HIDE DEF out
  <2>4. MqttInv'
    <3>1. mqtt'.pc = "waiting" /\ mqtt'.dev = d /\ mqtt'.data = out.data /\ mqtt'.clear = clear
          /\ mqtt'.raw = s.raw /\ mqtt'.learnt = Absent
          /\ DOMAIN mqtt' = {"pc", "dev", "data", "clear", "raw", "learnt", "asked", "wanted"}
      BY <1>3
    <3>2. TaskOK(mqtt')
      BY <2>3, <3>1 DEF TaskOK
    <3> QED
      BY <3>1, <3>2 DEF MqttInv
  <2> QED
    BY <1>3, <2>1, <2>2, <2>4, RadioKept DEF SendInv
<1> QED
  <2>1. CASE CommandMissing(d, s)
    BY <1>1, <2>1 DEF SendMessage
  <2>2. CASE ~CommandMissing(d, s)
    BY <1>1, <1>2, <1>3, <2>2 DEF SendMessage
  <2> QED
    BY <2>1, <2>2

\* A device that has room takes a field.
LEMMA AccumulateOK ==
  ASSUME NEW s, ScratchOK(s), NEW values, IsFiniteSet(DOMAIN values),
         Cardinality(DOMAIN s.data \cup DOMAIN values) <= MaxFields
  PROVE  ScratchOK(Accumulate(s, values))
<1> DEFINE r == Accumulate(s, values)
           data == Merge(s.data, values)
<1>1. DOMAIN data = DOMAIN s.data \cup DOMAIN values
  BY DEF Merge
<1>2. r = [s EXCEPT !.data = data, !.given = TRUE]
  BY DEF Accumulate
<1> HIDE DEF data
<1>3. /\ DOMAIN r = {"learn", "raw", "given", "data"}
      /\ r.learn = s.learn /\ r.raw = s.raw /\ r.given = TRUE /\ r.data = data
  BY <1>2 DEF ScratchOK
<1>4. IsFiniteSet(DOMAIN s.data \cup DOMAIN values)
  BY FS_Union DEF ScratchOK
<1> HIDE DEF r
<1>5. ScratchOK(r)
  BY <1>1, <1>3, <1>4 DEF ScratchOK
<1> QED
  BY <1>5 DEF r

\* ... one, when there is room for one, ...
LEMMA OneMore ==
  ASSUME NEW s, ScratchOK(s), NEW name, Room(s, name), NEW value
  PROVE  ScratchOK(Accumulate(s, One(name, value)))
<1>1. DOMAIN One(name, value) = {name} /\ IsFiniteSet({name})
  BY FS_Singleton DEF One
<1>2. CASE name \in DOMAIN s.data
  <2>1. DOMAIN s.data \cup {name} = DOMAIN s.data
    BY <1>2
  <2> QED
    BY <1>1, <2>1, AccumulateOK DEF ScratchOK
<1>3. CASE name \notin DOMAIN s.data /\ Cardinality(DOMAIN s.data) < MaxFields
  <2>1. IsFiniteSet(DOMAIN s.data)
    BY DEF ScratchOK
  <2>2. /\ Cardinality(DOMAIN s.data \cup {name}) = Cardinality(DOMAIN s.data) + 1
        /\ Cardinality(DOMAIN s.data) \in Nat
    BY <1>3, <2>1, FS_AddElement, FS_CardinalityType
  <2>3. Cardinality(DOMAIN s.data \cup {name}) <= MaxFields
    BY <1>3, <2>2, FieldsAssumption
  <2> QED
    BY <1>1, <2>3, AccumulateOK
<1> QED
  BY <1>2, <1>3 DEF Room

\* ... or all of a message that fits.
LEMMA Fitting ==
  ASSUME NEW s, ScratchOK(s), NEW values, IsFiniteSet(DOMAIN values),
         Cardinality(DOMAIN s.data) + Cardinality(DOMAIN values) <= MaxFields
  PROVE  ScratchOK(Accumulate(s, values))
<1> DEFINE A == DOMAIN s.data
           B == DOMAIN values
<1>1. IsFiniteSet(A) /\ IsFiniteSet(B)
  BY DEF ScratchOK
<1> HIDE DEF A, B
<1>2. /\ Cardinality(A \cup B) = Cardinality(A) + Cardinality(B) - Cardinality(A \cap B)
      /\ Cardinality(A) \in Nat /\ Cardinality(B) \in Nat /\ Cardinality(A \cap B) \in Nat
  BY <1>1, FS_Union, FS_Intersection, FS_CardinalityType
<1>3. Cardinality(A) + Cardinality(B) <= MaxFields
  BY DEF A, B
<1>4. Cardinality(A \cup B) <= MaxFields
  BY <1>2, <1>3, FieldsAssumption
<1> QED
  BY <1>4, AccumulateOK DEF A, B

LEMMA SingleSend ==
  ASSUME SendInv, NEW d, NEW name, NEW value, Single(d, name, value)
  PROVE  SendInv'
<1>1. \A a \in Devices : ScratchOK(Garbled(scratch[a]))
  BY OneMore DEF Garbled, SendInv, ScratchInv
<1>2. \A a \in Devices : Room(scratch[a], name) => ScratchOK(Accumulate(scratch[a], One(name, value)))
  BY OneMore DEF SendInv, ScratchInv
<1>3. PICK T, later : scratch' = [a \in Devices |->
                       IF a \in T THEN Garbled(scratch[a])
                       ELSE IF a = d /\ later /\ Room(scratch[d], name)
                            THEN Accumulate(scratch[d], One(name, value))
                       ELSE scratch[a]]
  BY ZenonT(60) DEF Single
<1>4. ScratchInv'
  BY <1>1, <1>2, <1>3 DEF SendInv, ScratchInv
<1> QED
  BY <1>4, LinkKept, MqttKept, RadioKept DEF Single, SendInv

LEMMA RawTopicSend ==
  ASSUME SendInv, NEW m \in RawTopics, RawTopic(m[1], m[2])
  PROVE  SendInv'
<1> DEFINE d == m[1]
           s == [scratch[d] EXCEPT !.raw = m[2]]
<1>1. d \in Devices /\ m[2] \in Seq(Int)
  BY MessagesAssumption
<1>2. scratch' = [scratch EXCEPT ![d] = s]
  BY DEF RawTopic
<1>3. ScratchOK(s)
  BY <1>1 DEF SendInv, ScratchInv, ScratchOK
<1> HIDE DEF s
<1>4. ScratchInv'
  BY <1>2, <1>3, ScratchSet DEF SendInv
<1> QED
  BY <1>4, LinkKept, MqttKept, RadioKept DEF RawTopic, SendInv

LEMMA SendTopicSend ==
  ASSUME SendInv, NEW m \in Sends, SendTopic(m[1], m[2])
  PROVE  SendInv'
<1> DEFINE d == m[1]
           actions == m[2]
           learns == [scratch[d] EXCEPT !.learn = @ \/ "learn" \in actions]
           s == IF "raw_data" \in actions THEN learns ELSE [learns EXCEPT !.raw = Absent]
<1>1. d \in Devices
  BY MessagesAssumption
<1>2. ScratchOK(scratch[d])
  BY <1>1 DEF SendInv, ScratchInv
<1>3. ScratchOK(learns)
  BY <1>2 DEF ScratchOK
<1>4. SendMessage(d, "clear" \in actions, s, wanted[d], askedLearn[d] \/ "learn" \in actions)
  BY DEF SendTopic
<1> HIDE DEF learns
<1>5. ScratchOK(s)
  BY <1>3 DEF ScratchOK, Absent
<1>6. ("clear" \in actions) \in BOOLEAN
  OBVIOUS
<1> HIDE DEF s, d, actions
<1> QED
  BY <1>1, <1>4, <1>5, <1>6, SendMessageKept, Zenon

LEMMA BulkSend ==
  ASSUME SendInv, NEW m \in Bulks, Bulk(m)
  PROVE  SendInv'
<1> DEFINE d == m.to
           takesRaw == Named(m.send) /\ "raw_data" \in m.send /\ m.raw # Absent
           s1 == [scratch[d] EXCEPT !.learn = @ \/ "learn" \in m.send, !.raw = IF takesRaw THEN m.raw ELSE @]
           fits == Cardinality(DOMAIN s1.data) + Cardinality(DOMAIN m.values) <= MaxFields
           s2 == IF fits THEN Accumulate(s1, m.values) ELSE s1
           user == IF fits THEN Merge(wanted[d], m.values) ELSE wanted[d]
           asks == askedLearn[d] \/ "learn" \in m.send
<1>1. d \in Devices /\ IsFiniteSet(DOMAIN m.values) /\ m.raw \in Seq(Int)
  BY MessagesAssumption
<1>2. ScratchOK(scratch[d])
  BY <1>1 DEF SendInv, ScratchInv
<1>3. ScratchOK(s1)
  BY <1>1, <1>2 DEF ScratchOK
<1>4. \/ End("malformed")
      \/ SendMessage(d, "clear" \in m.send, s2, user, asks)
      \/ scratch' = [scratch EXCEPT ![d] = s2] /\ UNCHANGED <<base, link, lock, mqtt, radio, ended>>
  BY DEF Bulk
<1> HIDE DEF s1
<1>5. ScratchOK(s2)
  BY <1>1, <1>3, Fitting
<1>6. ("clear" \in m.send) \in BOOLEAN
  OBVIOUS
<1> HIDE DEF s2, user, asks, d
<1>7. CASE End("malformed")
  BY <1>7, EndSend
<1>8. CASE SendMessage(d, "clear" \in m.send, s2, user, asks)
  BY <1>1, <1>5, <1>6, <1>8, SendMessageKept, Zenon
<1>9. CASE scratch' = [scratch EXCEPT ![d] = s2] /\ UNCHANGED <<base, link, lock, mqtt, radio, ended>>
  <2>1. ScratchInv'
    BY <1>5, <1>9, ScratchSet DEF SendInv
  <2> QED
    BY <1>9, <2>1, LinkKept, MqttKept, RadioKept DEF SendInv
<1> QED
  BY <1>4, <1>7, <1>8, <1>9

\* The lock's new holder is one of the two or nobody.
LEMMA ReleaseType ==
  ASSUME lock \in {"mqtt", "radio", "free"}, NEW by, NEW other, Release(by, other)
  PROVE  lock' \in {"mqtt", "radio", "free"}
  BY DEF Release

LEMMA MqttSend ==
  ASSUME SendInv, MqttProceeds
  PROVE  SendInv'
<1>1. CASE End("unlinked") \/ End("malformed")
  BY <1>1, EndSend
<1>2. CASE MqttWrite /\ mqtt' = [mqtt EXCEPT !.pc = "written"]
           /\ UNCHANGED <<shadows, scratch, wanted, askedLearn, base, link, lock, radio, ended>>
  <2>1. /\ mqtt'.pc = "written" /\ mqtt'.dev = mqtt.dev /\ mqtt'.data = mqtt.data /\ mqtt'.clear = mqtt.clear
        /\ mqtt'.raw = mqtt.raw /\ mqtt'.learnt = mqtt.learnt
        /\ DOMAIN mqtt' = DOMAIN mqtt /\ Sending(mqtt)
    BY <1>2 DEF SendInv, MqttInv, TaskOK, MqttWrite, Sending
  <2>2. MqttInv'
    BY <2>1 DEF SendInv, MqttInv, TaskOK
  <2> QED
    BY <1>2, <2>2, ScratchKept, LinkKept, RadioKept DEF SendInv
<1>3. CASE MqttSent
  <2>1. mqtt.dev \in Devices /\ mqtt.clear \in BOOLEAN
    BY <1>3 DEF MqttSent, SendInv, MqttInv, TaskOK, Sending
  <2>2. ScratchOK(Cleared(scratch[mqtt.dev], mqtt.clear))
    BY <2>1, ClearedOK DEF SendInv, ScratchInv
  <2>3. ScratchInv'
    BY <1>3, <2>2, ScratchSet DEF MqttSent, Spent, Kept, SendInv
  <2>4. LinkInv'
    BY <1>3, ReleaseType DEF MqttSent, SendInv, LinkInv
  <2> QED
    BY <1>3, <2>3, <2>4, MqttIdle, RadioKept DEF MqttSent, SendInv
<1> QED
  BY <1>1, <1>2, <1>3 DEF MqttProceeds, MqttWrite

LEMMA LinkDownSend ==
  ASSUME SendInv, LinkDown
  PROVE  SendInv'
<1>1. LinkInv'
  BY ReleaseType DEF LinkDown, SendInv, LinkInv
<1> QED
  BY <1>1, ScratchKept, MqttKept, RadioIdle DEF LinkDown, SendInv

\* A reply is built from the fields of the device, or from its teach-in.
LEMMA ReplySend ==
  ASSUME SendInv, Reply
  PROVE  SendInv'
<1> DEFINE d == radio.dev
           out == Telegram(Sensors[d], scratch[d], None, TRUE, radio.learnt, SenderOf(d))
<1>1. d \in Devices
  BY DEF Reply, SendInv, RadioInv
<1>2. ReplyWith(d, out)
  BY DEF Reply
<1>3. CASE radio' = Idle /\ UNCHANGED <<shadows, scratch, wanted, askedLearn, base, link, lock, mqtt, ended>>
  BY <1>3, RadioIdle, ScratchKept, LinkKept, MqttKept DEF SendInv
<1>4. CASE LinkDown
  BY <1>4, LinkDownSend
<1>5. CASE /\ MaySend(d) /\ out.result = "sent"
           /\ radio' = [radio EXCEPT !.pc = "waiting", !.data = out.data, !.raw = scratch[d].raw,
                                     !.asked = askedLearn[d], !.wanted = wanted[d]]
           /\ lock' = (IF lock = "free" THEN "radio" ELSE lock)
           /\ UNCHANGED <<shadows, scratch, wanted, askedLearn, base, link, mqtt, ended>>
  <2>1. Sent(d, out.data, scratch[d].raw, radio.learnt, OwnSender(d))
    <3>1. scratch[d].raw \in Seq(Int)
      BY <1>1 DEF SendInv, ScratchInv, ScratchOK
    <3> QED
      BY <1>1, <1>5, <3>1, SenderIs, TelegramFormed
  <2> HIDE DEF out
  <2>2. /\ radio'.pc = "waiting" /\ radio'.dev = d /\ radio'.data = out.data /\ radio'.clear = radio.clear
        /\ radio'.raw = scratch[d].raw /\ radio'.learnt = radio.learnt
        /\ DOMAIN radio' = DOMAIN radio
    BY <1>5 DEF SendInv, RadioInv, TaskOK
  <2>3. RadioInv'
    BY <1>1, <2>1, <2>2 DEF SendInv, RadioInv, TaskOK
  <2>4. LinkInv'
    BY <1>5 DEF SendInv, LinkInv
  <2> QED
    BY <1>5, <2>3, <2>4, ScratchKept, MqttKept DEF SendInv
<1> HIDE DEF out, d
<1> QED
  BY <1>2, <1>3, <1>4, <1>5 DEF ReplyWith

LEMMA RadioSend ==
  ASSUME SendInv, RadioProceeds
  PROVE  SendInv'
<1>1. CASE Reply
  BY <1>1, ReplySend
<1>2. CASE LinkDown
  BY <1>2, LinkDownSend
<1>3. CASE RadioWrite /\ radio' = [radio EXCEPT !.pc = "written"]
           /\ UNCHANGED <<shadows, scratch, wanted, askedLearn, base, link, lock, mqtt, ended>>
  <2>1. /\ radio'.pc = "written" /\ radio'.dev = radio.dev /\ radio'.data = radio.data
        /\ radio'.clear = radio.clear /\ radio'.raw = radio.raw /\ radio'.learnt = radio.learnt
        /\ DOMAIN radio' = DOMAIN radio /\ Sending(radio)
    BY <1>3 DEF SendInv, RadioInv, TaskOK, RadioWrite, Sending
  <2>2. RadioInv'
    BY <2>1 DEF SendInv, RadioInv, TaskOK
  <2> QED
    BY <1>3, <2>2, ScratchKept, LinkKept, MqttKept DEF SendInv
<1>4. CASE RadioSent
  <2>1. LinkInv'
    BY <1>4, ReleaseType DEF RadioSent, SendInv, LinkInv
  <2> QED
    BY <1>4, <2>1, RadioIdle, ScratchKept, MqttKept DEF RadioSent, SendInv
<1> QED
  BY <1>1, <1>2, <1>3, <1>4 DEF RadioProceeds, RadioWrite

LEMMA TelegramsSend ==
  ASSUME SendInv, Telegrams
  PROVE  SendInv'
<1>1. PICK d, learnt : Hear(d, learnt) /\ d \in Devices
  BY SensorsAssumption DEF Telegrams
<1>2. radio' = [Idle EXCEPT !.pc = "publishing", !.dev = d, !.learnt = learnt]
      /\ UNCHANGED <<shadows, scratch, wanted, askedLearn, base, link, lock, mqtt, ended>>
  BY <1>1 DEF Hear
<1>3. /\ radio'.pc = "publishing" /\ radio'.dev = d /\ radio'.learnt = learnt /\ radio'.clear = FALSE
      /\ DOMAIN radio' = {"pc", "dev", "data", "clear", "raw", "learnt", "asked", "wanted"}
  BY <1>2 DEF Idle
<1>4. RadioInv'
  BY <1>1, <1>3 DEF RadioInv, TaskOK, Sending
<1> QED
  BY <1>2, <1>4, ScratchKept, LinkKept, MqttKept DEF SendInv

LEMMA FaultSend ==
  ASSUME SendInv, Fault
  PROVE  SendInv'
<1>1. CASE MqttWriteFails
  BY <1>1, EndSend DEF MqttWriteFails
<1>2. CASE LinkBreaks
  BY <1>2, LinkDownSend DEF LinkBreaks
<1>3. CASE BrokerDrop
  <2>1. LinkInv'
    BY <1>3 DEF BrokerDrop, SendInv, LinkInv
  <2> QED
    BY <1>3, <2>1, ScratchKept, MqttIdle, RadioIdle DEF BrokerDrop, SendInv
<1> QED
  BY <1>1, <1>2, <1>3 DEF Fault

LEMMA SendStep == SendInv /\ [Next]_vars => SendInv'
<1> SUFFICES ASSUME SendInv, [Next]_vars PROVE SendInv'
  OBVIOUS
<1>1. CASE Message
  BY <1>1, SingleSend, RawTopicSend, SendTopicSend, BulkSend DEF Message
<1>2. CASE MqttProceeds
  BY <1>2, MqttSend
<1>3. CASE RadioProceeds
  BY <1>3, RadioSend
<1>4. CASE Connects \/ ReadsBaseId
  <2>1. LinkInv'
    BY <1>4 DEF Connects, ReadsBaseId, SendInv, LinkInv
  <2> QED
    BY <1>4, <2>1, ScratchKept, MqttKept, RadioKept DEF Connects, ReadsBaseId, SendInv
<1>5. CASE Telegrams
  BY <1>5, TelegramsSend
<1>6. CASE Fault
  BY <1>6, FaultSend
<1>7. CASE Restart
  <2>1. LinkInv'
    BY <1>7 DEF Restart, SendInv, LinkInv
  <2> QED
    BY <1>7, <2>1, ScratchKept, MqttKept, RadioKept DEF Restart, SendInv
<1>8. CASE UNCHANGED vars
  BY <1>8, ScratchKept, LinkKept, MqttKept, RadioKept DEF vars, SendInv
<1> QED
  BY <1>1, <1>2, <1>3, <1>4, <1>5, <1>6, <1>7, <1>8 DEF Next

\* A telegram can be read, and names its sender.
LEMMA FormedReadable ==
  ASSUME NEW data, NEW sender, Formed(data, sender)
  PROVE  /\ Readable(Radio, data, <<3, 255, 255, 255, 255, 255, 0>>)
         /\ sender \in Addresses => Packet(Radio, data, <<3, 255, 255, 255, 255, 255, 0>>).sender = sender
<1>1. Len(data) \in Nat /\ Len(data) >= 6 /\ IsSequence(data)
  BY SequenceIs DEF Formed
<1>2. data # <<>>
  BY <1>1
<1>3. Len(<<3, 255, 255, 255, 255, 255, 0>>) = 7
  OBVIOUS
<1>4. data[1] # Ute
  BY DEF Formed, Ute, Rps, Bs1, Bs4, Vld
<1>5. ASSUME data[1] = Bs4 PROVE Len(data) >= 10
  <2>1. Len(data) = 10
    BY <1>5 DEF Formed
  <2> QED
    BY <2>1
<1>6. ASSUME data[1] \in {Bs1, Bs4, Ute} PROVE Len(data) > 6
  <2>1. CASE Len(data) = 7
    BY <2>1
  <2>2. CASE Len(data) = 10
    BY <2>2
  <2> QED
    BY <1>4, <1>6, <2>1, <2>2 DEF Formed
<1>7. Readable(Radio, data, <<3, 255, 255, 255, 255, 255, 0>>)
  BY <1>2, <1>3, <1>4, <1>5, <1>6 DEF Readable
<1> DEFINE from == SubSeq(data, Len(data) - 4, Len(data) - 1)
<1>8. ASSUME sender \in Addresses PROVE from = sender
  <2> DEFINE n == Len(data)
  <2>1. IsSequence(from) /\ Len(from) = n - 1 - (n - 4) + 1
        /\ \A i \in 1 .. n - 1 - (n - 4) + 1 : from[i] = data[n - 4 + i - 1]
    <3>1. n \in Nat /\ n - 4 \in Nat /\ n - 1 \in Nat /\ 1 <= n - 4 /\ n - 4 <= n - 1 + 1 /\ n - 1 <= n
      BY <1>1
    <3> HIDE DEF n
    <3> QED
      BY <1>1, <3>1, SequencePart DEF n
  <2>2. \A k \in 1 .. 4 : data[n - 5 + k] = sender[k]
    BY DEF Formed
  <2> HIDE DEF from
  <2>3. n - 1 - (n - 4) + 1 = 4 /\ \A i \in 1 .. 4 : n - 4 + i - 1 = n - 5 + i
    BY <1>1
  <2>4. ASSUME NEW k \in 1 .. 4 PROVE from[k] = sender[k]
    BY <2>1, <2>2, <2>3
  <2>5. from = [k \in 1 .. 4 |-> from[k]]
    BY <2>1, <2>3, SequenceIs
  <2>6. sender = [k \in 1 .. 4 |-> sender[k]]
    BY <1>8 DEF Addresses
  <2> QED
    BY <2>4, <2>5, <2>6
<1> HIDE DEF from
<1>9. Packet(Radio, data, <<3, 255, 255, 255, 255, 255, 0>>).sender = from
  BY DEF Packet, from
<1> QED
  BY <1>7, <1>8, <1>9

LEMMA SendTyped == SendInv => TypeOK
  BY DEF SendInv, ScratchInv, ScratchOK, LinkInv, MqttInv, RadioInv, TypeOK

LEMMA SendAddressed == SendInv => Addressed
<1> SUFFICES ASSUME SendInv, NEW t \in Tasks, t.pc = "written"
             PROVE  /\ Readable(Radio, t.data, <<3, 255, 255, 255, 255, 255, 0>>)
                    /\ Overrun(t) \/ Packet(Radio, t.data, <<3, 255, 255, 255, 255, 255, 0>>).sender = OwnSender(t.dev)
  BY DEF Addressed, OwnSender
<1>1. TaskOK(t) /\ Sending(t)
  BY DEF SendInv, MqttInv, RadioInv, Tasks, Sending
<1>2. t.dev \in Devices /\ Sent(t.dev, t.data, t.raw, t.learnt, OwnSender(t.dev))
  BY <1>1 DEF TaskOK
<1>3. OwnSender(t.dev) \in Addresses
  BY <1>2, SensorsAssumption DEF OwnSender
<1>4. PICK from : Formed(t.data, from) /\ (from = OwnSender(t.dev) \/ Overrun(t))
  BY <1>2 DEF Sent, Spoilt, Overrun
<1> QED
  BY <1>3, <1>4, FormedReadable

\* Every telegram that goes out can be read as a radio packet and comes from an address of the
\* transceiver's, whatever devices, commands and raw data it was built from and whatever happened
\* while it waited for the lock, but for those whose sender is overrun by default bytes or by the
\* answer to a teach-in because their payload is shorter than four bytes.
THEOREM AlwaysAddressed == Spec => []Addressed
  BY SendInit, SendStep, SendAddressed, PTL DEF Spec

\* Every variable keeps its type, and no device ever collects more than MaxFields fields
\* (_MAX_ACCUMULATED_FIELDS), however messages arrive and whatever the topics contain.
THEOREM Typed == Spec => []TypeOK
  BY SendInit, SendStep, SendTyped, PTL DEF Spec
=============================================================================
