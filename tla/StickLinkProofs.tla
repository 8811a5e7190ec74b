--------------------------- MODULE StickLinkProofs ---------------------------
(***************************************************************************)
(* Theorems about StickLink, for every choice of supported commands,       *)
(* whatever is sent, whatever fails and however often the link is          *)
(* replaced: the pacing of telegrams, the types, what the tags of the      *)
(* handshake are worth, and that the Base ID is one.                       *)
(*                                                                         *)
(* Each rests on an inductive invariant of its own: PaceInv; the types;    *)
(* the tags being the newest of what the stick still owes; and, for the    *)
(* Base ID, the order in which senders wake and commands come due.         *)
(***************************************************************************)
EXTENDS StickLink, ChainProofs

\* What makes the pacing right: the next deadline covers what is missing of the interval since
\* the last telegram, and the holder of the lock never sleeps less than up to the deadline.
PaceInv ==
  /\ gap \in 0 .. Interval /\ deadline \in 0 .. Interval /\ sleep \in 0 .. Interval
  /\ Interval <= gap + deadline
  /\ lockQ # <<>> => deadline <= sleep
  /\ burst = FALSE

LEMMA PaceInit == Init => PaceInv
  BY ConstantsAssumption DEF Init, PaceInv

\* A sender that takes the free lock sleeps up to the deadline; one that queues does not wake
\* the holder.
LEMMA EnqueuePaced ==
  ASSUME NEW who, NEW telegram, PaceInv, Enqueue(who, telegram), UNCHANGED <<deadline, gap, burst>>
  PROVE  PaceInv'
  BY DEF PaceInv, Enqueue

\* Closing the connection keeps the deadline, so the next connection is paced by it, too.
LEMMA ClosePaced ==
  ASSUME PaceInv, Close, sleep' \in {0, sleep, deadline}, lockQ' # <<>> => deadline <= sleep'
  PROVE  PaceInv'
  <1>1. UNCHANGED <<deadline, gap, burst>>
    BY DEF Close
  <1> QED
    BY <1>1, ConstantsAssumption DEF PaceInv

\* A send waits for the deadline, which has covered the interval, and sets the next one.
LEMMA SendPaced ==
  ASSUME PaceInv, Send
  PROVE  PaceInv'
  <1>1. lockQ # <<>> /\ sleep = 0
    BY DEF Send, SendAndWait
  <1>2. deadline = 0 /\ gap = Interval
    BY <1>1, ConstantsAssumption DEF PaceInv
  <1>3. deadline' = Interval /\ sleep' = (IF lockQ' = <<>> THEN 0 ELSE Interval)
    BY DEF Send, SendAndWait
  <1>4. gap' \in {0, Interval}
    BY <1>2 DEF Send, SendAndWait
  <1>5. burst' = FALSE
    <2>1. burst' = (burst \/ (link = "open" /\ gap < Interval))
      BY DEF Send, SendAndWait
    <2>2. ~(gap < Interval)
      BY <1>2, ConstantsAssumption
    <2> QED
      BY <2>1, <2>2 DEF PaceInv
  <1>6. Interval \in Nat /\ Interval <= Interval /\ Interval <= gap' + Interval
    <2>1. Interval \in Nat
      BY ConstantsAssumption
    <2>2. gap' \in Nat
      BY <1>4, <2>1
    <2>3. \A a, b \in Nat : b <= b /\ b <= a + b
      OBVIOUS
    <2> QED
      BY <2>1, <2>2, <2>3
  <1>7. gap' \in 0 .. Interval /\ deadline' \in 0 .. Interval /\ sleep' \in 0 .. Interval
    BY <1>3, <1>4, <1>6
  <1>8. lockQ' # <<>> => deadline' <= sleep'
    BY <1>3, <1>6
  <1> QED
    BY <1>3, <1>5, <1>6, <1>7, <1>8 DEF PaceInv

\* Every step keeps it, whichever task it is of.
LEMMA PaceStep == PaceInv /\ [Next]_vars => PaceInv'
<1> SUFFICES ASSUME PaceInv, [Next]_vars PROVE PaceInv'
  OBVIOUS
<1>1. CASE Connect
  BY <1>1, EnqueuePaced DEF Connect, ConnectKeeping
<1>2. CASE Receive
  BY <1>2 DEF Receive, PaceInv
<1>3. CASE Reply
  BY <1>3, EnqueuePaced DEF Reply
<1>4. CASE Notice
  <2>1. lockQ' = lockQ /\ sleep' = sleep /\ Close
    BY <1>4 DEF Notice
  <2> QED
    BY <2>1, ClosePaced DEF PaceInv
<1>5. CASE Send
  BY <1>5, SendPaced
<1>6. CASE SendFails
  <2>1. sleep' = (IF lockQ' = <<>> THEN 0 ELSE deadline) /\ Close
    BY <1>6 DEF SendFails
  <2>2. deadline <= deadline
    BY DEF PaceInv
  <2> QED
    BY <2>1, <2>2, ClosePaced
<1>7. CASE MqttSend
  BY <1>7, EnqueuePaced DEF MqttSend
<1>8. CASE MqttSendFails
  BY <1>8, ConstantsAssumption DEF MqttSendFails, ProcessEnds, PaceInv
<1>9. CASE BrokerDrop
  BY <1>9, ClosePaced DEF BrokerDrop
<1>10. CASE StickAnswers
  BY <1>10 DEF StickAnswers, PaceInv
<1>11. CASE LinkBreaks
  BY <1>11 DEF LinkBreaks, PaceInv
<1>12. CASE Tick
  BY <1>12, ConstantsAssumption DEF Tick, Less, PaceInv
<1>13. CASE UNCHANGED vars
  BY <1>13 DEF vars, PaceInv
<1> QED
  BY <1>1, <1>2, <1>3, <1>4, <1>5, <1>6, <1>7, <1>8, <1>9, <1>10, <1>11, <1>12, <1>13 DEF Next

\* For every pacing interval, backoff and choice of supported commands: no two telegrams ever
\* reach the stick within the interval, over any number of tasks, failures and connections.
THEOREM AlwaysPaced == Spec => []Paced
<1>1. PaceInv => Paced
  BY DEF PaceInv, Paced
<1> QED
  BY <1>1, PaceInit, PaceStep, PTL DEF Spec
-----------------------------------------------------------------------------
(* Types.                                                                  *)

\* The handshake is a sequence of commands with at least one in it.
LEMMA HandshakeCommands ==
  ASSUME NEW first \in BOOLEAN
  PROVE  /\ Handshake(first) \in Seq(Commands) /\ Handshake(first) # <<>>
         /\ Head(Handshake(first)) \in Commands /\ Tail(Handshake(first)) \in Seq(Commands)
  <1>1. <<"version", "idbase">> \in Seq(Commands) /\ <<"repeater_set">> \in Seq(Commands)
        /\ <<"repeater", "dutycycle">> \in Seq(Commands) /\ <<>> \in Seq(Commands)
    BY DEF Commands
  <1> DEFINE identity == IF first THEN <<"version", "idbase">> ELSE <<>>
             level == IF first /\ WantRepeater THEN <<"repeater_set">> ELSE <<>>
  <1>2. identity \in Seq(Commands) /\ level \in Seq(Commands)
    BY <1>1
  <1>3. identity \o level \in Seq(Commands)
    BY <1>2, ConcatProperties
  <1>4. Handshake(first) = (identity \o level) \o <<"repeater", "dutycycle">>
    BY DEF Handshake
  <1>5. Handshake(first) \in Seq(Commands) /\ Handshake(first) # <<>>
    <2> HIDE DEF identity, level
    <2> QED
      BY <1>1, <1>3, <1>4, ConcatProperties, EmptySeq
  <1> QED
    BY <1>5, HeadTailProperties

\* Whoever queues at the lock is a sender.
LEMMA EnqueueTyped ==
  ASSUME TypeOK, NEW who \in {"enocean", "mqtt"}, NEW telegram \in Telegrams, Enqueue(who, telegram)
  PROVE  lockQ' \in Seq(Senders) /\ sleep' \in 0 .. Interval
  <1>1. [who |-> who, telegram |-> telegram] \in Senders
    BY DEF Senders
  <1>2. lockQ \in Seq(Senders)
    BY DEF TypeOK
  <1>3. lockQ' \in Seq(Senders)
    BY <1>1, <1>2, AppendProperties DEF Enqueue
  <1> QED
    BY <1>3 DEF Enqueue, TypeOK

LEMMA CloseTyped ==
  ASSUME TypeOK, Close, lockQ' \in Seq(Senders), sleep' \in 0 .. Interval
  PROVE  TypeOK'
  BY ConstantsAssumption, EmptySeq DEF Close, TypeOK

LEMMA SendTyped ==
  ASSUME TypeOK, Send
  PROVE  TypeOK'
  <1> DEFINE sender == Head(lockQ)
             more == sender.who = "enocean" /\ task = "handshake" /\ todo # <<>>
             next == IF more THEN <<[who |-> "enocean", telegram |-> Head(todo)]>> ELSE <<>>
  <1>1. lockQ \in Seq(Senders) /\ lockQ # <<>> /\ todo \in Seq(Commands)
        /\ pending \in Seq(Commands) /\ stick \in Seq(Telegrams)
    BY DEF Send, SendAndWait, TypeOK
  <1>2. sender \in Senders /\ Tail(lockQ) \in Seq(Senders)
    BY <1>1, HeadTailProperties
  <1>3. more => Head(todo) \in Commands /\ Tail(todo) \in Seq(Commands)
    BY <1>1, HeadTailProperties
  <1>4. next \in Seq(Senders)
    <2>1. CASE more
      <3>1. [who |-> "enocean", telegram |-> Head(todo)] \in Senders
        BY <1>3, <2>1 DEF Senders, Telegrams
      <3> QED
        BY <2>1, <3>1
    <2>2. CASE ~more
      BY <2>2, EmptySeq
    <2> QED
      BY <2>1, <2>2
  <1>5. lockQ' \in Seq(Senders)
    <2>1. lockQ' = Tail(lockQ) \o next
      BY DEF Send, SendAndWait
    <2> QED
      BY <1>2, <1>4, <2>1, ConcatProperties
  <1>6. pending' \in Seq(Commands) /\ todo' \in Seq(Commands)
    <2>1. pending' = (IF more THEN Append(pending, Head(todo)) ELSE pending)
          /\ todo' = (IF more THEN Tail(todo) ELSE todo)
      BY DEF Send, SendAndWait
    <2> HIDE DEF more
    <2> QED
      BY <1>1, <1>3, <2>1, AppendProperties
  <1>7. stick' \in Seq(Telegrams)
    <2>1. sender.telegram \in Telegrams
      BY <1>2 DEF Senders
    <2>2. stick' = (IF link = "open" THEN Append(stick, sender.telegram) ELSE stick)
      BY DEF Send, SendAndWait
    <2> HIDE DEF sender
    <2> QED
      BY <1>1, <2>1, <2>2, AppendProperties
  <1>8. sleep' \in 0 .. Interval /\ deadline' \in 0 .. Interval /\ gap' \in 0 .. Interval
    BY ConstantsAssumption DEF Send, SendAndWait, TypeOK
  <1>9. task' \in {"closed", "handshake", "reading", "replying"}
    BY DEF Send, SendAndWait, TypeOK
  <1>10. burst' \in BOOLEAN /\ clean' \in BOOLEAN
    BY DEF Send, SendAndWait
  <1>11. UNCHANGED <<link, backoff, wire, field>>
    BY DEF Send, SendAndWait
  <1> QED
    BY <1>5, <1>6, <1>7, <1>8, <1>9, <1>10, <1>11 DEF TypeOK

LEMMA ReceiveTyped ==
  ASSUME TypeOK, Receive
  PROVE  TypeOK'
  <1>1. wire \in Seq(Telegrams) /\ wire # <<>> /\ pending \in Seq(Commands)
    BY DEF Receive, TypeOK
  <1>2. wire' \in Seq(Telegrams)
    BY <1>1, HeadTailProperties DEF Receive
  <1>3. pending' \in Seq(Commands)
    BY <1>1, HeadTailProperties DEF Receive
  <1>4. field' \in [Fields -> Commands \cup {None}]
    <2>1. CASE Readable
      <3>1. Head(wire) \in Commands
        BY <2>1, ConstantsAssumption DEF Readable
      <3>2. field' = [field EXCEPT ![Head(pending)] = Head(wire)]
        BY <2>1 DEF Receive
      <3> QED
        BY <3>1, <3>2 DEF TypeOK
    <2>2. CASE ~Readable
      BY <2>2 DEF Receive, TypeOK
    <2> QED
      BY <2>1, <2>2
  <1> QED
    BY <1>2, <1>3, <1>4 DEF Receive, TypeOK

LEMMA TypeInit == Init => TypeOK
<1>1. 0 \in 0 .. Interval /\ Interval \in 0 .. Interval /\ 0 \in 0 .. Backoff
  BY ConstantsAssumption
<1>2. <<>> \in Seq(Commands) /\ <<>> \in Seq(Senders) /\ <<>> \in Seq(Telegrams)
  BY EmptySeq
<1>3. [f \in Fields |-> None] \in [Fields -> Commands \cup {None}]
  OBVIOUS
<1> QED
  BY <1>1, <1>2, <1>3 DEF Init, TypeOK

\* Every step keeps the types.
LEMMA TypeStep == TypeOK /\ [Next]_vars => TypeOK'
<1> SUFFICES ASSUME TypeOK, [Next]_vars PROVE TypeOK'
  OBVIOUS
<1>0. Commands \subseteq Telegrams /\ "radio" \in Telegrams
  BY DEF Telegrams
<1>1. CASE Connect
  <2> DEFINE commands == Handshake(field["idbase"] = None)
  <2>1. commands \in Seq(Commands) /\ Head(commands) \in Commands /\ Tail(commands) \in Seq(Commands)
    BY HandshakeCommands
  <2>2. /\ link' = "open" /\ task' = "handshake" /\ clean' = TRUE
        /\ pending' = Append(<<>>, Head(commands)) /\ todo' = Tail(commands)
        /\ Enqueue("enocean", Head(commands))
        /\ UNCHANGED <<deadline, backoff, stick, wire, field, gap, burst>>
    BY <1>1 DEF Connect, ConnectKeeping
  <2> HIDE DEF commands
  <2>3. pending' \in Seq(Commands)
    BY <2>1, <2>2, AppendProperties, EmptySeq
  <2>4. lockQ' \in Seq(Senders) /\ sleep' \in 0 .. Interval
    BY <1>0, <2>1, <2>2, EnqueueTyped
  <2> QED
    BY <2>1, <2>2, <2>3, <2>4 DEF TypeOK
<1>2. CASE Receive
  BY <1>2, ReceiveTyped
<1>3. CASE Reply
  <2>1. lockQ' \in Seq(Senders) /\ sleep' \in 0 .. Interval
    BY <1>0, <1>3, EnqueueTyped DEF Reply
  <2> QED
    BY <1>3, <2>1 DEF Reply, TypeOK
<1>4. CASE Notice
  <2>1. lockQ' \in Seq(Senders) /\ sleep' \in 0 .. Interval
    BY <1>4 DEF Notice, TypeOK
  <2> QED
    BY <1>4, <2>1, CloseTyped DEF Notice
<1>5. CASE Send
  BY <1>5, SendTyped
<1>6. CASE SendFails
  <2>1. lockQ' \in Seq(Senders)
    BY <1>6, HeadTailProperties DEF SendFails, TypeOK
  <2>2. sleep' \in 0 .. Interval
    BY <1>6, ConstantsAssumption DEF SendFails, TypeOK
  <2> QED
    BY <1>6, <2>1, <2>2, CloseTyped DEF SendFails
<1>7. CASE MqttSend
  <2>1. lockQ' \in Seq(Senders) /\ sleep' \in 0 .. Interval
    BY <1>0, <1>7, EnqueueTyped DEF MqttSend
  <2> QED
    BY <1>7, <2>1 DEF MqttSend, TypeOK
<1>8. CASE MqttSendFails
  BY <1>8, ConstantsAssumption, EmptySeq DEF MqttSendFails, ProcessEnds, TypeOK
<1>9. CASE BrokerDrop
  <2>1. lockQ' \in Seq(Senders) /\ sleep' \in 0 .. Interval
    BY <1>9, ConstantsAssumption, EmptySeq DEF BrokerDrop
  <2> QED
    BY <1>9, <2>1, CloseTyped DEF BrokerDrop
<1>10. CASE StickAnswers
  <2>1. stick \in Seq(Telegrams) /\ stick # <<>> /\ wire \in Seq(Telegrams)
    BY <1>10 DEF StickAnswers, TypeOK
  <2>2. stick' \in Seq(Telegrams) /\ wire' \in Seq(Telegrams)
    BY <1>10, <2>1, HeadTailProperties, AppendProperties DEF StickAnswers
  <2> QED
    BY <1>10, <2>2 DEF StickAnswers, TypeOK
<1>11. CASE LinkBreaks
  BY <1>11, EmptySeq DEF LinkBreaks, TypeOK
<1>12. CASE Tick
  BY <1>12, ConstantsAssumption DEF Tick, Less, TypeOK
<1>13. CASE UNCHANGED vars
  BY <1>13 DEF vars, TypeOK
<1> QED
  BY <1>1, <1>2, <1>3, <1>4, <1>5, <1>6, <1>7, <1>8, <1>9, <1>10, <1>11, <1>12, <1>13 DEF Next

\* The queues hold what they are made for and the clocks stay within the interval, for every
\* value of the constants.
THEOREM Typed == Spec => []TypeOK
  BY TypeInit, TypeStep, PTL DEF Spec
-----------------------------------------------------------------------------
(* The tags and the RESPONSEs they stand for.                              *)

\* What reached the stick and is not answered or not read yet, and what waits for the lock
Sent == wire \o stick
Waiting == [i \in 1 .. Len(lockQ) |-> lockQ[i].telegram]

\* Who can be at the lock: the MQTT task with radio telegrams, the transceiver task once, with
\* a command in the handshake and a radio telegram when it replies.
LockInv ==
  /\ link = "closed" <=> task = "closed"
  /\ link = "closed" => wire = <<>> /\ stick = <<>> /\ todo = <<>>
  /\ \A i \in 1 .. Len(lockQ) :
       /\ lockQ[i].who = "mqtt" => lockQ[i].telegram = "radio"
       /\ lockQ[i].who = "enocean" =>
            /\ task \in {"handshake", "replying"}
            /\ lockQ[i].telegram = "radio" <=> task = "replying"
            /\ \A j \in 1 .. Len(lockQ) : lockQ[j].who = "enocean" => j = i

\* The tags are the newest part of what is outstanding.
Newest(tags, commands) ==
  /\ Len(tags) <= Len(commands)
  /\ \A i \in 1 .. Len(tags) : tags[i] = commands[Len(commands) - Len(tags) + i]

TagInv == link = "open" => Newest(pending, Outstanding)

\* As long as no radio telegram was written in the handshake, those on their way are behind
\* the commands, and there is none at all before the handshake is over.
CleanInv ==
  link = "open" /\ clean =>
    /\ pending = Outstanding
    /\ \A i, j \in 1 .. Len(Sent) : i < j /\ Sent[i] = "radio" => Sent[j] = "radio"
    /\ task = "handshake" => \A i \in 1 .. Len(Sent) : Sent[i] # "radio"

\* What keeps the Base ID true.  Who waits for the lock with no connection is through before
\* the next one begins, so the first command of a handshake is the first thing sent.
WakesFirst == link = "closed" /\ lockQ # <<>> => sleep < backoff

\* The version is asked for first only, and the duty cycle last.
TodoOrder ==
  \A i \in 1 .. Len(todo) : todo[i] # "version" /\ (todo[i] = "dutycycle" => i = Len(todo))

\* A version is the first to be answered and has the first tag; a duty cycle is the last.
DueOrder ==
  \A i \in 1 .. Len(Unanswered) :
    /\ Unanswered[i] = "version" => i = 1 /\ pending # <<>> /\ pending[1] = "version"
    /\ Unanswered[i] = "dutycycle" => todo = <<>>

\* The tag of the Base ID is not behind the RESPONSE it stands for.
IdentityDue ==
  link = "open" =>
    /\ Len(pending) <= Len(Unanswered)
    /\ \A i \in 1 .. Len(pending) :
         pending[i] = "idbase" => \E j \in i .. Len(Unanswered) : Unanswered[j] = "idbase"

\* It is popped before the RESPONSE with the duty cycle comes.
IdentityBeforeLoad ==
  link # "closed" =>
    \A i \in 1 .. Len(pending), j \in 1 .. Len(Sent) :
      pending[i] = "idbase" /\ Sent[j] = "dutycycle" => i < j

BaseInv ==
  WakesFirst /\ TodoOrder /\ DueOrder /\ IdentityDue /\ IdentityBeforeLoad /\ BaseIdTrue

LEMMA Queues ==
  ASSUME TypeOK
  PROVE  /\ Sent \in Seq(Telegrams) /\ Waiting \in Seq(Telegrams)
         /\ Len(Waiting) = Len(lockQ) /\ \A i \in 1 .. Len(lockQ) : Waiting[i] = lockQ[i].telegram
         /\ Unanswered = Sent \o Waiting /\ Unanswered \in Seq(Telegrams)
         /\ Outstanding \in Seq(Telegrams)
  <1>1. Sent \in Seq(Telegrams)
    BY ConcatProperties DEF Sent, TypeOK
  <1>2. Len(lockQ) \in Nat /\ \A i \in 1 .. Len(lockQ) : lockQ[i].telegram \in Telegrams
    <2>1. \A i \in 1 .. Len(lockQ) : lockQ[i] \in Senders
      BY ElementOfSeq DEF TypeOK
    <2> QED
      BY <2>1, LenProperties DEF TypeOK, Senders
  <1>3. Waiting \in Seq(Telegrams) /\ Len(Waiting) = Len(lockQ)
        /\ \A i \in 1 .. Len(lockQ) : Waiting[i] = lockQ[i].telegram
    BY <1>2 DEF Waiting
  <1>4. Unanswered = Sent \o Waiting
    BY DEF Unanswered, Sent, Waiting
  <1>5. Unanswered \in Seq(Telegrams)
    BY <1>1, <1>3, <1>4, ConcatProperties
  <1>6. Outstanding \in Seq(Telegrams)
    BY <1>5, OnlyType DEF Outstanding
  <1> QED
    BY <1>1, <1>3, <1>4, <1>5, <1>6

\* Where each task's step leaves what is unanswered: a sender that arrives is the last, ...
LEMMA EnqueueQueues ==
  ASSUME TypeOK, NEW who \in {"enocean", "mqtt"}, NEW telegram \in Telegrams, Enqueue(who, telegram),
         UNCHANGED <<wire, stick>>
  PROVE  /\ Sent' = Sent /\ Waiting' = Append(Waiting, telegram)
         /\ Unanswered' = Append(Unanswered, telegram)
  <1> DEFINE sender == [who |-> who, telegram |-> telegram]
  <1>1. lockQ \in Seq(Senders) /\ sender \in Senders
    BY DEF TypeOK, Senders
  <1>2. lockQ' = Append(lockQ, sender)
    BY DEF Enqueue
  <1>3. Len(lockQ') = Len(lockQ) + 1 /\ lockQ'[Len(lockQ) + 1] = sender /\ Len(lockQ) \in Nat
        /\ \A i \in 1 .. Len(lockQ) : lockQ'[i] = lockQ[i]
    BY <1>1, <1>2, AppendProperties
  <1>4. Sent' = Sent
    BY DEF Sent
  <1>5. Waiting' = Append(Waiting, telegram)
    <2> DEFINE longer == Append(Waiting, telegram)
    <2>1. longer \in Seq(Telegrams) /\ Len(longer) = Len(lockQ) + 1 /\ longer[Len(lockQ) + 1] = telegram
          /\ \A i \in 1 .. Len(lockQ) : longer[i] = lockQ[i].telegram
      BY Queues, AppendProperties
    <2>2. Waiting' = [i \in 1 .. Len(lockQ) + 1 |-> lockQ'[i].telegram]
      BY <1>3 DEF Waiting
    <2>3. \A i \in 1 .. Len(lockQ) + 1 : lockQ'[i].telegram = longer[i]
      <3>1. \A i \in 1 .. Len(lockQ) + 1 : i \in 1 .. Len(lockQ) \/ i = Len(lockQ) + 1
        BY <1>3
      <3> HIDE DEF longer
      <3> QED
        BY <1>3, <2>1, <3>1
    <2> HIDE DEF longer
    <2>4. longer = [i \in 1 .. Len(lockQ) + 1 |-> longer[i]]
      BY <2>1
    <2>5. Waiting' = longer
      BY <2>2, <2>3, <2>4
    <2> QED
      BY <2>5 DEF longer
  <1>6. Unanswered' = Sent' \o Waiting'
    BY DEF Unanswered, Sent, Waiting
  <1>7. Sent \o Append(Waiting, telegram) = Append(Sent \o Waiting, telegram)
    BY Queues
  <1> QED
    BY <1>4, <1>5, <1>6, <1>7, Queues

\* ... the holder goes to the stick, with the next command of the handshake behind the others,
More == Head(lockQ).who = "enocean" /\ task = "handshake" /\ todo # <<>>

LEMMA SendQueues ==
  ASSUME TypeOK, Send
  PROVE  /\ Waiting # <<>> /\ lockQ # <<>> /\ Head(Waiting) = Head(lockQ).telegram
         /\ Waiting' = IF More THEN Append(Tail(Waiting), Head(todo)) ELSE Tail(Waiting)
         /\ Sent' = IF link = "open" THEN Append(Sent, Head(Waiting)) ELSE Sent
         /\ link = "open" => Unanswered' = IF More THEN Append(Unanswered, Head(todo)) ELSE Unanswered
  <1> DEFINE next == IF More THEN <<[who |-> "enocean", telegram |-> Head(todo)]>> ELSE <<>>
  <1>1. /\ lockQ # <<>> /\ lockQ' = Tail(lockQ) \o next /\ wire' = wire
        /\ stick' = (IF link = "open" THEN Append(stick, Head(lockQ).telegram) ELSE stick)
    BY DEF Send, SendAndWait, More
  <1>2. /\ lockQ \in Seq(Senders) /\ wire \in Seq(Telegrams) /\ stick \in Seq(Telegrams)
        /\ todo \in Seq(Commands)
    BY DEF TypeOK
  <1>3. /\ Tail(lockQ) \in Seq(Senders) /\ Head(lockQ) = lockQ[1] /\ Len(lockQ) \in Nat \ {0}
        /\ Len(Tail(lockQ)) = Len(lockQ) - 1
        /\ \A i \in 1 .. Len(lockQ) - 1 : Tail(lockQ)[i] = lockQ[i + 1]
    BY <1>1, <1>2, EmptySeq, HeadTailProperties
  <1>4. /\ Waiting \in Seq(Telegrams) /\ Len(Waiting) = Len(lockQ) /\ Waiting # <<>>
        /\ Head(Waiting) = Head(lockQ).telegram
        /\ Tail(Waiting) \in Seq(Telegrams) /\ Len(Tail(Waiting)) = Len(lockQ) - 1
        /\ \A i \in 1 .. Len(lockQ) - 1 : Tail(Waiting)[i] = Tail(lockQ)[i].telegram
    <2>1. Waiting \in Seq(Telegrams) /\ Len(Waiting) = Len(lockQ)
          /\ \A i \in 1 .. Len(lockQ) : Waiting[i] = lockQ[i].telegram
      BY Queues
    <2>2. Waiting # <<>>
      BY <1>3, <2>1, EmptySeq
    <2>3. Head(Waiting) = Waiting[1] /\ Tail(Waiting) \in Seq(Telegrams)
          /\ Len(Tail(Waiting)) = Len(Waiting) - 1
          /\ \A i \in 1 .. Len(Waiting) - 1 : Tail(Waiting)[i] = Waiting[i + 1]
      BY <2>1, <2>2, HeadTailProperties
    <2>4. \A i \in 1 .. Len(lockQ) - 1 : Tail(Waiting)[i] = Tail(lockQ)[i].telegram
      BY <1>3, <2>1, <2>3
    <2> QED
      BY <1>3, <2>1, <2>2, <2>3, <2>4
  <1>5. Waiting' = IF More THEN Append(Tail(Waiting), Head(todo)) ELSE Tail(Waiting)
    <2>1. Waiting' = [i \in 1 .. Len(lockQ') |-> lockQ'[i].telegram]
      BY DEF Waiting
    <2>2. CASE More
      <3> DEFINE longer == Append(Tail(Waiting), Head(todo))
                 sender == [who |-> "enocean", telegram |-> Head(todo)]
      <3>1. Head(todo) \in Telegrams /\ sender \in Senders
        BY <1>2, <2>2, HeadTailProperties DEF More, Telegrams, Senders
      <3>2. lockQ' = Append(Tail(lockQ), sender)
        BY <1>1, <1>3, <2>2, <3>1, AppendIsConcat
      <3>3. Len(lockQ') = Len(lockQ) /\ lockQ'[Len(lockQ)] = sender
            /\ \A i \in 1 .. Len(lockQ) - 1 : lockQ'[i] = Tail(lockQ)[i]
        BY <1>3, <3>1, <3>2, AppendProperties
      <3>4. longer \in Seq(Telegrams) /\ Len(longer) = Len(lockQ) /\ longer[Len(lockQ)] = Head(todo)
            /\ \A i \in 1 .. Len(lockQ) - 1 : longer[i] = Tail(lockQ)[i].telegram
        BY <1>3, <1>4, <3>1, AppendProperties
      <3>5. sender.telegram = Head(todo)
        OBVIOUS
      <3> HIDE DEF longer, sender
      <3>6. \A i \in 1 .. Len(lockQ) : lockQ'[i].telegram = longer[i]
        <4>0. \A n \in Nat : \A i \in 1 .. n : i \in 1 .. n - 1 \/ i = n
          OBVIOUS
        <4>1. \A i \in 1 .. Len(lockQ) : i \in 1 .. Len(lockQ) - 1 \/ i = Len(lockQ)
          BY <1>3, <4>0
        <4> QED
          BY <3>3, <3>4, <3>5, <4>1
      <3>7. longer = [i \in 1 .. Len(lockQ) |-> longer[i]]
        BY <3>4
      <3>8. Waiting' = longer
        BY <2>1, <3>3, <3>6, <3>7
      <3> QED
        BY <2>2, <3>8 DEF longer
    <2>3. CASE ~More
      <3> DEFINE shorter == Tail(Waiting)
      <3>1. lockQ' = Tail(lockQ)
        BY <1>1, <1>3, <2>3, ConcatEmptySeq
      <3> HIDE DEF shorter
      <3>2. shorter \in Seq(Telegrams) /\ Len(shorter) = Len(lockQ')
            /\ \A i \in 1 .. Len(lockQ') : shorter[i] = lockQ'[i].telegram
        BY <1>3, <1>4, <3>1 DEF shorter
      <3>3. Waiting' = shorter
        BY <2>1, <3>2
      <3> QED
        BY <2>3, <3>3 DEF shorter
    <2> QED
      BY <2>2, <2>3
  <1>6. Sent' = IF link = "open" THEN Append(Sent, Head(Waiting)) ELSE Sent
    <2>0. Head(lockQ) \in Senders
      BY <1>1, <1>2, HeadTailProperties
    <2>1. Head(lockQ).telegram \in Telegrams
      BY <2>0 DEF Senders
    <2>2. wire \o Append(stick, Head(lockQ).telegram) = Append(wire \o stick, Head(lockQ).telegram)
      BY <1>2, <2>1
    <2> QED
      BY <1>1, <1>4, <2>2 DEF Sent
  <1>7. ASSUME link = "open"
        PROVE  Unanswered' = IF More THEN Append(Unanswered, Head(todo)) ELSE Unanswered
    <2>1. Unanswered' = Sent' \o Waiting' /\ Unanswered = Sent \o Waiting /\ Sent \in Seq(Telegrams)
      BY Queues DEF Unanswered, Sent, Waiting
    <2>2. Sent' = Append(Sent, Head(Waiting))
      BY <1>6, <1>7
    <2>3. Append(Sent, Head(Waiting)) \o Tail(Waiting) = Sent \o Waiting
      BY <1>4, <2>1
    <2>4. CASE More
      <3>1. Head(todo) \in Telegrams
        BY <1>2, <2>4, HeadTailProperties DEF More, Telegrams
      <3>2. Append(Sent, Head(Waiting)) \in Seq(Telegrams)
        BY <1>4, <2>1, HeadTailProperties, AppendProperties
      <3>3. Append(Sent, Head(Waiting)) \o Append(Tail(Waiting), Head(todo))
              = Append(Append(Sent, Head(Waiting)) \o Tail(Waiting), Head(todo))
        BY <1>4, <3>1, <3>2
      <3> QED
        BY <1>5, <2>1, <2>2, <2>3, <2>4, <3>3
    <2>5. CASE ~More
      BY <1>5, <2>1, <2>2, <2>3, <2>5
    <2> QED
      BY <2>4, <2>5
  <1> QED
    BY <1>1, <1>4, <1>5, <1>6, <1>7

\* ... and a RESPONSE that is read is the first.
LEMMA ReceiveQueues ==
  ASSUME TypeOK, Receive
  PROVE  /\ Waiting' = Waiting
         /\ Sent # <<>> /\ Head(Sent) = Head(wire) /\ Sent' = Tail(Sent)
         /\ Unanswered # <<>> /\ Head(Unanswered) = Head(wire) /\ Unanswered' = Tail(Unanswered)
  <1>1. wire \in Seq(Telegrams) /\ stick \in Seq(Telegrams) /\ wire # <<>>
        /\ wire' = Tail(wire) /\ stick' = stick /\ lockQ' = lockQ
    BY DEF Receive, TypeOK
  <1>2. Waiting' = Waiting
    BY <1>1 DEF Waiting
  <1>3. Sent # <<>> /\ Head(Sent) = Head(wire) /\ Sent' = Tail(Sent)
    BY <1>1 DEF Sent
  <1>4. Sent \in Seq(Telegrams) /\ Waiting \in Seq(Telegrams) /\ Unanswered = Sent \o Waiting
        /\ Unanswered' = Sent' \o Waiting'
    BY Queues DEF Unanswered, Sent, Waiting
  <1>5. (Sent \o Waiting) # <<>> /\ Head(Sent \o Waiting) = Head(Sent)
        /\ Tail(Sent \o Waiting) = Tail(Sent) \o Waiting
    BY <1>3, <1>4
  <1> QED
    BY <1>2, <1>3, <1>4, <1>5

\* The senders at the lock after one has arrived, ...
LEMMA EnqueueSenders ==
  ASSUME TypeOK, NEW who \in {"enocean", "mqtt"}, NEW telegram \in Telegrams, Enqueue(who, telegram)
  PROVE  /\ Len(lockQ) \in Nat /\ Len(lockQ') = Len(lockQ) + 1
         /\ \A i \in 1 .. Len(lockQ) : lockQ'[i] = lockQ[i]
         /\ lockQ'[Len(lockQ) + 1].who = who /\ lockQ'[Len(lockQ) + 1].telegram = telegram
         /\ \A i \in 1 .. Len(lockQ') : i \in 1 .. Len(lockQ) \/ i = Len(lockQ) + 1
  <1> DEFINE sender == [who |-> who, telegram |-> telegram]
  <1>1. lockQ \in Seq(Senders) /\ sender \in Senders
    BY DEF TypeOK, Senders
  <1>2. lockQ' = Append(lockQ, sender) /\ sender.who = who /\ sender.telegram = telegram
    BY DEF Enqueue
  <1> HIDE DEF sender
  <1>3. Len(lockQ) \in Nat /\ Len(lockQ') = Len(lockQ) + 1 /\ lockQ'[Len(lockQ) + 1] = sender
        /\ \A i \in 1 .. Len(lockQ) : lockQ'[i] = lockQ[i]
    BY <1>1, <1>2, AppendProperties
  <1>4. \A n \in Nat : \A i \in 1 .. n + 1 : i \in 1 .. n \/ i = n + 1
    OBVIOUS
  <1> QED
    BY <1>2, <1>3, <1>4

\* ... and after the holder has left: the rest moves up, and the next command may be behind it.
LEMMA LeaveSenders ==
  ASSUME TypeOK, lockQ # <<>>, lockQ' = Tail(lockQ)
  PROVE  /\ Len(lockQ) \in Nat \ {0} /\ Len(lockQ') = Len(lockQ) - 1 /\ Head(lockQ) = lockQ[1]
         /\ \A i \in 1 .. Len(lockQ') : i + 1 \in 1 .. Len(lockQ) /\ lockQ'[i] = lockQ[i + 1]
  <1>1. lockQ \in Seq(Senders)
    BY DEF TypeOK
  <1>2. Len(lockQ) \in Nat \ {0} /\ Len(Tail(lockQ)) = Len(lockQ) - 1 /\ Head(lockQ) = lockQ[1]
        /\ \A i \in 1 .. Len(lockQ) - 1 : Tail(lockQ)[i] = lockQ[i + 1]
    BY <1>1, EmptySeq, HeadTailProperties
  <1>3. \A n \in Nat \ {0} : \A i \in 1 .. n - 1 : i + 1 \in 1 .. n
    OBVIOUS
  <1> QED
    BY <1>2, <1>3

LEMMA SendSenders ==
  ASSUME TypeOK, Send
  PROVE  /\ Len(lockQ) \in Nat \ {0} /\ Head(lockQ) = lockQ[1]
         /\ \A i \in 1 .. Len(lockQ') :
              \/ i \in 1 .. Len(lockQ) - 1 /\ i + 1 \in 1 .. Len(lockQ) /\ lockQ'[i] = lockQ[i + 1]
              \/ More /\ i = Len(lockQ) /\ lockQ'[i] = [who |-> "enocean", telegram |-> Head(todo)]
  <1> DEFINE sender == [who |-> "enocean", telegram |-> Head(todo)]
  <1>1. lockQ # <<>> /\ lockQ' = Tail(lockQ) \o (IF More THEN <<sender>> ELSE <<>>)
    BY DEF Send, SendAndWait, More
  <1>2. lockQ \in Seq(Senders)
    BY DEF TypeOK
  <1>3. /\ Tail(lockQ) \in Seq(Senders) /\ Len(lockQ) \in Nat \ {0} /\ Head(lockQ) = lockQ[1]
        /\ Len(Tail(lockQ)) = Len(lockQ) - 1
        /\ \A i \in 1 .. Len(lockQ) - 1 : Tail(lockQ)[i] = lockQ[i + 1]
    BY <1>1, <1>2, EmptySeq, HeadTailProperties
  <1>4. \A n \in Nat \ {0} : \A i \in 1 .. n : (i \in 1 .. n - 1 /\ i + 1 \in 1 .. n) \/ i = n
    OBVIOUS
  <1>5. CASE More
    <2>1. sender \in Senders
      BY <1>5, HeadTailProperties DEF More, Telegrams, Senders, TypeOK
    <2> HIDE DEF sender
    <2>2. lockQ' = Append(Tail(lockQ), sender)
      BY <1>1, <1>3, <1>5, <2>1, AppendIsConcat
    <2>3. Len(lockQ') = Len(lockQ) /\ lockQ'[Len(lockQ)] = sender
          /\ \A i \in 1 .. Len(lockQ) - 1 : lockQ'[i] = Tail(lockQ)[i]
      BY <1>3, <2>1, <2>2, AppendProperties
    <2>4. \A i \in 1 .. Len(lockQ') :
            \/ i \in 1 .. Len(lockQ) - 1 /\ i + 1 \in 1 .. Len(lockQ) /\ lockQ'[i] = lockQ[i + 1]
            \/ i = Len(lockQ) /\ lockQ'[i] = sender
      BY <1>3, <1>4, <2>3, Zenon
    <2> QED
      BY <1>3, <1>5, <2>4 DEF sender
  <1>6. CASE ~More
    <2>1. lockQ' = Tail(lockQ)
      BY <1>1, <1>3, <1>6, ConcatEmptySeq
    <2>2. \A n \in Nat \ {0} : \A i \in 1 .. n - 1 : i + 1 \in 1 .. n
      OBVIOUS
    <2>3. \A i \in 1 .. Len(lockQ') : i \in 1 .. Len(lockQ) - 1 /\ i + 1 \in 1 .. Len(lockQ)
                                     /\ lockQ'[i] = lockQ[i + 1]
      BY <1>3, <2>1, <2>2
    <2> QED
      BY <1>3, <2>3, Zenon
  <1> QED
    BY <1>5, <1>6

LEMMA LockInit == Init => LockInv
  BY DEF Init, LockInv

LEMMA LockStep == TypeOK /\ LockInv /\ [Next]_vars => LockInv'
<1> SUFFICES ASSUME TypeOK, LockInv, [Next]_vars PROVE LockInv'
  OBVIOUS
<1>0. Commands \subseteq Telegrams /\ "radio" \in Telegrams /\ "radio" \notin Commands
      /\ \A i \in 1 .. Len(lockQ) : lockQ[i] \in Senders
  BY ElementOfSeq DEF Telegrams, Commands, TypeOK
<1>1. CASE Connect
  <2> DEFINE first == Head(Handshake(field["idbase"] = None))
  <2>1. first \in Commands
    BY HandshakeCommands
  <2>2. /\ link' = "open" /\ task' = "handshake" /\ task = "closed" /\ Enqueue("enocean", first)
    BY <1>1 DEF Connect, ConnectKeeping
  <2> HIDE DEF first
  <2>3. \A i \in 1 .. Len(lockQ) : lockQ[i].who = "mqtt"
    BY <1>0, <2>2 DEF LockInv, Senders
  <2>4. \A i \in 1 .. Len(lockQ') :
          \/ lockQ'[i].who = "mqtt" /\ lockQ'[i].telegram = "radio"
          \/ i = Len(lockQ) + 1 /\ lockQ'[i].who = "enocean" /\ lockQ'[i].telegram \in Commands
    BY <1>0, <2>1, <2>2, <2>3, EnqueueSenders DEF LockInv
  <2> QED
    BY <1>0, <2>2, <2>4 DEF LockInv
<1>2. CASE Receive
  BY <1>2 DEF Receive, LockInv
<1>3. CASE Reply
  <2>1. /\ task = "reading" /\ task' = "replying" /\ Enqueue("enocean", "radio")
        /\ UNCHANGED <<link, todo, wire, stick>>
    BY <1>3 DEF Reply
  <2>2. \A i \in 1 .. Len(lockQ) : lockQ[i].who = "mqtt"
    BY <1>0, <2>1 DEF LockInv, Senders
  <2>3. \A i \in 1 .. Len(lockQ') :
          /\ lockQ'[i].telegram = "radio"
          /\ lockQ'[i].who = "mqtt" \/ i = Len(lockQ) + 1
    BY <1>0, <2>1, <2>2, EnqueueSenders DEF LockInv
  <2> QED
    BY <2>1, <2>3 DEF LockInv
<1>4. CASE Notice
  BY <1>4 DEF Notice, Close, LockInv
<1>5. CASE Send
  <2>1. /\ link # "closed" /\ link' = link
        /\ task' = IF Head(lockQ).who = "enocean" /\ ~More THEN "reading" ELSE task
    BY <1>5 DEF Send, SendAndWait, More
  <2>2. \A i \in 1 .. Len(lockQ') :
          \/ \E j \in 2 .. Len(lockQ) : j = i + 1 /\ lockQ'[i] = lockQ[j]
          \/ More /\ i = Len(lockQ) /\ lockQ'[i].who = "enocean" /\ lockQ'[i].telegram \in Commands
    <3>1. More => Head(todo) \in Commands
      BY HeadTailProperties DEF More, TypeOK
    <3>2. [who |-> "enocean", telegram |-> Head(todo)].who = "enocean"
          /\ [who |-> "enocean", telegram |-> Head(todo)].telegram = Head(todo)
      OBVIOUS
    <3>3. \A n \in Nat \ {0} : \A i \in 1 .. n - 1 : i + 1 \in 2 .. n
      OBVIOUS
    <3> QED
      BY <1>5, <3>1, <3>2, <3>3, SendSenders
  <2>3. 1 \in 1 .. Len(lockQ) /\ Head(lockQ) = lockQ[1] /\ 2 .. Len(lockQ) \subseteq 1 .. Len(lockQ)
    BY <1>5, SendSenders
  <2>4. CASE Head(lockQ).who = "enocean"
    <3>1. \A j \in 2 .. Len(lockQ) : lockQ[j].who = "mqtt" /\ lockQ[j].telegram = "radio"
      <4>1. \A j \in 2 .. Len(lockQ) : lockQ[j].who # "enocean"
        BY <2>3, <2>4 DEF LockInv
      <4> QED
        BY <1>0, <2>3, <4>1 DEF LockInv, Senders
    <3>2. CASE More
      <4>1. task = "handshake" /\ task' = "handshake"
        BY <2>1, <3>2 DEF More
      <4>2. \A i \in 1 .. Len(lockQ') :
              \/ lockQ'[i].who = "mqtt" /\ lockQ'[i].telegram = "radio"
              \/ i = Len(lockQ) /\ lockQ'[i].who = "enocean" /\ lockQ'[i].telegram \in Commands
        BY <2>2, <3>1
      <4> QED
        BY <1>0, <2>1, <4>1, <4>2 DEF LockInv
    <3>3. CASE ~More
      <4>1. task' = "reading"
        BY <2>1, <2>4, <3>3
      <4>2. \A i \in 1 .. Len(lockQ') : lockQ'[i].who = "mqtt" /\ lockQ'[i].telegram = "radio"
        BY <2>2, <3>1, <3>3
      <4> QED
        BY <2>1, <4>1, <4>2 DEF LockInv
    <3> QED
      BY <3>2, <3>3
  <2>5. CASE Head(lockQ).who # "enocean"
    <3>1. ~More /\ task' = task
      BY <2>1, <2>5 DEF More
    <3>2. \A i \in 1 .. Len(lockQ') : i + 1 \in 1 .. Len(lockQ) /\ lockQ'[i] = lockQ[i + 1]
      BY <2>2, <2>3, <3>1
    <3>3. ASSUME NEW i \in 1 .. Len(lockQ')
          PROVE  /\ lockQ'[i].who = "mqtt" => lockQ'[i].telegram = "radio"
                 /\ lockQ'[i].who = "enocean" =>
                      /\ task' \in {"handshake", "replying"}
                      /\ lockQ'[i].telegram = "radio" <=> task' = "replying"
                      /\ \A j \in 1 .. Len(lockQ') : lockQ'[j].who = "enocean" => j = i
      <4>1. \A j \in 1 .. Len(lockQ') : j + 1 = i + 1 => j = i
        OBVIOUS
      <4> QED
        BY <3>1, <3>2, <4>1 DEF LockInv
    <3> QED
      BY <2>1, <3>1, <3>3 DEF LockInv
  <2> QED
    BY <2>4, <2>5
<1>6. CASE SendFails
  <2>1. lockQ # <<>> /\ lockQ' = Tail(lockQ) /\ Head(lockQ).who = "enocean" /\ Close
    BY <1>6 DEF SendFails
  <2>2. \A i \in 1 .. Len(lockQ') : i + 1 \in 1 .. Len(lockQ) /\ lockQ'[i] = lockQ[i + 1]
        /\ lockQ'[i].who = "mqtt"
    <3>1. /\ Len(lockQ) \in Nat \ {0} /\ lockQ[1].who = "enocean"
          /\ \A i \in 1 .. Len(lockQ') : i + 1 \in 1 .. Len(lockQ) /\ lockQ'[i] = lockQ[i + 1]
      BY <2>1, LeaveSenders
    <3>2. \A i \in 1 .. Len(lockQ') : i + 1 # 1 /\ 1 \in 1 .. Len(lockQ)
      BY <3>1
    <3> QED
      BY <1>0, <3>1, <3>2 DEF LockInv, Senders
  <2> QED
    BY <2>1, <2>2 DEF Close, LockInv
<1>7. CASE MqttSend
  <2>1. Enqueue("mqtt", "radio") /\ UNCHANGED <<link, task, todo, wire, stick>>
    BY <1>7 DEF MqttSend
  <2>2. \A i \in 1 .. Len(lockQ') :
          \/ lockQ'[i].who = "mqtt" /\ lockQ'[i].telegram = "radio"
          \/ i \in 1 .. Len(lockQ) /\ lockQ'[i] = lockQ[i]
    BY <1>0, <2>1, EnqueueSenders
  <2> QED
    BY <2>1, <2>2 DEF LockInv
<1>8. CASE MqttSendFails
  BY <1>8 DEF MqttSendFails, ProcessEnds, LockInv
<1>9. CASE BrokerDrop
  BY <1>9 DEF BrokerDrop, Close, LockInv
<1>10. CASE StickAnswers
  BY <1>10 DEF StickAnswers, LockInv
<1>11. CASE LinkBreaks
  BY <1>11 DEF LinkBreaks, LockInv
<1>12. CASE Tick
  BY <1>12 DEF Tick, LockInv
<1>13. CASE UNCHANGED vars
  BY <1>13 DEF vars, LockInv
<1> QED
  BY <1>1, <1>2, <1>3, <1>4, <1>5, <1>6, <1>7, <1>8, <1>9, <1>10, <1>11, <1>12, <1>13 DEF Next

LEMMA NewestAppend ==
  ASSUME NEW T, NEW p \in Seq(T), NEW o \in Seq(T), NEW x \in T, Newest(p, o)
  PROVE  Newest(Append(p, x), Append(o, x))
  BY AppendProperties DEF Newest

LEMMA NewestTail ==
  ASSUME NEW T, NEW p \in Seq(T), NEW o \in Seq(T), p # <<>>, Newest(p, o)
  PROVE  Newest(Tail(p), o) /\ o # <<>> /\ Newest(Tail(p), Tail(o))
  <1>1. Len(p) \in Nat \ {0} /\ Len(o) \in Nat \ {0} /\ Len(p) <= Len(o) /\ o # <<>>
    BY EmptySeq, LenProperties DEF Newest
  <1>2. Len(Tail(p)) = Len(p) - 1 /\ \A i \in 1 .. Len(p) - 1 : Tail(p)[i] = p[i + 1]
    BY HeadTailProperties
  <1>3. Len(Tail(o)) = Len(o) - 1 /\ \A i \in 1 .. Len(o) - 1 : Tail(o)[i] = o[i + 1]
    BY <1>1, HeadTailProperties
  <1>4. \A i \in 1 .. Len(p) - 1 : p[i + 1] = o[Len(o) - Len(p) + i + 1]
    BY <1>1 DEF Newest
  <1>5. Newest(Tail(p), o)
    BY <1>1, <1>2, <1>4 DEF Newest
  <1>6. Newest(Tail(p), Tail(o))
    <2>1. Len(Tail(p)) <= Len(Tail(o))
      BY <1>1, <1>2, <1>3
    <2>2. ASSUME NEW i \in 1 .. Len(Tail(p)) PROVE Tail(p)[i] = Tail(o)[Len(Tail(o)) - Len(Tail(p)) + i]
      <3>1. Len(Tail(o)) - Len(Tail(p)) + i = Len(o) - Len(p) + i
        BY <1>1, <1>2, <1>3
      <3>2. Len(o) - Len(p) + i \in 1 .. Len(o) - 1
        BY <1>1, <1>2
      <3>3. Tail(o)[Len(o) - Len(p) + i] = o[Len(o) - Len(p) + i + 1]
        BY <1>3, <3>2
      <3> QED
        BY <1>2, <1>4, <3>1, <3>3
    <2> QED
      BY <2>1, <2>2 DEF Newest
  <1> QED
    BY <1>1, <1>5, <1>6

\* A new connection begins with the first command behind the radio telegrams at the lock.
LEMMA ConnectQueues ==
  ASSUME TypeOK, LockInv, Connect
  PROVE  LET first == Head(Handshake(field["idbase"] = None)) IN
         /\ Sent' = <<>> /\ pending' = <<first>> /\ Outstanding' = <<first>>
         /\ Unanswered' = Append(Unanswered, first) /\ Unanswered = Waiting
         /\ \A i \in 1 .. Len(Unanswered) : Unanswered[i] = "radio"
  <1> DEFINE first == Head(Handshake(field["idbase"] = None))
  <1>1. first \in Commands /\ first \in Telegrams /\ "radio" \notin Commands
    BY HandshakeCommands DEF Telegrams, Commands
  <1>2. /\ task = "closed" /\ Enqueue("enocean", first) /\ UNCHANGED <<wire, stick>>
        /\ pending' = Append(<<>>, first)
    BY DEF Connect, ConnectKeeping
  <1> HIDE DEF first
  <1>3. Sent = <<>>
    BY <1>2 DEF LockInv, Sent
  <1>4. \A i \in 1 .. Len(Waiting) : Waiting[i] = "radio"
    <2>1. \A i \in 1 .. Len(lockQ) : lockQ[i] \in Senders
      BY ElementOfSeq DEF TypeOK
    <2>2. \A i \in 1 .. Len(lockQ) : lockQ[i].telegram = "radio"
      BY <1>2, <2>1 DEF LockInv, Senders
    <2> QED
      BY <2>2, Queues
  <1>5. Unanswered = Waiting
    BY <1>3, Queues, ConcatEmptySeq
  <1>6. Sent' = Sent /\ Unanswered' = Append(Unanswered, first)
    BY <1>1, <1>2, EnqueueQueues
  <1>7. Outstanding = <<>>
    BY <1>1, <1>4, <1>5, Queues, OnlyNone DEF Outstanding
  <1>8. Outstanding' = Append(Outstanding, first)
    BY <1>1, <1>6, Queues, OnlyAppend DEF Outstanding
  <1>9. Append(<<>>, first) = <<first>>
    OBVIOUS
  <1> QED
    BY <1>2, <1>3, <1>4, <1>5, <1>6, <1>7, <1>8, <1>9 DEF first

\* What a step of a connected daemon does to the commands outstanding
LEMMA RadioOutstanding ==
  ASSUME TypeOK, Unanswered' = Append(Unanswered, "radio")
  PROVE  Outstanding' = Outstanding
  <1>1. "radio" \in Telegrams /\ "radio" \notin Commands /\ Unanswered \in Seq(Telegrams)
    BY Queues DEF Telegrams, Commands
  <1>2. Only(Append(Unanswered, "radio"), Commands) = Only(Unanswered, Commands)
    BY <1>1, OnlyAppend
  <1> QED
    BY <1>2 DEF Outstanding

LEMMA SendOutstanding ==
  ASSUME TypeOK, Send, link = "open"
  PROVE  Outstanding' = IF More THEN Append(Outstanding, Head(todo)) ELSE Outstanding
  <1>1. CASE More
    <2>1. Head(todo) \in Commands /\ Head(todo) \in Telegrams
      BY <1>1, HeadTailProperties DEF More, TypeOK, Telegrams
    <2>2. Unanswered' = Append(Unanswered, Head(todo))
      BY <1>1, SendQueues
    <2> QED
      BY <1>1, <2>1, <2>2, Queues, OnlyAppend DEF Outstanding
  <1>2. CASE ~More
    <2>1. Unanswered' = Unanswered
      BY <1>2, SendQueues
    <2> QED
      BY <1>2, <2>1 DEF Outstanding
  <1> QED
    BY <1>1, <1>2

LEMMA ReceiveOutstanding ==
  ASSUME TypeOK, Receive
  PROVE  IF Head(wire) \in Commands
           THEN Outstanding # <<>> /\ Head(Outstanding) = Head(wire) /\ Outstanding' = Tail(Outstanding)
           ELSE Outstanding' = Outstanding
  <1>1. Unanswered \in Seq(Telegrams) /\ Unanswered # <<>> /\ Head(Unanswered) = Head(wire)
        /\ Unanswered' = Tail(Unanswered)
    BY ReceiveQueues, Queues
  <1>2. IF Head(Unanswered) \in Commands
          THEN /\ Only(Unanswered, Commands) # <<>>
               /\ Head(Only(Unanswered, Commands)) = Head(Unanswered)
               /\ Tail(Only(Unanswered, Commands)) = Only(Tail(Unanswered), Commands)
          ELSE Only(Unanswered, Commands) = Only(Tail(Unanswered), Commands)
    BY <1>1, OnlyTail
  <1>3. Outstanding = Only(Unanswered, Commands) /\ Outstanding' = Only(Tail(Unanswered), Commands)
    BY <1>1 DEF Outstanding
  <1> QED
    BY <1>1, <1>2, <1>3

LEMMA AnswerQueues ==
  ASSUME TypeOK, StickAnswers
  PROVE  Sent' = Sent /\ Waiting' = Waiting /\ Unanswered' = Unanswered
  <1>1. /\ stick \in Seq(Telegrams) /\ wire \in Seq(Telegrams) /\ stick # <<>> /\ lockQ' = lockQ
        /\ wire' = Append(wire, Head(stick)) /\ stick' = Tail(stick)
    BY DEF StickAnswers, TypeOK
  <1>2. Append(wire, Head(stick)) \o Tail(stick) = wire \o stick
    BY <1>1
  <1> QED
    BY <1>1, <1>2 DEF Sent, Waiting, Unanswered

LEMMA TagInit == Init => TagInv
  BY DEF Init, TagInv

\* The tags stay the newest part: what the step of a task does to them it does to the commands.
LEMMA TagStep == TypeOK /\ LockInv /\ TagInv /\ [Next]_vars => TagInv'
<1> SUFFICES ASSUME TypeOK, LockInv, TagInv, [Next]_vars, link' = "open" PROVE Newest(pending', Outstanding')
  BY DEF TagInv
<1>0. pending \in Seq(Telegrams) /\ Outstanding \in Seq(Telegrams) /\ "radio" \in Telegrams
  <2>1. Commands \subseteq Telegrams /\ "radio" \in Telegrams
    BY DEF Telegrams
  <2> QED
    BY <2>1, Queues, SeqMonotonic DEF TypeOK
<1>1. CASE Connect
  <2> DEFINE first == Head(Handshake(field["idbase"] = None))
  <2>1. pending' = <<first>> /\ Outstanding' = <<first>>
    BY <1>1, ConnectQueues
  <2> QED
    BY <2>1 DEF Newest
<1>2. CASE Receive
  <2>1. link = "open" /\ pending' = IF pending = <<>> THEN pending ELSE Tail(pending)
    BY <1>2 DEF Receive
  <2>2. CASE pending = <<>>
    <3>1. Outstanding' \in Seq(Telegrams)
      BY <1>0, <1>2, ReceiveOutstanding, HeadTailProperties
    <3> QED
      BY <2>1, <2>2, <3>1, LenProperties DEF Newest
  <2>3. CASE pending # <<>>
    <3>1. Newest(pending, Outstanding)
      BY <2>1 DEF TagInv
    <3>2. Newest(Tail(pending), Outstanding) /\ Newest(Tail(pending), Tail(Outstanding))
      BY <1>0, <2>3, <3>1, NewestTail
    <3>3. Outstanding' = Outstanding \/ Outstanding' = Tail(Outstanding)
      BY <1>2, ReceiveOutstanding
    <3> QED
      BY <2>1, <2>3, <3>2, <3>3
  <2> QED
    BY <2>2, <2>3
<1>3. CASE Reply
  <2>1. Outstanding' = Outstanding /\ UNCHANGED <<link, pending>>
    BY <1>0, <1>3, EnqueueQueues, RadioOutstanding DEF Reply
  <2> QED
    BY <2>1 DEF TagInv
<1>4. CASE Notice
  BY <1>4 DEF Notice, Close
<1>5. CASE Send
  <2>1. link = "open" /\ pending' = IF More THEN Append(pending, Head(todo)) ELSE pending
    BY <1>5 DEF Send, SendAndWait, More
  <2>2. Newest(pending, Outstanding)
    BY <2>1 DEF TagInv
  <2>3. Outstanding' = IF More THEN Append(Outstanding, Head(todo)) ELSE Outstanding
    BY <1>5, <2>1, SendOutstanding
  <2>4. More => Head(todo) \in Telegrams
    BY HeadTailProperties DEF More, TypeOK, Telegrams
  <2>5. CASE More
    <3>1. Newest(Append(pending, Head(todo)), Append(Outstanding, Head(todo)))
      BY <1>0, <2>2, <2>4, <2>5, NewestAppend
    <3> QED
      BY <2>1, <2>3, <2>5, <3>1
  <2>6. CASE ~More
    BY <2>1, <2>2, <2>3, <2>6
  <2> QED
    BY <2>5, <2>6
<1>6. CASE SendFails
  BY <1>6 DEF SendFails, Close
<1>7. CASE MqttSend
  <2>1. Outstanding' = Outstanding /\ UNCHANGED <<link, pending>>
    BY <1>0, <1>7, EnqueueQueues, RadioOutstanding DEF MqttSend
  <2> QED
    BY <2>1 DEF TagInv
<1>8. CASE MqttSendFails
  BY <1>8 DEF MqttSendFails, ProcessEnds
<1>9. CASE BrokerDrop
  BY <1>9 DEF BrokerDrop, Close
<1>10. CASE StickAnswers
  <2>1. Outstanding' = Outstanding
    BY <1>10, AnswerQueues DEF Outstanding
  <2> QED
    BY <1>10, <2>1 DEF StickAnswers, TagInv
<1>11. CASE LinkBreaks
  BY <1>11 DEF LinkBreaks
<1>12. CASE Tick
  BY <1>12 DEF Tick, TagInv, Outstanding, Unanswered
<1>13. CASE UNCHANGED vars
  BY <1>13 DEF vars, TagInv, Outstanding, Unanswered
<1> QED
  BY <1>1, <1>2, <1>3, <1>4, <1>5, <1>6, <1>7, <1>8, <1>9, <1>10, <1>11, <1>12, <1>13 DEF Next

\* For every choice of commands the stick supports, any number of reconnects, failures and radio
\* telegrams in between: a RESPONSE never pops the tag of a command before the one it answers.
THEOREM TagsAreTheNewest == Spec => []TagsNeverBehind
<1> DEFINE Inv == TypeOK /\ LockInv /\ TagInv
<1>1. Init => Inv
  BY TypeInit, LockInit, TagInit
<1>2. Inv /\ [Next]_vars => Inv'
  BY TypeStep, LockStep, TagStep
<1>3. Inv => TagsNeverBehind
  BY DEF TagInv, Newest, TagsNeverBehind
<1> HIDE DEF Inv
<1> QED
  BY <1>1, <1>2, <1>3, PTL DEF Spec
-----------------------------------------------------------------------------
(* Alignment, unless a radio telegram came in the middle of the handshake. *)

LEMMA CleanInit == Init => CleanInv
  BY DEF Init, CleanInv

\* Behind the last command there are radio telegrams only, so a RESPONSE to one of these comes
\* when no tag is left to be popped.
LEMMA ReceiveClean ==
  ASSUME TypeOK, LockInv, CleanInv, Receive, link' = "open", clean'
  PROVE  CleanInv'
  <1>1. /\ link = "open" /\ clean /\ task = "reading" /\ task' = task
        /\ pending' = IF pending = <<>> THEN pending ELSE Tail(pending)
    BY DEF Receive
  <1>2. /\ pending = Outstanding
        /\ \A i, j \in 1 .. Len(Sent) : i < j /\ Sent[i] = "radio" => Sent[j] = "radio"
    BY <1>1 DEF CleanInv
  <1>3. /\ Sent \in Seq(Telegrams) /\ Waiting \in Seq(Telegrams) /\ Unanswered = Sent \o Waiting
        /\ Unanswered \in Seq(Telegrams) /\ Sent # <<>> /\ Head(Sent) = Head(wire) /\ Sent' = Tail(Sent)
    BY Queues, ReceiveQueues
  <1>4. Len(Sent) \in Nat \ {0} /\ Head(Sent) = Sent[1] /\ Len(Sent') = Len(Sent) - 1
        /\ \A i \in 1 .. Len(Sent) - 1 : Sent'[i] = Sent[i + 1]
    BY <1>3, HeadTailProperties, EmptySeq
  <1>5. \A i, j \in 1 .. Len(Sent') : i < j /\ Sent'[i] = "radio" => Sent'[j] = "radio"
    <2>1. ASSUME NEW i \in 1 .. Len(Sent'), NEW j \in 1 .. Len(Sent'), i < j, Sent'[i] = "radio"
          PROVE  Sent'[j] = "radio"
      <3>1. i + 1 \in 1 .. Len(Sent) /\ j + 1 \in 1 .. Len(Sent) /\ i + 1 < j + 1
            /\ i \in 1 .. Len(Sent) - 1 /\ j \in 1 .. Len(Sent) - 1
        BY <1>4, <2>1
      <3> QED
        BY <1>2, <1>4, <2>1, <3>1
    <2> QED
      BY <2>1
  <1>6. pending' = Outstanding'
    <2>1. CASE Head(wire) \in Commands
      BY <1>1, <1>2, <2>1, ReceiveOutstanding
    <2>2. CASE Head(wire) \notin Commands
      <3>1. Sent[1] = "radio" /\ "radio" \notin Commands
        BY <1>3, <1>4, <2>2, ElementOfSeq DEF Telegrams, Commands
      <3>2. \A i \in 1 .. Len(Sent) : Sent[i] = "radio"
        BY <1>2, <1>4, <3>1
      <3>3. \A i \in 1 .. Len(Waiting) : Waiting[i] = "radio"
        <4>1. \A i \in 1 .. Len(lockQ) : lockQ[i] \in Senders
          BY ElementOfSeq DEF TypeOK
        <4>2. \A i \in 1 .. Len(lockQ) : lockQ[i].telegram = "radio"
          BY <1>1, <4>1 DEF LockInv, Senders
        <4> QED
          BY <4>2, Queues
      <3>4. \A i \in 1 .. Len(Unanswered) : Unanswered[i] = "radio"
        BY <1>3, <3>2, <3>3, ConcatProperties
      <3>5. Outstanding = <<>>
        BY <1>3, <3>1, <3>4, OnlyNone DEF Outstanding
      <3> QED
        BY <1>1, <1>2, <2>2, <3>5, ReceiveOutstanding
    <2> QED
      BY <2>1, <2>2
  <1> QED
    BY <1>1, <1>5, <1>6 DEF CleanInv

\* A telegram that is written is the last.  In the handshake it is a command, afterwards not.
LEMMA SendClean ==
  ASSUME TypeOK, LockInv, CleanInv, Send, link' = "open", clean'
  PROVE  CleanInv'
  <1>1. /\ link = "open" /\ clean
        /\ ~(task = "handshake" /\ Head(lockQ).telegram = "radio")
        /\ pending' = IF More THEN Append(pending, Head(todo)) ELSE pending
        /\ task' = IF Head(lockQ).who = "enocean" /\ ~More THEN "reading" ELSE task
    BY DEF Send, SendAndWait, More
  <1>2. /\ pending = Outstanding
        /\ \A i, j \in 1 .. Len(Sent) : i < j /\ Sent[i] = "radio" => Sent[j] = "radio"
        /\ task = "handshake" => \A i \in 1 .. Len(Sent) : Sent[i] # "radio"
    BY <1>1 DEF CleanInv
  <1>3. pending' = Outstanding'
    BY <1>1, <1>2, SendOutstanding
  <1> DEFINE telegram == Head(lockQ).telegram
  <1>4. /\ Len(lockQ) \in Nat \ {0} /\ Head(lockQ) = lockQ[1] /\ 1 \in 1 .. Len(lockQ)
        /\ lockQ[1] \in Senders
    BY SendSenders, ElementOfSeq DEF TypeOK
  <1>5. telegram \in Telegrams /\ Sent \in Seq(Telegrams) /\ Sent' = Append(Sent, telegram)
    BY <1>1, <1>4, SendQueues, Queues DEF Senders
  <1>6. task # "handshake" => telegram = "radio"
    BY <1>4 DEF LockInv, Senders
  <1> HIDE DEF telegram
  <1>7. /\ Len(Sent') = Len(Sent) + 1 /\ Sent'[Len(Sent) + 1] = telegram /\ Len(Sent) \in Nat
        /\ \A i \in 1 .. Len(Sent) : Sent'[i] = Sent[i]
    BY <1>5, AppendProperties
  <1>8. \A i \in 1 .. Len(Sent') : i \in 1 .. Len(Sent) \/ i = Len(Sent) + 1
    BY <1>7
  <1>9. CASE task = "handshake"
    <2>1. \A i \in 1 .. Len(Sent') : Sent'[i] # "radio"
      BY <1>1, <1>2, <1>7, <1>8, <1>9 DEF telegram
    <2> QED
      BY <1>3, <2>1 DEF CleanInv
  <1>10. CASE task # "handshake"
    <2>1. task' # "handshake" /\ telegram = "radio"
      BY <1>1, <1>6, <1>10
    <2>2. \A i, j \in 1 .. Len(Sent') : i < j /\ Sent'[i] = "radio" => Sent'[j] = "radio"
      <3>1. ASSUME NEW i \in 1 .. Len(Sent'), NEW j \in 1 .. Len(Sent'), i < j, Sent'[i] = "radio"
            PROVE  Sent'[j] = "radio"
        <4>1. CASE j = Len(Sent) + 1
          BY <1>7, <2>1, <4>1
        <4>2. CASE j \in 1 .. Len(Sent)
          <5>1. i \in 1 .. Len(Sent)
            BY <3>1, <4>2
          <5> QED
            BY <1>2, <1>7, <3>1, <4>2, <5>1
        <4> QED
          BY <1>8, <4>1, <4>2
      <3> QED
        BY <3>1
    <2> QED
      BY <1>3, <2>1, <2>2 DEF CleanInv
  <1> QED
    BY <1>9, <1>10

LEMMA CleanStep == TypeOK /\ LockInv /\ CleanInv /\ [Next]_vars => CleanInv'
<1> SUFFICES ASSUME TypeOK, LockInv, CleanInv, [Next]_vars, link' = "open", clean' PROVE CleanInv'
  BY DEF CleanInv
<1>0. "radio" \in Telegrams
  BY DEF Telegrams
<1>1. CASE Connect
  <2>1. pending' = Outstanding' /\ Sent' = <<>>
    BY <1>1, ConnectQueues
  <2> QED
    BY <2>1 DEF CleanInv
<1>2. CASE Receive
  BY <1>2, ReceiveClean
<1>3. CASE Reply
  <2>1. Outstanding' = Outstanding /\ Sent' = Sent /\ UNCHANGED <<link, pending, clean>>
        /\ task' # "handshake"
    BY <1>0, <1>3, EnqueueQueues, RadioOutstanding DEF Reply
  <2> QED
    BY <2>1 DEF CleanInv
<1>4. CASE Notice
  BY <1>4 DEF Notice, Close
<1>5. CASE Send
  BY <1>5, SendClean
<1>6. CASE SendFails
  BY <1>6 DEF SendFails, Close
<1>7. CASE MqttSend
  <2>1. Outstanding' = Outstanding /\ Sent' = Sent /\ UNCHANGED <<link, task, pending, clean>>
    BY <1>0, <1>7, EnqueueQueues, RadioOutstanding DEF MqttSend
  <2> QED
    BY <2>1 DEF CleanInv
<1>8. CASE MqttSendFails
  BY <1>8 DEF MqttSendFails, ProcessEnds
<1>9. CASE BrokerDrop
  BY <1>9 DEF BrokerDrop, Close
<1>10. CASE StickAnswers
  <2>1. Outstanding' = Outstanding /\ Sent' = Sent /\ UNCHANGED <<link, task, pending, clean>>
    BY <1>10, AnswerQueues DEF StickAnswers, Outstanding
  <2> QED
    BY <2>1 DEF CleanInv
<1>11. CASE LinkBreaks
  BY <1>11 DEF LinkBreaks
<1>12. CASE Tick
  BY <1>12 DEF Tick, CleanInv, Sent, Outstanding, Unanswered
<1>13. CASE UNCHANGED vars
  BY <1>13 DEF vars, CleanInv, Sent, Outstanding, Unanswered
<1> QED
  BY <1>1, <1>2, <1>3, <1>4, <1>5, <1>6, <1>7, <1>8, <1>9, <1>10, <1>11, <1>12, <1>13 DEF Next

\* Without a radio telegram in the middle of the handshake the tags are exactly the RESPONSEs
\* due, across any number of reconnects, replies and commands before and after.
THEOREM AlignedWhenClean == Spec => []AlignedUnlessInterleaved
<1> DEFINE Inv == TypeOK /\ LockInv /\ CleanInv
<1>1. Init => Inv
  BY TypeInit, LockInit, CleanInit
<1>2. Inv /\ [Next]_vars => Inv'
  BY TypeStep, LockStep, CleanStep
<1>3. Inv => AlignedUnlessInterleaved
  BY DEF CleanInv, AlignedUnlessInterleaved
<1> HIDE DEF Inv
<1> QED
  BY <1>1, <1>2, <1>3, PTL DEF Spec
-----------------------------------------------------------------------------
(* The Base ID, if the pacing interval is shorter than the reconnect delay *)

LEMMA BaseInit == Init => BaseInv
<1> SUFFICES ASSUME Init PROVE BaseInv
  OBVIOUS
<1>1. /\ Unanswered = <<>> /\ Sent = <<>> /\ Len(Unanswered) = 0 /\ Len(Sent) = 0
      /\ Len(todo) = 0 /\ Len(pending) = 0
  BY DEF Init, Unanswered, Sent
<1>2. field["idbase"] = None /\ lockQ = <<>> /\ link = "closed"
  BY DEF Init, Fields
<1> QED
  BY <1>1, <1>2 DEF BaseInv, WakesFirst, TodoOrder, DueOrder, IdentityDue, IdentityBeforeLoad, BaseIdTrue

\* In the handshake a version comes first, a Base ID later, and the duty cycle last.
LEMMA HandshakeOrder ==
  ASSUME NEW first \in BOOLEAN
  PROVE  LET commands == Handshake(first) IN
         /\ Head(commands) \notin {"idbase", "dutycycle"}
         /\ Tail(commands) # <<>>
         /\ \A i \in 1 .. Len(Tail(commands)) :
              /\ Tail(commands)[i] # "version"
              /\ Tail(commands)[i] = "dutycycle" => i = Len(Tail(commands))
  <1> DEFINE identity == IF first THEN <<"version", "idbase">> ELSE <<>>
             level == IF first /\ WantRepeater THEN <<"repeater_set">> ELSE <<>>
             last == <<"repeater", "dutycycle">>
             body == identity \o level
             commands == Handshake(first)
  <1>1. last \in Seq(Commands) /\ Len(last) = 2 /\ last[1] = "repeater" /\ last[2] = "dutycycle"
    BY DEF Commands
  <1>2. /\ identity \in Seq(Commands) /\ Len(identity) \in {0, 2}
        /\ Len(identity) = 2 => identity[1] = "version" /\ identity[2] = "idbase"
    <2>1. /\ <<>> \in Seq(Commands) /\ Len(<<>>) = 0
          /\ <<"version", "idbase">> \in Seq(Commands) /\ Len(<<"version", "idbase">>) = 2
          /\ <<"version", "idbase">>[1] = "version" /\ <<"version", "idbase">>[2] = "idbase" /\ 0 # 2
      BY DEF Commands
    <2>2. CASE first
      BY <2>1, <2>2, Zenon
    <2>3. CASE ~first
      BY <2>1, <2>3, Zenon
    <2> QED
      BY <2>2, <2>3
  <1>3. /\ level \in Seq(Commands) /\ Len(level) \in {0, 1}
        /\ Len(level) = 1 => level[1] = "repeater_set" /\ Len(identity) = 2
    <2>1. /\ <<>> \in Seq(Commands) /\ Len(<<>>) = 0
          /\ <<"repeater_set">> \in Seq(Commands) /\ Len(<<"repeater_set">>) = 1
          /\ <<"repeater_set">>[1] = "repeater_set" /\ Len(<<"version", "idbase">>) = 2 /\ 0 # 1
      BY DEF Commands
    <2>2. CASE first /\ WantRepeater
      BY <2>1, <2>2, Zenon
    <2>3. CASE ~(first /\ WantRepeater)
      BY <2>1, <2>3, Zenon
    <2> QED
      BY <2>2, <2>3
  <1>4. commands = body \o last
    BY DEF Handshake
  <1> HIDE DEF identity, level, last, commands
  <1>5. /\ body \in Seq(Commands) /\ Len(body) = Len(identity) + Len(level)
        /\ \A i \in 1 .. Len(identity) : body[i] = identity[i]
        /\ \A i \in 1 .. Len(level) : body[Len(identity) + i] = level[i]
    BY <1>2, <1>3, ConcatProperties, ConcatIndex
  <1> HIDE DEF body
  <1>6. /\ Len(body) \in 0 .. 3 /\ (Len(body) > 0 => body[1] = "version")
        /\ \A i \in 1 .. Len(body) : body[i] # "dutycycle" /\ (i > 1 => body[i] # "version")
    <2>1. CASE Len(identity) = 0
      <3>1. Len(level) = 0
        BY <1>3, <2>1
      <3> QED
        BY <1>5, <2>1, <3>1
    <2>2. CASE Len(identity) = 2 /\ Len(level) = 0
      BY <1>2, <1>5, <2>2
    <2>3. CASE Len(identity) = 2 /\ Len(level) = 1
      <3>1. Len(body) = 3 /\ body[1] = "version" /\ body[2] = "idbase" /\ body[3] = "repeater_set"
        BY <1>2, <1>3, <1>5, <2>3
      <3> QED
        BY <3>1
    <2> QED
      BY <1>2, <1>3, <2>1, <2>2, <2>3
  <1>7. /\ commands \in Seq(Commands) /\ Len(commands) = Len(body) + 2
        /\ \A i \in 1 .. Len(body) : commands[i] = body[i]
        /\ commands[Len(body) + 1] = "repeater" /\ commands[Len(body) + 2] = "dutycycle"
    <2>0. \A s, t \in Seq(Commands) :
            /\ s \o t \in Seq(Commands) /\ Len(s \o t) = Len(s) + Len(t)
            /\ \A i \in 1 .. Len(s) : (s \o t)[i] = s[i]
            /\ \A i \in 1 .. Len(t) : (s \o t)[Len(s) + i] = t[i]
      BY ConcatProperties, ConcatIndex
    <2>1. /\ (body \o last) \in Seq(Commands) /\ Len(body \o last) = Len(body) + Len(last)
          /\ \A i \in 1 .. Len(body) : (body \o last)[i] = body[i]
          /\ \A i \in 1 .. Len(last) : (body \o last)[Len(body) + i] = last[i]
      BY <1>1, <1>5, <2>0, Zenon
    <2>2. Len(last) = 2
      BY <1>1
    <2>3. 1 \in 1 .. Len(last) /\ 2 \in 1 .. Len(last)
      BY <1>1
    <2> QED
      BY <1>1, <1>4, <2>1, <2>2, <2>3
  <1>8. /\ Head(commands) = commands[1] /\ Tail(commands) \in Seq(Commands)
        /\ Len(Tail(commands)) = Len(body) + 1
        /\ \A i \in 1 .. Len(body) + 1 : Tail(commands)[i] = commands[i + 1]
    <2>1. commands # <<>>
      BY <1>6, <1>7
    <2> QED
      BY <1>6, <1>7, <2>1, HeadTailProperties
  <1>9. Head(commands) \notin {"idbase", "dutycycle"}
    BY <1>6, <1>7, <1>8
  <1>10. Tail(commands) # <<>>
    BY <1>6, <1>8
  <1>11. ASSUME NEW i \in 1 .. Len(Tail(commands))
         PROVE  /\ Tail(commands)[i] # "version"
                /\ Tail(commands)[i] = "dutycycle" => i = Len(Tail(commands))
    <2>1. Tail(commands)[i] = commands[i + 1] /\ i \in Nat \ {0} /\ i <= Len(body) + 1
      BY <1>6, <1>8
    <2>2. CASE i + 1 \in 1 .. Len(body)
      <3>1. commands[i + 1] = body[i + 1] /\ i + 1 > 1
        BY <1>7, <2>1, <2>2
      <3> QED
        BY <1>6, <2>1, <2>2, <3>1
    <2>3. CASE i + 1 = Len(body) + 1
      BY <1>6, <1>7, <2>1, <2>3
    <2>4. CASE i + 1 = Len(body) + 2
      BY <1>6, <1>7, <1>8, <2>1, <2>4
    <2> QED
      BY <1>6, <2>1, <2>2, <2>3, <2>4
  <1> QED
    BY <1>9, <1>10, <1>11 DEF commands

LEMMA UnansweredIndex ==
  ASSUME TypeOK
  PROVE  /\ Len(Sent) \in Nat /\ Len(Waiting) \in Nat /\ Len(pending) \in Nat /\ Len(todo) \in Nat
         /\ Len(Unanswered) = Len(Sent) + Len(Waiting)
         /\ \A i \in 1 .. Len(Sent) : Unanswered[i] = Sent[i]
         /\ \A i \in 1 .. Len(Waiting) : Unanswered[Len(Sent) + i] = Waiting[i]
  <1>1. Sent \in Seq(Telegrams) /\ Waiting \in Seq(Telegrams) /\ Unanswered = Sent \o Waiting
    BY Queues
  <1>2. Len(pending) \in Nat /\ Len(todo) \in Nat
    BY LenProperties DEF TypeOK
  <1> QED
    BY <1>1, <1>2, ConcatProperties, ConcatIndex, LenProperties

\* When the connection is given up, only radio telegrams still wait for the lock.
LEMMA CloseBase ==
  ASSUME TypeOK', LockInv', BaseInv, Close, lockQ' # <<>> => sleep' < Backoff
  PROVE  BaseInv'
  <1>1. /\ link' = "closed" /\ task' = "closed" /\ todo' = <<>> /\ backoff' = Backoff /\ field' = field
        /\ wire' = <<>> /\ stick' = <<>>
    BY DEF Close
  <1>2. Unanswered' = Waiting' /\ Len(Waiting') = Len(lockQ') /\ Len(todo') = 0
    BY <1>1 DEF Unanswered, Waiting
  <1>3. \A i \in 1 .. Len(lockQ') : lockQ'[i].telegram = "radio" /\ Waiting'[i] = lockQ'[i].telegram
    <2>1. \A i \in 1 .. Len(lockQ') : lockQ'[i] \in Senders
      BY ElementOfSeq DEF TypeOK
    <2> QED
      BY <1>1, <2>1 DEF LockInv, Senders, Waiting
  <1>4. WakesFirst' /\ TodoOrder' /\ DueOrder' /\ IdentityDue' /\ IdentityBeforeLoad'
    BY <1>1, <1>2, <1>3 DEF WakesFirst, TodoOrder, DueOrder, IdentityDue, IdentityBeforeLoad
  <1> QED
    BY <1>1, <1>4 DEF BaseInv, BaseIdTrue

LEMMA ConnectBase ==
  ASSUME TypeOK, LockInv, BaseInv, Connect
  PROVE  BaseInv'
  <1> DEFINE commands == Handshake(field["idbase"] = None)
             first == Head(commands)
  <1>1. first \notin {"idbase", "dutycycle"} /\ first \in Commands
    BY HandshakeOrder, HandshakeCommands
  <1>2. Tail(commands) # <<>> /\ TodoOrder'
    <2>1. /\ Tail(commands) # <<>>
          /\ \A i \in 1 .. Len(Tail(commands)) :
               /\ Tail(commands)[i] # "version"
               /\ Tail(commands)[i] = "dutycycle" => i = Len(Tail(commands))
      BY HandshakeOrder
    <2>2. todo' = Tail(commands)
      BY DEF Connect, ConnectKeeping
    <2> HIDE DEF commands
    <2> QED
      BY <2>1, <2>2 DEF TodoOrder
  <1>3. /\ Sent' = <<>> /\ pending' = <<first>>
        /\ Unanswered' = Append(Unanswered, first) /\ Unanswered = Waiting
    BY ConnectQueues
  <1>4. task = "closed" /\ backoff = 0 /\ link' = "open" /\ field' = field
    BY DEF Connect, ConnectKeeping
  <1>5. lockQ = <<>>
    <2>1. sleep \in Nat
      BY ConstantsAssumption DEF TypeOK
    <2> QED
      BY <1>4, <2>1 DEF LockInv, BaseInv, WakesFirst
  <1> HIDE DEF first
  <1>6. Unanswered' = <<first>> /\ Len(<<first>>) = 1 /\ <<first>>[1] = first /\ Len(Sent') = 0
    <2>1. Unanswered = <<>>
      BY <1>3, <1>5 DEF Waiting
    <2> QED
      BY <1>3, <2>1
  <1>7. DueOrder'
    <2>1. \A i \in 1 .. 1 : i = 1
      OBVIOUS
    <2>2. <<first>> # <<>>
      OBVIOUS
    <2>3. \A i \in 1 .. Len(Unanswered') : i = 1 /\ Unanswered'[i] = first
      BY <1>6, <2>1
    <2> QED
      BY <1>1, <1>3, <1>6, <2>2, <2>3 DEF DueOrder
  <1>8. WakesFirst' /\ IdentityDue' /\ IdentityBeforeLoad'
    BY <1>1, <1>3, <1>4, <1>6 DEF WakesFirst, IdentityDue, IdentityBeforeLoad
  <1> QED
    BY <1>2, <1>4, <1>7, <1>8 DEF BaseInv, BaseIdTrue

\* A RESPONSE is read into the Base ID only if it is one: a version has its own tag, and by the
\* time the duty cycle comes the tag of the Base ID is gone.
LEMMA ReceiveBase ==
  ASSUME TypeOK, LockInv, BaseInv, Receive
  PROVE  BaseInv'
  <1>1. /\ task = "reading" /\ link' = link /\ link # "closed" /\ UNCHANGED <<todo, lockQ, sleep, backoff>>
        /\ pending' = IF pending = <<>> THEN pending ELSE Tail(pending)
        /\ field' = IF Readable THEN [field EXCEPT ![Head(pending)] = Head(wire)] ELSE field
    BY DEF Receive, LockInv
  <1>2. /\ Unanswered \in Seq(Telegrams) /\ Unanswered # <<>> /\ Head(Unanswered) = Head(wire)
        /\ Unanswered' = Tail(Unanswered)
        /\ Sent \in Seq(Telegrams) /\ Sent # <<>> /\ Head(Sent) = Head(wire) /\ Sent' = Tail(Sent)
    BY ReceiveQueues, Queues
  <1>3. /\ Len(Unanswered) \in Nat \ {0} /\ Len(Unanswered') = Len(Unanswered) - 1
        /\ Unanswered[1] = Head(wire)
        /\ \A i \in 1 .. Len(Unanswered') : i + 1 \in 1 .. Len(Unanswered) /\ Unanswered'[i] = Unanswered[i + 1]
    BY <1>2, HeadTailProperties, EmptySeq
  <1>4. /\ Len(Sent) \in Nat \ {0} /\ Len(Sent') = Len(Sent) - 1 /\ Sent[1] = Head(wire)
        /\ \A i \in 1 .. Len(Sent') : i + 1 \in 1 .. Len(Sent) /\ Sent'[i] = Sent[i + 1]
    BY <1>2, HeadTailProperties, EmptySeq
  <1>5. /\ Len(pending) \in Nat
        /\ pending # <<>> => /\ Len(pending) # 0 /\ Len(pending') = Len(pending) - 1
                             /\ Head(pending) = pending[1]
        /\ pending = <<>> => Len(pending') = 0
        /\ \A i \in 1 .. Len(pending') : i + 1 \in 1 .. Len(pending) /\ pending'[i] = pending[i + 1]
    <2>1. pending \in Seq(Commands)
      BY DEF TypeOK
    <2>2. CASE pending = <<>>
      BY <1>1, <2>1, <2>2
    <2>3. CASE pending # <<>>
      BY <1>1, <2>1, <2>3, HeadTailProperties, EmptySeq
    <2> QED
      BY <2>2, <2>3
  <1>6. WakesFirst' /\ TodoOrder'
    BY <1>1 DEF WakesFirst, BaseInv, TodoOrder
  <1>7. DueOrder'
    <2>1. ASSUME NEW i \in 1 .. Len(Unanswered')
          PROVE  Unanswered'[i] # "version" /\ (Unanswered'[i] = "dutycycle" => todo' = <<>>)
      <3>1. i + 1 # 1
        OBVIOUS
      <3> QED
        BY <1>1, <1>3, <2>1, <3>1 DEF BaseInv, DueOrder
    <2> QED
      BY <2>1 DEF DueOrder
  <1>8. IdentityDue'
    <2>1. SUFFICES ASSUME link = "open"
          PROVE  /\ Len(pending') <= Len(Unanswered')
                 /\ \A i \in 1 .. Len(pending') : pending'[i] = "idbase" =>
                      \E j \in i .. Len(Unanswered') : Unanswered'[j] = "idbase"
      BY <1>1 DEF IdentityDue
    <2>2. Len(pending) <= Len(Unanswered)
      BY <2>1 DEF BaseInv, IdentityDue
    <2>3. Len(pending') <= Len(Unanswered')
      BY <1>3, <1>5, <2>2
    <2>4. ASSUME NEW i \in 1 .. Len(pending'), pending'[i] = "idbase"
          PROVE  \E j \in i .. Len(Unanswered') : Unanswered'[j] = "idbase"
      <3>1. PICK k \in i + 1 .. Len(Unanswered) : Unanswered[k] = "idbase"
        BY <1>5, <2>1, <2>4 DEF BaseInv, IdentityDue
      <3>2. k - 1 \in i .. Len(Unanswered') /\ k - 1 \in 1 .. Len(Unanswered') /\ k - 1 + 1 = k
        BY <1>3, <2>4
      <3>3. Unanswered'[k - 1] = Unanswered[k]
        BY <1>3, <3>2
      <3> QED
        BY <3>1, <3>2, <3>3
    <2> QED
      BY <2>3, <2>4
  <1>9. IdentityBeforeLoad'
    <2>1. ASSUME NEW i \in 1 .. Len(pending'), NEW j \in 1 .. Len(Sent'),
                 pending'[i] = "idbase", Sent'[j] = "dutycycle"
          PROVE  i < j
      <3>1. i + 1 < j + 1
        BY <1>1, <1>4, <1>5, <2>1 DEF BaseInv, IdentityBeforeLoad
      <3> QED
        BY <3>1
    <2> QED
      BY <2>1 DEF IdentityBeforeLoad
  <1>10. BaseIdTrue'
    <2>1. CASE Readable /\ Head(pending) = "idbase"
      <3>1. pending # <<>> /\ pending[1] = "idbase" /\ 1 \in 1 .. Len(pending)
        BY <1>5, <2>1 DEF Readable
      <3>2. Head(wire) \in {"version", "idbase", "dutycycle"}
        <4>1. "idbase" \in Fits(Head(wire))
          BY <2>1 DEF Readable
        <4> QED
          BY <4>1, ConstantsAssumption, <2>1 DEF Fits, Readable, Commands
      <3>3. Head(wire) # "version"
        <4>1. 1 \in 1 .. Len(Unanswered)
          BY <1>3
        <4> QED
          BY <1>3, <3>1, <4>1 DEF BaseInv, DueOrder
      <3>4. Head(wire) # "dutycycle"
        <4>1. 1 \in 1 .. Len(Sent) /\ ~(1 < 1)
          BY <1>4
        <4> QED
          BY <1>1, <1>4, <3>1, <4>1 DEF BaseInv, IdentityBeforeLoad
      <3>5. field'["idbase"] = "idbase"
        BY <1>1, <2>1, <3>2, <3>3, <3>4 DEF TypeOK, Fields
      <3> QED
        BY <3>5 DEF BaseIdTrue
    <2>2. CASE ~(Readable /\ Head(pending) = "idbase")
      <3>1. field'["idbase"] = field["idbase"]
        BY <1>1, <2>2 DEF TypeOK, Fields
      <3> QED
        BY <3>1 DEF BaseInv, BaseIdTrue
    <2> QED
      BY <2>1, <2>2
  <1> QED
    BY <1>6, <1>7, <1>8, <1>9, <1>10 DEF BaseInv

\* A command of the handshake leaves the lock and the next one is behind all the others.
LEMMA SendBase ==
  ASSUME TypeOK, LockInv, BaseInv, Send
  PROVE  BaseInv'
  <1>1. /\ link # "closed" /\ UNCHANGED <<link, field, backoff>>
        /\ pending' = IF More THEN Append(pending, Head(todo)) ELSE pending
        /\ todo' = IF More THEN Tail(todo) ELSE todo
    BY DEF Send, SendAndWait, More
  <1>2. /\ Waiting \in Seq(Telegrams) /\ Waiting # <<>> /\ Len(Waiting) = Len(lockQ)
        /\ Waiting' = IF More THEN Append(Tail(Waiting), Head(todo)) ELSE Tail(Waiting)
        /\ Sent \in Seq(Telegrams)
        /\ Sent' = IF link = "open" THEN Append(Sent, Head(Waiting)) ELSE Sent
    BY SendQueues, Queues
  <1> DEFINE S == Len(Sent)
             W == Len(Waiting)
             P == Len(pending)
  <1>3. S \in Nat /\ W \in Nat \ {0} /\ P \in Nat /\ Len(Unanswered) = S + W
    BY <1>2, UnansweredIndex, EmptySeq
  <1>4. More => /\ todo # <<>> /\ Len(todo) \in Nat \ {0} /\ Head(todo) = todo[1] /\ Head(todo) \in Commands
                /\ Len(todo') = Len(todo) - 1
                /\ \A i \in 1 .. Len(todo') : i + 1 \in 1 .. Len(todo) /\ todo'[i] = todo[i + 1]
                /\ Len(pending') = P + 1 /\ pending'[P + 1] = Head(todo)
                /\ \A i \in 1 .. P : pending'[i] = pending[i]
    <2>1. todo \in Seq(Commands) /\ pending \in Seq(Commands)
      BY DEF TypeOK
    <2>2. SUFFICES ASSUME More
          PROVE  /\ todo # <<>> /\ Len(todo) \in Nat \ {0} /\ Head(todo) = todo[1] /\ Head(todo) \in Commands
                 /\ Len(todo') = Len(todo) - 1
                 /\ \A i \in 1 .. Len(todo') : i + 1 \in 1 .. Len(todo) /\ todo'[i] = todo[i + 1]
                 /\ Len(pending') = P + 1 /\ pending'[P + 1] = Head(todo)
                 /\ \A i \in 1 .. P : pending'[i] = pending[i]
      OBVIOUS
    <2>3. todo # <<>> /\ todo' = Tail(todo) /\ pending' = Append(pending, Head(todo))
      BY <1>1, <2>2 DEF More
    <2>4. /\ Len(todo) \in Nat \ {0} /\ Head(todo) = todo[1] /\ Head(todo) \in Commands
          /\ Len(todo') = Len(todo) - 1
          /\ \A i \in 1 .. Len(todo') : i + 1 \in 1 .. Len(todo) /\ todo'[i] = todo[i + 1]
      BY <2>1, <2>3, HeadTailProperties, EmptySeq
    <2>5. /\ Len(pending') = P + 1 /\ pending'[P + 1] = Head(todo)
          /\ \A i \in 1 .. P : pending'[i] = pending[i]
      BY <2>1, <2>3, <2>4, AppendProperties
    <2> QED
      BY <2>3, <2>4, <2>5
  <1>5. ~More => todo' = todo /\ pending' = pending
    BY <1>1
  <1>6. TodoOrder'
    <2>1. CASE More
      BY <1>4, <2>1 DEF BaseInv, TodoOrder
    <2>2. CASE ~More
      BY <1>5, <2>2 DEF BaseInv, TodoOrder
    <2> QED
      BY <2>1, <2>2
  <1>7. /\ Len(Unanswered') \in Nat
        /\ \A i \in 1 .. Len(Unanswered') :
             \/ \E k \in 1 .. Len(Unanswered) : i <= k /\ Unanswered'[i] = Unanswered[k]
             \/ More /\ Unanswered'[i] = Head(todo)
    <2>1. /\ \A i \in 1 .. S : Unanswered[i] = Sent[i]
          /\ \A i \in 1 .. W : Unanswered[S + i] = Waiting[i]
      BY UnansweredIndex
    <2>2. CASE link = "open"
      <3>1. Unanswered \in Seq(Telegrams) /\ Unanswered' = IF More THEN Append(Unanswered, Head(todo)) ELSE Unanswered
        BY <2>2, SendQueues, Queues
      <3>2. CASE More
        <4>1. Head(todo) \in Telegrams
          BY <1>4, <3>2 DEF Telegrams
        <4>2. /\ Len(Unanswered') = Len(Unanswered) + 1 /\ Unanswered'[Len(Unanswered) + 1] = Head(todo)
              /\ \A i \in 1 .. Len(Unanswered) : Unanswered'[i] = Unanswered[i]
          BY <3>1, <3>2, <4>1, AppendProperties
        <4>3. \A i \in 1 .. Len(Unanswered') : (i \in 1 .. Len(Unanswered) /\ i <= i) \/ i = Len(Unanswered) + 1
          BY <1>3, <4>2
        <4>4. Len(Unanswered') \in Nat
          BY <1>3, <4>2
        <4> QED
          BY <3>2, <4>2, <4>3, <4>4
      <3>3. CASE ~More
        <4>1. \A i \in 1 .. Len(Unanswered) : i <= i
          OBVIOUS
        <4>2. Len(Unanswered) \in Nat
          BY <1>3
        <4> QED
          BY <3>1, <3>3, <4>1, <4>2
      <3> QED
        BY <3>2, <3>3
    <2>3. CASE link # "open"
      <3>1. Sent' = Sent
        BY <1>2, <2>3
      <3>2. /\ Tail(Waiting) \in Seq(Telegrams) /\ Len(Tail(Waiting)) = W - 1
            /\ \A i \in 1 .. W - 1 : Tail(Waiting)[i] = Waiting[i + 1]
        BY <1>2, HeadTailProperties
      <3>3. /\ Waiting' \in Seq(Telegrams) /\ Len(Waiting') \in Nat
            /\ \A i \in 1 .. Len(Waiting') :
                 \/ i \in 1 .. W - 1 /\ Waiting'[i] = Waiting[i + 1]
                 \/ More /\ Waiting'[i] = Head(todo)
        <4>1. CASE More
          <5>1. Waiting' = Append(Tail(Waiting), Head(todo)) /\ Head(todo) \in Telegrams
            BY <1>2, <1>4, <4>1 DEF Telegrams
          <5>2. /\ Waiting' \in Seq(Telegrams) /\ Len(Waiting') = W /\ Waiting'[W] = Head(todo)
                /\ \A i \in 1 .. W - 1 : Waiting'[i] = Waiting[i + 1]
            BY <1>3, <3>2, <5>1, AppendProperties
          <5>3. \A i \in 1 .. W : i \in 1 .. W - 1 \/ i = W
            BY <1>3
          <5> QED
            BY <1>3, <4>1, <5>2, <5>3
        <4>2. CASE ~More
          BY <1>2, <1>3, <3>2, <4>2
        <4> QED
          BY <4>1, <4>2
      <3>4. Unanswered' = Sent' \o Waiting'
        BY DEF Unanswered, Sent, Waiting
      <3>5. /\ Len(Unanswered') = S + Len(Waiting')
            /\ \A i \in 1 .. S : Unanswered'[i] = Sent[i]
            /\ \A i \in 1 .. Len(Waiting') : Unanswered'[S + i] = Waiting'[i]
        BY <1>2, <3>1, <3>3, <3>4, ConcatProperties, ConcatIndex
      <3>6. ASSUME NEW i \in 1 .. Len(Unanswered')
            PROVE  \/ \E k \in 1 .. Len(Unanswered) : i <= k /\ Unanswered'[i] = Unanswered[k]
                   \/ More /\ Unanswered'[i] = Head(todo)
        <4>1. CASE i \in 1 .. S
          <5>1. i \in 1 .. Len(Unanswered) /\ i <= i /\ Unanswered'[i] = Unanswered[i]
            BY <1>3, <2>1, <3>5, <4>1
          <5> QED
            BY <5>1
        <4>2. CASE i \notin 1 .. S
          <5> DEFINE w == i - S
          <5>1. w \in 1 .. Len(Waiting') /\ S + w = i
            BY <1>3, <3>3, <3>5, <4>2
          <5> HIDE DEF w
          <5>2. Unanswered'[i] = Waiting'[w]
            BY <3>5, <5>1
          <5>3. CASE w \in 1 .. W - 1 /\ Waiting'[w] = Waiting[w + 1]
            <6>1. w + 1 \in 1 .. W /\ i + 1 = S + (w + 1) /\ i <= i + 1 /\ i + 1 \in 1 .. Len(Unanswered)
              BY <1>3, <5>1, <5>3
            <6>2. Unanswered'[i] = Unanswered[i + 1]
              BY <2>1, <5>2, <5>3, <6>1
            <6> QED
              BY <6>1, <6>2
          <5> QED
            BY <3>3, <5>1, <5>2, <5>3
        <4> QED
          BY <4>1, <4>2
      <3>7. Len(Unanswered') \in Nat
        BY <1>3, <3>3, <3>5
      <3> QED
        BY <3>6, <3>7
    <2> QED
      BY <2>2, <2>3
  <1>8. DueOrder'
    <2>1. ASSUME NEW i \in 1 .. Len(Unanswered')
          PROVE  /\ Unanswered'[i] = "version" => i = 1 /\ pending' # <<>> /\ pending'[1] = "version"
                 /\ Unanswered'[i] = "dutycycle" => todo' = <<>>
      <3>1. CASE More /\ Unanswered'[i] = Head(todo)
        <4>1. 1 \in 1 .. Len(todo) /\ Head(todo) = todo[1]
          BY <1>4, <3>1
        <4>2. Unanswered'[i] # "version"
          BY <3>1, <4>1 DEF BaseInv, TodoOrder
        <4>3. Unanswered'[i] = "dutycycle" => todo' = <<>>
          <5>1. SUFFICES ASSUME todo[1] = "dutycycle" PROVE todo' = <<>>
            BY <3>1, <4>1
          <5>2. Len(todo) = 1 /\ Len(todo') = 0
            BY <1>4, <3>1, <4>1, <5>1 DEF BaseInv, TodoOrder
          <5>3. todo' \in Seq(Commands)
            BY <1>1, <1>4, <3>1, HeadTailProperties DEF TypeOK
          <5> QED
            BY <5>2, <5>3, EmptySeq
        <4> QED
          BY <4>2, <4>3
      <3>2. CASE \E k \in 1 .. Len(Unanswered) : i <= k /\ Unanswered'[i] = Unanswered[k]
        <4>1. PICK k \in 1 .. Len(Unanswered) : i <= k /\ Unanswered'[i] = Unanswered[k]
          BY <3>2
        <4>2. ASSUME Unanswered'[i] = "version"
              PROVE  i = 1 /\ pending' # <<>> /\ pending'[1] = "version"
          <5>1. k = 1 /\ pending # <<>> /\ pending[1] = "version"
            BY <4>1, <4>2 DEF BaseInv, DueOrder
          <5>2. i = 1
            BY <1>7, <4>1, <5>1
          <5>3. P > 0
            BY <1>3, <5>1, EmptySeq DEF TypeOK
          <5>4. CASE More
            <6>1. Len(pending') > 0 /\ pending'[1] = pending[1]
              BY <1>3, <1>4, <5>3, <5>4
            <6> QED
              BY <5>1, <5>2, <6>1
          <5>5. CASE ~More
            BY <1>5, <5>1, <5>2, <5>5
          <5> QED
            BY <5>4, <5>5
        <4>3. ASSUME Unanswered'[i] = "dutycycle"
              PROVE  todo' = <<>>
          <5>1. todo = <<>>
            BY <4>1, <4>3 DEF BaseInv, DueOrder
          <5> QED
            BY <1>4, <1>5, <5>1
        <4> QED
          BY <4>2, <4>3
      <3> QED
        BY <1>7, <3>1, <3>2
    <2> QED
      BY <2>1 DEF DueOrder
  <1>9. IdentityDue'
    <2>1. SUFFICES ASSUME link = "open"
          PROVE  /\ Len(pending') <= Len(Unanswered')
                 /\ \A i \in 1 .. Len(pending') : pending'[i] = "idbase" =>
                      \E j \in i .. Len(Unanswered') : Unanswered'[j] = "idbase"
      BY <1>1 DEF IdentityDue
    <2>2. /\ P <= S + W
          /\ \A i \in 1 .. P : pending[i] = "idbase" => \E j \in i .. S + W : Unanswered[j] = "idbase"
      BY <1>3, <2>1 DEF BaseInv, IdentityDue
    <2>3. CASE More
      <3>1. Unanswered \in Seq(Telegrams) /\ Unanswered' = Append(Unanswered, Head(todo))
            /\ Head(todo) \in Telegrams
        BY <1>4, <2>1, <2>3, SendQueues, Queues DEF Telegrams
      <3>2. /\ Len(Unanswered') = S + W + 1 /\ Unanswered'[S + W + 1] = Head(todo)
            /\ \A i \in 1 .. S + W : Unanswered'[i] = Unanswered[i]
        BY <1>3, <3>1, AppendProperties
      <3>3. Len(pending') <= Len(Unanswered')
        BY <1>3, <1>4, <2>2, <2>3, <3>2
      <3>4. ASSUME NEW i \in 1 .. Len(pending'), pending'[i] = "idbase"
            PROVE  \E j \in i .. Len(Unanswered') : Unanswered'[j] = "idbase"
        <4>1. CASE i \in 1 .. P
          <5>1. PICK j \in i .. S + W : Unanswered[j] = "idbase"
            BY <1>4, <2>2, <2>3, <3>4, <4>1
          <5>2. j \in i .. Len(Unanswered') /\ j \in 1 .. S + W
            BY <1>3, <3>2, <4>1
          <5> QED
            BY <3>2, <5>1, <5>2
        <4>2. CASE i = P + 1
          <5>1. S + W + 1 \in i .. Len(Unanswered')
            BY <1>3, <2>2, <3>2, <4>2
          <5> QED
            BY <1>4, <2>3, <3>2, <3>4, <4>2, <5>1
        <4> QED
          BY <1>3, <1>4, <2>3, <4>1, <4>2
      <3> QED
        BY <3>3, <3>4
    <2>4. CASE ~More
      <3>1. Unanswered' = Unanswered /\ pending' = pending
        BY <1>5, <2>1, <2>4, SendQueues
      <3> QED
        BY <1>3, <2>2, <3>1
    <2> QED
      BY <2>3, <2>4
  <1>10. IdentityBeforeLoad'
    <2>1. ASSUME NEW i \in 1 .. Len(pending'), NEW j \in 1 .. Len(Sent'),
                 pending'[i] = "idbase", Sent'[j] = "dutycycle"
          PROVE  i < j
      <3>1. S + 1 \in 1 .. Len(Unanswered) /\ Unanswered[S + 1] = Head(Waiting) /\ Head(Waiting) = Waiting[1]
        <4>1. 1 \in 1 .. W /\ Head(Waiting) = Waiting[1]
          BY <1>2, <1>3, HeadTailProperties
        <4> QED
          BY <1>3, <4>1, UnansweredIndex
      <3>2. (j \in 1 .. S /\ Sent'[j] = Sent[j]) \/ (link = "open" /\ j = S + 1 /\ Sent'[j] = Head(Waiting))
        <4>1. CASE link = "open"
          <5>1. Head(Waiting) \in Telegrams
            BY <1>2, HeadTailProperties
          <5>2. /\ Len(Sent') = S + 1 /\ Sent'[S + 1] = Head(Waiting)
                /\ \A k \in 1 .. S : Sent'[k] = Sent[k]
            BY <1>2, <4>1, <5>1, AppendProperties
          <5> QED
            BY <1>3, <4>1, <5>2
        <4>2. CASE link # "open"
          BY <1>2, <4>2
        <4> QED
          BY <4>1, <4>2
      <3>3. todo = <<>>
        <4>1. CASE j \in 1 .. S /\ Sent'[j] = Sent[j]
          <5>1. j \in 1 .. Len(Unanswered) /\ Unanswered[j] = "dutycycle"
            BY <1>3, <2>1, <4>1, UnansweredIndex
          <5> QED
            BY <5>1 DEF BaseInv, DueOrder
        <4>2. CASE j = S + 1 /\ Sent'[j] = Head(Waiting)
          BY <2>1, <3>1, <4>2 DEF BaseInv, DueOrder
        <4> QED
          BY <3>2, <4>1, <4>2
      <3>4. ~More /\ pending' = pending
        BY <1>4, <1>5, <3>3
      <3>5. CASE j \in 1 .. S /\ Sent'[j] = Sent[j]
        BY <1>1, <2>1, <3>4, <3>5 DEF BaseInv, IdentityBeforeLoad
      <3>6. CASE link = "open" /\ j = S + 1 /\ Sent'[j] = Head(Waiting)
        <4>1. PICK k \in i .. S + W : Unanswered[k] = "idbase"
          BY <1>3, <2>1, <3>4, <3>6 DEF BaseInv, IdentityDue
        <4>2. Waiting[1] = "dutycycle"
          BY <2>1, <3>1, <3>6
        <4>3. CASE k > S
          <5> DEFINE w == k - S
          <5>1. w \in 1 .. W /\ S + w = k
            BY <1>3, <2>1, <4>3
          <5> HIDE DEF w
          <5>2. Waiting[w] = "idbase" /\ 1 \in 1 .. W
            BY <1>3, <4>1, <5>1, UnansweredIndex
          <5>3. w = 1
            <6>1. /\ \A n \in 1 .. Len(lockQ) : Waiting[n] = lockQ[n].telegram /\ lockQ[n] \in Senders
                  /\ W = Len(lockQ)
              BY <1>2, Queues, ElementOfSeq DEF TypeOK
            <6>2. lockQ[w].who = "enocean" /\ lockQ[1].who = "enocean" /\ w \in 1 .. Len(lockQ)
                  /\ 1 \in 1 .. Len(lockQ)
              BY <4>2, <5>1, <5>2, <6>1 DEF LockInv, Senders
            <6> QED
              BY <6>2 DEF LockInv
          <5> QED
            BY <4>2, <5>2, <5>3
        <4>4. CASE k <= S
          BY <1>3, <2>1, <3>6, <4>4
        <4> QED
          BY <1>3, <4>3, <4>4
      <3> QED
        BY <3>2, <3>5, <3>6
    <2> QED
      BY <2>1 DEF IdentityBeforeLoad
  <1> QED
    BY <1>1, <1>6, <1>8, <1>9, <1>10 DEF BaseInv, WakesFirst, BaseIdTrue

LEMMA BaseStep ==
  ASSUME Interval < Backoff
  PROVE  TypeOK /\ LockInv /\ BaseInv /\ [Next]_vars => BaseInv'
<1> SUFFICES ASSUME TypeOK, LockInv, BaseInv, [Next]_vars PROVE BaseInv'
  OBVIOUS
<1> USE DEF BaseInv
<1>0. TypeOK' /\ LockInv' /\ "radio" \in Telegrams
  BY TypeStep, LockStep DEF Telegrams
<1>1. CASE Connect
  BY <1>1, ConnectBase
<1>2. CASE Receive
  BY <1>2, ReceiveBase
<1>a. ASSUME NEW who \in {"enocean", "mqtt"}, Enqueue(who, "radio"), link # "closed",
             UNCHANGED <<link, todo, pending, backoff, stick, wire, field>>
      PROVE  BaseInv'
  <2>1. Sent' = Sent /\ Unanswered' = Append(Unanswered, "radio") /\ Unanswered \in Seq(Telegrams)
    BY <1>0, <1>a, EnqueueQueues, Queues
  <2>2. /\ Len(Unanswered) \in Nat /\ Len(Unanswered') = Len(Unanswered) + 1
        /\ Unanswered'[Len(Unanswered) + 1] = "radio"
        /\ \A i \in 1 .. Len(Unanswered) : Unanswered'[i] = Unanswered[i]
    BY <1>0, <2>1, AppendProperties
  <2>3. DueOrder'
    <3>1. \A i \in 1 .. Len(Unanswered') : i \in 1 .. Len(Unanswered) \/ i = Len(Unanswered) + 1
      BY <2>2
    <3> QED
      BY <1>a, <2>2, <3>1 DEF DueOrder
  <2>4. IdentityDue'
    <3>1. ASSUME NEW i \in 1 .. Len(pending), NEW j \in i .. Len(Unanswered), Unanswered[j] = "idbase"
          PROVE  j \in i .. Len(Unanswered') /\ Unanswered'[j] = "idbase"
      BY <2>2, <3>1
    <3>2. Len(pending) <= Len(Unanswered) => Len(pending) <= Len(Unanswered')
      BY <2>2, UnansweredIndex
    <3> QED
      BY <1>a, <3>1, <3>2 DEF IdentityDue
  <2> QED
    BY <1>a, <2>1, <2>3, <2>4 DEF WakesFirst, TodoOrder, IdentityBeforeLoad, BaseIdTrue
<1>3. CASE Reply
  <2>1. Enqueue("enocean", "radio") /\ link # "closed"
        /\ UNCHANGED <<link, todo, pending, backoff, stick, wire, field>>
    BY <1>3 DEF Reply, LockInv
  <2> QED
    BY <1>a, <2>1
<1>4. CASE Notice
  <2>1. lockQ' # <<>> => sleep' < Backoff
    BY <1>4, ConstantsAssumption DEF Notice, TypeOK
  <2> QED
    BY <1>0, <1>4, <2>1, CloseBase DEF Notice
<1>5. CASE Send
  BY <1>5, SendBase
<1>6. CASE SendFails
  <2>1. lockQ' # <<>> => sleep' < Backoff
    BY <1>6, ConstantsAssumption DEF SendFails, TypeOK
  <2> QED
    BY <1>0, <1>6, <2>1, CloseBase DEF SendFails
<1>7. CASE MqttSend
  <2>1. Enqueue("mqtt", "radio") /\ link # "closed"
        /\ UNCHANGED <<link, todo, pending, backoff, stick, wire, field>>
    BY <1>7 DEF MqttSend
  <2> QED
    BY <1>a, <2>1
<1>8. CASE MqttSendFails
  <2>1. /\ link' = "closed" /\ lockQ' = <<>> /\ todo' = <<>> /\ pending' = <<>> /\ wire' = <<>> /\ stick' = <<>>
        /\ field' = [f \in Fields |-> None]
    BY <1>8 DEF MqttSendFails, ProcessEnds
  <2>2. Len(Unanswered') = 0 /\ Len(Sent') = 0 /\ Len(todo') = 0 /\ Len(pending') = 0
    BY <2>1 DEF Unanswered, Sent
  <2>3. field'["idbase"] = None
    BY <2>1 DEF Fields
  <2> QED
    BY <2>1, <2>2, <2>3 DEF WakesFirst, TodoOrder, DueOrder, IdentityDue, IdentityBeforeLoad, BaseIdTrue
<1>9. CASE BrokerDrop
  BY <1>0, <1>9, CloseBase DEF BrokerDrop
<1>10. CASE StickAnswers
  <2>1. Sent' = Sent /\ Unanswered' = Unanswered
        /\ UNCHANGED <<link, lockQ, sleep, backoff, todo, pending, field>>
    BY <1>10, AnswerQueues DEF StickAnswers
  <2> QED
    BY <2>1 DEF WakesFirst, TodoOrder, DueOrder, IdentityDue, IdentityBeforeLoad, BaseIdTrue
<1>11. CASE LinkBreaks
  <2>1. /\ link = "open" /\ link' = "broken" /\ stick' = <<>>
        /\ UNCHANGED <<todo, pending, lockQ, sleep, backoff, wire, field>>
    BY <1>11 DEF LinkBreaks
  <2>2. /\ wire \in Seq(Telegrams) /\ stick \in Seq(Telegrams) /\ Waiting \in Seq(Telegrams)
        /\ Sent = wire \o stick /\ Unanswered = Sent \o Waiting
    BY Queues DEF Sent, TypeOK
  <2>3. Sent' = wire /\ Unanswered' = wire \o Waiting
    <3>1. Sent' = wire \o <<>> /\ Unanswered' = Sent' \o Waiting
      BY <2>1 DEF Sent, Unanswered, Waiting
    <3> QED
      BY <2>2, <3>1, ConcatEmptySeq
  <2>4. /\ Len(wire) \in Nat /\ Len(Sent) \in Nat /\ Len(Waiting) \in Nat /\ Len(wire) <= Len(Sent)
        /\ \A i \in 1 .. Len(wire) : Sent[i] = wire[i]
        /\ Len(Unanswered') = Len(wire) + Len(Waiting)
        /\ \A i \in 1 .. Len(wire) : Unanswered'[i] = wire[i]
        /\ \A i \in 1 .. Len(Waiting) : Unanswered'[Len(wire) + i] = Waiting[i]
    <3>1. /\ Len(wire) \in Nat /\ Len(stick) \in Nat /\ Len(Waiting) \in Nat
          /\ Len(Sent) = Len(wire) + Len(stick) /\ \A i \in 1 .. Len(wire) : Sent[i] = wire[i]
      BY <2>2, ConcatProperties, ConcatIndex, LenProperties
    <3>2. /\ Len(Unanswered') = Len(wire) + Len(Waiting)
          /\ \A i \in 1 .. Len(wire) : Unanswered'[i] = wire[i]
          /\ \A i \in 1 .. Len(Waiting) : Unanswered'[Len(wire) + i] = Waiting[i]
      BY <2>2, <2>3, ConcatProperties, ConcatIndex
    <3> QED
      BY <3>1, <3>2
  <2>5. DueOrder'
    <3>1. ASSUME NEW i \in 1 .. Len(Unanswered')
          PROVE  \E k \in 1 .. Len(Unanswered) : i <= k /\ Unanswered'[i] = Unanswered[k]
      <4>1. CASE i \in 1 .. Len(wire)
        <5>1. i \in 1 .. Len(Sent) /\ i \in 1 .. Len(Unanswered) /\ i <= i
          BY <2>4, <4>1, UnansweredIndex
        <5>2. Unanswered'[i] = Unanswered[i]
          BY <2>4, <4>1, <5>1, UnansweredIndex
        <5> QED
          BY <5>1, <5>2
      <4>2. CASE i \notin 1 .. Len(wire)
        <5> DEFINE w == i - Len(wire)
                   k == Len(Sent) + w
        <5>1. w \in 1 .. Len(Waiting) /\ Len(wire) + w = i /\ i <= k
          BY <2>4, <4>2
        <5>2. k \in 1 .. Len(Unanswered)
          BY <2>4, <5>1, UnansweredIndex
        <5> HIDE DEF w
        <5>3. Unanswered'[i] = Unanswered[k]
          BY <2>4, <5>1, UnansweredIndex
        <5> QED
          BY <5>1, <5>2, <5>3
      <4> QED
        BY <4>1, <4>2
    <3>2. ASSUME NEW i \in 1 .. Len(Unanswered'), NEW k \in 1 .. Len(Unanswered),
                 i <= k, Unanswered'[i] = Unanswered[k]
          PROVE  /\ Unanswered'[i] = "version" => i = 1 /\ pending # <<>> /\ pending[1] = "version"
                 /\ Unanswered'[i] = "dutycycle" => todo = <<>>
      <4>1. i \in Nat \ {0} /\ (k = 1 => i = 1)
        BY <2>4, <3>2
      <4> QED
        BY <3>2, <4>1 DEF DueOrder
    <3> QED
      BY <2>1, <3>1, <3>2 DEF DueOrder
  <2>6. IdentityBeforeLoad'
    <3>1. \A j \in 1 .. Len(Sent') : j \in 1 .. Len(Sent) /\ Sent'[j] = Sent[j]
      BY <2>3, <2>4
    <3> QED
      BY <2>1, <3>1 DEF IdentityBeforeLoad
  <2> QED
    BY <2>1, <2>5, <2>6 DEF WakesFirst, TodoOrder, IdentityDue, BaseIdTrue
<1>12. CASE Tick
  <2>1. UNCHANGED <<link, todo, pending, lockQ, stick, wire, field>>
    BY <1>12 DEF Tick
  <2>2. WakesFirst'
    <3>1. /\ lockQ # <<>> => sleep > 0
          /\ sleep' = Less(sleep) /\ backoff' = Less(backoff)
      BY <1>12 DEF Tick
    <3>2. sleep \in Nat /\ backoff \in Nat
      BY ConstantsAssumption DEF TypeOK
    <3> QED
      BY <2>1, <3>1, <3>2 DEF WakesFirst, Less
  <2>3. Sent' = Sent /\ Unanswered' = Unanswered
    BY <2>1 DEF Sent, Unanswered
  <2> QED
    BY <2>1, <2>2, <2>3 DEF TodoOrder, DueOrder, IdentityDue, IdentityBeforeLoad, BaseIdTrue
<1>13. CASE UNCHANGED vars
  <2>1. Sent' = Sent /\ Unanswered' = Unanswered
    BY <1>13 DEF vars, Sent, Unanswered
  <2> QED
    BY <1>13, <2>1 DEF vars, WakesFirst, TodoOrder, DueOrder, IdentityDue, IdentityBeforeLoad, BaseIdTrue
<1> QED
  BY <1>1, <1>2, <1>3, <1>4, <1>5, <1>6, <1>7, <1>8, <1>9, <1>10, <1>11, <1>12, <1>13 DEF Next

\* If the pacing interval is shorter than the reconnect delay, the Base ID in use is one: no
\* RESPONSE to another command passes for it, whatever is interleaved, lost or cut off.
THEOREM BaseIdIsOne ==
  ASSUME Interval < Backoff
  PROVE  Spec => []BaseIdTrue
<1> DEFINE Inv == TypeOK /\ LockInv /\ BaseInv
<1>1. Init => Inv
  BY TypeInit, LockInit, BaseInit
<1>2. Inv /\ [Next]_vars => Inv'
  BY TypeStep, LockStep, BaseStep
<1>3. Inv => BaseIdTrue
  BY DEF BaseInv
<1> HIDE DEF Inv
<1> QED
  BY <1>1, <1>2, <1>3, PTL DEF Spec
=============================================================================
