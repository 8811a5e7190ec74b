------------------------------ MODULE StickLink ------------------------------
(***************************************************************************)
(* The connection to the EnOcean transceiver (the "stick"): connecting and *)
(* reconnecting, the startup handshake, the matching of RESPONSE packets   *)
(* with the commands they answer, and the send lock with its pacing, which *)
(* the transceiver task and the MQTT task share.                           *)
(*                                                                         *)
(* application/daemon.py: _enocean_task, _startup_handshake,               *)
(* _handle_response_packet and its readers, _send_packet;                  *)
(* adapters/transceiver/stream.py: send, read_packets, close.              *)
(*                                                                         *)
(* A RESPONSE carries no command id.  _pending_cmd holds a tag for every   *)
(* handshake command and none for a radio telegram, although the stick     *)
(* answers radio telegrams as well.                                        *)
(*                                                                         *)
(* One step is what a task does between two awaits.  Time passes in ticks  *)
(* and a timer of the event loop never fires after a later one.            *)
(***************************************************************************)
EXTENDS Integers, Sequences, Chains

CONSTANTS
  WantRepeater,   \* is a repeater level configured, to be written once?
  SelfAddressed,  \* has some device a sender of its own, so that it needs no Base ID?
  Supported,      \* the commands the stick answers with OK, not with NOT_SUPPORTED
  Interval,       \* send_interval_ms, in ticks
  Backoff,        \* _RECONNECT_MIN_DELAY, in ticks
  None,           \* a field that was never read
  MaxTelegrams    \* bound: telegrams and RESPONSEs on their way when a radio send starts

Commands == {"version", "idbase", "repeater_set", "repeater", "dutycycle"}
Fields == {"version", "idbase", "repeater", "dutycycle"}

ASSUME ConstantsAssumption ==
  /\ WantRepeater \in BOOLEAN /\ SelfAddressed \in BOOLEAN
  /\ Supported \subseteq Commands
  /\ Interval \in Nat /\ Backoff \in Nat
  /\ None \notin Commands
  /\ MaxTelegrams \in Nat

VARIABLES
  link,      \* the stream: closed, open, or broken without the daemon knowing yet
  task,      \* the transceiver task: closed, in the handshake, reading, or sending a reply
  todo,      \* commands the handshake has not asked to send yet
  pending,   \* _pending_cmd: a tag for every RESPONSE the handshake still expects
  lockQ,     \* senders at _send_lock in order; the first holds it
  sleep,     \* what is left of the holder's pacing sleep
  deadline,  \* _next_send_at - now, 0 when it is past
  backoff,   \* what is left of the reconnect delay
  stick,     \* telegrams the stick has received and not answered
  wire,      \* RESPONSEs on their way to the daemon; each is named after what it answers
  field,     \* field[f]: what the RESPONSE was an answer to that field f was read from
  \* history variables: no action reads them
  gap,       \* ticks since the stick received a telegram, Interval at most
  burst,     \* did two telegrams ever reach the stick within Interval?
  clean      \* no radio telegram was written during the handshake of this connection

vars == <<link, task, todo, pending, lockQ, sleep, deadline, backoff, stick, wire, field,
          gap, burst, clean>>

Telegrams == Commands \cup {"radio"}
Senders == [who : {"enocean", "mqtt"}, telegram : Telegrams]

TypeOK ==
  /\ link \in {"closed", "open", "broken"}
  /\ task \in {"closed", "handshake", "reading", "replying"}
  /\ todo \in Seq(Commands) /\ pending \in Seq(Commands)
  /\ lockQ \in Seq(Senders)
  /\ sleep \in 0 .. Interval /\ deadline \in 0 .. Interval /\ gap \in 0 .. Interval
  /\ backoff \in 0 .. Backoff
  /\ stick \in Seq(Telegrams) /\ wire \in Seq(Telegrams)
  /\ field \in [Fields -> Commands \cup {None}]
  /\ burst \in BOOLEAN /\ clean \in BOOLEAN

\* _startup_handshake: the identity is asked for until the Base ID is known.
Handshake(first) ==
  (IF first THEN <<"version", "idbase">> ELSE <<>>)
    \o (IF first /\ WantRepeater THEN <<"repeater_set">> ELSE <<>>)
    \o <<"repeater", "dutycycle">>

\* mutant: a Base ID is expected to have more than 4 bytes
FitsLongBaseId(answered) ==
  CASE answered = "version"   -> {"version", "idbase", "repeater", "dutycycle"}
    [] answered = "dutycycle" -> {"idbase", "repeater", "dutycycle"}
    [] answered \in {"idbase", "repeater"} -> {"repeater", "dutycycle"}
    [] OTHER                  -> {}

\* The fields a RESPONSE with status OK is long enough to be read into: a version is 32
\* bytes, a Base ID 4 or 5, the repeater state 2, the duty cycle 7; the RESPONSE to a radio
\* telegram or to a write has no data.
Fits(answered) ==
  CASE answered = "version" -> {"version", "idbase", "repeater", "dutycycle"}
    [] answered \in {"idbase", "dutycycle"} -> {"idbase", "repeater", "dutycycle"}
    [] answered = "repeater" -> {"repeater", "dutycycle"}
    [] OTHER -> {}

\* mutant: a time that has passed counts as a negative wait
LessBelowZero(t) == t - 1

\* A wait is over when the clock has reached the deadline.
Less(t) == IF t = 0 THEN 0 ELSE t - 1
-----------------------------------------------------------------------------
Init ==
  /\ link = "closed" /\ task = "closed"
  /\ todo = <<>> /\ pending = <<>> /\ lockQ = <<>>
  /\ sleep = 0 /\ deadline = 0 /\ backoff = 0
  /\ stick = <<>> /\ wire = <<>>
  /\ field = [f \in Fields |-> None]
  /\ gap = Interval /\ burst = FALSE /\ clean = TRUE

\* An exception in the MQTT task ends the process; it is started anew.
ProcessEnds ==
  /\ link' = "closed" /\ task' = "closed"
  /\ todo' = <<>> /\ pending' = <<>> /\ lockQ' = <<>>
  /\ sleep' = 0 /\ deadline' = 0 /\ backoff' = Backoff
  /\ stick' = <<>> /\ wire' = <<>>
  /\ field' = [f \in Fields |-> None]
  /\ gap' = Interval /\ clean' = TRUE
  /\ UNCHANGED burst

\* transport.close() and the delay before the next attempt
Close ==
  /\ link' = "closed" /\ task' = "closed"
  /\ todo' = <<>>
  /\ backoff' = Backoff
  /\ stick' = <<>> /\ wire' = <<>>
  /\ UNCHANGED <<pending, deadline, field, gap, burst, clean>>

\* A sender arrives at the lock: alone it takes it and computes its wait, else it queues.
Enqueue(who, telegram) ==
  /\ lockQ' = Append(lockQ, [who |-> who, telegram |-> telegram])
  /\ sleep' = IF lockQ = <<>> THEN deadline ELSE sleep
-----------------------------------------------------------------------------
(* The transceiver task                                                    *)

\* connect() succeeds and, before anything else runs, the first command is at the lock
\* with its tag in the FIFO, behind the tags that are kept.
ConnectKeeping(tags) ==
  /\ task = "closed" /\ backoff = 0
  /\ link' = "open" /\ task' = "handshake"
  /\ LET commands == Handshake(field["idbase"] = None) IN
       /\ pending' = Append(tags, Head(commands))
       /\ todo' = Tail(commands)
       /\ Enqueue("enocean", Head(commands))
  /\ clean' = TRUE
  /\ UNCHANGED <<deadline, backoff, stick, wire, field, gap, burst>>

\* mutant: _startup_handshake without its _pending_cmd.clear()
ConnectKeepsTags == ConnectKeeping(pending)

Connect == ConnectKeeping(<<>>)

\* Can the RESPONSE at the head of the wire be read into the field its tag names?
Readable ==
  /\ pending # <<>>
  /\ Head(wire) \in Supported
  /\ Head(pending) \in Fits(Head(wire))

\* mutant: the tag of a RESPONSE that is not read stays
ReceiveKeepsTag ==
  /\ task = "reading"
  /\ wire # <<>>
  /\ wire' = Tail(wire)
  /\ pending' = IF Readable THEN Tail(pending) ELSE pending
  /\ field' = IF Readable THEN [field EXCEPT ![Head(pending)] = Head(wire)] ELSE field
  /\ UNCHANGED <<link, task, todo, lockQ, sleep, deadline, backoff, stick, gap, burst, clean>>

\* read_packets and _handle_response_packet: the RESPONSE goes to the field its tag names.
Receive ==
  /\ task = "reading"
  /\ wire # <<>>
  /\ wire' = Tail(wire)
  /\ pending' = IF pending = <<>> THEN pending ELSE Tail(pending)
  /\ field' = IF Readable THEN [field EXCEPT ![Head(pending)] = Head(wire)] ELSE field
  /\ UNCHANGED <<link, task, todo, lockQ, sleep, deadline, backoff, stick, gap, burst, clean>>

\* Without a Base ID only a device that has its own sender is sent to.
MaySend ==
  /\ field["idbase"] # None \/ SelfAddressed
  /\ Len(stick) + Len(wire) + Len(lockQ) < MaxTelegrams

\* A telegram is answered from the read loop: a device with answer set, or a teach-in.
Reply ==
  /\ task = "reading" /\ MaySend
  /\ task' = "replying"
  /\ Enqueue("enocean", "radio")
  /\ UNCHANGED <<link, todo, pending, deadline, backoff, stick, wire, field, gap, burst, clean>>

\* The read loop finds the stream at its end or failed.
Notice ==
  /\ task = "reading" /\ link = "broken"
  /\ Close
  /\ UNCHANGED <<lockQ, sleep>>
-----------------------------------------------------------------------------
(* Sending                                                                 *)

\* The holder writes and releases the lock to the next in the queue, which computes its
\* wait now.  In the handshake the next command follows at once: its tag enters the FIFO
\* and it queues behind the senders already there.  What is written to a broken stream may
\* be lost without an error.
SendAndWait(wait) ==
  LET sender == Head(lockQ)
      more == sender.who = "enocean" /\ task = "handshake" /\ todo # <<>>
  IN
  /\ lockQ # <<>> /\ sleep = 0 /\ link # "closed"
  /\ lockQ' = Tail(lockQ)
                \o (IF more THEN <<[who |-> "enocean", telegram |-> Head(todo)]>> ELSE <<>>)
  /\ pending' = IF more THEN Append(pending, Head(todo)) ELSE pending
  /\ todo' = IF more THEN Tail(todo) ELSE todo
  /\ task' = IF sender.who = "enocean" /\ ~more THEN "reading" ELSE task
  /\ stick' = IF link = "open" THEN Append(stick, sender.telegram) ELSE stick
  /\ sleep' = IF lockQ' = <<>> THEN 0 ELSE wait
  /\ deadline' = wait
  /\ gap' = IF link = "open" THEN 0 ELSE gap
  /\ burst' = (burst \/ (link = "open" /\ gap < Interval))
  /\ clean' = (clean /\ ~(task = "handshake" /\ sender.telegram = "radio"))
  /\ UNCHANGED <<link, backoff, wire, field>>

\* mutant: the deadline is left where it was
SendUnpaced == SendAndWait(deadline)

Send == SendAndWait(Interval)

\* The transceiver task's write or drain raises: it closes, and the lock goes on.
SendFails ==
  /\ lockQ # <<>> /\ sleep = 0 /\ Head(lockQ).who = "enocean"
  /\ link = "broken"
  /\ lockQ' = Tail(lockQ)
  /\ sleep' = IF lockQ' = <<>> THEN 0 ELSE deadline
  /\ Close

\* A command arrives over MQTT; its handler waits for the lock.
MqttSend ==
  /\ \A i \in 1 .. Len(lockQ) : lockQ[i].who # "mqtt"
  /\ link # "closed" /\ MaySend
  /\ Enqueue("mqtt", "radio")
  /\ UNCHANGED <<link, task, todo, pending, deadline, backoff, stick, wire, field, gap, burst, clean>>

\* The MQTT task sends without a writer, or its write or drain raises: no handler catches it.
MqttSendFails ==
  /\ \/ link = "closed" /\ lockQ = <<>> /\ MaySend
     \/ link # "open" /\ lockQ # <<>> /\ sleep = 0 /\ Head(lockQ).who = "mqtt"
  /\ ProcessEnds

\* An MqttError cancels both tasks: the transceiver is closed until the next broker session.
BrokerDrop ==
  /\ task # "closed"
  /\ lockQ' = <<>> /\ sleep' = 0
  /\ Close
-----------------------------------------------------------------------------
(* The stick, the cable and the clock                                      *)

StickAnswers ==
  /\ stick # <<>>
  /\ stick' = Tail(stick)
  /\ wire' = Append(wire, Head(stick))
  /\ UNCHANGED <<link, task, todo, pending, lockQ, sleep, deadline, backoff, field, gap, burst, clean>>

LinkBreaks ==
  /\ link = "open"
  /\ link' = "broken"
  /\ stick' = <<>>
  /\ UNCHANGED <<task, todo, pending, lockQ, sleep, deadline, backoff, wire, field, gap, burst, clean>>

\* A sender whose sleep is over runs before time goes on.
Tick ==
  /\ lockQ = <<>> \/ sleep > 0
  /\ sleep' = Less(sleep) /\ deadline' = Less(deadline) /\ backoff' = Less(backoff)
  /\ gap' = IF gap < Interval THEN gap + 1 ELSE gap
  /\ UNCHANGED <<link, task, todo, pending, lockQ, stick, wire, field, burst, clean>>
-----------------------------------------------------------------------------
Next ==
  \/ Connect \/ Receive \/ Reply \/ Notice
  \/ Send \/ SendFails \/ MqttSend \/ MqttSendFails \/ BrokerDrop
  \/ StickAnswers \/ LinkBreaks \/ Tick

Spec == Init /\ [][Next]_vars

(* Timers fire, a task that can run does, the stick answers what it gets   *)
(* and a reachable stick is connected to.  The read loop takes packets in  *)
(* the order they arrive, so replies cannot keep it from a RESPONSE.       *)
Fairness ==
  /\ WF_vars(Tick) /\ WF_vars(Send) /\ WF_vars(SendFails) /\ WF_vars(MqttSendFails)
  /\ WF_vars(Connect) /\ WF_vars(Notice) /\ WF_vars(StickAnswers)
  /\ SF_vars(Receive)

FairSpec == Spec /\ Fairness
-----------------------------------------------------------------------------
\* What was sent or waits to be and is not answered yet: the RESPONSEs on their way back,
\* the telegrams at the stick, and those waiting for the lock
Unanswered == wire \o stick \o [i \in 1 .. Len(lockQ) |-> lockQ[i].telegram]

\* The handshake commands among them
Outstanding == Only(Unanswered, Commands)

(* The tags may be short of the RESPONSEs that are due, because that of a  *)
(* radio telegram has popped one, but what is there is always the newest   *)
(* part: a RESPONSE never pops the tag of an earlier command.              *)
TagsNeverBehind ==
  link = "open" =>
    /\ Len(pending) <= Len(Outstanding)
    /\ \A i \in 1 .. Len(pending) :
         pending[i] = Outstanding[Len(Outstanding) - Len(pending) + i]

(* Unless a radio telegram was written in the middle of the handshake, the *)
(* tags are exactly the RESPONSEs due, across any number of reconnects,    *)
(* replies and commands before and after.                                  *)
AlignedUnlessInterleaved ==
  link = "open" /\ clean => pending = Outstanding

(* The Base ID in use was never read from the answer to anything else,     *)
(* although a version or duty-cycle RESPONSE would pass for one, as long   *)
(* as the pacing interval is shorter than the reconnect delay.             *)
BaseIdTrue == field["idbase"] \in {None, "idbase"}

(* Telegrams reach the stick at least Interval apart, no matter which      *)
(* tasks send them, which fail and how often the link is replaced.         *)
Paced == ~burst

(* A stick that stays connected, with no radio telegram in the middle of   *)
(* its handshake, has its Base ID read.                                    *)
BaseIdLearnt ==
  <>[](link = "open" /\ clean) => <>(field["idbase"] # None)

(* daemon.py:627-628: "Each common command yields exactly one RESPONSE     *)
(* (even NOT_SUPPORTED), so the FIFO stays aligned."                       *)
FifoAligned == link = "open" => pending = Outstanding
=============================================================================
