------------------------------- MODULE Inbound -------------------------------
(***************************************************************************)
(* Commands from MQTT to telegrams (application/inbound.py, with           *)
(* domain/sensor.py, encoder.py and the send paths of daemon.py).          *)
(*                                                                         *)
(* The fields of a command collect in scratch fields of the device it is   *)
(* for, together with the flags learn and raw_data, until a request to     *)
(* send builds a telegram from them.  Two tasks use the scratch fields:    *)
(* the MQTT task, which handles one message after the other, and the       *)
(* transceiver task, which answers a telegram of a device whose "answer"   *)
(* is set.  Both wait for the send lock and for the transceiver, and the   *)
(* broker may cut both off wherever they wait.                             *)
(*                                                                         *)
(* Messages wait in the MQTT client while one is handled, so each is       *)
(* chosen when it is handled.  Not in the model: the JSON action           *)
(* secure_teachin, overlays, and payloads that are not UTF-8, too large or *)
(* for no device, which change nothing.                                    *)
(***************************************************************************)
EXTENDS Encoder, Chains

CONSTANTS
  Sensors,        \* the devices in the order of the list: [rorg, cases, command, direction,
                  \*   sender, default, answer]
  ShadowChoices,  \* which names occur within which topics: sets of <<device, device>>
  Singles,        \* messages <<device, field, value>>, one field each
  RawTopics,      \* messages <<device, raw_data>>
  Sends,          \* messages <<device, actions>>
  Bulks,          \* JSON messages [to, values, send, raw]
  LearnTelegrams, \* teach-in telegrams of devices: <<device, bytes>>
  BaseId,         \* the transceiver's Base ID
  MaxFields       \* _MAX_ACCUMULATED_FIELDS

\* Raw data of several bytes is never taken for a number.
ASSUME RawsAssumption == \A m \in RawTopics : Len(m[2]) > 1 \/ m[2] = Unreadable
ASSUME SendsAssumption == \A m \in Sends : m[2] \subseteq {"clear", "learn", "raw_data"}
ASSUME FieldsAssumption == MaxFields \in Nat \ {0}

Bad == -1000      \* a value that is no number
Null == -1001     \* JSON's null
NoSend == {"none"}     \* no "send" in a JSON message
NotText == {"number"}  \* a "send" that is not a string
Devices == DOMAIN Sensors
Addresses == [1..4 -> 0..255]

\* What messages are for, and what they hold
ASSUME MessagesAssumption ==
  /\ \A m \in RawTopics : m[1] \in Devices /\ m[2] \in Seq(Int)
  /\ \A m \in Sends : m[1] \in Devices
  /\ \A m \in Bulks : m.to \in Devices /\ IsFiniteSet(DOMAIN m.values) /\ m.raw \in Seq(Int)
\* What devices are made of.  Any device may have default bytes, and any that is answered may
\* teach in: the configuration restricts neither to 4BS.
ASSUME SensorsAssumption ==
  /\ BaseId \in Addresses
  /\ \A d \in Devices :
       /\ Sensors[d].sender \in Addresses \cup {<<>>}
       /\ IsSequence(Sensors[d].cases)
       /\ \A k \in DOMAIN Sensors[d].cases :
            LET fields == Sensors[d].cases[k].fields
            IN IsSequence(fields) /\ \A i \in DOMAIN fields : fields[i].offset \in Nat /\ fields[i].size \in Nat
  /\ \A t \in LearnTelegrams : t[1] \in Devices

VARIABLES
  shadows,    \* <<a, b>> : the name of a occurs in the topics of b
  scratch,    \* sensor.learn, sensor.raw_data and sensor.data of each device
  wanted,     \* what the user has asked for since the last telegram that cleared it
  askedLearn, \* ... and whether a teach-in was asked for since the last telegram
  base,       \* is the Base ID known?
  link,       \* is the transceiver connected?
  lock,       \* who holds the send lock: "mqtt", "radio" or "free"
  mqtt,       \* the MQTT task
  radio,      \* the transceiver task
  ended       \* what has ended the process, "no" while it runs

vars == <<shadows, scratch, wanted, askedLearn, base, link, lock, mqtt, radio, ended>>

Idle == [pc |-> "idle", dev |-> 0, data |-> <<>>, clear |-> FALSE, raw |-> Absent,
         learnt |-> <<>>, asked |-> FALSE, wanted |-> NoValues]
Nothing == [d \in Devices |-> NoScratch]

Init ==
  /\ shadows \in ShadowChoices
  /\ scratch = Nothing
  /\ wanted = [d \in Devices |-> NoValues] /\ askedLearn = [d \in Devices |-> FALSE]
  /\ base = FALSE /\ link = FALSE /\ lock = "free"
  /\ mqtt = Idle /\ radio = Idle
  /\ ended = "no"

\* The process ends.
End(cause) ==
  /\ scratch' = Nothing
  /\ wanted' = [d \in Devices |-> NoValues] /\ askedLearn' = [d \in Devices |-> FALSE]
  /\ base' = FALSE /\ link' = FALSE /\ lock' = "free"
  /\ mqtt' = Idle /\ radio' = Idle
  /\ ended' = cause /\ UNCHANGED shadows
Restart ==
  /\ ended # "no" /\ ended' = "no"
  /\ UNCHANGED <<shadows, scratch, wanted, askedLearn, base, link, lock, mqtt, radio>>

Merge(values, more) ==
  [n \in DOMAIN values \cup DOMAIN more |-> IF n \in DOMAIN more THEN more[n] ELSE values[n]]
One(name, value) == [n \in {name} |-> value]
\* mutant: a value that is there already is kept
AccumulateKeeps(s, values) == [s EXCEPT !.data = Merge(values, @), !.given = TRUE]
Accumulate(s, values) == [s EXCEPT !.data = Merge(@, values), !.given = TRUE]

---------------------------------------------------------------------------
(* Sending, for either task.                                               *)

SenderOf(d) == IF Sensors[d].sender # <<>> THEN Sensors[d].sender
               ELSE IF base THEN BaseId ELSE Placeholder
\* mutant: the Base ID is not waited for
MaySendAlways(d) == TRUE
MaySend(d) == base \/ Sensors[d].sender # <<>>

Carries(bytes) == \A k \in DOMAIN bytes : bytes[k] \in 0..255

\* The lock goes to the other task when it waits for it.
Release(by, other) ==
  lock' = IF lock # by THEN lock ELSE IF other.pc = "waiting" THEN IF by = "mqtt" THEN "radio" ELSE "mqtt"
          ELSE "free"

---------------------------------------------------------------------------
(* The MQTT task: send_message.                                            *)

CommandMissing(d, s) ==
  LET name == Sensors[d].command
  IN name # "" /\ (IF name \in DOMAIN s.data THEN s.data[name] = 0 ELSE TRUE)
CommandOf(d, s) == IF Sensors[d].command = "" THEN None ELSE s.data[Sensors[d].command]

\* mutant: the learn flag stays
ClearedButLearn(s, clear) ==
  [learn |-> s.learn, raw |-> Absent, given |-> s.given /\ ~clear, data |-> IF clear THEN NoValues ELSE s.data]
Cleared(s, clear) ==
  [learn |-> FALSE, raw |-> Absent, given |-> s.given /\ ~clear, data |-> IF clear THEN NoValues ELSE s.data]

Kept(d, s, user, asks) ==
  /\ scratch' = [scratch EXCEPT ![d] = s]
  /\ wanted' = [wanted EXCEPT ![d] = user] /\ askedLearn' = [askedLearn EXCEPT ![d] = asks]
Spent(d, clear, s, user) == Kept(d, Cleared(s, clear), IF clear THEN NoValues ELSE user, FALSE)

\* With s the scratch fields as the message leaves them, user what the user wants by then and
\* asks whether the user asks for a teach-in.
SendMessage(d, clear, s, user, asks) ==
  \/ /\ CommandMissing(d, s) /\ Kept(d, s, user, asks)
     /\ UNCHANGED <<shadows, base, link, radio, ended, lock, mqtt>>
  \/ /\ ~CommandMissing(d, s)
     /\ \E out \in {Telegram(Sensors[d], s, CommandOf(d, s), FALSE, Absent, SenderOf(d))} :
          \/ /\ ~MaySend(d) \/ out.result = "dropped"
             /\ Spent(d, clear, s, user) /\ UNCHANGED <<shadows, base, link, radio, ended, lock, mqtt>>
          \/ MaySend(d) /\ out.result = "raises" /\ End("malformed")
          \/ MaySend(d) /\ out.result = "sent" /\ ~link /\ End("unlinked")
          \/ /\ MaySend(d) /\ out.result = "sent" /\ link /\ Kept(d, s, user, asks)
             /\ lock' = IF lock = "free" THEN "mqtt" ELSE lock
             /\ mqtt' = [pc |-> "waiting", dev |-> d, data |-> out.data, clear |-> clear, raw |-> s.raw,
                         learnt |-> Absent, asked |-> asks, wanted |-> user]
             /\ UNCHANGED <<shadows, base, link, radio, ended>>

\* The lock is taken and the telegram written; a writer that was closed in the meantime, a
\* connection that is gone and a byte that is none all raise.
MqttWrite ==
  /\ mqtt.pc = "waiting" /\ lock = "mqtt"
  /\ IF ~link THEN End("unlinked")
     ELSE IF ~Carries(mqtt.data) THEN End("malformed")
     ELSE /\ mqtt' = [mqtt EXCEPT !.pc = "written"]
          /\ UNCHANGED <<shadows, scratch, wanted, askedLearn, base, link, lock, radio, ended>>
MqttWriteFails ==
  /\ mqtt.pc = "waiting" /\ lock = "mqtt" /\ link
  /\ End("unlinked")

MqttSent ==
  /\ mqtt.pc = "written"
  /\ Spent(mqtt.dev, mqtt.clear, scratch[mqtt.dev], wanted[mqtt.dev])
  /\ mqtt' = Idle /\ Release("mqtt", radio)
  /\ UNCHANGED <<shadows, base, link, radio, ended>>

---------------------------------------------------------------------------
(* The MQTT task: handle_normal.  Every device whose name occurs in the    *)
(* topic handles the message; for one that is not addressed the rest of    *)
(* the topic is the name of a field that no profile has, whatever its      *)
(* value, and the first value that is no number ends the loop.             *)

Before(d) == {a \in Devices : a < d /\ <<a, d>> \in shadows}
After(d) == {a \in Devices : a > d /\ <<a, d>> \in shadows}

\* mutant: one field too many
RoomForOneMore(s, name) == name \in DOMAIN s.data \/ Cardinality(DOMAIN s.data) <= MaxFields
Room(s, name) == name \in DOMAIN s.data \/ Cardinality(DOMAIN s.data) < MaxFields
Garbled(s) == IF Room(s, "garbled") THEN Accumulate(s, One("garbled", 0)) ELSE s
Full(s, name) == ~Room(s, name)

\* A field with a number.  A device that has no room for it ends the loop, too.
Single(d, name, value) ==
  LET takers == {a \in Before(d) : \A c \in Before(d) : c < a => Room(scratch[c], "garbled")}
      reached == \A a \in Before(d) : Room(scratch[a], "garbled")
      later == IF reached /\ Room(scratch[d], name)
               THEN {a \in After(d) : \A c \in After(d) : c < a => Room(scratch[c], "garbled")} ELSE {}
  IN /\ mqtt.pc = "idle"
     /\ scratch' = [a \in Devices |->
                      IF a \in takers \cup later THEN Garbled(scratch[a])
                      ELSE IF a = d /\ reached /\ Room(scratch[d], name)
                           THEN Accumulate(scratch[d], One(name, value))
                      ELSE scratch[a]]
     /\ wanted' = IF Full(scratch[d], name) THEN wanted
                  ELSE [wanted EXCEPT ![d] = Merge(@, One(name, value))]
     /\ UNCHANGED <<shadows, askedLearn, base, link, lock, mqtt, radio, ended>>

RawTopic(d, raw) ==
  /\ mqtt.pc = "idle" /\ Before(d) = {}
  /\ scratch' = [scratch EXCEPT ![d].raw = raw]
  /\ UNCHANGED <<shadows, wanted, askedLearn, base, link, lock, mqtt, radio, ended>>

SendTopic(d, actions) ==
  /\ mqtt.pc = "idle" /\ Before(d) = {}
  /\ LET learns == [scratch[d] EXCEPT !.learn = @ \/ "learn" \in actions]
         s == IF "raw_data" \in actions THEN learns ELSE [learns EXCEPT !.raw = Absent]
     IN SendMessage(d, "clear" \in actions, s, wanted[d], askedLearn[d] \/ "learn" \in actions)

---------------------------------------------------------------------------
(* The MQTT task: handle_json.  The first device whose name occurs in the  *)
(* topic ends the search.  A value that is no number is deleted from the   *)
(* dictionary that is being iterated over, which raises; null raises, too, *)
(* and so does a "send" that is no string.                                 *)

Named(send) == send \notin {NoSend, NotText}
Bulk(m) ==
  LET d == m.to
      takesRaw == Named(m.send) /\ "raw_data" \in m.send /\ m.raw # Absent
      s1 == [scratch[d] EXCEPT !.learn = @ \/ "learn" \in m.send, !.raw = IF takesRaw THEN m.raw ELSE @]
      fits == Cardinality(DOMAIN s1.data) + Cardinality(DOMAIN m.values) <= MaxFields
      s2 == IF fits THEN Accumulate(s1, m.values) ELSE s1
      user == IF fits THEN Merge(wanted[d], m.values) ELSE wanted[d]
      asks == askedLearn[d] \/ "learn" \in m.send
  IN /\ mqtt.pc = "idle" /\ Before(d) = {}
     /\ IF \/ m.send = NotText
           \/ m.raw # Absent /\ ~takesRaw
           \/ \E n \in DOMAIN m.values : m.values[n] \in {Bad, Null}
        THEN End("malformed")
        ELSE IF Named(m.send) THEN SendMessage(d, "clear" \in m.send, s2, user, asks)
        ELSE /\ scratch' = [scratch EXCEPT ![d] = s2] /\ wanted' = [wanted EXCEPT ![d] = user]
             /\ UNCHANGED <<shadows, askedLearn, base, link, lock, mqtt, radio, ended>>

---------------------------------------------------------------------------
(* The transceiver task.  A telegram is published first, then answered     *)
(* from the scratch fields as they are by then; what raises closes the     *)
(* connection, and the task connects again.                                *)

Connects == ~link /\ radio.pc = "idle" /\ link' = TRUE
  /\ UNCHANGED <<shadows, scratch, wanted, askedLearn, base, lock, mqtt, radio, ended>>
ReadsBaseId == link /\ ~base /\ radio.pc = "idle" /\ base' = TRUE
  /\ UNCHANGED <<shadows, scratch, wanted, askedLearn, link, lock, mqtt, radio, ended>>

\* A telegram of a device that is answered: data, or a teach-in.
Hear(d, learnt) ==
  /\ radio.pc = "idle" /\ link /\ Sensors[d].answer
  /\ radio' = [Idle EXCEPT !.pc = "publishing", !.dev = d, !.learnt = learnt]
  /\ UNCHANGED <<shadows, scratch, wanted, askedLearn, base, link, lock, mqtt, ended>>

LinkDown == /\ link' = FALSE /\ radio' = Idle /\ Release("radio", mqtt)
            /\ UNCHANGED <<shadows, scratch, wanted, askedLearn, base, mqtt, ended>>

ReplyWith(d, out) ==
  \/ /\ ~MaySend(d) \/ out.result = "dropped"
     /\ radio' = Idle /\ UNCHANGED <<shadows, scratch, wanted, askedLearn, base, link, lock, mqtt, ended>>
  \/ MaySend(d) /\ out.result = "raises" /\ LinkDown
  \/ /\ MaySend(d) /\ out.result = "sent"
     /\ radio' = [radio EXCEPT !.pc = "waiting", !.data = out.data, !.raw = scratch[d].raw,
                               !.asked = askedLearn[d], !.wanted = wanted[d]]
     /\ lock' = IF lock = "free" THEN "radio" ELSE lock
     /\ UNCHANGED <<shadows, scratch, wanted, askedLearn, base, link, mqtt, ended>>
Reply ==
  /\ radio.pc = "publishing"
  /\ LET d == radio.dev
     IN \E out \in {Telegram(Sensors[d], scratch[d], None, TRUE, radio.learnt, SenderOf(d))} :
          ReplyWith(d, out)

RadioWrite ==
  /\ radio.pc = "waiting" /\ lock = "radio"
  /\ IF ~Carries(radio.data) THEN LinkDown
     ELSE /\ radio' = [radio EXCEPT !.pc = "written"]
          /\ UNCHANGED <<shadows, scratch, wanted, askedLearn, base, link, lock, mqtt, ended>>
RadioSent ==
  /\ radio.pc = "written"
  /\ radio' = Idle /\ Release("radio", mqtt)
  /\ UNCHANGED <<shadows, scratch, wanted, askedLearn, base, link, mqtt, ended>>

\* The connection is lost, or publishing fails in the transceiver task.
LinkBreaks == link /\ radio.pc # "written" /\ LinkDown

\* mutant: a cancelled task keeps the lock
BrokerDropLocked ==
  /\ mqtt' = Idle /\ radio' = Idle /\ link' = FALSE
  /\ UNCHANGED <<shadows, scratch, wanted, askedLearn, base, lock, ended>>
\* The MQTT connection is lost: both tasks are cancelled where they wait.
BrokerDrop ==
  /\ mqtt' = Idle /\ radio' = Idle /\ lock' = "free" /\ link' = FALSE
  /\ UNCHANGED <<shadows, scratch, wanted, askedLearn, base, ended>>

---------------------------------------------------------------------------
Message ==
  \/ \E m \in Singles : Single(m[1], m[2], m[3])
  \/ \E m \in RawTopics : RawTopic(m[1], m[2])
  \/ \E m \in Sends : SendTopic(m[1], m[2])
  \/ \E m \in Bulks : Bulk(m)
MqttProceeds == MqttWrite \/ MqttSent
RadioProceeds == Reply \/ RadioWrite \/ RadioSent
Fault == MqttWriteFails \/ LinkBreaks \/ BrokerDrop

Telegrams ==
  \/ \E d \in Devices : Hear(d, Absent)
  \/ \E t \in LearnTelegrams : Hear(t[1], t[2])

Next ==
  \/ /\ ended = "no"
     /\ Message \/ MqttProceeds \/ RadioProceeds \/ Connects \/ ReadsBaseId \/ Telegrams \/ Fault
  \/ Restart

Spec == Init /\ [][Next]_vars

---------------------------------------------------------------------------
(* Properties.                                                             *)

\* Every variable keeps its type, and the cap on fields holds.
TypeOK ==
  /\ \A d \in Devices : scratch[d].learn \in BOOLEAN /\ scratch[d].raw \in Seq(Int)
  /\ \A d \in Devices : Cardinality(DOMAIN scratch[d].data) <= MaxFields
  /\ \A d \in Devices : ~scratch[d].given => scratch[d].data = NoValues
  /\ base \in BOOLEAN /\ link \in BOOLEAN /\ ended \in {"no", "malformed", "unlinked"}
  /\ mqtt.pc \in {"idle", "waiting", "written"}
  /\ radio.pc \in {"idle", "publishing", "waiting", "written"}
  /\ lock \in {"mqtt", "radio", "free"}

Tasks == {mqtt, radio}
Commanded(t) == t.pc = "written" /\ t.raw = Absent /\ t.learnt = Absent

\* The fields a device can be asked for: those of the cases of its profile that are for the
\* direction of the telegram and whose conditions, if any, are among the values asked for.
Fulfils(fields, condition, asked) ==
  \E k \in DOMAIN fields : /\ fields[k].offset = condition.offset /\ fields[k].name \in DOMAIN asked
                           /\ asked[fields[k].name] = condition.value
Askable(sensor, direction, asked) ==
  {n \in DOMAIN asked : \E i \in DOMAIN sensor.cases :
     LET case == sensor.cases[i]
     IN /\ Open(case, direction) /\ \A c \in case.conditions : Fulfils(case.fields, c, asked)
        /\ \E k \in DOMAIN case.fields : case.fields[k].name = n}

\* A telegram that went out carries all the fields its user can ask for and had asked for by the
\* time it was built, each with the value last asked for, or that of the default data, as a receiver
\* reads it, and nothing else: nothing of a command that a telegram with "clear" has ended, nothing
\* meant for another device, no value that another one overwrote.  What is left out without a word
\* (set_eep skips a name the case does not have) is a field of no case for the telegram's direction
\* and command: so SP, a field of the telegrams to the valve, goes out with the reply to the valve
\* and not with a telegram sent at once, for the mapping's direction '1' is that of telegrams from
\* the valve, or, being a string, that of no case.
\* (A device whose topics contain the name of an earlier one may miss its commands, and default
\* bytes may set any other field.)
Faithful(case, bits, status, asked, askable, free) ==
  /\ \E read \in {Decode(case, bits, status)} :
       /\ askable \subseteq DOMAIN read
       /\ \A n \in DOMAIN read \cap DOMAIN asked : read[n][1] = 10 * asked[n] * read[n][2]
  /\ free \/ \A k \in DOMAIN case.fields :
       case.fields[k].name \in DOMAIN asked \cup {"LRNB"} \/ RawOf(case, k, bits, status) = 0
ReadsAs(sensor, direction, bits, status, asked) ==
  Faithful(SelectCase(sensor.cases, bits, status, direction, None), bits, status, asked,
           Askable(sensor, direction, asked), sensor.default.bytes # <<>>)
CommandWhole ==
  \A t \in Tasks : Commanded(t) /\ Before(t.dev) = {} =>
    LET sensor == Sensors[t.dev]
    IN ReadsAs(sensor, Direction(sensor, t = radio), BitData(t.data), ToBits(t.data[Len(t.data)], 8),
               Merge(sensor.default.values, t.wanted))

\* A 4BS telegram is a teach-in exactly when one was asked for and no command has gone out since,
\* or when it responds to the device's own teach-in; the flag of a request that was refused or cut
\* off stays up for the next telegram, and for a reply, but no longer.  (Raw data and default bytes
\* bring a learn bit of their own.)
TeachInExact ==
  \A t \in Tasks : t.pc = "written" /\ t.data[1] = Bs4 /\ t.raw = Absent
                   /\ Sensors[t.dev].default.bytes = <<>> =>
    Teaches(t.data) = (t.asked \/ t.learnt # Absent)

\* The answer to a teach-in (encoder.py:126) and default bytes (encoder.py:175) are written over the
\* four bytes after the RORG, even where the payload is shorter and the sender follows: an answered
\* 1BS contact, say, goes by an address that nobody has.
Overrun(t) ==
  Len(t.data) < 10 /\ (t.learnt # Absent \/ (t.raw = Absent /\ Sensors[t.dev].default.bytes # <<>>))

\* Every telegram that goes out can be read as a radio packet, and comes from an address that is
\* the transceiver's: the device's own sender or the Base ID, never the placeholder.  Only where the
\* sender is overrun, in a telegram with a payload of less than four bytes that is filled with an
\* answer or default bytes, is its address another.
Addressed ==
  \A t \in Tasks : t.pc = "written" =>
    /\ Readable(Radio, t.data, <<3, 255, 255, 255, 255, 255, 0>>)
    /\ Overrun(t) \/ Packet(Radio, t.data, <<3, 255, 255, 255, 255, 255, 0>>).sender =
         (IF Sensors[t.dev].sender # <<>> THEN Sensors[t.dev].sender ELSE BaseId)

\* The lock is free when neither task sends, else it belongs to one that does: an exception, a
\* cancelled task or a lost connection never leaves it with nobody, which would keep the other task
\* waiting for ever.
LockInUse ==
  /\ (lock = "free") = (\A t \in Tasks : t.pc \notin {"waiting", "written"})
  /\ lock = "mqtt" => mqtt.pc \in {"waiting", "written"}
  /\ lock = "radio" => radio.pc \in {"waiting", "written"}
  /\ mqtt.pc = "written" => lock = "mqtt"
  /\ radio.pc = "written" => lock = "radio"

\* "robustness: malformed / oversized input must not crash" (tests/daemon/test_inbound.py:86).
MalformedHarmless == ended # "malformed"

=============================================================================
