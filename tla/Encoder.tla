------------------------------ MODULE Encoder ------------------------------
(***************************************************************************)
(* The telegram the encoder builds for a device (application/encoder.py):  *)
(* from the device's configuration and the scratch fields that inbound     *)
(* commands leave in it, as a command or as the reply to a telegram of the *)
(* device.  Wrapping it for a secure device is in RollingCode.             *)
(***************************************************************************)
EXTENDS Esp3

TextOne == 9          \* the direction '1' of a mapping: a string, equal to no number
Absent == <<>>        \* no raw_data
Unreadable == <<-1>>  \* raw_data that is no list of hex bytes
NoValues == [n \in {} |-> 0]
NoDefault == [bytes |-> <<>>, values |-> NoValues]
NoScratch == [learn |-> FALSE, raw |-> Absent, given |-> FALSE, data |-> NoValues]
Placeholder == <<222, 173, 190, 239>>

Direction(sensor, negate) ==
  IF sensor.direction = None THEN None
  ELSE IF negate THEN (IF sensor.direction = 2 THEN 1 ELSE 2)
  ELSE sensor.direction

\* The learn response: the device's own EEP and manufacturer bytes, and the acknowledgement.
LearnResponse(packet, learnt) ==
  [packet EXCEPT !.data = [k \in DOMAIN @ |-> IF k = 5 THEN 240
                                              ELSE IF k \in 2..4 THEN learnt[k] ELSE @[k]]]

\* Raw bytes must fill the payload, and may bring the status as well.
RawFits(packet, raw) ==
  raw # Unreadable /\ Len(raw) \in {Len(packet.data) - 6, Len(packet.data) - 5}
RawData(packet, raw) ==
  LET n == Len(packet.data)
      payload == SubSeq(raw, 1, n - 6)
  IN [packet EXCEPT !.data = <<@[1]>> \o payload \o SubSeq(@, n - 4, n - 1)
                             \o (IF Len(raw) = n - 5 THEN <<raw[n - 5]>> ELSE <<@[n]>>)]

StatusUnlessWrong(packet) == IF packet.wrong THEN packet ELSE WithStatus(packet)
WithValues(packet, values) == StatusUnlessWrong(SetEep(packet, values))

\* Default data is four bytes or a list of values; values given by commands come on top.
Default(packet, default) ==
  IF default.bytes # <<>>
  THEN [packet EXCEPT !.data = [k \in DOMAIN @ |-> IF k \in 2..5 THEN default.bytes[k - 1] ELSE @[k]]]
  ELSE IF default.values # NoValues THEN WithValues(packet, default.values) ELSE packet
GivenData(packet, scratch) ==
  IF packet.wrong \/ ~scratch.given THEN packet ELSE WithValues(packet, scratch.data)

\* What becomes of a request to send: "sent" with the telegram's bytes, "dropped" with a log
\* entry, or "raises" when a value is rejected where nothing catches it.
Outcome(result, data) == [result |-> result, data |-> data]

Filled(packet) == IF packet.wrong THEN Outcome("raises", <<>>) ELSE Outcome("sent", packet.data)
Fill(packet, sensor, scratch, learnt) ==
  IF packet.wrong THEN Outcome("dropped", <<>>)
  ELSE IF learnt # <<>> THEN Filled(LearnResponse(packet, learnt))
  ELSE IF scratch.raw = Absent THEN Filled(GivenData(Default(packet, sensor.default), scratch))
  ELSE IF RawFits(packet, scratch.raw) THEN Filled(RawData(packet, scratch.raw))
  ELSE Outcome("dropped", <<>>)

Telegram(sensor, scratch, command, negate, learnt, sender) ==
  Fill(Create(sensor.rorg, sensor.cases, Direction(sensor, negate), command, sender,
              learnt # <<>> \/ scratch.learn),
       sensor, scratch, learnt)
=============================================================================
