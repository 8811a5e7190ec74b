------------------------------ MODULE Reception ------------------------------
(***************************************************************************)
(* Telegrams from the line to the broker: framing (stream.py), the reading *)
(* of packets (daemon.py, with Reader) and the positions of shutters       *)
(* (ha_bridge.py, with Cover), over damaged frames, lost connections and   *)
(* restarts.                                                               *)
(*                                                                         *)
(* The transceiver task reads a chunk, takes packet after packet from the  *)
(* buffer and publishes what each of them tells, one message after the     *)
(* other; the MQTT task publishes the stored positions when the process    *)
(* first connects.  Handing a message to the MQTT client happens at once   *)
(* and in order; then the task waits until the client has sent it.  Both   *)
(* tasks live within one connection to the broker.                         *)
(*                                                                         *)
(* Not in the model: secure telegrams and teach-ins (RollingCode,          *)
(* Provisioning), replies (Inbound), responses (StickLink).                *)
(***************************************************************************)
EXTENDS Reader, Cover

CONSTANTS
  Setups,     \* sequence of [devices, frames]: a configuration, and the frames its transceiver may
              \*   send, each [type, data, optional, told], with the messages it is to lead to
  Damages,    \* what may happen to a frame on the line: [kind, at]
  Chunks,     \* how many bytes a read may return
  MaxBuffer,  \* _MAX_BUFFER
  MaxFrames,  \* how many frames are sent
  MaxFaults   \* how many faults occur

Intact == [kind |-> "none", at |-> 0]
ASSUME DamagesAssumption ==
  /\ Intact \in Damages
  /\ \A d \in Damages \ {Intact} : d.kind \in {"alter", "lose"} /\ d.at \in Nat \ {0}
\* A frame is made of bytes, and its lengths fit the header.
ASSUME FramesAssumption ==
  \A s \in DOMAIN Setups : \A f \in DOMAIN Setups[s].frames :
    LET frame == Setups[s].frames[f]
    IN /\ frame.type \in 0..255 /\ frame.data \in Seq(0..255) /\ frame.optional \in Seq(0..255)
       /\ Len(frame.data) < 65536 /\ Len(frame.optional) < 256
\* What a device's profile and channels are made of.  No device has the name of a shutter, and a
\* shutter has the device that sends its running times.
ASSUME SetupsAssumption ==
  \A s \in DOMAIN Setups :
    /\ IsSequence(Setups[s].devices)
    /\ \A i \in DOMAIN Setups[s].devices :
         LET d == Setups[s].devices[i]
         IN /\ d.name \notin Covers /\ IsSequence(d.cases)
            /\ \A k \in DOMAIN d.cases : IsSequence(d.cases[k].fields) /\ IsSequence(d.cases[k].status)
            /\ d.cover \in Covers => \E j \in DOMAIN Setups[s].devices :
                 Setups[s].devices[j].cover = d.cover /\ Setups[s].devices[j].rorg = Bs4
ASSUME ChunksAssumption == MaxBuffer \in Nat /\ \A n \in Chunks : n \in 1..MaxBuffer

VARIABLES
  setup,      \* which of the Setups is the case
  sent,       \* the frames sent while connected, and whether they left intact
  line,       \* bytes on their way
  buffer,     \* bytes received and not framed yet
  radio,      \* the transceiver task, and the messages it has still to publish
  mqtt,       \* the MQTT task, and the shutters it has still to announce
  first,      \* was no connection to the broker completed yet?
  wire,       \* messages in the MQTT client, oldest first: [by, message]
  rows,       \* shutters that have a row in the store
  readings,   \* messages that telegrams have led to, as the broker got them
  retained,   \* the position that the broker retains for each shutter
  behind,     \* shutters whose topic has missed a position since the process first connected
  trouble,    \* was anything disturbed that could cost an undamaged frame?
  faults      \* how many faults occurred

vars == <<setup, sent, line, buffer, radio, mqtt, first, wire, rows, readings, retained,
          behind, trouble, faults, position, exact, moves>>

Reading == [pc |-> "reading", todo |-> <<>>]
Unlinked == [pc |-> "down", todo |-> <<>>]
Offline == [pc |-> "down", todo |-> <<>>]

Init ==
  /\ CoverInit
  /\ setup \in DOMAIN Setups
  /\ sent = <<>> /\ line = <<>> /\ buffer = <<>>
  /\ radio = Unlinked /\ mqtt = Offline /\ first = TRUE
  /\ wire = <<>> /\ rows = {}
  /\ readings = <<>> /\ retained = [c \in Covers |-> NoPosition]
  /\ behind = {} /\ trouble = FALSE /\ faults = 0

PositionTopic(c) == Topic(c, <<>>, "_ha/pos")
LegacyTopic(c) == Topic(c, <<>>, "pos")
Position(c, p) == Told(PositionTopic(c), [n \in {"POS"} |-> <<p>>])
OnWire(w, c) == \E i \in DOMAIN w : w[i].message.topic = PositionTopic(c)
HandOver(by, message) == wire' = Append(wire, [by |-> by, message |-> message])

Fault == faults < MaxFaults /\ faults' = faults + 1 /\ trouble' = TRUE

Devices == Setups[setup].devices
Frames == Setups[setup].frames

---------------------------------------------------------------------------
(* The line, and the transceiver task down to the buffer.                  *)

Damaged(bytes, d) ==
  CASE d.kind = "none" -> bytes
    [] d.kind = "alter" -> [bytes EXCEPT ![d.at] = Xor(@, 255)]
    [] d.kind = "lose" -> RemoveAt(bytes, d.at)

\* A damage that moves the end of the frame may cost the frames after it.
Confusing(d) == d.kind = "lose" \/ (d.kind = "alter" /\ d.at <= 4)

Send(f, d) ==
  LET bytes == Build(Frames[f].type, Frames[f].data, Frames[f].optional)
  IN /\ radio.pc # "down" /\ Len(sent) < MaxFrames /\ d.at <= Len(bytes)
     /\ d # Intact => faults < MaxFaults
     /\ line' = line \o Damaged(bytes, d)
     /\ sent' = Append(sent, [frame |-> f, intact |-> d = Intact])
     /\ faults' = IF d = Intact THEN faults ELSE faults + 1
     /\ trouble' = (trouble \/ Confusing(d))
     /\ UNCHANGED <<setup, buffer, radio, mqtt, first, wire, rows, readings, retained, behind, coverVars>>

\* mutant: the buffer grows without a limit
KeptAll(bytes) == bytes
Kept(bytes) == IF Len(bytes) > MaxBuffer THEN <<>> ELSE bytes

Read(n) ==
  LET taken == Min({n, Len(line)})
      bytes == buffer \o SubSeq(line, 1, taken)
  IN /\ radio.pc = "reading" /\ line # <<>>
     /\ line' = SubSeq(line, taken + 1, Len(line))
     /\ buffer' = Kept(bytes)
     /\ radio' = IF Kept(bytes) = <<>> THEN radio ELSE [radio EXCEPT !.pc = "framing"]
     /\ trouble' = (trouble \/ Kept(bytes) = <<>>)
     /\ UNCHANGED <<setup, sent, mqtt, first, wire, rows, readings, retained, behind, faults, coverVars>>

\* The task connects again after any exception; the buffer stays.
LinkDown == radio' = Unlinked /\ line' = <<>>
Connect ==
  /\ radio.pc = "down" /\ mqtt.pc # "down"
  /\ radio' = Reading
  /\ UNCHANGED <<setup, sent, line, buffer, mqtt, first, wire, rows, readings, retained, behind,
                 trouble, faults, coverVars>>
LinkBreaks ==
  /\ radio.pc = "reading" /\ Fault /\ LinkDown
  /\ UNCHANGED <<setup, sent, buffer, mqtt, first, wire, rows, readings, retained, behind, coverVars>>

---------------------------------------------------------------------------
(* The transceiver task: one packet after the other from the buffer.  What *)
(* is left of the buffer is assigned before the packet is handled, unless  *)
(* parsing raises.                                                         *)

\* mutant: one packet for each chunk
FramedOnce(p) == "reading"
\* The next state of the task once parsing gave p and there is nothing to publish.
Framed(p) == IF p.status = "incomplete" THEN "reading" ELSE "framing"

Start(messages) ==
  IF messages = <<>> THEN UNCHANGED <<radio, wire>>
  ELSE /\ radio' = [pc |-> "publishing", todo |-> Tail(messages)]
       /\ HandOver("radio", Head(messages))

\* What a telegram of a shutter says of its position: an end, a running time, or nothing.
Says(packet) ==
  LET raw == RawBytes(packet)
      time == 256 * raw[1] + raw[2]
  IN CASE Len(raw) = 2 /\ raw[1] \in {80, 112} -> [what |-> "end", n |-> IF raw[1] = 112 THEN 100 ELSE 0]
       [] Len(raw) = 5 -> [what |-> "run", n |-> IF raw[3] = 1 THEN time ELSE -time]
       [] OTHER -> [what |-> "nothing", n |-> 0]

\* The position to tell is stored first, where there is a row, and told in any case.
Stored(c, says, p) ==
  IF c \notin rows
  THEN Missed(c) /\ behind' = behind \cup {c}
  ELSE /\ IF says.what = "end" THEN End(c, p) ELSE Move(c, says.n, p)
       /\ behind' = behind \ {c}

Placed(content, p) == [n \in DOMAIN content \cup {"POS"} |-> IF n = "POS" THEN <<p>> ELSE content[n]]
Tell(device, packet) ==
  LET content == Content(device, packet)
      says == Says(packet)
  IN IF device.cover \notin Covers \/ says.what = "nothing"
     THEN Start(Publications(device, content, Order(device, packet))) /\ UNCHANGED <<behind, coverVars>>
     ELSE \E p \in IF says.what = "end" THEN {says.n}
                    ELSE Moved(device.cover, position[device.cover], says.n) :
            /\ Stored(device.cover, says, p)
            /\ Start(<<Position(device.cover, p)>>
                     \o Publications(device, Placed(content, p), Order(device, packet)))

Frame ==
  LET p == ParseMsg(buffer)
      device == Matching(Devices, p.packet)
  IN /\ radio.pc = "framing"
     /\ buffer' = p.rest
     /\ IF p.status = "raises" THEN LinkDown /\ trouble' = TRUE /\ UNCHANGED <<wire, behind, coverVars>>
        ELSE /\ UNCHANGED <<line, trouble>>
             /\ IF p.status = "ok" /\ p.packet.type = Radio /\ IsPublished(device, p.packet)
                THEN Tell(device, p.packet)
                ELSE /\ radio' = [radio EXCEPT !.pc = Framed(p)]
                     /\ UNCHANGED <<wire, behind, coverVars>>
     /\ UNCHANGED <<setup, sent, mqtt, first, rows, readings, retained, faults>>

\* Storing a position raises; nothing of the telegram is told.
StoreFails ==
  LET p == ParseMsg(buffer)
      device == Matching(Devices, p.packet)
  IN /\ radio.pc = "framing" /\ p.status = "ok" /\ p.packet.type = Radio
     /\ IsPublished(device, p.packet)
     /\ device.cover \in rows /\ Says(p.packet).what # "nothing"
     /\ Missed(device.cover)
     /\ buffer' = p.rest /\ LinkDown /\ Fault
     /\ UNCHANGED <<setup, sent, mqtt, first, wire, rows, readings, retained, behind>>

---------------------------------------------------------------------------
(* The MQTT client.                                                        *)

Got(message) ==
  LET told == {c \in Covers : message.topic = PositionTopic(c)}
      cleared == {c \in Covers : message.topic = LegacyTopic(c)}
  IN /\ retained' = [c \in Covers |-> IF c \in told THEN message.payload["POS"][1] ELSE retained[c]]
     /\ readings' = IF told \cup cleared = {} THEN Append(readings, message) ELSE readings

Deliver ==
  /\ wire # <<>> /\ Got(Head(wire).message)
  /\ LET by == Head(wire).by
     IN CASE by = "radio" /\ radio.todo # <<>> ->
               /\ wire' = Append(Tail(wire), [by |-> "radio", message |-> Head(radio.todo)])
               /\ radio' = [radio EXCEPT !.todo = Tail(@)] /\ UNCHANGED mqtt
          [] by = "radio" /\ radio.todo = <<>> ->
               wire' = Tail(wire) /\ radio' = [radio EXCEPT !.pc = "framing"] /\ UNCHANGED mqtt
          [] by = "mqtt" ->
               /\ wire' = Tail(wire) /\ UNCHANGED radio
               /\ mqtt' = IF mqtt.pc = "clearing" THEN [mqtt EXCEPT !.pc = "cleared"]
                          ELSE [pc |-> "covers", todo |-> Tail(mqtt.todo)]
          [] by = "nobody" -> wire' = Tail(wire) /\ UNCHANGED <<radio, mqtt>>
  /\ UNCHANGED <<setup, sent, line, buffer, first, rows, behind, trouble, faults, coverVars>>

\* The client takes too long for the transceiver task, which gives up; the message stays in the client.
TimesOut ==
  \E i \in DOMAIN wire :
    /\ wire[i].by = "radio" /\ wire' = [wire EXCEPT ![i].by = "nobody"]
    /\ LinkDown /\ Fault
    /\ UNCHANGED <<setup, sent, buffer, mqtt, first, rows, readings, retained, behind, coverVars>>

---------------------------------------------------------------------------
(* The MQTT task: connecting, and the first time also discovery, which     *)
(* gives every shutter a row, and the positions in the store.              *)

Online ==
  /\ mqtt.pc = "down"
  /\ mqtt' = [Offline EXCEPT !.pc = IF first THEN "discovery" ELSE "up"]
  /\ UNCHANGED <<setup, sent, line, buffer, radio, first, wire, rows, readings, retained, behind,
                 trouble, faults, coverVars>>

ShuttersOf(rorg) ==
  LET fits == Only(Devices, {d \in ToSet(Devices) : d.cover \in Covers /\ d.rorg = rorg})
  IN [k \in DOMAIN fits |-> fits[k].cover]
\* mutant: the wrong one of a shutter's devices stands for it
ShuttersByButton == ShuttersOf(Vld)
\* One device of a shutter stands for it: the one that sends its running times.
Shutters == ShuttersOf(Bs4)
Rows == {Devices[i].cover : i \in DOMAIN Devices} \cap Covers

\* mutant: an upsert that replaces the row instead of merging onto it
DiscoverReplaces ==
  /\ mqtt.pc = "discovery"
  /\ rows' = rows \cup Rows
  /\ position' = [c \in Covers |-> NoPosition] /\ UNCHANGED <<exact, moves>>
  /\ mqtt' = [pc |-> "covers", todo |-> Shutters]
  /\ UNCHANGED <<setup, sent, line, buffer, radio, first, wire, readings, retained, behind, trouble, faults>>
\* A row that exists keeps its position.
Discover ==
  /\ mqtt.pc = "discovery"
  /\ rows' = rows \cup Rows
  /\ mqtt' = [pc |-> "covers", todo |-> Shutters]
  /\ UNCHANGED <<setup, sent, line, buffer, radio, first, wire, readings, retained, behind, trouble,
                 faults, coverVars>>

\* The next shutter: its old topic is cleared first.
NextCover ==
  /\ mqtt.pc = "covers"
  /\ IF mqtt.todo = <<>>
     THEN /\ mqtt' = [mqtt EXCEPT !.pc = "up"] /\ first' = FALSE /\ UNCHANGED wire
          /\ behind' = {c \in behind : position[c] = NoPosition}
     ELSE /\ mqtt' = [mqtt EXCEPT !.pc = "clearing"] /\ UNCHANGED <<first, behind>>
          /\ HandOver("mqtt", Told(LegacyTopic(Head(mqtt.todo)), [n \in {} |-> 0]))
  /\ UNCHANGED <<setup, sent, line, buffer, radio, rows, readings, retained, trouble, faults, coverVars>>

\* The position is read after the wait and handed over at once.
TellPosition ==
  LET c == Head(mqtt.todo)
  IN /\ mqtt.pc = "cleared"
     /\ IF position[c] = NoPosition
        THEN mqtt' = [pc |-> "covers", todo |-> Tail(mqtt.todo)] /\ UNCHANGED wire
        ELSE /\ mqtt' = [mqtt EXCEPT !.pc = "telling"]
             /\ HandOver("mqtt", Position(c, position[c]))
     /\ UNCHANGED <<setup, sent, line, buffer, radio, first, rows, readings, retained, behind, trouble,
                    faults, coverVars>>

\* The user deletes a discovery config of a shutter, and with it the row that lists it.  What the
\* broker retains of the position stays.
DeleteRow(c) ==
  /\ mqtt.pc = "up" /\ c \in rows
  /\ rows' = rows \ {c} /\ Forget(c)
  /\ behind' = behind \cup {c}
  /\ UNCHANGED <<setup, sent, line, buffer, radio, mqtt, first, wire, readings, retained, trouble, faults>>

\* The connection to the broker is lost, and with it what the client had not sent; both tasks end.
SessionEnds ==
  /\ mqtt' = Offline /\ radio' = Unlinked /\ line' = <<>> /\ wire' = <<>>
  /\ behind' = behind \cup {c \in Covers : OnWire(wire, c)}
BrokerDrop ==
  /\ mqtt.pc # "down" /\ Fault /\ SessionEnds
  /\ UNCHANGED <<setup, sent, buffer, first, rows, readings, retained, coverVars>>

\* The process ends; the store and what the broker retains stay.
Crash ==
  /\ mqtt.pc # "down" /\ Fault /\ SessionEnds
  /\ buffer' = <<>> /\ first' = TRUE
  /\ UNCHANGED <<setup, sent, rows, readings, retained, coverVars>>

---------------------------------------------------------------------------
Next ==
  \/ \E f \in DOMAIN Frames, d \in Damages : Send(f, d)
  \/ \E n \in Chunks : Read(n)
  \/ Connect \/ Frame \/ Deliver
  \/ Online \/ Discover \/ NextCover \/ TellPosition
  \/ \E c \in Covers : DeleteRow(c)
  \/ LinkBreaks \/ StoreFails \/ TimesOut \/ BrokerDrop \/ Crash

Spec == Init /\ [][Next]_vars

---------------------------------------------------------------------------
(* Properties.                                                             *)

\* Every variable keeps its type; the buffer never holds more than MaxBuffer bytes, and nobody but
\* the two tasks waits for a message.
TypeOK ==
  /\ CoverTypeOK
  /\ buffer \in Seq(0..255) /\ Len(buffer) <= MaxBuffer /\ line \in Seq(0..255)
  /\ radio.pc \in {"down", "reading", "framing", "publishing"}
  /\ mqtt.pc \in {"down", "discovery", "covers", "clearing", "cleared", "telling", "up"}
  /\ (radio.pc = "publishing") = (\E i \in DOMAIN wire : wire[i].by = "radio")
  /\ (mqtt.pc \in {"clearing", "telling"}) = (\E i \in DOMAIN wire : wire[i].by = "mqtt")
  /\ rows \subseteq Covers /\ behind \subseteq Covers
  /\ retained \in [Covers -> {NoPosition} \cup 0..100]

\* What the undamaged frames are to tell, in order, and what was told, without the positions.
Expected ==
  Chain([k \in DOMAIN sent |-> IF sent[k].intact THEN Frames[sent[k].frame].told ELSE <<>>])
Unplaced(message) == [message EXCEPT !.payload = Part(@, DOMAIN @ \ {"POS"})]
Bare(messages) == [k \in DOMAIN messages |-> Unplaced(messages[k])]
Actual == Bare(readings)

\* A frame is to tell what a device makes of its packet, at whatever position.
Leads(frame, devices, packet) ==
  LET device == Matching(devices, packet)
      content == Content(device, packet)
      told(values) == Bare(Publications(device, values, Order(device, packet)))
  IN IF ~(frame.type = Radio /\ IsPublished(device, packet)) THEN frame.told = <<>>
     ELSE IF device.cover \notin Covers \/ Says(packet).what = "nothing" THEN frame.told = told(content)
     ELSE \A p \in 0..100 : frame.told = told(Placed(content, p))

\* The messages that are expected of a frame are those that its bytes lead to.
ASSUME ToldAssumption ==
  \A s \in DOMAIN Setups : \A f \in DOMAIN Setups[s].frames :
    LET frame == Setups[s].frames[f]
    IN Readable(frame.type, frame.data, frame.optional) =>
         Leads(frame, Setups[s].devices, Packet(frame.type, frame.data, frame.optional))

\* Every message that a device's telegrams lead to is one of an undamaged frame, with its values,
\* once only and in the order in which the frames were sent, whatever is lost, damaged, split
\* into chunks or left in the buffer by an earlier connection.
ReadingsTrue ==
  LET expected == Expected
      next[i \in 0..Len(readings)] ==   \* the end of the shortest prefix that has the first i
        IF i = 0 THEN 0
        ELSE LET message == Unplaced(readings[i])
                 later == {j \in next[i - 1] + 1 .. Len(expected) : expected[j] = message}
             IN IF later = {} THEN Len(expected) + 1 ELSE Min(later)
  IN next[Len(readings)] <= Len(expected)

\* While nothing disturbs the stream, every undamaged frame is told as soon as the task waits for
\* bytes that are not there: a damaged frame costs itself alone, and no frame waits in the buffer
\* for the next one to come.
NothingLost ==
  ~trouble /\ line = <<>> /\ radio.pc = "reading" => Actual = Expected

\* The retained position is the stored one whenever none is on its way, unless a message was lost
\* or the cover had no row, and that only until the next process has connected: the position that
\* is published then never overwrites a newer one from a telegram, and makes up for what was lost.
\* (Where there is none to publish, the position of a row that was deleted, say, stays retained until
\* a telegram of the shutter is stored.)
PositionTold ==
  \A c \in rows \ behind : ~OnWire(wire, c) => retained[c] = position[c]

\* What happens to the position is what Cover says: it changes by ends and movements only, and it is
\* forgotten with its row only, which the user may delete; connecting again, discovery or starting
\* again never resets it.
ForgottenWithRow == \A c \in Covers : position[c] # NoPosition /\ position'[c] = NoPosition => c \notin rows'
CoverKept == CoverSpec /\ [][ForgottenWithRow]_vars
=============================================================================
