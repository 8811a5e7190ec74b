-------------------------------- MODULE Esp3 --------------------------------
(***************************************************************************)
(* ESP3 frames and radio packets (protocol/packet.py, crc8.py, utils.py):  *)
(* how a packet becomes bytes, how bytes become packets again, what a      *)
(* radio packet says of itself, and how a packet for sending is made and   *)
(* filled.  Radio packets have a payload or are empty; a frame whose data  *)
(* is shorter than sender and status is outside the model.                 *)
(***************************************************************************)
EXTENDS Engine

Radio == 1
Response == 2
Event == 4
CommonCommand == 5
Ute == 212

XorTable == [a \in 0..15 |-> [b \in 0..15 |->
  LET bit(k) == ((a \div k) + (b \div k)) % 2 IN 8 * bit(8) + 4 * bit(4) + 2 * bit(2) + bit(1)]]
Xor(a, b) == 16 * XorTable[a \div 16][b \div 16] + XorTable[a % 16][b % 16]

\* The table of the checksum, by the polynomial it stands for: eight shifts of a byte.
Shift == [c \in 0..255 |-> IF c >= 128 THEN Xor((2 * c) % 256, 7) ELSE 2 * c]
CrcTable ==
  LET twice(c) == Shift[Shift[c]]
  IN [b \in 0..255 |-> twice(twice(twice(twice(b))))]
\* mutant: no checksum
CrcNone(bytes) == 0
Crc(bytes) ==
  LET crc[i \in 0..Len(bytes)] == IF i = 0 THEN 0 ELSE CrcTable[Xor(crc[i - 1], bytes[i])]
  IN crc[Len(bytes)]

Sync == 85
Build(type, data, optional) ==
  LET header == <<Len(data) \div 256, Len(data) % 256, Len(optional), type>>
  IN <<Sync>> \o header \o <<Crc(header)>> \o data \o optional \o <<Crc(data \o optional)>>

---------------------------------------------------------------------------
(* A packet: its payload bits, and what it says of itself.                 *)

\* The bits between RORG and sender; without a payload there is one bit, not none.
BitData(data) ==
  IF Len(data) <= 6 THEN <<0>>
  ELSE FlattenSeq([k \in 1..(Len(data) - 6) |-> ToBits(data[k + 1], 8)])
WithBits(data, bits) ==
  [k \in DOMAIN data |-> IF k \in 2..(Len(data) - 5)
                         THEN FromBits(SubSeq(bits, 8 * k - 15, 8 * k - 8)) ELSE data[k]]

Db0(data, bit) == BitData(data)[Len(BitData(data)) - bit]    \* bit 0..7 of the last byte
Teaches(data) ==    \* only 1BS and 4BS carry a learn bit, any other packet is a teach-in
  data[1] \in {Bs1, Bs4} => Db0(data, 3) = 0

\* A packet with good checksums can still be one that no Packet object is made of: reading its
\* RORG, signal strength, learn bits or UTE fields raises.
Readable(type, data, optional) ==
  /\ type \in {Radio, Response, Event} => data # <<>>
  /\ type = Radio =>
       /\ Len(optional) >= 6
       /\ data[1] \in {Bs1, Bs4, Ute} => Len(data) > 6
       /\ data[1] = Bs4 /\ Teaches(data) /\ Db0(data, 7) = 1 => Len(data) >= 10
       /\ data[1] = Ute => Len(data) >= 13

Packet(type, data, optional) ==
  IF type # Radio THEN [type |-> type, data |-> data]
  ELSE [type |-> Radio, data |-> data, rorg |-> data[1],
        sender |-> SubSeq(data, Len(data) - 4, Len(data) - 1), dBm |-> -optional[6],
        learn |-> Teaches(data),
        status |-> CASE data[1] \in {Rps, Bs1, Bs4} -> data[Len(data)]
                     [] data[1] = Vld -> optional[Len(optional)]
                     [] OTHER -> 0]

---------------------------------------------------------------------------
(* Parsing: what the next message is, the bytes after it and the packet.   *)
(* "raises" is an exception that leaves the caller's buffer as it was.     *)

NoPacket == [type |-> 0, data |-> <<>>]
Parsed(status, rest, packet) == [status |-> status, rest |-> rest, packet |-> packet]

ParseMsg(buffer) ==
  LET syncs == {i \in DOMAIN buffer : buffer[i] = Sync}
      start == CHOOSE i \in syncs : \A j \in syncs : i <= j
      buf == SubSeq(buffer, start, Len(buffer))
      dataLen == 256 * buf[2] + buf[3]
      end == 7 + dataLen + buf[4]
      data == SubSeq(buf, 7, 6 + dataLen)
      optional == SubSeq(buf, 7 + dataLen, end - 1)
      rest == SubSeq(buf, end + 1, Len(buf))
  IN IF syncs = {} THEN Parsed("incomplete", <<>>, NoPacket)
     ELSE IF Len(buf) < 4 \/ Len(buf) < end THEN Parsed("incomplete", buf, NoPacket)
     ELSE IF buf[6] # Crc(SubSeq(buf, 2, 5)) \/ buf[end] # Crc(data \o optional)
          THEN Parsed("mismatch", rest, NoPacket)
     ELSE IF ~Readable(buf[5], data, optional) THEN Parsed("raises", buffer, NoPacket)
     ELSE Parsed("ok", rest, Packet(buf[5], data, optional))

---------------------------------------------------------------------------
(* Packets for sending.  What a packet remembers of its profile is the     *)
(* cases, the direction and the command it was made with.                  *)

\* What decoding a telegram with a profile gives (parse_eep).
Parse(cases, data, status, direction, command) ==
  LET bits == BitData(data)
      st == ToBits(status, 8)
  IN IF cases = <<>> THEN [name \in {} |-> 0]
     ELSE Decode(SelectCase(cases, bits, st, direction, command), bits, st)

\* Writing values into a packet (set_eep); "wrong" when a value is rejected.
Write(packet, case, bits, st, values) ==
  IF Rejected(case, values) THEN [packet EXCEPT !.wrong = TRUE]
  ELSE [packet EXCEPT !.data = WithBits(@, Written(bits, case, values, TRUE)),
                      !.status = FromBits(Written(st, case, values, FALSE))]
SetBits(packet, bits, st, values) ==
  IF packet.cases = <<>> THEN packet
  ELSE Write(packet, SelectCase(packet.cases, bits, st, packet.direction, packet.command),
             bits, st, values)
SetEep(packet, values) == SetBits(packet, BitData(packet.data), ToBits(packet.status, 8), values)

WithStatus(packet) == [packet EXCEPT !.data[Len(packet.data)] = packet.status]

Learnable(data, learn) ==     \* the learn bit: 1 for data
  IF learn \/ data[1] \notin {Bs1, Bs4} \/ Db0(data, 3) = 1 THEN data
  ELSE [data EXCEPT ![Len(data) - 5] = @ + 8]

Empty(rorg, cases, direction, command, sender) ==
  LET length == CASE rorg \in {Rps, Bs1} -> 1
                  [] rorg = Bs4 -> 4
                  [] OTHER -> VldDataBytes(cases, direction, command)
  IN [data |-> <<rorg>> \o [k \in 1..length |-> 0] \o sender \o <<0>>, status |-> 0,
      cases |-> cases, direction |-> direction, command |-> command,
      wrong |-> rorg \notin {Rps, Bs1, Bs4, Vld}]
Commanding(packet, command) ==
  IF packet.wrong \/ command \in {None, 0} THEN packet ELSE SetEep(packet, [CMD |-> command])
Learning(packet, learn) == WithStatus([packet EXCEPT !.data = Learnable(@, learn)])
Create(rorg, cases, direction, command, sender, learn) ==
  Learning(Commanding(Empty(rorg, cases, direction, command, sender), command), learn)
=============================================================================
