-------------------------------- MODULE Reader --------------------------------
(***************************************************************************)
(* From a received radio packet to the messages that tell it               *)
(* (application/decoder.py, publisher.py and _read_packet of daemon.py).   *)
(*                                                                         *)
(* A device of the list is a record [name, address, rorg, cases,           *)
(* direction, json, rssi, date, channel, cover, logLearn, ignore].  The    *)
(* payload of a message is a function from names to values (for a plain    *)
(* message, of the one name its topic ends with); a value is a fraction as *)
(* in Engine or a tuple of bytes, and the time of receipt is left empty.   *)
(***************************************************************************)
EXTENDS Esp3, Chains

NoDevice == [ignore |-> TRUE]

Matches(device, packet) ==
  /\ device.address = packet.sender
  /\ device.rorg = packet.rorg \/ (device.rorg = None /\ device.ignore)
Matching(devices, packet) ==
  LET fits == {i \in DOMAIN devices : Matches(devices[i], packet)}
  IN IF fits = {} THEN NoDevice ELSE devices[Min(fits)]

\* VLD devices learn by UTE and RPS devices send nothing but data.
IsLearn(device, packet) == packet.learn /\ device.rorg \notin {Vld, Rps}

Meta == {"LRN", "LRNB"}
Decoded(device, packet) ==
  LET all == Parse(device.cases, packet.data, packet.status, device.direction, None)
  IN [n \in DOMAIN all \ Meta |-> all[n]]
Interpretable(device, packet) == DOMAIN Decoded(device, packet) # {}

\* The payload and the last byte of the telegram.
RawBytes(packet) ==
  LET n == Len(packet.data) IN SubSeq(packet.data, 2, n - 5) \o <<packet.data[n]>>

IsPublished(device, packet) ==
  /\ ~device.ignore
  /\ ~IsLearn(device, packet) \/ device.logLearn
  /\ Interpretable(device, packet)

Content(device, packet) ==
  LET values == Decoded(device, packet)
  IN [n \in DOMAIN values \cup {"_RAW_DATA_", "_RSSI_", "_DATE_"} |->
        CASE n = "_RAW_DATA_" -> RawBytes(packet)
          [] n = "_RSSI_" -> <<packet.dBm>>
          [] n = "_DATE_" -> <<>>
          [] OTHER -> values[n]]

\* The order in which the code's dictionary has its entries; a name counts where it comes first.
Order(device, packet) ==
  LET case == SelectCase(device.cases, BitData(packet.data), ToBits(packet.status, 8), device.direction, None)
      all == <<"_RSSI_", "_DATE_">> \o [k \in DOMAIN Fields(case) |-> Fields(case)[k].name]
             \o <<"_RAW_DATA_", "POS">>
  IN [k \in DOMAIN all |-> IF \E i \in 1..(k - 1) : all[i] = all[k] THEN "" ELSE all[k]]

---------------------------------------------------------------------------
(* The publisher: signal strength and time on topics of their own where    *)
(* groups or plain messages ask for it, then the values, on the topic of   *)
(* the groups they belong to, in one message or in one message each.       *)

Topic(name, groups, field) == [name |-> name, groups |-> groups, field |-> field]
Told(topic, payload) == [topic |-> topic, payload |-> payload]
Part(content, names) == [n \in names |-> content[n]]

Publications(device, content, order) ==
  LET grouped == device.channel # <<>>
      own == Topic(device.name, <<>>, "")
      alone(n) == Told(Topic(device.name, <<>>, n), Part(content, {n}))
      ahead == IF device.json
               THEN LET aux == {n \in {"_RSSI_", "_DATE_"} :
                                  grouped /\ (IF n = "_RSSI_" THEN device.rssi ELSE device.date)}
                    IN IF aux = {} THEN <<>> ELSE <<Told(own, Part(content, aux))>>
               ELSE (IF device.rssi THEN <<alone("_RSSI_")>> ELSE <<>>)
                    \o (IF device.date /\ grouped THEN <<alone("_DATE_")>> ELSE <<>>)
      dropped == (IF grouped \/ ~device.json \/ ~device.rssi THEN {"_RSSI_"} ELSE {})
                 \cup (IF device.date THEN {} ELSE {"_DATE_"})
      groups == Only(device.channel, DOMAIN content \ dropped)
      topic == [k \in DOMAIN groups |-> <<groups[k], content[groups[k]]>>]
      kept == DOMAIN content \ (dropped \cup Range(groups))
      each == Only(order, kept)
  IN ahead \o IF device.json THEN <<Told(Topic(device.name, topic, ""), Part(content, kept))>>
              ELSE [k \in DOMAIN each |-> Told(Topic(device.name, topic, each[k]), Part(content, {each[k]}))]
=============================================================================
