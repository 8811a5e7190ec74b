----------------------------- MODULE Provisioning -----------------------------
(***************************************************************************)
(* Learning devices and announcing them to Home Assistant: the teach-ins   *)
(* (UTE and secure), the user's devices.yaml, the sensors made from it,    *)
(* the retained discovery configs at the broker and the rows of the store  *)
(* that list them.                                                         *)
(*                                                                         *)
(* homeassistant/ha_bridge.py: after_connect, _sync_sensor_discovery,      *)
(* _prune_deleted_devices, on_teach_in, on_secure_teach_in, _persist_*;    *)
(* application/daemon.py: _on_broker_connected, _handle_enocean_packet,    *)
(* _handle_secure_teach_in; homeassistant/discovery, sensor_expander.py,   *)
(* devices.py, adapters/store/sqlite_store.py, cli.py.                     *)
(*                                                                         *)
(* Two tasks share this: the MQTT task (m) announces itself, subscribes    *)
(* and synchronises; the transceiver task (e) handles one packet at a      *)
(* time.  One step is what a task does between two awaits; a crash may     *)
(* come between any two steps.  The Base ID is known (Supervisor has the   *)
(* case that it is not: there is no LEARN then).  A device has one         *)
(* profile, so its uid and its name are the device.                        *)
(***************************************************************************)
EXTENDS Integers, Sequences, FiniteSets, SequencesExt, Chains

CONSTANTS
  Ute,          \* devices that teach themselves in with UTE
  Ptm,          \* devices (switches) whose secure teach-in has the PTM bit
  Models,       \* devices listed as a model: one sensor per RORG, never taught in
  Past,         \* what went before: [list |-> devices listed now, former |-> discovered before,
                \*                    taught |-> those whose secure teach-ins are over]
  Mapping,      \* Mapping[v]: the config topics of a device under version v of the mapping
  Attempts,     \* Attempts[d]: bound on secure teach-ins device d sends
  MaxFaults,    \* bound on crashes, lost connections, failed writes, edits, radio faults, retries
  Nobody        \* no device, no key

Devices == Ute \cup Ptm \cup Models
Versions == 1 .. Len(Mapping)
Topics == UNION {ToSet(Mapping[v]) : v \in Versions}

ASSUME ProvisioningAssumption ==
  /\ Ute \cap Ptm = {} /\ Models \cap (Ute \cup Ptm) = {} /\ IsFiniteSet(Devices)
  /\ Nobody \notin Devices \cup Nat /\ Past \subseteq [list : SUBSET Devices, former : SUBSET Devices,
                      taught : SUBSET Devices]
  /\ Mapping \in Seq(Seq(Topics) \ {<<>>}) /\ Mapping # <<>>
  /\ Attempts \in [Devices -> Nat] /\ MaxFaults \in Nat

VARIABLES
  \* what survives the process
  file,       \* devices.yaml: a sequence of entries
  rows,       \* rows[d]: the cfgtopics of the row of d in the store, {} without a row
  retained,   \* retained[d]: the discovery configs of d the broker keeps
  announced,  \* bridge/last_provisioned at the broker
  version,    \* the version of the mapping the (last) process runs with
  \* the process
  up, sensors, learn,
  first,      \* _first_mqtt_connect
  halves,     \* _sec_ti_pending[d]: idx -> the attempt a half is from
  m,          \* the MQTT task: [pc, at, work]; at is the position in the list of sensors
  e,          \* the transceiver task: [pc, dev, work]
  leftover,   \* known_uids of the synchronisation
  \* the broker session and the radio
  conn,       \* away, up, or broken without the daemon knowing yet
  subs,       \* subscriptions of this (clean) session
  inbox,      \* devices whose configs were deleted at the broker, on their way to the daemon
  air,        \* air[d]: halves of secure teach-ins on their way, in order
  attempt,    \* attempt[d]: secure teach-ins device d has begun
  faults,
  \* history variables: no action reads them
  torn,       \* torn[d]: configs of d that an interruption left at the broker in no row
  touched,    \* devices provisioned or deleted since the synchronisation
  fresh,      \* devices met since the broker connected
  dirty,      \* devices one of whose halves was missed, forgotten or heard twice
  unkept      \* devices whose entry could not be written or was taken out by the user

durable == <<file, rows, retained, announced, version>>
radio == <<air, attempt>>
history == <<torn, touched, fresh, dirty, unkept>>
vars == <<durable, up, sensors, learn, first, halves, m, e, leftover, conn, subs, inbox,
          radio, faults, history>>

Fault == faults < MaxFaults /\ faults' = faults + 1

Keys == (Nat \cup {Nobody}) \X (Nat \cup {Nobody})
NoKey == <<Nobody, Nobody>>   \* a key is named by the attempts its two parts are from

Entries == [dev : Devices, key : Keys, by : {"user", "bridge"}]
Sensors == [dev : Devices, part : {"eep", "a5", "f6"}, key : Keys]

TypeOK ==
  /\ file \in Seq(Entries) /\ sensors \in Seq(Sensors)
  /\ rows \in [Devices -> SUBSET Topics] /\ retained \in [Devices -> SUBSET Topics]
  /\ announced \in Devices \cup {Nobody} /\ version \in Versions
  /\ up \in BOOLEAN /\ learn \in BOOLEAN /\ first \in BOOLEAN
  /\ m.pc \in {"away", "req", "discover", "subscribe", "prune", "serving"}
  /\ e.pc \in {"idle", "respond", "discover", "subscribe", "persist", "announce"}
  /\ conn \in {"away", "up", "broken"} /\ leftover \subseteq Devices
  /\ halves \in [Devices -> [{0, 1} -> Nat]] /\ torn \in [Devices -> SUBSET Topics]
  /\ (~up => conn = "away") /\ (m.pc = "away" <=> conn = "away")

InFile(d) == \E i \in DOMAIN file : file[i].dev = d
KnownDevices == {sensors[i].dev : i \in DOMAIN sensors}

(***************************************************************************)
(* Loading the list.  SensorExpander puts the sensors of an EEP first and  *)
(* makes two sensors, /a5 and /f6, of a model that share address and uid.  *)
(***************************************************************************)
OfEep == {entry \in Entries : entry.dev \notin Models}
OfModel == {entry \in Entries : entry.dev \in Models}

Expand(entry) ==
  IF entry \in OfModel
    THEN << [dev |-> entry.dev, part |-> "a5", key |-> NoKey],
            [dev |-> entry.dev, part |-> "f6", key |-> NoKey] >>
    ELSE << [dev |-> entry.dev, part |-> "eep", key |-> entry.key] >>

ExpandAll(entries) == Chain([i \in 1 .. Len(entries) |-> Expand(entries[i])])

LoadDevices(entries) == ExpandAll(Only(entries, OfEep)) \o ExpandAll(Only(entries, OfModel))

(***************************************************************************)
(* The discovery of a device: configs the mapping no longer has are        *)
(* cleared, the others published, then come two subscriptions (one step    *)
(* here) and, with no await between, the upsert of the row.                *)
(***************************************************************************)
Clear(d, topics) == [i \in 1 .. Cardinality(topics) |-> <<"clear", d, SetToSeq(topics)[i]>>]
Config(d) == [i \in DOMAIN Mapping[version] |-> <<"config", d, Mapping[version][i]>>]
Current == ToSet(Mapping[version])

Discovery(d) == Clear(d, rows[d] \ Current) \o Config(d)

\* A publish while the connection is broken is lost, if it does not raise.
Publish(op) ==
  retained' = IF conn # "up" THEN retained
              ELSE [retained EXCEPT ![op[2]] = IF op[1] = "clear" THEN @ \ {op[3]} ELSE @ \cup {op[3]}]

Upsert(d) == rows' = [rows EXCEPT ![d] = Current]

(***************************************************************************)
(* Init: the process is down.  It has not run yet, or it ended in order    *)
(* and the user has changed the list since.                                *)
(***************************************************************************)
AwayM == [pc |-> "away", at |-> 1, work |-> <<>>]
IdleE == [pc |-> "idle", dev |-> Nobody, key |-> NoKey, work |-> <<>>]
NoHalves == [d \in Devices |-> [i \in {0, 1} |-> 0]]
ByUser(d) == [dev |-> d, key |-> NoKey, by |-> "user"]

Init ==
  /\ \E p \in Past :
       /\ file = [i \in 1 .. Cardinality(p.list) |-> ByUser(SetToSeq(p.list)[i])]
       /\ rows = [d \in Devices |-> IF d \in p.former THEN ToSet(Mapping[1]) ELSE {}]
       /\ attempt = [d \in Devices |-> IF d \in p.taught THEN Attempts[d] ELSE 0]
  /\ retained = rows
  /\ announced = Nobody /\ version = 1
  /\ up = FALSE /\ sensors = <<>> /\ learn = FALSE /\ first = TRUE /\ halves = NoHalves
  /\ m = AwayM /\ e = IdleE /\ leftover = {}
  /\ conn = "away" /\ subs = {} /\ inbox = {}
  /\ air = [d \in Devices |-> <<>>] /\ faults = 0
  /\ torn = [d \in Devices |-> {}] /\ touched = {} /\ fresh = {} /\ dirty = {} /\ unkept = {}

(***************************************************************************)
(* The process.                                                            *)
(***************************************************************************)

Starting(teaching) ==
  /\ ~up /\ up' = TRUE
  /\ sensors' = LoadDevices(file)
  /\ version' \in version .. Len(Mapping)
  /\ first' = TRUE /\ learn' = teaching /\ halves' = NoHalves
  /\ UNCHANGED <<file, rows, retained, announced, m, e, leftover, conn, subs, inbox, radio,
                 faults, history>>

\* mutant: teach-in is on at startup, as it is without the overlay
StartTeaching == Starting(TRUE)

\* main, bootstrap and __init__: the list is loaded, teach-in is off.  An update of the add-on
\* may have brought a new mapping.
Start == Starting(FALSE)

\* The device the discovery of a task is about, if one is going on.
InDiscovery ==
  (IF e.pc \in {"discover", "subscribe"} THEN {e.dev} ELSE {})
    \cup (IF m.pc \in {"discover", "subscribe"} THEN {sensors[m.at].dev} ELSE {})
Unlisted(d) == retained[d] \ rows[d]

\* The configs that no row lists when the discoveries of these devices end where they are
TornIn(devices) == [d \in Devices |-> torn[d] \cup (IF d \in devices THEN Unlisted(d) ELSE {})]

SessionOver ==
  /\ conn' = "away" /\ subs' = {} /\ inbox' = {} /\ leftover' = {}
  /\ m' = AwayM /\ e' = IdleE
  /\ torn' = TornIn(InDiscovery)
  /\ UNCHANGED <<durable, radio, touched, fresh, unkept>>

\* The process ends, at whatever point, in order or not.
Crash ==
  /\ up /\ up' = FALSE /\ Fault
  /\ sensors' = <<>> /\ learn' = FALSE /\ first' = TRUE /\ halves' = NoHalves
  /\ dirty' = dirty \cup {d \in Devices : halves[d] # NoHalves[d]}
  /\ SessionOver

(***************************************************************************)
(* The broker session.                                                     *)
(***************************************************************************)
NotWriting == e.pc # "persist"   \* no await before the entry is written
Running == up /\ NotWriting /\ conn # "away"

Connect ==
  /\ up /\ conn = "away" /\ conn' = "up"
  /\ m' = [AwayM EXCEPT !.pc = "req"]
  /\ fresh' = {}
  /\ UNCHANGED <<durable, up, sensors, learn, first, halves, e, leftover, subs, inbox, radio,
                 faults, torn, touched, dirty, unkept>>

Break ==
  /\ conn = "up" /\ conn' = "broken" /\ Fault
  /\ UNCHANGED <<durable, up, sensors, learn, first, halves, m, e, leftover, subs, inbox,
                 radio, history>>

\* mutant: the lost connection ends the transceiver task only
LostTransceiver ==
  /\ Running /\ conn = "broken" /\ conn' = "away" /\ subs' = {} /\ inbox' = {}
  /\ e' = IdleE /\ torn' = TornIn(InDiscovery)
  /\ UNCHANGED <<durable, radio, touched, fresh, unkept, m, leftover, up, sensors, learn, first,
                 halves, faults, dirty>>

\* An MqttError of the MQTT task ends the task group and with it the other task.
Lost ==
  /\ Running /\ conn = "broken"
  /\ SessionOver
  /\ UNCHANGED <<up, sensors, learn, first, halves, faults, dirty>>

(***************************************************************************)
(* The MQTT task.  The loops run over the list itself, which grows while   *)
(* they await.                                                             *)
(***************************************************************************)
At(pc, at, work) == m' = [pc |-> pc, at |-> at, work |-> work]
ByM == UNCHANGED <<file, announced, version, up, sensors, learn, halves, e, conn, inbox, radio,
                   faults, fresh, dirty, unkept>>

Subscribing(topics) ==
  /\ Running /\ conn = "up" /\ m.pc = "req" /\ m.at <= Len(sensors)
  /\ subs' = subs \cup topics
  /\ At("req", m.at + 1, <<>>)
  /\ ByM /\ UNCHANGED <<rows, retained, first, leftover, torn, touched>>

Request == {<<"req", sensors[m.at].dev, sensors[m.at].part>>}

\* mutant: the request topics are subscribed to on the first connection only
SubscribeRequestFirst == Subscribing(IF first THEN Request ELSE {})

SubscribeRequest == Subscribing(Request)

Discovered(i) == \E j \in 1 .. i - 1 : sensors[j].dev = sensors[i].dev

\* mutant: the row goes first
PruningRowFirst(d) == << <<"remove", d>> >> \o Clear(d, rows[d])

\* _prune_deleted_devices: the configs of a row are cleared, then the row is removed.
Pruning(d) == Clear(d, rows[d]) \o << <<"remove", d>> >>

PruneAll(left) == Chain([i \in 1 .. Cardinality(left) |-> Pruning(SetToSeq(left)[i])])

\* _sync_sensor_discovery from position i of the list on: the next device not discovered yet,
\* or the end of the loop and the rows that are left over
SyncFrom(i, left) ==
  LET todo == {j \in i .. Len(sensors) : ~Discovered(j)}
      next == Min(todo)
  IN  IF todo = {} THEN At("prune", 1, PruneAll(left))
      ELSE At("discover", next, Discovery(sensors[next].dev))

\* after_connect: only the first connection synchronises.
Requested ==
  /\ Running /\ m.pc = "req" /\ m.at > Len(sensors)
  /\ IF first
       THEN /\ leftover' = {d \in Devices : rows[d] # {}}
            /\ SyncFrom(1, leftover')
            /\ touched' = {}
       ELSE At("serving", 1, <<>>) /\ UNCHANGED <<leftover, touched>>
  /\ ByM /\ UNCHANGED <<rows, retained, first, subs, torn>>

SyncPublish ==
  /\ Running /\ m.pc = "discover"
  /\ Publish(Head(m.work))
  /\ At(IF Len(m.work) = 1 THEN "subscribe" ELSE "discover", m.at, Tail(m.work))
  /\ ByM /\ UNCHANGED <<rows, first, leftover, subs, torn, touched>>

Listed(d) == torn' = [torn EXCEPT ![d] = @ \ Current]   \* the new row lists what was left

Upserted(left) ==
  /\ Running /\ conn = "up" /\ m.pc = "subscribe"
  /\ LET d == sensors[m.at].dev IN
       /\ subs' = subs \cup {<<"config", d>>}
       /\ Upsert(d)
       /\ Listed(d)
  /\ leftover' = left
  /\ SyncFrom(m.at + 1, left)
  /\ ByM /\ UNCHANGED <<retained, first, touched>>

\* mutant: a device that was discovered stays among those to prune
SyncUpsertPrunes == Upserted(leftover)

SyncUpsert == Upserted(leftover \ {sensors[m.at].dev})

Prune ==
  /\ Running /\ m.pc = "prune" /\ m.work # <<>>
  /\ LET op == Head(m.work) IN
       IF op[1] = "remove"
         THEN /\ rows' = [rows EXCEPT ![op[2]] = {}]
              /\ leftover' = leftover \ {op[2]}
              /\ UNCHANGED <<retained, torn>>
         ELSE /\ Publish(op)
              /\ torn' = IF conn = "up" THEN torn ELSE [torn EXCEPT ![op[2]] = @ \cup {op[3]}]
              /\ UNCHANGED <<rows, leftover>>
  /\ At("prune", 1, Tail(m.work))
  /\ ByM /\ UNCHANGED <<first, subs, touched>>

\* The LEARN switch is published and its topic subscribed to, then the messages are awaited.
System ==
  /\ Running /\ conn = "up" /\ m.pc = "prune" /\ m.work = <<>>
  /\ subs' = subs \cup {<<"learn">>}
  /\ first' = FALSE
  /\ At("serving", 1, <<>>)
  /\ ByM /\ UNCHANGED <<rows, retained, leftover, torn, touched>>

\* An empty discovery config was received: the row that lists it is removed.
HandleDelete(d) ==
  /\ Running /\ m.pc = "serving" /\ d \in inbox
  /\ inbox' = inbox \ {d}
  /\ rows' = [rows EXCEPT ![d] = {}]
  /\ UNCHANGED <<file, retained, announced, version, up, sensors, learn, first, halves, m, e,
                 leftover, conn, subs, radio, faults, history>>

LearnOn ==
  /\ Running /\ conn = "up" /\ m.pc = "serving" /\ <<"learn">> \in subs
  /\ ~learn /\ learn' = TRUE
  /\ UNCHANGED <<durable, up, sensors, first, halves, m, e, leftover, conn, subs, inbox, radio,
                 faults, history>>

LearnOff ==
  /\ up /\ NotWriting /\ learn /\ learn' = FALSE
  /\ UNCHANGED <<durable, up, sensors, first, halves, m, e, leftover, conn, subs, inbox, radio,
                 faults, history>>

(***************************************************************************)
(* The transceiver task: UTE.  The device is answered first, then the      *)
(* overlay looks at LEARN again.                                           *)
(***************************************************************************)
ByE == UNCHANGED <<announced, version, up, learn, first, m, leftover, conn, inbox>>
Rest == UNCHANGED <<file, rows, retained, subs, torn, unkept>>

HearUte(d) ==
  /\ Running /\ e.pc = "idle" /\ learn /\ d \in Ute
  /\ e' = [IdleE EXCEPT !.pc = "respond", !.dev = d]
  /\ ByE /\ Rest /\ UNCHANGED <<sensors, halves, radio, faults, touched, fresh, dirty>>

\* The transceiver's connection fails while the response is sent.
RespondFails ==
  /\ Running /\ e.pc = "respond" /\ e' = IdleE
  /\ ByE /\ Rest /\ UNCHANGED <<sensors, halves, radio, faults, touched, fresh, dirty>>

\* A new sensor joins the list, and its discovery begins: as if there were no earlier configs.
Provision(d, key) ==
  /\ sensors' = Append(sensors, [dev |-> d, part |-> "eep", key |-> key])
  /\ e' = [pc |-> "discover", dev |-> d, key |-> key, work |-> Config(d)]
  /\ touched' = touched \cup {d} /\ fresh' = fresh \cup {d}

Answered(wanted) ==
  /\ Running /\ e.pc = "respond"
  /\ IF wanted /\ e.dev \notin KnownDevices
       THEN Provision(e.dev, NoKey)
       ELSE e' = IdleE /\ UNCHANGED <<sensors, touched, fresh>>
  /\ ByE /\ Rest /\ UNCHANGED <<halves, radio, faults, dirty>>

\* mutant: LEARN is not looked at again after the response was sent
OnTeachInUnasked == Answered(TRUE)

OnTeachIn == Answered(learn)

(***************************************************************************)
(* The secure teach-in: two halves, kept per device until both are there.  *)
(* A half may be missed, or be heard again later as a copy.                *)
(***************************************************************************)
Receive(d, copied) ==
  /\ air[d] # <<>>
  /\ air' = IF copied THEN air ELSE [air EXCEPT ![d] = Tail(@)]
  /\ IF copied THEN Fault /\ dirty' = dirty \cup {d} ELSE UNCHANGED <<faults, dirty>>
  /\ UNCHANGED attempt

With(d) == [halves[d] EXCEPT ![Head(air[d]).idx] = Head(air[d]).attempt]
Both(pair) == pair[0] # 0 /\ pair[1] # 0

\* _handle_secure_teach_in up to the first half of a pair
HearHalf(d, copied) ==
  /\ Running /\ e.pc = "idle" /\ learn
  /\ Receive(d, copied) /\ ~Both(With(d))
  /\ halves' = [halves EXCEPT ![d] = With(d)]
  /\ ByE /\ Rest /\ UNCHANGED <<sensors, e, touched, fresh>>

FirstOf(d) == CHOOSE i \in DOMAIN sensors :
                sensors[i].dev = d /\ \A j \in 1 .. i - 1 : sensors[j].dev # d

HearingPair(d, copied, left) ==
  LET key == <<With(d)[0], With(d)[1]>> IN
  /\ Running /\ e.pc = "idle" /\ learn
  /\ Receive(d, copied) /\ Both(With(d))
  /\ halves' = [halves EXCEPT ![d] = left]
  /\ IF d \in KnownDevices
       THEN sensors' = [sensors EXCEPT ![FirstOf(d)].key = key] /\ UNCHANGED <<e, touched, fresh>>
     ELSE IF d \in Ptm THEN Provision(d, key)
     ELSE UNCHANGED <<sensors, e, touched, fresh>>
  /\ ByE /\ Rest

\* mutant: the halves of a pair are kept
HearPairKept(d, copied) == HearingPair(d, copied, With(d))

\* on_secure_teach_in: the key goes to the sensor of that address; without one only a switch
\* has a profile to make a sensor of.
HearPair(d, copied) == HearingPair(d, copied, NoHalves[d])

\* A half is lost on the air, or LEARN is off when it is heard.
MissHalf(d) ==
  /\ air[d] # <<>> /\ air' = [air EXCEPT ![d] = Tail(@)]
  /\ dirty' = dirty \cup {d}
  /\ (Running /\ e.pc = "idle" /\ ~learn /\ UNCHANGED faults) \/ Fault
  /\ ByE /\ Rest /\ UNCHANGED <<sensors, halves, e, attempt, touched, fresh>>

(***************************************************************************)
(* The rest of a teach-in, the same for both kinds.  An exception of the   *)
(* broker's is swallowed and ends it where it is.                          *)
(***************************************************************************)
ProvisionPublish ==
  /\ Running /\ e.pc = "discover"
  /\ Publish(Head(e.work))
  /\ e' = [e EXCEPT !.work = Tail(@), !.pc = IF Len(e.work) = 1 THEN "subscribe" ELSE @]
  /\ ByE /\ UNCHANGED <<file, rows, sensors, halves, subs, radio, faults, history>>

ProvisionUpsert ==
  /\ Running /\ conn = "up" /\ e.pc = "subscribe"
  /\ subs' = subs \cup {<<"config", e.dev>>}
  /\ Upsert(e.dev)
  /\ e' = [e EXCEPT !.pc = "persist"]
  /\ Listed(e.dev)
  /\ ByE
  /\ UNCHANGED <<file, retained, sensors, halves, radio, faults, touched, fresh, dirty, unkept>>

ProvisionRaises ==
  /\ Running /\ conn = "broken" /\ e.pc \in {"discover", "subscribe", "announce"}
  /\ torn' = TornIn(IF e.pc = "announce" THEN {} ELSE {e.dev})
  /\ e' = IdleE
  /\ ByE
  /\ UNCHANGED <<file, rows, retained, sensors, halves, subs, radio, faults, touched, fresh,
                 dirty, unkept>>

Writing(skip) ==
  /\ up /\ e.pc = "persist"
  /\ file' = IF skip THEN file ELSE Append(file, [dev |-> e.dev, key |-> e.key, by |-> "bridge"])
  /\ e' = [e EXCEPT !.pc = "announce"]
  /\ ByE
  /\ UNCHANGED <<rows, retained, sensors, halves, subs, radio, faults, history>>

\* mutant: the entry is appended without looking for the address
PersistTwice == Writing(FALSE)

\* mutant: a device without a key is not written to the list
PersistSecureOnly == Writing(InFile(e.dev) \/ e.key = NoKey)

\* append_device_to_yaml: idempotent by address; the file is replaced as a whole
Persist == Writing(InFile(e.dev))

\* An OSError is logged, and the device is announced all the same.
PersistFails ==
  /\ up /\ e.pc = "persist" /\ Fault
  /\ e' = [e EXCEPT !.pc = "announce"]
  /\ unkept' = unkept \cup {e.dev}
  /\ ByE
  /\ UNCHANGED <<file, rows, retained, sensors, halves, subs, radio, torn, touched, fresh, dirty>>

Announce ==
  /\ Running /\ e.pc = "announce"
  /\ announced' = IF conn = "up" THEN e.dev ELSE announced
  /\ e' = IdleE
  /\ UNCHANGED <<file, rows, retained, version, up, sensors, learn, first, halves, m, leftover,
                 conn, subs, inbox, radio, faults, history>>

(***************************************************************************)
(* The user and the devices.                                               *)
(***************************************************************************)
Outside == UNCHANGED <<rows, announced, version, up, sensors, learn, first, halves, m, e,
                       leftover, conn, subs, torn, fresh>>

AddEntry(d) ==
  /\ ~InFile(d) /\ Fault
  /\ file' = Append(file, ByUser(d))
  /\ Outside /\ UNCHANGED <<retained, inbox, radio, touched, dirty, unkept>>

RemoveEntry(d) ==
  /\ InFile(d) /\ Fault
  /\ file' = Only(file, {entry \in Entries : entry.dev # d})
  /\ unkept' = unkept \cup {d}
  /\ Outside /\ UNCHANGED <<retained, inbox, radio, touched, dirty>>

\* Home Assistant deletes a device: all its retained configs are cleared.
DeleteConfigs(d) ==
  /\ retained[d] # {} /\ Fault
  /\ retained' = [retained EXCEPT ![d] = {}]
  /\ inbox' = IF conn = "up" /\ <<"config", d>> \in subs THEN inbox \cup {d} ELSE inbox
  /\ touched' = touched \cup {d}
  /\ Outside /\ UNCHANGED <<file, radio, dirty, unkept>>

SendSecureTeachIn(d) ==
  /\ attempt[d] < Attempts[d] /\ air[d] = <<>>
  /\ IF attempt[d] = 0 THEN UNCHANGED faults ELSE Fault
  /\ attempt' = [attempt EXCEPT ![d] = @ + 1]
  /\ air' = [air EXCEPT ![d] = @ \o << [attempt |-> attempt[d] + 1, idx |-> 0],
                                       [attempt |-> attempt[d] + 1, idx |-> 1] >>]
  /\ Outside /\ UNCHANGED <<file, retained, inbox, touched, dirty, unkept>>

MqttTask ==
  \/ SubscribeRequest \/ Requested \/ SyncPublish \/ SyncUpsert \/ Prune \/ System
  \/ \E d \in Devices : HandleDelete(d)
Teaching ==
  \/ OnTeachIn \/ ProvisionPublish \/ ProvisionUpsert \/ ProvisionRaises \/ Persist \/ Announce
Hearing ==
  \E d \in Devices :
    \/ HearUte(d) \/ MissHalf(d)
    \/ \E copied \in BOOLEAN : HearHalf(d, copied) \/ HearPair(d, copied)

Next ==
  \/ Start \/ Crash \/ Connect \/ Break \/ Lost
  \/ MqttTask \/ LearnOn \/ LearnOff
  \/ Hearing \/ RespondFails \/ Teaching \/ PersistFails
  \/ \E d \in Devices :
       AddEntry(d) \/ RemoveEntry(d) \/ DeleteConfigs(d) \/ SendSecureTeachIn(d)

Spec == Init /\ [][Next]_vars

\* The add-on is restarted, the client reconnects, and both tasks go on.
FairSpec ==
  /\ Spec
  /\ WF_vars(Start) /\ WF_vars(Connect) /\ WF_vars(Lost)
  /\ WF_vars(MqttTask) /\ WF_vars(Teaching)

(***************************************************************************)
(* Properties.                                                             *)
(***************************************************************************)

\* No device is learned while the synchronisation runs, so the list of sensors and known_uids
\* do not change under it (ha_bridge.py:250-280): LEARN is off until it has been made.
SyncUndisturbed ==
  m.pc \in {"discover", "subscribe", "prune"} => e.pc = "idle" /\ ~learn

\* Every config the broker keeps is listed by the row of its device, so that a later prune
\* finds it (publisher.py:87-118, ha_bridge.py:250-260), while no discovery of that device is
\* going on and but for the very configs that a discovery or prune cut short by a lost
\* connection or the end of the process had left in no row.
ConfigsListed ==
  \A d \in Devices \ InDiscovery : retained[d] \subseteq rows[d] \cup torn[d]

\* Once serving, store, sensors and broker agree (ha_bridge.py:262-280), whatever was cut short
\* before: a device with a sensor has the row and the configs of the present mapping, one
\* without has no row and no config that a row once listed, except for devices provisioned or
\* deleted since.  Not repaired are configs that were left in no row (torn), at any time
\* before: the synchronisation goes by the rows, and nothing clears those.
SyncRepairs ==
  m.pc = "serving" =>
    \A d \in Devices \ touched :
      /\ rows[d] = (IF d \in KnownDevices THEN Current ELSE {})
      /\ rows[d] \subseteq retained[d] /\ retained[d] \subseteq rows[d] \cup torn[d]

\* A sensor's request topic is subscribed to on every connection (daemon.py:213-223), but for
\* a device met since the broker connected.
RequestsHeard ==
  (m.pc = "serving" /\ conn = "up") =>
    \A i \in DOMAIN sensors :
      <<"req", sensors[i].dev, sensors[i].part>> \in subs \/ sensors[i].dev \in fresh

\* A key is taken over from the two halves of one teach-in (daemon.py:416-441), unless a half
\* of that device was missed or heard twice.
KeysWhole ==
  \A s \in ToSet(sensors) \cup ToSet(file) : s.key[1] = s.key[2] \/ s.dev \in dirty

\* However often a device is taught in, in whichever way and whatever failed before, it has one
\* entry in the list and one set of sensors (ha_bridge.py:464, devices.py:196-203).
NoDuplicates ==
  /\ \A i, j \in DOMAIN file : file[i].dev = file[j].dev => i = j
  /\ \A i, j \in DOMAIN sensors :
       sensors[i].dev = sensors[j].dev /\ sensors[i].part = sensors[j].part => i = j

EntriesBy(who) == {file[i].dev : i \in {j \in DOMAIN file : file[j].by = who}}

R == INSTANCE Registry WITH
  running <- up, learning <- learn, known <- KnownDevices,
  mine <- EntriesBy("bridge"), theirs <- EntriesBy("user"), failed <- unkept

\* Provisioning implements the registry: devices are met only while LEARN is on, written once,
\* announced after that, and loaded again after a restart.
ImplementsRegistry == R!Spec

\* A device that was met is written to the list, unless the connection or the process ended in
\* between: then it may stay a sensor that no teach-in adds to the list any more.
MetIsKept ==
  \A d \in Devices :
    (e.pc = "discover" /\ e.dev = d) ~> (InFile(d) \/ d \in unkept \/ conn # "up")
=============================================================================
