# enocean-mqtt-ha in TLA+

Models of the EnOcean-to-MQTT bridge in `src/enocean2mqtt/`, checked with TLC on small instances
and, where the last column says so, proved with TLAPS for every value of the constants.
Paths below are relative to `src/enocean2mqtt/` unless they name another directory.

| Module | Models | Run | Proofs |
|---|---|---|---|
| `RollingCode` | rolling codes of secure devices, both directions, and their store | `RollingCode.cfg`, `RollingCodeDurable.cfg` | `RollingCodeProofs` |
| `StickLink` | the transceiver connection, handshake, response matching, send lock | `StickLink.cfg`, `StickLinkFifo.cfg` | `StickLinkProofs` |
| `Supervisor` | broker sessions, announcements, LEARN, shutdown, crashes | `Supervisor.cfg`, `Supervisor{SelfHeals,LearnTimed,LearnHeard}.cfg` | `SupervisorProofs` |
| `Registry` | what learning devices promises (abstract) | as a property of `Provisioning.cfg` | `RegistryProofs` |
| `Provisioning` | UTE and secure teach-in, `devices.yaml`, discovery and the store's rows; implements `Registry` | `Provisioning.cfg` | `ProvisioningProofs` |
| `Profiles`, `Engine`, `Esp3` | EEP profiles, their decoding and encoding, packets and frames, as functions | through `Inbound` and `Reception` | |
| `Encoder` | how a telegram is made for sending, as a function | through `Inbound` | |
| `Inbound` | commands from MQTT, replies, the scratch fields and the lock they share | `Inbound.cfg`, `InboundRobust.cfg` | `InboundProofs` |
| `Reader` | from a packet to the messages that tell it, as functions | through `Reception` | |
| `Cover` | a shutter's accumulated position beside the exact one | as a property of `Reception.cfg` | `ReceptionProofs` |
| `Reception` | from the line to the broker: framing, reading, positions; composes `Reader` and `Cover` | `Reception.cfg` | `ReceptionProofs` |
| `Chains` | joining and filtering of sequences, for `StickLink`, `Provisioning`, `Inbound`, `Reader` and `Reception` | | `ChainProofs` |

`MC<module>.tla` instantiates a module for TLC. `PROJECT.json` maps every definition to the lines
it stands for, and lists runs, mutants, findings, hazards and theorems.

## 1. The system

One asyncio event loop. `EnoceanDaemon._run_async` connects to the MQTT broker and, inside a
`TaskGroup`, runs four tasks: the transceiver task (connect, handshake, read loop), the MQTT task
(announce, subscribe, consume), the statistics task and the shutdown watcher. An exception that
leaves one of them cancels the others. `HomeAssistantBridge` is an overlay that hooks into this
life cycle; its LEARN timer is a task of its own, outside the group.

| Component | State | Operations | What makes it correct |
|---|---|---|---|
| Secure rolling codes (`protocol/security.py`, `application/{daemon,encoder}.py`, `homeassistant/ha_bridge.py`, `adapters/store/sqlite_store.py`) | `sensor["rlc"]`, `sensor["rlc_snd"]`, the row of the device | decrypt, wrap, secure teach-in, persist, load | no code is accepted or used twice; a device in step is not locked out; both over restarts |
| Transceiver link (`adapters/transceiver/`, handshake and responses in `daemon.py`) | stream, `_send_lock`, `_next_send_at`, `_pending_cmd`, identity fields | connect, handshake, send, read, close | a RESPONSE is read as the answer to the command it answers; pacing; the Base ID is learnt |
| Process supervisor (`daemon.py`, overlay hooks of `ha_bridge.py`) | `_shutdown`, client, `_first_mqtt_connect`, `_base_id_ready` | connect, reconnect, announce, discover, end | availability is true; discovery is completed; it recovers; it ends |
| LEARN switch (`ha_bridge.py`) | `teach_in`, `_learn_timer` | on, off, time-out | teach-in ends by itself |
| MQTT gateway (`adapters/mqtt/aiomqtt_bus.py`) | `_client` | publish, subscribe, make a client with its last will | no-op without a client |
| Device store (`adapters/store/sqlite_store.py`) | rows | upsert, set, get, remove, migrate | runtime state survives discovery |
| Auto-provisioning (`ha_bridge.py`, `devices.py`) | sensor list, `_sec_ti_pending`, `devices.yaml` | UTE and secure teach-in | all or nothing; at most one device for an address |
| Inbound commands (`application/inbound.py`, `domain/sensor.py`) | `data`, `raw_data`, `learn` of a sensor | accumulate, send, clear | what is sent is what was asked for |
| Cover position (`homeassistant/cover.py`, `ha_bridge.py`) | `position` of a row, retained topic | accumulate, end position, publish | bounded, monotone in the telegram, topic equals store |
| Discovery (`homeassistant/discovery/`) | `cfgtopics` of a row, retained configs | publish, prune | what is retained is what is configured |
| ESP3 framing (`protocol/packet.py`, `crc8.py`) | read buffer | parse | no valid frame is lost, resynchronisation |
| EEP engine (`protocol/profiles/`, `eep_codec.py`) | none | decode, encode, scale | encode and decode agree |
| Encoder, decoder, publisher (`application/`) | none | encode, decode, publish | what is told is what was received; what is sent is what was asked |
| Profile and mapping tables, CLI, configuration, packaging | none at run time | | not modelled: static data and sequential start-up code |

How they interact: the transceiver task calls the overlay (teach-in, cover position, persistence)
and publishes; the MQTT task calls the inbound router, which sends through the transceiver; both
share the transceiver's send lock, the sensors' dictionaries and the store. There are no threads:
the interleavings are those of tasks at `await`s, together with the loss of either connection,
delayed and repeated telegrams, timers, and the end of the process at any point.

`PROJECT.json` lists each hazard at its line with the properties that cover it.

## 2. How the models are built

One step of a module is what a task does between two awaits, so that every interleaving of tasks
is there, and none that the event loop excludes. Where a stretch without an await contains a write
that may fail or a point at which the process may die, it is split there. Actions that stand for
the outside (the stick, the radio, the broker, the operating system) are marked external in
`PROJECT.json`. History variables are listed last in each module, and no action reads them.
Operators with the comment `mutant:` are not part of the models: each is a plausible bug in one
definition, and the property named with it in `PROJECT.json` fails when it replaces that definition.

### RollingCode

State and code: `rlc`, `rlcSnd` are the two codes of the `Sensor`; `rows`, `rowRlc`, `rowSnd` the
row of the device in SQLite; `step` a stretch of code between an advance in memory and its write;
`job` a decrypted telegram before its publish (the await in between lets other tasks run); `queue`
outbound telegrams at the fair send lock. `sent` and `air` are the device and the radio: a telegram
is delivered never, once or several times, in any order, as long as fewer than `Horizon` newer ones
have been sent. A telegram is its number; its code is the number modulo `Width`, and it
authenticates exactly if its code is among the candidates `decrypt_telegram` tries. That a copy may
be repeated at all is the point; that the MAC binds a telegram to its code is the cryptography left
out.

`Discover` runs once per process and device at any time, as it does in the MQTT task with respect
to telegrams; `Delete` is the user clearing the discovery topic. `PersistMissed` is `set_rlc`
without a row, or raising (`StoreFails`).

Properties: `AtMostOnce` and `OutboundFresh` (replay and reuse, over restarts), `NextAccepted` (no
lock-out). Each states its exceptions, which are what the code does: codes that the store did not
get before a restart (`lost`), the outbound roll-over (`rolled`), and the roll-over of an explicit
code, which `decrypt_telegram` compares as a number without wrapping (`sent[d] >= Width`).

Assumptions of the model: a secure teach-in telegram is received when it is sent, so that it
carries the code the device uses next (`Provisioning` has the reassembly, with late copies);
`Window + Horizon < Width`, that is, copies are not delayed by so many telegrams that
their codes look new again. For the code's widths of 16 to 32 bits and its window of 128 this asks
nothing of a real radio.

Runs: `RollingCode.cfg` has one device of either mode (devices share nothing but the order of
steps, and the proofs cover any number), a code space of 4, so that five telegrams pass the
roll-over, one restart, one queued telegram. States past a restart that lost codes, or past the
outbound roll-over, are checked but not explored further (`StillClaimed`), because the properties
claim nothing there. Deadlock is not checked: with all bounds used up the model stops.
`RollingCodeDurable.cfg` finds that codes are not durable while the device has no row.

### StickLink

State and code: `lockQ` is `asyncio.Lock` (fair, first in first out) with its waiters, `sleep` and
`deadline` the pacing, `pending` the tags in `_pending_cmd`, `stick` and `wire` the telegrams at the
stick and its RESPONSEs under way, `field` what each identity field was read from. Time is counted
in ticks, and a tick cannot overtake a sender whose sleep is over.

A RESPONSE on the wire is named after what it answers, which the daemon cannot see; `Fits` says for
which fields a RESPONSE of that length passes.

Properties: what remains true of the tags in every interleaving (`TagsNeverBehind`), that they are
exact unless a radio telegram is written in the middle of a handshake
(`AlignedUnlessInterleaved`), that the Base ID is never the answer to something else
(`BaseIdTrue`), pacing over tasks, failures and reconnects (`Paced`), and that a connection that
lasts has its Base ID read (`BaseIdLearnt`). `StickLinkFifo.cfg` shows that the documented claim
without the exception does not hold.

`BaseIdTrue` needs the pacing interval to be below the reconnect delay, as with the default of
100 ms. With `Interval >= Backoff`, which `send_interval_ms` above 1000 amounts to (up to 2000 is
allowed in `addon/config.yaml`), TLC finds a radio telegram that keeps the lock over a reconnect and
is answered first, which shifts the tags so that the version is read as the Base ID.

Bounds: an interval of 2 ticks and a reconnect delay of 4 (so that several telegrams are paced within
a delay), at most 6 telegrams on their way when a radio send starts (a full handshake is 5). All
commands are supported, the repeater is written, and a device may be commanded without a Base ID:
each makes more behaviours possible than its opposite. The number of reconnects, broker drops and
process ends is not bounded.

Fairness: weak for timers, senders, the stick's answers, the noticing of a broken link and a
connection attempt; strong for `Receive`, because the read loop takes packets in their order and
replies to radio telegrams only delay it.

### Supervisor

State and code: `run` is where `_run_async` is, `mqtt` where the MQTT task is in
`_on_broker_connected` and its loop, `conn` the client, `subs` what this connection has subscribed
to, `will` a last will that the broker still has to publish, `state` the retained availability,
`first`, `base`, `teachIn`, `timer` the fields of the daemon and the bridge. The transceiver is
reduced to closed, open and broken; `StickLink` has its details.

`Command` is the path of a message through `_handle_mqtt` to `transport.send` when the transceiver
is not open; commands that go well change nothing here. `Killed` and `Restart` are the end of the
process from outside and its start by s6 or the user. A publish on a lost connection is lost or
raises; a subscription waits for its acknowledgement, so it does not go on.

Properties: `Available` relates the last wills of earlier connections and processes to what is
retained while a client is connected; `DiscoveryComplete` holds over connections lost in the middle
of discovery; `LearnGuarded` over all races of the switch with its timer; `Recovers` whatever the
stick does; `EndsOnShutdown` wherever the process is. The three other runs check documented claims
and find them violated: a command during a transceiver drop ends the process, a failed publish
leaves teach-in on without a timer, and after a broker reconnect LEARN requests are not heard.

`Available` holds with a fixed client id, which the add-on configures (`addon/run.sh`): the broker
then publishes the old will before it accepts the new connection. With `FixedId = FALSE`
(`mqtt_client_id` left out) TLC finds the late will that leaves a connected bridge shown as
offline. Other differences to the documentation that the model has and no run singles out: a broker
drop closes the transceiver as well (`README.md` says that neither side tears down the other); an
orderly end leaves the retained state `online`; if the Base ID comes after its wait has timed out,
LEARN is not offered until the process is started again.

Bounds: none; every variable is finite. Fairness: weak for the steps of the process that are bound
to come: an attempt to connect succeeds or fails, the sleep between attempts ends, the wait for the
Base ID has a time-out (so `Announce` needs no Base ID), a lost connection is noticed by its
keep-alive, a connected broker acknowledges. None for the stick, for restarts, for commands or for
anything the surroundings do. Timeouts of a broker that stays connected but is slow are not modelled.

### Registry and Provisioning

`Registry` is the promise: a device becomes known once, while LEARN is on; the bridge adds to the
user's list only such devices, each once, and changes nothing else in it; it announces a device
after its entry; a restart knows the list, with LEARN off.

`Provisioning` is how the code does it. State and code: `file` is `devices.yaml`, `sensors` the list
made from it by `SensorExpander` (a model device becomes two sensors), `rows` the config topics of
each row in SQLite, `retained` the configs at the broker, `halves` is `_sec_ti_pending`, `leftover`
the `known_uids` of the synchronisation. The MQTT task (`m`) subscribes, synchronises (publish after
publish, then subscriptions and the upsert of the row) and prunes; the transceiver task (`e`)
answers a teach-in, runs the discovery of the new device, writes the entry and announces it. Either
stops at any publish when the connection breaks, at any step when the process dies. `Start` may
bring a new version of the mapping; the user adds and removes entries, Home Assistant deletes
configs. A key is named by the attempts its two halves are from, so that a key put together from two
attempts is told from a true one.

Properties: `SyncUndisturbed` (no device is learned while the loops run over the list that learning
extends), `ConfigsListed` (a retained config is in the row that can prune it) and `SyncRepairs`
(store, sensor list and broker agree after every synchronisation), `RequestsHeard`, `KeysWhole`,
`NoDuplicates`, `MetIsKept` (liveness), and `ImplementsRegistry`: with `R == INSTANCE Registry` the
abstract specification is a property of the run. The exceptions in the properties are what the code
does:

- Discovery publishes the configs of a device before it writes the row that lists them, and pruning
  removes the row although a clear may have been lost with the connection. Cut short there, it leaves
  configs at the broker that no row lists, and as the synchronisation goes by the rows
  (`homeassistant/ha_bridge.py:250-280`), it clears them neither then nor later: a UTE device whose
  first config is published when the process dies is unknown after the restart, and its config stays,
  unless the device is taught in again and its row lists the config then. `torn` records exactly these
  configs of each device, and `ConfigsListed` and `SyncRepairs` except them, one by one, and no others;
  of a torn device, too, the row must be right and every other config listed.
- Discovery that fails leaves the new device in the list of sensors without an entry; a repeated
  teach-in is then ignored as known, and the device is gone after a restart (`wiki/Teach-In.md:36-37`
  says that devices are appended and load after a restart). `MetIsKept` holds only while the
  connection does.
- Only a UTE teach-in reaches `on_teach_in` (`application/daemon.py:666`), so a 4BS teach-in that
  carries its EEP creates nothing, although `wiki/Teach-In.md:32` says so.
- A half of a secure teach-in that is missed stays in `_sec_ti_pending`, and the next attempt's other
  half completes it to a key no device has (`dirty`).
- A key attached to a device that is known already is not written to `devices.yaml`.
- If the entry cannot be written, the device is announced as provisioned all the same (`unkept`).
- A device met since the broker connected is not subscribed to before the next connection (`fresh`).

Instance: one device of each kind (UTE blind, secure switch, two-sensor shutter), a mapping of which
a new version drops a topic, two histories, at most two faults (crash, lost connection, failed
write, edit, missed or repeated half, a second secure teach-in). Two faults allow an interruption and
its aftermath, and a stale half with a new attempt. Fairness: the add-on is restarted, the client
reconnects, both tasks go on; none for the user, the devices or the radio. Deadlock is not checked:
with the faults used up the devices and the user may fall silent.

### Profiles, Engine, Esp3 and Encoder

Functions without variables. `Profiles` has the profile catalog of the families that between them
use every feature of the engine: conditions on data and on status bits, directions, commands,
scales that run either way, enums of listed values, of ranges and of scaled ranges, raw fields.
`Engine` is the choice of a case, decoding and encoding; a scaled value is an exact fraction (the
code computes in floating point). `Esp3` is frames, checksums, packets and their learn bits, and how
a packet for sending is created and filled. `Encoder` is `PacketEncoder.send` from the scratch
fields to the bytes: learn response, raw data, defaults and values.

Numbers that TLC cannot hold (a metering value above 2^31 / 10) are not evaluated.

### Inbound

State and code: `scratch` is `learn`, `raw_data` and `data` of a `Sensor`; `mqtt` and `radio` are the
MQTT task in `send_message` and the transceiver task in `_reply_packet`, either waiting for the send
lock or writing; `lock` is the lock with its one possible waiter; `shadows` says whose name occurs in
whose topics, since `handle_normal` looks for a name anywhere in a topic. `wanted` and `askedLearn`
record what the user asked for, and no action decides by them.

Properties: `CommandWhole` reads each telegram that goes out with the decoder and compares it with
what was asked for; so it is also where encoding and decoding are held against each other.
`TeachInExact`, `Addressed` and `LockInUse` are about the flags, the sender and the lock over
exceptions, cancelled tasks and lost connections. `InboundRobust.cfg` shows a malformed JSON payload
that ends the process.

`CommandWhole` asks that every field that the user has set, and can set, is in the telegram with the
value last set, or else the default data's, and that nothing else is. A field can be set (`Askable`) if
some case of the profile for the telegram's direction has it, and the values ask for that case's
conditions. Any other field the encoder leaves out without a word, as `set_eep` skips names that the
case does not have (`protocol/eep_codec.py`), and so does the model: a valve's set point `SP` is a
field of the telegrams to the valve. It goes out with the reply when the valve wakes; with a telegram
sent at once it does not, because the direction `'1'` of the mapping is that of the telegrams from the
valve, or, being a string, that of no case.

`Addressed` has one exception, `Overrun`. The encoder writes the answer to a teach-in
(`application/encoder.py:126`) and default bytes (`application/encoder.py:175`) over the four bytes after
the RORG whatever the payload's length, and nothing restricts either to 4BS devices: in a telegram of
one payload byte three bytes of the sender are overwritten. The contact of the instance is such a
device. `TeachInExact` says nothing of raw data and default bytes, which bring a learn bit of their own.

Instance: a valve (A5-20-01) that is answered when it wakes and has a default value, a switch
(D2-01-01) with a command field, and a contact (D5-00-01) with default bytes that is answered when it
teaches in; a cap of two fields, so that it is reached; each way in which one name may occur in the
other's topics, and neither; values within and out of scale, no numbers at all, raw data with a byte
above 255. There is no bound on messages or reconnects.

What the model has and no property singles out: a command with value 0 counts as missing, so command
0 of a profile cannot be sent (the ventilation buttons that send `MT` = 0 never work); a value out of
scale wraps silently; an enum of one entry (the flags of A5-20-01) rejects 0, which ends the process,
and so does a raw byte above 255; a JSON `send` without the action `raw_data` still uses raw data left
on the topic; at the cap a JSON payload is dropped, but its `send` transmits what was there before; a
learn response presumes a 4BS telegram; a device whose topics contain an earlier device's name may
lose commands.

### Cover, Reader and Reception

`Cover` is the arithmetic of a shutter's position: ends, movements, what is stored, and beside it the
exact position. A division whose exact result is whole may come out one lower (floating point); the
travel time is in whole seconds. `Reader` is the match of a packet with a device, decoding and the
messages `MqttPublisher` makes of it. `Reception` puts them together: bytes on the line, chunks, the
buffer of `read_packets`, packet after packet, the position stored and told, the messages one after
the other through the MQTT client; and the MQTT task, which on the first connection of a process
discovers (which gives shutters their rows) and publishes the stored positions.

Each frame of the instance comes with the messages it is to lead to (`told`), written down from the
EEP and the configuration, not computed with `Reader`. `ToldAssumption` says that the two agree, at
every position a shutter may have; TLC compares them before a run.

Properties: `ReadingsTrue` (no message that no telegram led to, none twice, none out of order, over
damages, reconnects and left-over bytes), `NothingLost` (a damaged frame costs itself alone, as long
as its length can be trusted and nothing else fails), `PositionTold` (retained and stored position
agree once nothing is on the way, or after the next process start), `DriftBounded`, and `CoverKept`
(`Reception` implements `Cover`, and a position is forgotten only with its row: no reconnect, discovery
or restart resets one). The user may delete the row (`DeleteRow`), by clearing a discovery config of
the shutter in Home Assistant, at any time; the position at the broker then stays as it was, until a
telegram is stored in the row that the next process makes.

Instance: three setups: a shutter with both its devices below Home Assistant; a switch with groups,
a frame of which no packet can be made, and a response; contacts without Home Assistant, among them
an ignored device and a teach-in. Three frames, each possibly damaged in the header, in the payload
or short of a byte, one fault. The read chunk is 30 bytes, more than one frame and less than two, so frames
straddle chunks; `_MAX_BUFFER` (65536) is scaled to 54, a longest frame and a chunk. Deadlock is not
checked: after the last frame the model stops.

What the model has and no property singles out: the buffer survives a reconnect, so a partial frame
of the old connection swallows the first frame of the new one; a frame of which no packet can be made
(a radio telegram with fewer than six optional bytes) raises in the parser without leaving the
buffer, so the daemon reconnects until the buffer overflows (`tests/protocol/test_malformed.py:1` and
`wiki/Troubleshooting.md:15-16` have it skipped); a damaged length swallows what follows, up to the
size of the buffer; a movement before the shutter's row exists is told but not stored; a position lost
in a reconnect is told again only with the next telegram or the next process.

## 3. What is proved

`RollingCodeProofs` proves for any set of devices, any width, window and horizon that satisfy
`ConstantsAssumption`, and any bounds:

- `TypeCorrect`: `Spec => []TypeOK`
- `NoReplay`: `Spec => []AtMostOnce`
- `NoReuse`: `Spec => []OutboundFresh`
- `NoLockout`: `Spec => []NextAccepted`

These properties are not inductive. `AtMostOnce` says nothing of copies still in the air, of a code
in the store that a restart will take back, or of a telegram decrypted and not published. The
inductive invariant `IInv` (`Consistent`) has, besides `TypeOK`, four parts for each device:

- `AirInv`: what is in the air was sent, and no longer than `Horizon` telegrams ago;
- `CodeInv`: `rlc` and the code of the row are those of the telegram numbers `idx` and `rowIdx`,
  neither of which is ahead of the device;
- `FreshInv`: unless the device is exempt, memory is past everything published and past the telegram
  on its way to MQTT, and so is the row, unless the latest write was missed;
- `SendInv`: codes transmitted, queued, being made and kept in memory strictly increase in this
  order, and the row is past those transmitted and queued, unless the latest write was missed.

The arithmetic is in a few lemmas: `WrapInjective` and `WrapPlus` on the code as a number modulo
`Width`, and `NoOldAccepted`, which says that no telegram in the air below the expected number
authenticates, because `Window + Horizon < Width`. `ExemptStays` says that the exemptions in the
properties are never withdrawn. The step proofs (`AirNext`, `CodeNext`, `FreshNext`, `SendNext`)
go through the actions one by one. TLC checked `IInv` on the instance of `RollingCode.cfg`, with a
second queued telegram, before it was proved.

`RegistryProofs` proves of `Registry`, for any devices, its types (`RegistryTyped`), that what it
announces is in the list, or could not be written, or was taken out by the user, with no second
entry for a device of the user's (`AnnouncedIsKept`), and that a device becomes known only while
LEARN is on or from the list at a start (`LearnsOnlyWhileLearning`).

`ReceptionProofs` first proves, for any shutters, travel times and running times, `CoverConsistent` (the
inductive invariant `CoverInv`: types together with `DriftBounded`) and from it
`CoverSpec => []DriftBounded` (`DriftIsBounded`). The work is in how a movement changes the bound:
clamping is monotone, narrows distances and commutes with the travel time as a factor
(`ClampMonotone`, `ClampNarrows`, `ClampScales`), cutting loses at most one percent (`CutBounds`),
and so a movement adds at most one percent to the distance between the stored and the exact position
(`MoveKeepsBounds`), at the ends too.

It then proves that `Reception` implements `Cover` (`ReceptionKeepsCover`), given `[]RunsHeard`: a running
time in a telegram is one of `Runs`. The only steps that touch a position are `Frame` (`TellCovers`,
`StoredCovers`) and `StoreFails`, which needs that only shutters have rows (`RowsInv`). The
condition is discharged further down, by `ReceptionImplementsCover`. That a position goes only with its
row is `ForgetStep`: what a telegram stores is always a position (`TellRemembers`).

Next, it proves `Spec => []PositionTold` (`PositionIsTold`). The property only speaks of the moments
when no position is on its way, so it says nothing of a message that waits in the client while the
position in the store moves on. In the invariant `ToldInv` a shutter is `Current` when the *last*
message about it in the client says the stored position, or, with none there (`Silent`), the broker
retains that. Every shutter that is not `behind` is current; storing a position and handing it over are
one step, so it stays so (`CurrentAppend`), and sending the oldest message does not change the last
(`CurrentDelivered`). `Announced` says what the announcement after the first connection owes: while it
runs, each stored position is still to be told or is current. When it is over no shutter with a
position is behind, and that the task reads a position after its wait and not before is what keeps the
announced one from being older than what a telegram told meanwhile. `TaskOK` has the types and which
message each task waits for. That no other message is about a position needs what the reading of a
telegram returns: all its messages are on topics of its own device (`PublicationsOf`, over any profile).
`SetupsAssumption` says of configurations what the code ensures: profiles and device lists are lists;
no device has the name of a shutter, as those of a shutter are called after it with a suffix (`/a5`,
`/f6`) and two sections cannot have one name; and a model with a position has the 4BS device that
sends its running times. TLC checked `ToldInv` on the instance of `Reception.cfg` before it was proved.

Then come the types of `Reception` (`Typed`), which are about bytes. `StreamOK` is the invariant:

- `BytesOK`: line and buffer hold bytes, and the buffer is within `_MAX_BUFFER` whatever the chunk. It
  needs the checksum. `CrcExists` and `CrcValue` show by induction that the recursion in `Crc` defines a
  function for lists of every length, and `CrcType` that its values are bytes, from the table
  (`CrcTableType`, `XorType`); then follow that a frame as built and as damaged is made of bytes (`BuildType`, `DamagedType`) and that what
  `ParseMsg` leaves over is the end of what it was given (`ParsedType`).
- `CoverInv`: a running time read from a telegram is a number of two bytes with a sign (`SaysRun`, from
  the ranges of the fields alone), so the position moves as `Cover` has it (`PositionsKept`).
- `RetainedOK` and `AllInRange`: a position is a percentage in the client and at the broker.
- `Waiting`: a task waits for at most one message, and one that has been resumed has none in the
  client. A message a task gave up on (a time-out, the end of its session) is no longer its own.

It follows, with no condition on what is heard, that the drift is bounded in the running daemon
(`ReceptionDrift`), and that `Reception` implements `Cover` once `Runs` has all numbers of two bytes
with a sign (`ReceptionImplementsCover`). The assumptions on constants: `FramesAssumption` says that a
frame is made of bytes and its lengths fit the header, `DamagesAssumption` that a damage alters a byte or
loses the end of a frame, and `ChunksAssumption` that a chunk is not empty and fits the buffer.

Last, that nothing is lost (`NothingIsLost`: `Spec => []NothingLost`). Two facts about the framing
come first, for frames of any length and content:

- `BuiltIsRead`: whatever bytes follow a frame that was built, `ParseMsg` takes it off and gives the
  packet it was built from, and it says `incomplete` for each beginning of the frame (`FrameHeld`).
- `AlteredIsRefused`: with any one byte behind its lengths altered, to whatever byte, the frame is
  refused, and it alone: parsing goes on with what follows. This is where the checksum counts: its
  table is injective, so one byte that differs makes the checksums differ however many bytes follow
  (`CrcDiffers`), and an altered checksum differs from the one of an unaltered frame.

The invariant `FlowInv` says what holds of the stream until something else goes wrong (`trouble`: a
header altered, bytes missing, a buffer over `_MAX_BUFFER` emptied, a frame no packet can be made
of, a failed write, a time-out, a lost connection, a crash). `Streamed`: what is in the buffer and
on the line is, in this order, a list of *whole* frames (`IsPart`), each to be read or refused, and
while the task waits the buffer is shorter than the first of them. So a chunk completes any number
of frames, and parsing after a chunk takes off exactly those and stops in front of the first that is
incomplete (`PartTaken`, `ReadStreamed`). `Balanced`: what was told, with what the task still owes
(the message in the client and its `todo`), is what the frames taken off are to tell, chained in
order; a telegram moves its messages from `left` to owed (`FrameFlows`), an answer of the client one
from owed to told (`DeliverBalanced`). `Sources` keeps the MQTT task's messages apart from those.
When the line is empty and the task waits, the parts make up the buffer alone, which is shorter than
the first of them; so none is left, and what was told is what was expected (`FlowSuffices`). It
rests on `ToldInv` and `StreamOK`, and on `ToldAssumption` for what a single packet is to tell.

`ChainProofs` has the laws of sequences that these proofs rest on: what `Chain` and `Only` of `Chains`
return, keep and leave out, for sequences of any length. These are inductions. The induction theorems
of the library take a predicate as an operator, which the provers here cannot instantiate; the module
takes the *set* of the numbers (or sequences) that have the property, an ordinary value, and argues
with a least number outside it (`LeastNat`, `Induct`, `SeqInduct`, from `WFMin`).

`StickLinkProofs` proves for every value of the constants that satisfies `ConstantsAssumption`:

- `Typed`: `Spec => []TypeOK`
- `AlwaysPaced`: `Spec => []Paced`
- `TagsAreTheNewest`: `Spec => []TagsNeverBehind`
- `AlignedWhenClean`: `Spec => []AlignedUnlessInterleaved`
- `BaseIdIsOne`: `Spec => []BaseIdTrue`, if `Interval < Backoff`

`Paced` says nothing of the clocks; the invariant `PaceInv` adds that the time since the last telegram
and what is left to the deadline make up the interval, and that the holder of the lock sleeps at least
up to the deadline. Then a send finds the interval over (`SendPaced`), and a closed connection keeps
the deadline (`ClosePaced`). `TagsNeverBehind` becomes inductive with `LockInv`, which says who can be
at the lock with what: commands come from the transceiver task alone, one at a time and only in the
handshake, and a closed link owes nothing. `CleanInv` adds where radio telegrams may be among what was
sent: behind the commands, and nowhere before the handshake is over. `BaseInv` is about order and time:
who waits for the lock while the link is closed wakes before the next connection is made
(`WakesFirst`), because no sleep exceeds `Interval` and the reconnect takes `Backoff`; so the
handshake's first command is the first thing sent, a version is the first to be answered and a duty
cycle the last, and neither meets the tag of the Base ID. Without the hypothesis the theorem is false;
section 2 has the counterexample.

`SupervisorProofs` proves `TypeOK`, `DiscoveryComplete`, `LearnGuarded` and, if `FixedId`, `Available`.
The invariant `SupInv` adds that with a fixed client id no last will is pending while the client is
connected (`WillOfThePast`), what has been published at each stage of discovery (`Stages`), and that a
switch-off has LEARN off from its first step (`SwitchedOff`). Without a fixed client id `Available` is
false: a last will of an earlier connection may come late.

`InboundProofs` proves, for any devices with any profiles, and any messages and telegrams:

- `LockAlwaysInUse`: `Spec => []LockInUse`
- `AlwaysAddressed`: `Spec => []Addressed`
- `Typed`: `Spec => []TypeOK`

For the lock no property of the codecs is needed, as a step only depends on whether building the
telegram raises; `LockInv` is `LockInUse` with both tasks spelled out. `Addressed` needs to know what is
built. `TelegramFormed` follows the encoder from the empty packet through the command, the learn bit,
default data, given values and the status, or through raw data, or a learn response: whatever bits they
write, what comes out is `Formed`, that is, of a kind the transceiver knows, as long as the kind says,
with the sender's four bytes where a receiver looks for them. What the written bits *are* does not
matter, only where they go, so nothing about the folds over bits is used. A kind that is unknown makes a
packet that is wrong from the start and is dropped (`CreateWrong`). The invariant `SendInv` then says
that a task which waits for the lock or writes has a `Formed` telegram from its device's own address
(`OwnSender`), that a device may only send once it has one (`SenderIs`), and that the scratch fields the
telegram is built from have their types; with them comes the cap on the fields, over messages that
bring one field (`OneMore`) or many (`Fitting`).

`MessagesAssumption` says that messages are for devices and bring finitely many fields.
`SensorsAssumption` says that addresses have four bytes and that cases and fields are lists; any device
may have default bytes or be answered. Where these overrun the sender (`Overrun`), `SendInv` still has a
telegram that a receiver reads, but from an address that is not known (`Overwritten`, `Spoilt`).

`ProvisioningProofs` proves every safety property of the run and the refinement, for any devices,
earlier runs, versions of the mapping, and any number of faults. `ProvisioningAssumption` asks that the
devices are finitely many, and that every version of the mapping has a config (as
each mapping of the code has, its common ones).

- `Typed` and `OneOfEach`: `Spec => []TypeOK`, `Spec => []NoDuplicates`
- `SyncNeverDisturbed`: `Spec => []SyncUndisturbed`
- `KeysAreWhole`: `Spec => []KeysWhole`
- `AllRequestsHeard`: `Spec => []RequestsHeard`
- `ConfigsAreListed` and `SyncDoesRepair`: `Spec => []ConfigsListed`, `Spec => []SyncRepairs`
- `LearningImplementsRegistry`: `Spec => ImplementsRegistry`

None of them is inductive. The invariants build on one another:

- `SyncInv`: until the first connection is made LEARN is off and the transceiver task meets no device,
  and only the first connection synchronises.
- `Base`: with it the types, and that neither the list of entries nor the list of sensors has a device
  twice. The work is in `LoadDevices`: entries that are apart expand to sensors that are apart.
- `KeyInv`: the same about the halves that wait in `halves` and those still on the air: unless the
  device is `dirty`, they are of one attempt.
- `HeardInv`: how far the subscriptions have come, sensor by sensor, while discovery is going on.
- `Repair`: how far everything that writes configs has come. For the device a discovery is at, what is
  retained or missing is still among what it has to publish (`SyncWork`, and `TeachWork` for a device
  just met); devices the synchronisation is past agree, and a row no sensor was found for is still in
  `leftover` (`LoopInv`, `PruneInv`, `ServedInv`), all of it up to the configs in `torn`, which are at
  the broker in no row, whatever tore them; deletions are heard only of devices whose discovery
  is over (`SubsInv`). The synchronisation is alone at this because of `SyncInv` (`SyncAlone`).
- `Enrolled`: what an announcement rests on: the entry written, or the failure recorded.

`LearningImplementsRegistry` shows, action by action, which step of `Registry` it is. The steps that
are not stutters are `Start`, `Crash` (`Stop`), the LEARN switch, the two ways to meet a device, the
write of its entry and its failure, the announcement, and the edits of the user.

Only model-checked:

- the liveness properties (`BaseIdLearnt`, `Recovers`, `EndsOnShutdown`, `MetIsKept`), since TLAPS has
  no backend for fairness and `ENABLED`;
- what the codecs compute (`CommandWhole`, `TeachInExact`): the operators of `Engine` and `Encoder`
  fold over the bits of a telegram, and the properties compare their results with what the catalog
  says of it; checked on the telegrams of the instances;
- `ReadingsTrue`, which is about bytes that are lost and lengths that are altered as well. It is not
  true of every frame and damage: a frame short of bytes is filled up with those of the next one, and
  is read when the byte in the checksum's place happens to be right, one time in 256; no code can rule
  that out. TLC checks that it does not happen with the frames and damages of the instance.

## 4. Plan

Done: the models of all components with state, and the proofs of section 3. What has no theorem is
out of reach of the provers or depends on the instance, as listed above.

## 5. Not modelled

- AES, CMAC and the PSK: telegrams authenticate exactly when their code is tried.
- The profile families that are more rows of a form `Profiles` has, and the mapping tables of Home
  Assistant, which are data; the content of a discovery config.
- Statistics: a periodic publish whose errors are caught and which changes nothing else. ESP3 events,
  which are logged.
- The JSON action `secure_teachin` and the topics of a cover's travel time (a constant).
- Parsing of options and files, the one-time migration of the store from TinyDB, packaging, tools,
  catalog and documentation: sequential code and data.
- Liveness of `Inbound` and `Reception`: messages and telegrams may be cut off by a lost connection at
  any time, and the code promises no retry.
