------------------------------ MODULE Supervisor ------------------------------
(***************************************************************************)
(* The process: the loop that connects to the MQTT broker and runs the     *)
(* tasks of a session, the announcements made at a connection, the LEARN   *)
(* switch with its auto-off timer, and the end of the process.             *)
(*                                                                         *)
(* application/daemon.py: _run_async, _shutdown_watcher, _mqtt_task,       *)
(* _on_broker_connected, _enocean_task; homeassistant/ha_bridge.py:        *)
(* before_connect, after_connect, _set_teach_in, _auto_disable_learn.      *)
(*                                                                         *)
(* The tasks of a session are in one TaskGroup: an exception that leaves   *)
(* one of them cancels the others.  The LEARN timer is not in the group.   *)
(* StickLink has the details of the transceiver that this module leaves    *)
(* out.  One step is what a task does between two awaits.                  *)
(***************************************************************************)
EXTENDS Integers

CONSTANTS
  FixedId,       \* does mqtt_client_id name the client, as the add-on's configuration does?
  SelfAddressed  \* has some device a sender of its own, so that it needs no Base ID?

ASSUME ConstantsAssumption == FixedId \in BOOLEAN /\ SelfAddressed \in BOOLEAN

VARIABLES
  \* the process
  run,        \* where _run_async is; "ended" and "crashed" when there is no process
  shutdown,   \* the event _shutdown
  base,       \* is the Base ID known (_base_id_ready)?
  first,      \* _first_mqtt_connect
  teachIn,    \* daemon.teach_in
  timer,      \* _learn_timer: asleep ("armed") or publishing the end ("firing")
  \* the tasks of a session
  mqtt,       \* where the MQTT task is
  stick,      \* the transceiver as the transceiver task left it; "broken" is not noticed yet
  conn,       \* the client's connection; "lost" is not noticed yet
  \* the broker
  reachable,
  subs,       \* the subscriptions of this connection
  will,       \* the last will of a connection that is gone is still to be published
  state,      \* what is retained on bridge/state
  \* history variables: no action reads them
  published,  \* what this process has handed to a client to announce
  learnFailed \* the status of the last switch-on of LEARN could not be published

process == <<shutdown, base, first, teachIn, timer, published, learnFailed>>
session == <<mqtt, stick, conn, subs>>
broker == <<reachable, will, state>>
vars == <<run, process, session, broker>>

\* The MQTT task consumes messages.
Serving == mqtt \in {"loop", "switchOn", "switchOff"}
Running == run \notin {"ended", "crashed"}

(* The client is dropped and the tasks are gone whenever a session is over. *)
TypeOK ==
  /\ run \in {"connecting", "session", "delay", "ended", "crashed"}
  /\ mqtt \in {"off", "wait", "subscribe", "discover", "learn", "covers",
               "loop", "switchOn", "switchOff"}
  /\ stick \in {"closed", "open", "broken"}
  /\ conn \in {"none", "up", "lost"}
  /\ timer \in {"off", "armed", "firing"}
  /\ state \in {"none", "online", "offline"}
  /\ subs \subseteq {"req", "config", "learn"}
  /\ published \subseteq {"devices", "learn", "covers"}
  /\ {shutdown, base, first, teachIn, reachable, will, learnFailed} \subseteq BOOLEAN
  /\ run = "session" <=> conn # "none"
  /\ run = "session" <=> mqtt # "off"
  /\ run # "session" => stick = "closed" /\ subs = {}
-----------------------------------------------------------------------------
Init ==
  /\ run = "connecting" /\ shutdown = FALSE /\ base = FALSE /\ first = TRUE
  /\ teachIn = FALSE /\ timer = "off"
  /\ mqtt = "off" /\ stick = "closed" /\ conn = "none" /\ subs = {}
  /\ reachable \in BOOLEAN /\ will = FALSE /\ state = "none"
  /\ published = {} /\ learnFailed = FALSE

\* The tasks are cancelled, the transceiver closes and the client is dropped.
NoSession == mqtt' = "off" /\ stick' = "closed" /\ conn' = "none" /\ subs' = {}

\* The process is gone, and what it knew with it.
Over(how) ==
  /\ run' = how /\ base' = FALSE /\ first' = TRUE
  /\ teachIn' = FALSE /\ timer' = "off"
  /\ published' = {} /\ learnFailed' = FALSE
  /\ NoSession
  /\ UNCHANGED shutdown

\* The end of a round of the loop in _run_async: another one, unless shutdown is requested.
\* The LEARN timer goes on.
Round(next) ==
  IF shutdown THEN Over("ended")
  ELSE /\ run' = next
       /\ NoSession
       /\ learnFailed' = (learnFailed \/ mqtt = "switchOn")
       /\ UNCHANGED <<shutdown, base, first, teachIn, timer, published>>
-----------------------------------------------------------------------------
(* _run_async                                                              *)

\* The broker ends a session of the same client id, and publishes its last will, before
\* it accepts the new one.
ConnectBroker ==
  /\ run = "connecting" /\ reachable
  /\ run' = "session" /\ conn' = "up" /\ mqtt' = "wait"
  /\ state' = IF will /\ FixedId THEN "offline" ELSE state
  /\ will' = (will /\ ~FixedId)
  /\ UNCHANGED <<process, stick, subs, reachable>>

ConnectFails ==
  /\ run = "connecting" /\ ~reachable
  /\ Round("delay")
  /\ UNCHANGED broker

\* The sleep before the next attempt does not end earlier when shutdown is requested.
DelayOver ==
  /\ run = "delay"
  /\ Round("connecting")
  /\ UNCHANGED broker

\* mutant: no `finally: self._client = None`
MqttRaisesKeepsClient ==
  /\ conn = "lost"
  /\ run' = "delay"
  /\ mqtt' = "off" /\ stick' = "closed" /\ subs' = {}
  /\ UNCHANGED <<process, broker, conn>>

\* MqttError leaves the MQTT task, out of the message iterator or out of a publish that an
\* action below has begun.
MqttRaises ==
  /\ conn = "lost"
  /\ Round("delay")
  /\ UNCHANGED broker

\* mutant: a TaskGroup without its _shutdown_watcher
NoWatcher == FALSE /\ UNCHANGED vars

\* _shutdown_watcher unwinds the group, and the client disconnects in order: there is no
\* last will after it.
ShutdownSeen ==
  /\ run = "session" /\ shutdown
  /\ Over("ended")
  /\ UNCHANGED broker
-----------------------------------------------------------------------------
(* The MQTT task                                                           *)

\* mutant: before_connect waits for the Base ID without a bound
AnnounceWithBaseId ==
  /\ mqtt = "wait" /\ base
  /\ mqtt' = "subscribe"
  /\ state' = IF conn = "up" THEN "online" ELSE state
  /\ UNCHANGED <<run, process, stick, conn, subs, reachable, will>>

\* mutant: availability is announced with discovery, on the first connection only
AnnounceOnce ==
  /\ mqtt = "wait"
  /\ mqtt' = "subscribe"
  /\ state' = IF conn = "up" /\ first THEN "online" ELSE state
  /\ UNCHANGED <<run, process, stick, conn, subs, reachable, will>>

\* before_connect waits for the Base ID or a timeout, so the wait may end without one.
\* What is published on a lost connection is lost.
Announce ==
  /\ mqtt = "wait"
  /\ mqtt' = "subscribe"
  /\ state' = IF conn = "up" THEN "online" ELSE state
  /\ UNCHANGED <<run, process, stick, conn, subs, reachable, will>>

\* The request topics of the devices; a subscription is waited for.
Subscribe ==
  /\ mqtt = "subscribe" /\ conn = "up"
  /\ subs' = subs \cup {"req"}
  /\ mqtt' = IF first THEN "discover" ELSE "loop"
  /\ UNCHANGED <<run, process, stick, conn, broker>>

\* mutant: the first connection counts as made before discovery is complete
DiscoverMarks ==
  /\ mqtt = "discover" /\ conn = "up"
  /\ subs' = subs \cup {"config"}
  /\ published' = published \cup {"devices"}
  /\ mqtt' = IF base THEN "learn" ELSE "covers"
  /\ first' = FALSE
  /\ UNCHANGED <<run, shutdown, base, teachIn, timer, learnFailed, stick, conn, broker>>

\* Discovery of the devices, with a subscription that tells of their removal.  Without a
\* Base ID the LEARN button is left out.
Discover ==
  /\ mqtt = "discover" /\ conn = "up"
  /\ subs' = subs \cup {"config"}
  /\ published' = published \cup {"devices"}
  /\ mqtt' = IF base THEN "learn" ELSE "covers"
  /\ UNCHANGED <<run, shutdown, base, first, teachIn, timer, learnFailed, stick, conn, broker>>

OfferLearn ==
  /\ mqtt = "learn" /\ conn = "up"
  /\ subs' = subs \cup {"learn"}
  /\ published' = published \cup {"learn"}
  /\ mqtt' = "covers"
  /\ UNCHANGED <<run, shutdown, base, first, teachIn, timer, learnFailed, stick, conn, broker>>

\* The LEARN status, the statistics entities and the covers; only then is the first
\* connection made.
FinishFirst ==
  /\ mqtt = "covers"
  /\ published' = published \cup {"covers"}
  /\ first' = FALSE
  /\ mqtt' = "loop"
  /\ UNCHANGED <<run, shutdown, base, teachIn, timer, learnFailed, stick, conn, subs, broker>>

\* A device is commanded while the transceiver is down: send raises and nothing in the MQTT
\* task or in _run_async catches it.  The client still disconnects in order.
Command ==
  /\ mqtt = "loop" /\ "req" \in subs
  /\ base \/ SelfAddressed
  /\ stick # "open"
  /\ Over("crashed")
  /\ UNCHANGED broker
-----------------------------------------------------------------------------
(* LEARN                                                                   *)

\* _set_teach_in up to its publish
SwitchStart(on) ==
  /\ mqtt = "loop" /\ "learn" \in subs
  /\ teachIn' = on
  /\ mqtt' = IF on THEN "switchOn" ELSE "switchOff"
  /\ UNCHANGED <<run, shutdown, base, first, timer, published, learnFailed,
                 stick, conn, subs, broker>>

\* mutant: a timer that exists is not replaced
SwitchDoneKeepsTimer ==
  /\ mqtt \in {"switchOn", "switchOff"}
  /\ mqtt' = "loop"
  /\ timer' = IF mqtt = "switchOff" THEN "off" ELSE IF timer = "off" THEN "armed" ELSE timer
  /\ learnFailed' = FALSE
  /\ UNCHANGED <<run, shutdown, base, first, teachIn, published, stick, conn, subs, broker>>

\* _set_teach_in after its publish: a timer that runs, or that is in its own publish, is
\* cancelled.
SwitchDone ==
  /\ mqtt \in {"switchOn", "switchOff"}
  /\ mqtt' = "loop"
  /\ timer' = IF mqtt = "switchOn" THEN "armed" ELSE "off"
  /\ learnFailed' = FALSE
  /\ UNCHANGED <<run, shutdown, base, first, teachIn, published, stick, conn, subs, broker>>

\* _auto_disable_learn: without a client there is no publish to wait for.
TimerFires ==
  /\ timer = "armed"
  /\ teachIn' = FALSE
  /\ timer' = IF conn = "none" THEN "off" ELSE "firing"
  /\ UNCHANGED <<run, shutdown, base, first, published, learnFailed, session, broker>>

\* The publish is over or has raised; the timer cancels itself.
TimerDone ==
  /\ timer = "firing"
  /\ timer' = "off"
  /\ UNCHANGED <<run, shutdown, base, first, teachIn, published, learnFailed, session, broker>>
-----------------------------------------------------------------------------
(* The transceiver task                                                    *)

StickUp ==
  /\ run = "session" /\ stick = "closed" /\ ~shutdown
  /\ stick' = "open"
  /\ UNCHANGED <<run, process, mqtt, conn, subs, broker>>

ReadBaseId ==
  /\ stick = "open" /\ ~base
  /\ base' = TRUE
  /\ UNCHANGED <<run, shutdown, first, teachIn, timer, published, learnFailed, session, broker>>

\* The task closes the transceiver and tries again: the stream failed, or a publish out of
\* the read loop did.
StickDown ==
  /\ stick = "broken" \/ (stick = "open" /\ conn = "lost")
  /\ stick' = "closed"
  /\ UNCHANGED <<run, process, mqtt, conn, subs, broker>>
-----------------------------------------------------------------------------
(* The surroundings                                                        *)

StickBreaks ==
  /\ stick = "open"
  /\ stick' = "broken"
  /\ UNCHANGED <<run, process, mqtt, conn, subs, broker>>

\* The connection breaks; a broker that stops forgets the last will.
ConnBreaks ==
  /\ conn = "up"
  /\ conn' = "lost"
  /\ reachable' \in BOOLEAN
  /\ will' \in IF reachable' THEN {TRUE} ELSE BOOLEAN
  /\ UNCHANGED <<run, process, mqtt, stick, subs, state>>

BrokerChanges ==
  /\ conn # "up"
  /\ reachable' = ~reachable
  /\ UNCHANGED <<run, process, session, will, state>>

\* The broker misses the keep-alive of a connection that is gone.
WillFires ==
  /\ will
  /\ will' = FALSE /\ state' = "offline"
  /\ UNCHANGED <<run, process, session, reachable>>

Shutdown ==
  /\ Running /\ ~shutdown
  /\ shutdown' = TRUE
  /\ UNCHANGED <<run, base, first, teachIn, timer, published, learnFailed, session, broker>>

\* The process is killed, or its host fails.
Killed ==
  /\ Running
  /\ Over("ended")
  /\ will' = (will \/ conn = "up")
  /\ UNCHANGED <<reachable, state>>

\* s6 or the user starts the process again.
Restart ==
  /\ ~Running
  /\ run' = "connecting" /\ shutdown' = FALSE
  /\ UNCHANGED <<base, first, teachIn, timer, published, learnFailed, session, broker>>
-----------------------------------------------------------------------------
Next ==
  \/ ConnectBroker \/ ConnectFails \/ DelayOver \/ MqttRaises \/ ShutdownSeen
  \/ Announce \/ Subscribe \/ Discover \/ OfferLearn \/ FinishFirst \/ Command
  \/ \E on \in BOOLEAN : SwitchStart(on)
  \/ SwitchDone \/ TimerFires \/ TimerDone
  \/ StickUp \/ ReadBaseId \/ StickDown
  \/ StickBreaks \/ ConnBreaks \/ BrokerChanges \/ WillFires
  \/ Shutdown \/ Killed \/ Restart

Spec == Init /\ [][Next]_vars

(* A connection attempt and every wait has a bound, sleeps end, a task     *)
(* that can run does and a lost connection is noticed by its keep-alive.   *)
(* The stick need not answer.                                              *)
Fairness ==
  /\ WF_vars(ConnectBroker \/ ConnectFails)
  /\ WF_vars(DelayOver) /\ WF_vars(MqttRaises) /\ WF_vars(ShutdownSeen)
  /\ WF_vars(Announce) /\ WF_vars(Subscribe) /\ WF_vars(Discover)
  /\ WF_vars(OfferLearn) /\ WF_vars(FinishFirst) /\ WF_vars(SwitchDone)

FairSpec == Spec /\ Fairness
-----------------------------------------------------------------------------
(* A client that has announced itself is shown as online for as long as    *)
(* its connection lasts, whatever last wills of earlier connections and of *)
(* killed processes are still to come.                                     *)
Available == mqtt \notin {"off", "wait"} /\ conn = "up" => state = "online"

(* Commands are served only by a process that has been through all of      *)
(* discovery, even if a connection was lost in the middle of it before.    *)
DiscoveryComplete == Serving => {"devices", "covers"} \subseteq published

(* Teach-in is on only while the timer that ends it runs, whenever that    *)
(* timer fires in the middle of a switch; the exception is a switch-on of  *)
(* which the status could not be published.                                *)
LearnGuarded == teachIn /\ mqtt # "switchOn" => timer = "armed" \/ learnFailed

(* When the broker stays reachable and the connection lasts, messages are  *)
(* served in the end, whatever the transceiver does.                       *)
Recovers ==
  <>[](reachable /\ conn # "lost" /\ ~shutdown /\ Running) => <>[]Serving

(* A requested shutdown ends the process, even if the broker is not        *)
(* reachable.                                                              *)
EndsOnShutdown == shutdown ~> ~Running
-----------------------------------------------------------------------------
(* daemon.py:497-498: "The transceiver task self-heals connection drops    *)
(* internally (so a Pi power-cycle / ser2net restart does not tear down    *)
(* MQTT)"                                                                  *)
SelfHeals == run # "crashed"

(* ha_bridge.py:86-87: "teach-in auto-disables after this many seconds, so *)
(* a forgotten-on learn mode does not keep mass-accepting stray telegrams" *)
LearnTimed == teachIn /\ mqtt # "switchOn" => timer = "armed"

(* addon/DOCS.md:76: "LEARN switch state; publish to                       *)
(* `enocean2mqtt/__system/learn/req` to toggle it."                        *)
LearnHeard == Serving /\ conn = "up" /\ "learn" \in published => "learn" \in subs
=============================================================================
