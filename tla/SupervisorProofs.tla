--------------------------- MODULE SupervisorProofs ---------------------------
(***************************************************************************)
(* Proofs about Supervisor: types, the availability that is announced, the *)
(* discovery before commands, and the guard of the LEARN mode.             *)
(***************************************************************************)
EXTENDS Supervisor, TLAPS

\* A last will that is still to come belongs to a connection that is gone: the broker takes
\* over the session of the same client id before it accepts the new one.
WillOfThePast == FixedId /\ conn = "up" => ~will

\* Discovery goes through its stages, and counts as done after all of them.
Stages ==
  /\ mqtt \in {"learn", "covers"} => "devices" \in published
  /\ ~first => {"devices", "covers"} \subseteq published

\* Only the end of a switch-on leaves LEARN on.
SwitchedOff == mqtt = "switchOff" => ~teachIn

SupInv ==
  /\ TypeOK
  /\ WillOfThePast
  /\ FixedId => Available
  /\ Stages /\ DiscoveryComplete
  /\ SwitchedOff /\ LearnGuarded

LEMMA SupInit == Init => SupInv
  BY DEF Init, SupInv, TypeOK, WillOfThePast, Available, Stages, DiscoveryComplete, Serving,
         SwitchedOff, LearnGuarded

\* The end of the process keeps the invariant.
LEMMA OverKeeps ==
  ASSUME SupInv, NEW how \in {"ended", "crashed"}, Over(how), reachable' \in BOOLEAN,
         will' \in BOOLEAN, state' = state
  PROVE  SupInv'
  BY DEF SupInv, Over, NoSession, TypeOK, WillOfThePast, Available, Stages, DiscoveryComplete,
         Serving, SwitchedOff, LearnGuarded

\* So does the end of a session or of an attempt.
LEMMA RoundKeeps ==
  ASSUME SupInv, NEW next \in {"connecting", "delay"}, Round(next), UNCHANGED broker
  PROVE  SupInv'
  <1>1. CASE shutdown
    <2>1. Over("ended") /\ UNCHANGED broker
      BY <1>1 DEF Round
    <2> QED
      BY <2>1, OverKeeps DEF SupInv, TypeOK, broker
  <1>2. CASE ~shutdown
    <2>1. /\ run' = next /\ NoSession /\ learnFailed' = (learnFailed \/ mqtt = "switchOn")
          /\ UNCHANGED <<shutdown, base, first, teachIn, timer, published>>
      BY <1>2 DEF Round
    <2> QED
      BY <2>1 DEF NoSession, broker, SupInv, TypeOK, WillOfThePast, Available, Stages,
                  DiscoveryComplete, Serving, SwitchedOff, LearnGuarded
  <1> QED
    BY <1>1, <1>2

\* Every step keeps the invariant.
LEMMA SupStep == SupInv /\ [Next]_vars => SupInv'
<1> SUFFICES ASSUME SupInv, [Next]_vars PROVE SupInv'
  OBVIOUS
<1> USE DEF SupInv, TypeOK, WillOfThePast, Available, Stages, DiscoveryComplete, Serving,
            SwitchedOff, LearnGuarded, process, session, broker
<1>1. CASE ConnectBroker
  BY <1>1 DEF ConnectBroker
<1>2. CASE ConnectFails \/ DelayOver \/ MqttRaises
  BY <1>2, RoundKeeps DEF ConnectFails, DelayOver, MqttRaises
<1>3. CASE ShutdownSeen \/ Command
  BY <1>3, OverKeeps DEF ShutdownSeen, Command
<1>4. CASE Killed
  BY <1>4, OverKeeps DEF Killed
<1>5. CASE Announce
  BY <1>5 DEF Announce
<1>6. CASE Subscribe
  BY <1>6 DEF Subscribe
<1>7. CASE Discover
  BY <1>7 DEF Discover
<1>8. CASE OfferLearn
  BY <1>8 DEF OfferLearn
<1>9. CASE FinishFirst
  BY <1>9 DEF FinishFirst
<1>10. ASSUME NEW on \in BOOLEAN, SwitchStart(on) PROVE SupInv'
  BY <1>10 DEF SwitchStart
<1>11. CASE SwitchDone
  BY <1>11 DEF SwitchDone
<1>12. CASE TimerFires
  BY ZenonT(60), <1>12 DEF TimerFires
<1>13. CASE TimerDone
  BY <1>13 DEF TimerDone
<1>14. CASE StickUp
  BY <1>14 DEF StickUp
<1>15. CASE ReadBaseId
  BY <1>15 DEF ReadBaseId
<1>16. CASE StickDown
  BY <1>16 DEF StickDown
<1>17. CASE StickBreaks
  BY <1>17 DEF StickBreaks
<1>18. CASE ConnBreaks
  BY ZenonT(60), <1>18 DEF ConnBreaks
<1>19. CASE BrokerChanges
  BY <1>19 DEF BrokerChanges
<1>20. CASE WillFires
  BY ZenonT(60), <1>20 DEF WillFires
<1>21. CASE Shutdown
  BY <1>21 DEF Shutdown, Running
<1>22. CASE Restart
  BY <1>22 DEF Restart, Running
<1>23. CASE UNCHANGED vars
  BY <1>23 DEF vars
<1> QED
  BY <1>1, <1>2, <1>3, <1>4, <1>5, <1>6, <1>7, <1>8, <1>9, <1>10, <1>11, <1>12,
     <1>13, <1>14, <1>15, <1>16, <1>17, <1>18, <1>19, <1>20, <1>21, <1>22, <1>23 DEF Next

LEMMA AlwaysSupInv == Spec => []SupInv
  BY SupInit, SupStep, PTL DEF Spec

\* A session is exactly a client with an MQTT task; without one the transceiver is closed and
\* nothing is subscribed.
THEOREM Typed == Spec => []TypeOK
<1>1. SupInv => TypeOK
  BY DEF SupInv
<1> QED
  BY <1>1, AlwaysSupInv, PTL

\* With a fixed client id, as the add-on sets one, a connected client that has announced itself
\* is never shown as offline by a last will of the past.
THEOREM AlwaysAvailable ==
  ASSUME FixedId
  PROVE  Spec => []Available
<1>1. SupInv => Available
  BY DEF SupInv
<1> QED
  BY <1>1, AlwaysSupInv, PTL

\* Commands are served only after all of discovery.
THEOREM AlwaysDiscovered == Spec => []DiscoveryComplete
<1>1. SupInv => DiscoveryComplete
  BY DEF SupInv
<1> QED
  BY <1>1, AlwaysSupInv, PTL

\* LEARN is on only while its timer runs, or after a switch-on that could not be published.
THEOREM AlwaysGuarded == Spec => []LearnGuarded
<1>1. SupInv => LearnGuarded
  BY DEF SupInv
<1> QED
  BY <1>1, AlwaysSupInv, PTL
=============================================================================
