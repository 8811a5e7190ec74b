------------------------------- MODULE Registry -------------------------------
(***************************************************************************)
(* What learning devices promises, without broker, discovery and radio:    *)
(* the bridge meets a device only while LEARN is on, and once only; to the *)
(* user's device list it adds nothing but devices it has met, each at most *)
(* once, and it changes and removes nothing in it; it announces a device   *)
(* after its entry was written (or could not be); and after a restart it   *)
(* knows the list, no more and no less, with LEARN off.                    *)
(*                                                                         *)
(* Provisioning implements this.                                           *)
(***************************************************************************)
EXTENDS FiniteSets

CONSTANTS Devices, Nobody

VARIABLES
  running,    \* is the process up?
  learning,   \* is LEARN on?
  known,      \* devices whose telegrams are decoded
  mine,       \* entries of the list that the bridge wrote
  theirs,     \* entries of the list that the user wrote
  failed,     \* devices whose entry could not be written
  announced   \* the device announced last

vars == <<running, learning, known, mine, theirs, failed, announced>>

Listed == mine \cup theirs

TypeOK ==
  /\ running \in BOOLEAN /\ learning \in BOOLEAN
  /\ known \subseteq Devices /\ mine \subseteq Devices /\ theirs \subseteq Devices
  /\ failed \subseteq Devices /\ announced \in Devices \cup {Nobody}

Init ==
  /\ running = FALSE /\ learning = FALSE /\ known = {}
  /\ mine = {} /\ theirs \in SUBSET Devices
  /\ failed = {} /\ announced = Nobody

Start ==
  /\ ~running /\ running' = TRUE
  /\ known' = Listed
  /\ UNCHANGED <<learning, mine, theirs, failed, announced>>

Stop ==
  /\ running /\ running' = FALSE
  /\ known' = {} /\ learning' = FALSE
  /\ UNCHANGED <<mine, theirs, failed, announced>>

Switch ==
  /\ running /\ learning' = ~learning
  /\ UNCHANGED <<running, known, mine, theirs, failed, announced>>

Meet(d) ==
  /\ running /\ learning /\ d \notin known
  /\ known' = known \cup {d}
  /\ UNCHANGED <<running, learning, mine, theirs, failed, announced>>

Write(d) ==
  /\ running /\ d \in known \ Listed
  /\ mine' = mine \cup {d}
  /\ UNCHANGED <<running, learning, known, theirs, failed, announced>>

Fail(d) ==
  /\ running /\ d \in known
  /\ failed' = failed \cup {d}
  /\ UNCHANGED <<running, learning, known, mine, theirs, announced>>

Announce(d) ==
  /\ running /\ d \in known \cap (Listed \cup failed)
  /\ announced' = d
  /\ UNCHANGED <<running, learning, known, mine, theirs, failed>>

\* The user edits the list; an entry the user takes out counts as one that is not kept.
Edit(d) ==
  /\ \/ d \notin Listed /\ theirs' = theirs \cup {d} /\ UNCHANGED <<mine, failed>>
     \/ d \in Listed /\ theirs' = theirs \ {d} /\ mine' = mine \ {d}
        /\ failed' = failed \cup {d}
  /\ UNCHANGED <<running, learning, known, announced>>

Next ==
  \/ Start \/ Stop \/ Switch
  \/ \E d \in Devices : Meet(d) \/ Write(d) \/ Fail(d) \/ Announce(d) \/ Edit(d)

Spec == Init /\ [][Next]_vars

\* What was announced is in the list, unless writing it failed or the user took it out; and
\* the user's entries and the bridge's are never about the same device.
Kept ==
  /\ announced # Nobody => announced \in Listed \cup failed
  /\ mine \cap theirs = {}
=============================================================================
