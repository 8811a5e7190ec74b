----------------------------- MODULE RollingCode -----------------------------
(***************************************************************************)
(* The rolling codes of secure EnOcean devices (Security v3.02), both ways:*)
(* the inbound code the daemon expects next from a device, the outbound    *)
(* code it puts on its own secure telegrams, and the copies of both in the *)
(* device store, which alone survive a restart.                            *)
(*                                                                         *)
(* protocol/security.py computes on the codes, application/daemon.py and   *)
(* application/encoder.py keep them in the Sensor object, ha_bridge.py     *)
(* writes them through to adapters/store/sqlite_store.py and loads them    *)
(* back.  Cryptography is abstract: a telegram authenticates exactly when  *)
(* the code it was made with is among the codes the daemon tries.          *)
(***************************************************************************)
EXTENDS Integers, Sequences, FiniteSets

CONSTANTS
  Device,       \* the secure devices; each has one Sensor and at most one row
  Width,        \* how many values a rolling code has: 2^(8 * rlc_size)
  Window,       \* rlc_window: how far ahead an implicit code is searched
  Horizon,      \* a copy of a telegram is delivered before Horizon newer ones are sent
  StoreFails,   \* whether writing to the store may raise
  Unset,        \* a row's code that was never written
  MaxSent,      \* bound: telegrams a device sends
  MaxQueue,     \* bound: outbound telegrams waiting for the transmitter
  MaxRestarts   \* bound: restarts of the process

ASSUME ConstantsAssumption ==
  /\ Device # {}
  /\ Width \in Nat /\ Window \in Nat /\ Horizon \in Nat \ {0}
  /\ Window + Horizon < Width
  /\ StoreFails \in BOOLEAN
  /\ Unset \notin Nat
  /\ MaxSent \in Nat /\ MaxQueue \in Nat /\ MaxRestarts \in Nat

VARIABLES
  mode,      \* mode[d]: does the device transmit its code, or leave it implicit?
  sent,      \* sent[d]: telegrams the device has sent; the n-th (from 0) has code Wrap(n)
  air,       \* air[d]: telegrams of which a copy may still arrive
  rlc,       \* sensor["rlc"]: the inbound code expected next
  rlcSnd,    \* sensor["rlc_snd"]: the outbound code used next
  rows,      \* the devices that have a row in the store
  rowRlc,    \* rowRlc[d], rowSnd[d]: the codes in the row of d
  rowSnd,
  step,      \* the stretch of code without an await that is being executed
  job,       \* the telegram that was decrypted and is on its way to MQTT
  queue,     \* queue[d]: outbound codes waiting for the transceiver's send lock
  synced,    \* the devices whose row discovery has upserted since the process started
  restarts,
  \* history variables: no action reads them
  idx,       \* idx[d]: the telegram number rlc[d] stands for
  rowIdx,    \* rowIdx[d]: the telegram number rowRlc[d] stands for
  last,      \* last[d]: the newest telegram published, -1 when none
  lastTx,    \* lastTx[d]: the newest outbound code transmitted, -1 when none
  rolled,    \* the devices whose outbound code has wrapped to 0
  missed,    \* the devices whose codes the latest attempt to store did not store
  lost,      \* the devices that were in missed at a restart
  replayed,  \* the devices of which a telegram no newer than last[d] was published
  reused     \* the devices to which a code no newer than lastTx[d] was transmitted

history == <<idx, rowIdx, last, lastTx, rolled, missed, lost, replayed, reused>>
vars == <<mode, sent, air, rlc, rlcSnd, rows, rowRlc, rowSnd, step, job, queue, synced, restarts,
          idx, rowIdx, last, lastTx, rolled, missed, lost, replayed, reused>>

Code == 0 .. Width - 1

\* mutant: a code that is never reduced to its width
WrapNever(n) == n

\* _wrap_rlc: a code is kept modulo its width, so it wraps to 0 and never overflows.
Wrap(n) == n % Width

SomeDevice == CHOOSE d \in Device : TRUE
Idle == [op |-> "idle", dev |-> SomeDevice, n |-> 0]
NoJob == [op |-> "none", dev |-> SomeDevice, n |-> 0]

TypeOK ==
  /\ mode \in [Device -> {"implicit", "explicit"}]
  /\ sent \in [Device -> Nat]
  /\ air \in [Device -> SUBSET Nat]
  /\ rlc \in [Device -> Code]
  /\ rlcSnd \in [Device -> Code]
  /\ rows \subseteq Device
  /\ rowRlc \in [Device -> Code \cup {Unset}]
  /\ rowSnd \in [Device -> Code \cup {Unset}]
  /\ step \in [op : {"idle", "receive", "transmit", "teach"}, dev : Device, n : Nat]
  /\ job \in [op : {"none", "publish"}, dev : Device, n : Nat]
  /\ queue \in [Device -> Seq(Nat)]
  /\ synced \subseteq Device
  /\ restarts \in Nat
  /\ idx \in [Device -> Nat] /\ rowIdx \in [Device -> Nat]
  /\ last \in [Device -> Int] /\ lastTx \in [Device -> Int]
  /\ rolled \subseteq Device /\ missed \subseteq Device /\ lost \subseteq Device
  /\ replayed \subseteq Device /\ reused \subseteq Device
-----------------------------------------------------------------------------
(* Codes are counted from the one the device's YAML entry starts with.  A  *)
(* row found at the first start has no codes yet.                          *)
Init ==
  /\ mode \in [Device -> {"implicit", "explicit"}]
  /\ sent = [d \in Device |-> 0]
  /\ air = [d \in Device |-> {}]
  /\ rlc = [d \in Device |-> 0]
  /\ rlcSnd = [d \in Device |-> 0]
  /\ rows \in SUBSET Device
  /\ rowRlc = [d \in Device |-> Unset]
  /\ rowSnd = [d \in Device |-> Unset]
  /\ step = Idle
  /\ job = NoJob
  /\ queue = [d \in Device |-> <<>>]
  /\ synced = {}
  /\ restarts = 0
  /\ idx = [d \in Device |-> 0] /\ rowIdx = [d \in Device |-> 0]
  /\ last = [d \in Device |-> -1] /\ lastTx = [d \in Device |-> -1]
  /\ rolled = {} /\ missed = {} /\ lost = {} /\ replayed = {} /\ reused = {}
-----------------------------------------------------------------------------
(* The radio: a telegram may be lost, delayed, reordered and delivered     *)
(* several times (subtelegrams, repeaters).                                *)

DeviceSends(d) ==
  /\ sent[d] < MaxSent
  /\ \A n \in air[d] : sent[d] - n < Horizon
  /\ sent' = [sent EXCEPT ![d] = @ + 1]
  /\ air' = [air EXCEPT ![d] = @ \cup {sent[d]}]
  /\ UNCHANGED <<mode, rlc, rlcSnd, rows, rowRlc, rowSnd, step, job, queue, synced, restarts, history>>

Fade(d, n) ==
  /\ n \in air[d]
  /\ air' = [air EXCEPT ![d] = @ \ {n}]
  /\ UNCHANGED <<mode, sent, rlc, rlcSnd, rows, rowRlc, rowSnd, step, job, queue, synced, restarts, history>>
-----------------------------------------------------------------------------
(* Receiving                                                               *)

\* mutant: range(rlc, rlc + window), which leaves out the last code of the window
AuthenticatesShort(d, n) ==
  \/ mode[d] = "explicit" /\ Wrap(n) >= rlc[d]
  \/ mode[d] = "implicit" /\ \E i \in 0 .. Window - 1 : Wrap(rlc[d] + i) = Wrap(n)

\* decrypt_telegram: a transmitted code is tried once if it is not below the expected
\* one; an implicit code is searched from the expected one to Window beyond it.
Authenticates(d, n) ==
  \/ /\ mode[d] = "explicit"
     /\ Wrap(n) >= rlc[d]
  \/ /\ mode[d] = "implicit"
     /\ \E i \in 0 .. Window : Wrap(rlc[d] + i) = Wrap(n)

\* _decrypt_secure_packet: the code in memory moves past the accepted one.  A telegram
\* that does not authenticate is dropped and changes nothing.
Decrypt(d, n) ==
  /\ step = Idle /\ job = NoJob
  /\ n \in air[d]
  /\ Authenticates(d, n)
  /\ rlc' = [rlc EXCEPT ![d] = Wrap(n + 1)]
  /\ idx' = [idx EXCEPT ![d] = n + 1]
  /\ step' = [op |-> "receive", dev |-> d, n |-> n]
  /\ UNCHANGED <<mode, sent, air, rlcSnd, rows, rowRlc, rowSnd, job, queue, synced, restarts,
                 rowIdx, last, lastTx, rolled, missed, lost, replayed, reused>>

\* _process_radio_packet after decryption: the inner telegram is published.
Publish ==
  /\ step = Idle /\ job # NoJob
  /\ job' = NoJob
  /\ last' = [last EXCEPT ![job.dev] = IF job.n > @ THEN job.n ELSE @]
  /\ replayed' = IF job.n <= last[job.dev] THEN replayed \cup {job.dev} ELSE replayed
  /\ UNCHANGED <<mode, sent, air, rlc, rlcSnd, rows, rowRlc, rowSnd, step, queue, synced, restarts,
                 idx, rowIdx, lastTx, rolled, missed, lost, reused>>

\* The broker connection fails under the publish: the telegram is gone.
PublishFails ==
  /\ step = Idle /\ job # NoJob
  /\ job' = NoJob
  /\ UNCHANGED <<mode, sent, air, rlc, rlcSnd, rows, rowRlc, rowSnd, step, queue, synced, restarts, history>>
-----------------------------------------------------------------------------
(* Transmitting                                                            *)

\* _wrap_secure: the telegram takes the current outbound code, memory the next one.
WrapSecure(d) ==
  /\ step = Idle
  /\ Len(queue[d]) < MaxQueue
  /\ rlcSnd' = [rlcSnd EXCEPT ![d] = Wrap(@ + 1)]
  /\ rolled' = IF rlcSnd[d] = Width - 1 THEN rolled \cup {d} ELSE rolled
  /\ step' = [op |-> "transmit", dev |-> d, n |-> rlcSnd[d]]
  /\ UNCHANGED <<mode, sent, air, rlc, rows, rowRlc, rowSnd, job, queue, synced, restarts,
                 idx, rowIdx, last, lastTx, missed, lost, replayed, reused>>

\* The send lock is fair: the telegrams of a device leave in the order they were made.
Transmit(d) ==
  /\ step = Idle
  /\ queue[d] # <<>>
  /\ queue' = [queue EXCEPT ![d] = Tail(@)]
  /\ lastTx' = [lastTx EXCEPT ![d] = IF Head(queue[d]) > @ THEN Head(queue[d]) ELSE @]
  /\ reused' = IF Head(queue[d]) <= lastTx[d] THEN reused \cup {d} ELSE reused
  /\ UNCHANGED <<mode, sent, air, rlc, rlcSnd, rows, rowRlc, rowSnd, step, job, synced, restarts,
                 idx, rowIdx, last, rolled, missed, lost, replayed>>

\* The link fails under the send, or the task that waits for the lock is cancelled.
TransmitFails(d) ==
  /\ step = Idle
  /\ queue[d] # <<>>
  /\ queue' = [queue EXCEPT ![d] = Tail(@)]
  /\ UNCHANGED <<mode, sent, air, rlc, rlcSnd, rows, rowRlc, rowSnd, step, job, synced, restarts, history>>
-----------------------------------------------------------------------------
(* Teaching in again: on_secure_teach_in on a device that is already known *)
(* takes over the code the device announces.                               *)
SecureTeachIn(d) ==
  /\ step = Idle /\ job = NoJob
  /\ rlc' = [rlc EXCEPT ![d] = Wrap(sent[d])]
  /\ idx' = [idx EXCEPT ![d] = sent[d]]
  /\ step' = [op |-> "teach", dev |-> d, n |-> 0]
  /\ UNCHANGED <<mode, sent, air, rlcSnd, rows, rowRlc, rowSnd, job, queue, synced, restarts,
                 rowIdx, last, lastTx, rolled, missed, lost, replayed, reused>>
-----------------------------------------------------------------------------
(* The store.  Every advance is written before anything else happens with  *)
(* the telegram: set_rlc updates both codes of the device's row, does      *)
(* nothing when there is none, and an exception of it is logged.           *)

\* What the caller does when the write is over, however it went.
AfterPersist ==
  /\ step' = Idle
  /\ job' = IF step.op = "receive" THEN [op |-> "publish", dev |-> step.dev, n |-> step.n]
                                   ELSE job
  /\ queue' = IF step.op = "transmit" THEN [queue EXCEPT ![step.dev] = Append(@, step.n)]
                                      ELSE queue

\* mutant: set_rlc that writes the inbound code only
PersistRowInbound ==
  /\ step # Idle
  /\ step.dev \in rows
  /\ rowRlc' = [rowRlc EXCEPT ![step.dev] = rlc[step.dev]]
  /\ rowIdx' = [rowIdx EXCEPT ![step.dev] = idx[step.dev]]
  /\ missed' = missed \ {step.dev}
  /\ AfterPersist
  /\ UNCHANGED <<mode, sent, air, rlc, rlcSnd, rows, rowSnd, synced, restarts,
                 idx, last, lastTx, rolled, lost, replayed, reused>>

\* set_rlc, the row found
PersistRow ==
  /\ step # Idle
  /\ step.dev \in rows
  /\ rowRlc' = [rowRlc EXCEPT ![step.dev] = rlc[step.dev]]
  /\ rowSnd' = [rowSnd EXCEPT ![step.dev] = rlcSnd[step.dev]]
  /\ rowIdx' = [rowIdx EXCEPT ![step.dev] = idx[step.dev]]
  /\ missed' = missed \ {step.dev}
  /\ AfterPersist
  /\ UNCHANGED <<mode, sent, air, rlc, rlcSnd, rows, synced, restarts,
                 idx, last, lastTx, rolled, lost, replayed, reused>>

\* set_rlc without a row, or raising: memory is ahead of the store
PersistMissed ==
  /\ step # Idle
  /\ step.dev \notin rows \/ StoreFails
  /\ missed' = missed \cup {step.dev}
  /\ AfterPersist
  /\ UNCHANGED <<mode, sent, air, rlc, rlcSnd, rows, rowRlc, rowSnd, synced, restarts,
                 idx, rowIdx, last, lastTx, rolled, lost, replayed, reused>>

\* mutant: an upsert that replaces the row instead of merging onto it
DiscoverReplaces(d) ==
  /\ step = Idle
  /\ d \notin synced
  /\ synced' = synced \cup {d}
  /\ rows' = rows \cup {d}
  /\ rowRlc' = [rowRlc EXCEPT ![d] = Unset]
  /\ rowSnd' = [rowSnd EXCEPT ![d] = Unset]
  /\ UNCHANGED <<mode, sent, air, rlc, rlcSnd, step, job, queue, restarts, history>>

\* db_upsert_device, once per process and device, when the first broker session runs
\* discovery: it merges onto the row, so the codes of an existing row stay.
Discover(d) ==
  /\ step = Idle
  /\ d \notin synced
  /\ synced' = synced \cup {d}
  /\ rows' = rows \cup {d}
  /\ UNCHANGED <<mode, sent, air, rlc, rlcSnd, rowRlc, rowSnd, step, job, queue, restarts, history>>

\* db_remove_device_by_field: the user clears the device's discovery topic.
Delete(d) ==
  /\ step = Idle
  /\ d \in synced /\ d \in rows
  /\ rows' = rows \ {d}
  /\ rowRlc' = [rowRlc EXCEPT ![d] = Unset]
  /\ rowSnd' = [rowSnd EXCEPT ![d] = Unset]
  /\ missed' = missed \cup {d}
  /\ UNCHANGED <<mode, sent, air, rlc, rlcSnd, step, job, queue, synced, restarts,
                 idx, rowIdx, last, lastTx, rolled, lost, replayed, reused>>

\* _load_secure_rlc: what a start makes of a code in the row
Loaded(code) == IF code = Unset THEN 0 ELSE code

\* The process ends anywhere, also between an advance and its write, and starts again.
Restart ==
  /\ restarts < MaxRestarts
  /\ restarts' = restarts + 1
  /\ rlc' = [d \in Device |-> Loaded(rowRlc[d])]
  /\ rlcSnd' = [d \in Device |-> Loaded(rowSnd[d])]
  /\ idx' = [d \in Device |-> IF rowRlc[d] = Unset THEN 0 ELSE rowIdx[d]]
  /\ step' = Idle
  /\ job' = NoJob
  /\ queue' = [d \in Device |-> <<>>]
  /\ synced' = {}
  /\ lost' = lost \cup missed
  /\ UNCHANGED <<mode, sent, air, rows, rowRlc, rowSnd, rowIdx, last, lastTx, rolled, missed,
                 replayed, reused>>
-----------------------------------------------------------------------------
Next ==
  \/ \E d \in Device :
       \/ DeviceSends(d)
       \/ \E n \in air[d] : Fade(d, n) \/ Decrypt(d, n)
       \/ WrapSecure(d) \/ Transmit(d) \/ TransmitFails(d)
       \/ SecureTeachIn(d)
       \/ Discover(d) \/ Delete(d)
  \/ Publish \/ PublishFails
  \/ PersistRow \/ PersistMissed
  \/ Restart

Spec == Init /\ [][Next]_vars
-----------------------------------------------------------------------------
(* No telegram is published twice, or after a newer one of its device, no  *)
(* matter how copies are delayed and where the process dies - unless a     *)
(* restart found the store behind because a write of the code had found no *)
(* row or failed, or the code of an explicit device has rolled over.       *)
AtMostOnce ==
  \A d \in Device :
    d \in replayed => d \in lost \/ (mode[d] = "explicit" /\ sent[d] >= Width)

(* No outbound code is transmitted twice, or after a newer one, under the  *)
(* same provisos: each is stored as used before its telegram is queued.    *)
OutboundFresh ==
  \A d \in Device : d \in reused => d \in lost \/ d \in rolled

(* A secure device is never locked out: between two steps of the daemon    *)
(* the next telegram it will send authenticates, also across roll-over and *)
(* restart, as long as it is within Window of the last published one.  An  *)
(* explicit device may skip any number of telegrams before it rolls over.  *)
NextAccepted ==
  \A d \in Device :
    step = Idle =>
      \/ Authenticates(d, sent[d])
      \/ mode[d] = "implicit" /\ (d \in lost \/ sent[d] - last[d] - 1 > Window)
      \/ mode[d] = "explicit" /\ sent[d] >= Width

(* README.md:44, "replay protection that survives restarts": whenever the  *)
(* daemon is between two steps, a restart would find the codes in use.     *)
CodesDurable ==
  \A d \in Device :
    step = Idle => /\ Loaded(rowRlc[d]) = rlc[d]
                   /\ Loaded(rowSnd[d]) = rlcSnd[d]
=============================================================================
