-------------------------- MODULE ProvisioningProofs --------------------------
(***************************************************************************)
(* Theorems about Provisioning, for any devices, mappings, earlier runs    *)
(* and any number of teach-ins and faults.  They rest on one another:      *)
(*                                                                         *)
(*   SyncInv   nothing is learned while the synchronisation runs;          *)
(*   Base      with it the types, and that neither list has a device       *)
(*             twice, what loading makes of it included;                   *)
(*   KeyInv    with Base: what is left of a teach-in on the air;           *)
(*   HeardInv  with Base: how far the request topics are subscribed to;    *)
(*   Repair    with Base: how far the synchronisation has come with its    *)
(*             discoveries and with the rows it prunes;                    *)
(*   Enrolled  with Base: what an announcement rests on, for the           *)
(*             refinement of Registry.                                     *)
(*                                                                         *)
(* The lemmas WritersOf... say once which actions may change a variable;   *)
(* a proof that a step keeps an invariant splits on those alone.           *)
(***************************************************************************)
EXTENDS Provisioning, ChainProofs, FiniteSetTheorems, TLAPS

\* Nothing is learned before the first connection is made: the LEARN switch is offered at the
\* end of its synchronisation, and a process that ends takes it along.
SyncInv ==
  /\ ~up => m.pc = "away" /\ e.pc = "idle" /\ ~learn
  /\ m.pc \in {"discover", "subscribe", "prune"} => first
  /\ m.pc = "serving" => ~first
  /\ learn \/ e.pc # "idle" => ~first

LEMMA SyncInvSuffices == SyncInv => SyncUndisturbed
  BY DEF SyncInv, SyncUndisturbed

LEMMA Starts == AwayM.pc = "away" /\ IdleE.pc = "idle"
  BY DEF AwayM, IdleE

LEMMA SyncInit == Init => SyncInv
  BY Starts DEF Init, SyncInv

LEMMA SyncKept == SyncInv /\ UNCHANGED <<up, m, e, learn, first>> => SyncInv'
  BY DEF SyncInv

\* The transceiver task works only when it has met a device, or LEARN is on.
LEMMA Working ==
  ASSUME SyncInv, learn \/ e.pc # "idle", UNCHANGED <<up, m, learn, first>>
  PROVE  SyncInv'
  BY DEF SyncInv

LEMMA SessionOverSync ==
  ASSUME SyncInv, SessionOver, \/ UNCHANGED <<up, learn, first>>
                               \/ ~up' /\ ~learn' /\ first'
  PROVE  SyncInv'
  BY Starts DEF SessionOver, SyncInv

\* From the loop over the sensors the synchronisation goes on to the next or to the pruning.
LEMMA SyncFromWhere ==
  ASSUME NEW i, NEW left, SyncFrom(i, left)
  PROVE  m'.pc \in {"discover", "prune"}
  BY DEF SyncFrom, At

LEMMA MqttTaskSync ==
  ASSUME SyncInv, MqttTask
  PROVE  SyncInv'
  <1>1. CASE SubscribeRequest
    <2>1. up /\ m'.pc = "req" /\ UNCHANGED <<up, e, learn, first>>
      BY <1>1 DEF SubscribeRequest, Subscribing, Running, At, ByM
    <2> QED
      BY <2>1 DEF SyncInv
  <1>2. CASE Requested
    <2>1. up /\ UNCHANGED <<up, e, learn, first>>
      BY <1>2 DEF Requested, Running, ByM
    <2>2. IF first THEN m'.pc \in {"discover", "prune"} ELSE m'.pc = "serving"
      BY <1>2, SyncFromWhere DEF Requested, At
    <2> QED
      BY <2>1, <2>2 DEF SyncInv
  <1>3. CASE SyncPublish
    <2>1. up /\ m.pc = "discover" /\ m'.pc \in {"discover", "subscribe"}
          /\ UNCHANGED <<up, e, learn, first>>
      BY <1>3 DEF SyncPublish, Running, At, ByM
    <2> QED
      BY <2>1 DEF SyncInv
  <1>4. CASE SyncUpsert
    <2>1. up /\ m.pc = "subscribe" /\ UNCHANGED <<up, e, learn, first>>
      BY <1>4 DEF SyncUpsert, Upserted, Running, ByM
    <2>2. m'.pc \in {"discover", "prune"}
      BY <1>4, SyncFromWhere DEF SyncUpsert, Upserted
    <2> QED
      BY <2>1, <2>2 DEF SyncInv
  <1>5. CASE Prune
    <2>1. up /\ m.pc = "prune" /\ m'.pc = "prune" /\ UNCHANGED <<up, e, learn, first>>
      BY <1>5 DEF Prune, Running, At, ByM
    <2> QED
      BY <2>1 DEF SyncInv
  <1>6. CASE System
    <2>1. up /\ m'.pc = "serving" /\ first' = FALSE /\ UNCHANGED <<up, e, learn>>
      BY <1>6 DEF System, Running, At, ByM
    <2> QED
      BY <2>1 DEF SyncInv
  <1>7. CASE \E d \in Devices : HandleDelete(d)
    BY <1>7, SyncKept DEF HandleDelete
  <1> QED
    BY <1>1, <1>2, <1>3, <1>4, <1>5, <1>6, <1>7 DEF MqttTask

LEMMA HearingSync ==
  ASSUME SyncInv, Hearing
  PROVE  SyncInv'
  <1> PICK d \in Devices : \/ HearUte(d) \/ MissHalf(d)
                           \/ \E copied \in BOOLEAN : HearHalf(d, copied) \/ HearPair(d, copied)
    BY DEF Hearing
  <1>1. CASE HearUte(d)
    BY <1>1, Working DEF HearUte, ByE
  <1>2. CASE MissHalf(d)
    BY <1>2, SyncKept DEF MissHalf, ByE, Rest
  <1>3. ASSUME NEW copied \in BOOLEAN, HearHalf(d, copied) PROVE SyncInv'
    BY <1>3, Working DEF HearHalf, ByE
  <1>4. ASSUME NEW copied \in BOOLEAN, HearPair(d, copied) PROVE SyncInv'
    BY <1>4, Working DEF HearPair, HearingPair, ByE
  <1> QED
    BY <1>1, <1>2, <1>3, <1>4

LEMMA TeachingSync ==
  ASSUME SyncInv, Teaching \/ RespondFails \/ PersistFails
  PROVE  SyncInv'
  <1>1. e.pc # "idle" /\ UNCHANGED <<up, m, learn, first>>
    BY DEF Teaching, OnTeachIn, Answered, ProvisionPublish, ProvisionUpsert, ProvisionRaises,
           Persist, Writing, Announce, RespondFails, PersistFails, ByE
  <1> QED
    BY <1>1, Working

LEMMA SyncStep == SyncInv /\ [Next]_vars => SyncInv'
<1> SUFFICES ASSUME SyncInv, [Next]_vars PROVE SyncInv'
  OBVIOUS
<1>1. CASE Start
  BY <1>1 DEF Start, Starting, SyncInv
<1>2. CASE Crash
  BY <1>2, SessionOverSync DEF Crash
<1>3. CASE Connect
  <2>1. up /\ m'.pc = "req" /\ UNCHANGED <<up, e, learn, first>>
    BY <1>3 DEF Connect, AwayM
  <2> QED
    BY <2>1 DEF SyncInv
<1>4. CASE Break
  BY <1>4, SyncKept DEF Break
<1>5. CASE Lost
  BY <1>5, SessionOverSync DEF Lost
<1>6. CASE MqttTask
  BY <1>6, MqttTaskSync
<1>7. CASE LearnOn
  BY <1>7 DEF LearnOn, Running, SyncInv
<1>8. CASE LearnOff
  BY <1>8 DEF LearnOff, SyncInv
<1>9. CASE Hearing
  BY <1>9, HearingSync
<1>10. CASE RespondFails \/ Teaching \/ PersistFails
  BY <1>10, TeachingSync
<1>11. CASE \E d \in Devices :
              AddEntry(d) \/ RemoveEntry(d) \/ DeleteConfigs(d) \/ SendSecureTeachIn(d)
  <2>1. UNCHANGED <<up, m, e, learn, first>>
    BY <1>11 DEF AddEntry, RemoveEntry, DeleteConfigs, SendSecureTeachIn, Outside
  <2> QED
    BY <2>1, SyncKept
<1>12. CASE UNCHANGED vars
  BY <1>12, SyncKept DEF vars
<1> QED
  BY <1>1, <1>2, <1>3, <1>4, <1>5, <1>6, <1>7, <1>8, <1>9, <1>10, <1>11, <1>12 DEF Next

\* For every set of devices, every list and every number of faults, no device is learned while
\* the synchronisation runs: its list of sensors does not change under it.
THEOREM SyncNeverDisturbed == Spec => []SyncUndisturbed
  BY SyncInit, SyncStep, SyncInvSuffices, PTL DEF Spec
-----------------------------------------------------------------------------
(* Sets as sequences.                                                      *)

\* A finite set is listed without repetition and without omission.
LEMMA SetListed ==
  ASSUME NEW S, IsFiniteSet(S)
  PROVE  /\ Cardinality(S) \in Nat /\ SetToSeq(S) \in Seq(S) /\ Len(SetToSeq(S)) = Cardinality(S)
         /\ \A i, j \in 1 .. Cardinality(S) : SetToSeq(S)[i] = SetToSeq(S)[j] => i = j
         /\ \A x \in S : \E i \in 1 .. Cardinality(S) : SetToSeq(S)[i] = x
  <1> DEFINE N == Cardinality(S)
             f == SetToSeq(S)
  <1>1. N \in Nat /\ ExistsBijection(1 .. N, S)
    BY FS_CardinalityType
  <1>2. PICK g \in Bijection(1 .. N, S) : TRUE
    BY <1>1 DEF ExistsBijection
  <1>3. g \in [1 .. N -> S] /\ IsInjective(g)
    BY <1>2 DEF Bijection, Injection, IsInjective
  <1>4. f \in [1 .. N -> S] /\ IsInjective(f)
    BY <1>3 DEF SetToSeq
  <1>5. f \in Injection(1 .. N, S)
    BY <1>4 DEF Injection
  <1>6. IsFiniteSet(1 .. N) /\ Cardinality(1 .. N) = N
    BY <1>1, FS_Interval
  <1>7. f \in Surjection(1 .. N, S)
    BY <1>5, <1>6, FS_Injection
  <1> HIDE DEF f, N
  <1>8. f \in Seq(S) /\ Len(f) = N
    BY <1>1, <1>4
  <1>9. \A i, j \in 1 .. N : f[i] = f[j] => i = j
    BY <1>4 DEF IsInjective
  <1>10. \A x \in S : \E i \in 1 .. N : f[i] = x
    BY <1>7 DEF Surjection
  <1> QED
    BY <1>1, <1>8, <1>9, <1>10 DEF f, N

\* What a sequence has is finite.
LEMMA SeqFinite ==
  ASSUME NEW T, NEW s \in Seq(T)
  PROVE  IsFiniteSet(ToSet(s))
  <1>1. DOMAIN s = 1 .. Len(s) /\ Len(s) \in Nat /\ s \in [1 .. Len(s) -> ToSet(s)]
    BY DEF ToSet
  <1>2. s \in Surjection(1 .. Len(s), ToSet(s))
    BY <1>1 DEF Surjection, ToSet
  <1> QED
    BY <1>1, <1>2, FS_Interval, FS_Surjection

LEMMA TopicsFinite ==
  /\ IsFiniteSet(Topics) /\ Len(Mapping) \in Nat \ {0}
  /\ \A v \in Versions : /\ Mapping[v] \in Seq(Topics) /\ Mapping[v] # <<>> /\ ToSet(Mapping[v]) \subseteq Topics
  <1>1. /\ Len(Mapping) \in Nat \ {0}
        /\ \A v \in Versions : Mapping[v] \in Seq(Topics) /\ Mapping[v] # <<>>
    BY ProvisioningAssumption, EmptySeq, ElementOfSeq DEF Versions
  <1> DEFINE all == {ToSet(Mapping[v]) : v \in Versions}
             f == [v \in Versions |-> ToSet(Mapping[v])]
  <1>2. f \in Surjection(Versions, all)
    BY DEF Surjection
  <1>3. IsFiniteSet(Versions)
    BY <1>1, FS_Interval DEF Versions
  <1>4. IsFiniteSet(all)
    <2> HIDE DEF all, f
    <2> QED
      BY <1>2, <1>3, FS_Surjection
  <1>5. \A t \in all : IsFiniteSet(t)
    BY <1>1, SeqFinite
  <1>6. IsFiniteSet(UNION all)
    <2> HIDE DEF all
    <2> QED
      BY <1>4, <1>5, FS_UNION
  <1>7. \A v \in Versions : ToSet(Mapping[v]) \subseteq Topics
    BY DEF Topics
  <1> QED
    BY <1>1, <1>6, <1>7 DEF Topics
-----------------------------------------------------------------------------
(* Types.                                                                  *)

Publishing == {"clear", "config"} \X Devices \X Topics
Removing == {"remove"} \X Devices
Halves == [attempt : Nat, idx : {0, 1}]

\* What the tasks have in hand
TaskInv ==
  /\ m \in [pc : {"away", "req", "discover", "subscribe", "prune", "serving"},
            at : Nat \ {0}, work : Seq(Publishing \cup Removing)]
  /\ m.pc \in {"discover", "subscribe"} => m.at <= Len(sensors)
  /\ m.pc = "discover" => m.work # <<>>
  /\ m.pc \in {"discover", "subscribe"} => m.work \in Seq(Publishing)
  /\ e \in [pc : {"idle", "respond", "discover", "subscribe", "persist", "announce"},
            dev : Devices \cup {Nobody}, key : Keys, work : Seq(Publishing)]
  /\ e.pc # "idle" => e.dev \in Devices
  /\ e.pc = "discover" => e.work # <<>>
  /\ attempt \in [Devices -> Nat] /\ air \in [Devices -> Seq(Halves)]
  /\ ~up => e.pc = "idle" /\ sensors = <<>> /\ halves = NoHalves

Types == TypeOK /\ TaskInv

\* The configs that are cleared and those that are published
LEMMA ClearType ==
  ASSUME NEW d \in Devices, NEW topics \in SUBSET Topics
  PROVE  /\ Clear(d, topics) \in Seq(Publishing)
         /\ \A op : Has(Clear(d, topics), op) <=> \E t \in topics : op = <<"clear", d, t>>
  <1>1. IsFiniteSet(topics)
    BY TopicsFinite, FS_Subset
  <1> DEFINE n == Cardinality(topics)
             s == SetToSeq(topics)
  <1>2. /\ n \in Nat /\ s \in Seq(topics) /\ Len(s) = n
        /\ \A x \in topics : \E i \in 1 .. n : s[i] = x
    BY <1>1, SetListed
  <1>3. Clear(d, topics) = [i \in 1 .. n |-> <<"clear", d, s[i]>>]
    BY DEF Clear
  <1> HIDE DEF n, s
  <1>4. \A i \in 1 .. n : s[i] \in topics
    BY <1>2, ElementOfSeq
  <1>5. \A i \in 1 .. n : <<"clear", d, s[i]>> \in Publishing
    BY <1>4 DEF Publishing
  <1>6. Clear(d, topics) \in Seq(Publishing) /\ Len(Clear(d, topics)) = n
        /\ \A i \in 1 .. n : Clear(d, topics)[i] = <<"clear", d, s[i]>>
    BY <1>2, <1>3, <1>5
  <1>7. \A op : Has(Clear(d, topics), op) <=> \E t \in topics : op = <<"clear", d, t>>
    <2>1. ASSUME NEW op, Has(Clear(d, topics), op) PROVE \E t \in topics : op = <<"clear", d, t>>
      BY <1>4, <1>6, <2>1 DEF Has
    <2>2. ASSUME NEW op, NEW t \in topics, op = <<"clear", d, t>> PROVE Has(Clear(d, topics), op)
      BY <1>2, <1>6, <2>2 DEF Has
    <2> QED
      BY <2>1, <2>2
  <1> QED
    BY <1>6, <1>7

LEMMA ConfigType ==
  ASSUME TypeOK, NEW d \in Devices
  PROVE  /\ Current \subseteq Topics
         /\ Config(d) \in Seq(Publishing) /\ Config(d) # <<>>
         /\ \A op : Has(Config(d), op) <=> \E t \in Current : op = <<"config", d, t>>
  <1> DEFINE topics == Mapping[version]
  <1>1. version \in Versions
    BY DEF TypeOK
  <1>2. /\ topics \in Seq(Topics) /\ topics # <<>> /\ Current = ToSet(topics) /\ Current \subseteq Topics
    BY <1>1, TopicsFinite DEF Current
  <1>3. Config(d) = [i \in DOMAIN topics |-> <<"config", d, topics[i]>>]
    BY DEF Config
  <1> HIDE DEF topics
  <1>4. DOMAIN topics = 1 .. Len(topics) /\ Len(topics) \in Nat \ {0}
        /\ \A i \in 1 .. Len(topics) : topics[i] \in Topics /\ topics[i] \in Current
    BY <1>2, EmptySeq, ElementOfSeq DEF ToSet
  <1>5. /\ Config(d) \in Seq(Publishing) /\ Len(Config(d)) = Len(topics) /\ Config(d) # <<>>
        /\ \A i \in 1 .. Len(topics) : Config(d)[i] = <<"config", d, topics[i]>>
    <2>1. \A i \in 1 .. Len(topics) : <<"config", d, topics[i]>> \in Publishing
      BY <1>4 DEF Publishing
    <2>2. Config(d) \in Seq(Publishing) /\ Len(Config(d)) = Len(topics)
      BY <1>3, <1>4, <2>1
    <2> QED
      BY <1>3, <1>4, <2>2, EmptySeq
  <1>6. \A op : Has(Config(d), op) <=> \E t \in Current : op = <<"config", d, t>>
    <2>1. ASSUME NEW op, Has(Config(d), op) PROVE \E t \in Current : op = <<"config", d, t>>
      BY <1>4, <1>5, <2>1 DEF Has
    <2>2. ASSUME NEW op, NEW t \in Current, op = <<"config", d, t>> PROVE Has(Config(d), op)
      BY <1>2, <1>4, <1>5, <2>2 DEF Has, ToSet
    <2> QED
      BY <2>1, <2>2
  <1> QED
    BY <1>2, <1>5, <1>6

\* A discovery clears the configs of the row that the mapping has not, and publishes its own.
LEMMA DiscoveryType ==
  ASSUME TypeOK, NEW d \in Devices
  PROVE  /\ Discovery(d) \in Seq(Publishing) /\ Discovery(d) # <<>>
         /\ \A op : Has(Discovery(d), op) <=> \/ \E t \in rows[d] \ Current : op = <<"clear", d, t>>
                                              \/ \E t \in Current : op = <<"config", d, t>>
  <1>1. rows[d] \ Current \in SUBSET Topics
    BY DEF TypeOK
  <1> DEFINE old == Clear(d, rows[d] \ Current)
             new == Config(d)
  <1>2. /\ old \in Seq(Publishing) /\ new \in Seq(Publishing) /\ new # <<>>
        /\ \A op : Has(old, op) <=> \E t \in rows[d] \ Current : op = <<"clear", d, t>>
        /\ \A op : Has(new, op) <=> \E t \in Current : op = <<"config", d, t>>
    BY <1>1, ClearType, ConfigType
  <1>3. Discovery(d) = old \o new
    BY DEF Discovery
  <1> HIDE DEF old, new
  <1>4. (old \o new) \in Seq(Publishing) /\ old \o new # <<>>
    BY <1>2, ConcatProperties, EmptySeq
  <1>5. \A op : Has(old \o new, op) <=> Has(old, op) \/ Has(new, op)
    BY <1>2, HasConcat
  <1> QED
    BY <1>2, <1>3, <1>4, <1>5

\* Before a row is removed its configs are cleared.
ClearedFirst(work) ==
  \A k \in 1 .. Len(work), d \in Devices : work[k] = <<"remove", d>> =>
    \A t \in rows[d] : \E j \in 1 .. k - 1 : work[j] = <<"clear", d, t>>

LEMMA PruningType ==
  ASSUME TypeOK, NEW d \in Devices
  PROVE  /\ Pruning(d) \in Seq(Publishing \cup Removing) /\ ClearedFirst(Pruning(d))
         /\ \A op : Has(Pruning(d), op) <=> op = <<"remove", d>> \/ \E t \in rows[d] : op = <<"clear", d, t>>
  <1> DEFINE T == Publishing \cup Removing
             clears == Clear(d, rows[d])
             last == <<"remove", d>>
             works == Pruning(d)
  <1>1. rows[d] \in SUBSET Topics
    BY DEF TypeOK
  <1>2. /\ clears \in Seq(Publishing)
        /\ \A op : Has(clears, op) <=> \E t \in rows[d] : op = <<"clear", d, t>>
    BY <1>1, ClearType
  <1>3. last \in T /\ \A b \in Devices : last = <<"remove", b>> => b = d
    BY DEF Removing
  <1>4. works = clears \o <<last>>
    BY DEF Pruning
  <1>5. \A t \in rows[d], b \in Devices : <<"clear", d, t>> # <<"remove", b>>
    OBVIOUS
  <1> HIDE DEF clears, last, works
  <1>6. clears \in Seq(T)
    BY <1>2
  <1>7. works = Append(clears, last)
    BY <1>3, <1>4, <1>6, AppendIsConcat
  <1>8. /\ works \in Seq(T) /\ Len(clears) \in Nat /\ Len(works) = Len(clears) + 1 /\ works[Len(clears) + 1] = last
        /\ \A i \in 1 .. Len(clears) : works[i] = clears[i]
    BY <1>3, <1>6, <1>7, AppendProperties
  <1>9. \A op : Has(works, op) <=> op = last \/ Has(clears, op)
    BY <1>8 DEF Has
  <1>10. ClearedFirst(works)
    <2>1. SUFFICES ASSUME NEW k \in 1 .. Len(works), NEW b \in Devices, works[k] = <<"remove", b>>,
                          NEW t \in rows[b]
                   PROVE  \E j \in 1 .. k - 1 : works[j] = <<"clear", b, t>>
      BY DEF ClearedFirst
    <2>2. k = Len(clears) + 1
      <3>1. CASE k \in 1 .. Len(clears)
        <4>1. Has(clears, works[k])
          BY <1>8, <3>1 DEF Has
        <4> QED
          BY <1>2, <1>5, <2>1, <4>1
      <3> QED
        BY <1>8, <3>1
    <2>3. b = d
      BY <1>3, <1>8, <2>1, <2>2
    <2>4. PICK j \in 1 .. Len(clears) : clears[j] = <<"clear", d, t>>
      BY <1>2, <2>1, <2>3 DEF Has
    <2>5. j \in 1 .. k - 1 /\ works[j] = clears[j]
      BY <1>8, <2>2
    <2> QED
      BY <2>3, <2>4, <2>5
  <1> QED
    BY <1>2, <1>8, <1>9, <1>10 DEF works, last

LEMMA PruneAllType ==
  ASSUME TypeOK, NEW left \in SUBSET Devices
  PROVE  /\ PruneAll(left) \in Seq(Publishing \cup Removing) /\ ClearedFirst(PruneAll(left))
         /\ \A op : Has(PruneAll(left), op) <=>
              \E d \in left : op = <<"remove", d>> \/ \E t \in rows[d] : op = <<"clear", d, t>>
  <1> DEFINE T == Publishing \cup Removing
             G == {w \in Seq(T) : ClearedFirst(w)}
             n == Cardinality(left)
             s == SetToSeq(left)
             parts == [i \in 1 .. n |-> Pruning(s[i])]
  <1>1. IsFiniteSet(left)
    BY ProvisioningAssumption, FS_Subset
  <1>2. /\ n \in Nat /\ s \in Seq(left) /\ Len(s) = n
        /\ \A x \in left : \E i \in 1 .. n : s[i] = x
    BY <1>1, SetListed
  <1>3. PruneAll(left) = Chain(parts)
    BY DEF PruneAll
  <1> HIDE DEF n, s
  <1>4. \A i \in 1 .. n : s[i] \in left /\ s[i] \in Devices
    BY <1>2, ElementOfSeq
  <1>5. \A i \in 1 .. n : Pruning(s[i]) \in G
    BY <1>4, PruningType
  <1>6. <<>> \in G
    BY EmptySeq DEF ClearedFirst
  <1>7. ASSUME NEW a \in G, NEW b \in G PROVE a \o b \in G
    <2>1. a \in Seq(T) /\ b \in Seq(T) /\ a \o b \in Seq(T)
      BY ConcatProperties
    <2>2. /\ Len(a) \in Nat /\ Len(b) \in Nat /\ Len(a \o b) = Len(a) + Len(b)
          /\ \A i \in 1 .. Len(a) : (a \o b)[i] = a[i]
          /\ \A i \in 1 .. Len(b) : (a \o b)[Len(a) + i] = b[i]
      BY <2>1, ConcatProperties, ConcatIndex, LenProperties
    <2>3. ClearedFirst(a) /\ ClearedFirst(b)
      OBVIOUS
    <2> HIDE DEF T
    <2>4. ASSUME NEW k \in 1 .. Len(a \o b), NEW d \in Devices, (a \o b)[k] = <<"remove", d>>, NEW t \in rows[d]
          PROVE  \E j \in 1 .. k - 1 : (a \o b)[j] = <<"clear", d, t>>
      <3>1. CASE k <= Len(a)
        <4>1. k \in 1 .. Len(a)
          BY <2>2, <3>1
        <4>2. PICK j \in 1 .. k - 1 : a[j] = <<"clear", d, t>>
          BY <2>2, <2>3, <2>4, <4>1 DEF ClearedFirst
        <4>3. j \in 1 .. Len(a)
          BY <2>2, <4>1
        <4> QED
          BY <2>2, <4>2, <4>3
      <3>2. CASE k > Len(a)
        <4> DEFINE i == k - Len(a)
        <4>1. i \in 1 .. Len(b) /\ Len(a) + i = k
          BY <2>2, <3>2
        <4> HIDE DEF i
        <4>2. PICK j \in 1 .. i - 1 : b[j] = <<"clear", d, t>>
          BY <2>2, <2>3, <2>4, <4>1 DEF ClearedFirst
        <4>3. j \in 1 .. Len(b) /\ Len(a) + j \in 1 .. k - 1
          BY <2>2, <4>1
        <4>4. (a \o b)[Len(a) + j] = b[j]
          BY <2>2, <4>3
        <4>5. (a \o b)[Len(a) + j] = <<"clear", d, t>>
          BY <4>2, <4>4
        <4> QED
          BY <4>3, <4>5
      <3>3. k <= Len(a) \/ k > Len(a)
        BY <2>2
      <3> QED
        BY <3>1, <3>2, <3>3, Zenon
    <2>5. ClearedFirst(a \o b)
      BY <2>4 DEF ClearedFirst
    <2> QED
      BY <2>1, <2>5 DEF T
  <1>8. parts \in Seq(G) /\ parts \in Seq(Seq(T)) /\ Len(parts) = n /\ \A i \in 1 .. n : parts[i] = Pruning(s[i])
    <2> HIDE DEF G
    <2>1. parts \in Seq(G) /\ Len(parts) = n /\ \A i \in 1 .. n : parts[i] = Pruning(s[i])
      BY <1>2, <1>5
    <2>2. \A i \in 1 .. n : Pruning(s[i]) \in Seq(T)
      BY <1>5 DEF G
    <2>3. parts \in Seq(Seq(T))
      <3> HIDE DEF T
      <3> QED
        BY <1>2, <2>2
    <2> QED
      BY <2>1, <2>3
  <1>9. Chain(parts) \in G
    <2> HIDE DEF G, parts
    <2> QED
      BY <1>6, <1>7, <1>8, ChainClosed
  <1>10. \A op : Has(Chain(parts), op) <=> \E i \in 1 .. n : Has(Pruning(s[i]), op)
    <2>1. \A op : Has(Chain(parts), op) <=> \E i \in 1 .. Len(parts) : Has(parts[i], op)
      <3> HIDE DEF parts, T
      <3> QED
        BY <1>8, ChainMembers
    <2> QED
      BY <1>8, <2>1
  <1>11. ASSUME NEW op
         PROVE  Has(PruneAll(left), op) <=>
                  \E d \in left : op = <<"remove", d>> \/ \E t \in rows[d] : op = <<"clear", d, t>>
    <2>1. Has(PruneAll(left), op) <=> \E i \in 1 .. n : Has(Pruning(s[i]), op)
      BY <1>3, <1>10
    <2>2. \A d \in Devices : Has(Pruning(d), op) <=> op = <<"remove", d>> \/ \E t \in rows[d] : op = <<"clear", d, t>>
      BY PruningType
    <2> QED
      BY <1>2, <1>4, <2>1, <2>2
  <1> QED
    BY <1>3, <1>9, <1>11
-----------------------------------------------------------------------------
(* Loading the list.                                                       *)

\* No two entries are about the same device, no two sensors about the same part of one.
UniqueEntries(entries) ==
  \A i, j \in 1 .. Len(entries) : entries[i].dev = entries[j].dev => i = j
UniqueSensors(list) ==
  \A i, j \in 1 .. Len(list) : list[i].dev = list[j].dev /\ list[i].part = list[j].part => i = j

LEMMA UniqueEntriesRepeat ==
  ASSUME NEW entries \in Seq(Entries), UniqueEntries(entries)
  PROVE  /\ NoRepeat(entries)
         /\ \A a, b : Has(entries, a) /\ Has(entries, b) /\ a.dev = b.dev => a = b
  BY DEF UniqueEntries, NoRepeat, Has

\* What is picked from a list without two entries for a device has none either.
LEMMA OnlyUnique ==
  ASSUME NEW entries \in Seq(Entries), UniqueEntries(entries), NEW S
  PROVE  /\ Only(entries, S) \in Seq(Entries) /\ UniqueEntries(Only(entries, S))
         /\ \A a : Has(Only(entries, S), a) <=> a \in S /\ Has(entries, a)
  <1> DEFINE picked == Only(entries, S)
  <1>1. /\ picked \in Seq(Entries) /\ NoRepeat(picked)
        /\ \A a : Has(picked, a) <=> a \in S /\ Has(entries, a)
    BY UniqueEntriesRepeat, OnlyType, OnlyNoRepeat, OnlyMembers
  <1> HIDE DEF picked
  <1>2. ASSUME NEW i \in 1 .. Len(picked), NEW j \in 1 .. Len(picked), picked[i].dev = picked[j].dev
        PROVE  i = j
    <2>1. Has(picked, picked[i]) /\ Has(picked, picked[j])
      BY DEF Has
    <2>2. picked[i] = picked[j]
      BY <1>1, <1>2, <2>1, UniqueEntriesRepeat
    <2> QED
      BY <1>1, <2>2 DEF NoRepeat
  <1> QED
    BY <1>1, <1>2 DEF picked, UniqueEntries

\* The sensors made of an entry
LEMMA ExpandType ==
  ASSUME NEW entry \in Entries
  PROVE  /\ Expand(entry) \in Seq(Sensors) /\ NoRepeat(Expand(entry))
         /\ \E s : Has(Expand(entry), s)
         /\ \A s : Has(Expand(entry), s) => s \in Sensors /\ s.dev = entry.dev /\ s.key \in {NoKey, entry.key}
         /\ \A s, t : Has(Expand(entry), s) /\ Has(Expand(entry), t) /\ s.part = t.part => s = t
  <1>1. NoKey \in Keys
    BY DEF NoKey, Keys
  <1> DEFINE Of(part, key) == [dev |-> entry.dev, part |-> part, key |-> key]
  <1>2. entry.dev \in Devices /\ entry.key \in Keys
    BY DEF Entries
  <1>3. Of("a5", NoKey) \in Sensors /\ Of("f6", NoKey) \in Sensors /\ Of("eep", entry.key) \in Sensors
    BY <1>1, <1>2 DEF Sensors
  <1>4. /\ Of("a5", NoKey).dev = entry.dev /\ Of("f6", NoKey).dev = entry.dev /\ Of("eep", entry.key).dev = entry.dev
        /\ Of("a5", NoKey).key = NoKey /\ Of("f6", NoKey).key = NoKey /\ Of("eep", entry.key).key = entry.key
        /\ Of("a5", NoKey).part = "a5" /\ Of("f6", NoKey).part = "f6"
    OBVIOUS
  <1>5. Expand(entry) = IF entry \in OfModel THEN <<Of("a5", NoKey), Of("f6", NoKey)>> ELSE <<Of("eep", entry.key)>>
    BY DEF Expand
  <1> HIDE DEF Of
  <1>6. CASE entry \in OfModel
    <2> DEFINE list == <<Of("a5", NoKey), Of("f6", NoKey)>>
    <2>1. Expand(entry) = list
      BY <1>5, <1>6
    <2>2. list \in Seq(Sensors) /\ Len(list) = 2 /\ list[1] = Of("a5", NoKey) /\ list[2] = Of("f6", NoKey)
      BY <1>3
    <2> HIDE DEF list
    <2>3. \A i \in 1 .. Len(list) : i = 1 \/ i = 2
      BY <2>2
    <2>4. 1 \in 1 .. Len(list)
      BY <2>2
    <2> QED
      BY <1>3, <1>4, <2>1, <2>2, <2>3, <2>4 DEF Has, NoRepeat
  <1>7. CASE entry \notin OfModel
    <2> DEFINE list == <<Of("eep", entry.key)>>
    <2>1. Expand(entry) = list
      BY <1>5, <1>7
    <2>2. list \in Seq(Sensors) /\ Len(list) = 1 /\ list[1] = Of("eep", entry.key)
      BY <1>3
    <2> HIDE DEF list
    <2>3. \A i \in 1 .. Len(list) : i = 1
      BY <2>2
    <2>4. 1 \in 1 .. Len(list)
      BY <2>2
    <2> QED
      BY <1>3, <1>4, <2>1, <2>2, <2>3, <2>4 DEF Has, NoRepeat
  <1> QED
    BY <1>6, <1>7

LEMMA ExpandAllType ==
  ASSUME NEW entries \in Seq(Entries)
  PROVE  /\ ExpandAll(entries) \in Seq(Sensors)
         /\ \A s : Has(ExpandAll(entries), s) <=> \E a : Has(entries, a) /\ Has(Expand(a), s)
         /\ UniqueEntries(entries) => NoRepeat(ExpandAll(entries))
  <1> DEFINE parts == [i \in 1 .. Len(entries) |-> Expand(entries[i])]
  <1>1. \A i \in 1 .. Len(entries) : entries[i] \in Entries
    BY ElementOfSeq
  <1>2. /\ parts \in Seq(Seq(Sensors)) /\ Len(parts) = Len(entries)
        /\ \A i \in 1 .. Len(entries) : parts[i] = Expand(entries[i])
    <2>1. \A i \in 1 .. Len(entries) : Expand(entries[i]) \in Seq(Sensors)
      BY <1>1, ExpandType
    <2>2. Len(entries) \in Nat
      OBVIOUS
    <2> QED
      BY <2>1, <2>2
  <1>3. ExpandAll(entries) = Chain(parts)
    BY DEF ExpandAll
  <1> HIDE DEF parts
  <1>4. Chain(parts) \in Seq(Sensors)
    BY <1>2, ChainType
  <1>5. \A s : Has(Chain(parts), s) <=> \E i \in 1 .. Len(parts) : Has(parts[i], s)
    BY <1>2, ChainMembers
  <1>6. ASSUME NEW s PROVE Has(Chain(parts), s) <=> \E a : Has(entries, a) /\ Has(Expand(a), s)
    <2>1. Has(Chain(parts), s) <=> \E i \in 1 .. Len(entries) : Has(Expand(entries[i]), s)
      BY <1>2, <1>5
    <2>2. ASSUME NEW i \in 1 .. Len(entries), Has(Expand(entries[i]), s)
          PROVE  \E a : Has(entries, a) /\ Has(Expand(a), s)
      <3>1. Has(entries, entries[i])
        BY DEF Has
      <3> QED
        BY <2>2, <3>1
    <2>3. ASSUME NEW a, Has(entries, a), Has(Expand(a), s)
          PROVE  \E i \in 1 .. Len(entries) : Has(Expand(entries[i]), s)
      <3>1. PICK i \in 1 .. Len(entries) : entries[i] = a
        BY <2>3 DEF Has
      <3>2. Has(Expand(entries[i]), s)
        BY <2>3, <3>1
      <3> QED
        BY <3>2
    <2> QED
      BY <2>1, <2>2, <2>3
  <1>7. ASSUME UniqueEntries(entries) PROVE NoRepeat(Chain(parts))
    <2>1. \A i \in 1 .. Len(parts) : NoRepeat(parts[i])
      BY <1>1, <1>2, ExpandType
    <2>2. \A i, j \in 1 .. Len(parts) : \A s : Has(parts[i], s) /\ Has(parts[j], s) => i = j
      <3>1. ASSUME NEW i \in 1 .. Len(parts), NEW s, Has(parts[i], s) PROVE s.dev = entries[i].dev
        BY <1>1, <1>2, <3>1, ExpandType
      <3>2. ASSUME NEW i \in 1 .. Len(parts), NEW j \in 1 .. Len(parts), NEW s, Has(parts[i], s), Has(parts[j], s)
            PROVE  i = j
        <4>1. entries[i].dev = entries[j].dev
          BY <3>1, <3>2
        <4> QED
          BY <1>2, <1>7, <4>1 DEF UniqueEntries
      <3> QED
        BY <3>2
    <2> QED
      BY <1>2, <2>1, <2>2, ChainNoRepeat
  <1> QED
    BY <1>3, <1>4, <1>6, <1>7

\* The list is loaded whole: every entry has its sensors, and they are those of no other.
LEMMA LoadType ==
  ASSUME NEW entries \in Seq(Entries), UniqueEntries(entries)
  PROVE  /\ LoadDevices(entries) \in Seq(Sensors) /\ UniqueSensors(LoadDevices(entries))
         /\ \A s : Has(LoadDevices(entries), s) => \E a : Has(entries, a) /\ s.dev = a.dev /\ s.key \in {NoKey, a.key}
         /\ \A a : Has(entries, a) => \E s : Has(LoadDevices(entries), s) /\ s.dev = a.dev
  <1> DEFINE eeps == Only(entries, OfEep)
             models == Only(entries, OfModel)
             list == LoadDevices(entries)
  <1>1. /\ eeps \in Seq(Entries) /\ UniqueEntries(eeps)
        /\ \A a : Has(eeps, a) <=> a \in OfEep /\ Has(entries, a)
    BY OnlyUnique
  <1>2. /\ models \in Seq(Entries) /\ UniqueEntries(models)
        /\ \A a : Has(models, a) <=> a \in OfModel /\ Has(entries, a)
    BY OnlyUnique
  <1>3. list = ExpandAll(eeps) \o ExpandAll(models)
    BY DEF LoadDevices
  <1>4. \A a : Has(entries, a) => a \in Entries /\ (a \in OfEep \/ a \in OfModel) /\ ~(a \in OfEep /\ a \in OfModel)
    BY ElementOfSeq DEF Has, OfEep, OfModel
  <1> HIDE DEF eeps, models, list
  <1>5. /\ ExpandAll(eeps) \in Seq(Sensors) /\ NoRepeat(ExpandAll(eeps))
        /\ \A s : Has(ExpandAll(eeps), s) <=> \E a : Has(eeps, a) /\ Has(Expand(a), s)
    BY <1>1, ExpandAllType
  <1>6. /\ ExpandAll(models) \in Seq(Sensors) /\ NoRepeat(ExpandAll(models))
        /\ \A s : Has(ExpandAll(models), s) <=> \E a : Has(models, a) /\ Has(Expand(a), s)
    BY <1>2, ExpandAllType
  <1>7. \A s : ~(Has(ExpandAll(eeps), s) /\ Has(ExpandAll(models), s))
    <2>1. SUFFICES ASSUME NEW s, Has(ExpandAll(eeps), s), Has(ExpandAll(models), s) PROVE FALSE
      OBVIOUS
    <2>2. PICK a : Has(eeps, a) /\ Has(Expand(a), s)
      BY <1>5, <2>1
    <2>3. PICK b : Has(models, b) /\ Has(Expand(b), s)
      BY <1>6, <2>1
    <2>4. a \in Entries /\ b \in Entries /\ Has(entries, a) /\ Has(entries, b) /\ a # b
      BY <1>1, <1>2, <1>4, <2>2, <2>3
    <2>5. a.dev = b.dev
      BY <2>2, <2>3, <2>4, ExpandType
    <2> QED
      BY <2>4, <2>5, UniqueEntriesRepeat
  <1>8. list \in Seq(Sensors) /\ NoRepeat(list)
    BY <1>3, <1>5, <1>6, <1>7, ConcatNoRepeat, ConcatProperties
  <1>9. \A s : Has(list, s) <=> \E a : Has(entries, a) /\ Has(Expand(a), s)
    <2>1. \A s : Has(list, s) <=> Has(ExpandAll(eeps), s) \/ Has(ExpandAll(models), s)
      BY <1>3, <1>5, <1>6, HasConcat
    <2> QED
      BY <1>1, <1>2, <1>4, <1>5, <1>6, <2>1
  <1>10. UniqueSensors(list)
    <2>1. SUFFICES ASSUME NEW i \in 1 .. Len(list), NEW j \in 1 .. Len(list),
                          list[i].dev = list[j].dev, list[i].part = list[j].part
                   PROVE  i = j
      BY DEF UniqueSensors
    <2>2. PICK a : Has(entries, a) /\ Has(Expand(a), list[i])
      BY <1>9 DEF Has
    <2>3. PICK b : Has(entries, b) /\ Has(Expand(b), list[j])
      BY <1>9 DEF Has
    <2>4. a \in Entries /\ b \in Entries
      BY <1>4, <2>2, <2>3
    <2>5. a.dev = b.dev
      BY <2>1, <2>2, <2>3, <2>4, ExpandType
    <2>6. a = b
      BY <2>2, <2>3, <2>5, UniqueEntriesRepeat
    <2>7. list[i] = list[j]
      BY <2>1, <2>2, <2>3, <2>4, <2>6, ExpandType
    <2> QED
      BY <1>8, <2>7 DEF NoRepeat
  <1>11. \A s : Has(list, s) => \E a : Has(entries, a) /\ s.dev = a.dev /\ s.key \in {NoKey, a.key}
    BY <1>4, <1>9, ExpandType
  <1>12. \A a : Has(entries, a) => \E s : Has(list, s) /\ s.dev = a.dev
    BY <1>4, <1>9, ExpandType
  <1> QED
    BY <1>8, <1>10, <1>11, <1>12 DEF list
-----------------------------------------------------------------------------
(* The inductive invariants.                                               *)


\* The halves of the latest attempt of a device that missed none are in the air and, if it is
\* one only, kept: either nothing is under way, or both halves are, or the second.
PairInv(d) ==
  \/ air[d] = <<>> /\ halves[d] = NoHalves[d]
  \/ /\ Len(air[d]) = 2 /\ air[d][1].attempt = air[d][2].attempt /\ air[d][1].attempt # 0
     /\ air[d][1].idx = 0 /\ air[d][2].idx = 1 /\ halves[d] = NoHalves[d]
  \/ /\ Len(air[d]) = 1 /\ air[d][1].idx = 1 /\ air[d][1].attempt # 0
     /\ halves[d][0] = air[d][1].attempt /\ halves[d][1] = 0

KeyInv ==
  /\ \A d \in Devices \ dirty : PairInv(d)
  /\ \A i \in 1 .. Len(sensors) : sensors[i].key[1] = sensors[i].key[2] \/ sensors[i].dev \in dirty
  /\ \A i \in 1 .. Len(file) : file[i].key[1] = file[i].key[2] \/ file[i].dev \in dirty
  /\ e.pc # "idle" => e.key[1] = e.key[2] \/ e.dev \in dirty

\* How far the request topics are subscribed to
Heard(i) == <<"req", sensors[i].dev, sensors[i].part>> \in subs \/ sensors[i].dev \in fresh
HeardInv ==
  /\ m.pc = "req" => \A i \in 1 .. Len(sensors) : i < m.at => Heard(i)
  /\ m.pc \notin {"away", "req"} => \A i \in 1 .. Len(sensors) : Heard(i)

\* Who is told of deleted configs: only devices whose discovery is over
SubsInv ==
  /\ m.pc = "away" => subs = {} /\ inbox = {}
  /\ \A d \in Devices : <<"config", d>> \in subs => d \in KnownDevices
  /\ first /\ m.pc = "req" => \A d \in Devices : <<"config", d>> \notin subs
  /\ m.pc \in {"discover", "subscribe"} =>
       /\ ~Discovered(m.at)
       /\ \A d \in Devices : <<"config", d>> \in subs => \E j \in 1 .. m.at - 1 : sensors[j].dev = d
  /\ e.pc \in {"discover", "subscribe"} => <<"config", e.dev>> \notin subs
  /\ \A d \in inbox : d \in Devices /\ <<"config", d>> \in subs /\ retained[d] = {} /\ d \in touched

\* What the discovery of the synchronisation has still to do
SyncWork ==
  LET d == sensors[m.at].dev IN
  m.pc \in {"discover", "subscribe"} =>
    /\ \A k \in 1 .. Len(m.work) : \/ \E t \in Current : m.work[k] = <<"config", d, t>>
                                   \/ \E t \in Topics \ Current : m.work[k] = <<"clear", d, t>>
    /\ m.pc = "subscribe" => m.work = <<>>
    /\ conn = "up" =>
         \A t \in retained[d] : t \in Current \cup torn[d] \/ Has(m.work, <<"clear", d, t>>)
    /\ conn = "up" /\ d \notin touched =>
         \A t \in Current : t \in retained[d] \/ Has(m.work, <<"config", d, t>>)

\* What the discovery of a new device has still to do
TeachWork ==
  e.pc \in {"discover", "subscribe"} =>
    /\ \A k \in 1 .. Len(e.work) : \E t \in Current : e.work[k] = <<"config", e.dev, t>>
    /\ retained[e.dev] \subseteq Current \cup torn[e.dev]
    /\ e.dev \in touched

\* The store has the row of the present mapping, and the broker its configs.
Agreed(d) == d \in touched \/ (rows[d] = Current /\ Current \subseteq retained[d])

\* How far the synchronisation has come
LoopInv ==
  m.pc \in {"discover", "subscribe"} =>
    /\ \A j \in 1 .. Len(sensors) : j < m.at => Agreed(sensors[j].dev) /\ sensors[j].dev \notin leftover
    /\ \A d \in Devices \ KnownDevices : rows[d] # {} => d \in leftover

PruneInv ==
  m.pc = "prune" =>
    /\ \A d \in KnownDevices : Agreed(d)
    /\ \A k \in 1 .. Len(m.work) : \E d \in Devices \ KnownDevices :
         m.work[k] = <<"remove", d>> \/ \E t \in Topics : m.work[k] = <<"clear", d, t>>
    /\ \A d \in Devices \ KnownDevices : rows[d] # {} => Has(m.work, <<"remove", d>>)
    /\ \A k \in 1 .. Len(m.work), d \in Devices : m.work[k] = <<"remove", d>> =>
         \A t \in retained[d] \ torn[d] : \E j \in 1 .. k - 1 : m.work[j] = <<"clear", d, t>>

\* After the synchronisation
ServedInv ==
  ~first =>
    /\ \A d \in KnownDevices : Agreed(d)
    /\ \A d \in Devices \ KnownDevices : rows[d] = {}
-----------------------------------------------------------------------------
(* Who writes what.                                                        *)

LEMMA WritersOfFile ==
  ASSUME [Next]_vars
  PROVE  \/ UNCHANGED file \/ Persist
         \/ \E d \in Devices : AddEntry(d) \/ RemoveEntry(d)
  BY DEF Next, vars, durable, Start, Starting, Crash, Connect, Break, Lost, SessionOver, MqttTask, ByM, ByE,
         Rest, Outside, SubscribeRequest, Subscribing, Requested, SyncPublish, SyncUpsert, Upserted, Prune, System,
         HandleDelete, LearnOn, LearnOff, Hearing, HearUte, MissHalf, HearHalf, HearPair, HearingPair,
         RespondFails, Teaching, OnTeachIn, Answered, ProvisionPublish, ProvisionUpsert, ProvisionRaises,
         Announce, PersistFails, DeleteConfigs, SendSecureTeachIn

LEMMA WritersOfSensors ==
  ASSUME [Next]_vars
  PROVE  \/ UNCHANGED sensors \/ Start \/ Crash \/ OnTeachIn
         \/ \E d \in Devices, copied \in BOOLEAN : HearPair(d, copied)
  BY DEF Next, vars, durable, Connect, Break, Lost, SessionOver, MqttTask, ByM, ByE,
         Rest, Outside, SubscribeRequest, Subscribing, Requested, SyncPublish, SyncUpsert, Upserted, Prune, System,
         HandleDelete, LearnOn, LearnOff, Hearing, HearUte, MissHalf, HearHalf,
         RespondFails, Teaching, ProvisionPublish, ProvisionUpsert, ProvisionRaises,
         Persist, Writing, Announce, PersistFails, DeleteConfigs, SendSecureTeachIn, AddEntry, RemoveEntry
-----------------------------------------------------------------------------
(* The two lists.                                                          *)

FileOK == file \in Seq(Entries) /\ UniqueEntries(file)
SensorsOK == sensors \in Seq(Sensors) /\ UniqueSensors(sensors)

LEMMA AppendEntry ==
  ASSUME NEW entries \in Seq(Entries), UniqueEntries(entries), NEW a \in Entries,
         \A i \in 1 .. Len(entries) : entries[i].dev # a.dev
  PROVE  Append(entries, a) \in Seq(Entries) /\ UniqueEntries(Append(entries, a))
  <1> DEFINE more == Append(entries, a)
  <1>1. /\ more \in Seq(Entries) /\ Len(entries) \in Nat /\ Len(more) = Len(entries) + 1
        /\ more[Len(entries) + 1] = a /\ \A i \in 1 .. Len(entries) : more[i] = entries[i]
    BY AppendProperties
  <1> HIDE DEF more
  <1>2. \A i \in 1 .. Len(more) : i \in 1 .. Len(entries) \/ i = Len(entries) + 1
    BY <1>1
  <1>3. UniqueEntries(more)
    BY <1>1, <1>2 DEF UniqueEntries
  <1> QED
    BY <1>1, <1>3 DEF more

LEMMA AppendSensor ==
  ASSUME NEW list \in Seq(Sensors), UniqueSensors(list), NEW s \in Sensors,
         \A i \in 1 .. Len(list) : list[i].dev # s.dev
  PROVE  Append(list, s) \in Seq(Sensors) /\ UniqueSensors(Append(list, s))
  <1> DEFINE more == Append(list, s)
  <1>1. /\ more \in Seq(Sensors) /\ Len(list) \in Nat /\ Len(more) = Len(list) + 1
        /\ more[Len(list) + 1] = s /\ \A i \in 1 .. Len(list) : more[i] = list[i]
    BY AppendProperties
  <1> HIDE DEF more
  <1>2. \A i \in 1 .. Len(more) : i \in 1 .. Len(list) \/ i = Len(list) + 1
    BY <1>1
  <1>3. UniqueSensors(more)
    BY <1>1, <1>2 DEF UniqueSensors
  <1> QED
    BY <1>1, <1>3 DEF more

\* A key is attached: nothing else about the sensors changes.
LEMMA Rekeyed ==
  ASSUME NEW list \in Seq(Sensors), NEW x, NEW key \in Keys
  PROVE  LET keyed == [list EXCEPT ![x].key = key] IN
         /\ keyed \in Seq(Sensors) /\ Len(keyed) = Len(list)
         /\ \A i \in 1 .. Len(list) : /\ keyed[i].dev = list[i].dev /\ keyed[i].part = list[i].part
                                      /\ keyed[i].key = IF i = x THEN key ELSE list[i].key
  <1> DEFINE keyed == [list EXCEPT ![x].key = key]
             one == [list[x] EXCEPT !.key = key]
  <1>1. keyed = [list EXCEPT ![x] = one]
    OBVIOUS
  <1>2. \A s \in Sensors : /\ [s EXCEPT !.key = key] \in Sensors /\ [s EXCEPT !.key = key].key = key
                           /\ [s EXCEPT !.key = key].dev = s.dev /\ [s EXCEPT !.key = key].part = s.part
    BY DEF Sensors
  <1>3. \A i \in 1 .. Len(list) : list[i] \in Sensors
    BY ElementOfSeq
  <1>4. x \in 1 .. Len(list) => /\ one \in Sensors /\ one.dev = list[x].dev /\ one.part = list[x].part /\ one.key = key
    BY <1>2, <1>3
  <1> HIDE DEF one
  <1>5. /\ Len(list) \in Nat /\ DOMAIN list = 1 .. Len(list)
        /\ keyed = [i \in 1 .. Len(list) |-> IF i = x THEN one ELSE list[i]]
    BY <1>1
  <1> HIDE DEF keyed
  <1>6. \A i \in 1 .. Len(list) : (IF i = x THEN one ELSE list[i]) \in Sensors
    BY <1>3, <1>4
  <1>7. keyed \in Seq(Sensors) /\ Len(keyed) = Len(list)
        /\ \A i \in 1 .. Len(list) : keyed[i] = IF i = x THEN one ELSE list[i]
    BY <1>5, <1>6
  <1>8. \A i \in 1 .. Len(list) : /\ keyed[i].dev = list[i].dev /\ keyed[i].part = list[i].part
                                  /\ keyed[i].key = IF i = x THEN key ELSE list[i].key
    BY <1>4, <1>7
  <1> QED
    BY <1>7, <1>8 DEF keyed

LEMMA RekeyedUnique ==
  ASSUME NEW list \in Seq(Sensors), UniqueSensors(list), NEW keyed, Len(keyed) = Len(list),
         \A i \in 1 .. Len(list) : keyed[i].dev = list[i].dev /\ keyed[i].part = list[i].part
  PROVE  UniqueSensors(keyed)
  BY DEF UniqueSensors

\* The key that two halves make
LEMMA PairKey ==
  ASSUME Types, NEW d \in Devices, air[d] # <<>>
  PROVE  /\ Head(air[d]) \in Halves /\ Tail(air[d]) \in Seq(Halves)
         /\ With(d) \in [{0, 1} -> Nat] /\ <<With(d)[0], With(d)[1]>> \in Keys
  <1>1. air[d] \in Seq(Halves) /\ halves[d] \in [{0, 1} -> Nat]
    BY DEF Types, TypeOK, TaskInv
  <1>2. Head(air[d]) \in Halves /\ Tail(air[d]) \in Seq(Halves)
    BY <1>1, HeadTailProperties
  <1>3. Head(air[d]).idx \in {0, 1} /\ Head(air[d]).attempt \in Nat
    BY <1>2 DEF Halves
  <1>4. With(d) \in [{0, 1} -> Nat]
    BY <1>1, <1>3 DEF With
  <1>5. With(d)[0] \in Nat /\ With(d)[1] \in Nat
    BY <1>4
  <1> QED
    BY <1>2, <1>4, <1>5 DEF Keys

LEMMA KnownAt ==
  /\ \A d : d \in KnownDevices <=> \E i \in DOMAIN sensors : sensors[i].dev = d
  /\ \A d : InFile(d) <=> \E i \in DOMAIN file : file[i].dev = d
  BY DEF KnownDevices, InFile

LEMMA FileStep ==
  ASSUME Types, FileOK, [Next]_vars
  PROVE  FileOK'
  <1>1. CASE UNCHANGED file
    BY <1>1 DEF FileOK
  <1>2. CASE Persist
    <2> DEFINE a == [dev |-> e.dev, key |-> e.key, by |-> "bridge"]
    <2>1. e.pc = "persist" /\ file' = IF InFile(e.dev) THEN file ELSE Append(file, a)
      BY <1>2 DEF Persist, Writing
    <2>2. a \in Entries /\ a.dev = e.dev
      BY <2>1 DEF Types, TaskInv, Entries
    <2> HIDE DEF a
    <2>3. ~InFile(e.dev) => \A i \in 1 .. Len(file) : file[i].dev # a.dev
      BY <2>2, KnownAt DEF FileOK
    <2>4. file \in Seq(Entries) /\ UniqueEntries(file)
      BY DEF FileOK
    <2>5. ~InFile(e.dev) => Append(file, a) \in Seq(Entries) /\ UniqueEntries(Append(file, a))
      BY <2>2, <2>3, <2>4, AppendEntry
    <2> QED
      BY <2>1, <2>5, <2>4 DEF FileOK
  <1>3. ASSUME NEW d \in Devices, AddEntry(d) PROVE FileOK'
    <2> DEFINE a == ByUser(d)
    <2>1. ~InFile(d) /\ file' = Append(file, a)
      BY <1>3 DEF AddEntry
    <2>2. a \in Entries /\ a.dev = d
      BY DEF ByUser, Entries, NoKey, Keys
    <2> HIDE DEF a
    <2>3. \A i \in 1 .. Len(file) : file[i].dev # a.dev
      BY <2>1, <2>2, KnownAt DEF FileOK
    <2> QED
      BY <2>1, <2>2, <2>3, AppendEntry DEF FileOK
  <1>4. ASSUME NEW d \in Devices, RemoveEntry(d) PROVE FileOK'
    BY <1>4, OnlyUnique DEF RemoveEntry, FileOK
  <1> QED
    BY <1>1, <1>2, <1>3, <1>4, WritersOfFile

\* A device that joins the list of sensors was not in it.
LEMMA ProvisionSensors ==
  ASSUME SensorsOK, NEW d \in Devices, NEW key \in Keys, d \notin KnownDevices, Provision(d, key)
  PROVE  /\ SensorsOK' /\ Len(sensors') = Len(sensors) + 1
         /\ \A i \in 1 .. Len(sensors) : sensors'[i] = sensors[i]
         /\ sensors'[Len(sensors) + 1] = [dev |-> d, part |-> "eep", key |-> key]
         /\ KnownDevices' = KnownDevices \cup {d}
  <1> DEFINE s == [dev |-> d, part |-> "eep", key |-> key]
  <1>1. sensors' = Append(sensors, s) /\ s \in Sensors /\ s.dev = d
    BY DEF Provision, Sensors
  <1> HIDE DEF s
  <1>2. \A i \in 1 .. Len(sensors) : sensors[i].dev # d
    BY KnownAt DEF SensorsOK
  <1>3. SensorsOK'
    BY <1>1, <1>2, AppendSensor DEF SensorsOK
  <1>4. /\ Len(sensors) \in Nat /\ Len(sensors') = Len(sensors) + 1 /\ sensors'[Len(sensors) + 1] = s
        /\ \A i \in 1 .. Len(sensors) : sensors'[i] = sensors[i]
    BY <1>1, AppendProperties DEF SensorsOK
  <1>5. DOMAIN sensors = 1 .. Len(sensors) /\ DOMAIN sensors' = 1 .. Len(sensors')
    BY <1>3 DEF SensorsOK
  <1>6. \A i \in 1 .. Len(sensors') : i \in 1 .. Len(sensors) \/ i = Len(sensors) + 1
    BY <1>4
  <1>7. KnownDevices' = KnownDevices \cup {d}
    <2>1. ASSUME NEW b \in KnownDevices' PROVE b \in KnownDevices \cup {d}
      <3>1. PICK i \in 1 .. Len(sensors') : sensors'[i].dev = b
        BY <1>5, <2>1 DEF KnownDevices
      <3> QED
        BY <1>1, <1>4, <1>5, <1>6, <3>1 DEF KnownDevices
    <2>2. ASSUME NEW b \in KnownDevices \cup {d} PROVE b \in KnownDevices'
      <3>1. CASE b = d
        <4>1. Len(sensors) + 1 \in 1 .. Len(sensors')
          BY <1>4
        <4> QED
          BY <1>1, <1>4, <1>5, <3>1, <4>1 DEF KnownDevices
      <3>2. CASE b \in KnownDevices
        <4>1. PICK i \in 1 .. Len(sensors) : sensors[i].dev = b
          BY <1>5, <3>2 DEF KnownDevices
        <4>2. i \in 1 .. Len(sensors') /\ sensors'[i] = sensors[i]
          BY <1>4
        <4> QED
          BY <1>5, <4>1, <4>2 DEF KnownDevices
      <3> QED
        BY <2>2, <3>1, <3>2
    <2> QED
      BY <2>1, <2>2
  <1> QED
    BY <1>3, <1>4, <1>7 DEF s

\* The three ways in which a pair of halves ends
LEMMA PairHeard ==
  ASSUME Types, SensorsOK, NEW d \in Devices, NEW copied \in BOOLEAN, HearPair(d, copied)
  PROVE  LET key == <<With(d)[0], With(d)[1]>> IN
         /\ key \in Keys
         /\ \/ /\ UNCHANGED <<e, touched, fresh, KnownDevices>> /\ SensorsOK' /\ Len(sensors') = Len(sensors)
               /\ \A i \in 1 .. Len(sensors) :
                    /\ sensors'[i].dev = sensors[i].dev /\ sensors'[i].part = sensors[i].part
                    /\ sensors'[i].key = sensors[i].key \/ (sensors'[i].key = key /\ sensors[i].dev = d)
            \/ d \in Ptm \ KnownDevices /\ Provision(d, key)
  <1> DEFINE key == <<With(d)[0], With(d)[1]>>
  <1>1. key \in Keys
    BY PairKey DEF HearPair, HearingPair, Receive
  <1>2. CASE d \in KnownDevices
    <2>1. sensors' = [sensors EXCEPT ![FirstOf(d)].key = key] /\ UNCHANGED <<e, touched, fresh>>
      BY <1>2 DEF HearPair, HearingPair
    <2>2. FirstOf(d) \in DOMAIN sensors /\ sensors[FirstOf(d)].dev = d
      <3> DEFINE S == {i \in DOMAIN sensors : sensors[i].dev = d}
      <3>1. S \subseteq Nat /\ S # {} /\ DOMAIN sensors = 1 .. Len(sensors) /\ Len(sensors) \in Nat
        BY <1>2, KnownAt DEF SensorsOK
      <3>2. PICK i \in S : \A j \in S : i <= j
        BY <3>1, LeastNat
      <3>3. \A j \in 1 .. i - 1 : sensors[j].dev # d
        <4>1. \A j \in 1 .. i - 1 : j \in 1 .. Len(sensors) /\ ~(i <= j)
          BY <3>1
        <4> QED
          BY <3>1, <3>2, <4>1
      <3> QED
        BY <3>2, <3>3 DEF FirstOf
    <2> HIDE DEF key
    <2>3. /\ sensors' \in Seq(Sensors) /\ Len(sensors') = Len(sensors)
          /\ \A i \in 1 .. Len(sensors) :
               /\ sensors'[i].dev = sensors[i].dev /\ sensors'[i].part = sensors[i].part
               /\ sensors'[i].key = IF i = FirstOf(d) THEN key ELSE sensors[i].key
      BY <1>1, <2>1, Rekeyed DEF SensorsOK
    <2>4. SensorsOK'
      BY <2>3, RekeyedUnique DEF SensorsOK
    <2>5. DOMAIN sensors = 1 .. Len(sensors) /\ DOMAIN sensors' = 1 .. Len(sensors)
      BY <2>3 DEF SensorsOK
    <2>6. KnownDevices' = KnownDevices
      BY <2>3, <2>5 DEF KnownDevices
    <2> QED
      BY <1>1, <2>1, <2>2, <2>3, <2>4, <2>6 DEF key
  <1>3. CASE d \notin KnownDevices /\ d \in Ptm
    BY <1>1, <1>3 DEF HearPair, HearingPair
  <1>4. CASE d \notin KnownDevices /\ d \notin Ptm
    <2>1. UNCHANGED <<sensors, e, touched, fresh>>
      BY <1>4 DEF HearPair, HearingPair
    <2>2. SensorsOK' /\ KnownDevices' = KnownDevices
      BY <2>1 DEF SensorsOK, KnownDevices
    <2> QED
      BY <1>1, <2>1, <2>2
  <1> QED
    BY <1>2, <1>3, <1>4

LEMMA SensorsStep ==
  ASSUME Types, FileOK, SensorsOK, [Next]_vars
  PROVE  SensorsOK'
  <1>1. CASE UNCHANGED sensors
    BY <1>1 DEF SensorsOK
  <1>2. CASE Start
    BY <1>2, LoadType DEF Start, Starting, FileOK, SensorsOK
  <1>3. CASE Crash
    <2>1. sensors' = <<>>
      BY <1>3 DEF Crash
    <2> QED
      BY <2>1, EmptySeq DEF SensorsOK, UniqueSensors
  <1>4. CASE OnTeachIn
    <2>1. CASE UNCHANGED sensors
      BY <2>1 DEF SensorsOK
    <2>2. CASE e.dev \notin KnownDevices /\ Provision(e.dev, NoKey)
      <3>1. e.dev \in Devices /\ NoKey \in Keys
        BY <1>4 DEF OnTeachIn, Answered, Types, TaskInv, NoKey, Keys
      <3> QED
        BY <2>2, <3>1, ProvisionSensors
    <2> QED
      BY <1>4, <2>1, <2>2 DEF OnTeachIn, Answered
  <1>5. ASSUME NEW d \in Devices, NEW copied \in BOOLEAN, HearPair(d, copied) PROVE SensorsOK'
    <2> DEFINE key == <<With(d)[0], With(d)[1]>>
    <2>1. key \in Keys /\ (SensorsOK' \/ (d \notin KnownDevices /\ Provision(d, key)))
      BY <1>5, PairHeard
    <2> HIDE DEF key
    <2> QED
      BY <2>1, ProvisionSensors
  <1> QED
    BY <1>1, <1>2, <1>3, <1>4, <1>5, WritersOfSensors
-----------------------------------------------------------------------------
(* The types of the rest.                                                  *)

LEMMA WritersOfStore ==
  ASSUME [Next]_vars
  PROVE  \/ UNCHANGED <<rows, retained, announced, version>>
         \/ Start \/ SyncPublish \/ SyncUpsert \/ Prune \/ ProvisionPublish \/ ProvisionUpsert \/ Announce
         \/ \E d \in Devices : HandleDelete(d) \/ DeleteConfigs(d)
  BY ZenonT(60) DEF Next, vars, durable, Crash, Connect, Break, Lost, SessionOver, MqttTask, ByM, ByE,
         Rest, Outside, SubscribeRequest, Subscribing, Requested, System,
         LearnOn, LearnOff, Hearing, HearUte, MissHalf, HearHalf, HearPair, HearingPair,
         RespondFails, Teaching, OnTeachIn, Answered, ProvisionRaises,
         Persist, Writing, PersistFails, SendSecureTeachIn, AddEntry, RemoveEntry

LEMMA WritersOfM ==
  ASSUME [Next]_vars
  PROVE  \/ UNCHANGED m
         \/ Crash \/ Connect \/ Lost
         \/ SubscribeRequest \/ Requested \/ SyncPublish \/ SyncUpsert \/ Prune \/ System
  BY DEF Next, vars, durable, Start, Starting, Break, MqttTask, ByE, Rest, Outside,
         HandleDelete, LearnOn, LearnOff, Hearing, HearUte, MissHalf, HearHalf, HearPair, HearingPair,
         RespondFails, Teaching, OnTeachIn, Answered, ProvisionPublish, ProvisionUpsert, ProvisionRaises,
         Persist, Writing, Announce, PersistFails, DeleteConfigs, SendSecureTeachIn, AddEntry, RemoveEntry

LEMMA WritersOfE ==
  ASSUME [Next]_vars
  PROVE  \/ UNCHANGED e
         \/ Crash \/ Lost \/ RespondFails \/ OnTeachIn \/ ProvisionPublish \/ ProvisionUpsert \/ ProvisionRaises
         \/ Persist \/ PersistFails \/ Announce
         \/ \E d \in Devices : HearUte(d) \/ \E copied \in BOOLEAN : HearPair(d, copied)
  BY DEF Next, vars, durable, Start, Starting, Connect, Break, MqttTask, ByM, ByE, Rest, Outside,
         SubscribeRequest, Subscribing, Requested, SyncPublish, SyncUpsert, Upserted, Prune, System,
         HandleDelete, LearnOn, LearnOff, Hearing, MissHalf, HearHalf,
         Teaching, DeleteConfigs, SendSecureTeachIn, AddEntry, RemoveEntry

LEMMA WritersOfRadio ==
  ASSUME [Next]_vars
  PROVE  \/ UNCHANGED <<halves, air, attempt>>
         \/ Start \/ Crash
         \/ \E d \in Devices : \/ MissHalf(d) \/ SendSecureTeachIn(d)
                               \/ \E copied \in BOOLEAN : HearHalf(d, copied) \/ HearPair(d, copied)
  BY DEF Next, vars, durable, radio, Connect, Break, Lost, SessionOver, MqttTask, ByM, ByE, Rest, Outside,
         SubscribeRequest, Subscribing, Requested, SyncPublish, SyncUpsert, Upserted, Prune, System,
         HandleDelete, LearnOn, LearnOff, Hearing, HearUte, RespondFails,
         Teaching, OnTeachIn, Answered, Provision, ProvisionPublish, ProvisionUpsert, ProvisionRaises,
         Persist, Writing, Announce, PersistFails, DeleteConfigs, AddEntry, RemoveEntry

StoreOK ==
  /\ rows \in [Devices -> SUBSET Topics] /\ retained \in [Devices -> SUBSET Topics]
  /\ announced \in Devices \cup {Nobody} /\ version \in Versions
RadioOK ==
  /\ halves \in [Devices -> [{0, 1} -> Nat]]
  /\ attempt \in [Devices -> Nat] /\ air \in [Devices -> Seq(Halves)]
MqttOK ==
  /\ m \in [pc : {"away", "req", "discover", "subscribe", "prune", "serving"},
            at : Nat \ {0}, work : Seq(Publishing \cup Removing)]
  /\ m.pc \in {"discover", "subscribe"} => m.at <= Len(sensors) /\ m.work \in Seq(Publishing)
  /\ m.pc = "discover" => m.work # <<>>
TeachOK ==
  /\ e \in [pc : {"idle", "respond", "discover", "subscribe", "persist", "announce"},
            dev : Devices \cup {Nobody}, key : Keys, work : Seq(Publishing)]
  /\ e.pc # "idle" => e.dev \in Devices
  /\ e.pc = "discover" => e.work # <<>>
ProcessOK ==
  /\ up \in BOOLEAN /\ learn \in BOOLEAN /\ first \in BOOLEAN
  /\ conn \in {"away", "up", "broken"} /\ leftover \subseteq Devices
  /\ m.pc = "away" <=> conn = "away"
  /\ ~up => conn = "away" /\ e.pc = "idle" /\ sensors = <<>> /\ halves = NoHalves

TornOK == torn \in [Devices -> SUBSET Topics]

LEMMA TypesParts ==
  Types <=> /\ file \in Seq(Entries) /\ sensors \in Seq(Sensors)
            /\ StoreOK /\ RadioOK /\ MqttOK /\ TeachOK /\ ProcessOK /\ TornOK
  BY DEF Types, TypeOK, TaskInv, StoreOK, RadioOK, MqttOK, TeachOK, ProcessOK, TornOK

\* What is published or cleared is a config of one device.
LEMMA PublishType ==
  ASSUME StoreOK, NEW op \in Publishing, Publish(op)
  PROVE  /\ retained' \in [Devices -> SUBSET Topics]
         /\ \A d \in Devices : d # op[2] => retained'[d] = retained[d]
         /\ retained'[op[2]] = IF conn # "up" THEN retained[op[2]]
                               ELSE IF op[1] = "clear" THEN retained[op[2]] \ {op[3]}
                               ELSE retained[op[2]] \cup {op[3]}
  <1>1. op[2] \in Devices /\ op[3] \in Topics
    BY DEF Publishing
  <1>2. retained[op[2]] \in SUBSET Topics
    BY <1>1 DEF StoreOK
  <1> QED
    BY <1>1, <1>2 DEF Publish, StoreOK

LEMMA StoreStep ==
  ASSUME Types, [Next]_vars
  PROVE  StoreOK'
  <1> USE TypesParts
  <1>1. CASE UNCHANGED <<rows, retained, announced, version>>
    BY <1>1 DEF StoreOK
  <1>2. CASE Start
    <2>1. Len(Mapping) \in Nat /\ version \in 1 .. Len(Mapping)
      BY TopicsFinite DEF StoreOK, Versions
    <2>2. version' \in 1 .. Len(Mapping) /\ UNCHANGED <<rows, retained, announced>>
      BY <1>2, <2>1 DEF Start, Starting
    <2> QED
      BY <2>2 DEF StoreOK, Versions
  <1>3. CASE SyncPublish
    <2>1. m.pc = "discover" /\ Publish(Head(m.work)) /\ UNCHANGED <<rows, announced, version>>
      BY <1>3 DEF SyncPublish, ByM
    <2>2. Head(m.work) \in Publishing
      BY <2>1, HeadTailProperties DEF MqttOK
    <2>3. retained' \in [Devices -> SUBSET Topics]
      BY <2>1, <2>2, PublishType
    <2> QED
      BY <2>1, <2>3 DEF StoreOK
  <1>4. CASE SyncUpsert
    <2>1. rows' = [rows EXCEPT ![sensors[m.at].dev] = Current] /\ UNCHANGED <<retained, announced, version>>
      BY <1>4 DEF SyncUpsert, Upserted, Upsert, ByM
    <2>2. Current \in SUBSET Topics
      BY TopicsFinite DEF Current, StoreOK
    <2> QED
      BY <2>1, <2>2 DEF StoreOK
  <1>5. CASE Prune
    <2> DEFINE op == Head(m.work)
    <2>1. /\ m.work # <<>> /\ UNCHANGED <<announced, version>>
          /\ \/ op[1] = "remove" /\ rows' = [rows EXCEPT ![op[2]] = {}] /\ UNCHANGED retained
             \/ op[1] # "remove" /\ Publish(op) /\ UNCHANGED rows
      BY <1>5 DEF Prune, ByM
    <2>2. op \in Publishing \cup Removing
      BY <2>1, HeadTailProperties DEF MqttOK
    <2> HIDE DEF op
    <2>3. op[1] # "remove" => op \in Publishing
      BY <2>2 DEF Removing
    <2>4. CASE op[1] = "remove"
      BY <2>1, <2>4 DEF StoreOK
    <2>5. CASE op[1] # "remove"
      BY <2>1, <2>3, <2>5, PublishType DEF StoreOK
    <2> QED
      BY <2>4, <2>5
  <1>6. CASE ProvisionPublish
    <2>1. e.pc = "discover" /\ Publish(Head(e.work)) /\ UNCHANGED <<rows, announced, version>>
      BY <1>6 DEF ProvisionPublish, ByE
    <2>2. Head(e.work) \in Publishing
      BY <2>1, HeadTailProperties DEF TeachOK
    <2>3. retained' \in [Devices -> SUBSET Topics]
      BY <2>1, <2>2, PublishType
    <2> QED
      BY <2>1, <2>3 DEF StoreOK
  <1>7. CASE ProvisionUpsert
    <2>1. rows' = [rows EXCEPT ![e.dev] = Current] /\ UNCHANGED <<retained, announced, version>>
      BY <1>7 DEF ProvisionUpsert, Upsert, ByE
    <2>2. Current \in SUBSET Topics
      BY TopicsFinite DEF Current, StoreOK
    <2> QED
      BY <2>1, <2>2 DEF StoreOK
  <1>8. CASE Announce
    BY <1>8 DEF Announce, StoreOK, TeachOK
  <1>9. ASSUME NEW d \in Devices, HandleDelete(d) PROVE StoreOK'
    BY <1>9 DEF HandleDelete, StoreOK
  <1>10. ASSUME NEW d \in Devices, DeleteConfigs(d) PROVE StoreOK'
    BY <1>10 DEF DeleteConfigs, Outside, StoreOK
  <1> QED
    BY <1>1, <1>2, <1>3, <1>4, <1>5, <1>6, <1>7, <1>8, <1>9, <1>10, WritersOfStore

LEMMA TwoHalves ==
  ASSUME NEW n \in Nat
  PROVE  /\ << [attempt |-> n, idx |-> 0], [attempt |-> n, idx |-> 1] >> \in Seq(Halves)
         /\ Len(<< [attempt |-> n, idx |-> 0], [attempt |-> n, idx |-> 1] >>) = 2
  <1>1. [attempt |-> n, idx |-> 0] \in Halves /\ [attempt |-> n, idx |-> 1] \in Halves
    BY DEF Halves
  <1> QED
    BY <1>1

LEMMA RadioStep ==
  ASSUME Types, [Next]_vars
  PROVE  RadioOK'
  <1> USE TypesParts
  <1>1. CASE UNCHANGED <<halves, air, attempt>>
    BY <1>1 DEF RadioOK
  <1>2. CASE Start \/ Crash
    BY <1>2 DEF Start, Starting, Crash, SessionOver, radio, RadioOK, NoHalves
  <1>3. ASSUME NEW d \in Devices, MissHalf(d) PROVE RadioOK'
    <2>1. Tail(air[d]) \in Seq(Halves)
      BY <1>3, PairKey DEF MissHalf
    <2> QED
      BY <1>3, <2>1 DEF MissHalf, ByE, Rest, RadioOK
  <1>4. ASSUME NEW d \in Devices, SendSecureTeachIn(d) PROVE RadioOK'
    <2> DEFINE n == attempt[d] + 1
               two == << [attempt |-> n, idx |-> 0], [attempt |-> n, idx |-> 1] >>
    <2>1. air' = [air EXCEPT ![d] = air[d] \o two] /\ attempt' = [attempt EXCEPT ![d] = n] /\ UNCHANGED halves
      BY <1>4 DEF SendSecureTeachIn, Outside
    <2>2. n \in Nat
      BY DEF RadioOK
    <2>3. two \in Seq(Halves)
      BY <2>2, TwoHalves
    <2> HIDE DEF two
    <2>4. air[d] \o two \in Seq(Halves)
      BY <2>3, ConcatProperties DEF RadioOK
    <2> HIDE DEF n
    <2> QED
      BY <2>1, <2>2, <2>4 DEF RadioOK
  <1>5. ASSUME NEW d \in Devices, NEW copied \in BOOLEAN, HearHalf(d, copied) \/ HearPair(d, copied) PROVE RadioOK'
    <2>1. air[d] # <<>> /\ UNCHANGED attempt /\ (UNCHANGED air \/ air' = [air EXCEPT ![d] = Tail(air[d])])
      BY <1>5 DEF HearHalf, HearPair, HearingPair, Receive
    <2>2. halves' = [halves EXCEPT ![d] = With(d)] \/ halves' = [halves EXCEPT ![d] = NoHalves[d]]
      BY <1>5 DEF HearHalf, HearPair, HearingPair
    <2>3. With(d) \in [{0, 1} -> Nat] /\ Tail(air[d]) \in Seq(Halves) /\ NoHalves[d] \in [{0, 1} -> Nat]
      BY <2>1, PairKey DEF NoHalves
    <2> QED
      BY <2>1, <2>2, <2>3 DEF RadioOK
  <1> QED
    BY <1>1, <1>2, <1>3, <1>4, <1>5, WritersOfRadio

\* The loop over the sensors goes on with the first one not discovered, or it ends.
LEMMA SyncFromNext ==
  ASSUME Types, NEW i \in Nat \ {0}, NEW left \in SUBSET Devices, SyncFrom(i, left)
  PROVE  \/ /\ m'.pc = "discover" /\ m'.at \in i .. Len(sensors) /\ ~Discovered(m'.at)
            /\ \A j \in i .. m'.at - 1 : Discovered(j)
            /\ m' = [pc |-> "discover", at |-> m'.at, work |-> Discovery(sensors[m'.at].dev)]
         \/ /\ \A j \in i .. Len(sensors) : Discovered(j)
            /\ m' = [pc |-> "prune", at |-> 1, work |-> PruneAll(left)]
  <1> DEFINE todo == {j \in i .. Len(sensors) : ~Discovered(j)}
             next == Min(todo)
  <1>1. IF todo = {} THEN m' = [pc |-> "prune", at |-> 1, work |-> PruneAll(left)]
        ELSE m' = [pc |-> "discover", at |-> next, work |-> Discovery(sensors[next].dev)]
    BY DEF SyncFrom, At
  <1>2. Len(sensors) \in Nat
    BY TypesParts, LenProperties
  <1>3. todo \subseteq i .. Len(sensors) /\ todo \subseteq Nat
    BY <1>2
  <1>4. CASE todo = {}
    BY <1>1, <1>4
  <1>5. CASE todo # {}
    <2>1. PICK n \in todo : \A k \in todo : n <= k
      BY <1>3, <1>5, LeastNat
    <2>2. next = CHOOSE x \in todo : \A y \in todo : x <= y
      BY DEF Min
    <2> HIDE DEF next
    <2>3. next \in todo /\ \A k \in todo : next <= k
      BY <2>1, <2>2
    <2>4. next \in i .. Len(sensors) /\ ~Discovered(next)
      BY <2>3
    <2>5. ASSUME NEW j \in i .. next - 1 PROVE Discovered(j)
      <3>1. j \in i .. Len(sensors) /\ ~(next <= j)
        BY <1>2, <2>4
      <3> QED
        BY <2>3, <3>1
    <2>6. m' = [pc |-> "discover", at |-> next, work |-> Discovery(sensors[next].dev)]
      BY <1>1, <1>5
    <2>7. m'.at = next /\ m'.pc = "discover"
      BY <2>6
    <2> QED
      BY <2>4, <2>5, <2>6, <2>7
  <1> QED
    BY <1>4, <1>5

LEMMA SensorAt ==
  ASSUME Types, NEW i \in 1 .. Len(sensors)
  PROVE  sensors[i].dev \in Devices /\ sensors[i].dev \in KnownDevices
  <1>1. sensors \in Seq(Sensors)
    BY TypesParts
  <1>2. sensors[i] \in Sensors /\ i \in DOMAIN sensors
    BY <1>1, ElementOfSeq
  <1>3. sensors[i].dev \in Devices
    BY <1>2 DEF Sensors
  <1> QED
    BY <1>2, <1>3, KnownAt

LEMMA SyncFromType ==
  ASSUME Types, NEW i \in Nat \ {0}, NEW left \in SUBSET Devices, SyncFrom(i, left), UNCHANGED sensors
  PROVE  MqttOK'
  <1>1. CASE m' = [pc |-> "prune", at |-> 1, work |-> PruneAll(left)]
    <2>1. PruneAll(left) \in Seq(Publishing \cup Removing)
      BY PruneAllType DEF Types
    <2> QED
      BY <1>1, <2>1 DEF MqttOK
  <1>2. CASE /\ m'.at \in i .. Len(sensors)
             /\ m' = [pc |-> "discover", at |-> m'.at, work |-> Discovery(sensors[m'.at].dev)]
    <2> DEFINE work == Discovery(sensors[m'.at].dev)
    <2>1. Len(sensors) \in Nat /\ m'.at \in 1 .. Len(sensors) /\ m'.at \in Nat \ {0} /\ m'.at <= Len(sensors)
      BY <1>2, TypesParts, LenProperties
    <2>2. work \in Seq(Publishing) /\ work # <<>>
      BY <2>1, SensorAt, DiscoveryType DEF Types
    <2>3. Seq(Publishing) \subseteq Seq(Publishing \cup Removing)
      OBVIOUS
    <2>4. m'.pc = "discover" /\ m'.work = work
      BY <1>2
    <2> HIDE DEF work
    <2>5. m' = [pc |-> "discover", at |-> m'.at, work |-> work]
      BY <1>2 DEF work
    <2>6. m' \in [pc : {"away", "req", "discover", "subscribe", "prune", "serving"},
                  at : Nat \ {0}, work : Seq(Publishing \cup Removing)]
      BY <2>1, <2>2, <2>3, <2>5
    <2> QED
      BY <2>1, <2>2, <2>4, <2>6 DEF MqttOK
  <1> QED
    BY <1>1, <1>2, SyncFromNext

\* The list does not change while the synchronisation goes through it.
LEMMA SyncSensors ==
  ASSUME SyncInv, m.pc \in {"discover", "subscribe", "prune"}, [Next]_vars
  PROVE  sensors' = sensors \/ m' = AwayM
  <1>1. e.pc = "idle" /\ ~learn /\ up
    BY DEF SyncInv
  <1>2. CASE Start \/ OnTeachIn
    BY <1>1, <1>2 DEF Start, Starting, OnTeachIn, Answered
  <1>3. CASE Crash
    BY <1>3 DEF Crash, SessionOver
  <1>4. ASSUME NEW d \in Devices, NEW copied \in BOOLEAN, HearPair(d, copied) PROVE FALSE
    BY <1>1, <1>4 DEF HearPair, HearingPair
  <1> QED
    BY <1>2, <1>3, <1>4, WritersOfSensors

LEMMA AwayType ==
  /\ AwayM \in [pc : {"away", "req", "discover", "subscribe", "prune", "serving"},
                at : Nat \ {0}, work : Seq(Publishing \cup Removing)]
  /\ AwayM.pc = "away" /\ AwayM.work = <<>>
  /\ IdleE \in [pc : {"idle", "respond", "discover", "subscribe", "persist", "announce"},
                dev : Devices \cup {Nobody}, key : Keys, work : Seq(Publishing)]
  /\ IdleE.pc = "idle"
  <1>1. <<>> \in Seq(Publishing \cup Removing) /\ <<>> \in Seq(Publishing)
    BY EmptySeq
  <1> QED
    BY <1>1 DEF AwayM, IdleE, NoKey, Keys

LEMMA MqttStep ==
  ASSUME SyncInv, Types, [Next]_vars
  PROVE  MqttOK'
  <1> USE TypesParts
  <1>0. MqttOK
    OBVIOUS
  <1>1. CASE UNCHANGED m
    <2>1. m.pc \in {"discover", "subscribe"} => sensors' = sensors
      BY <1>1, SyncSensors, AwayType
    <2> QED
      BY <1>0, <1>1, <2>1 DEF MqttOK
  <1>2. CASE Crash \/ Lost
    <2>1. m' = AwayM
      BY <1>2 DEF Crash, Lost, SessionOver
    <2> QED
      BY <2>1, AwayType DEF MqttOK
  <1>3. CASE Connect
    <2>1. m' = [AwayM EXCEPT !.pc = "req"]
      BY <1>3 DEF Connect
    <2>2. m' = [pc |-> "req", at |-> 1, work |-> <<>>]
      BY <2>1 DEF AwayM
    <2> QED
      BY <2>2, EmptySeq DEF MqttOK
  <1>4. CASE SubscribeRequest
    <2>1. m' = [pc |-> "req", at |-> m.at + 1, work |-> <<>>]
      BY <1>4 DEF SubscribeRequest, Subscribing, At
    <2>2. m.at + 1 \in Nat \ {0}
      BY <1>0 DEF MqttOK
    <2> QED
      BY <2>1, <2>2, EmptySeq DEF MqttOK
  <1>5. CASE System
    <2>1. m' = [pc |-> "serving", at |-> 1, work |-> <<>>]
      BY <1>5 DEF System, At
    <2> QED
      BY <2>1, EmptySeq DEF MqttOK
  <1>6. CASE Requested
    <2>1. CASE first
      <3>1. leftover' \in SUBSET Devices /\ SyncFrom(1, leftover') /\ UNCHANGED sensors
        BY <1>6, <2>1 DEF Requested, ByM
      <3> QED
        BY <3>1, SyncFromType
    <2>2. CASE ~first
      <3>1. m' = [pc |-> "serving", at |-> 1, work |-> <<>>]
        BY <1>6, <2>2 DEF Requested, At
      <3> QED
        BY <3>1, EmptySeq DEF MqttOK
    <2> QED
      BY <2>1, <2>2
  <1>7. CASE SyncUpsert
    <2>1. m.at + 1 \in Nat \ {0} /\ leftover \ {sensors[m.at].dev} \in SUBSET Devices
      BY <1>0 DEF MqttOK, ProcessOK
    <2>2. SyncFrom(m.at + 1, leftover \ {sensors[m.at].dev}) /\ UNCHANGED sensors
      BY <1>7 DEF SyncUpsert, Upserted, ByM
    <2> QED
      BY <2>1, <2>2, SyncFromType
  <1>8. CASE SyncPublish
    <2> DEFINE more == Tail(m.work)
               pc == IF Len(m.work) = 1 THEN "subscribe" ELSE "discover"
    <2>1. m.pc = "discover" /\ m' = [pc |-> pc, at |-> m.at, work |-> more] /\ UNCHANGED sensors
      BY <1>8 DEF SyncPublish, At, ByM
    <2>2. m.work \in Seq(Publishing) /\ m.work # <<>> /\ m.at \in Nat \ {0} /\ m.at <= Len(sensors)
      BY <1>0, <2>1 DEF MqttOK
    <2>3. /\ more \in Seq(Publishing) /\ Len(m.work) \in Nat \ {0} /\ Len(more) = Len(m.work) - 1
      BY <2>2, HeadTailProperties, EmptySeq
    <2>4. pc = "discover" => more # <<>>
      <3>1. Len(m.work) # 1 => Len(more) # 0
        BY <2>3
      <3>2. Len(<<>>) = 0
        OBVIOUS
      <3> HIDE DEF more
      <3> QED
        BY <3>1, <3>2
    <2>5. more \in Seq(Publishing \cup Removing) /\ pc \in {"discover", "subscribe"}
      BY <2>3
    <2> HIDE DEF more, pc
    <2>6. m'.pc = pc /\ m'.at = m.at /\ m'.work = more
      BY <2>1
    <2>7. m' \in [pc : {"away", "req", "discover", "subscribe", "prune", "serving"},
                  at : Nat \ {0}, work : Seq(Publishing \cup Removing)]
      BY <2>1, <2>2, <2>5
    <2> QED
      BY <2>1, <2>2, <2>3, <2>4, <2>6, <2>7 DEF MqttOK
  <1>9. CASE Prune
    <2>1. m.work # <<>> /\ m' = [pc |-> "prune", at |-> 1, work |-> Tail(m.work)]
      BY <1>9 DEF Prune, At
    <2>2. Tail(m.work) \in Seq(Publishing \cup Removing)
      BY <1>0, <2>1, HeadTailProperties DEF MqttOK
    <2> QED
      BY <2>1, <2>2 DEF MqttOK
  <1> QED
    BY <1>1, <1>2, <1>3, <1>4, <1>5, <1>6, <1>7, <1>8, <1>9, WritersOfM

LEMMA ProvisionType ==
  ASSUME Types, NEW d \in Devices, NEW key \in Keys, Provision(d, key)
  PROVE  TeachOK' /\ e'.pc = "discover" /\ e'.dev = d /\ e'.key = key /\ e'.work = Config(d)
  <1> DEFINE work == Config(d)
  <1>1. e' = [pc |-> "discover", dev |-> d, key |-> key, work |-> work]
    BY DEF Provision
  <1>2. work \in Seq(Publishing) /\ work # <<>>
    BY ConfigType DEF Types
  <1> HIDE DEF work
  <1> QED
    BY <1>1, <1>2 DEF TeachOK, work

LEMMA TeachStep ==
  ASSUME Types, SensorsOK, [Next]_vars
  PROVE  TeachOK'
  <1>0. TeachOK
    BY TypesParts
  <1>1. CASE UNCHANGED e
    BY <1>0, <1>1 DEF TeachOK
  <1>2. CASE e' = IdleE
    BY <1>2, AwayType DEF TeachOK
  <1>3. CASE Crash \/ Lost \/ RespondFails \/ ProvisionRaises \/ Announce
    BY <1>2, <1>3 DEF Crash, Lost, SessionOver, RespondFails, ProvisionRaises, Announce
  <1>4. CASE OnTeachIn
    <2>1. CASE Provision(e.dev, NoKey)
      <3>1. e.dev \in Devices /\ NoKey \in Keys
        BY <1>0, <1>4 DEF OnTeachIn, Answered, TeachOK, NoKey, Keys
      <3> QED
        BY <2>1, <3>1, ProvisionType
    <2> QED
      BY <1>2, <1>4, <2>1 DEF OnTeachIn, Answered
  <1>5. CASE ProvisionPublish
    <2> DEFINE pc == IF Len(e.work) = 1 THEN "subscribe" ELSE "discover"
    <2>1. e.pc = "discover" /\ e' = [e EXCEPT !.work = Tail(e.work), !.pc = pc]
      BY <1>5 DEF ProvisionPublish
    <2>2. /\ e \in [pc : {"idle", "respond", "discover", "subscribe", "persist", "announce"},
                    dev : Devices \cup {Nobody}, key : Keys, work : Seq(Publishing)]
          /\ e.work \in Seq(Publishing) /\ e.work # <<>> /\ e.dev \in Devices
      BY <1>0, <2>1 DEF TeachOK
    <2>3. Tail(e.work) \in Seq(Publishing) /\ Len(e.work) \in Nat \ {0} /\ Len(Tail(e.work)) = Len(e.work) - 1
      BY <2>2, HeadTailProperties, EmptySeq
    <2>4. pc = "discover" => Tail(e.work) # <<>>
      <3>1. Len(e.work) # 1 => Len(Tail(e.work)) # 0
        BY <2>3
      <3>2. Len(<<>>) = 0
        OBVIOUS
      <3> QED
        BY <3>1, <3>2
    <2>5. pc \in {"discover", "subscribe"}
      OBVIOUS
    <2> HIDE DEF pc
    <2>6. /\ e' \in [pc : {"idle", "respond", "discover", "subscribe", "persist", "announce"},
                     dev : Devices \cup {Nobody}, key : Keys, work : Seq(Publishing)]
          /\ e'.pc = pc /\ e'.dev = e.dev /\ e'.work = Tail(e.work)
      BY <2>1, <2>2, <2>3, <2>5
    <2> QED
      BY <2>2, <2>4, <2>6 DEF TeachOK
  <1>6. CASE ProvisionUpsert \/ Persist \/ PersistFails
    <2>1. /\ e.pc \in {"subscribe", "persist"}
          /\ e' = [e EXCEPT !.pc = "persist"] \/ e' = [e EXCEPT !.pc = "announce"]
      BY <1>6 DEF ProvisionUpsert, Persist, Writing, PersistFails
    <2> QED
      BY <1>0, <2>1 DEF TeachOK
  <1>7. ASSUME NEW d \in Devices, HearUte(d) PROVE TeachOK'
    <2>1. e' = [IdleE EXCEPT !.pc = "respond", !.dev = d]
      BY <1>7 DEF HearUte
    <2>2. e' = [pc |-> "respond", dev |-> d, key |-> NoKey, work |-> <<>>]
      BY <2>1 DEF IdleE
    <2>3. NoKey \in Keys
      BY DEF NoKey, Keys
    <2> QED
      BY <2>2, <2>3, EmptySeq DEF TeachOK
  <1>8. ASSUME NEW d \in Devices, NEW copied \in BOOLEAN, HearPair(d, copied) PROVE TeachOK'
    <2> DEFINE key == <<With(d)[0], With(d)[1]>>
    <2>1. key \in Keys /\ (UNCHANGED e \/ Provision(d, key))
      BY <1>8, PairHeard
    <2> HIDE DEF key
    <2> QED
      BY <1>1, <2>1, ProvisionType
  <1> QED
    BY <1>1, <1>3, <1>4, <1>5, <1>6, <1>7, <1>8, WritersOfE

LEMMA WritersOfConn ==
  ASSUME [Next]_vars
  PROVE  UNCHANGED conn \/ Crash \/ Connect \/ Break \/ Lost
  BY DEF Next, vars, durable, Start, Starting, MqttTask, ByM, ByE, Rest, Outside, HandleDelete,
         SubscribeRequest, Subscribing, Requested, SyncPublish, SyncUpsert, Upserted, Prune, System,
         LearnOn, LearnOff, Hearing, HearUte, MissHalf, HearHalf, HearPair, HearingPair,
         RespondFails, Teaching, OnTeachIn, Answered, ProvisionPublish, ProvisionUpsert, ProvisionRaises,
         Persist, Writing, Announce, PersistFails, DeleteConfigs, SendSecureTeachIn, AddEntry, RemoveEntry

LEMMA WritersOfLeftover ==
  ASSUME [Next]_vars
  PROVE  UNCHANGED leftover \/ Crash \/ Lost \/ Requested \/ SyncUpsert \/ Prune
  BY DEF Next, vars, durable, Start, Starting, Connect, Break, MqttTask, ByM, ByE, Rest, Outside, HandleDelete,
         SubscribeRequest, Subscribing, SyncPublish, System,
         LearnOn, LearnOff, Hearing, HearUte, MissHalf, HearHalf, HearPair, HearingPair,
         RespondFails, Teaching, OnTeachIn, Answered, ProvisionPublish, ProvisionUpsert, ProvisionRaises,
         Persist, Writing, Announce, PersistFails, DeleteConfigs, SendSecureTeachIn, AddEntry, RemoveEntry

LEMMA WritersOfTorn ==
  ASSUME [Next]_vars
  PROVE  UNCHANGED torn \/ Crash \/ Lost \/ SyncUpsert \/ Prune \/ ProvisionUpsert \/ ProvisionRaises
  BY ZenonT(60) DEF Next, vars, durable, history, radio, ByM, ByE, Rest, Outside, Start, Starting, Connect, Break,
         MqttTask, SubscribeRequest, Subscribing, Requested, SyncPublish, System, HandleDelete, LearnOn,
         LearnOff, Hearing, HearUte, MissHalf, HearHalf, HearPair, HearingPair, Receive, RespondFails,
         Teaching, OnTeachIn, Answered, Provision, ProvisionPublish, Persist, Writing, Announce,
         PersistFails, DeleteConfigs, SendSecureTeachIn, AddEntry, RemoveEntry

\* An interruption takes nothing from what is left in no row, and adds what the row of a
\* discovery it ends does not list.
LEMMA TornMore ==
  ASSUME TornOK, NEW devices, torn' = TornIn(devices), NEW d \in Devices
  PROVE  torn[d] \subseteq torn'[d] /\ (d \in devices => retained[d] \subseteq rows[d] \cup torn'[d])
  BY DEF TornOK, TornIn, Unlisted

\* A new row lists what was left of its device, the others are left as they are.
LEMMA TornLess ==
  ASSUME TornOK, NEW b \in Devices, Listed(b), NEW d \in Devices
  PROVE  torn'[d] = IF d = b THEN torn[d] \ Current ELSE torn[d]
  BY DEF TornOK, Listed

LEMMA TornStep ==
  ASSUME Types, [Next]_vars
  PROVE  TornOK'
  <1>0. TornOK /\ StoreOK /\ MqttOK /\ TeachOK
    BY TypesParts
  <1>1. CASE UNCHANGED torn
    BY <1>0, <1>1 DEF TornOK
  <1>2. CASE Crash \/ Lost \/ ProvisionRaises
    <2>1. PICK devices : torn' = TornIn(devices)
      BY <1>2 DEF Crash, Lost, SessionOver, ProvisionRaises
    <2> QED
      BY <1>0, <2>1 DEF TornOK, StoreOK, TornIn, Unlisted
  <1>3. CASE SyncUpsert \/ ProvisionUpsert
    <2>1. PICK d : torn' = [torn EXCEPT ![d] = @ \ Current]
      BY <1>3 DEF SyncUpsert, Upserted, ProvisionUpsert, Listed
    <2> QED
      BY <1>0, <2>1 DEF TornOK
  <1>4. CASE Prune
    <2> DEFINE op == Head(m.work)
    <2>1. /\ m.work # <<>>
          /\ UNCHANGED torn \/ (op[1] # "remove" /\ torn' = [torn EXCEPT ![op[2]] = @ \cup {op[3]}])
      BY <1>4 DEF Prune
    <2>2. op \in Publishing \cup Removing
      BY <1>0, <2>1, HeadTailProperties DEF MqttOK
    <2> HIDE DEF op
    <2>3. op[1] # "remove" => op[2] \in Devices /\ op[3] \in Topics
      BY <2>2 DEF Publishing, Removing
    <2> QED
      BY <1>0, <2>1, <2>3 DEF TornOK
  <1> QED
    BY <1>1, <1>2, <1>3, <1>4, WritersOfTorn

LEMMA WritersOfSwitches ==
  ASSUME [Next]_vars
  PROVE  UNCHANGED <<up, learn, first>> \/ Start \/ Crash \/ System \/ LearnOn \/ LearnOff
  BY ZenonT(60) DEF Next, vars, durable, Connect, Break, Lost, SessionOver, MqttTask, ByM, ByE, Rest, Outside, HandleDelete,
         SubscribeRequest, Subscribing, Requested, SyncPublish, SyncUpsert, Upserted, Prune,
         Hearing, HearUte, MissHalf, HearHalf, HearPair, HearingPair,
         RespondFails, Teaching, OnTeachIn, Answered, ProvisionPublish, ProvisionUpsert, ProvisionRaises,
         Persist, Writing, Announce, PersistFails, DeleteConfigs, SendSecureTeachIn, AddEntry, RemoveEntry

\* The MQTT task is there exactly as long as the broker connection.
LEMMA SessionStep ==
  ASSUME Types, [Next]_vars
  PROVE  conn' \in {"away", "up", "broken"} /\ (m'.pc = "away" <=> conn' = "away")
  <1>0. ProcessOK
    BY TypesParts
  <1>1. CASE Crash \/ Lost
    BY <1>1, AwayType DEF Crash, Lost, SessionOver
  <1>2. CASE Connect
    BY <1>2 DEF Connect, AwayM
  <1>3. CASE Break
    BY <1>0, <1>3 DEF Break, ProcessOK
  <1>4. CASE UNCHANGED <<conn, m>>
    BY <1>0, <1>4 DEF ProcessOK
  <1>5. CASE /\ UNCHANGED conn
             /\ SubscribeRequest \/ Requested \/ SyncPublish \/ SyncUpsert \/ Prune \/ System
    <2>1. m'.pc # "away" /\ conn # "away"
      BY <1>5, SyncFromWhere DEF SubscribeRequest, Subscribing, Requested, SyncPublish, SyncUpsert, Upserted,
           Prune, System, Running, At
    <2> QED
      BY <1>0, <1>5, <2>1 DEF ProcessOK
  <1> QED
    BY <1>1, <1>2, <1>3, <1>4, <1>5, WritersOfConn, WritersOfM

LEMMA LeftoverStep ==
  ASSUME Types, [Next]_vars
  PROVE  leftover' \subseteq Devices
  <1>0. leftover \subseteq Devices
    BY TypesParts DEF ProcessOK
  <1> QED
    BY <1>0, WritersOfLeftover DEF Crash, Lost, SessionOver, Requested, SyncUpsert, Upserted, Prune

\* Nothing of a process outlives it, and it keeps nothing.
LEMMA DownStep ==
  ASSUME Types, [Next]_vars, ~up'
  PROVE  conn' = "away" /\ e'.pc = "idle" /\ sensors' = <<>> /\ halves' = NoHalves
  <1>0. ProcessOK
    BY TypesParts
  <1>1. CASE Crash
    BY <1>1, AwayType DEF Crash, SessionOver
  <1>2. CASE ~up /\ UNCHANGED <<conn, e, sensors, halves>>
    BY <1>0, <1>2 DEF ProcessOK
  <1>3. CASE up
    BY <1>1, <1>3, WritersOfSwitches DEF Start, Starting, System, ByM, LearnOn, LearnOff
  <1>4. CASE ~up
    BY <1>2, <1>4, <1>0 DEF Next, vars, durable, radio, Start, Starting, Crash, Connect, Break, Lost, MqttTask, HandleDelete,
         SubscribeRequest, Subscribing, Requested, SyncPublish, SyncUpsert, Upserted, Prune, System,
         LearnOn, LearnOff, Hearing, HearUte, MissHalf, HearHalf, HearPair, HearingPair, Running, Outside,
         RespondFails, Teaching, OnTeachIn, Answered, ProvisionPublish, ProvisionUpsert, ProvisionRaises,
         Persist, Writing, Announce, PersistFails, DeleteConfigs, SendSecureTeachIn, AddEntry, RemoveEntry, ByE, Rest,
         ProcessOK
  <1> QED
    BY <1>3, <1>4

LEMMA ProcessStep ==
  ASSUME Types, [Next]_vars
  PROVE  ProcessOK'
  <1>0. ProcessOK
    BY TypesParts
  <1>1. up' \in BOOLEAN /\ learn' \in BOOLEAN /\ first' \in BOOLEAN
    BY <1>0, WritersOfSwitches DEF ProcessOK, Start, Starting, Crash, System, ByM, LearnOn, LearnOff
  <1> QED
    BY <1>1, SessionStep, LeftoverStep, DownStep DEF ProcessOK

\* The lists agree with each other and with what is being learned.
LEMMA InitList ==
  ASSUME Init
  PROVE  /\ FileOK /\ \A i \in 1 .. Len(file) : file[i].key = NoKey /\ file[i].by = "user"
  <1>1. PICK p \in Past : /\ file = [i \in 1 .. Cardinality(p.list) |-> ByUser(SetToSeq(p.list)[i])]
                          /\ rows = [d \in Devices |-> IF d \in p.former THEN ToSet(Mapping[1]) ELSE {}]
    BY DEF Init
  <1> DEFINE n == Cardinality(p.list)
             s == SetToSeq(p.list)
  <1>2. p.list \subseteq Devices
    BY ProvisioningAssumption
  <1>3. IsFiniteSet(p.list)
    BY <1>2, ProvisioningAssumption, FS_Subset
  <1>4. /\ n \in Nat /\ s \in Seq(p.list) /\ Len(s) = n
        /\ \A i, j \in 1 .. n : s[i] = s[j] => i = j
    BY <1>3, SetListed
  <1>5. file = [i \in 1 .. n |-> ByUser(s[i])]
    BY <1>1
  <1> HIDE DEF n, s
  <1>6. \A i \in 1 .. n : s[i] \in Devices
    BY <1>2, <1>4, ElementOfSeq
  <1>7. \A d \in Devices : ByUser(d) \in Entries /\ ByUser(d).dev = d /\ ByUser(d).key = NoKey /\ ByUser(d).by = "user"
    BY DEF ByUser, Entries, NoKey, Keys
  <1>8. \A i \in 1 .. n : ByUser(s[i]) \in Entries
    BY <1>6, <1>7
  <1>9. file \in Seq(Entries) /\ Len(file) = n /\ \A i \in 1 .. n : file[i] = ByUser(s[i])
    BY <1>4, <1>5, <1>8
  <1>10. UniqueEntries(file)
    BY <1>4, <1>6, <1>7, <1>9 DEF UniqueEntries
  <1> QED
    BY <1>6, <1>7, <1>9, <1>10 DEF FileOK

LEMMA InitTypes ==
  ASSUME Init
  PROVE  Types /\ SensorsOK
  <1>1. /\ 1 \in Versions /\ ToSet(Mapping[1]) \in SUBSET Topics
    BY TopicsFinite DEF Versions
  <1>2. StoreOK
    <2>1. PICK p \in Past : rows = [d \in Devices |-> IF d \in p.former THEN ToSet(Mapping[1]) ELSE {}]
      BY DEF Init
    <2> QED
      BY <1>1, <2>1 DEF Init, StoreOK
  <1>3. RadioOK
    <2>1. PICK p \in Past : attempt = [d \in Devices |-> IF d \in p.taught THEN Attempts[d] ELSE 0]
      BY DEF Init
    <2>2. \A d \in Devices : Attempts[d] \in Nat
      BY ProvisioningAssumption
    <2>3. attempt \in [Devices -> Nat]
      BY <2>1, <2>2
    <2>4. air = [d \in Devices |-> <<>>] /\ halves = NoHalves
      BY DEF Init
    <2> QED
      BY <2>3, <2>4, EmptySeq DEF RadioOK, NoHalves
  <1>4. MqttOK /\ TeachOK
    BY AwayType DEF Init, MqttOK, TeachOK
  <1>5. ProcessOK
    <2>1. m.pc = "away" /\ e.pc = "idle"
      BY AwayType DEF Init
    <2> QED
      BY <2>1 DEF Init, ProcessOK
  <1>6. SensorsOK
    BY EmptySeq DEF Init, SensorsOK, UniqueSensors
  <1>7. TornOK
    BY DEF Init, TornOK
  <1> QED
    BY <1>2, <1>3, <1>4, <1>5, <1>6, <1>7, InitList, TypesParts DEF FileOK, SensorsOK

Base == SyncInv /\ Types /\ FileOK /\ SensorsOK

LEMMA BaseInit == Init => Base
  BY SyncInit, InitTypes, InitList DEF Base

LEMMA BaseStep == Base /\ [Next]_vars => Base'
<1> SUFFICES ASSUME Base, [Next]_vars PROVE Base'
  OBVIOUS
<1>1. SyncInv /\ Types /\ FileOK /\ SensorsOK
  BY DEF Base
<1>2. SyncInv' /\ FileOK' /\ SensorsOK'
  BY <1>1, SyncStep, FileStep, SensorsStep
<1>3. StoreOK' /\ RadioOK' /\ MqttOK' /\ TeachOK' /\ ProcessOK' /\ TornOK'
  BY <1>1, StoreStep, RadioStep, MqttStep, TeachStep, ProcessStep, TornStep
<1>4. Types'
  <2>1. file' \in Seq(Entries) /\ sensors' \in Seq(Sensors)
    BY <1>2 DEF FileOK, SensorsOK
  <2> QED
    BY <1>3, <2>1 DEF Types, TypeOK, TaskInv, StoreOK, RadioOK, MqttOK, TeachOK, ProcessOK, TornOK
<1> QED
  BY <1>2, <1>4 DEF Base

LEMMA BaseSuffices == Base => TypeOK /\ NoDuplicates
<1> SUFFICES ASSUME Base PROVE NoDuplicates
  BY DEF Base, Types
<1>1. DOMAIN file = 1 .. Len(file) /\ DOMAIN sensors = 1 .. Len(sensors)
  BY DEF Base, FileOK, SensorsOK
<1> QED
  BY <1>1 DEF Base, FileOK, SensorsOK, UniqueEntries, UniqueSensors, NoDuplicates

\* The lists, the rows, the retained configs, the tasks and the halves of teach-ins keep their
\* types, for any devices, lists, mappings and numbers of attempts and faults.
THEOREM Typed == Spec => []TypeOK
  BY BaseInit, BaseStep, BaseSuffices, PTL DEF Spec

\* A device taught in however often, before or after failures and restarts, has one entry in
\* the list and one set of sensors: both ways in look for it, and loading keeps entries apart.
THEOREM OneOfEach == Spec => []NoDuplicates
  BY BaseInit, BaseStep, BaseSuffices, PTL DEF Spec
-----------------------------------------------------------------------------
(* Keys.                                                                   *)

WholeKey(key, d) == key[1] = key[2] \/ d \in dirty

LEMMA WritersOfDirty ==
  ASSUME [Next]_vars
  PROVE  \/ UNCHANGED dirty \/ Crash
         \/ \E d \in Devices : MissHalf(d) \/ \E copied \in BOOLEAN : HearHalf(d, copied) \/ HearPair(d, copied)
  BY DEF Next, vars, durable, history, Start, Starting, Connect, Break, Lost, SessionOver, MqttTask, ByM, ByE,
         Rest, Outside, HandleDelete,
         SubscribeRequest, Subscribing, Requested, SyncPublish, SyncUpsert, Upserted, Prune, System,
         LearnOn, LearnOff, Hearing, HearUte,
         RespondFails, Teaching, OnTeachIn, Answered, Provision, ProvisionPublish, ProvisionUpsert, ProvisionRaises,
         Persist, Writing, Announce, PersistFails, DeleteConfigs, SendSecureTeachIn, AddEntry, RemoveEntry

LEMMA DirtyGrows ==
  ASSUME [Next]_vars
  PROVE  dirty \subseteq dirty'
  BY WritersOfDirty DEF Crash, MissHalf, HearHalf, HearPair, HearingPair, Receive

\* What the next half does to a device that missed none
LEMMA NextHalf ==
  ASSUME Types, NEW d \in Devices, PairInv(d), air[d] # <<>>
  PROVE  IF Both(With(d))
           THEN With(d)[0] = With(d)[1] /\ Tail(air[d]) = <<>>
           ELSE /\ Len(Tail(air[d])) = 1 /\ Tail(air[d])[1].idx = 1 /\ Tail(air[d])[1].attempt # 0
                /\ With(d)[0] = Tail(air[d])[1].attempt /\ With(d)[1] = 0
  <1> DEFINE a == air[d]
             h == halves[d]
             t == Tail(a)
  <1>1. a \in Seq(Halves) /\ h \in [{0, 1} -> Nat] /\ a # <<>>
    BY TypesParts DEF RadioOK
  <1>2. /\ Len(a) \in Nat /\ Head(a) = a[1] /\ t \in Seq(Halves) /\ Len(t) = Len(a) - 1
        /\ \A i \in 1 .. Len(t) : t[i] = a[i + 1]
    BY <1>1, HeadTailProperties
  <1>3. With(d) = [h EXCEPT ![a[1].idx] = a[1].attempt]
    BY <1>2 DEF With
  <1>4. Len(a) = 2 => Len(t) = 1 /\ t[1] = a[2]
    BY <1>2
  <1>5. Len(a) = 1 => t = <<>>
    <2>1. Len(a) = 1 => Len(t) = 0
      BY <1>2
    <2>2. \A s \in Seq(Halves) : Len(s) = 0 => s = <<>>
      BY EmptySeq
    <2> HIDE DEF t, a
    <2> QED
      BY <1>2, <2>1, <2>2
  <1>6. PairInv(d) <=>
          \/ a = <<>> /\ h = NoHalves[d]
          \/ /\ Len(a) = 2 /\ a[1].attempt = a[2].attempt /\ a[1].attempt # 0
             /\ a[1].idx = 0 /\ a[2].idx = 1 /\ h = NoHalves[d]
          \/ Len(a) = 1 /\ a[1].idx = 1 /\ a[1].attempt # 0 /\ h[0] = a[1].attempt /\ h[1] = 0
    BY DEF PairInv
  <1>7. NoHalves[d][0] = 0 /\ NoHalves[d][1] = 0
    BY DEF NoHalves
  <1> HIDE DEF a, h, t
  <1>8. CASE /\ Len(a) = 2 /\ a[1].attempt = a[2].attempt /\ a[1].attempt # 0
             /\ a[1].idx = 0 /\ a[2].idx = 1 /\ h = NoHalves[d]
    <2>1. With(d)[0] = a[1].attempt /\ With(d)[1] = 0
      BY <1>1, <1>3, <1>7, <1>8
    <2>2. ~Both(With(d))
      BY <2>1 DEF Both
    <2> QED
      BY <1>4, <1>8, <2>1, <2>2 DEF a, t
  <1>9. CASE Len(a) = 1 /\ a[1].idx = 1 /\ a[1].attempt # 0 /\ h[0] = a[1].attempt /\ h[1] = 0
    <2>1. With(d)[0] = a[1].attempt /\ With(d)[1] = a[1].attempt
      BY <1>1, <1>3, <1>9
    <2>2. Both(With(d))
      BY <1>9, <2>1 DEF Both
    <2> QED
      BY <1>5, <1>9, <2>1, <2>2 DEF a, t
  <1> QED
    BY <1>1, <1>6, <1>8, <1>9

LEMMA PairStep ==
  ASSUME Types, \A d \in Devices \ dirty : PairInv(d), [Next]_vars, NEW b \in Devices \ dirty'
  PROVE  PairInv(b)'
  <1>0. RadioOK /\ ProcessOK
    BY TypesParts
  <1>1. PairInv(b)
    BY DirtyGrows
  <1>2. CASE air'[b] = air[b] /\ halves'[b] = halves[b]
    BY <1>1, <1>2 DEF PairInv
  <1>3. CASE Start
    BY <1>0, <1>2, <1>3 DEF Start, Starting, radio, ProcessOK
  <1>4. CASE Crash
    <2>1. halves[b] = NoHalves[b] /\ air' = air /\ halves' = NoHalves
      BY <1>4 DEF Crash, SessionOver, radio
    <2> QED
      BY <1>2, <2>1
  <1>5. ASSUME NEW d \in Devices, MissHalf(d) PROVE PairInv(b)'
    BY <1>0, <1>2, <1>5 DEF MissHalf, ByE, Rest, RadioOK
  <1>6. ASSUME NEW d \in Devices, SendSecureTeachIn(d) PROVE PairInv(b)'
    <2> DEFINE n == attempt[d] + 1
               two == << [attempt |-> n, idx |-> 0], [attempt |-> n, idx |-> 1] >>
    <2>1. air' = [air EXCEPT ![d] = air[d] \o two] /\ air[d] = <<>> /\ UNCHANGED halves
      BY <1>6 DEF SendSecureTeachIn, Outside
    <2>2. CASE b # d
      BY <1>0, <1>2, <2>1, <2>2 DEF RadioOK
    <2>3. CASE b = d
      <3>1. n \in Nat /\ n # 0
        BY <1>0 DEF RadioOK
      <3>2. two \in Seq(Halves) /\ Len(two) = 2 /\ two[1].attempt = n /\ two[2].attempt = n /\ two[1].idx = 0 /\ two[2].idx = 1
        BY <3>1, TwoHalves
      <3> HIDE DEF two, n
      <3>3. <<>> \o two = two
        BY <3>2, ConcatEmptySeq
      <3>4. air'[b] = two /\ halves'[b] = halves[b]
        BY <1>0, <2>1, <2>3, <3>3 DEF RadioOK
      <3>5. halves[b] = NoHalves[b]
        BY <1>1, <2>1, <2>3 DEF PairInv
      <3>6. NoHalves' = NoHalves
        BY DEF NoHalves
      <3> QED
        BY <3>1, <3>2, <3>4, <3>5, <3>6 DEF PairInv
    <2> QED
      BY <2>2, <2>3
  <1>7. ASSUME NEW d \in Devices, NEW copied \in BOOLEAN, HearHalf(d, copied) \/ HearPair(d, copied)
        PROVE  PairInv(b)'
    <2>1. CASE b # d
      BY <1>0, <1>2, <1>7, <2>1 DEF HearHalf, HearPair, HearingPair, Receive, RadioOK
    <2>2. CASE b = d
      <3>1. ~copied /\ air[d] # <<>> /\ air' = [air EXCEPT ![d] = Tail(air[d])]
        BY <1>7, <2>2 DEF HearHalf, HearPair, HearingPair, Receive
      <3>2. \/ ~Both(With(d)) /\ halves' = [halves EXCEPT ![d] = With(d)]
            \/ Both(With(d)) /\ halves' = [halves EXCEPT ![d] = NoHalves[d]]
        BY <1>7 DEF HearHalf, HearPair, HearingPair
      <3>3. air'[b] = Tail(air[d])
        BY <1>0, <2>2, <3>1 DEF RadioOK
      <3>4. CASE ~Both(With(d)) /\ halves' = [halves EXCEPT ![d] = With(d)]
        <4>1. halves'[b] = With(d)
          BY <1>0, <2>2, <3>4 DEF RadioOK
        <4> QED
          BY ZenonT(60), <1>1, <2>2, <3>1, <3>3, <3>4, <4>1, NextHalf DEF PairInv
      <3>5. CASE Both(With(d)) /\ halves' = [halves EXCEPT ![d] = NoHalves[d]]
        <4>1. halves'[b] = NoHalves[b]
          BY <1>0, <2>2, <3>5 DEF RadioOK
        <4>2. Tail(air[d]) = <<>>
          BY <1>1, <2>2, <3>1, <3>5, NextHalf
        <4>3. NoHalves' = NoHalves
          BY DEF NoHalves
        <4> QED
          BY <3>3, <4>1, <4>2, <4>3 DEF PairInv
      <3> QED
        BY <3>2, <3>4, <3>5
    <2> QED
      BY <2>1, <2>2
  <1>8. CASE UNCHANGED <<halves, air, attempt>>
    BY <1>2, <1>8
  <1> QED
    BY <1>3, <1>4, <1>5, <1>6, <1>7, <1>8, WritersOfRadio

\* The key of a pair is whole, unless a half was missed or this is a copy.
LEMMA PairWhole ==
  ASSUME Types, \A d \in Devices \ dirty : PairInv(d), [Next]_vars,
         NEW d \in Devices, NEW copied \in BOOLEAN, HearPair(d, copied)
  PROVE  With(d)[0] = With(d)[1] \/ d \in dirty'
  <1>1. air[d] # <<>> /\ Both(With(d)) /\ (d \in dirty => d \in dirty')
    BY DirtyGrows DEF HearPair, HearingPair, Receive
  <1>2. CASE d \notin dirty
    BY <1>1, <1>2, NextHalf
  <1> QED
    BY <1>1, <1>2

LEMMA SensorKeysStep ==
  ASSUME Base, KeyInv, [Next]_vars, NEW i \in 1 .. Len(sensors')
  PROVE  WholeKey(sensors[i].key, sensors[i].dev)'
  <1>0. Types /\ FileOK /\ SensorsOK /\ dirty \subseteq dirty' /\ \A d \in Devices \ dirty : PairInv(d)
    BY DirtyGrows DEF Base, KeyInv
  <1>1. \A j \in 1 .. Len(sensors) : sensors[j].key[1] = sensors[j].key[2] \/ sensors[j].dev \in dirty'
    BY <1>0 DEF KeyInv
  <1>2. NoKey \in Keys /\ NoKey[1] = NoKey[2]
    BY DEF NoKey, Keys
  <1>3. CASE UNCHANGED sensors
    BY <1>1, <1>3 DEF WholeKey
  <1>4. CASE Start
    <2>1. sensors' = LoadDevices(file)
      BY <1>4 DEF Start, Starting
    <2>2. Has(LoadDevices(file), sensors'[i])
      BY <2>1 DEF Has
    <2>3. PICK a : Has(file, a) /\ sensors'[i].dev = a.dev /\ sensors'[i].key \in {NoKey, a.key}
      BY <1>0, <2>2, LoadType DEF FileOK
    <2>4. a.key[1] = a.key[2] \/ a.dev \in dirty
      BY <2>3 DEF KeyInv, Has
    <2> QED
      BY <1>0, <1>2, <2>3, <2>4 DEF WholeKey
  <1>5. CASE Crash
    <2>1. sensors' = <<>> /\ Len(<<>>) = 0
      BY <1>5 DEF Crash
    <2> QED
      BY <2>1
  <1>6. ASSUME NEW d \in Devices, NEW key \in Keys, d \notin KnownDevices, Provision(d, key),
               key[1] = key[2] \/ d \in dirty'
        PROVE  WholeKey(sensors[i].key, sensors[i].dev)'
    <2>1. /\ Len(sensors') = Len(sensors) + 1 /\ \A j \in 1 .. Len(sensors) : sensors'[j] = sensors[j]
          /\ sensors'[Len(sensors) + 1] = [dev |-> d, part |-> "eep", key |-> key]
      BY <1>0, <1>6, ProvisionSensors
    <2>2. Len(sensors) \in Nat
      BY <1>0 DEF SensorsOK
    <2>3. i \in 1 .. Len(sensors) \/ i = Len(sensors) + 1
      BY <2>1, <2>2
    <2> QED
      BY <1>1, <1>6, <2>1, <2>3 DEF WholeKey
  <1>7. CASE OnTeachIn
    <2>1. CASE UNCHANGED sensors
      BY <1>3, <2>1
    <2>2. CASE e.dev \notin KnownDevices /\ Provision(e.dev, NoKey)
      <3>1. e.dev \in Devices
        BY <1>0, <1>7 DEF OnTeachIn, Answered, Types, TaskInv
      <3> QED
        BY <1>2, <1>6, <2>2, <3>1
    <2> QED
      BY <1>7, <2>1, <2>2 DEF OnTeachIn, Answered
  <1>8. ASSUME NEW d \in Devices, NEW copied \in BOOLEAN, HearPair(d, copied)
        PROVE  WholeKey(sensors[i].key, sensors[i].dev)'
    <2> DEFINE key == <<With(d)[0], With(d)[1]>>
    <2>1. key[1] = key[2] \/ d \in dirty'
      BY <1>0, <1>8, PairWhole
    <2>2. /\ key \in Keys
          /\ \/ /\ Len(sensors') = Len(sensors)
                /\ \A j \in 1 .. Len(sensors) :
                     /\ sensors'[j].dev = sensors[j].dev
                     /\ sensors'[j].key = sensors[j].key \/ (sensors'[j].key = key /\ sensors[j].dev = d)
             \/ d \notin KnownDevices /\ Provision(d, key)
      BY <1>0, <1>8, PairHeard
    <2> HIDE DEF key
    <2> QED
      BY <1>1, <1>6, <2>1, <2>2 DEF WholeKey
  <1> QED
    BY <1>3, <1>4, <1>5, <1>7, <1>8, WritersOfSensors

LEMMA FileKeysStep ==
  ASSUME Base, KeyInv, [Next]_vars, NEW i \in 1 .. Len(file')
  PROVE  WholeKey(file[i].key, file[i].dev)'
  <1>0. Types /\ FileOK /\ dirty \subseteq dirty' /\ file \in Seq(Entries) /\ Len(file) \in Nat
    BY DirtyGrows DEF Base, FileOK
  <1>1. \A j \in 1 .. Len(file) : file[j].key[1] = file[j].key[2] \/ file[j].dev \in dirty'
    BY <1>0 DEF KeyInv
  <1>2. CASE UNCHANGED file
    BY <1>1, <1>2 DEF WholeKey
  <1>3. ASSUME NEW a \in Entries, file' = Append(file, a), a.key[1] = a.key[2] \/ a.dev \in dirty'
        PROVE  WholeKey(file[i].key, file[i].dev)'
    <2>1. /\ Len(file') = Len(file) + 1 /\ file'[Len(file) + 1] = a
          /\ \A j \in 1 .. Len(file) : file'[j] = file[j]
      BY <1>0, <1>3, AppendProperties
    <2>2. i \in 1 .. Len(file) \/ i = Len(file) + 1
      BY <1>0, <2>1
    <2> QED
      BY <1>1, <1>3, <2>1, <2>2 DEF WholeKey
  <1>4. CASE Persist
    <2> DEFINE a == [dev |-> e.dev, key |-> e.key, by |-> "bridge"]
    <2>1. e.pc = "persist" /\ file' = IF InFile(e.dev) THEN file ELSE Append(file, a)
      BY <1>4 DEF Persist, Writing
    <2>2. a \in Entries
      BY <1>0, <2>1 DEF Types, TaskInv, Entries
    <2>3. a.key[1] = a.key[2] \/ a.dev \in dirty'
      BY <1>0, <2>1 DEF KeyInv
    <2> HIDE DEF a
    <2> QED
      BY <1>2, <1>3, <2>1, <2>2, <2>3
  <1>5. ASSUME NEW d \in Devices, AddEntry(d) PROVE WholeKey(file[i].key, file[i].dev)'
    <2>1. file' = Append(file, ByUser(d))
      BY <1>5 DEF AddEntry
    <2>2. ByUser(d) \in Entries /\ ByUser(d).key[1] = ByUser(d).key[2]
      BY DEF ByUser, Entries, NoKey, Keys
    <2> QED
      BY <1>3, <2>1, <2>2
  <1>6. ASSUME NEW d \in Devices, RemoveEntry(d) PROVE WholeKey(file[i].key, file[i].dev)'
    <2>1. file' = Only(file, {entry \in Entries : entry.dev # d})
      BY <1>6 DEF RemoveEntry
    <2>2. Has(file', file'[i])
      BY DEF Has
    <2>3. Has(file, file'[i])
      BY <1>0, <2>1, <2>2, OnlyMembers
    <2> QED
      BY <1>1, <2>3 DEF Has, WholeKey
  <1> QED
    BY <1>2, <1>4, <1>5, <1>6, WritersOfFile

LEMMA TeachKeyStep ==
  ASSUME Base, KeyInv, [Next]_vars, e'.pc # "idle"
  PROVE  WholeKey(e.key, e.dev)'
  <1>0. Types /\ SensorsOK /\ dirty \subseteq dirty' /\ \A d \in Devices \ dirty : PairInv(d)
    BY DirtyGrows DEF Base, KeyInv
  <1>1. CASE e.pc # "idle" /\ e'.key = e.key /\ e'.dev = e.dev
    BY <1>0, <1>1 DEF KeyInv, WholeKey
  <1>2. NoKey \in Keys /\ NoKey[1] = NoKey[2]
    BY DEF NoKey, Keys
  <1>3. CASE UNCHANGED e
    BY <1>1, <1>3
  <1>4. CASE Crash \/ Lost \/ RespondFails \/ ProvisionRaises \/ Announce
    BY <1>4, AwayType DEF Crash, Lost, SessionOver, RespondFails, ProvisionRaises, Announce
  <1>5. CASE ProvisionPublish \/ ProvisionUpsert \/ Persist \/ PersistFails
    <2>1. /\ e.pc # "idle"
          /\ \/ e' = [e EXCEPT !.work = Tail(@), !.pc = IF Len(e.work) = 1 THEN "subscribe" ELSE @]
             \/ e' = [e EXCEPT !.pc = "persist"] \/ e' = [e EXCEPT !.pc = "announce"]
      BY <1>5 DEF ProvisionPublish, ProvisionUpsert, Persist, Writing, PersistFails
    <2>2. e'.key = e.key /\ e'.dev = e.dev
      BY <1>0, <2>1, TypesParts DEF TeachOK
    <2> QED
      BY <1>1, <2>1, <2>2
  <1>6. CASE OnTeachIn
    <2>1. e.dev \in Devices
      BY <1>0, <1>6 DEF OnTeachIn, Answered, Types, TaskInv
    <2>2. e' = IdleE \/ Provision(e.dev, NoKey)
      BY <1>6 DEF OnTeachIn, Answered
    <2> QED
      BY <1>0, <1>2, <2>1, <2>2, AwayType, ProvisionType DEF WholeKey
  <1>7. ASSUME NEW d \in Devices, HearUte(d) PROVE WholeKey(e.key, e.dev)'
    BY <1>2, <1>7 DEF HearUte, IdleE, WholeKey
  <1>8. ASSUME NEW d \in Devices, NEW copied \in BOOLEAN, HearPair(d, copied) PROVE WholeKey(e.key, e.dev)'
    <2> DEFINE key == <<With(d)[0], With(d)[1]>>
    <2>1. key[1] = key[2] \/ d \in dirty'
      BY <1>0, <1>8, PairWhole
    <2>2. key \in Keys /\ (UNCHANGED e \/ Provision(d, key))
      BY <1>0, <1>8, PairHeard
    <2> HIDE DEF key
    <2>3. CASE Provision(d, key)
      <3>1. e'.dev = d /\ e'.key = key
        BY <1>0, <2>2, <2>3, ProvisionType
      <3> QED
        BY <2>1, <3>1 DEF WholeKey
    <2> QED
      BY <1>3, <2>2, <2>3
  <1> QED
    BY <1>3, <1>4, <1>5, <1>6, <1>7, <1>8, WritersOfE

LEMMA KeyInit ==
  ASSUME Init
  PROVE  KeyInv
  <1>1. \A d \in Devices : PairInv(d)
    BY DEF Init, PairInv
  <1>2. e.pc = "idle" /\ sensors = <<>> /\ Len(<<>>) = 0
    BY AwayType DEF Init
  <1>3. \A i \in 1 .. Len(file) : file[i].key[1] = file[i].key[2]
    BY InitList DEF NoKey
  <1> QED
    BY <1>1, <1>2, <1>3 DEF KeyInv

LEMMA KeyStep == Base /\ KeyInv /\ [Next]_vars => KeyInv'
<1> SUFFICES ASSUME Base, KeyInv, [Next]_vars PROVE KeyInv'
  OBVIOUS
<1>1. \A d \in Devices \ dirty' : PairInv(d)'
  BY PairStep DEF Base, KeyInv
<1> QED
  BY <1>1, SensorKeysStep, FileKeysStep, TeachKeyStep DEF KeyInv, WholeKey

LEMMA KeySuffices == Base /\ KeyInv => KeysWhole
<1> SUFFICES ASSUME Base, KeyInv, NEW s \in ToSet(sensors) \cup ToSet(file)
             PROVE  s.key[1] = s.key[2] \/ s.dev \in dirty
  BY DEF KeysWhole
<1>1. DOMAIN file = 1 .. Len(file) /\ DOMAIN sensors = 1 .. Len(sensors)
  BY DEF Base, FileOK, SensorsOK
<1> QED
  BY <1>1 DEF KeyInv, ToSet

\* A key that a sensor or an entry has is from the two halves of one teach-in, for any number of
\* devices and attempts, unless a half of the device was missed, forgotten or heard twice.
THEOREM KeysAreWhole == Spec => []KeysWhole
  BY BaseInit, BaseStep, KeyInit, KeyStep, KeySuffices, PTL DEF Spec
-----------------------------------------------------------------------------
(* Request topics.                                                         *)

LEMMA WritersOfSession ==
  ASSUME [Next]_vars
  PROVE  \/ Crash \/ Lost \/ Connect
         \/ subs \subseteq subs' /\ fresh \subseteq fresh'
  BY ZenonT(60) DEF Next, vars, durable, history, Start, Starting, Break, MqttTask, ByM, ByE,
         Rest, Outside, HandleDelete,
         SubscribeRequest, Subscribing, Requested, SyncPublish, SyncUpsert, Upserted, Prune, System,
         LearnOn, LearnOff, Hearing, HearUte, MissHalf, HearHalf, HearPair, HearingPair, Receive,
         RespondFails, Teaching, OnTeachIn, Answered, Provision, ProvisionPublish, ProvisionUpsert, ProvisionRaises,
         Persist, Writing, Announce, PersistFails, DeleteConfigs, SendSecureTeachIn, AddEntry, RemoveEntry

\* What has become of a sensor of the list, while the process goes on
LEMMA SensorKept ==
  ASSUME Base, [Next]_vars, ~Start, ~Crash
  PROVE  /\ Len(sensors) \in Nat /\ Len(sensors') \in Nat
         /\ \/ Len(sensors') = Len(sensors)
            \/ Len(sensors') = Len(sensors) + 1 /\ sensors'[Len(sensors')].dev \in fresh' \cap touched'
         /\ \A i \in 1 .. Len(sensors) : sensors'[i].dev = sensors[i].dev /\ sensors'[i].part = sensors[i].part
  <1>0. Types /\ SensorsOK /\ SensorsOK' /\ Len(sensors) \in Nat /\ Len(sensors') \in Nat
    BY BaseStep DEF Base, SensorsOK
  <1>1. CASE UNCHANGED sensors
    BY <1>0, <1>1
  <1>2. ASSUME NEW d \in Devices, NEW key \in Keys, d \notin KnownDevices, Provision(d, key)
        PROVE  /\ Len(sensors') = Len(sensors) + 1 /\ sensors'[Len(sensors')].dev \in fresh' \cap touched'
               /\ \A i \in 1 .. Len(sensors) : sensors'[i] = sensors[i]
    <2>1. d \in fresh' \cap touched'
      BY <1>2 DEF Provision
    <2>2. /\ Len(sensors') = Len(sensors) + 1 /\ \A i \in 1 .. Len(sensors) : sensors'[i] = sensors[i]
          /\ sensors'[Len(sensors) + 1] = [dev |-> d, part |-> "eep", key |-> key]
      BY <1>0, <1>2, ProvisionSensors
    <2>3. sensors'[Len(sensors')].dev = d
      BY <2>2
    <2> QED
      BY <2>1, <2>2, <2>3
  <1>3. CASE OnTeachIn
    <2>1. CASE e.dev \notin KnownDevices /\ Provision(e.dev, NoKey)
      <3>1. e.dev \in Devices /\ NoKey \in Keys
        BY <1>0, <1>3 DEF OnTeachIn, Answered, Types, TaskInv, NoKey, Keys
      <3> QED
        BY <1>0, <1>2, <2>1, <3>1
    <2> QED
      BY <1>1, <1>3, <2>1 DEF OnTeachIn, Answered
  <1>4. ASSUME NEW d \in Devices, NEW copied \in BOOLEAN, HearPair(d, copied)
        PROVE  \/ /\ Len(sensors') = Len(sensors)
                  /\ \A i \in 1 .. Len(sensors) : sensors'[i].dev = sensors[i].dev /\ sensors'[i].part = sensors[i].part
               \/ \E key \in Keys : d \notin KnownDevices /\ Provision(d, key)
    <2> DEFINE key == <<With(d)[0], With(d)[1]>>
    <2>1. /\ key \in Keys
          /\ \/ /\ Len(sensors') = Len(sensors)
                /\ \A i \in 1 .. Len(sensors) : sensors'[i].dev = sensors[i].dev /\ sensors'[i].part = sensors[i].part
             \/ d \notin KnownDevices /\ Provision(d, key)
      BY <1>0, <1>4, PairHeard
    <2> HIDE DEF key
    <2> QED
      BY <2>1
  <1> QED
    BY <1>0, <1>1, <1>2, <1>3, <1>4, WritersOfSensors

LEMMA HeardStep == Base /\ HeardInv /\ [Next]_vars => HeardInv'
<1> SUFFICES ASSUME Base, HeardInv, [Next]_vars PROVE HeardInv'
  OBVIOUS
<1>0. Base' /\ Types /\ SensorsOK /\ ProcessOK /\ MqttOK /\ Len(sensors) \in Nat
  BY BaseStep, TypesParts DEF Base, SensorsOK
<1>1. CASE Crash \/ Lost \/ Start
  <2>1. m'.pc = "away"
    BY <1>0, <1>1, AwayType DEF Crash, Lost, SessionOver, Start, Starting, ProcessOK
  <2> QED
    BY <2>1 DEF HeardInv
<1>2. CASE Connect
  <2>1. m'.pc = "req" /\ m'.at = 1
    BY <1>2 DEF Connect, AwayM
  <2>2. \A i \in 1 .. Len(sensors') : ~(i < 1)
    OBVIOUS
  <2> QED
    BY <2>1, <2>2 DEF HeardInv
<1>3. CASE ~Crash /\ ~Lost /\ ~Start /\ ~Connect
  <2>1. subs \subseteq subs' /\ fresh \subseteq fresh'
    BY <1>3, WritersOfSession
  <2>2. \A i \in 1 .. Len(sensors) : Heard(i) => Heard(i)'
    BY <1>3, <2>1, SensorKept DEF Heard
  <2>3. ASSUME NEW i \in 1 .. Len(sensors') PROVE i \in 1 .. Len(sensors) \/ Heard(i)'
    <3>1. \/ Len(sensors') = Len(sensors)
          \/ Len(sensors') = Len(sensors) + 1 /\ sensors'[Len(sensors')].dev \in fresh'
      BY <1>3, SensorKept
    <3>2. i \in 1 .. Len(sensors) \/ (i = Len(sensors') /\ Len(sensors') = Len(sensors) + 1)
      BY <1>0, <3>1
    <3> QED
      BY <1>0, <3>1, <3>2 DEF Heard
  <2>4. CASE SubscribeRequest
    <3>1. /\ m.pc = "req" /\ m'.pc = "req" /\ m'.at = m.at + 1 /\ UNCHANGED sensors /\ m.at \in Nat
          /\ subs' = subs \cup {<<"req", sensors[m.at].dev, sensors[m.at].part>>}
      BY <1>0, <2>4 DEF SubscribeRequest, Subscribing, Request, At, ByM, MqttOK
    <3>2. ASSUME NEW i \in 1 .. Len(sensors), i < m.at + 1 PROVE Heard(i)'
      <4>1. i = m.at \/ i < m.at
        BY <3>1, <3>2
      <4>2. CASE i = m.at
        BY <3>1, <4>2 DEF Heard
      <4>3. CASE i < m.at
        BY <2>2, <3>1, <4>3 DEF HeardInv
      <4> QED
        BY <4>1, <4>2, <4>3
    <3> QED
      BY <3>1, <3>2 DEF HeardInv
  <2>5. CASE Requested
    <3>1. m.pc = "req" /\ m.at > Len(sensors) /\ m.at \in Nat /\ UNCHANGED sensors
      BY <1>0, <2>5 DEF Requested, ByM, MqttOK
    <3>2. \A i \in 1 .. Len(sensors) : i < m.at
      BY <1>0, <3>1
    <3>3. \A i \in 1 .. Len(sensors) : Heard(i)'
      BY <2>2, <3>1, <3>2 DEF HeardInv
    <3> QED
      BY <3>1, <3>3 DEF HeardInv
  <2>6. CASE SyncPublish \/ SyncUpsert \/ Prune \/ System
    <3>1. m.pc \notin {"away", "req"} /\ m'.pc \notin {"away", "req"}
      BY <2>6, SyncFromWhere DEF SyncPublish, SyncUpsert, Upserted, Prune, System, At
    <3> QED
      BY <2>2, <2>3, <3>1 DEF HeardInv
  <2>7. CASE UNCHANGED m
    <3>1. m.pc = "req" => \A i \in 1 .. Len(sensors') : i < m.at => Heard(i)'
      BY <2>2, <2>3 DEF HeardInv
    <3> QED
      BY <2>2, <2>3, <2>7, <3>1 DEF HeardInv
  <2> QED
    BY <1>3, <2>4, <2>5, <2>6, <2>7, WritersOfM
<1> QED
  BY <1>1, <1>2, <1>3

LEMMA HeardInit == Init => HeardInv
  BY AwayType DEF Init, HeardInv

LEMMA HeardSuffices == Base /\ HeardInv => RequestsHeard
<1> SUFFICES ASSUME Base, HeardInv PROVE RequestsHeard
  OBVIOUS
<1>1. DOMAIN sensors = 1 .. Len(sensors)
  BY DEF Base, SensorsOK
<1> QED
  BY <1>1 DEF HeardInv, Heard, RequestsHeard

\* Once a connection serves, every sensor of the list has its request topic subscribed to,
\* whatever joined the list meanwhile, but for devices met since the broker connected.
THEOREM AllRequestsHeard == Spec => []RequestsHeard
  BY BaseInit, BaseStep, HeardInit, HeardStep, HeardSuffices, PTL DEF Spec
-----------------------------------------------------------------------------
(* Broker, store and mapping.                                              *)

LEMMA WritersOfSubs ==
  ASSUME [Next]_vars
  PROVE  UNCHANGED subs \/ Crash \/ Lost \/ SubscribeRequest \/ SyncUpsert \/ System \/ ProvisionUpsert
  BY ZenonT(60) DEF Next, vars, durable, history, radio, ByM, ByE, Rest, Outside, Start, Starting, Connect, Break,
         MqttTask, Requested, SyncPublish, Prune, HandleDelete, LearnOn, LearnOff, Hearing, HearUte,
         MissHalf, HearHalf, HearPair, HearingPair, Receive, RespondFails, Teaching, OnTeachIn,
         Answered, Provision, ProvisionPublish, ProvisionRaises, Persist, Writing, Announce,
         PersistFails, DeleteConfigs, SendSecureTeachIn, AddEntry, RemoveEntry

LEMMA WritersOfInbox ==
  ASSUME [Next]_vars
  PROVE  UNCHANGED inbox \/ Crash \/ Lost \/ \E d \in Devices : HandleDelete(d) \/ DeleteConfigs(d)
  BY ZenonT(60) DEF Next, vars, durable, history, radio, ByM, ByE, Rest, Outside, Start, Starting, Connect, Break,
         MqttTask, SubscribeRequest, Subscribing, Requested, SyncPublish, SyncUpsert, Upserted, Prune,
         System, LearnOn, LearnOff, Hearing, HearUte, MissHalf, HearHalf, HearPair, HearingPair,
         Receive, RespondFails, Teaching, OnTeachIn, Answered, Provision, ProvisionPublish,
         ProvisionUpsert, ProvisionRaises, Persist, Writing, Announce, PersistFails, SendSecureTeachIn,
         AddEntry, RemoveEntry

LEMMA WritersOfRows ==
  ASSUME [Next]_vars
  PROVE  UNCHANGED rows \/ SyncUpsert \/ Prune \/ ProvisionUpsert \/ \E d \in Devices : HandleDelete(d)
  BY ZenonT(60) DEF Next, vars, durable, history, radio, ByM, ByE, Rest, Outside, Start, Starting, Crash, Connect,
         Break, Lost, SessionOver, MqttTask, SubscribeRequest, Subscribing, Requested, SyncPublish,
         System, LearnOn, LearnOff, Hearing, HearUte, MissHalf, HearHalf, HearPair, HearingPair,
         Receive, RespondFails, Teaching, OnTeachIn, Answered, Provision, ProvisionPublish,
         ProvisionRaises, Persist, Writing, Announce, PersistFails, DeleteConfigs, SendSecureTeachIn,
         AddEntry, RemoveEntry

LEMMA WritersOfRetained ==
  ASSUME [Next]_vars
  PROVE  UNCHANGED retained \/ SyncPublish \/ Prune \/ ProvisionPublish \/ \E d \in Devices : DeleteConfigs(d)
  BY ZenonT(60) DEF Next, vars, durable, history, radio, ByM, ByE, Rest, Outside, Start, Starting, Crash, Connect,
         Break, Lost, SessionOver, MqttTask, SubscribeRequest, Subscribing, Requested, SyncUpsert,
         Upserted, System, HandleDelete, LearnOn, LearnOff, Hearing, HearUte, MissHalf, HearHalf,
         HearPair, HearingPair, Receive, RespondFails, Teaching, OnTeachIn, Answered, Provision,
         ProvisionUpsert, ProvisionRaises, Persist, Writing, Announce, PersistFails, SendSecureTeachIn,
         AddEntry, RemoveEntry

LEMMA WritersOfTouched ==
  ASSUME [Next]_vars
  PROVE  touched \subseteq touched' \/ (Requested /\ first)
  BY ZenonT(60) DEF Next, vars, durable, history, radio, ByM, ByE, Rest, Outside, Start, Starting, Crash, Connect,
         Break, Lost, SessionOver, MqttTask, SubscribeRequest, Subscribing, SyncPublish, SyncUpsert,
         Upserted, Prune, Requested, System, HandleDelete, LearnOn, LearnOff, Hearing, HearUte, MissHalf, HearHalf,
         HearPair, HearingPair, Receive, RespondFails, Teaching, OnTeachIn, Answered, Provision,
         ProvisionPublish, ProvisionUpsert, ProvisionRaises, Persist, Writing, Announce, PersistFails,
         DeleteConfigs, SendSecureTeachIn, AddEntry, RemoveEntry

LEMMA WritersOfVersion ==
  ASSUME [Next]_vars
  PROVE  UNCHANGED version \/ Start
  BY ZenonT(60) DEF Next, vars, durable, history, radio, ByM, ByE, Rest, Outside, Crash, Connect, Break, Lost,
         SessionOver, MqttTask, SubscribeRequest, Subscribing, Requested, SyncPublish, SyncUpsert,
         Upserted, Prune, System, HandleDelete, LearnOn, LearnOff, Hearing, HearUte, MissHalf, HearHalf,
         HearPair, HearingPair, Receive, RespondFails, Teaching, OnTeachIn, Answered, Provision,
         ProvisionPublish, ProvisionUpsert, ProvisionRaises, Persist, Writing, Announce, PersistFails,
         DeleteConfigs, SendSecureTeachIn, AddEntry, RemoveEntry

LEMMA CurrentSame == UNCHANGED version => Current' = Current
  BY DEF Current

\* A teach-in that goes on is about a device that is a sensor.
TeachKnown == e.pc \in {"discover", "subscribe", "persist", "announce"} => e.dev \in KnownDevices

\* Known devices stay known as long as the process, and those that join have been touched.
LEMMA KnownStep ==
  ASSUME Base, [Next]_vars, ~Start, ~Crash
  PROVE  KnownDevices \subseteq KnownDevices' /\ KnownDevices' \ KnownDevices \subseteq touched'
  <1>1. DOMAIN sensors = 1 .. Len(sensors) /\ DOMAIN sensors' = 1 .. Len(sensors')
    BY BaseStep DEF Base, SensorsOK
  <1>2. /\ Len(sensors) \in Nat /\ Len(sensors') \in Nat
        /\ \/ Len(sensors') = Len(sensors)
           \/ Len(sensors') = Len(sensors) + 1 /\ sensors'[Len(sensors')].dev \in fresh' \cap touched'
        /\ \A i \in 1 .. Len(sensors) : sensors'[i].dev = sensors[i].dev
    BY SensorKept
  <1>3. ASSUME NEW d \in KnownDevices PROVE d \in KnownDevices'
    <2>1. PICK i \in 1 .. Len(sensors) : sensors[i].dev = d
      BY <1>1, <1>3 DEF KnownDevices
    <2>2. i \in 1 .. Len(sensors') /\ sensors'[i].dev = d
      BY <1>2, <2>1
    <2> QED
      BY <1>1, <2>2 DEF KnownDevices
  <1>4. ASSUME NEW d \in KnownDevices', d \notin KnownDevices PROVE d \in touched'
    <2>1. PICK i \in 1 .. Len(sensors') : sensors'[i].dev = d
      BY <1>1, <1>4 DEF KnownDevices
    <2>2. i \in 1 .. Len(sensors) \/ (i = Len(sensors') /\ Len(sensors') = Len(sensors) + 1)
      BY <1>2
    <2> QED
      BY <1>1, <1>2, <1>4, <2>1, <2>2 DEF KnownDevices
  <1> QED
    BY <1>3, <1>4

LEMMA TeachKnownStep ==
  ASSUME Base, TeachKnown, [Next]_vars
  PROVE  TeachKnown'
  <1>0. Types /\ SensorsOK /\ ProcessOK
    BY TypesParts DEF Base
  <1>1. CASE e'.pc = "idle" \/ e'.pc = "respond"
    BY <1>1 DEF TeachKnown
  <1>2. CASE Crash \/ Lost \/ RespondFails \/ ProvisionRaises \/ Announce
    BY <1>1, <1>2, AwayType DEF Crash, Lost, SessionOver, RespondFails, ProvisionRaises, Announce
  <1>3. CASE Start
    BY <1>0, <1>1, <1>3 DEF Start, Starting, ProcessOK
  <1>4. CASE ~Start /\ ~Crash /\ e'.dev = e.dev /\ e.pc \in {"discover", "subscribe", "persist", "announce"}
    BY <1>4, KnownStep DEF TeachKnown
  <1>5. CASE UNCHANGED e
    BY <1>0, <1>1, <1>2, <1>3, <1>4, <1>5 DEF TeachKnown, Types, TypeOK
  <1>6. CASE ProvisionPublish \/ ProvisionUpsert \/ Persist \/ PersistFails
    <2>1. /\ e.pc \in {"discover", "subscribe", "persist", "announce"} /\ UNCHANGED sensors
          /\ \/ e' = [e EXCEPT !.work = Tail(@), !.pc = IF Len(e.work) = 1 THEN "subscribe" ELSE @]
             \/ e' = [e EXCEPT !.pc = "persist"] \/ e' = [e EXCEPT !.pc = "announce"]
      BY <1>6 DEF ProvisionPublish, ProvisionUpsert, Persist, Writing, PersistFails
    <2>2. e'.dev = e.dev
      BY <1>0, <2>1, TypesParts DEF TeachOK
    <2>3. KnownDevices' = KnownDevices
      BY <2>1 DEF KnownDevices
    <2> QED
      BY <2>1, <2>2, <2>3 DEF TeachKnown
  <1>7. ASSUME NEW d \in Devices, NEW key \in Keys, d \notin KnownDevices, Provision(d, key) PROVE TeachKnown'
    <2>1. e'.dev = d /\ KnownDevices' = KnownDevices \cup {d}
      BY <1>0, <1>7, ProvisionType, ProvisionSensors
    <2> QED
      BY <2>1 DEF TeachKnown
  <1>8. CASE OnTeachIn
    <2>1. e.dev \in Devices /\ NoKey \in Keys
      BY <1>0, <1>8 DEF OnTeachIn, Answered, Types, TaskInv, NoKey, Keys
    <2>2. e' = IdleE \/ (e.dev \notin KnownDevices /\ Provision(e.dev, NoKey))
      BY <1>8 DEF OnTeachIn, Answered
    <2> QED
      BY <1>1, <1>7, <2>1, <2>2, AwayType
  <1>9. ASSUME NEW d \in Devices, HearUte(d) PROVE TeachKnown'
    <2>1. e'.pc = "respond"
      BY <1>9 DEF HearUte, IdleE
    <2> QED
      BY <1>1, <2>1
  <1>10. ASSUME NEW d \in Devices, NEW copied \in BOOLEAN, HearPair(d, copied) PROVE TeachKnown'
    <2> DEFINE key == <<With(d)[0], With(d)[1]>>
    <2>1. key \in Keys /\ (UNCHANGED e \/ (d \notin KnownDevices /\ Provision(d, key)))
      BY <1>0, <1>10, PairHeard
    <2> HIDE DEF key
    <2> QED
      BY <1>5, <1>7, <2>1
  <1> QED
    BY <1>2, <1>5, <1>6, <1>8, <1>9, <1>10, WritersOfE

LEMMA HasTail ==
  ASSUME NEW T, NEW s \in Seq(T), s # <<>>
  PROVE  /\ Head(s) \in T /\ Tail(s) \in Seq(T) /\ Head(s) = s[1] /\ Len(s) \in Nat \ {0} /\ Len(Tail(s)) = Len(s) - 1
         /\ \A k \in 1 .. Len(Tail(s)) : k + 1 \in 1 .. Len(s) /\ Tail(s)[k] = s[k + 1]
         /\ \A x : Has(s, x) <=> x = Head(s) \/ Has(Tail(s), x)
  <1> DEFINE t == Tail(s)
  <1>1. /\ Head(s) \in T /\ Head(s) = s[1] /\ Len(s) \in Nat \ {0} /\ t \in Seq(T) /\ Len(t) = Len(s) - 1
        /\ \A k \in 1 .. Len(t) : t[k] = s[k + 1]
    BY HeadTailProperties, EmptySeq
  <1> HIDE DEF t
  <1>2. \A k \in 1 .. Len(t) : k + 1 \in 1 .. Len(s)
    BY <1>1
  <1>3. ASSUME NEW x, Has(s, x) PROVE x = Head(s) \/ Has(t, x)
    <2>1. PICK k \in 1 .. Len(s) : s[k] = x
      BY <1>3 DEF Has
    <2>2. CASE k = 1
      BY <1>1, <2>1, <2>2
    <2>3. CASE k # 1
      <3>1. k - 1 \in 1 .. Len(t) /\ t[k - 1] = x
        BY <1>1, <2>1, <2>3
      <3> QED
        BY <3>1 DEF Has
    <2> QED
      BY <2>2, <2>3
  <1>4. ASSUME NEW x, x = Head(s) \/ Has(t, x) PROVE Has(s, x)
    <2>1. 1 \in 1 .. Len(s)
      BY <1>1
    <2> QED
      BY <1>1, <1>2, <1>4, <2>1 DEF Has
  <1> QED
    BY <1>1, <1>2, <1>3, <1>4 DEF t

\* The inductive invariant behind ConfigsListed and SyncRepairs
Repair ==
  /\ Base /\ TeachKnown
  /\ SubsInv /\ SyncWork /\ TeachWork /\ LoopInv /\ PruneInv /\ ServedInv /\ ConfigsListed

\* The subscriptions a step may add
LEMMA SubsAdded ==
  ASSUME Repair, [Next]_vars, NEW d \in Devices, <<"config", d>> \in subs', <<"config", d>> \notin subs
  PROVE  \/ SyncUpsert /\ m.pc = "subscribe" /\ d = sensors[m.at].dev
         \/ ProvisionUpsert /\ d = e.dev
  <1>1. ~(Crash \/ Lost)
    BY DEF Crash, Lost, SessionOver
  <1>2. ~SubscribeRequest
    BY DEF SubscribeRequest, Subscribing, Request
  <1>3. ~System
    BY DEF System
  <1>4. SyncUpsert => m.pc = "subscribe" /\ d = sensors[m.at].dev
    BY DEF SyncUpsert, Upserted
  <1>5. ProvisionUpsert => d = e.dev
    BY DEF ProvisionUpsert
  <1> QED
    BY <1>1, <1>2, <1>3, <1>4, <1>5, WritersOfSubs

\* While the synchronisation runs the other task does nothing.
LEMMA SyncAlone ==
  ASSUME Repair, m.pc \in {"discover", "subscribe", "prune"}
  PROVE  /\ e.pc = "idle" /\ ~learn /\ up /\ first
         /\ ~ProvisionPublish /\ ~ProvisionUpsert /\ ~ProvisionRaises /\ ~OnTeachIn
         /\ \A d, copied : ~HearPair(d, copied)
  <1>1. e.pc = "idle" /\ ~learn /\ up /\ first
    BY DEF Repair, Base, SyncInv
  <1> QED
    BY <1>1 DEF ProvisionPublish, ProvisionUpsert, ProvisionRaises, OnTeachIn, Answered, HearPair, HearingPair

LEMMA SyncDevice ==
  ASSUME Repair, m.pc \in {"discover", "subscribe"}
  PROVE  /\ m.at \in 1 .. Len(sensors) /\ sensors[m.at].dev \in Devices /\ sensors[m.at].dev \in KnownDevices
         /\ ~Discovered(m.at) /\ <<"config", sensors[m.at].dev>> \notin subs
  <1>1. m.at \in 1 .. Len(sensors) /\ Types
    BY TypesParts DEF Repair, Base, MqttOK, SensorsOK
  <1>2. sensors[m.at].dev \in Devices /\ sensors[m.at].dev \in KnownDevices
    BY <1>1, SensorAt
  <1> QED
    BY <1>1, <1>2 DEF Repair, SubsInv, Discovered

\* A discovery is about a device that is a sensor.
LEMMA DiscoveryKnown ==
  ASSUME Repair
  PROVE  InDiscovery \subseteq KnownDevices
  BY SyncDevice DEF Repair, TeachKnown, InDiscovery

\* Where the steps of the MQTT task lead
LEMMA StepsOfM ==
  /\ Connect => m'.pc = "req" /\ m'.at = 1
  /\ SubscribeRequest => m.pc = "req" /\ m'.pc = "req"
  /\ Requested => m.pc = "req" /\ m'.pc \in {"discover", "prune", "serving"}
  /\ SyncPublish => m.pc = "discover" /\ m'.pc \in {"discover", "subscribe"}
  /\ SyncUpsert => m.pc = "subscribe" /\ m'.pc \in {"discover", "prune"}
  /\ Prune => m.pc = "prune" /\ m'.pc = "prune"
  /\ System => m.pc = "prune" /\ m'.pc = "serving"
  <1>1. Connect => m'.pc = "req" /\ m'.at = 1
    BY DEF Connect, AwayM
  <1>2. SubscribeRequest => m.pc = "req" /\ m'.pc = "req"
    BY DEF SubscribeRequest, Subscribing, At
  <1>3. Requested => m.pc = "req" /\ m'.pc \in {"discover", "prune", "serving"}
    <2>1. ASSUME Requested, first PROVE m'.pc \in {"discover", "prune"}
      BY <2>1, SyncFromWhere DEF Requested
    <2> QED
      BY <2>1 DEF Requested, At
  <1>4. SyncPublish => m.pc = "discover" /\ m'.pc \in {"discover", "subscribe"}
    BY DEF SyncPublish, At
  <1>5. SyncUpsert => m.pc = "subscribe" /\ m'.pc \in {"discover", "prune"}
    BY SyncFromWhere DEF SyncUpsert, Upserted
  <1>6. Prune => m.pc = "prune" /\ m'.pc = "prune"
    BY DEF Prune, At
  <1>7. System => m.pc = "prune" /\ m'.pc = "serving"
    BY DEF System, At
  <1> QED
    BY <1>1, <1>2, <1>3, <1>4, <1>5, <1>6, <1>7

LEMMA SubsAway ==
  ASSUME Repair, [Next]_vars, m'.pc = "away"
  PROVE  subs' = {} /\ inbox' = {}
  <1>1. CASE Crash \/ Lost
    BY <1>1 DEF Crash, Lost, SessionOver
  <1>2. CASE ~Crash /\ ~Lost
    <2>1. m' = m
      BY <1>2, WritersOfM, StepsOfM
    <2>2. m.pc = "away" /\ conn = "away" /\ subs = {} /\ inbox = {}
      BY <2>1, TypesParts DEF Repair, Base, SubsInv, ProcessOK
    <2>3. subs' = subs
      BY <1>2, <2>2, WritersOfSubs DEF SubscribeRequest, Subscribing, SyncUpsert, Upserted, System, ProvisionUpsert
    <2>4. inbox' = inbox
      BY <1>2, <2>2, WritersOfInbox DEF HandleDelete, DeleteConfigs
    <2> QED
      BY <2>2, <2>3, <2>4
  <1> QED
    BY <1>1, <1>2

LEMMA SubsKnown ==
  ASSUME Repair, [Next]_vars, NEW d \in Devices, <<"config", d>> \in subs'
  PROVE  d \in KnownDevices'
  <1>1. d \in KnownDevices
    <2>1. CASE <<"config", d>> \in subs
      BY <2>1 DEF Repair, SubsInv
    <2>2. CASE SyncUpsert /\ m.pc = "subscribe" /\ d = sensors[m.at].dev
      BY <2>2, SyncDevice
    <2>3. CASE ProvisionUpsert /\ d = e.dev
      BY <2>3 DEF ProvisionUpsert, Repair, TeachKnown
    <2> QED
      BY <2>1, <2>2, <2>3, SubsAdded
  <1>2. ~Crash
    BY DEF Crash, SessionOver
  <1>3. ~Start
    <2>1. ASSUME Start PROVE FALSE
      <3>1. m.pc = "away" /\ subs' = subs
        BY <2>1, TypesParts DEF Start, Starting, Repair, Base, ProcessOK
      <3> QED
        BY <3>1 DEF Repair, SubsInv
    <2> QED
      BY <2>1
  <1> QED
    BY <1>1, <1>2, <1>3, KnownStep DEF Repair

LEMMA SubsFirst ==
  ASSUME Repair, [Next]_vars, first', m'.pc = "req", NEW d \in Devices
  PROVE  <<"config", d>> \notin subs'
  <1>1. ~Crash /\ ~Lost
    BY AwayType DEF Crash, Lost, SessionOver
  <1>2. CASE Connect
    BY <1>2, TypesParts DEF Connect, Repair, Base, ProcessOK, SubsInv
  <1>3. CASE m.pc = "req"
    <2>1. first
      <3>1. ~Start
        BY <1>3, TypesParts DEF Start, Starting, Repair, Base, ProcessOK
      <3> QED
        BY <1>1, <3>1, WritersOfSwitches DEF System, LearnOn, LearnOff
    <2>2. e.pc = "idle"
      BY <2>1 DEF Repair, Base, SyncInv
    <2>3. <<"config", d>> \notin subs
      BY <1>3, <2>1 DEF Repair, SubsInv
    <2> QED
      BY <1>3, <2>2, <2>3, SubsAdded DEF ProvisionUpsert
  <1>4. m'.pc = "req" => Connect \/ m.pc = "req"
    BY <1>1, WritersOfM, StepsOfM
  <1> QED
    BY <1>2, <1>3, <1>4

\* The loop has come to a device not discovered before, and only those before it have
\* subscriptions.
LEMMA SubsLoop ==
  ASSUME Repair, [Next]_vars, m'.pc \in {"discover", "subscribe"}
  PROVE  /\ ~Discovered(m.at)'
         /\ \A d \in Devices : <<"config", d>> \in subs' => \E j \in 1 .. m'.at - 1 : sensors'[j].dev = d
  <1>0. Types
    BY DEF Repair, Base
  <1>1. ~Crash /\ ~Lost /\ ~Connect /\ ~Prune /\ ~System /\ ~SubscribeRequest
    BY AwayType DEF Crash, Lost, SessionOver, Connect, AwayM, Prune, System, SubscribeRequest, Subscribing, At
  <1>2. CASE Requested
    <2>1. first /\ m.pc = "req" /\ SyncFrom(1, leftover') /\ UNCHANGED <<sensors, subs>> /\ leftover' \in SUBSET Devices
      BY <1>2 DEF Requested, ByM, At
    <2>2. ~Discovered(m'.at)
      BY <1>0, <2>1, SyncFromNext
    <2>3. \A d \in Devices : <<"config", d>> \notin subs
      BY <2>1 DEF Repair, SubsInv
    <2> QED
      BY <2>1, <2>2, <2>3 DEF Discovered
  <1>3. CASE SyncUpsert
    <2> DEFINE b == sensors[m.at].dev
               left == leftover \ {b}
    <2>1. m.pc = "subscribe" /\ SyncFrom(m.at + 1, left) /\ UNCHANGED sensors /\ subs' = subs \cup {<<"config", b>>}
      BY <1>3 DEF SyncUpsert, Upserted, ByM
    <2>2. m.at \in 1 .. Len(sensors) /\ Len(sensors) \in Nat
      BY <1>0, <2>1, SyncDevice, TypesParts, LenProperties
    <2>3. m.at + 1 \in Nat \ {0} /\ left \in SUBSET Devices
      BY <1>0, <2>2, TypesParts DEF ProcessOK
    <2> HIDE DEF left
    <2>4. m'.at \in m.at + 1 .. Len(sensors) /\ ~Discovered(m'.at)
      BY <1>0, <2>1, <2>3, SyncFromNext
    <2>5. \A j \in 1 .. m.at - 1 : j \in 1 .. m'.at - 1
      BY <2>2, <2>4
    <2>6. m.at \in 1 .. m'.at - 1
      BY <2>2, <2>4
    <2>7. \A d \in Devices : <<"config", d>> \in subs => \E j \in 1 .. m.at - 1 : sensors[j].dev = d
      BY <2>1 DEF Repair, SubsInv
    <2>8. ASSUME NEW d \in Devices, <<"config", d>> \in subs' PROVE \E j \in 1 .. m'.at - 1 : sensors[j].dev = d
      <3>1. <<"config", d>> \in subs \/ d = b
        BY <2>1, <2>8
      <3> QED
        BY <2>5, <2>6, <2>7, <3>1
    <2> QED
      BY <2>1, <2>4, <2>8 DEF Discovered
  <1>4. CASE m.pc \in {"discover", "subscribe"} /\ m'.at = m.at /\ UNCHANGED <<sensors, subs>>
    BY <1>4 DEF Repair, SubsInv, Discovered
  <1>5. CASE SyncPublish
    <2>1. m.pc = "discover" /\ m'.at = m.at /\ UNCHANGED <<sensors, subs>>
      BY <1>5 DEF SyncPublish, At, ByM
    <2> QED
      BY <1>4, <2>1
  <1>6. CASE UNCHANGED m /\ ~SyncUpsert
    <2>1. sensors' = sensors
      BY <1>6, SyncSensors, AwayType DEF Repair, Base
    <2>2. subs' = subs
      BY <1>1, <1>6, WritersOfSubs, SyncAlone
    <2> QED
      BY <1>4, <1>6, <2>1, <2>2
  <1> QED
    BY <1>1, <1>2, <1>3, <1>5, <1>6, WritersOfM

\* A publish of the synchronisation
LEMMA SyncOp ==
  ASSUME Repair, SyncPublish
  PROVE  LET d == sensors[m.at].dev
             op == Head(m.work)
         IN  /\ m.work \in Seq(Publishing) /\ m.work # <<>> /\ op \in Publishing /\ op[2] = d
             /\ \/ \E t \in Current : op = <<"config", d, t>>
                \/ \E t \in Topics \ Current : op = <<"clear", d, t>>
             /\ m'.at = m.at /\ m'.work = Tail(m.work)
             /\ m'.pc = IF Len(m.work) = 1 THEN "subscribe" ELSE "discover"
             /\ Publish(op) /\ UNCHANGED <<sensors, rows, version, touched, torn, conn, leftover, first, subs, e, inbox>>
  <1> DEFINE d == sensors[m.at].dev
             op == Head(m.work)
             pc == IF Len(m.work) = 1 THEN "subscribe" ELSE "discover"
  <1>1. m.pc = "discover" /\ Publish(op) /\ m' = [pc |-> pc, at |-> m.at, work |-> Tail(m.work)]
        /\ UNCHANGED <<sensors, rows, version, touched, torn, conn, leftover, first, subs, e, inbox>>
    BY DEF SyncPublish, At, ByM
  <1>2. m.work \in Seq(Publishing) /\ m.work # <<>>
    BY <1>1, TypesParts DEF Repair, Base, MqttOK
  <1>3. op \in Publishing /\ op = m.work[1] /\ 1 \in 1 .. Len(m.work)
    BY <1>2, HasTail
  <1>4. \/ \E t \in Current : op = <<"config", d, t>>
        \/ \E t \in Topics \ Current : op = <<"clear", d, t>>
    BY <1>1, <1>3 DEF Repair, SyncWork
  <1>5. op[2] = d
    BY <1>4
  <1>6. m'.pc = pc /\ m'.at = m.at /\ m'.work = Tail(m.work)
    BY <1>1
  <1> QED
    BY <1>1, <1>2, <1>3, <1>4, <1>5, <1>6

\* A publish of a teach-in
LEMMA TeachOp ==
  ASSUME Repair, ProvisionPublish
  PROVE  LET op == Head(e.work)
         IN  /\ e.work \in Seq(Publishing) /\ e.work # <<>> /\ op \in Publishing /\ op[2] = e.dev /\ e.dev \in Devices
             /\ \E t \in Current : op = <<"config", e.dev, t>>
             /\ e'.dev = e.dev /\ e'.work = Tail(e.work)
             /\ e.pc = "discover" /\ e'.pc \in {"discover", "subscribe"}
             /\ Publish(op) /\ UNCHANGED <<sensors, rows, version, touched, torn, conn, leftover, first, subs, m, inbox>>
  <1> DEFINE op == Head(e.work)
             pc == IF Len(e.work) = 1 THEN "subscribe" ELSE "discover"
  <1>1. e.pc = "discover" /\ Publish(op) /\ e' = [e EXCEPT !.work = Tail(e.work), !.pc = IF Len(e.work) = 1 THEN "subscribe" ELSE @]
        /\ UNCHANGED <<sensors, rows, version, touched, torn, conn, leftover, first, subs, m, inbox>>
    BY DEF ProvisionPublish, ByE, history
  <1>2. TeachOK
    BY TypesParts DEF Repair, Base
  <1>3. e.work \in Seq(Publishing) /\ e.work # <<>> /\ e.dev \in Devices
    BY <1>1, <1>2 DEF TeachOK
  <1>4. op \in Publishing /\ op = e.work[1] /\ 1 \in 1 .. Len(e.work)
    BY <1>3, HasTail
  <1>5. \E t \in Current : op = <<"config", e.dev, t>>
    BY <1>1, <1>4 DEF Repair, TeachWork
  <1>6. op[2] = e.dev
    BY <1>5
  <1>7. e'.pc = pc /\ e'.dev = e.dev /\ e'.work = Tail(e.work)
    BY <1>1, <1>2 DEF TeachOK
  <1> QED
    BY <1>1, <1>3, <1>4, <1>5, <1>6, <1>7

\* A step of the pruning
LEMMA PruneOp ==
  ASSUME Repair, Prune
  PROVE  LET op == Head(m.work)
         IN  /\ m.work \in Seq(Publishing \cup Removing) /\ m.work # <<>> /\ op = m.work[1] /\ op[2] \in Devices \ KnownDevices
             /\ m'.work = Tail(m.work)
             /\ \/ /\ op = <<"remove", op[2]>> /\ rows' = [rows EXCEPT ![op[2]] = {}] /\ UNCHANGED <<retained, torn>>
                \/ /\ \E t \in Topics : op = <<"clear", op[2], t>>
                   /\ op \in Publishing /\ Publish(op) /\ torn' = (IF conn = "up" THEN torn ELSE [torn EXCEPT ![op[2]] = @ \cup {op[3]}])
                   /\ UNCHANGED rows
             /\ UNCHANGED <<sensors, version, touched, conn, first, subs, e, inbox>>
  <1> DEFINE op == Head(m.work)
  <1>1. /\ m.pc = "prune" /\ m.work # <<>> /\ m' = [pc |-> "prune", at |-> 1, work |-> Tail(m.work)]
        /\ \/ op[1] = "remove" /\ rows' = [rows EXCEPT ![op[2]] = {}] /\ UNCHANGED <<retained, torn>>
           \/ /\ op[1] # "remove" /\ Publish(op) /\ UNCHANGED rows
              /\ torn' = (IF conn = "up" THEN torn ELSE [torn EXCEPT ![op[2]] = @ \cup {op[3]}])
        /\ UNCHANGED <<sensors, version, touched, conn, first, subs, e, inbox>>
    BY DEF Prune, At, ByM
  <1>2. m.work \in Seq(Publishing \cup Removing)
    BY TypesParts DEF Repair, Base, MqttOK
  <1>3. op = m.work[1] /\ 1 \in 1 .. Len(m.work)
    BY <1>1, <1>2, HasTail
  <1>4. PICK d \in Devices \ KnownDevices : op = <<"remove", d>> \/ \E t \in Topics : op = <<"clear", d, t>>
    BY <1>1, <1>3 DEF Repair, PruneInv
  <1>5. m'.work = Tail(m.work)
    BY <1>1
  <1> HIDE DEF op
  <1>6. CASE op = <<"remove", d>>
    <2>1. op[1] = "remove" /\ op[2] = d
      BY <1>6
    <2> QED
      BY <1>1, <1>2, <1>3, <1>4, <1>5, <1>6, <2>1 DEF op
  <1>7. CASE \E t \in Topics : op = <<"clear", d, t>>
    <2>1. op[1] = "clear" /\ op[2] = d /\ op \in Publishing
      BY <1>4, <1>7 DEF Publishing
    <2> QED
      BY <1>1, <1>2, <1>3, <1>4, <1>5, <1>7, <2>1 DEF op
  <1> QED
    BY <1>4, <1>6, <1>7

\* What may change the retained configs of a device
LEMMA RetainedStep ==
  ASSUME Repair, [Next]_vars, NEW d \in Devices
  PROVE  \/ retained'[d] = retained[d]
         \/ SyncPublish /\ d = sensors[m.at].dev
         \/ ProvisionPublish /\ d = e.dev
         \/ Prune /\ d \notin KnownDevices /\ retained'[d] \subseteq retained[d]
         \/ DeleteConfigs(d) /\ retained'[d] = {} /\ d \in touched' /\ UNCHANGED <<m, e, rows, torn, sensors, conn>>
  <1>0. StoreOK
    BY TypesParts DEF Repair, Base
  <1>1. CASE SyncPublish
    BY <1>0, <1>1, SyncOp, PublishType
  <1>2. CASE ProvisionPublish
    BY <1>0, <1>2, TeachOp, PublishType
  <1>3. CASE Prune
    <2> DEFINE op == Head(m.work)
    <2>1. CASE UNCHANGED retained
      BY <2>1
    <2>2. CASE op \in Publishing /\ Publish(op) /\ op[1] = "clear" /\ op[2] \notin KnownDevices
      <3> HIDE DEF op
      <3>1. \A b \in Devices : b # op[2] => retained'[b] = retained[b]
        BY <1>0, <2>2, PublishType
      <3>2. retained'[op[2]] = IF conn # "up" THEN retained[op[2]] ELSE retained[op[2]] \ {op[3]}
        BY <1>0, <2>2, PublishType
      <3> QED
        BY <1>3, <2>2, <3>1, <3>2
    <2>3. UNCHANGED retained \/ (op \in Publishing /\ Publish(op) /\ op[1] = "clear" /\ op[2] \notin KnownDevices)
      BY <1>3, PruneOp
    <2> QED
      BY <2>1, <2>2, <2>3
  <1>4. ASSUME NEW b \in Devices, DeleteConfigs(b)
        PROVE  \/ retained'[d] = retained[d]
               \/ DeleteConfigs(d) /\ retained'[d] = {} /\ d \in touched' /\ UNCHANGED <<m, e, rows, torn, sensors, conn>>
    <2>1. CASE b = d
      BY <1>0, <1>4, <2>1 DEF DeleteConfigs, Outside, StoreOK
    <2>2. CASE b # d
      BY <1>0, <1>4, <2>2 DEF DeleteConfigs, StoreOK
    <2> QED
      BY <2>1, <2>2
  <1> QED
    BY <1>1, <1>2, <1>3, <1>4, WritersOfRetained

\* How the discovery of a new device begins and goes on
LEMMA StepsOfE ==
  ASSUME Repair, [Next]_vars, e'.pc \in {"discover", "subscribe"}
  PROVE  /\ ~Start /\ ~Crash /\ ~Lost
         /\ \/ /\ e.pc \in {"discover", "subscribe"} /\ (UNCHANGED e \/ ProvisionPublish)
               /\ e'.dev = e.dev /\ e.dev \in Devices
            \/ /\ e'.dev \in Devices \ KnownDevices /\ ~first /\ Provision(e'.dev, e'.key) /\ e'.work = Config(e'.dev)
               /\ UNCHANGED <<rows, retained, subs, torn, version, m, conn, first, inbox>>
  <1>0. Types /\ SensorsOK /\ TeachOK /\ ProcessOK /\ SyncInv
    BY TypesParts DEF Repair, Base
  <1>1. ~Crash /\ ~Lost
    BY AwayType DEF Crash, Lost, SessionOver
  <1>2. ~Start
    BY <1>0 DEF Start, Starting, ProcessOK
  <1>3. CASE UNCHANGED e
    BY <1>0, <1>1, <1>2, <1>3 DEF TeachOK
  <1>4. CASE ProvisionPublish
    BY <1>1, <1>2, <1>4, TeachOp
  <1>5. ~RespondFails /\ ~ProvisionRaises /\ ~Announce
    BY AwayType DEF RespondFails, ProvisionRaises, Announce
  <1>6. ~ProvisionUpsert /\ ~Persist /\ ~PersistFails
    BY <1>0 DEF ProvisionUpsert, Persist, Writing, PersistFails, TeachOK
  <1>7. \A d \in Devices : ~HearUte(d)
    BY DEF HearUte, IdleE
  <1>8. ASSUME NEW d \in Devices, NEW key \in Keys, d \notin KnownDevices, Provision(d, key), ~first,
               UNCHANGED <<rows, retained, subs, torn, version, m, conn, first, inbox>>
        PROVE  /\ e'.dev \in Devices \ KnownDevices /\ ~first /\ Provision(e'.dev, e'.key) /\ e'.work = Config(e'.dev)
               /\ UNCHANGED <<rows, retained, subs, torn, version, m, conn, first, inbox>>
    BY <1>0, <1>8, ProvisionType
  <1>9. CASE OnTeachIn
    <2>1. e.dev \in Devices /\ NoKey \in Keys /\ ~first
      BY <1>0, <1>9 DEF OnTeachIn, Answered, TeachOK, NoKey, Keys, SyncInv
    <2>2. e.dev \notin KnownDevices /\ Provision(e.dev, NoKey)
      BY <1>9, AwayType DEF OnTeachIn, Answered
    <2>3. UNCHANGED <<rows, retained, subs, torn, version, m, conn, first, inbox>>
      BY <1>9 DEF OnTeachIn, Answered, ByE, Rest
    <2> QED
      BY <1>1, <1>2, <1>8, <2>1, <2>2, <2>3
  <1>10. ASSUME NEW d \in Devices, NEW copied \in BOOLEAN, HearPair(d, copied), ~UNCHANGED e
         PROVE  /\ e'.dev \in Devices \ KnownDevices /\ ~first /\ Provision(e'.dev, e'.key) /\ e'.work = Config(e'.dev)
                /\ UNCHANGED <<rows, retained, subs, torn, version, m, conn, first, inbox>>
    <2> DEFINE key == <<With(d)[0], With(d)[1]>>
    <2>1. key \in Keys /\ d \notin KnownDevices /\ Provision(d, key)
      BY <1>0, <1>10, PairHeard
    <2>2. ~first
      BY <1>0, <1>10 DEF HearPair, HearingPair, SyncInv
    <2>3. UNCHANGED <<rows, retained, subs, torn, version, m, conn, first, inbox>>
      BY <1>10 DEF HearPair, HearingPair, ByE, Rest
    <2> HIDE DEF key
    <2> QED
      BY <1>8, <2>1, <2>2, <2>3
  <1> QED
    BY <1>1, <1>2, <1>3, <1>4, <1>5, <1>6, <1>7, <1>9, <1>10, WritersOfE

LEMMA SubsTeach ==
  ASSUME Repair, [Next]_vars, e'.pc \in {"discover", "subscribe"}
  PROVE  <<"config", e'.dev>> \notin subs'
  <1>1. CASE /\ e.pc \in {"discover", "subscribe"} /\ (UNCHANGED e \/ ProvisionPublish)
             /\ e'.dev = e.dev /\ e.dev \in Devices
    <2>1. <<"config", e.dev>> \notin subs
      BY <1>1 DEF Repair, SubsInv
    <2>2. ~ProvisionUpsert
      BY <1>1, TypesParts DEF ProvisionUpsert, ProvisionPublish, Repair, Base, TeachOK
    <2>3. m.pc # "subscribe"
      BY <1>1, SyncAlone
    <2> QED
      BY <1>1, <2>1, <2>2, <2>3, SubsAdded
  <1>2. CASE e'.dev \in Devices \ KnownDevices /\ UNCHANGED subs
    BY <1>2 DEF Repair, SubsInv
  <1> QED
    BY <1>1, <1>2, StepsOfE

LEMMA SubsInbox ==
  ASSUME Repair, [Next]_vars, NEW d \in inbox'
  PROVE  d \in Devices /\ <<"config", d>> \in subs' /\ retained'[d] = {} /\ d \in touched'
  <1>1. ~Crash /\ ~Lost
    BY DEF Crash, Lost, SessionOver
  <1>2. CASE d \in inbox
    <2>1. d \in Devices /\ <<"config", d>> \in subs /\ retained[d] = {} /\ d \in touched
      BY <1>2 DEF Repair, SubsInv
    <2>2. subs \subseteq subs'
      <3>1. CASE Connect
        BY <3>1 DEF Connect
      <3> QED
        BY <1>1, <3>1, WritersOfSession
    <2>3. d \in touched'
      <3>1. CASE Requested /\ first
        <4>1. m.pc = "req"
          BY <3>1, StepsOfM
        <4> QED
          BY <2>1, <3>1, <4>1 DEF Repair, SubsInv
      <3> QED
        BY <2>1, <3>1, WritersOfTouched
    <2>4. retained'[d] = {}
      <3>1. CASE SyncPublish
        <4>1. <<"config", sensors[m.at].dev>> \notin subs
          BY <3>1, SyncDevice, StepsOfM
        <4>2. d # sensors[m.at].dev
          BY <2>1, <4>1
        <4> QED
          BY <2>1, <3>1, <4>2, SyncOp, PublishType, TypesParts DEF Repair, Base
      <3>2. CASE ProvisionPublish
        <4>1. <<"config", e.dev>> \notin subs
          BY <3>2, TeachOp DEF Repair, SubsInv
        <4>2. d # e.dev
          BY <2>1, <4>1
        <4> QED
          BY <2>1, <3>2, <4>2, TeachOp, PublishType, TypesParts DEF Repair, Base
      <3> QED
        BY <2>1, <3>1, <3>2, RetainedStep
    <2> QED
      BY <2>1, <2>2, <2>3, <2>4
  <1>3. CASE d \notin inbox
    <2>1. ASSUME NEW b \in Devices, DeleteConfigs(b)
          PROVE  d = b /\ <<"config", d>> \in subs' /\ retained'[d] = {} /\ d \in touched'
      BY <1>3, <2>1, TypesParts DEF DeleteConfigs, Outside, Repair, Base, StoreOK
    <2>2. \A b \in Devices : ~HandleDelete(b)
      BY <1>3 DEF HandleDelete
    <2> QED
      BY <1>1, <1>3, <2>1, <2>2, WritersOfInbox
  <1> QED
    BY <1>2, <1>3

LEMMA SubsStep == Repair /\ [Next]_vars => SubsInv'
<1> SUFFICES ASSUME Repair, [Next]_vars PROVE SubsInv'
  OBVIOUS
<1> QED
  BY SubsAway, SubsKnown, SubsFirst, SubsLoop, SubsTeach, SubsInbox DEF SubsInv

\* A discovery of the synchronisation begins: with a device whose configs its row lists, but for
\* those that were left in no row.
LEMMA DiscoveryBegins ==
  ASSUME Repair, [Next]_vars, m'.pc \in {"discover", "subscribe"}, Requested \/ SyncUpsert
  PROVE  LET d == sensors[m'.at].dev
         IN  /\ m'.pc = "discover" /\ m'.at \in 1 .. Len(sensors) /\ d \in Devices /\ m'.work = Discovery(d)
             /\ retained[d] \subseteq rows[d] \cup torn'[d]
             /\ UNCHANGED <<sensors, retained, version>>
  <1> DEFINE d == sensors[m'.at].dev
  <1>0. Types /\ SyncInv /\ ConfigsListed /\ Len(sensors) \in Nat /\ TornOK
    BY TypesParts, LenProperties DEF Repair, Base
  <1>1. CASE Requested
    <2>1. first /\ m.pc = "req" /\ SyncFrom(1, leftover') /\ UNCHANGED <<sensors, retained, version, torn>> /\ leftover' \in SUBSET Devices
      BY <1>1 DEF Requested, ByM, At
    <2>2. m'.pc = "discover" /\ m'.at \in 1 .. Len(sensors) /\ m'.work = Discovery(d)
      <3>0. 1 \in Nat \ {0}
        OBVIOUS
      <3>1. \/ m'.at \in 1 .. Len(sensors) /\ ~Discovered(m'.at) /\ m' = [pc |-> "discover", at |-> m'.at, work |-> Discovery(d)]
            \/ m' = [pc |-> "prune", at |-> 1, work |-> PruneAll(leftover')]
        BY <1>0, <2>1, <3>0, SyncFromNext, Zenon
      <3>2. m' # [pc |-> "prune", at |-> 1, work |-> PruneAll(leftover')]
        OBVIOUS
      <3> HIDE DEF d
      <3> QED
        BY <3>1, <3>2
    <2>3. d \in Devices
      BY <1>0, <2>2, SensorAt
    <2>4. InDiscovery = {}
      BY <1>0, <2>1 DEF InDiscovery, SyncInv
    <2> QED
      BY <1>0, <2>1, <2>2, <2>3, <2>4 DEF ConfigsListed
  <1>2. CASE SyncUpsert
    <2> DEFINE b == sensors[m.at].dev
               left == leftover \ {b}
    <2>1. /\ m.pc = "subscribe" /\ SyncFrom(m.at + 1, left) /\ UNCHANGED <<sensors, retained, version>>
          /\ Listed(b)
      BY <1>2 DEF SyncUpsert, Upserted, ByM
    <2>2. m.at \in 1 .. Len(sensors) /\ ~Discovered(m.at)
      BY <2>1, SyncDevice
    <2>3. m.at + 1 \in Nat \ {0} /\ left \in SUBSET Devices
      BY <1>0, <2>2, TypesParts DEF ProcessOK
    <2> HIDE DEF left
    <2>4. /\ m'.pc = "discover" /\ m'.at \in m.at + 1 .. Len(sensors) /\ m'.work = Discovery(d) /\ ~Discovered(m'.at)
      <3>1. \/ m'.at \in m.at + 1 .. Len(sensors) /\ ~Discovered(m'.at) /\ m' = [pc |-> "discover", at |-> m'.at, work |-> Discovery(d)]
            \/ m' = [pc |-> "prune", at |-> 1, work |-> PruneAll(left)]
        BY <1>0, <2>1, <2>3, SyncFromNext
      <3>2. m' # [pc |-> "prune", at |-> 1, work |-> PruneAll(left)]
        OBVIOUS
      <3> HIDE DEF d
      <3> QED
        BY <3>1, <3>2
    <2>5. m'.at \in 1 .. Len(sensors) /\ m.at \in 1 .. m'.at - 1
      BY <1>0, <2>2, <2>4
    <2>6. d \in Devices
      BY <1>0, <2>5, SensorAt
    <2>7. d # b
      BY <2>4, <2>5 DEF Discovered
    <2>8. InDiscovery = {b}
      BY <1>0, <2>1 DEF InDiscovery, SyncInv
    <2>9. retained[d] \subseteq rows[d] \cup torn[d]
      BY <1>0, <2>6, <2>7, <2>8 DEF ConfigsListed
    <2>10. torn'[d] = torn[d]
      BY <1>0, <2>1, <2>6, <2>7 DEF Listed, TornOK
    <2> QED
      BY <2>1, <2>4, <2>5, <2>6, <2>9, <2>10
  <1> QED
    BY <1>1, <1>2

\* What a discovery still has to do, as a relation of the list of its publishes to a device
Doing(work, d, kept, left, isTouched, up_) ==
  /\ \A k \in 1 .. Len(work) : \/ \E t \in Current : work[k] = <<"config", d, t>>
                               \/ \E t \in Topics \ Current : work[k] = <<"clear", d, t>>
  /\ up_ => \A t \in kept : t \in Current \cup left \/ Has(work, <<"clear", d, t>>)
  /\ up_ /\ ~isTouched => \A t \in Current : t \in kept \/ Has(work, <<"config", d, t>>)

LEMMA SyncWorkDoing ==
  SyncWork <=> (m.pc \in {"discover", "subscribe"} =>
                  /\ m.pc = "subscribe" => m.work = <<>>
                  /\ Doing(m.work, sensors[m.at].dev, retained[sensors[m.at].dev], torn[sensors[m.at].dev],
                           sensors[m.at].dev \in touched, conn = "up"))
  BY DEF SyncWork, Doing

\* A discovery has everything to do when it begins.
LEMMA DoingBegins ==
  ASSUME TypeOK, NEW d \in Devices, NEW kept, NEW left, NEW isTouched, NEW up_,
         kept \subseteq rows[d] \cup left
  PROVE  Doing(Discovery(d), d, kept, left, isTouched, up_)
  <1> DEFINE work == Discovery(d)
  <1>1. \A op : Has(work, op) <=> \/ \E t \in rows[d] \ Current : op = <<"clear", d, t>>
                                  \/ \E t \in Current : op = <<"config", d, t>>
    BY DiscoveryType
  <1>2. rows[d] \subseteq Topics
    BY DEF TypeOK
  <1> HIDE DEF work
  <1>3. ASSUME NEW k \in 1 .. Len(work)
        PROVE  \/ \E t \in Current : work[k] = <<"config", d, t>>
               \/ \E t \in Topics \ Current : work[k] = <<"clear", d, t>>
    <2>1. Has(work, work[k])
      BY DEF Has
    <2> QED
      BY <1>1, <1>2, <2>1
  <1>4. \A t \in rows[d] : t \in Current \/ Has(work, <<"clear", d, t>>)
    BY <1>1
  <1>5. \A t \in Current : Has(work, <<"config", d, t>>)
    BY <1>1
  <1> QED
    BY <1>3, <1>4, <1>5 DEF Doing, work

\* Each publish does its part.
LEMMA DoingGoesOn ==
  ASSUME NEW work \in Seq(Publishing), work # <<>>, NEW d \in Devices, NEW kept, NEW more, NEW left, NEW isTouched,
         NEW up_, Doing(work, d, kept, left, isTouched, up_),
         up_ => more = IF Head(work)[1] = "clear" THEN kept \ {Head(work)[3]} ELSE kept \cup {Head(work)[3]}
  PROVE  Doing(Tail(work), d, more, left, isTouched, up_)
  <1> DEFINE op == Head(work)
             rest == Tail(work)
  <1>1. /\ op = work[1] /\ 1 \in 1 .. Len(work) /\ rest \in Seq(Publishing)
        /\ \A k \in 1 .. Len(rest) : k + 1 \in 1 .. Len(work) /\ rest[k] = work[k + 1]
        /\ \A x : Has(work, x) <=> x = op \/ Has(rest, x)
    BY HasTail
  <1>2. \/ \E t \in Current : op = <<"config", d, t>>
        \/ \E t \in Topics \ Current : op = <<"clear", d, t>>
    BY <1>1 DEF Doing
  <1>3. \A k \in 1 .. Len(rest) : \/ \E t \in Current : rest[k] = <<"config", d, t>>
                                  \/ \E t \in Topics \ Current : rest[k] = <<"clear", d, t>>
    BY <1>1 DEF Doing
  <1> HIDE DEF op, rest
  <1>4. ASSUME NEW u \in Current, op = <<"config", d, u>>
        PROVE  Doing(rest, d, more, left, isTouched, up_)
    <2>1. op[1] = "config" /\ op[3] = u
      BY <1>4
    <2>2. up_ => more = kept \cup {u}
      BY <2>1 DEF op
    <2>3. \A t : op # <<"clear", d, t>> /\ (op = <<"config", d, t>> => t = u)
      BY <1>4
    <2> QED
      BY <1>1, <1>3, <1>4, <2>2, <2>3 DEF Doing
  <1>5. ASSUME NEW u \in Topics \ Current, op = <<"clear", d, u>>
        PROVE  Doing(rest, d, more, left, isTouched, up_)
    <2>1. op[1] = "clear" /\ op[3] = u
      BY <1>5
    <2>2. up_ => more = kept \ {u}
      BY <2>1 DEF op
    <2>3. \A t : op # <<"config", d, t>> /\ (op = <<"clear", d, t>> => t = u)
      BY <1>5
    <2> QED
      BY <1>1, <1>3, <1>5, <2>2, <2>3 DEF Doing
  <1> QED
    BY <1>2, <1>4, <1>5 DEF rest

\* What the synchronisation does not do, it leaves alone.
LEMMA LoopWaits ==
  ASSUME Repair, [Next]_vars, m.pc \in {"discover", "subscribe", "prune"}, UNCHANGED m
  PROVE  /\ UNCHANGED <<sensors, rows, torn, version, leftover>>
         /\ (conn' = "up" => conn = "up") /\ touched \subseteq touched'
         /\ \A d \in Devices : retained'[d] = retained[d] \/ (retained'[d] = {} /\ d \in touched')
  <1>1. /\ e.pc = "idle" /\ ~learn /\ up /\ first
        /\ ~ProvisionPublish /\ ~ProvisionUpsert /\ ~ProvisionRaises /\ ~OnTeachIn
    BY SyncAlone
  <1>2. ~Start /\ ~Crash /\ ~Lost /\ ~Connect /\ ~Requested
    BY <1>1, Starts, StepsOfM DEF Start, Starting, Crash, Lost, SessionOver
  <1>3. ~SyncPublish /\ ~SyncUpsert /\ ~Prune
    <2>1. m.at # m.at + 1 /\ MqttOK
      BY TypesParts DEF Repair, Base, MqttOK
    <2>2. ~SyncPublish
      <3>1. SyncPublish => m'.work = Tail(m.work) /\ m.work \in Seq(Publishing) /\ m.work # <<>>
        BY SyncOp
      <3>2. SyncPublish => Len(m.work) \in Nat /\ Len(Tail(m.work)) = Len(m.work) - 1
        BY <3>1, HasTail
      <3>3. SyncPublish => Tail(m.work) = m.work
        BY <3>1
      <3>4. SyncPublish => Len(Tail(m.work)) = Len(m.work)
        BY <3>3, Zenon
      <3> QED
        BY <3>2, <3>4
    <2>3. ~SyncUpsert
      BY <1>1, StepsOfM
    <2>4. ~Prune
      <3>1. Prune => m'.work = Tail(m.work) /\ m.work \in Seq(Publishing \cup Removing) /\ m.work # <<>>
        BY PruneOp
      <3>2. Prune => Len(m.work) \in Nat /\ Len(Tail(m.work)) = Len(m.work) - 1
        BY <3>1, HasTail
      <3>3. Prune => Tail(m.work) = m.work
        BY <3>1
      <3>4. Prune => Len(Tail(m.work)) = Len(m.work)
        BY <3>3, Zenon
      <3> QED
        BY <3>2, <3>4
    <2> QED
      BY <2>2, <2>3, <2>4
  <1>4. UNCHANGED sensors
    BY <1>1, Starts, SyncSensors DEF Repair, Base
  <1>5. UNCHANGED torn /\ UNCHANGED version /\ UNCHANGED leftover
    BY <1>1, <1>2, <1>3, WritersOfTorn, WritersOfVersion, WritersOfLeftover
  <1>6. UNCHANGED rows
    <2>1. \A d \in Devices : ~HandleDelete(d)
      BY DEF HandleDelete
    <2> QED
      BY <1>1, <1>3, <2>1, WritersOfRows
  <1>7. (conn' = "up" => conn = "up") /\ touched \subseteq touched'
    BY <1>2, WritersOfConn, WritersOfTouched DEF Break
  <1>8. \A d \in Devices : retained'[d] = retained[d] \/ (retained'[d] = {} /\ d \in touched')
    BY <1>1, <1>3, RetainedStep
  <1> QED
    BY <1>4, <1>5, <1>6, <1>7, <1>8

LEMMA SyncWorkStep == Repair /\ [Next]_vars => SyncWork'
<1> SUFFICES ASSUME Repair, [Next]_vars, m'.pc \in {"discover", "subscribe"}
             PROVE  SyncWork'
  BY DEF SyncWork
<1>0. Types /\ TypeOK /\ StoreOK /\ TornOK /\ (m.pc \in {"discover", "subscribe"} => SyncWork)
  BY TypesParts DEF Repair, Base, Types
<1> DEFINE d == sensors'[m'.at].dev
<1> SUFFICES /\ m'.pc = "subscribe" => m'.work = <<>>
             /\ Doing(m'.work, d, retained'[d], torn'[d], d \in touched', conn' = "up")
             /\ UNCHANGED version
  BY CurrentSame DEF SyncWork, Doing
<1>1. CASE Requested \/ SyncUpsert
  <2>1. /\ m'.pc = "discover" /\ d \in Devices /\ m'.work = Discovery(d)
        /\ retained[d] \subseteq rows[d] \cup torn'[d]
        /\ UNCHANGED <<retained, version>>
    BY <1>1, DiscoveryBegins
  <2> HIDE DEF d
  <2>2. retained'[d] \subseteq rows[d] \cup torn'[d]
    BY <2>1
  <2>3. \A kept, left, isTouched, up_ :
          kept \subseteq rows[d] \cup left => Doing(Discovery(d), d, kept, left, isTouched, up_)
    BY <1>0, <2>1, DoingBegins
  <2>4. Doing(Discovery(d), d, retained'[d], torn'[d], d \in touched', conn' = "up")
    BY <2>2, <2>3, Zenon
  <2> QED
    BY <2>1, <2>4
<1>2. CASE SyncPublish
  <2> DEFINE b == sensors[m.at].dev
             op == Head(m.work)
  <2>1. /\ m.work \in Seq(Publishing) /\ m.work # <<>> /\ op \in Publishing /\ op[2] = b
        /\ m'.at = m.at /\ m'.work = Tail(m.work)
        /\ m'.pc = IF Len(m.work) = 1 THEN "subscribe" ELSE "discover"
        /\ Publish(op) /\ UNCHANGED <<sensors, version, touched, torn, conn>>
    BY <1>2, SyncOp
  <2>2. m.pc \in {"discover", "subscribe"} /\ b \in Devices /\ d = b
    BY <1>2, <2>1, StepsOfM, SyncDevice
  <2>3. Doing(m.work, b, retained[b], torn[b], b \in touched, conn = "up")
    BY <1>0, <2>2 DEF SyncWork, Doing
  <2> HIDE DEF b, d, op
  <2>4. retained'[b] = IF conn # "up" THEN retained[b]
                       ELSE IF op[1] = "clear" THEN retained[b] \ {op[3]}
                       ELSE retained[b] \cup {op[3]}
    BY <1>0, <2>1, PublishType
  <2> USE DEF op
  <2>5. m'.pc = "subscribe" => m'.work = <<>>
    <3>1. Len(m.work) = 1 => Tail(m.work) \in Seq(Publishing) /\ Len(Tail(m.work)) = 0
      BY <2>1, HasTail
    <3> QED
      BY <2>1, <3>1, EmptySeq
  <2>6. \A kept, more, left, isTouched, up_ :
          /\ Doing(m.work, b, kept, left, isTouched, up_)
          /\ up_ => more = IF op[1] = "clear" THEN kept \ {op[3]} ELSE kept \cup {op[3]}
          => Doing(Tail(m.work), b, more, left, isTouched, up_)
    BY <2>1, <2>2, DoingGoesOn
  <2>7. conn = "up" => retained'[b] = IF op[1] = "clear" THEN retained[b] \ {op[3]} ELSE retained[b] \cup {op[3]}
    BY <2>4
  <2>8. Doing(Tail(m.work), b, retained'[b], torn[b], b \in touched, conn = "up")
    BY <2>3, <2>6, <2>7, Zenon
  <2> QED
    BY <2>1, <2>2, <2>5, <2>8
<1>3. CASE UNCHANGED m
  <2>1. /\ UNCHANGED <<sensors, torn, version>>
        /\ (conn' = "up" => conn = "up") /\ touched \subseteq touched'
        /\ \A b \in Devices : retained'[b] = retained[b] \/ (retained'[b] = {} /\ b \in touched')
    BY <1>3, LoopWaits
  <2>2. d = sensors[m.at].dev /\ d \in Devices
    BY <1>3, <2>1, SyncDevice
  <2>3. Doing(m.work, d, retained[d], torn[d], d \in touched, conn = "up")
    BY <1>0, <1>3, <2>2 DEF SyncWork, Doing
  <2> HIDE DEF d
  <2>4. m'.pc = "subscribe" => m'.work = <<>>
    BY <1>0, <1>3 DEF SyncWork
  <2> QED
    BY <1>3, <2>1, <2>2, <2>3, <2>4 DEF Doing
<1> QED
  <2>1. ~Crash /\ ~Lost /\ ~Connect /\ ~SubscribeRequest /\ ~Prune /\ ~System
    BY Starts, StepsOfM DEF Crash, Lost, SessionOver
  <2> QED
    BY <1>1, <1>2, <1>3, <2>1, WritersOfM

LEMMA TeachWorkStep == Repair /\ [Next]_vars => TeachWork'
<1> SUFFICES ASSUME Repair, [Next]_vars, e'.pc \in {"discover", "subscribe"}
             PROVE  TeachWork'
  BY DEF TeachWork
<1>0. Types /\ TypeOK /\ StoreOK /\ TornOK /\ SyncInv /\ ConfigsListed
  BY TypesParts DEF Repair, Base, Types
<1>1. ~Start /\ ~Crash /\ ~Lost
  BY StepsOfE
<1>2. UNCHANGED version /\ Current' = Current
  BY <1>1, WritersOfVersion, CurrentSame
<1>3. ~first
  BY <1>0, StepsOfE DEF SyncInv
<1>4. touched \subseteq touched'
  BY <1>3, WritersOfTouched
<1>5. CASE /\ e.pc \in {"discover", "subscribe"} /\ (UNCHANGED e \/ ProvisionPublish)
           /\ e'.dev = e.dev /\ e.dev \in Devices
  <2> DEFINE d == e.dev
  <2>1. /\ \A k \in 1 .. Len(e.work) : \E t \in Current : e.work[k] = <<"config", d, t>>
        /\ retained[d] \subseteq Current \cup torn[d]
        /\ d \in touched
    BY <1>5 DEF Repair, TeachWork
  <2>2. ~SyncUpsert /\ ~Prune /\ ~SyncPublish
    BY <1>5, SyncAlone, StepsOfM
  <2>3. torn[d] \subseteq torn'[d]
    <3>1. ~ProvisionUpsert
      BY <1>0, <1>5, TypesParts DEF ProvisionUpsert, ProvisionPublish, TeachOK
    <3>2. ASSUME ProvisionRaises
          PROVE  torn[d] \subseteq torn'[d]
      BY <1>0, <1>5, <3>2 DEF ProvisionRaises, TornIn
    <3> QED
      BY <1>1, <2>2, <3>1, <3>2, WritersOfTorn
  <2>4. CASE UNCHANGED e
    <3>1. ~ProvisionPublish
      <4>1. ProvisionPublish => e'.work = Tail(e.work) /\ e.work \in Seq(Publishing) /\ e.work # <<>>
        BY TeachOp
      <4>2. ProvisionPublish => Len(e.work) \in Nat /\ Len(Tail(e.work)) = Len(e.work) - 1
        BY <4>1, HasTail
      <4>3. ProvisionPublish => Tail(e.work) = e.work
        BY <2>4, <4>1
      <4>4. ProvisionPublish => Len(Tail(e.work)) = Len(e.work)
        BY <4>3, Zenon
      <4> QED
        BY <4>2, <4>4
    <3>2. retained'[d] = retained[d] \/ retained'[d] = {}
      BY <1>5, <2>2, <3>1, RetainedStep
    <3> QED
      BY <1>2, <1>4, <2>1, <2>3, <2>4, <3>2 DEF TeachWork
  <2>5. CASE ProvisionPublish
    <3> DEFINE op == Head(e.work)
    <3>1. /\ e.work \in Seq(Publishing) /\ e.work # <<>> /\ op \in Publishing /\ op[2] = d
          /\ e'.dev = d /\ e'.work = Tail(e.work) /\ Publish(op)
      BY <2>5, TeachOp
    <3>2. PICK t \in Current : op = <<"config", d, t>>
      BY <2>5, TeachOp
    <3>3. \A k \in 1 .. Len(e'.work) : k + 1 \in 1 .. Len(e.work) /\ e'.work[k] = e.work[k + 1]
      BY <3>1, HasTail
    <3> HIDE DEF op
    <3>4. op[1] = "config" /\ op[3] = t
      BY <3>2
    <3>5. retained'[d] = retained[d] \/ retained'[d] = retained[d] \cup {t}
      BY <1>0, <3>1, <3>4, PublishType
    <3> QED
      BY <1>2, <1>4, <2>1, <2>3, <3>1, <3>3, <3>5 DEF TeachWork
  <2> QED
    BY <1>5, <2>4, <2>5
<1>6. CASE /\ e'.dev \in Devices \ KnownDevices /\ Provision(e'.dev, e'.key) /\ e'.work = Config(e'.dev)
           /\ UNCHANGED <<retained, torn>>
  <2> DEFINE d == e'.dev
  <2>1. retained[d] \subseteq torn[d]
    <3>1. d \notin InDiscovery /\ rows[d] = {}
      BY <1>3, <1>6, DiscoveryKnown DEF Repair, ServedInv
    <3> QED
      BY <1>0, <1>6, <3>1 DEF ConfigsListed
  <2>2. \A op : Has(Config(d), op) <=> \E t \in Current : op = <<"config", d, t>>
    BY <1>0, <1>6, ConfigType
  <2>3. \A k \in 1 .. Len(Config(d)) : Has(Config(d), Config(d)[k])
    BY DEF Has
  <2>4. d \in touched'
    BY <1>6 DEF Provision
  <2> QED
    BY <1>2, <1>6, <2>1, <2>2, <2>3, <2>4 DEF TeachWork
<1> QED
  BY <1>5, <1>6, StepsOfE

LEMMA AgreedKept ==
  ASSUME NEW d, UNCHANGED version, rows'[d] = rows[d], retained'[d] = retained[d] \/ d \in touched',
         d \in touched => d \in touched', Agreed(d)
  PROVE  Agreed(d)'
  BY CurrentSame DEF Agreed

\* The first sensor of a device
LEMMA EarliestOf ==
  ASSUME Types, NEW j \in 1 .. Len(sensors)
  PROVE  \E l \in 1 .. j : sensors[l].dev = sensors[j].dev /\ ~Discovered(l)
  <1> DEFINE S == {l \in 1 .. j : sensors[l].dev = sensors[j].dev}
  <1>1. Len(sensors) \in Nat /\ j \in Nat
    BY TypesParts, LenProperties
  <1>2. S \in SUBSET Nat /\ S # {}
    BY <1>1
  <1>3. PICK l \in S : \A k \in S : l <= k
    BY <1>2, LeastNat
  <1>4. ~Discovered(l)
    <2>1. ASSUME NEW i \in 1 .. l - 1, sensors[i].dev = sensors[l].dev
          PROVE  FALSE
      BY <1>1, <1>3, <2>1
    <2> QED
      BY <2>1 DEF Discovered
  <1> QED
    BY <1>3, <1>4

\* When the discovery of a device is over, broker, store and mapping agree on it.
LEMMA UpsertDone ==
  ASSUME Repair, SyncUpsert
  PROVE  LET d == sensors[m.at].dev
         IN  /\ d \in Devices /\ d \in KnownDevices /\ m.at \in 1 .. Len(sensors) /\ ~Discovered(m.at)
             /\ rows' = [rows EXCEPT ![d] = Current]
             /\ \A b \in Devices : b = d \/ Agreed(b) => Agreed(b)'
             /\ Listed(d) /\ retained[d] \subseteq Current \cup torn'[d]
             /\ leftover' = leftover \ {d} /\ SyncFrom(m.at + 1, leftover')
             /\ UNCHANGED <<sensors, retained, version, touched, conn, first, e>>
  <1> DEFINE d == sensors[m.at].dev
  <1>1. /\ m.pc = "subscribe" /\ conn = "up" /\ rows' = [rows EXCEPT ![d] = Current] /\ Listed(d)
        /\ leftover' = leftover \ {d} /\ SyncFrom(m.at + 1, leftover')
        /\ UNCHANGED <<sensors, retained, version, touched, conn, first, e>>
    BY DEF SyncUpsert, Upserted, Upsert, ByM
  <1>2. m.at \in 1 .. Len(sensors) /\ d \in Devices /\ d \in KnownDevices /\ ~Discovered(m.at)
    BY <1>1, SyncDevice
  <1>3. StoreOK /\ MqttOK /\ TornOK
    BY TypesParts DEF Repair, Base
  <1>4. /\ m.work = <<>>
        /\ \A t \in retained[d] : t \in Current \cup torn[d] \/ Has(m.work, <<"clear", d, t>>)
        /\ d \notin touched => \A t \in Current : t \in retained[d] \/ Has(m.work, <<"config", d, t>>)
    BY <1>1 DEF Repair, SyncWork
  <1>5. \A x : ~Has(m.work, x)
    BY <1>4 DEF Has
  <1> HIDE DEF d
  <1>6. /\ retained[d] \subseteq Current \cup torn[d]
        /\ d \notin touched => Current \subseteq retained[d]
    BY <1>4, <1>5
  <1>7. retained[d] \subseteq Current \cup torn'[d]
    BY <1>1, <1>2, <1>3, <1>6 DEF Listed, TornOK
  <1>8. rows'[d] = Current /\ \A b \in Devices \ {d} : rows'[b] = rows[b]
    BY <1>1, <1>2, <1>3 DEF StoreOK
  <1>9. ASSUME NEW b \in Devices, b = d
        PROVE  Agreed(b)'
    <2>1. b \in touched \/ Current \subseteq retained[b]
      BY <1>6, <1>9
    <2>2. rows'[b] = Current /\ UNCHANGED <<retained, version, touched>>
      BY <1>1, <1>8, <1>9
    <2> QED
      BY <2>1, <2>2, CurrentSame DEF Agreed
  <1>10. \A b \in Devices \ {d} : Agreed(b) => Agreed(b)'
    BY <1>1, <1>8, CurrentSame DEF Agreed
  <1> QED
    BY <1>1, <1>2, <1>7, <1>9, <1>10 DEF d

\* Sensors of a device that was discovered before are passed over.
LEMMA LoopDone ==
  ASSUME Repair, SyncUpsert, NEW n \in Nat, m.at <= n, n <= Len(sensors),
         \A i \in m.at + 1 .. n : Discovered(i), NEW j \in 1 .. n
  PROVE  Agreed(sensors[j].dev)' /\ sensors[j].dev \notin leftover'
  <1> DEFINE d == sensors[m.at].dev
  <1>1. Types /\ Len(sensors) \in Nat
    BY TypesParts, LenProperties DEF Repair, Base
  <1>2. /\ m.at \in 1 .. Len(sensors) /\ \A b \in Devices : b = d \/ Agreed(b) => Agreed(b)'
        /\ leftover' = leftover \ {d} /\ m.pc = "subscribe" /\ UNCHANGED sensors
    BY UpsertDone, StepsOfM
  <1>3. PICK l \in 1 .. j : sensors[l].dev = sensors[j].dev /\ ~Discovered(l)
    BY <1>1, EarliestOf
  <1>4. l <= m.at
    BY <1>1, <1>2, <1>3
  <1>5. l \in 1 .. Len(sensors) /\ sensors[l].dev \in Devices
    BY <1>1, <1>2, <1>3, <1>4, SensorAt
  <1>6. PICK b \in Devices : b = sensors[j].dev
    BY <1>3, <1>5
  <1>7. b = d \/ (Agreed(b) /\ b \notin leftover)
    <2>1. CASE l = m.at
      BY <1>3, <1>6, <2>1
    <2>2. CASE l < m.at
      BY <1>2, <1>3, <1>5, <1>6, <2>2 DEF Repair, LoopInv
    <2> QED
      BY <1>1, <1>2, <1>4, <1>5, <2>1, <2>2
  <1> HIDE DEF d
  <1>8. Agreed(b)' /\ b \notin leftover'
    BY <1>2, <1>7
  <1> QED
    BY <1>2, <1>6, <1>8

LEMMA LoopInvStep == Repair /\ [Next]_vars => LoopInv'
<1> SUFFICES ASSUME Repair, [Next]_vars, m'.pc \in {"discover", "subscribe"}
             PROVE  /\ \A j \in 1 .. Len(sensors') : j < m'.at => Agreed(sensors[j].dev)' /\ sensors'[j].dev \notin leftover'
                    /\ \A d \in Devices \ KnownDevices' : rows'[d] # {} => d \in leftover'
  BY DEF LoopInv
<1>0. Types /\ StoreOK /\ MqttOK /\ ProcessOK /\ Len(sensors) \in Nat
  BY TypesParts, LenProperties DEF Repair, Base
<1>1. CASE Requested
  <2>1. /\ first /\ m.pc = "req" /\ SyncFrom(1, leftover') /\ UNCHANGED <<sensors, rows>>
        /\ leftover' = {d \in Devices : rows[d] # {}}
    BY <1>1 DEF Requested, ByM, At
  <2>2. /\ m'.at \in 1 .. Len(sensors) /\ \A j \in 1 .. m'.at - 1 : Discovered(j)
    <3>1. leftover' \in SUBSET Devices /\ 1 \in Nat \ {0}
      BY <2>1
    <3>2. \/ m'.at \in 1 .. Len(sensors) /\ \A j \in 1 .. m'.at - 1 : Discovered(j)
          \/ m' = [pc |-> "prune", at |-> 1, work |-> PruneAll(leftover')]
      BY <1>0, <2>1, <3>1, SyncFromNext, Zenon
    <3> QED
      BY <3>2
  <2>3. ~Discovered(1)
    BY DEF Discovered
  <2>4. m'.at = 1
    BY <1>0, <2>2, <2>3
  <2> QED
    BY <2>1, <2>4
<1>2. CASE SyncPublish
  <2> DEFINE op == Head(m.work)
  <2>1. /\ op \in Publishing /\ op[2] = sensors[m.at].dev /\ m'.at = m.at
        /\ Publish(op) /\ UNCHANGED <<sensors, rows, version, touched, torn, leftover>>
    BY <1>2, SyncOp
  <2>2. m.pc = "discover" /\ m.at \in 1 .. Len(sensors) /\ ~Discovered(m.at)
    BY <1>2, StepsOfM, SyncDevice
  <2> HIDE DEF op
  <2>3. ASSUME NEW j \in 1 .. Len(sensors), j < m.at
        PROVE  Agreed(sensors[j].dev)' /\ sensors'[j].dev \notin leftover'
    <3>1. PICK b \in Devices : b = sensors[j].dev
      BY <1>0, SensorAt
    <3>2. Agreed(b) /\ b \notin leftover
      BY <2>2, <2>3, <3>1 DEF Repair, LoopInv
    <3>3. b # op[2]
      BY <1>0, <2>1, <2>2, <2>3, <3>1 DEF Discovered
    <3>4. retained'[b] = retained[b]
      BY <1>0, <2>1, <3>3, PublishType
    <3>5. Agreed(b)'
      BY <2>1, <3>2, <3>4, AgreedKept
    <3> QED
      BY <2>1, <3>1, <3>2, <3>5
  <2>4. KnownDevices' = KnownDevices
    BY <2>1 DEF KnownDevices
  <2> QED
    BY <2>1, <2>2, <2>3, <2>4 DEF Repair, LoopInv
<1>3. CASE SyncUpsert
  <2>1. /\ m.pc = "subscribe" /\ m.at \in 1 .. Len(sensors) /\ sensors[m.at].dev \in Devices \cap KnownDevices
        /\ rows' = [rows EXCEPT ![sensors[m.at].dev] = Current]
        /\ leftover' = leftover \ {sensors[m.at].dev} /\ SyncFrom(m.at + 1, leftover') /\ UNCHANGED sensors
    BY <1>3, UpsertDone, StepsOfM
  <2>2. m'.at \in m.at + 1 .. Len(sensors) /\ \A j \in m.at + 1 .. m'.at - 1 : Discovered(j)
    <3>1. leftover' \in SUBSET Devices /\ m.at + 1 \in Nat \ {0}
      BY <1>0, <2>1 DEF ProcessOK
    <3> QED
      BY <1>0, <2>1, <3>1, SyncFromNext
  <2> DEFINE n == m'.at - 1
  <2>3. n \in Nat /\ m.at <= n /\ n <= Len(sensors)
    BY <1>0, <2>1, <2>2
  <2>4. \A j \in m.at + 1 .. n : Discovered(j)
    BY <2>2
  <2>5. \A j \in 1 .. Len(sensors) : j < m'.at => j \in 1 .. n
    BY <1>0, <2>1, <2>2
  <2> HIDE DEF n
  <2>6. \A j \in 1 .. n : Agreed(sensors[j].dev)' /\ sensors[j].dev \notin leftover'
    BY <1>3, <2>3, <2>4, LoopDone
  <2>7. ASSUME NEW d \in Devices \ KnownDevices', rows'[d] # {}
        PROVE  d \in leftover'
    <3>1. d \notin KnownDevices /\ d # sensors[m.at].dev
      BY <2>1, <2>7 DEF KnownDevices
    <3>2. rows'[d] = rows[d]
      BY <1>0, <2>1, <3>1 DEF StoreOK
    <3> QED
      BY <2>1, <2>7, <3>1, <3>2 DEF Repair, LoopInv
  <2> QED
    BY <2>1, <2>5, <2>6, <2>7
<1>4. CASE UNCHANGED m
  <2>1. /\ UNCHANGED <<sensors, rows, torn, version, leftover>> /\ touched \subseteq touched'
        /\ \A d \in Devices : retained'[d] = retained[d] \/ d \in touched'
    BY <1>4, LoopWaits
  <2>2. ASSUME NEW j \in 1 .. Len(sensors), j < m.at
        PROVE  Agreed(sensors[j].dev)' /\ sensors'[j].dev \notin leftover'
    <3>1. PICK b \in Devices : b = sensors[j].dev
      BY <1>0, SensorAt
    <3>2. Agreed(b) /\ b \notin leftover
      BY <1>4, <2>2, <3>1 DEF Repair, LoopInv
    <3>3. Agreed(b)'
      BY <2>1, <3>2, AgreedKept
    <3> QED
      BY <2>1, <3>1, <3>2, <3>3
  <2>3. KnownDevices' = KnownDevices
    BY <2>1 DEF KnownDevices
  <2> QED
    BY <1>4, <2>1, <2>2, <2>3 DEF Repair, LoopInv
<1> QED
  <2>1. ~Crash /\ ~Lost /\ ~Connect /\ ~SubscribeRequest /\ ~Prune /\ ~System
    BY Starts, StepsOfM DEF Crash, Lost, SessionOver
  <2> QED
    BY <1>1, <1>2, <1>3, <1>4, <2>1, WritersOfM

\* The rows left over are removed after their configs were cleared.
LEMMA PruneBegins ==
  ASSUME Repair, UNCHANGED <<sensors, retained>>,
         NEW left \in SUBSET (Devices \ KnownDevices), m'.work = PruneAll(left),
         \A d \in Devices \ KnownDevices : rows'[d] # {} => d \in left,
         \A d \in left : retained[d] \subseteq rows[d] \cup torn'[d],
         \A d \in KnownDevices : Agreed(d)'
  PROVE  PruneInv'
  <1> DEFINE work == PruneAll(left)
  <1>1. /\ ClearedFirst(work)
        /\ \A op : Has(work, op) <=> \E d \in left : op = <<"remove", d>> \/ \E t \in rows[d] : op = <<"clear", d, t>>
    BY PruneAllType DEF Repair, Base, Types
  <1>2. StoreOK
    BY TypesParts DEF Repair, Base
  <1>3. m'.work = work
    OBVIOUS
  <1> HIDE DEF work
  <1>4. KnownDevices' = KnownDevices
    BY DEF KnownDevices
  <1>5. \A k \in 1 .. Len(work) : \E d \in Devices \ KnownDevices :
          work[k] = <<"remove", d>> \/ \E t \in Topics : work[k] = <<"clear", d, t>>
    <2>1. \A k \in 1 .. Len(work) : Has(work, work[k])
      BY DEF Has
    <2>2. \A d \in left : rows[d] \subseteq Topics
      BY <1>2 DEF StoreOK
    <2> QED
      BY <1>1, <2>1, <2>2
  <1>6. \A d \in Devices \ KnownDevices : rows'[d] # {} => Has(work, <<"remove", d>>)
    BY <1>1
  <1>7. ASSUME NEW k \in 1 .. Len(work), NEW d \in Devices, work[k] = <<"remove", d>>
        PROVE  \A t \in retained'[d] \ torn'[d] : \E j \in 1 .. k - 1 : work[j] = <<"clear", d, t>>
    <2>1. Has(work, <<"remove", d>>)
      BY <1>7 DEF Has
    <2>2. PICK b \in left : <<"remove", d>> = <<"remove", b>> \/ \E t \in rows[b] : <<"remove", d>> = <<"clear", b, t>>
      BY <1>1, <2>1
    <2>3. d \in left
      BY <2>2
    <2>4. \A t \in rows[d] : \E j \in 1 .. k - 1 : work[j] = <<"clear", d, t>>
      BY <1>1, <1>7 DEF ClearedFirst
    <2> QED
      BY <2>3, <2>4
  <1> QED
    BY SMTT(30), <1>3, <1>4, <1>5, <1>6, <1>7 DEF PruneInv

\* Each step of the pruning does its part.
LEMMA PruneGoesOn ==
  ASSUME Repair, Prune
  PROVE  PruneInv'
  <1> DEFINE op == Head(m.work)
             work == m.work
             rest == Tail(m.work)
             b == op[2]
  <1>1. /\ work \in Seq(Publishing \cup Removing) /\ work # <<>> /\ op = work[1] /\ b \in Devices \ KnownDevices
        /\ m'.work = rest /\ UNCHANGED <<sensors, version, touched, conn>>
        /\ \/ /\ op = <<"remove", b>> /\ rows' = [rows EXCEPT ![b] = {}] /\ UNCHANGED <<retained, torn>>
           \/ /\ \E t \in Topics : op = <<"clear", b, t>>
              /\ op \in Publishing /\ Publish(op) /\ torn' = (IF conn = "up" THEN torn ELSE [torn EXCEPT ![b] = @ \cup {op[3]}])
              /\ UNCHANGED rows
    BY PruneOp
  <1>2. /\ \A d \in KnownDevices : Agreed(d)
        /\ \A k \in 1 .. Len(work) : \E d \in Devices \ KnownDevices :
             work[k] = <<"remove", d>> \/ \E t \in Topics : work[k] = <<"clear", d, t>>
        /\ \A d \in Devices \ KnownDevices : rows[d] # {} => Has(work, <<"remove", d>>)
        /\ \A k \in 1 .. Len(work), d \in Devices : work[k] = <<"remove", d>> =>
             \A t \in retained[d] \ torn[d] : \E j \in 1 .. k - 1 : work[j] = <<"clear", d, t>>
    BY StepsOfM DEF Repair, PruneInv
  <1>3. /\ Len(work) \in Nat /\ 1 \in 1 .. Len(work) /\ Len(rest) = Len(work) - 1
        /\ \A k \in 1 .. Len(rest) : k + 1 \in 1 .. Len(work) /\ rest[k] = work[k + 1]
        /\ \A x : Has(work, x) <=> x = op \/ Has(rest, x)
    BY <1>1, HasTail
  <1>4. StoreOK /\ TornOK /\ Base /\ KnownDevices \subseteq Devices
    <2>1. Types
      BY DEF Repair, Base
    <2>2. \A i \in DOMAIN sensors : sensors[i].dev \in Devices
      BY <2>1, SensorAt, TypesParts
    <2> QED
      BY <2>1, <2>2, TypesParts, KnownAt DEF Repair
  <1> HIDE DEF op, work, rest, b
  <1>5. /\ \A d \in Devices \ {b} : rows'[d] = rows[d] /\ retained'[d] = retained[d]
        /\ \A d \in Devices : torn[d] \subseteq torn'[d]
    <2>1. CASE op = <<"remove", b>> /\ rows' = [rows EXCEPT ![b] = {}] /\ UNCHANGED <<retained, torn>>
      BY <1>4, <2>1 DEF StoreOK
    <2>2. CASE /\ op \in Publishing /\ Publish(op) /\ torn' = (IF conn = "up" THEN torn ELSE [torn EXCEPT ![b] = @ \cup {op[3]}])
               /\ UNCHANGED rows
      <3>1. \A d \in Devices : d # op[2] => retained'[d] = retained[d]
        BY <1>4, <2>2, PublishType
      <3> QED
        BY <1>4, <2>2, <3>1 DEF b, TornOK
    <2> QED
      BY <1>1, <2>1, <2>2
  <1>6. ASSUME NEW d \in KnownDevices
        PROVE  Agreed(d)'
    BY <1>1, <1>2, <1>4, <1>5, <1>6, AgreedKept
  <1>7. ASSUME NEW k \in 1 .. Len(rest)
        PROVE  \E d \in Devices \ KnownDevices :
                 rest[k] = <<"remove", d>> \/ \E t \in Topics : rest[k] = <<"clear", d, t>>
    <2>1. k + 1 \in 1 .. Len(work) /\ rest[k] = work[k + 1]
      BY <1>3
    <2>2. \E d \in Devices \ KnownDevices :
            work[k + 1] = <<"remove", d>> \/ \E t \in Topics : work[k + 1] = <<"clear", d, t>>
      BY <1>2, <2>1
    <2> QED
      BY <2>1, <2>2
  <1>8. ASSUME NEW d \in Devices \ KnownDevices, rows'[d] # {}
        PROVE  Has(rest, <<"remove", d>>)
    <2>1. op # <<"remove", d>> /\ rows[d] # {}
      <3>1. CASE op = <<"remove", b>> /\ rows' = [rows EXCEPT ![b] = {}]
        BY <1>4, <1>8, <3>1 DEF StoreOK
      <3>2. CASE (\E t \in Topics : op = <<"clear", b, t>>) /\ UNCHANGED rows
        BY <1>8, <3>2
      <3> QED
        BY <1>1, <3>1, <3>2
    <2> QED
      BY <1>2, <1>3, <1>8, <2>1
  <1>9. ASSUME NEW k \in 1 .. Len(rest), NEW d \in Devices, rest[k] = <<"remove", d>>, NEW t \in retained'[d] \ torn'[d]
        PROVE  \E j \in 1 .. k - 1 : rest[j] = <<"clear", d, t>>
    <2>1. k + 1 \in 1 .. Len(work) /\ work[k + 1] = <<"remove", d>> /\ t \notin torn[d]
      BY <1>3, <1>5, <1>9
    <2>2. t \in retained[d] /\ op # <<"clear", d, t>>
      <3>1. CASE op = <<"remove", b>> /\ UNCHANGED retained
        BY <3>1
      <3>2. CASE /\ \E u \in Topics : op = <<"clear", b, u>>
                 /\ op \in Publishing /\ Publish(op) /\ torn' = (IF conn = "up" THEN torn ELSE [torn EXCEPT ![b] = @ \cup {op[3]}])
        <4>1. PICK u \in Topics : op = <<"clear", b, u>>
          BY <3>2
        <4>2. CASE d # b
          BY <1>5, <4>1, <4>2
        <4>3. CASE d = b
          <5>1. op[1] = "clear" /\ op[3] = u /\ b \in Devices
            BY <1>1, <4>1
          <5>2. CASE conn = "up"
            <6>1. retained'[b] = retained[b] \ {u}
              BY <1>4, <3>2, <5>1, <5>2, PublishType DEF b
            <6> QED
              BY <4>1, <4>3, <6>1
          <5>3. CASE conn # "up"
            <6>1. retained'[b] = retained[b] /\ u \in torn'[b]
              BY <1>4, <3>2, <5>1, <5>3, PublishType DEF b, TornOK
            <6> QED
              BY <1>9, <4>1, <4>3, <6>1
          <5> QED
            BY <5>2, <5>3
        <4> QED
          BY <4>2, <4>3
      <3> QED
        BY <1>1, <3>1, <3>2
    <2>3. PICK j \in 1 .. k : work[j] = <<"clear", d, t>>
      <3>1. PICK j \in 1 .. (k + 1) - 1 : work[j] = <<"clear", d, t>>
        BY <1>2, <2>1, <2>2
      <3>2. j \in 1 .. k
        BY <1>3
      <3> QED
        BY <3>1, <3>2
    <2>4. j # 1
      BY <1>1, <2>2, <2>3
    <2>5. j - 1 \in 1 .. k - 1 /\ j - 1 \in 1 .. Len(rest) /\ j = (j - 1) + 1
      BY <1>3, <2>3, <2>4
    <2> QED
      BY <1>3, <2>3, <2>5
  <1>10. KnownDevices' = KnownDevices
    BY <1>1 DEF KnownDevices
  <1>11. \A k \in 1 .. Len(rest), d \in Devices : rest[k] = <<"remove", d>> =>
           \A t \in retained'[d] \ torn'[d] : \E j \in 1 .. k - 1 : rest[j] = <<"clear", d, t>>
    BY <1>9
  <1>12. m'.work = rest /\ KnownDevices' = KnownDevices
    BY <1>1, <1>10
  <1> QED
    BY SMTT(60), <1>6, <1>7, <1>8, <1>11, <1>12 DEF PruneInv

LEMMA PruneInvStep == Repair /\ [Next]_vars => PruneInv'
<1> SUFFICES ASSUME Repair, [Next]_vars, m'.pc = "prune"
             PROVE  PruneInv'
  BY DEF PruneInv
<1>0. /\ Types /\ StoreOK /\ TornOK /\ MqttOK /\ ProcessOK /\ SyncInv /\ ConfigsListed
      /\ Len(sensors) \in Nat /\ sensors \in Seq(Sensors)
  BY TypesParts, LenProperties DEF Repair, Base
<1>1. CASE Requested
  <2>1. /\ first /\ m.pc = "req" /\ SyncFrom(1, leftover') /\ UNCHANGED <<sensors, rows, retained, torn>>
        /\ leftover' = {d \in Devices : rows[d] # {}}
    BY <1>1 DEF Requested, ByM, At
  <2>2. m'.work = PruneAll(leftover') /\ \A j \in 1 .. Len(sensors) : Discovered(j)
    <3>1. leftover' \in SUBSET Devices /\ 1 \in Nat \ {0}
      BY <2>1
    <3>2. \/ m'.pc = "discover"
          \/ /\ m' = [pc |-> "prune", at |-> 1, work |-> PruneAll(leftover')]
             /\ \A j \in 1 .. Len(sensors) : Discovered(j)
      BY <1>0, <2>1, <3>1, SyncFromNext, Zenon
    <3> QED
      BY <3>2
  <2>3. ~Discovered(1)
    BY DEF Discovered
  <2>4. KnownDevices = {}
    <3>1. Len(sensors) = 0
      BY <1>0, <2>2, <2>3
    <3> QED
      BY <1>0, <3>1 DEF KnownDevices
  <2>5. KnownDevices' = KnownDevices
    BY <2>1 DEF KnownDevices
  <2>6. InDiscovery = {}
    BY <1>0, <2>1 DEF InDiscovery, SyncInv
  <2>7. \A d \in Devices : retained[d] \subseteq rows[d] \cup torn'[d]
    BY <1>0, <2>1, <2>6 DEF ConfigsListed
  <2> QED
    BY <2>1, <2>2, <2>4, <2>5, <2>7, PruneBegins
<1>2. CASE SyncUpsert
  <2> DEFINE b == sensors[m.at].dev
  <2>1. /\ m.pc = "subscribe" /\ m.at \in 1 .. Len(sensors) /\ b \in Devices \cap KnownDevices
        /\ rows' = [rows EXCEPT ![b] = Current] /\ Listed(b)
        /\ leftover' = leftover \ {b} /\ SyncFrom(m.at + 1, leftover') /\ UNCHANGED <<sensors, retained>>
    <3>1. m.pc = "subscribe"
      BY <1>2, StepsOfM
    <3> HIDE DEF b
    <3> QED
      BY <1>2, <3>1, UpsertDone DEF b
  <2>2. m'.work = PruneAll(leftover') /\ \A j \in m.at + 1 .. Len(sensors) : Discovered(j)
    <3>1. leftover' \in SUBSET Devices /\ m.at + 1 \in Nat \ {0}
      BY <1>0, <2>1 DEF ProcessOK
    <3>2. \/ m'.pc = "discover"
          \/ /\ m' = [pc |-> "prune", at |-> 1, work |-> PruneAll(leftover')]
             /\ \A j \in m.at + 1 .. Len(sensors) : Discovered(j)
      BY <1>0, <2>1, <3>1, SyncFromNext, Zenon
    <3> QED
      BY <3>2
  <2>3. \A j \in 1 .. Len(sensors) : Agreed(sensors[j].dev)' /\ sensors[j].dev \notin leftover'
    <3> DEFINE n == Len(sensors)
    <3>1. n \in Nat /\ m.at <= n /\ n <= Len(sensors) /\ \A i \in m.at + 1 .. n : Discovered(i)
      BY <1>0, <2>1, <2>2
    <3> HIDE DEF n
    <3>2. \A j \in 1 .. n : Agreed(sensors[j].dev)' /\ sensors[j].dev \notin leftover'
      BY <1>2, <3>1, LoopDone
    <3> QED
      BY <3>2 DEF n
  <2>4. KnownDevices' = KnownDevices
    BY <2>1 DEF KnownDevices
  <2>5. ASSUME NEW d \in KnownDevices
        PROVE  Agreed(d)' /\ d \notin leftover'
    <3>1. PICK j \in 1 .. Len(sensors) : sensors[j].dev = d
      BY <1>0, KnownAt
    <3>2. sensors'[j].dev = d
      BY <2>1, <3>1
    <3> QED
      BY <2>3, <3>1, <3>2
  <2>6. leftover' \in SUBSET (Devices \ KnownDevices)
    BY <1>0, <2>1, <2>5 DEF ProcessOK
  <2> HIDE DEF b
  <2>7. \A d \in Devices \ KnownDevices : rows'[d] = rows[d] /\ torn'[d] = torn[d] /\ (d \in leftover => d \in leftover')
    BY <1>0, <2>1 DEF StoreOK, Listed, TornOK
  <2>8. \A d \in Devices \ KnownDevices : rows'[d] # {} => d \in leftover'
    BY <2>1, <2>7 DEF Repair, LoopInv
  <2>9. \A d \in leftover' : retained[d] \subseteq rows[d] \cup torn'[d]
    BY <1>0, <2>6, <2>7, DiscoveryKnown DEF ConfigsListed
  <2> QED
    BY <2>1, <2>2, <2>5, <2>6, <2>8, <2>9, PruneBegins
<1>3. CASE UNCHANGED m
  <2>1. /\ UNCHANGED <<sensors, rows, torn, version>> /\ touched \subseteq touched'
        /\ \A d \in Devices : retained'[d] = retained[d] \/ (retained'[d] = {} /\ d \in touched')
    BY <1>3, LoopWaits
  <2>2. KnownDevices' = KnownDevices /\ KnownDevices \subseteq Devices
    <3>1. \A i \in DOMAIN sensors : sensors[i].dev \in Devices
      BY <1>0, SensorAt
    <3> QED
      BY <2>1, <3>1, KnownAt DEF KnownDevices
  <2>3. ASSUME NEW d \in KnownDevices
        PROVE  Agreed(d)'
    <3>1. Agreed(d)
      BY <1>3 DEF Repair, PruneInv
    <3> QED
      BY <2>1, <2>2, <3>1, AgreedKept
  <2> DEFINE work == m.work
  <2>4. \A k \in 1 .. Len(work), d \in Devices : work[k] = <<"remove", d>> =>
          \A t \in retained'[d] \ torn'[d] : \E j \in 1 .. k - 1 : work[j] = <<"clear", d, t>>
    BY ZenonT(60), <1>3, <2>1 DEF Repair, PruneInv
  <2>5. /\ \A k \in 1 .. Len(work) : \E d \in Devices \ KnownDevices :
             work[k] = <<"remove", d>> \/ \E t \in Topics : work[k] = <<"clear", d, t>>
        /\ \A d \in Devices \ KnownDevices : rows[d] # {} => Has(work, <<"remove", d>>)
    BY <1>3 DEF Repair, PruneInv
  <2>6. rows' = rows /\ torn' = torn /\ KnownDevices' = KnownDevices
    BY <1>3, <2>1, <2>2
  <2>7. m'.work = work
    BY <1>3
  <2> HIDE DEF work
  <2> QED
    <3>1. /\ \A d \in KnownDevices' : Agreed(d)'
          /\ \A k \in 1 .. Len(work) : \E d \in Devices \ KnownDevices' :
               work[k] = <<"remove", d>> \/ \E t \in Topics : work[k] = <<"clear", d, t>>
          /\ \A d \in Devices \ KnownDevices' : rows'[d] # {} => Has(work, <<"remove", d>>)
      BY <2>3, <2>5, <2>6
    <3> QED
      BY SMTT(60), <2>4, <2>7, <3>1 DEF PruneInv
<1> QED
  <2>1. ~Crash /\ ~Lost /\ ~Connect /\ ~SubscribeRequest /\ ~SyncPublish /\ ~System
    BY Starts, StepsOfM DEF Crash, Lost, SessionOver
  <2> QED
    BY <1>1, <1>2, <1>3, <2>1, PruneGoesOn, WritersOfM

\* A device that a step of the serving process is about has been touched, or is being learned.
LEMMA ServingStep ==
  ASSUME Repair, [Next]_vars, ~first, ~Start, ~Crash, NEW d \in Devices
  PROVE  /\ touched \subseteq touched' /\ UNCHANGED version
         /\ d \in touched' \/ (rows'[d] = rows[d] /\ retained'[d] = retained[d])
         /\ d \notin KnownDevices => rows'[d] = rows[d] \/ rows'[d] = {}
  <1>0. Types /\ StoreOK /\ TeachOK
    BY TypesParts DEF Repair, Base
  <1>1. ~SyncPublish /\ ~SyncUpsert /\ ~Prune
    BY StepsOfM DEF Repair, Base, SyncInv
  <1>2. touched \subseteq touched' /\ UNCHANGED version
    BY WritersOfTouched, WritersOfVersion
  <1>3. ProvisionUpsert => e.dev \in touched /\ e.dev \in KnownDevices /\ e.dev \in Devices
    BY <1>0 DEF ProvisionUpsert, Repair, TeachWork, TeachKnown, TeachOK
  <1>4. ProvisionPublish => e.dev \in touched /\ e.dev \in KnownDevices
    BY DEF ProvisionPublish, Repair, TeachWork, TeachKnown
  <1>5. \/ rows'[d] = rows[d] \/ (ProvisionUpsert /\ d = e.dev)
        \/ (d \in inbox /\ rows'[d] = {})
    <2>1. ProvisionUpsert => rows' = [rows EXCEPT ![e.dev] = Current]
      BY DEF ProvisionUpsert, Upsert
    <2>2. \A b \in Devices : HandleDelete(b) => b \in inbox /\ rows' = [rows EXCEPT ![b] = {}]
      BY DEF HandleDelete
    <2> QED
      BY <1>0, <1>1, <2>1, <2>2, WritersOfRows DEF StoreOK
  <1>6. d \in inbox => d \in touched
    BY DEF Repair, SubsInv
  <1>7. \/ retained'[d] = retained[d] \/ (ProvisionPublish /\ d = e.dev)
        \/ (retained'[d] = {} /\ d \in touched')
    BY <1>1, RetainedStep
  <1> QED
    BY <1>2, <1>3, <1>4, <1>5, <1>6, <1>7

LEMMA ServedInvStep == Repair /\ [Next]_vars => ServedInv'
<1> SUFFICES ASSUME Repair, [Next]_vars, ~first'
             PROVE  ServedInv'
  BY DEF ServedInv
<1>0. Types /\ StoreOK /\ SyncInv /\ ConfigsListed /\ KnownDevices \subseteq Devices
  <2>1. Types
    BY DEF Repair, Base
  <2>2. \A i \in DOMAIN sensors : sensors[i].dev \in Devices
    BY <2>1, SensorAt, TypesParts
  <2> QED
    BY <2>1, <2>2, TypesParts, KnownAt DEF Repair, Base
<1>1. ~Start /\ ~Crash
  BY DEF Start, Starting, Crash
<1>2. CASE System
  <2>1. m.pc = "prune" /\ m.work = <<>> /\ UNCHANGED <<sensors, rows, retained, torn, touched, version>>
    BY <1>2 DEF System, ByM
  <2>2. InDiscovery = {}
    BY <1>0, <2>1 DEF InDiscovery, SyncInv
  <2>3. \A x : ~Has(m.work, x)
    BY <2>1 DEF Has
  <2>4. /\ \A d \in KnownDevices : Agreed(d)
        /\ \A d \in Devices \ KnownDevices : rows[d] = {}
    BY <2>1, <2>3 DEF Repair, PruneInv
  <2>5. KnownDevices' = KnownDevices /\ Current' = Current
    BY <2>1, CurrentSame DEF KnownDevices
  <2> QED
    BY <2>1, <2>4, <2>5 DEF ServedInv, Agreed
<1>3. CASE ~first
  <2>1. KnownDevices \subseteq KnownDevices' /\ KnownDevices' \ KnownDevices \subseteq touched'
    BY <1>1, KnownStep DEF Repair
  <2>2. ASSUME NEW d \in KnownDevices'
        PROVE  Agreed(d)'
    <3>1. CASE d \in touched'
      BY <3>1 DEF Agreed
    <3>2. CASE d \notin touched'
      <4>1. d \in KnownDevices /\ d \in Devices
        BY <1>0, <2>1, <3>2
      <4>2. Agreed(d)
        BY <1>3, <4>1 DEF Repair, ServedInv
      <4>3. /\ touched \subseteq touched' /\ UNCHANGED version
            /\ rows'[d] = rows[d] /\ retained'[d] = retained[d]
        BY <1>1, <1>3, <3>2, <4>1, ServingStep
      <4> QED
        BY <4>2, <4>3, AgreedKept
    <3> QED
      BY <3>1, <3>2
  <2>3. ASSUME NEW d \in Devices \ KnownDevices'
        PROVE  rows'[d] = {}
    <3>1. d \notin KnownDevices
      BY <2>1, <2>3
    <3>2. rows'[d] = rows[d] \/ rows'[d] = {}
      BY <1>1, <1>3, <3>1, ServingStep
    <3>3. rows[d] = {}
      BY <1>3, <3>1 DEF Repair, ServedInv
    <3> QED
      BY <3>2, <3>3
  <2> QED
    BY <2>2, <2>3 DEF ServedInv
<1> QED
  BY <1>1, <1>2, <1>3, WritersOfSwitches DEF LearnOn, LearnOff

\* A row is rewritten or removed only when it then lists what the broker keeps, but for what was
\* left in no row.
LEMMA RowsStep ==
  ASSUME Repair, [Next]_vars, NEW d \in Devices
  PROVE  \/ rows'[d] = rows[d] /\ torn[d] \subseteq torn'[d]
         \/ retained'[d] \subseteq rows'[d] \cup torn'[d]
  <1>0. Types /\ StoreOK /\ TeachOK /\ TornOK
    BY TypesParts DEF Repair, Base
  <1>1. CASE SyncUpsert
    <2> DEFINE b == sensors[m.at].dev
    <2>1. /\ b \in Devices /\ rows' = [rows EXCEPT ![b] = Current]
          /\ Listed(b) /\ retained[b] \subseteq Current \cup torn'[b]
          /\ UNCHANGED retained
      BY <1>1, UpsertDone
    <2> HIDE DEF b
    <2> QED
      BY <1>0, <2>1, TornLess DEF StoreOK
  <1>2. CASE ProvisionUpsert
    <2>1. /\ e.dev \in Devices /\ rows' = [rows EXCEPT ![e.dev] = Current] /\ Listed(e.dev)
          /\ UNCHANGED retained /\ retained[e.dev] \subseteq Current \cup torn[e.dev]
      BY <1>0, <1>2 DEF ProvisionUpsert, Upsert, TeachOK, Repair, TeachWork
    <2> QED
      BY <1>0, <2>1, TornLess DEF StoreOK
  <1>3. CASE Prune
    <2> DEFINE op == Head(m.work)
               b == op[2]
    <2>1. /\ m.work \in Seq(Publishing \cup Removing) /\ m.work # <<>> /\ op = m.work[1] /\ b \in Devices
          /\ \/ op = <<"remove", b>> /\ rows' = [rows EXCEPT ![b] = {}] /\ UNCHANGED <<retained, torn>>
             \/ torn' = (IF conn = "up" THEN torn ELSE [torn EXCEPT ![b] = @ \cup {op[3]}]) /\ UNCHANGED rows
      BY <1>3, PruneOp
    <2> HIDE DEF op, b
    <2>2. CASE op = <<"remove", b>> /\ rows' = [rows EXCEPT ![b] = {}] /\ UNCHANGED <<retained, torn>>
      <3>1. 1 \in 1 .. Len(m.work)
        BY <2>1, HasTail
      <3>2. \A t \in retained[b] \ torn[b] : \E j \in 1 .. 1 - 1 : m.work[j] = <<"clear", b, t>>
        BY ZenonT(60), <1>3, <2>1, <2>2, <3>1, StepsOfM DEF Repair, PruneInv
      <3>3. retained[b] \subseteq torn[b]
        BY <3>2
      <3> QED
        BY <1>0, <2>1, <2>2, <3>3 DEF StoreOK
    <2>3. CASE torn' = (IF conn = "up" THEN torn ELSE [torn EXCEPT ![b] = @ \cup {op[3]}]) /\ UNCHANGED rows
      BY <1>0, <2>1, <2>3 DEF TornOK
    <2> QED
      BY <2>1, <2>2, <2>3
  <1>4. ASSUME NEW b \in Devices, HandleDelete(b)
        PROVE  rows' = [rows EXCEPT ![b] = {}] /\ retained[b] = {} /\ UNCHANGED <<retained, torn>>
    BY <1>4 DEF HandleDelete, history, Repair, SubsInv
  <1>5. CASE UNCHANGED rows /\ ~SyncUpsert /\ ~ProvisionUpsert /\ ~Prune
    <2>1. ASSUME Crash \/ Lost \/ ProvisionRaises
          PROVE  torn[d] \subseteq torn'[d]
      BY <1>0, <2>1, TornMore DEF Crash, Lost, SessionOver, ProvisionRaises
    <2> QED
      BY <1>5, <2>1, WritersOfTorn
  <1>6. CASE \E b \in Devices : HandleDelete(b)
    BY <1>0, <1>4, <1>6 DEF StoreOK
  <1> QED
    BY <1>1, <1>2, <1>3, <1>5, <1>6, WritersOfRows

\* A discovery goes on, ends with its row written, or is torn.
LEMMA DiscoveryStep ==
  ASSUME Repair, [Next]_vars, NEW d \in InDiscovery
  PROVE  \/ d \in InDiscovery' \/ (SyncUpsert /\ d = sensors[m.at].dev) \/ (ProvisionUpsert /\ d = e.dev)
         \/ (Crash \/ Lost \/ ProvisionRaises) /\ UNCHANGED <<rows, retained>> /\ retained[d] \subseteq rows[d] \cup torn'[d]
  <1>0. Types /\ MqttOK /\ TeachOK /\ TornOK /\ SyncInv /\ d \in Devices
    <2>1. KnownDevices \subseteq Devices
      BY TypesParts, KnownAt, SensorAt DEF Repair, Base
    <2> QED
      BY <2>1, TypesParts, DiscoveryKnown DEF Repair, Base
  <1>1. Crash \/ Lost => UNCHANGED <<rows, retained>> /\ retained[d] \subseteq rows[d] \cup torn'[d]
    BY <1>0, TornMore DEF Crash, Lost, SessionOver, durable
  <1>2. ProvisionRaises /\ e.pc # "announce" /\ d = e.dev => UNCHANGED <<rows, retained>> /\ retained[d] \subseteq rows[d] \cup torn'[d]
    BY <1>0, TornMore DEF ProvisionRaises
  <1>3. CASE e.pc \in {"discover", "subscribe"} /\ d = e.dev
    <2>1. ~OnTeachIn /\ ~RespondFails /\ ~Persist /\ ~PersistFails
      BY <1>3 DEF OnTeachIn, Answered, RespondFails, Persist, PersistFails, Writing
    <2>2. \A b \in Devices, copied \in BOOLEAN : ~HearPair(b, copied)
      BY <1>3 DEF HearPair, HearingPair
    <2>3. \A b \in Devices : ~HearUte(b)
      BY <1>3 DEF HearUte
    <2>4. CASE UNCHANGED e
      BY <1>3, <2>4 DEF InDiscovery
    <2>5. CASE ProvisionPublish
      <3>1. e'.dev = e.dev /\ e'.pc \in {"discover", "subscribe"}
        BY <2>5, TeachOp
      <3> QED
        BY <1>3, <3>1 DEF InDiscovery
    <2>6. ~Announce
      BY <1>3 DEF Announce
    <2> QED
      BY <1>1, <1>2, <1>3, <2>1, <2>2, <2>3, <2>4, <2>5, <2>6, WritersOfE
  <1>4. CASE m.pc \in {"discover", "subscribe"} /\ d = sensors[m.at].dev
    <2>1. ~Connect /\ ~SubscribeRequest /\ ~Requested /\ ~Prune /\ ~System
      BY <1>0, <1>4, TypesParts, StepsOfM DEF Connect, ProcessOK
    <2>2. CASE UNCHANGED m
      <3>1. UNCHANGED sensors
        BY <1>4, <2>2, LoopWaits
      <3> QED
        BY <1>4, <2>2, <3>1 DEF InDiscovery
    <2>3. CASE SyncPublish
      <3>1. m'.pc \in {"discover", "subscribe"} /\ m'.at = m.at /\ UNCHANGED sensors
        BY <2>3, SyncOp, StepsOfM
      <3> QED
        BY <1>4, <3>1 DEF InDiscovery
    <2> QED
      BY <1>1, <1>4, <2>1, <2>2, <2>3, WritersOfM
  <1> QED
    BY <1>3, <1>4 DEF InDiscovery

LEMMA ConfigsListedStep == Repair /\ [Next]_vars => ConfigsListed'
<1> SUFFICES ASSUME Repair, [Next]_vars, NEW d \in Devices, ~(retained'[d] \subseteq rows'[d] \cup torn'[d])
             PROVE  d \in InDiscovery'
  BY DEF ConfigsListed
<1>0. Types /\ StoreOK /\ TornOK /\ ConfigsListed
  BY TypesParts DEF Repair, Base
<1>1. rows'[d] = rows[d] /\ torn[d] \subseteq torn'[d]
  BY RowsStep
<1>2. CASE SyncPublish /\ d = sensors[m.at].dev
  <2>1. m'.pc \in {"discover", "subscribe"} /\ m'.at = m.at /\ UNCHANGED sensors
    BY <1>2, SyncOp, StepsOfM
  <2> QED
    BY <1>2, <2>1 DEF InDiscovery
<1>3. CASE ProvisionPublish /\ d = e.dev
  <2>1. e'.pc \in {"discover", "subscribe"} /\ e'.dev = e.dev
    BY <1>3, TeachOp
  <2> QED
    BY <1>3, <2>1 DEF InDiscovery
<1>4. CASE retained'[d] \subseteq retained[d]
  <2>1. d \in InDiscovery
    BY <1>0, <1>1, <1>4 DEF ConfigsListed
  <2>2. SyncUpsert /\ d = sensors[m.at].dev => rows'[d] = Current /\ retained[d] \subseteq Current \cup torn'[d]
    <3>1. SyncUpsert => /\ rows' = [rows EXCEPT ![sensors[m.at].dev] = Current]
                        /\ retained[sensors[m.at].dev] \subseteq Current \cup torn'[sensors[m.at].dev]
      BY UpsertDone
    <3> QED
      BY <1>0, <3>1 DEF StoreOK
  <2>3. ProvisionUpsert /\ d = e.dev => rows'[d] = Current /\ retained[d] \subseteq Current \cup torn[d]
    BY <1>0 DEF ProvisionUpsert, Upsert, StoreOK, Repair, TeachWork
  <2> QED
    BY <1>1, <1>4, <2>1, <2>2, <2>3, DiscoveryStep
<1> QED
  BY <1>2, <1>3, <1>4, RetainedStep

LEMMA RepairInit == Init => Repair
<1> SUFFICES ASSUME Init PROVE Repair
  OBVIOUS
<1>1. m.pc = "away" /\ e.pc = "idle" /\ subs = {} /\ inbox = {} /\ first /\ retained = rows
  BY DEF Init, AwayM, IdleE
<1>2. ConfigsListed
  BY <1>1 DEF ConfigsListed
<1> QED
  BY <1>1, <1>2, BaseInit
     DEF Repair, TeachKnown, SubsInv, SyncWork, TeachWork, LoopInv, PruneInv, ServedInv

LEMMA RepairStep == Repair /\ [Next]_vars => Repair'
<1> SUFFICES ASSUME Repair, [Next]_vars PROVE Repair'
  OBVIOUS
<1>1. Base' /\ TeachKnown'
  BY BaseStep, TeachKnownStep DEF Repair
<1>2. SubsInv' /\ SyncWork' /\ TeachWork' /\ LoopInv' /\ PruneInv' /\ ServedInv' /\ ConfigsListed'
  BY SubsStep, SyncWorkStep, TeachWorkStep, LoopInvStep, PruneInvStep, ServedInvStep, ConfigsListedStep
<1> QED
  BY <1>1, <1>2 DEF Repair

LEMMA RepairSuffices == Repair => ConfigsListed /\ SyncRepairs
<1> SUFFICES ASSUME Repair PROVE ConfigsListed /\ SyncRepairs
  OBVIOUS
<1>1. ASSUME m.pc = "serving", NEW d \in Devices \ touched
      PROVE  /\ rows[d] = (IF d \in KnownDevices THEN Current ELSE {})
             /\ rows[d] \subseteq retained[d] /\ retained[d] \subseteq rows[d] \cup torn[d]
  <2>1. ~first
    BY <1>1 DEF Repair, Base, SyncInv
  <2>2. retained[d] \subseteq rows[d] \cup torn[d]
    <3>1. d \notin InDiscovery
      BY <1>1 DEF InDiscovery, Repair, TeachWork
    <3> QED
      BY <1>1, <3>1 DEF Repair, ConfigsListed
  <2>3. CASE d \in KnownDevices
    BY <1>1, <2>1, <2>2, <2>3 DEF Repair, ServedInv, Agreed
  <2>4. CASE d \notin KnownDevices
    BY <1>1, <2>1, <2>2, <2>4 DEF Repair, ServedInv
  <2> QED
    BY <2>3, <2>4
<1> QED
  BY <1>1 DEF Repair, SyncRepairs

\* Whatever ends or interrupts a discovery or a prune, and whenever, the configs that the broker
\* keeps are listed by a row, but those of a discovery that goes on and the very configs that an
\* interrupted one had left in no row.
THEOREM ConfigsAreListed == Spec => []ConfigsListed
<1>1. Spec => []Repair
  BY RepairInit, RepairStep, PTL DEF Spec
<1> QED
  BY <1>1, RepairSuffices, PTL

\* Once a process serves, each device not provisioned or deleted since has the row and the configs
\* that list and mapping of this process say, also after interrupted discoveries and prunes; what
\* may be there besides are configs that such an interruption had once left in no row.  Those the
\* synchronisation does not see, and the theorem does not claim that they go.
THEOREM SyncDoesRepair == Spec => []SyncRepairs
<1>1. Spec => []Repair
  BY RepairInit, RepairStep, PTL DEF Spec
<1> QED
  BY <1>1, RepairSuffices, PTL

-----------------------------------------------------------------------------
(* Provisioning implements the registry.                                   *)

LEMMA WritersOfUnkept ==
  ASSUME [Next]_vars
  PROVE  UNCHANGED unkept \/ PersistFails \/ \E d \in Devices : RemoveEntry(d)
  BY DEF Next, vars, history, Start, Starting, Crash, Connect, Break, Lost, SessionOver, MqttTask, ByM, ByE, Rest, Outside,
         SubscribeRequest, Subscribing, Requested, SyncPublish, SyncUpsert, Upserted, Prune, System,
         HandleDelete, LearnOn, LearnOff, Hearing, HearUte, MissHalf, HearHalf, HearPair, HearingPair, RespondFails,
         Teaching, OnTeachIn, Answered, ProvisionPublish, ProvisionUpsert, ProvisionRaises,
         Persist, Writing, Announce, DeleteConfigs, SendSecureTeachIn, AddEntry

LEMMA WritersOfAnnounced ==
  ASSUME [Next]_vars
  PROVE  UNCHANGED announced \/ Announce
  BY DEF Next, vars, durable, Start, Starting, Crash, Connect, Break, Lost, SessionOver, MqttTask, ByM, ByE, Rest, Outside,
         SubscribeRequest, Subscribing, Requested, SyncPublish, SyncUpsert, Upserted, Prune, System,
         HandleDelete, LearnOn, LearnOff, Hearing, HearUte, MissHalf, HearHalf, HearPair, HearingPair, RespondFails,
         Teaching, OnTeachIn, Answered, ProvisionPublish, ProvisionUpsert, ProvisionRaises,
         Persist, Writing, PersistFails, DeleteConfigs, SendSecureTeachIn, AddEntry, RemoveEntry

LEMMA EntriesAre ==
  ASSUME file \in Seq(Entries)
  PROVE  /\ \A who, d : d \in EntriesBy(who) <=> \E i \in 1 .. Len(file) : file[i].dev = d /\ file[i].by = who
         /\ \A d : InFile(d) <=> d \in EntriesBy("bridge") \cup EntriesBy("user")
         /\ \A who : EntriesBy(who) \subseteq Devices
  <1>1. DOMAIN file = 1 .. Len(file) /\ \A i \in 1 .. Len(file) : file[i] \in Entries
    OBVIOUS
  <1>2. \A i \in 1 .. Len(file) : file[i].dev \in Devices /\ (file[i].by = "user" \/ file[i].by = "bridge")
    BY <1>1 DEF Entries
  <1>3. \A who, d : d \in EntriesBy(who) <=> \E i \in 1 .. Len(file) : file[i].dev = d /\ file[i].by = who
    BY <1>1 DEF EntriesBy
  <1>4. \A d : InFile(d) <=> \E i \in 1 .. Len(file) : file[i].dev = d
    BY <1>1 DEF InFile
  <1> QED
    BY <1>2, <1>3, <1>4

LEMMA EntriesAdded ==
  ASSUME file \in Seq(Entries), NEW a \in Entries, file' = Append(file, a), NEW who
  PROVE  EntriesBy(who)' = IF a.by = who THEN EntriesBy(who) \cup {a.dev} ELSE EntriesBy(who)
  <1>1. /\ file' \in Seq(Entries) /\ Len(file) \in Nat /\ Len(file') = Len(file) + 1
        /\ file'[Len(file) + 1] = a /\ \A i \in 1 .. Len(file) : file'[i] = file[i]
    BY AppendProperties
  <1>2. \A d : d \in EntriesBy(who) <=> \E i \in 1 .. Len(file) : file[i].dev = d /\ file[i].by = who
    BY EntriesAre
  <1>3. \A d : d \in EntriesBy(who)' <=> \E i \in 1 .. Len(file') : file'[i].dev = d /\ file'[i].by = who
    BY <1>1 DEF EntriesBy
  <1>4. ASSUME NEW d
        PROVE  d \in EntriesBy(who)' <=> d \in EntriesBy(who) \/ (a.by = who /\ d = a.dev)
    <2>1. \A i \in 1 .. Len(file') : i \in 1 .. Len(file) \/ i = Len(file) + 1
      BY <1>1
    <2>2. \A i \in 1 .. Len(file) : i \in 1 .. Len(file')
      BY <1>1
    <2>3. Len(file) + 1 \in 1 .. Len(file')
      BY <1>1
    <2> QED
      BY <1>1, <1>2, <1>3, <2>1, <2>2, <2>3
  <1> QED
    BY <1>4

LEMMA EntriesRemoved ==
  ASSUME file \in Seq(Entries), NEW b, file' = Only(file, {a \in Entries : a.dev # b}), NEW who
  PROVE  EntriesBy(who)' = EntriesBy(who) \ {b}
  <1> DEFINE S == {a \in Entries : a.dev # b}
  <1>1. file' \in Seq(Entries) /\ \A a : Has(file', a) <=> a \in S /\ Has(file, a)
    BY OnlyType, OnlyMembers
  <1>2. \A d : d \in EntriesBy(who) <=> \E a : Has(file, a) /\ a.dev = d /\ a.by = who
    BY EntriesAre DEF Has
  <1>3. \A d : d \in EntriesBy(who)' <=> \E a : Has(file', a) /\ a.dev = d /\ a.by = who
    <2>1. \A d : d \in EntriesBy(who)' <=> \E i \in 1 .. Len(file') : file'[i].dev = d /\ file'[i].by = who
      <3>1. DOMAIN file' = 1 .. Len(file')
        BY <1>1
      <3> HIDE DEF S
      <3> QED
        BY <3>1 DEF EntriesBy
    <2> HIDE DEF S
    <2>2. ASSUME NEW d, NEW a, Has(file', a), a.dev = d, a.by = who
          PROVE  d \in EntriesBy(who)'
      BY <2>1, <2>2 DEF Has
    <2>3. ASSUME NEW d, d \in EntriesBy(who)'
          PROVE  \E a : Has(file', a) /\ a.dev = d /\ a.by = who
      <3>1. PICK i \in 1 .. Len(file') : file'[i].dev = d /\ file'[i].by = who
        BY <2>1, <2>3
      <3>2. Has(file', file'[i])
        BY DEF Has
      <3> QED
        BY <3>1, <3>2
    <2> QED
      BY <2>2, <2>3, Zenon
  <1>4. \A a : Has(file, a) => a \in Entries
    BY DEF Has
  <1> QED
    BY <1>1, <1>2, <1>3, <1>4

\* A device that is announced has been written to the list, or could not be, or was taken out.
Enrolled == Base /\ TeachKnown /\ (e.pc = "announce" => InFile(e.dev) \/ e.dev \in unkept)

LEMMA EnrolledInit == Init => Enrolled
  BY BaseInit, Starts DEF Enrolled, TeachKnown, Init

LEMMA EnrolledStep == Enrolled /\ [Next]_vars => Enrolled'
<1> SUFFICES ASSUME Enrolled, [Next]_vars PROVE Enrolled'
  OBVIOUS
<1>1. Base' /\ TeachKnown' /\ TeachOK /\ FileOK
  BY BaseStep, TeachKnownStep, TypesParts DEF Enrolled, Base
<1>2. file \in Seq(Entries)
  BY <1>1 DEF FileOK
<1>3. ASSUME e'.pc = "announce"
      PROVE  InFile(e.dev)' \/ e'.dev \in unkept'
  <2>1. CASE Persist
    <3>1. e'.dev = e.dev /\ e.pc = "persist" /\ e.dev \in Devices /\ e.key \in Keys
      BY <1>1, <2>1 DEF Persist, Writing, TeachOK
    <3>2. CASE InFile(e.dev)
      BY <2>1, <3>1, <3>2 DEF Persist, Writing, InFile
    <3>3. CASE ~InFile(e.dev)
      <4> DEFINE a == [dev |-> e.dev, key |-> e.key, by |-> "bridge"]
      <4>1. a \in Entries /\ file' = Append(file, a) /\ a.dev = e.dev
        BY <2>1, <3>1, <3>3 DEF Persist, Writing, Entries
      <4> HIDE DEF a
      <4>2. /\ file' \in Seq(Entries) /\ Len(file) + 1 \in 1 .. Len(file') /\ file'[Len(file) + 1] = a
        BY <1>2, <4>1, AppendProperties
      <4>3. \E i \in DOMAIN file' : file'[i].dev = e'.dev
        BY <3>1, <4>1, <4>2
      <4> QED
        BY <4>3 DEF InFile
    <3> QED
      BY <3>2, <3>3
  <2>2. CASE PersistFails
    BY <1>1, <2>2 DEF PersistFails, TeachOK
  <2>3. CASE e.pc = "announce" /\ e'.dev = e.dev /\ ~Persist
    <3>1. InFile(e.dev) \/ e.dev \in unkept
      BY <2>3 DEF Enrolled
    <3>2. unkept \subseteq unkept'
      BY WritersOfUnkept DEF PersistFails, RemoveEntry
    <3>3. CASE UNCHANGED file
      BY <2>3, <3>1, <3>2, <3>3 DEF InFile
    <3>4. ASSUME NEW b \in Devices, AddEntry(b), InFile(e.dev)
          PROVE  InFile(e.dev)'
      <4> DEFINE a == ByUser(b)
      <4>1. file' = Append(file, a)
        BY <3>4 DEF AddEntry
      <4>2. a \in Entries
        BY DEF ByUser, Entries, Keys, NoKey
      <4> HIDE DEF a
      <4>3. /\ file' \in Seq(Entries) /\ 1 .. Len(file) \subseteq 1 .. Len(file')
            /\ \A i \in 1 .. Len(file) : file'[i] = file[i]
        BY <1>2, <4>1, <4>2, AppendProperties
      <4>4. PICK i \in 1 .. Len(file) : file[i].dev = e.dev
        BY <1>2, <3>4 DEF InFile
      <4>5. i \in DOMAIN file' /\ file'[i].dev = e'.dev
        BY <2>3, <4>3, <4>4
      <4> QED
        BY <4>5 DEF InFile
    <3>5. ASSUME NEW b \in Devices, RemoveEntry(b)
          PROVE  InFile(e.dev)' \/ e'.dev \in unkept'
      <4>1. file' = Only(file, {a \in Entries : a.dev # b}) /\ unkept' = unkept \cup {b}
        BY <3>5 DEF RemoveEntry
      <4> DEFINE S == {a \in Entries : a.dev # b}
      <4>2. file' \in Seq(Entries) /\ \A a : Has(file', a) <=> a \in S /\ Has(file, a)
        BY <1>2, <4>1, OnlyType, OnlyMembers
      <4>3. CASE InFile(e.dev) /\ e.dev # b
        <5>1. PICK i \in 1 .. Len(file) : file[i].dev = e.dev
          BY <1>2, <4>3 DEF InFile
        <5>2. Has(file, file[i]) /\ file[i] \in S
          BY <1>2, <4>3, <5>1 DEF Has
        <5>3. Has(file', file[i])
          BY <4>2, <5>2
        <5>4. \E j \in DOMAIN file' : file'[j].dev = e'.dev
          BY <2>3, <4>2, <5>1, <5>3 DEF Has
        <5> QED
          BY <5>4 DEF InFile
      <4> QED
        BY <2>3, <3>1, <3>2, <4>1, <4>3
    <3> QED
      BY <2>3, <3>1, <3>2, <3>3, <3>4, <3>5, WritersOfFile
  <2> QED
    <3>1. CASE UNCHANGED e /\ ~Persist /\ ~PersistFails
      BY <1>3, <2>3, <3>1
    <3>2. ~Crash /\ ~Lost /\ ~RespondFails /\ ~Announce /\ ~ProvisionRaises
      BY <1>3, Starts DEF Crash, Lost, SessionOver, RespondFails, Announce, ProvisionRaises
    <3>3. ~OnTeachIn /\ ~ProvisionPublish /\ ~ProvisionUpsert
      <4>1. ~OnTeachIn
        BY <1>3, Starts DEF OnTeachIn, Answered, Provision
      <4>2. ~ProvisionPublish
        BY <1>1, <1>3 DEF ProvisionPublish, TeachOK
      <4>3. ~ProvisionUpsert
        BY <1>1, <1>3 DEF ProvisionUpsert, TeachOK
      <4> QED
        BY <4>1, <4>2, <4>3
    <3>4. \A b \in Devices : ~HearUte(b)
      BY <1>3 DEF HearUte, IdleE
    <3>5. ASSUME NEW b \in Devices, NEW copied \in BOOLEAN, HearPair(b, copied)
          PROVE  UNCHANGED e /\ ~Persist /\ ~PersistFails
      BY <1>3, <3>5 DEF HearPair, HearingPair, Provision, Persist, Writing, PersistFails
    <3> QED
      BY <2>1, <2>2, <3>1, <3>2, <3>3, <3>4, <3>5, WritersOfE
<1> QED
  BY <1>1, <1>3 DEF Enrolled

\* What does not touch the lists, LEARN and the announcement is not seen by the registry.
LEMMA Unseen ==
  ASSUME UNCHANGED <<up, learn, KnownDevices, file, unkept, announced>>
  PROVE  UNCHANGED R!vars
  <1>1. \A who : EntriesBy(who)' = EntriesBy(who)
    BY DEF EntriesBy
  <1> QED
    BY <1>1 DEF R!vars

LEMMA RegistryInit == Init => R!Init
<1> SUFFICES ASSUME Init PROVE R!Init
  OBVIOUS
<1>1. file \in Seq(Entries) /\ \A i \in 1 .. Len(file) : file[i].by = "user"
  BY InitList DEF FileOK
<1>2. EntriesBy("bridge") = {} /\ EntriesBy("user") \subseteq Devices
  BY <1>1, EntriesAre
<1>3. KnownDevices = {}
  BY DEF Init, KnownDevices
<1> QED
  BY <1>2, <1>3 DEF Init, R!Init

\* The list that a start loads is the list.
LEMMA StartKnows ==
  ASSUME Enrolled, Start
  PROVE  KnownDevices' = EntriesBy("bridge") \cup EntriesBy("user")
  <1>1. sensors' = LoadDevices(file) /\ file \in Seq(Entries) /\ UniqueEntries(file)
    BY DEF Start, Starting, Enrolled, Base, FileOK
  <1>2. /\ sensors' \in Seq(Sensors)
        /\ \A s : Has(sensors', s) => \E a : Has(file, a) /\ s.dev = a.dev
        /\ \A a : Has(file, a) => \E s : Has(sensors', s) /\ s.dev = a.dev
    BY <1>1, LoadType
  <1>3. \A d : d \in KnownDevices' <=> \E i \in 1 .. Len(sensors') : sensors'[i].dev = d
    BY <1>2 DEF KnownDevices
  <1>4. \A d : InFile(d) <=> \E i \in 1 .. Len(file) : file[i].dev = d
    BY <1>1 DEF InFile
  <1>5. \A i \in 1 .. Len(sensors') : Has(sensors', sensors'[i])
    BY DEF Has
  <1>6. \A i \in 1 .. Len(file) : Has(file, file[i])
    BY DEF Has
  <1>7. \A d : d \in KnownDevices' <=> InFile(d)
    <2>1. ASSUME NEW d \in KnownDevices' PROVE InFile(d)
      <3>1. PICK i \in 1 .. Len(sensors') : sensors'[i].dev = d
        BY <1>3
      <3>2. PICK a : Has(file, a) /\ d = a.dev
        BY <1>2, <1>5, <3>1
      <3> QED
        BY <1>4, <3>2 DEF Has
    <2>2. ASSUME NEW d, InFile(d) PROVE d \in KnownDevices'
      <3>1. PICK i \in 1 .. Len(file) : file[i].dev = d
        BY <1>4, <2>2
      <3>2. PICK s : Has(sensors', s) /\ s.dev = d
        BY <1>2, <1>6, <3>1
      <3> QED
        BY <1>3, <3>2 DEF Has
    <2> QED
      BY <2>1, <2>2
  <1> QED
    BY <1>1, <1>7, EntriesAre

\* A new sensor is a meeting, with LEARN on.
LEMMA MeetingStep ==
  ASSUME Enrolled, [Next]_vars, ~Start, ~Crash, ~(UNCHANGED KnownDevices)
  PROVE  \E d \in Devices : R!Meet(d)
  <1>0. Types /\ TeachOK /\ SensorsOK
    BY TypesParts DEF Enrolled, Base
  <1>1. PICK d \in Devices : d \notin KnownDevices /\ KnownDevices' = KnownDevices \cup {d} /\ up /\ learn
                             /\ (OnTeachIn \/ \E copied \in BOOLEAN : HearPair(d, copied))
    <2>1. ~(UNCHANGED sensors)
      BY DEF KnownDevices
    <2>2. CASE OnTeachIn
      <3>1. Running /\ learn /\ e.dev \notin KnownDevices /\ Provision(e.dev, NoKey) /\ e.pc = "respond"
        BY <2>1, <2>2 DEF OnTeachIn, Answered
      <3>2. e.dev \in Devices /\ NoKey \in Keys
        BY <1>0, <3>1 DEF TeachOK, NoKey, Keys
      <3>3. KnownDevices' = KnownDevices \cup {e.dev}
        BY <1>0, <3>1, <3>2, ProvisionSensors
      <3> QED
        BY <2>2, <3>1, <3>2, <3>3 DEF Running
    <2>3. ASSUME NEW b \in Devices, NEW copied \in BOOLEAN, HearPair(b, copied)
          PROVE  b \notin KnownDevices /\ KnownDevices' = KnownDevices \cup {b} /\ up /\ learn
      <3> DEFINE key == <<With(b)[0], With(b)[1]>>
      <3>1. /\ key \in Keys
            /\ UNCHANGED KnownDevices \/ (b \notin KnownDevices /\ Provision(b, key))
        BY <1>0, <2>3, PairHeard
      <3> HIDE DEF key
      <3>2. b \notin KnownDevices /\ KnownDevices' = KnownDevices \cup {b}
        BY <1>0, <3>1, ProvisionSensors
      <3> QED
        BY <2>3, <3>2 DEF HearPair, HearingPair, Running
    <2> QED
      BY <2>1, <2>2, <2>3, WritersOfSensors
  <1>2. UNCHANGED <<up, learn, announced>>
    BY <1>1 DEF OnTeachIn, Answered, HearPair, HearingPair, ByE
  <1>3. UNCHANGED <<file, unkept>>
    BY <1>1 DEF OnTeachIn, Answered, HearPair, HearingPair, Rest
  <1>4. \A who : EntriesBy(who)' = EntriesBy(who)
    BY <1>3 DEF EntriesBy
  <1> QED
    BY <1>1, <1>2, <1>3, <1>4 DEF R!Meet

\* An entry written, failed, added or taken out
LEMMA ListingStep ==
  ASSUME Enrolled, [Next]_vars, UNCHANGED KnownDevices, ~Start, ~Crash, ~(UNCHANGED <<file, unkept>>)
  PROVE  \E d \in Devices : R!Write(d) \/ R!Fail(d) \/ R!Edit(d)
  <1>0. TeachOK /\ file \in Seq(Entries)
    BY TypesParts DEF Enrolled, Base
  <1>1. CASE Persist
    <2>1. /\ up /\ e.pc = "persist" /\ e.dev \in Devices /\ e.key \in Keys /\ e.dev \in KnownDevices
          /\ UNCHANGED <<up, learn, announced, unkept>>
      BY <1>0, <1>1 DEF Persist, Writing, ByE, history, TeachOK, Enrolled, TeachKnown
    <2> DEFINE a == [dev |-> e.dev, key |-> e.key, by |-> "bridge"]
    <2>2. ~InFile(e.dev) /\ file' = Append(file, a) /\ a \in Entries /\ a.dev = e.dev /\ a.by = "bridge"
      BY <1>1, <2>1 DEF Persist, Writing, Entries
    <2> HIDE DEF a
    <2>3. EntriesBy("bridge")' = EntriesBy("bridge") \cup {e.dev} /\ EntriesBy("user")' = EntriesBy("user")
      BY <1>0, <2>2, EntriesAdded
    <2>4. e.dev \notin EntriesBy("bridge") \cup EntriesBy("user")
      BY <1>0, <2>2, EntriesAre
    <2>5. R!Write(e.dev)
      BY <2>1, <2>3, <2>4 DEF R!Write, R!Listed
    <2> QED
      BY <2>1, <2>5
  <1>2. CASE PersistFails
    <2>1. /\ up /\ e.pc = "persist" /\ e.dev \in Devices /\ e.dev \in KnownDevices /\ unkept' = unkept \cup {e.dev}
          /\ UNCHANGED <<up, learn, announced, file>>
      BY <1>0, <1>2 DEF PersistFails, ByE, TeachOK, Enrolled, TeachKnown
    <2>2. \A who : EntriesBy(who)' = EntriesBy(who)
      BY <2>1 DEF EntriesBy
    <2>3. R!Fail(e.dev)
      BY <2>1, <2>2 DEF R!Fail
    <2> QED
      BY <2>1, <2>3
  <1>3. ASSUME NEW b \in Devices, AddEntry(b)
        PROVE  R!Edit(b)
    <2>1. ~InFile(b) /\ file' = Append(file, ByUser(b)) /\ UNCHANGED <<up, learn, announced, unkept>>
      BY <1>3 DEF AddEntry, Outside
    <2>2. ByUser(b) \in Entries /\ ByUser(b).dev = b /\ ByUser(b).by = "user"
      BY DEF ByUser, Entries, Keys, NoKey
    <2>3. EntriesBy("bridge")' = EntriesBy("bridge") /\ EntriesBy("user")' = EntriesBy("user") \cup {b}
      BY <1>0, <2>1, <2>2, EntriesAdded
    <2>4. b \notin EntriesBy("bridge") \cup EntriesBy("user")
      BY <1>0, <2>1, EntriesAre
    <2> QED
      BY <2>1, <2>3, <2>4 DEF R!Edit, R!Listed
  <1>4. ASSUME NEW b \in Devices, RemoveEntry(b)
        PROVE  R!Edit(b)
    <2>1. /\ InFile(b) /\ file' = Only(file, {a \in Entries : a.dev # b}) /\ UNCHANGED <<up, learn, announced>>
          /\ unkept' = unkept \cup {b}
      BY <1>4 DEF RemoveEntry, Outside
    <2>2. EntriesBy("bridge")' = EntriesBy("bridge") \ {b} /\ EntriesBy("user")' = EntriesBy("user") \ {b}
      BY <1>0, <2>1, EntriesRemoved
    <2>3. b \in EntriesBy("bridge") \cup EntriesBy("user")
      BY <1>0, <2>1, EntriesAre
    <2> QED
      BY <2>1, <2>2, <2>3 DEF R!Edit, R!Listed
  <1> QED
    BY <1>1, <1>2, <1>3, <1>4, WritersOfFile, WritersOfUnkept

\* Every step is a step of the registry, or one it does not see.
LEMMA RegistryStep == Enrolled /\ [Next]_vars => [R!Next]_(R!vars)
<1> SUFFICES ASSUME Enrolled, [Next]_vars PROVE R!Next \/ UNCHANGED R!vars
  OBVIOUS
<1>0. Types /\ ProcessOK /\ SyncInv
  BY TypesParts DEF Enrolled, Base
<1>1. CASE Start
  <2>1. ~up /\ up' /\ ~learn /\ ~learn' /\ UNCHANGED <<announced, file, unkept>>
    BY <1>0, <1>1 DEF Start, Starting, SyncInv, history
  <2>2. KnownDevices' = EntriesBy("bridge") \cup EntriesBy("user")
    BY <1>1, StartKnows
  <2>3. \A who : EntriesBy(who)' = EntriesBy(who)
    BY <2>1 DEF EntriesBy
  <2>4. learn' = learn /\ up' = TRUE
    BY <1>0, <1>1, <2>1 DEF Start, Starting, ProcessOK
  <2>5. R!Start
    BY <2>1, <2>2, <2>3, <2>4 DEF R!Start, R!Listed
  <2> QED
    BY <2>5 DEF R!Next
<1>2. CASE Crash
  <2>1. up /\ up' = FALSE /\ learn' = FALSE /\ sensors' = <<>> /\ UNCHANGED <<announced, file, unkept>>
    BY <1>2 DEF Crash, SessionOver, durable
  <2>2. \A who : EntriesBy(who)' = EntriesBy(who)
    BY <2>1 DEF EntriesBy
  <2>3. KnownDevices' = {}
    BY <2>1 DEF KnownDevices
  <2>4. R!Stop
    BY <2>1, <2>2, <2>3 DEF R!Stop
  <2> QED
    BY <2>4 DEF R!Next
<1>3. CASE LearnOn \/ LearnOff
  <2>1. up /\ learn' = ~learn /\ UNCHANGED <<up, sensors, announced, file, unkept>>
    BY <1>0, <1>3 DEF LearnOn, LearnOff, Running, durable, history, ProcessOK
  <2>2. (\A who : EntriesBy(who)' = EntriesBy(who)) /\ KnownDevices' = KnownDevices
    BY <2>1 DEF EntriesBy, KnownDevices
  <2>3. R!Switch
    BY <2>1, <2>2 DEF R!Switch
  <2> QED
    BY <2>3 DEF R!Next
<1>4. CASE ~Start /\ ~Crash /\ ~LearnOn /\ ~LearnOff
  <2>1. UNCHANGED <<up, learn>>
    BY <1>4, WritersOfSwitches DEF System, ByM
  <2>2. CASE ~(UNCHANGED KnownDevices)
    BY <1>4, <2>2, MeetingStep DEF R!Next
  <2>3. CASE UNCHANGED KnownDevices /\ ~(UNCHANGED <<file, unkept>>)
    BY <1>4, <2>3, ListingStep DEF R!Next
  <2>4. CASE UNCHANGED KnownDevices /\ UNCHANGED <<file, unkept>> /\ ~(UNCHANGED announced)
    <3>1. Announce /\ up /\ e.pc = "announce" /\ announced' = e.dev
      BY <2>4, WritersOfAnnounced DEF Announce, Running
    <3>2. e.dev \in Devices /\ e.dev \in KnownDevices /\ (InFile(e.dev) \/ e.dev \in unkept)
      BY <1>0, <3>1, TypesParts DEF TeachOK, Enrolled, TeachKnown
    <3>3. e.dev \in EntriesBy("bridge") \cup EntriesBy("user") \cup unkept
      BY <1>0, <3>2, EntriesAre, TypesParts
    <3>4. \A who : EntriesBy(who)' = EntriesBy(who)
      BY <2>4 DEF EntriesBy
    <3>5. R!Announce(e.dev)
      BY <2>1, <2>4, <3>1, <3>2, <3>3, <3>4 DEF R!Announce, R!Listed
    <3> QED
      BY <3>2, <3>5 DEF R!Next
  <2> QED
    BY <2>1, <2>2, <2>3, <2>4, Unseen
<1> QED
  BY <1>1, <1>2, <1>3, <1>4

\* Learning, with its awaits, failures, restarts and edits by the user, does nothing that the
\* registry does not: a device is met only while LEARN is on, written once and announced after.
THEOREM LearningImplementsRegistry == Spec => ImplementsRegistry
<1>1. Init => Enrolled /\ R!Init
  BY EnrolledInit, RegistryInit
<1>2. Enrolled /\ [Next]_vars => Enrolled' /\ [R!Next]_(R!vars)
  BY EnrolledStep, RegistryStep
<1> QED
  BY <1>1, <1>2, PTL DEF Spec, ImplementsRegistry, R!Spec
=============================================================================
