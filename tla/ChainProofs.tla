------------------------------ MODULE ChainProofs ------------------------------
(***************************************************************************)
(* Laws of Chain and Only, and of the members of sequences, for sequences  *)
(* of any length.                                                          *)
(*                                                                         *)
(* They are proved by induction.  The induction theorems of the library    *)
(* take a predicate as an operator; here a predicate is the set of the     *)
(* numbers (or sequences) that have it, which is an ordinary value, and    *)
(* the induction rests on a least element of what does not have it         *)
(* (LeastNat, from WFMin and NatLessThanWellFounded).                      *)
(***************************************************************************)
EXTENDS Chains, SequenceTheorems, WellFoundedInduction, TLAPS

\* Of the natural numbers in a set one is the least.
LEMMA LeastNat ==
  ASSUME NEW S \in SUBSET Nat, S # {}
  PROVE  \E n \in S : \A m \in S : n <= m
  <1> DEFINE R == OpToRel(<, Nat)
  <1>1. \A m, n \in Nat : m < n <=> <<m, n>> \in R
    BY DEF OpToRel
  <1>2. IsWellFoundedOn(R, Nat)
    BY NatLessThanWellFounded
  <1> HIDE DEF R
  <1>3. \E n \in S : \A m \in S : ~(<<m, n>> \in R)
    BY <1>2, WFMin
  <1>4. PICK n \in S : \A m \in S : ~(<<m, n>> \in R)
    BY <1>3
  <1>5. \A m \in S : ~(m < n)
    BY <1>1, <1>4
  <1>6. \A a, b \in Nat : ~(a < b) => b <= a
    OBVIOUS
  <1>7. \A m \in S : n <= m
    BY <1>5, <1>6
  <1> QED
    BY <1>7

\* Induction, for a property that is given as the set of the numbers that have it
LEMMA Induct ==
  ASSUME NEW S, 0 \in S, \A n \in Nat : n \in S => n + 1 \in S
  PROVE  Nat \subseteq S
  <1> SUFFICES ASSUME Nat \ S # {} PROVE FALSE
    OBVIOUS
  <1>1. PICK n \in Nat \ S : \A m \in Nat \ S : n <= m
    BY LeastNat
  <1>2. n # 0 /\ n - 1 \in Nat
    BY <1>1
  <1>3. n - 1 \in S
    BY <1>1, <1>2
  <1> QED
    BY <1>1, <1>2, <1>3

\* Where the members of two sequences are when one follows the other
LEMMA ConcatIndex ==
  ASSUME NEW T, NEW s \in Seq(T), NEW t \in Seq(T)
  PROVE  /\ \A i \in 1 .. Len(s) : (s \o t)[i] = s[i]
         /\ \A i \in 1 .. Len(t) : (s \o t)[Len(s) + i] = t[i]
  BY ConcatProperties

\* The function Chain reads its value from
IsChain(chain, parts, N) ==
  chain = [n \in 0 .. N |-> IF n = 0 THEN <<>> ELSE chain[n - 1] \o parts[n]]

LEMMA ChainSteps ==
  ASSUME NEW chain, NEW parts, NEW N \in Nat, IsChain(chain, parts, N)
  PROVE  chain[0] = <<>> /\ \A n \in 1 .. N : chain[n] = chain[n - 1] \o parts[n]
  BY DEF IsChain

LEMMA ChainMade ==
  ASSUME NEW chain, NEW parts, NEW N \in Nat,
         chain = [n \in 0 .. N |-> chain[n]],
         chain[0] = <<>>, \A n \in 1 .. N : chain[n] = chain[n - 1] \o parts[n]
  PROVE  IsChain(chain, parts, N)
  <1> DEFINE value(n) == IF n = 0 THEN <<>> ELSE chain[n - 1] \o parts[n]
  <1>1. ASSUME NEW n \in 0 .. N PROVE chain[n] = value(n)
    <2>1. CASE n = 0
      BY <2>1
    <2>2. CASE n \in 1 .. N
      BY <2>2
    <2> QED
      BY <2>1, <2>2
  <1> HIDE DEF value
  <1>2. [n \in 0 .. N |-> chain[n]] = [n \in 0 .. N |-> value(n)]
    BY <1>1
  <1>3. chain = [n \in 0 .. N |-> value(n)]
    BY <1>2
  <1> QED
    BY <1>3 DEF IsChain, value

\* It exists for as many parts as one likes, ...
LEMMA ChainExists ==
  ASSUME NEW parts
  PROVE  \A N \in Nat : \E chain : IsChain(chain, parts, N)
  <1> DEFINE S == {N \in Nat : \E chain : IsChain(chain, parts, N)}
  <1>1. 0 \in S
    <2>1. IsChain([n \in 0 .. 0 |-> <<>>], parts, 0)
      BY DEF IsChain
    <2> QED
      BY <2>1
  <1>2. ASSUME NEW N \in Nat, N \in S PROVE N + 1 \in S
    <2>1. PICK chain : IsChain(chain, parts, N)
      BY <1>2
    <2> DEFINE longer == [n \in 0 .. N + 1 |-> IF n = N + 1 THEN chain[N] \o parts[n] ELSE chain[n]]
    <2>2. chain[0] = <<>> /\ \A n \in 1 .. N : chain[n] = chain[n - 1] \o parts[n]
      BY <2>1, ChainSteps
    <2>3. longer[0] = <<>> /\ longer[N + 1] = longer[N] \o parts[N + 1]
          /\ \A n \in 1 .. N : longer[n] = longer[n - 1] \o parts[n]
      BY <2>2
    <2>4. longer = [n \in 0 .. N + 1 |-> longer[n]]
      OBVIOUS
    <2> HIDE DEF longer
    <2>5. ASSUME NEW n \in 1 .. N + 1 PROVE longer[n] = longer[n - 1] \o parts[n]
      <3>1. (n = N + 1 /\ n - 1 = N) \/ n \in 1 .. N
        OBVIOUS
      <3> QED
        BY <2>3, <3>1, Zenon
    <2>6. IsChain(longer, parts, N + 1)
      <3>1. N + 1 \in Nat
        OBVIOUS
      <3> QED
        BY <2>3, <2>4, <2>5, <3>1, ChainMade, Zenon
    <2> QED
      BY <2>6
  <1>3. Nat \subseteq S
    <2> HIDE DEF S
    <2> QED
      BY <1>1, <1>2, Induct
  <1> QED
    BY <1>3

\* ... and is as one expects: nothing at first, and one part more at each step.
LEMMA ChainValue ==
  ASSUME NEW parts, Len(parts) \in Nat
  PROVE  \E chain : /\ IsChain(chain, parts, Len(parts))
                    /\ Chain(parts) = chain[Len(parts)]
  <1> DEFINE chain == CHOOSE c : IsChain(c, parts, Len(parts))
  <1>1. IsChain(chain, parts, Len(parts))
    BY ChainExists
  <1>2. Chain(parts) = chain[Len(parts)]
    BY DEF Chain, IsChain
  <1> QED
    BY <1>1, <1>2

\* Two such functions agree as far as the parts do.
LEMMA ChainsAgree ==
  ASSUME NEW c, NEW d, NEW p, NEW q, NEW M \in Nat, NEW N \in Nat, NEW K \in Nat,
         K <= M, K <= N, IsChain(c, p, M), IsChain(d, q, N), \A i \in 1 .. K : p[i] = q[i]
  PROVE  \A n \in 0 .. K : c[n] = d[n]
  <1> DEFINE S == {n \in Nat : n <= K => c[n] = d[n]}
  <1>0. /\ c[0] = <<>> /\ \A n \in 1 .. M : c[n] = c[n - 1] \o p[n]
        /\ d[0] = <<>> /\ \A n \in 1 .. N : d[n] = d[n - 1] \o q[n]
    BY ZenonT(60), ChainSteps
  <1>1. 0 \in S
    BY <1>0
  <1>2. ASSUME NEW n \in Nat, n \in S, n + 1 <= K PROVE c[n + 1] = d[n + 1]
    <2>1. n \in S /\ n <= K /\ (n + 1) - 1 = n
          /\ n + 1 \in 1 .. K /\ n + 1 \in 1 .. M /\ n + 1 \in 1 .. N
      BY <1>2
    <2>2. c[n] = d[n] /\ p[n + 1] = q[n + 1]
      BY <2>1
    <2>3. c[n + 1] = c[(n + 1) - 1] \o p[n + 1] /\ d[n + 1] = d[(n + 1) - 1] \o q[n + 1]
      BY <1>0, <2>1, Zenon
    <2> QED
      BY <2>1, <2>2, <2>3, Zenon
  <1>3. Nat \subseteq S
    <2>1. \A n \in Nat : n \in S => n + 1 \in S
      BY <1>2
    <2> HIDE DEF S
    <2> QED
      BY <1>1, <2>1, Induct
  <1> QED
    BY <1>3

\* Induction on sequences, in the same way
LEMMA SeqInduct ==
  ASSUME NEW T, NEW S, <<>> \in S,
         \A s \in Seq(T), x \in T : s \in S => Append(s, x) \in S
  PROVE  Seq(T) \subseteq S
  <1> DEFINE L == {n \in Nat : \A s \in Seq(T) : Len(s) = n => s \in S}
  <1>1. 0 \in L
    BY EmptySeq
  <1>2. ASSUME NEW n \in Nat, n \in L PROVE n + 1 \in L
    <2>1. SUFFICES ASSUME NEW s \in Seq(T), Len(s) = n + 1 PROVE s \in S
      OBVIOUS
    <2> DEFINE front == SubSeq(s, 1, n)
    <2>2. front \in Seq(T) /\ Len(front) = n /\ s[n + 1] \in T
      BY <2>1, SubSeqProperties
    <2>3. s = Append(front, s[n + 1])
      BY <2>1, <2>2, AppendProperties, SubSeqProperties
    <2> QED
      BY <1>2, <2>2, <2>3
  <1>3. Nat \subseteq L
    <2> HIDE DEF L
    <2> QED
      BY <1>1, <1>2, Induct
  <1> QED
    BY <1>3

LEMMA ChainEmpty == Chain(<<>>) = <<>>
  <1>1. PICK c : IsChain(c, <<>>, 0) /\ Chain(<<>>) = c[0]
    BY ChainValue
  <1> QED
    BY <1>1 DEF IsChain

LEMMA ChainAppend ==
  ASSUME NEW T, NEW parts \in Seq(T), NEW part \in T
  PROVE  Chain(Append(parts, part)) = Chain(parts) \o part
  <1> DEFINE N == Len(parts)
             more == Append(parts, part)
  <1>1. N \in Nat /\ Len(more) = N + 1 /\ more[N + 1] = part /\ \A i \in 1 .. N : more[i] = parts[i]
    BY AppendProperties
  <1>2. PICK c : IsChain(c, parts, N) /\ Chain(parts) = c[N]
    BY <1>1, ChainValue
  <1>3. Len(more) \in Nat
    BY <1>1
  <1>4. PICK d : IsChain(d, more, Len(more)) /\ Chain(more) = d[Len(more)]
    BY <1>3, ChainValue
  <1> HIDE DEF N, more
  <1>5. c[N] = d[N]
    <2>1. N <= N /\ N <= Len(more) /\ \A i \in 1 .. N : parts[i] = more[i]
      BY <1>1
    <2>2. \A n \in 0 .. N : c[n] = d[n]
      <3>1. N \in Nat /\ IsChain(c, parts, N) /\ IsChain(d, more, Len(more))
        BY <1>1, <1>2, <1>4
      <3> QED
        BY SMTT(30), <1>3, <2>1, <3>1, ChainsAgree
    <2> QED
      BY <1>1, <2>2
  <1>6. d[N + 1] = d[N] \o more[N + 1]
    <2>1. \A n \in 1 .. Len(more) : d[n] = d[n - 1] \o more[n]
      BY <1>3, <1>4, ChainSteps
    <2>2. N + 1 \in 1 .. Len(more) /\ (N + 1) - 1 = N
      BY <1>1
    <2> QED
      BY <2>1, <2>2
  <1> QED
    BY <1>1, <1>2, <1>4, <1>5, <1>6 DEF more

\* Joined sequences over T make a sequence over T.
LEMMA ChainType ==
  ASSUME NEW T, NEW parts \in Seq(Seq(T))
  PROVE  Chain(parts) \in Seq(T)
  <1> DEFINE S == {s \in Seq(Seq(T)) : Chain(s) \in Seq(T)}
  <1>1. <<>> \in S
    BY ChainEmpty, EmptySeq
  <1>2. \A s \in Seq(Seq(T)), x \in Seq(T) : s \in S => Append(s, x) \in S
    BY ChainAppend, ConcatProperties, AppendProperties
  <1>3. Seq(Seq(T)) \subseteq S
    <2> HIDE DEF S
    <2> QED
      BY <1>1, <1>2, SeqInduct
  <1> QED
    BY <1>3

\* To join two sequences of parts is to join what each is joined to.
LEMMA ChainConcat ==
  ASSUME NEW T, NEW left \in Seq(Seq(T)), NEW right \in Seq(Seq(T))
  PROVE  Chain(left \o right) = Chain(left) \o Chain(right)
  <1> DEFINE S == {s \in Seq(Seq(T)) : Chain(left \o s) = Chain(left) \o Chain(s)}
  <1>1. <<>> \in S
    <2>1. left \o <<>> = left /\ Chain(left) \in Seq(T)
      BY ChainType, ConcatEmptySeq
    <2> QED
      BY <2>1, ChainEmpty, ConcatEmptySeq
  <1>2. ASSUME NEW s \in Seq(Seq(T)), NEW x \in Seq(T), s \in S PROVE Append(s, x) \in S
    <2>1. left \o Append(s, x) = Append(left \o s, x) /\ left \o s \in Seq(Seq(T))
      BY ConcatProperties, AppendProperties
    <2>2. Chain(left \o Append(s, x)) = Chain(left \o s) \o x
      BY <2>1, ChainAppend
    <2>3. Chain(left) \in Seq(T) /\ Chain(s) \in Seq(T)
      BY ChainType
    <2>4. Chain(left \o Append(s, x)) = Chain(left) \o (Chain(s) \o x)
      <3>1. Chain(left \o s) = Chain(left) \o Chain(s)
        BY <1>2
      <3>2. (Chain(left) \o Chain(s)) \o x = Chain(left) \o (Chain(s) \o x)
        BY SMTT(30), <2>3, ConcatAssociative
      <3> QED
        BY <2>2, <3>1, <3>2
    <2>5. Chain(Append(s, x)) = Chain(s) \o x /\ Append(s, x) \in Seq(Seq(T))
      BY ChainAppend, AppendProperties
    <2> QED
      BY <2>4, <2>5
  <1>3. Seq(Seq(T)) \subseteq S
    <2> HIDE DEF S
    <2> QED
      BY <1>1, <1>2, SeqInduct
  <1> QED
    BY <1>3

\* A single part is what it is joined to.
LEMMA ChainSingle ==
  ASSUME NEW T, NEW part \in Seq(T)
  PROVE  Chain(<<part>>) = part
  <1>1. <<part>> = Append(<<>>, part) /\ <<>> \in Seq(Seq(T))
    OBVIOUS
  <1>2. Chain(<<part>>) = Chain(<<>>) \o part
    BY <1>1, ChainAppend
  <1> QED
    BY <1>2, ChainEmpty, ConcatEmptySeq

\* Is x a member of the sequence?
Has(s, x) == \E k \in 1 .. Len(s) : s[k] = x

LEMMA HasConcat ==
  ASSUME NEW T, NEW s \in Seq(T), NEW t \in Seq(T)
  PROVE  \A x : Has(s \o t, x) <=> Has(s, x) \/ Has(t, x)
  <1>1. /\ Len(s) \in Nat /\ Len(t) \in Nat /\ Len(s \o t) = Len(s) + Len(t)
        /\ \A i \in 1 .. Len(s) : (s \o t)[i] = s[i]
        /\ \A i \in 1 .. Len(t) : (s \o t)[Len(s) + i] = t[i]
    BY ConcatProperties, ConcatIndex, LenProperties
  <1>2. ASSUME NEW x, Has(s \o t, x) PROVE Has(s, x) \/ Has(t, x)
    <2>1. PICK k \in 1 .. Len(s \o t) : (s \o t)[k] = x
      BY <1>2 DEF Has
    <2>2. CASE k <= Len(s)
      <3>1. k \in 1 .. Len(s)
        BY <1>1, <2>2
      <3> QED
        BY <1>1, <2>1, <3>1 DEF Has
    <2>3. CASE k > Len(s)
      <3> DEFINE i == k - Len(s)
      <3>1. i \in 1 .. Len(t) /\ Len(s) + i = k
        BY <1>1, <2>3
      <3> HIDE DEF i
      <3> QED
        BY <1>1, <2>1, <3>1 DEF Has
    <2> QED
      BY <1>1, <2>2, <2>3
  <1>3. ASSUME NEW x, Has(s, x) PROVE Has(s \o t, x)
    <2>1. PICK k \in 1 .. Len(s) : s[k] = x
      BY <1>3 DEF Has
    <2>2. k \in 1 .. Len(s \o t) /\ (s \o t)[k] = x
      BY <1>1, <2>1
    <2> QED
      BY <2>2 DEF Has
  <1>4. ASSUME NEW x, Has(t, x) PROVE Has(s \o t, x)
    <2>1. PICK k \in 1 .. Len(t) : t[k] = x
      BY <1>4 DEF Has
    <2>2. Len(s) + k \in 1 .. Len(s \o t) /\ (s \o t)[Len(s) + k] = x
      BY <1>1, <2>1
    <2> QED
      BY <2>2 DEF Has
  <1> QED
    BY <1>2, <1>3, <1>4

\* If joining two sequences of a set gives one of the set, joining any number does.
LEMMA ChainClosed ==
  ASSUME NEW G, <<>> \in G, \A s, t \in G : s \o t \in G, NEW parts \in Seq(G)
  PROVE  Chain(parts) \in G
  <1> DEFINE S == {p \in Seq(G) : Chain(p) \in G}
  <1>1. <<>> \in S
    BY ChainEmpty, EmptySeq
  <1>2. ASSUME NEW p \in Seq(G), NEW x \in G, p \in S PROVE Append(p, x) \in S
    <2>1. Chain(Append(p, x)) = Chain(p) \o x /\ Append(p, x) \in Seq(G)
      BY <1>2, ChainAppend, AppendProperties
    <2> QED
      BY <1>2, <2>1
  <1> HIDE DEF S
  <1>3. Seq(G) \subseteq S
    BY <1>1, <1>2, SeqInduct
  <1> QED
    BY <1>3 DEF S

\* What is in the joined sequence is in one of the parts, and the other way round.
LEMMA ChainMembers ==
  ASSUME NEW T, NEW parts \in Seq(Seq(T)), NEW x
  PROVE  Has(Chain(parts), x) <=> \E i \in 1 .. Len(parts) : Has(parts[i], x)
  <1> DEFINE In(s) == Has(s, x)
             S == {s \in Seq(Seq(T)) : In(Chain(s)) <=> \E i \in 1 .. Len(s) : In(s[i])}
  <1>1. <<>> \in S
    BY ChainEmpty, EmptySeq DEF Has
  <1>2. ASSUME NEW s \in Seq(Seq(T)), NEW t \in Seq(T), s \in S PROVE Append(s, t) \in S
    <2>1. Chain(Append(s, t)) = Chain(s) \o t /\ Chain(s) \in Seq(T)
      BY ChainAppend, ChainType
    <2>2. \A u, v \in Seq(T) : In(u \o v) <=> In(u) \/ In(v)
      <3> SUFFICES ASSUME NEW u \in Seq(T), NEW v \in Seq(T) PROVE In(u \o v) <=> In(u) \/ In(v)
        OBVIOUS
      <3>1. Len(u \o v) = Len(u) + Len(v) /\ Len(u) \in Nat /\ Len(v) \in Nat
        BY ConcatProperties
      <3>2. \A k \in 1 .. Len(u) : (u \o v)[k] = u[k]
        BY ConcatProperties
      <3>3. \A k \in 1 .. Len(v) : (u \o v)[Len(u) + k] = v[k]
        BY ConcatProperties
      <3>4. ASSUME In(u \o v) PROVE In(u) \/ In(v)
        <4>1. PICK k \in 1 .. Len(u) + Len(v) : (u \o v)[k] = x
          BY <3>1, <3>4 DEF Has
        <4>2. CASE k <= Len(u)
          BY <3>1, <3>2, <4>1, <4>2 DEF Has
        <4>3. CASE ~(k <= Len(u))
          <5>1. k - Len(u) \in 1 .. Len(v) /\ Len(u) + (k - Len(u)) = k
            BY <3>1, <4>3
          <5> QED
            BY <3>3, <4>1, <5>1 DEF Has
        <4> QED
          BY <4>2, <4>3
      <3>5. ASSUME In(u) PROVE In(u \o v)
        BY <3>1, <3>2, <3>5 DEF Has
      <3>6. ASSUME In(v) PROVE In(u \o v)
        <4>1. PICK k \in 1 .. Len(v) : v[k] = x
          BY <3>6 DEF Has
        <4>2. Len(u) + k \in 1 .. Len(u) + Len(v)
          BY <3>1
        <4> QED
          BY <3>1, <3>3, <4>1, <4>2 DEF Has
      <3> QED
        BY <3>4, <3>5, <3>6
    <2>3. Len(Append(s, t)) = Len(s) + 1 /\ Append(s, t)[Len(s) + 1] = t /\ Len(s) \in Nat
          /\ \A i \in 1 .. Len(s) : Append(s, t)[i] = s[i]
      BY AppendProperties
    <2>4. Append(s, t) \in Seq(Seq(T))
      BY AppendProperties
    <2> HIDE DEF In
    <2>5. (\E i \in 1 .. Len(Append(s, t)) : In(Append(s, t)[i])) <=> (\E i \in 1 .. Len(s) : In(s[i])) \/ In(t)
      <3>1. ASSUME NEW i \in 1 .. Len(s) + 1 PROVE i \in 1 .. Len(s) \/ i = Len(s) + 1
        BY <2>3
      <3>2. Len(s) + 1 \in 1 .. Len(s) + 1 /\ \A i \in 1 .. Len(s) : i \in 1 .. Len(s) + 1
        BY <2>3
      <3> QED
        BY <2>3, <3>1, <3>2, Zenon
    <2>6. In(Chain(s)) <=> \E i \in 1 .. Len(s) : In(s[i])
      BY <1>2
    <2>7. In(Chain(Append(s, t))) <=> In(Chain(s)) \/ In(t)
      BY <2>1, <2>2
    <2> QED
      BY <2>4, <2>5, <2>6, <2>7
  <1>3. Seq(Seq(T)) \subseteq S
    <2>1. \A s \in Seq(Seq(T)), t \in Seq(T) : s \in S => Append(s, t) \in S
      BY <1>2
    <2> HIDE DEF S
    <2> QED
      BY <1>1, <2>1, SeqInduct
  <1> QED
    BY <1>3
-----------------------------------------------------------------------------
(* Filtering                                                               *)

\* What Only joins: for every member a part of one or of none
Chosen(x, S) == IF x \in S THEN <<x>> ELSE <<>>
Picked(sequence, S) == [i \in 1 .. Len(sequence) |-> Chosen(sequence[i], S)]

LEMMA PartType ==
  ASSUME NEW T, NEW x \in T, NEW S
  PROVE  Chosen(x, S) \in Seq(T) /\ Chosen(x, S) \in Seq(T \cap S)
  <1>1. CASE x \in S
    BY <1>1 DEF Chosen
  <1>2. CASE x \notin S
    BY <1>2, EmptySeq DEF Chosen
  <1> QED
    BY <1>1, <1>2

LEMMA PickedType ==
  ASSUME NEW T, NEW s \in Seq(T), NEW S
  PROVE  /\ Picked(s, S) \in Seq(Seq(T \cap S)) /\ Picked(s, S) \in Seq(Seq(T))
         /\ Len(Picked(s, S)) = Len(s)
         /\ \A i \in 1 .. Len(s) : Picked(s, S)[i] = Chosen(s[i], S)
  <1>1. Len(s) \in Nat /\ \A i \in 1 .. Len(s) : s[i] \in T
    BY LenProperties, ElementOfSeq
  <1>2. \A i \in 1 .. Len(s) : Chosen(s[i], S) \in Seq(T) /\ Chosen(s[i], S) \in Seq(T \cap S)
    BY <1>1, PartType
  <1> DEFINE parts == [i \in 1 .. Len(s) |-> Chosen(s[i], S)]
  <1>3. parts \in Seq(Seq(T)) /\ Len(parts) = Len(s)
    BY <1>1, <1>2, IsASeq
  <1>4. parts \in Seq(Seq(T \cap S))
    BY <1>1, <1>2, IsASeq
  <1> QED
    BY <1>3, <1>4 DEF Picked

LEMMA OnlyPicked == \A s, S : Only(s, S) = Chain(Picked(s, S))
  BY DEF Only, Picked, Chosen

LEMMA OnlyEmpty == \A S : Only(<<>>, S) = <<>>
  <1>1. \A S : Picked(<<>>, S) = <<>>
    BY DEF Picked
  <1> QED
    BY <1>1, OnlyPicked, ChainEmpty

\* The filtered sequence has only members of both sets, ...
LEMMA OnlyType ==
  ASSUME NEW T, NEW s \in Seq(T), NEW S
  PROVE  Only(s, S) \in Seq(T \cap S) /\ Only(s, S) \in Seq(T)
  BY PickedType, ChainType, OnlyPicked

\* ... and two sequences are filtered one by one.
LEMMA OnlyConcat ==
  ASSUME NEW T, NEW s \in Seq(T), NEW t \in Seq(T), NEW S
  PROVE  Only(s \o t, S) = Only(s, S) \o Only(t, S)
  <1> DEFINE p == Picked(s, S) q == Picked(t, S) r == Picked(s \o t, S)
  <1>1. s \o t \in Seq(T) /\ Len(s \o t) = Len(s) + Len(t) /\ Len(s) \in Nat /\ Len(t) \in Nat
    BY ConcatProperties, LenProperties
  <1>2. /\ \A i \in 1 .. Len(s) : (s \o t)[i] = s[i]
        /\ \A i \in 1 .. Len(t) : (s \o t)[Len(s) + i] = t[i]
    BY ConcatProperties
  <1>3. p \in Seq(Seq(T)) /\ Len(p) = Len(s) /\ \A i \in 1 .. Len(s) : p[i] = Chosen(s[i], S)
    BY PickedType
  <1>4. q \in Seq(Seq(T)) /\ Len(q) = Len(t) /\ \A i \in 1 .. Len(t) : q[i] = Chosen(t[i], S)
    BY PickedType
  <1>5. /\ r \in Seq(Seq(T)) /\ Len(r) = Len(s) + Len(t)
        /\ \A i \in 1 .. Len(s) + Len(t) : r[i] = Chosen((s \o t)[i], S)
    BY <1>1, PickedType
  <1> HIDE DEF p, q, r
  <1>6. /\ p \o q \in Seq(Seq(T)) /\ Len(p \o q) = Len(s) + Len(t)
        /\ \A i \in 1 .. Len(s) : (p \o q)[i] = p[i]
        /\ \A i \in 1 .. Len(t) : (p \o q)[Len(s) + i] = q[i]
    <2>1. Len(p \o q) = Len(p) + Len(q) /\ p \o q \in Seq(Seq(T))
      BY <1>3, <1>4, ConcatProperties
    <2>2. /\ \A i \in 1 .. Len(p) : (p \o q)[i] = p[i]
          /\ \A i \in 1 .. Len(q) : (p \o q)[Len(p) + i] = q[i]
      <3>1. \A u, v \in Seq(Seq(T)) : /\ \A i \in 1 .. Len(u) : (u \o v)[i] = u[i]
                                      /\ \A i \in 1 .. Len(v) : (u \o v)[Len(u) + i] = v[i]
        BY ConcatIndex
      <3> QED
        BY <1>3, <1>4, <3>1, Zenon
    <2> QED
      BY <1>3, <1>4, <2>1, <2>2, Zenon
  <1>7. ASSUME NEW i \in 1 .. Len(s) + Len(t) PROVE r[i] = (p \o q)[i]
    <2>1. CASE i \in 1 .. Len(s)
      BY <1>2, <1>3, <1>5, <1>6, <2>1, Zenon
    <2>2. CASE i \notin 1 .. Len(s)
      <3>1. PICK j \in 1 .. Len(t) : i = Len(s) + j
        <4>1. i - Len(s) \in 1 .. Len(t) /\ i = Len(s) + (i - Len(s))
          BY <1>1, <2>2
        <4> QED
          BY <4>1
      <3> QED
        BY <1>2, <1>4, <1>5, <1>6, <3>1, Zenon
    <2> QED
      BY <2>1, <2>2
  <1>8. r = p \o q
    <2>1. Len(r) = Len(p \o q)
      BY <1>5, <1>6
    <2>2. \A i \in 1 .. Len(r) : r[i] = (p \o q)[i]
      BY <1>5, <1>7
    <2> QED
      BY <1>5, <1>6, <2>1, <2>2, SeqEqual
  <1>9. Chain(r) = Chain(p) \o Chain(q)
    BY <1>3, <1>4, <1>8, ChainConcat
  <1> QED
    BY <1>9, OnlyPicked DEF p, q, r

LEMMA OnlySingle ==
  ASSUME NEW x, NEW S
  PROVE  Only(<<x>>, S) = Chosen(x, S)
  <1>1. Picked(<<x>>, S) = <<Chosen(x, S)>>
    BY DEF Picked
  <1>2. Chosen(x, S) \in Seq({x})
    BY PartType
  <1> QED
    BY <1>1, <1>2, ChainSingle, OnlyPicked

LEMMA OnlyAppend ==
  ASSUME NEW T, NEW s \in Seq(T), NEW x \in T, NEW S
  PROVE  Only(Append(s, x), S) = IF x \in S THEN Append(Only(s, S), x) ELSE Only(s, S)
  <1>1. Append(s, x) = s \o <<x>> /\ <<x>> \in Seq(T)
    BY AppendIsConcat
  <1>2. Only(s \o <<x>>, S) = Only(s, S) \o Only(<<x>>, S)
    <2>1. \A t \in Seq(T) : Only(s \o t, S) = Only(s, S) \o Only(t, S)
      BY OnlyConcat
    <2> QED
      BY <1>1, <2>1, Zenon
  <1>3. Only(Append(s, x), S) = Only(s, S) \o Chosen(x, S)
    BY <1>1, <1>2, OnlySingle
  <1>4. Only(s, S) \in Seq(T)
    BY OnlyType
  <1>5. CASE x \in S
    BY <1>3, <1>4, <1>5, AppendIsConcat DEF Chosen
  <1>6. CASE x \notin S
    BY <1>3, <1>4, <1>6, ConcatEmptySeq DEF Chosen
  <1> QED
    BY <1>5, <1>6

LEMMA OnlyTail ==
  ASSUME NEW T, NEW s \in Seq(T), s # <<>>, NEW S
  PROVE  IF Head(s) \in S THEN Only(s, S) # <<>> /\ Head(Only(s, S)) = Head(s)
                               /\ Tail(Only(s, S)) = Only(Tail(s), S)
                          ELSE Only(s, S) = Only(Tail(s), S)
  <1>1. s = <<Head(s)>> \o Tail(s) /\ <<Head(s)>> \in Seq(T) /\ Tail(s) \in Seq(T) /\ Head(s) \in T
    BY HeadTailProperties
  <1>2. Only(s, S) = Chosen(Head(s), S) \o Only(Tail(s), S)
    <2>1. Only(<<Head(s)>> \o Tail(s), S) = Only(<<Head(s)>>, S) \o Only(Tail(s), S)
      <3>1. \A t, u \in Seq(T) : Only(t \o u, S) = Only(t, S) \o Only(u, S)
        BY OnlyConcat
      <3> QED
        BY <1>1, <3>1, Zenon
    <2> QED
      BY <1>1, <2>1, OnlySingle
  <1>3. Only(Tail(s), S) \in Seq(T)
    BY <1>1, OnlyType
  <1>4. CASE Head(s) \in S
    <2> DEFINE rest == Only(Tail(s), S)
    <2>1. Only(s, S) = <<Head(s)>> \o rest
      BY <1>2, <1>4 DEF Chosen
    <2> HIDE DEF rest
    <2>2. rest \in Seq(T)
      BY <1>3 DEF rest
    <2>3. (<<Head(s)>> \o rest) # <<>> /\ Head(<<Head(s)>> \o rest) = Head(s)
          /\ Tail(<<Head(s)>> \o rest) = rest
      BY <1>1, <2>2
    <2> QED
      BY <1>4, <2>1, <2>3 DEF rest
  <1>5. CASE Head(s) \notin S
    BY <1>2, <1>3, <1>5, ConcatEmptySeq DEF Chosen
  <1> QED
    BY <1>4, <1>5

\* What is left is what is in the set.
LEMMA OnlyMembers ==
  ASSUME NEW T, NEW s \in Seq(T), NEW S, NEW x
  PROVE  Has(Only(s, S), x) <=> x \in S /\ Has(s, x)
  <1>1. Picked(s, S) \in Seq(Seq(T)) /\ Len(Picked(s, S)) = Len(s)
        /\ \A i \in 1 .. Len(s) : Picked(s, S)[i] = Chosen(s[i], S)
    BY PickedType
  <1>2. \A parts \in Seq(Seq(T)) : Has(Chain(parts), x) <=> \E i \in 1 .. Len(parts) : Has(parts[i], x)
    BY ChainMembers
  <1>3. Has(Only(s, S), x) <=> \E i \in 1 .. Len(s) : Has(Picked(s, S)[i], x)
    BY <1>1, <1>2, OnlyPicked, Zenon
  <1>4. ASSUME NEW y PROVE Has(Chosen(y, S), x) <=> y \in S /\ y = x
    <2>1. CASE y \in S
      BY <2>1 DEF Has, Chosen
    <2>2. CASE y \notin S
      BY <2>2 DEF Has, Chosen
    <2> QED
      BY <2>1, <2>2
  <1>5. (\E i \in 1 .. Len(s) : Has(Picked(s, S)[i], x)) <=> \E i \in 1 .. Len(s) : s[i] \in S /\ s[i] = x
    BY <1>1, <1>4, Zenon
  <1> QED
    BY <1>3, <1>5, Zenon DEF Has

LEMMA OnlyNone ==
  ASSUME NEW T, NEW s \in Seq(T), NEW S, \A i \in 1 .. Len(s) : s[i] \notin S
  PROVE  Only(s, S) = <<>>
  <1>1. Only(s, S) \in Seq(T)
    BY OnlyType
  <1>2. ASSUME NEW k \in 1 .. Len(Only(s, S)) PROVE FALSE
    <2>1. Has(Only(s, S), Only(s, S)[k])
      BY Zenon DEF Has
    <2>2. Only(s, S)[k] \in S /\ Has(s, Only(s, S)[k])
      BY <2>1, OnlyMembers, Zenon
    <2> QED
      BY <2>2, Zenon DEF Has
  <1> QED
    BY <1>1, <1>2, EmptySeq

\* Does no member come twice?
NoRepeat(s) == \A i, j \in 1 .. Len(s) : s[i] = s[j] => i = j

LEMMA ConcatNoRepeat ==
  ASSUME NEW T, NEW s \in Seq(T), NEW t \in Seq(T), NoRepeat(s), NoRepeat(t),
         \A x : ~(Has(s, x) /\ Has(t, x))
  PROVE  NoRepeat(s \o t)
  <1>1. /\ Len(s) \in Nat /\ Len(t) \in Nat /\ Len(s \o t) = Len(s) + Len(t)
        /\ \A i \in 1 .. Len(s) : (s \o t)[i] = s[i]
        /\ \A i \in 1 .. Len(t) : (s \o t)[Len(s) + i] = t[i]
    BY ConcatProperties, ConcatIndex, LenProperties
  <1>2. ASSUME NEW k \in 1 .. Len(s \o t)
        PROVE  \/ k \in 1 .. Len(s) /\ (s \o t)[k] = s[k]
               \/ \E i \in 1 .. Len(t) : k = Len(s) + i /\ (s \o t)[k] = t[i]
    <2>1. CASE k <= Len(s)
      <3>1. k \in 1 .. Len(s)
        BY <1>1, <2>1
      <3> QED
        BY <1>1, <3>1
    <2>2. CASE k > Len(s)
      <3> DEFINE i == k - Len(s)
      <3>1. i \in 1 .. Len(t) /\ Len(s) + i = k
        BY <1>1, <2>2
      <3> HIDE DEF i
      <3> QED
        BY <1>1, <3>1
    <2>3. k <= Len(s) \/ k > Len(s)
      BY <1>1
    <2> QED
      BY <2>1, <2>2, <2>3, Zenon
  <1>3. ASSUME NEW i \in 1 .. Len(s), NEW j \in 1 .. Len(t) PROVE s[i] # t[j]
    BY DEF Has
  <1>4. ASSUME NEW k \in 1 .. Len(s \o t), NEW l \in 1 .. Len(s \o t), (s \o t)[k] = (s \o t)[l]
        PROVE  k = l
    <2>1. CASE k \in 1 .. Len(s) /\ (s \o t)[k] = s[k]
      <3>1. l \in 1 .. Len(s) /\ (s \o t)[l] = s[l]
        BY <1>2, <1>3, <1>4, <2>1
      <3> QED
        BY <1>4, <2>1, <3>1 DEF NoRepeat
    <2>2. CASE \E i \in 1 .. Len(t) : k = Len(s) + i /\ (s \o t)[k] = t[i]
      <3>1. PICK i \in 1 .. Len(t) : k = Len(s) + i /\ (s \o t)[k] = t[i]
        BY <2>2
      <3>2. PICK j \in 1 .. Len(t) : l = Len(s) + j /\ (s \o t)[l] = t[j]
        BY <1>2, <1>3, <1>4, <3>1
      <3>3. i = j
        BY <1>4, <3>1, <3>2 DEF NoRepeat
      <3> QED
        BY <3>1, <3>2, <3>3
    <2> QED
      BY <1>2, <2>1, <2>2
  <1> QED
    BY <1>4 DEF NoRepeat

\* Parts that share nothing and repeat nothing are joined to what repeats nothing.
LEMMA ChainNoRepeat ==
  ASSUME NEW T, NEW parts \in Seq(Seq(T)), \A i \in 1 .. Len(parts) : NoRepeat(parts[i]),
         \A i, j \in 1 .. Len(parts) : \A x : Has(parts[i], x) /\ Has(parts[j], x) => i = j
  PROVE  NoRepeat(Chain(parts))
  <1> DEFINE Apart(p) == /\ \A i \in 1 .. Len(p) : NoRepeat(p[i])
                         /\ \A i, j \in 1 .. Len(p) : \A x : Has(p[i], x) /\ Has(p[j], x) => i = j
             S == {p \in Seq(Seq(T)) : Apart(p) => NoRepeat(Chain(p))}
  <1>1. <<>> \in S
    BY ChainEmpty, EmptySeq DEF NoRepeat
  <1>2. ASSUME NEW p \in Seq(Seq(T)), NEW x \in Seq(T), p \in S PROVE Append(p, x) \in S
    <2> DEFINE q == Append(p, x)
    <2>1. /\ q \in Seq(Seq(T)) /\ Len(p) \in Nat /\ Len(q) = Len(p) + 1 /\ q[Len(p) + 1] = x
          /\ \A i \in 1 .. Len(p) : q[i] = p[i]
      BY AppendProperties
    <2>2. Chain(q) = Chain(p) \o x /\ Chain(p) \in Seq(T)
      BY ChainAppend, ChainType
    <2> HIDE DEF q
    <2>3. ASSUME Apart(q) PROVE NoRepeat(Chain(q))
      <3>1. Apart(p)
        <4>1. \A i \in 1 .. Len(p) : i \in 1 .. Len(q) /\ q[i] = p[i]
          BY <2>1
        <4>2. \A i \in 1 .. Len(p) : NoRepeat(p[i])
          BY <2>3, <4>1
        <4>3. ASSUME NEW i \in 1 .. Len(p), NEW j \in 1 .. Len(p), NEW y, Has(p[i], y), Has(p[j], y)
              PROVE  i = j
          BY <2>3, <4>1, <4>3
        <4> QED
          BY <4>2, <4>3
      <3>2. NoRepeat(Chain(p))
        BY <1>2, <3>1
      <3>3. NoRepeat(x)
        <4>1. Len(p) + 1 \in 1 .. Len(q)
          BY <2>1
        <4> QED
          BY <2>1, <2>3, <4>1
      <3>4. ASSUME NEW y, Has(Chain(p), y), Has(x, y) PROVE FALSE
        <4>1. PICK i \in 1 .. Len(p) : Has(p[i], y)
          BY <3>4, ChainMembers
        <4>2. i \in 1 .. Len(q) /\ Len(p) + 1 \in 1 .. Len(q) /\ i # Len(p) + 1 /\ q[i] = p[i]
          BY <2>1
        <4> QED
          BY <2>1, <2>3, <3>4, <4>1, <4>2
      <3> QED
        BY <2>2, <3>2, <3>3, <3>4, ConcatNoRepeat
    <2> QED
      BY <2>1, <2>3 DEF q
  <1> HIDE DEF S
  <1>3. Seq(Seq(T)) \subseteq S
    BY <1>1, <1>2, SeqInduct
  <1>4. parts \in S
    BY <1>3
  <1> QED
    BY <1>4 DEF S

LEMMA OnlyNoRepeat ==
  ASSUME NEW T, NEW s \in Seq(T), NEW S, NoRepeat(s)
  PROVE  NoRepeat(Only(s, S))
  <1> DEFINE parts == Picked(s, S)
  <1>1. /\ parts \in Seq(Seq(T)) /\ Len(parts) = Len(s)
        /\ \A i \in 1 .. Len(s) : parts[i] = Chosen(s[i], S)
    BY PickedType
  <1>2. ASSUME NEW x PROVE NoRepeat(Chosen(x, S)) /\ \A y : Has(Chosen(x, S), y) => y = x
    BY DEF Chosen, NoRepeat, Has
  <1>3. \A i \in 1 .. Len(parts) : NoRepeat(parts[i])
    BY <1>1, <1>2
  <1>4. \A i, j \in 1 .. Len(parts) : \A x : Has(parts[i], x) /\ Has(parts[j], x) => i = j
    <2>1. ASSUME NEW i \in 1 .. Len(s), NEW j \in 1 .. Len(s), NEW x, Has(parts[i], x), Has(parts[j], x)
          PROVE  i = j
      <3>1. s[i] = x /\ s[j] = x
        BY <1>1, <1>2, <2>1
      <3> QED
        BY <3>1 DEF NoRepeat
    <2> QED
      BY <1>1, <2>1
  <1> HIDE DEF parts
  <1>5. NoRepeat(Chain(parts))
    BY <1>1, <1>3, <1>4, ChainNoRepeat
  <1> QED
    BY <1>5, OnlyPicked DEF parts

\* Sequences of whatever members (IsSequence), for operators that are given such.
LEMMA IsSeqOf ==
  ASSUME NEW T, NEW s \in Seq(T)
  PROVE  IsSequence(s)
<1>1. s \in [1 .. Len(s) -> T] /\ Len(s) \in Nat
  OBVIOUS
<1>2. s \in [1 .. Len(s) -> {s[i] : i \in DOMAIN s}]
  BY <1>1
<1>3. s \in Seq({s[i] : i \in DOMAIN s})
  BY <1>1, <1>2, SeqDef
<1> QED
  BY <1>3 DEF IsSequence

LEMMA SequenceIs ==
  ASSUME NEW s, IsSequence(s)
  PROVE  /\ Len(s) \in Nat /\ DOMAIN s = 1 .. Len(s) /\ \E T : s \in Seq(T)
         /\ s = <<>> <=> Len(s) = 0
  BY EmptySeq DEF IsSequence

LEMMA SequenceAppend ==
  ASSUME NEW s, IsSequence(s), NEW x
  PROVE  /\ IsSequence(Append(s, x)) /\ Len(Append(s, x)) = Len(s) + 1
         /\ Append(s, x)[Len(s) + 1] = x /\ \A i \in 1 .. Len(s) : Append(s, x)[i] = s[i]
<1>1. PICK T : s \in Seq(T)
  BY SequenceIs
<1>2. s \in Seq(T \cup {x})
  BY <1>1
<1>3. Append(s, x) \in Seq(T \cup {x})
  BY <1>2, AppendProperties
<1>4. IsSequence(Append(s, x))
  BY <1>3, IsSeqOf
<1> QED
  BY <1>2, <1>4, AppendProperties

LEMMA SequenceTail ==
  ASSUME NEW s, IsSequence(s), s # <<>>
  PROVE  /\ IsSequence(Tail(s)) /\ Len(s) >= 1 /\ Len(Tail(s)) = Len(s) - 1 /\ Head(s) = s[1]
         /\ \A i \in 1 .. Len(Tail(s)) : Tail(s)[i] = s[i + 1]
<1>1. PICK T : s \in Seq(T)
  BY SequenceIs
<1>2. Tail(s) \in Seq(T) /\ Len(Tail(s)) = Len(s) - 1
      /\ \A i \in 1 .. Len(Tail(s)) : Tail(s)[i] = s[i + 1]
  BY <1>1, HeadTailProperties
<1>3. IsSequence(Tail(s))
  BY <1>2, IsSeqOf
<1>4. Len(s) \in Nat /\ Len(s) # 0 /\ Head(s) = s[1]
  BY <1>1, SequenceIs
<1> QED
  BY <1>2, <1>3, <1>4

LEMMA ListIs ==
  ASSUME NEW n \in Nat, NEW f, f = [k \in 1 .. n |-> f[k]]
  PROVE  IsSequence(f) /\ Len(f) = n
<1>1. f \in [1 .. n -> {f[k] : k \in DOMAIN f}]
  OBVIOUS
<1>2. f \in Seq({f[k] : k \in DOMAIN f})
  BY <1>1, SeqDef
<1> QED
  BY <1>1, <1>2, LenProperties DEF IsSequence

LEMMA SequenceConcat ==
  ASSUME NEW s, NEW t, IsSequence(s), IsSequence(t)
  PROVE  /\ IsSequence(s \o t) /\ Len(s \o t) = Len(s) + Len(t)
         /\ \A i \in 1 .. Len(s) + Len(t) : (s \o t)[i] = IF i <= Len(s) THEN s[i] ELSE t[i - Len(s)]
<1>1. PICK S, T : s \in Seq(S) /\ t \in Seq(T)
  BY SequenceIs
<1>2. s \in Seq(S \cup T) /\ t \in Seq(S \cup T)
  BY <1>1
<1>3. s \o t \in Seq(S \cup T)
  BY <1>2, ConcatProperties
<1>4. IsSequence(s \o t)
  BY <1>3, IsSeqOf
<1> QED
  BY <1>2, <1>4, ConcatProperties

LEMMA SequencePart ==
  ASSUME NEW s, IsSequence(s), NEW m \in Nat, NEW n \in Nat, 1 <= m, m <= n + 1, n <= Len(s)
  PROVE  /\ IsSequence(SubSeq(s, m, n)) /\ Len(SubSeq(s, m, n)) = n - m + 1
         /\ \A i \in 1 .. n - m + 1 : SubSeq(s, m, n)[i] = s[m + i - 1]
<1>1. PICK T : s \in Seq(T)
  BY SequenceIs
<1>2. SubSeq(s, m, n) \in Seq(T) /\ Len(SubSeq(s, m, n)) = n - m + 1
      /\ \A i \in 1 .. n - m + 1 : SubSeq(s, m, n)[i] = s[m + i - 1]
  BY <1>1, SubSeqProperties
<1> QED
  BY <1>2, IsSeqOf

LEMMA OneOf ==
  ASSUME NEW x
  PROVE  IsSequence(<<x>>) /\ Len(<<x>>) = 1 /\ <<x>>[1] = x
<1>1. <<x>> \in Seq({x}) /\ Len(<<x>>) = 1 /\ <<x>>[1] = x
  OBVIOUS
<1> QED
  BY <1>1, IsSeqOf

=============================================================================
