--------------------------- MODULE ServicesProofs ---------------------------
(* Proofs about module Services, for any tabs, slots and instances.        *)
EXTENDS Services, FiniteSetTheorems, SequenceTheorems, TLAPS

-----------------------------------------------------------------------------
(* The messages of one kind in the inbox.                                  *)

At(s, kind) == {i \in 1 .. Len(s) : s[i].kind = kind}

Count(s, kind) == Cardinality(At(s, kind))

LEMMA CountType ==
  ASSUME NEW S, NEW s \in Seq(S), NEW kind
  PROVE  /\ IsFiniteSet(At(s, kind)) /\ Count(s, kind) \in Nat
         /\ At(s, kind) \subseteq 1 .. Len(s) /\ Len(s) \in Nat
         /\ Count(s, kind) = 0 => At(s, kind) = {}
<1>1. Len(s) \in Nat
  BY LenProperties
<1>2. IsFiniteSet(1 .. Len(s)) /\ At(s, kind) \in SUBSET (1 .. Len(s))
  BY <1>1, FS_Interval DEF At
<1>3. IsFiniteSet(At(s, kind))
  BY <1>2, FS_Subset
<1> QED BY <1>1, <1>2, <1>3, FS_CardinalityType, FS_EmptySet DEF Count

LEMMA Appended ==
  ASSUME NEW S, NEW s \in Seq(S), NEW x \in S
  PROVE  /\ Append(s, x) \in Seq(S) /\ Len(s) \in Nat
         /\ Len(Append(s, x)) = Len(s) + 1
         /\ \A i \in 1 .. Len(s) : Append(s, x)[i] = s[i]
         /\ Append(s, x)[Len(s) + 1] = x
         /\ \A kind : At(Append(s, x), kind) =
              At(s, kind) \cup (IF x.kind = kind THEN {Len(s) + 1} ELSE {})
<1>1. /\ Append(s, x) \in Seq(S) /\ Len(s) \in Nat
      /\ Len(Append(s, x)) = Len(s) + 1
      /\ \A i \in 1 .. Len(s) : Append(s, x)[i] = s[i]
      /\ Append(s, x)[Len(s) + 1] = x
  BY AppendProperties, LenProperties
<1>2. 1 .. Len(s) + 1 = 1 .. Len(s) \cup {Len(s) + 1}
  BY <1>1
<1>3. ASSUME NEW kind
      PROVE  At(Append(s, x), kind) =
               At(s, kind) \cup (IF x.kind = kind THEN {Len(s) + 1} ELSE {})
  BY <1>1, <1>2 DEF At
<1> QED BY <1>1, <1>3

LEMMA AppendCounts ==
  ASSUME NEW S, NEW s \in Seq(S), NEW x \in S, NEW kind
  PROVE  Count(Append(s, x), kind) =
           Count(s, kind) + (IF x.kind = kind THEN 1 ELSE 0)
<1>1. /\ IsFiniteSet(At(s, kind)) /\ Count(s, kind) \in Nat
      /\ At(s, kind) \subseteq 1 .. Len(s) /\ Len(s) \in Nat
  BY CountType
<1>2. Len(s) + 1 \notin At(s, kind)
  BY <1>1
<1>3. At(Append(s, x), kind) =
        At(s, kind) \cup (IF x.kind = kind THEN {Len(s) + 1} ELSE {})
  BY Appended
<1>4. CASE x.kind = kind
  BY <1>1, <1>2, <1>3, <1>4, FS_AddElement, ZenonT(30) DEF Count
<1>5. CASE x.kind # kind
  BY <1>1, <1>3, <1>5 DEF Count
<1> QED BY <1>4, <1>5

(* t is s without its head.                                                *)
Shifted(s, t) ==
  /\ \A i, kind : i \in At(t, kind) =>
       i \in Nat \ {0} /\ i + 1 \in At(s, kind) /\ t[i] = s[i + 1]
  /\ \A i \in Nat \ {0} : \A kind : i + 1 \in At(s, kind) => i \in At(t, kind)

LEMMA HeadTaken ==
  ASSUME NEW S, NEW s \in Seq(S), s # <<>>
  PROVE  /\ Tail(s) \in Seq(S) /\ Head(s) = s[1] /\ Head(s) \in S
         /\ Len(s) \in Nat \ {0} /\ Len(Tail(s)) = Len(s) - 1
         /\ \A i \in 1 .. Len(Tail(s)) : Tail(s)[i] = s[i + 1]
         /\ Shifted(s, Tail(s))
<1>1. Len(s) \in Nat /\ Len(s) # 0
  BY LenProperties, EmptySeq
<1>2. /\ Head(s) \in S /\ Tail(s) \in Seq(S)
      /\ Len(Tail(s)) = Len(s) - 1
      /\ \A i \in 1 .. Len(Tail(s)) : Tail(s)[i] = s[i + 1]
  BY HeadTailProperties
<1>3. Head(s) = s[1]
  OBVIOUS
<1>4. ASSUME NEW i \in Nat \ {0}, NEW kind
      PROVE  /\ i \in At(Tail(s), kind) <=> i + 1 \in At(s, kind)
             /\ i \in At(Tail(s), kind) => Tail(s)[i] = s[i + 1]
  <2>1. i \in 1 .. Len(Tail(s)) <=> i + 1 \in 1 .. Len(s)
    BY <1>1, <1>2
  <2> QED BY <1>2, <2>1 DEF At
<1>5. \A i, kind : i \in At(Tail(s), kind) => i \in Nat \ {0}
  BY DEF At
<1>6. Shifted(s, Tail(s))
  BY <1>4, <1>5 DEF Shifted
<1> QED BY <1>1, <1>2, <1>3, <1>6

(* A set of positions and the same set one place further.                  *)
LEMMA ShiftedCardinality ==
  ASSUME NEW A \in SUBSET Nat, NEW B \in SUBSET Nat, IsFiniteSet(B), 0 \notin B,
         \A i \in Nat : i \in A <=> i + 1 \in B
  PROVE  Cardinality(A) = Cardinality(B)
<1> DEFINE back == [i \in B |-> i - 1]
<1>1. back \in [B -> A]
  <2>1. ASSUME NEW i \in B PROVE i - 1 \in A
    <3>1. i - 1 \in Nat /\ (i - 1) + 1 = i
      BY <2>1
    <3> QED BY <3>1
  <2> QED BY <2>1
<1>2. \A i, j \in B : back[i] = back[j] => i = j
  OBVIOUS
<1>3. \A i \in A : \E j \in B : back[j] = i
  <2>1. ASSUME NEW i \in A PROVE i + 1 \in B /\ back[i + 1] = i
    <3>1. i + 1 \in B
      BY <2>1
    <3> QED BY <3>1
  <2> QED BY <2>1
<1>4. back \in Bijection(B, A)
  BY <1>1, <1>2, <1>3 DEF Bijection, Injection, Surjection, IsInjective
<1>5. ExistsBijection(B, A)
  BY <1>4 DEF ExistsBijection
<1> QED BY <1>5, FS_Bijection

LEMMA TailCounts ==
  ASSUME NEW S, NEW s \in Seq(S), s # <<>>, NEW kind
  PROVE  Count(s, kind) =
           Count(Tail(s), kind) + (IF Head(s).kind = kind THEN 1 ELSE 0)
<1> DEFINE B == At(s, kind) \ {1}
<1>1. /\ Head(s) = s[1] /\ Len(s) \in Nat \ {0} /\ Tail(s) \in Seq(S)
      /\ Shifted(s, Tail(s))
  BY HeadTaken
<1>2. /\ IsFiniteSet(At(s, kind)) /\ Count(s, kind) \in Nat
      /\ At(s, kind) \subseteq 1 .. Len(s)
  BY CountType
<1>3. 1 \in At(s, kind) <=> Head(s).kind = kind
  BY <1>1 DEF At
<1>4. /\ IsFiniteSet(B)
      /\ Cardinality(B) = IF 1 \in At(s, kind) THEN Cardinality(At(s, kind)) - 1
                          ELSE Cardinality(At(s, kind))
  BY <1>2, FS_RemoveElement
<1>5. \A i \in Nat : i \in At(Tail(s), kind) <=> i + 1 \in B
  <2>1. \A i \in Nat \ {0} : i + 1 # 1
    OBVIOUS
  <2> QED BY <1>1, <2>1 DEF Shifted
<1>6. Cardinality(At(Tail(s), kind)) = Cardinality(B)
  <2>1. B \in SUBSET Nat /\ 0 \notin B /\ At(Tail(s), kind) \in SUBSET Nat
    BY <1>1, <1>2 DEF Shifted
  <2> HIDE DEF B
  <2> QED BY <1>4, <1>5, <2>1, ShiftedCardinality
<1> QED BY <1>2, <1>3, <1>4, <1>6 DEF Count

-----------------------------------------------------------------------------
(* The inductive invariant.                                                *)

(* An ask in the inbox is of a renderer that waits and is owed nothing     *)
(* yet, and it is the only one of that renderer.                           *)
AsksOf(b, waiting) ==
  /\ \A i \in At(b, "ask") : b[i].tab \in waiting
  /\ \A i, j \in At(b, "ask") : b[i].tab = b[j].tab => i = j

AsksStand == AsksOf(inbox, asking \ pending) /\ (loop # None => loop \in pending)

(* Every permit is free or in the inbox, with a reply.                     *)
PermitsStand == permits + Count(inbox, "reply") = MAX_QUEUED_PER_SOURCE

(* The end of the service is the last its reader says.                     *)
GoneLast(b) ==
  \A i \in At(b, "gone") : \A j \in At(b, "reply") \cup At(b, "gone") : j <= i

GoneIsLast == GoneLast(inbox) /\ (At(inbox, "gone") # {} => ~attached /\ reader = None)

QueueStands == AsksStand /\ PermitsStand /\ GoneIsLast

(* The store and its budget, as QuotaIsTrue says.                          *)
StoreOK ==
  /\ quota \in [used : Nat, sizes : [Slots -> 0 .. MAX_VALUE]]
  /\ disk \in [Slots -> 0 .. MAX_VALUE]
  /\ quota.used = Cardinality(Counted) /\ quota.used <= MAX_STORE
  /\ IsFiniteSet(Counted)
  /\ \A s \in Slots \ torn : disk[s] = quota.sizes[s]

IInv == instance \in Instances /\ TypeOK /\ StoreOK /\ QueueStands

LEMMA Sent ==
  /\ \A t \in Tabs : /\ Ask(t) \in Message \cup {Gone} /\ Ask(t).kind = "ask" /\ Ask(t).tab = t
                     /\ Reply(t) \in Message \cup {Gone} /\ Reply(t).kind = "reply"
                     /\ Reply(t).tab = t
  /\ Gone \in Message \cup {Gone} /\ Gone.kind = "gone"
  /\ \A m \in Message \cup {Gone} : m.kind # "gone" => m.tab \in Tabs
BY DEF Ask, Reply, Gone, Message

LEMMA AsksAppend ==
  ASSUME NEW S, NEW b \in Seq(S), NEW m \in S, NEW w, AsksOf(b, w)
  PROVE  /\ m.kind # "ask" => AsksOf(Append(b, m), w)
         /\ m.kind = "ask" /\ m.tab \notin w => AsksOf(Append(b, m), w \cup {m.tab})
<1> DEFINE c == Append(b, m)
<1>1. /\ \A i \in 1 .. Len(b) : c[i] = b[i]
      /\ c[Len(b) + 1] = m
      /\ \A kind : At(c, kind) = At(b, kind) \cup (IF m.kind = kind THEN {Len(b) + 1} ELSE {})
  BY Appended
<1>2. \A i \in At(b, "ask") : i \in 1 .. Len(b) /\ b[i].tab \in w
  BY DEF AsksOf, At
<1>3. \A i, j \in At(b, "ask") : b[i].tab = b[j].tab => i = j
  BY DEF AsksOf
<1> HIDE DEF c
<1>4. m.kind # "ask" => AsksOf(c, w)
  BY <1>1, <1>2, <1>3 DEF AsksOf
<1>5. m.kind = "ask" /\ m.tab \notin w => AsksOf(c, w \cup {m.tab})
  BY <1>1, <1>2, <1>3 DEF AsksOf
<1> QED BY <1>4, <1>5 DEF c

LEMMA AsksTail ==
  ASSUME NEW S, NEW b \in Seq(S), b # <<>>, NEW w, AsksOf(b, w)
  PROVE  /\ AsksOf(Tail(b), w)
         /\ Head(b).kind = "ask" => /\ Head(b).tab \in w
                                    /\ AsksOf(Tail(b), w \ {Head(b).tab})
<1> DEFINE c == Tail(b)
<1>1. Shifted(b, c) /\ Head(b) = b[1] /\ Len(b) \in Nat \ {0}
  BY HeadTaken
<1>2. ASSUME NEW i \in At(c, "ask")
      PROVE  i \in Nat \ {0} /\ i + 1 \in At(b, "ask") /\ c[i] = b[i + 1] /\ c[i].tab \in w
  BY <1>1 DEF Shifted, AsksOf
<1>3. ASSUME NEW i \in At(c, "ask"), NEW j \in At(c, "ask"), c[i].tab = c[j].tab
      PROVE  i = j
  <2>1. /\ i \in Nat /\ i + 1 \in At(b, "ask") /\ c[i] = b[i + 1]
        /\ j \in Nat /\ j + 1 \in At(b, "ask") /\ c[j] = b[j + 1]
    BY <1>2
  <2>2. \A k, l \in At(b, "ask") : b[k].tab = b[l].tab => k = l
    BY DEF AsksOf
  <2>3. b[i + 1].tab = b[j + 1].tab
    BY <1>3, <2>1
  <2> HIDE DEF c
  <2>4. i + 1 = j + 1
    BY <2>1, <2>2, <2>3
  <2> QED BY <2>1, <2>4
<1>4. ASSUME Head(b).kind = "ask"
      PROVE  Head(b).tab \in w /\ \A i \in At(c, "ask") : c[i].tab # Head(b).tab
  <2>1. 1 \in At(b, "ask")
    BY <1>1, <1>4 DEF At
  <2>2. ASSUME NEW i \in At(c, "ask") PROVE c[i].tab # Head(b).tab
    <3>1. i + 1 # 1
      BY <1>2
    <3> QED BY <1>1, <1>2, <2>1, <3>1 DEF AsksOf
  <2> QED BY <1>1, <2>1, <2>2 DEF AsksOf
<1> HIDE DEF c
<1>5. AsksOf(c, w) /\ (Head(b).kind = "ask" => AsksOf(c, w \ {Head(b).tab}))
  BY <1>2, <1>3, <1>4 DEF AsksOf
<1> QED BY <1>4, <1>5 DEF c

(* A renderer that no ask in the inbox is of may stop waiting.             *)
LEMMA AsksLess ==
  ASSUME NEW b, NEW w, NEW v, AsksOf(b, w), w \subseteq v
  PROVE  AsksOf(b, v)
BY DEF AsksOf

LEMMA GoneAppend ==
  ASSUME NEW S, NEW b \in Seq(S), NEW m \in S, GoneLast(b)
  PROVE  /\ m.kind = "ask" \/ At(b, "gone") = {} => GoneLast(Append(b, m))
         /\ m.kind # "gone" => At(Append(b, m), "gone") = At(b, "gone")
<1> DEFINE c == Append(b, m)
           n == Len(b) + 1
<1>1. \A kind : At(c, kind) = At(b, kind) \cup (IF m.kind = kind THEN {n} ELSE {})
  BY Appended
<1>2. /\ Len(b) \in Nat
      /\ \A kind : At(b, kind) \subseteq 1 .. Len(b)
  BY CountType
<1> HIDE DEF c
<1>3. CASE m.kind = "ask"
  BY <1>1, <1>3 DEF GoneLast, c
<1>4. CASE m.kind # "ask" /\ At(b, "gone") = {}
  <2>1. ASSUME NEW i \in At(c, "gone"), NEW j \in At(c, "reply") \cup At(c, "gone")
        PROVE  j <= i
    <3>1. i = n /\ j \in 1 .. n
      BY <1>1, <1>2, <1>4
    <3> QED BY <1>2, <3>1
  <2> QED BY <1>4, <2>1, <1>1 DEF GoneLast, c
<1>5. m.kind # "gone" => At(c, "gone") = At(b, "gone")
  BY <1>1
<1> QED BY <1>3, <1>4, <1>5 DEF c

LEMMA GoneTail ==
  ASSUME NEW S, NEW b \in Seq(S), b # <<>>, GoneLast(b)
  PROVE  /\ GoneLast(Tail(b))
         /\ At(b, "gone") = {} => At(Tail(b), "gone") = {}
         /\ Head(b).kind = "gone" => At(Tail(b), "gone") = {} /\ Count(Tail(b), "reply") = 0
<1> DEFINE c == Tail(b)
<1>1. Shifted(b, c) /\ Head(b) = b[1] /\ Len(b) \in Nat \ {0} /\ c \in Seq(S)
  BY HeadTaken
<1> HIDE DEF c
<1>2. \A i, kind : i \in At(c, kind) => i \in Nat \ {0} /\ i + 1 \in At(b, kind)
  BY <1>1 DEF Shifted
<1>3. ASSUME NEW i \in At(c, "gone"), NEW j \in At(c, "reply") \cup At(c, "gone")
      PROVE  j <= i
  <2>1. /\ i \in Nat /\ j \in Nat
        /\ i + 1 \in At(b, "gone") /\ j + 1 \in At(b, "reply") \cup At(b, "gone")
    BY <1>2
  <2>2. j + 1 <= i + 1
    BY <2>1 DEF GoneLast
  <2> QED BY <2>1, <2>2
<1>4. ASSUME Head(b).kind = "gone"
      PROVE  At(c, "gone") = {} /\ At(c, "reply") = {}
  <2>1. 1 \in At(b, "gone")
    BY <1>1, <1>4 DEF At
  <2>2. ASSUME NEW i \in At(c, "gone") \cup At(c, "reply") PROVE FALSE
    <3>1. i \in Nat \ {0} /\ i + 1 \in At(b, "reply") \cup At(b, "gone")
      BY <1>2
    <3>2. i + 1 <= 1
      BY <2>1, <3>1 DEF GoneLast
    <3> QED BY <3>1, <3>2
  <2> QED BY <2>2
<1>5. Head(b).kind = "gone" => Count(c, "reply") = 0
  BY <1>4, FS_EmptySet DEF Count
<1> QED BY <1>2, <1>3, <1>4, <1>5 DEF GoneLast, c

-----------------------------------------------------------------------------
(* What a slot holds.                                                      *)

Units(s, size) == {s} \X (1 .. size)

LEMMA UnitsCounted ==
  ASSUME NEW s, NEW size \in Nat
  PROVE  IsFiniteSet(Units(s, size)) /\ Cardinality(Units(s, size)) = size
<1> DEFINE unit == [i \in 1 .. size |-> <<s, i>>]
<1>1. unit \in [1 .. size -> Units(s, size)]
  BY DEF Units
<1>2. \A i, j \in 1 .. size : unit[i] = unit[j] => i = j
  OBVIOUS
<1>3. \A u \in Units(s, size) : \E i \in 1 .. size : unit[i] = u
  BY DEF Units
<1>4. unit \in Bijection(1 .. size, Units(s, size))
  BY <1>1, <1>2, <1>3 DEF Bijection, Injection, Surjection, IsInjective
<1>5. ExistsBijection(1 .. size, Units(s, size))
  BY <1>4 DEF ExistsBijection
<1>6. IsFiniteSet(1 .. size) /\ Cardinality(1 .. size) = size
  BY FS_Interval
<1> QED BY <1>5, <1>6, FS_Bijection

Stored(sizes) == {unit \in Slots \X (1 .. MAX_VALUE) : unit[2] <= sizes[unit[1]]}

(* A slot that is set anew changes the count by the difference.            *)
LEMMA SlotSet ==
  ASSUME NEW sizes \in [Slots -> 0 .. MAX_VALUE], NEW s \in Slots,
         NEW size \in 0 .. MAX_VALUE, IsFiniteSet(Stored(sizes))
  PROVE  LET after == Stored([sizes EXCEPT ![s] = size]) IN
         /\ IsFiniteSet(after)
         /\ Cardinality(Stored(sizes)) \in Nat
         /\ sizes[s] <= Cardinality(Stored(sizes))
         /\ Cardinality(after) = (Cardinality(Stored(sizes)) - sizes[s]) + size
<1> DEFINE others == {unit \in Stored(sizes) : unit[1] # s}
           after == Stored([sizes EXCEPT ![s] = size])
<1>1. sizes[s] \in Nat /\ size \in Nat /\ sizes[s] <= MAX_VALUE /\ size <= MAX_VALUE
      /\ MAX_VALUE \in Nat
  BY ServicesAssumption
<1>2. ASSUME NEW n \in Nat, n <= MAX_VALUE
      PROVE  Units(s, n) = {unit \in Slots \X (1 .. MAX_VALUE) : unit[1] = s /\ unit[2] <= n}
  BY <1>1, <1>2 DEF Units
<1>3. Stored(sizes) = others \cup Units(s, sizes[s])
  BY <1>1, <1>2 DEF Stored
<1>4. after = others \cup Units(s, size)
  <2>1. \A unit \in Slots \X (1 .. MAX_VALUE) :
          [sizes EXCEPT ![s] = size][unit[1]] = IF unit[1] = s THEN size ELSE sizes[unit[1]]
    OBVIOUS
  <2> QED BY <1>1, <1>2, <2>1 DEF Stored
<1>5. \A n : others \cap Units(s, n) = {}
  BY DEF Units
<1>6. IsFiniteSet(others)
  BY FS_Subset
<1> HIDE DEF others, after
<1>7. ASSUME NEW n \in Nat
      PROVE  /\ IsFiniteSet(others \cup Units(s, n))
             /\ Cardinality(others \cup Units(s, n)) = Cardinality(others) + n
  <2>1. IsFiniteSet(Units(s, n)) /\ Cardinality(Units(s, n)) = n
    BY UnitsCounted
  <2>2. /\ IsFiniteSet(others \cup Units(s, n))
        /\ Cardinality(others \cup Units(s, n)) =
             Cardinality(others) + Cardinality(Units(s, n))
               - Cardinality(others \cap Units(s, n))
    BY <1>6, <2>1, FS_Union
  <2>3. Cardinality(others \cap Units(s, n)) = 0 /\ Cardinality(others) \in Nat
    BY <1>5, <1>6, FS_EmptySet, FS_CardinalityType
  <2> QED BY <2>1, <2>2, <2>3
<1>8. /\ Cardinality(Stored(sizes)) = Cardinality(others) + sizes[s]
      /\ Cardinality(after) = Cardinality(others) + size
      /\ IsFiniteSet(after) /\ Cardinality(others) \in Nat
  BY <1>1, <1>3, <1>4, <1>6, <1>7, FS_CardinalityType
<1>9. /\ IsFiniteSet(after)
      /\ Cardinality(Stored(sizes)) \in Nat
      /\ sizes[s] <= Cardinality(Stored(sizes))
      /\ Cardinality(after) = (Cardinality(Stored(sizes)) - sizes[s]) + size
  BY <1>1, <1>8
<1> QED BY <1>9 DEF after

LEMMA NothingStored ==
  /\ Stored([s \in Slots |-> 0]) = {}
  /\ IsFiniteSet(Stored([s \in Slots |-> 0]))
  /\ Cardinality(Stored([s \in Slots |-> 0])) = 0
<1>1. Stored([s \in Slots |-> 0]) = {}
  BY DEF Stored
<1> QED BY <1>1, FS_EmptySet

LEMMA CountedIsStored == Counted = Stored(quota.sizes) /\ Counted' = Stored(quota'.sizes)
BY DEF Counted, Stored

LEMMA SameStore ==
  ASSUME StoreOK, UNCHANGED store
  PROVE  StoreOK'
BY DEF StoreOK, store, Counted

(* A store of a process that has just started.                             *)
LEMMA FreshStore ==
  ASSUME NEW q, q = NewQuota
  PROVE  /\ q \in [used : Nat, sizes : [Slots -> 0 .. MAX_VALUE]]
         /\ q.used = 0 /\ q.sizes = [s \in Slots |-> 0]
         /\ [s \in Slots |-> 0] \in [Slots -> 0 .. MAX_VALUE]
         /\ 0 <= MAX_STORE
BY ServicesAssumption DEF NewQuota

(* Handle, for one operation.                                              *)
LEMMA HandleKeepsStore ==
  ASSUME StoreOK, NEW operation, Handle(operation)
  PROVE  StoreOK'
<1>1. CASE UNCHANGED store
  BY <1>1, SameStore
<1>2. ASSUME NEW s \in Slots, NEW size \in 0 .. MAX_VALUE + 1, Landed(s, size)
      PROVE  StoreOK'
  <2> DEFINE sizes == [quota.sizes EXCEPT ![s] = size]
  <2>1. /\ size \in 0 .. MAX_VALUE /\ size \in Nat
        /\ quota.sizes \in [Slots -> 0 .. MAX_VALUE] /\ quota.sizes[s] \in Nat
        /\ quota.used \in Nat
    BY <1>2, ServicesAssumption DEF StoreOK, Landed
  <2>2. /\ Stored(quota.sizes) = Counted /\ Counted' = Stored(quota'.sizes)
        /\ quota.used = Cardinality(Counted) /\ IsFiniteSet(Counted)
    BY CountedIsStored DEF StoreOK
  <2>3. /\ IsFiniteSet(Stored(sizes))
        /\ quota.sizes[s] <= quota.used
        /\ Cardinality(Stored(sizes)) = (quota.used - quota.sizes[s]) + size
    BY <2>1, <2>2, SlotSet
  <2>4. PICK projected \in AdmitWrite(quota.used, quota.sizes[s], size) :
          quota' = [used |-> projected, sizes |-> sizes]
    BY <1>2 DEF Landed
  <2>5. projected = (quota.used - quota.sizes[s]) + size /\ projected <= MAX_STORE
    <3>1. (IF quota.used > quota.sizes[s] THEN quota.used - quota.sizes[s] ELSE 0)
            = quota.used - quota.sizes[s]
      BY <2>1, <2>3
    <3> QED BY <2>4, <3>1 DEF AdmitWrite
  <2>6. projected \in Nat
    BY <2>1, <2>3, <2>5
  <2>7. sizes \in [Slots -> 0 .. MAX_VALUE]
    BY <2>1
  <2>8. disk' = [disk EXCEPT ![s] = size] /\ torn' = torn \ {s}
    BY <1>2 DEF Landed
  <2>9. /\ quota'.used = projected /\ quota'.sizes = sizes
        /\ quota' \in [used : Nat, sizes : [Slots -> 0 .. MAX_VALUE]]
    BY <2>4, <2>6, <2>7
  <2>10. \A r \in Slots \ torn' : disk'[r] = sizes[r]
    BY <2>1, <2>8 DEF StoreOK
  <2>11. disk' \in [Slots -> 0 .. MAX_VALUE]
    BY <2>1, <2>8 DEF StoreOK
  <2> HIDE DEF sizes
  <2> QED BY <2>2, <2>3, <2>5, <2>9, <2>10, <2>11 DEF StoreOK
<1>3. ASSUME NEW s \in Slots, NEW size \in 0 .. MAX_VALUE + 1, Failed(s, size)
      PROVE  StoreOK'
  <2>1. /\ quota' = quota
        /\ \/ UNCHANGED <<disk, torn>>
           \/ \E part \in 0 .. size :
                part < size /\ disk' = [disk EXCEPT ![s] = part] /\ torn' = torn \cup {s}
        /\ size \in 0 .. MAX_VALUE
    BY <1>3, ServicesAssumption DEF Failed
  <2>2. Counted' = Counted
    BY <2>1 DEF Counted
  <2>3. disk' \in [Slots -> 0 .. MAX_VALUE] /\ \A r \in Slots \ torn' : disk'[r] = quota.sizes[r]
    <3>1. CASE UNCHANGED <<disk, torn>>
      BY <3>1 DEF StoreOK
    <3>2. ASSUME NEW part \in 0 .. size, disk' = [disk EXCEPT ![s] = part],
                 torn' = torn \cup {s}
          PROVE  disk' \in [Slots -> 0 .. MAX_VALUE]
                 /\ \A r \in Slots \ torn' : disk'[r] = quota.sizes[r]
      <4>1. part \in 0 .. MAX_VALUE
        BY <2>1, ServicesAssumption
      <4> QED BY <3>2, <4>1 DEF StoreOK
    <3> QED BY <2>1, <3>1, <3>2
  <2> QED BY <2>1, <2>2, <2>3 DEF StoreOK
<1> QED BY <1>1, <1>2, <1>3 DEF Handle, Refused

-----------------------------------------------------------------------------
(* Renderers and the loop.                                                 *)

LEMMA Init_IInv == Init => IInv
<1> SUFFICES ASSUME Init PROVE IInv
  OBVIOUS
<1>1. /\ quota \in [used : Nat, sizes : [Slots -> 0 .. MAX_VALUE]]
      /\ quota.used = 0 /\ quota.sizes = [s \in Slots |-> 0]
      /\ disk \in [Slots -> 0 .. MAX_VALUE] /\ disk = [s \in Slots |-> 0]
      /\ 0 <= MAX_STORE
  BY FreshStore DEF Init
<1>2. TypeOK
  <2>1. \A S : <<>> \in Seq(S) /\ Len(<<>>) = 0
    BY EmptySeq
  <2> QED BY <1>1, <2>1, ServicesAssumption DEF Init, TypeOK
<1>3. StoreOK
  <2>1. Counted = Stored([s \in Slots |-> 0])
    BY <1>1, CountedIsStored
  <2> QED BY <1>1, <2>1, NothingStored DEF StoreOK
<1>4. \A kind : At(<<>>, kind) = {} /\ Count(<<>>, kind) = 0
  BY FS_EmptySet DEF At, Count
<1>5. QueueStands
  BY <1>4, ServicesAssumption
     DEF Init, QueueStands, AsksStand, AsksOf, PermitsStand, GoneIsLast, GoneLast
<1> QED BY <1>2, <1>3, <1>5 DEF Init, IInv

LEMMA NeedStorage_IInv ==
  ASSUME IInv, NEW t \in Tabs, NeedStorage(t)
  PROVE  IInv'
<1> DEFINE b == Append(inbox, Ask(t))
<1>0. /\ TypeOK /\ StoreOK /\ QueueStands /\ instance \in Instances
      /\ t \in instance.tabs /\ t \notin asking /\ asking' = asking \cup {t} /\ inbox' = b
      /\ UNCHANGED <<instance, pending, loop, link, restarts, deaths, store>>
  BY DEF IInv, NeedStorage
<1>1. UNCHANGED <<requests, replies, service, serving, reader, attached, permits, quota, disk>>
  BY <1>0 DEF link, store
<1>2. /\ inbox \in Seq(Message \cup {Gone})
      /\ Ask(t) \in Message \cup {Gone} /\ Ask(t).kind = "ask" /\ Ask(t).tab = t
  BY <1>0, Sent DEF TypeOK
<1>3. b \in Seq(Message \cup {Gone}) /\ Count(b, "reply") = Count(inbox, "reply") + 0
  BY <1>2, Appended, AppendCounts
<1>4. AsksOf(b, (asking \ pending) \cup {t})
  BY <1>0, <1>2, AsksAppend DEF QueueStands, AsksStand
<1>5. GoneLast(b) /\ At(b, "gone") = At(inbox, "gone")
  BY <1>0, <1>2, GoneAppend DEF QueueStands, GoneIsLast
<1>6. Count(inbox, "reply") \in Nat
  BY <1>2, CountType
<1> HIDE DEF b
<1>7. TypeOK'
  BY <1>0, <1>1, <1>3 DEF TypeOK
<1>8. AsksStand'
  <2>1. (asking \ pending) \cup {t} = asking' \ pending'
    BY <1>0 DEF TypeOK
  <2> QED BY <1>0, <1>4, <2>1 DEF QueueStands, AsksStand
<1>9. PermitsStand'
  BY <1>0, <1>1, <1>3, <1>6 DEF QueueStands, PermitsStand
<1>10. GoneIsLast'
  BY <1>0, <1>1, <1>5 DEF QueueStands, GoneIsLast
<1> QED BY <1>0, <1>7, <1>8, <1>9, <1>10, SameStore DEF IInv, QueueStands

(* What taking a message from the inbox leaves.                            *)
LEMMA InboxTaken ==
  ASSUME IInv, inbox # <<>>
  PROVE  /\ Tail(inbox) \in Seq(Message \cup {Gone})
         /\ Head(inbox) \in Message \cup {Gone}
         /\ Count(Tail(inbox), "reply") \in Nat /\ permits \in Nat
         /\ permits + Count(Tail(inbox), "reply")
              + (IF Head(inbox).kind = "reply" THEN 1 ELSE 0) = MAX_QUEUED_PER_SOURCE
         /\ AsksOf(Tail(inbox), asking \ pending)
         /\ Head(inbox).kind = "ask" =>
              /\ Head(inbox).tab \in asking \ pending
              /\ AsksOf(Tail(inbox), (asking \ pending) \ {Head(inbox).tab})
         /\ GoneLast(Tail(inbox))
         /\ At(Tail(inbox), "gone") # {} => ~attached /\ reader = None
         /\ Head(inbox).kind = "gone" =>
              At(Tail(inbox), "gone") = {} /\ Count(Tail(inbox), "reply") = 0
<1>0. TypeOK /\ AsksStand /\ PermitsStand /\ GoneIsLast
  BY DEF IInv, QueueStands
<1>1. inbox \in Seq(Message \cup {Gone}) /\ permits \in Nat
  BY <1>0, ServicesAssumption DEF TypeOK
<1>2. Tail(inbox) \in Seq(Message \cup {Gone}) /\ Head(inbox) \in Message \cup {Gone}
  BY <1>1, HeadTaken
<1>3. /\ Count(inbox, "reply") =
           Count(Tail(inbox), "reply") + (IF Head(inbox).kind = "reply" THEN 1 ELSE 0)
      /\ Count(Tail(inbox), "reply") \in Nat
  BY <1>1, <1>2, TailCounts, CountType
<1>4. /\ AsksOf(Tail(inbox), asking \ pending)
      /\ Head(inbox).kind = "ask" =>
           /\ Head(inbox).tab \in asking \ pending
           /\ AsksOf(Tail(inbox), (asking \ pending) \ {Head(inbox).tab})
  BY <1>0, <1>1, AsksTail DEF AsksStand
<1>5. /\ GoneLast(Tail(inbox))
      /\ At(inbox, "gone") = {} => At(Tail(inbox), "gone") = {}
      /\ Head(inbox).kind = "gone" =>
           At(Tail(inbox), "gone") = {} /\ Count(Tail(inbox), "reply") = 0
  BY <1>0, <1>1, GoneTail DEF GoneIsLast
<1>6. At(Tail(inbox), "gone") # {} => ~attached /\ reader = None
  BY <1>0, <1>5 DEF GoneIsLast
<1>7. permits + Count(Tail(inbox), "reply")
        + (IF Head(inbox).kind = "reply" THEN 1 ELSE 0) = MAX_QUEUED_PER_SOURCE
  BY <1>0, <1>1, <1>3 DEF PermitsStand
<1> QED BY <1>1, <1>2, <1>3, <1>4, <1>5, <1>6, <1>7

LEMMA TabRequest_IInv == IInv /\ TabRequest => IInv'
<1> SUFFICES ASSUME IInv, TabRequest PROVE IInv'
  OBVIOUS
<1> DEFINE m == Head(inbox)
           b == Tail(inbox)
<1>0. /\ TypeOK /\ StoreOK /\ QueueStands /\ instance \in Instances
      /\ inbox # <<>> /\ m.kind = "ask" /\ loop' = m.tab
      /\ pending' = pending \cup {m.tab} /\ inbox' = b
      /\ UNCHANGED <<instance, asking, link, restarts, deaths, store>>
  BY DEF IInv, TabRequest, Head1
<1>1. UNCHANGED <<requests, replies, service, serving, reader, attached, permits, quota, disk>>
  BY <1>0 DEF link, store
<1>2. /\ b \in Seq(Message \cup {Gone}) /\ m \in Message \cup {Gone}
      /\ Count(b, "reply") \in Nat /\ permits \in Nat
      /\ permits + Count(b, "reply") + 0 = MAX_QUEUED_PER_SOURCE
      /\ m.tab \in asking \ pending
      /\ AsksOf(b, (asking \ pending) \ {m.tab})
      /\ GoneLast(b)
      /\ At(b, "gone") # {} => ~attached /\ reader = None
  BY <1>0, InboxTaken
<1>3. m.tab \in Tabs
  BY <1>0, <1>2, Sent
<1> HIDE DEF m, b
<1>4. TypeOK'
  BY <1>0, <1>1, <1>2, <1>3 DEF TypeOK
<1>5. AsksStand'
  <2>1. (asking \ pending) \ {m.tab} = asking' \ pending'
    BY <1>0
  <2> QED BY <1>0, <1>2, <2>1 DEF AsksStand
<1>6. PermitsStand' /\ GoneIsLast'
  BY <1>0, <1>1, <1>2 DEF PermitsStand, GoneIsLast
<1> QED BY <1>0, <1>4, <1>5, <1>6, SameStore DEF IInv, QueueStands

LEMMA StorageReply_IInv == IInv /\ StorageReply => IInv'
<1> SUFFICES ASSUME IInv, StorageReply PROVE IInv'
  OBVIOUS
<1> DEFINE m == Head(inbox)
           b == Tail(inbox)
<1>0. /\ TypeOK /\ StoreOK /\ QueueStands /\ instance \in Instances
      /\ loop = None /\ inbox # <<>> /\ m.kind = "reply" /\ inbox' = b
      /\ asking' = IF m.tab \in pending THEN asking \ {m.tab} ELSE asking
      /\ pending' = pending \ {m.tab} /\ permits' = permits + 1
      /\ UNCHANGED <<instance, loop, requests, replies, service, serving, reader, attached,
                     restarts, deaths, store>>
  BY DEF IInv, StorageReply, Head1
<1>1. UNCHANGED <<quota, disk>>
  BY <1>0 DEF store
<1>2. /\ b \in Seq(Message \cup {Gone})
      /\ Count(b, "reply") \in Nat /\ permits \in Nat
      /\ permits + Count(b, "reply") + 1 = MAX_QUEUED_PER_SOURCE
      /\ AsksOf(b, asking \ pending)
      /\ GoneLast(b)
      /\ At(b, "gone") # {} => ~attached /\ reader = None
  BY <1>0, InboxTaken
<1> HIDE DEF m, b
<1>3. permits + 1 \in 0 .. MAX_QUEUED_PER_SOURCE
  BY <1>2, ServicesAssumption
<1>4. TypeOK'
  <2>1. pending' \subseteq asking' /\ asking' \subseteq instance.tabs
    BY <1>0 DEF TypeOK
  <2> QED BY <1>0, <1>1, <1>2, <1>3, <2>1 DEF TypeOK
<1>5. AsksStand'
  <2>1. asking \ pending \subseteq asking' \ pending'
    BY <1>0
  <2>2. AsksOf(b, asking' \ pending')
    BY <1>2, <2>1, AsksLess
  <2> QED BY <1>0, <2>2 DEF AsksStand
<1>6. PermitsStand' /\ GoneIsLast'
  BY <1>0, <1>2 DEF PermitsStand, GoneIsLast
<1> QED BY <1>0, <1>4, <1>5, <1>6, SameStore DEF IInv, QueueStands

(* The requests in flight fail; a fresh process, or the dead link.         *)
LEMMA RespawnService_IInv == IInv /\ RespawnService => IInv'
<1> SUFFICES ASSUME IInv, RespawnService PROVE IInv'
  OBVIOUS
<1> DEFINE m == Head(inbox)
           b == Tail(inbox)
<1>0. /\ TypeOK /\ StoreOK /\ QueueStands /\ instance \in Instances
      /\ loop = None /\ inbox # <<>> /\ m.kind = "gone" /\ inbox' = b
      /\ asking' = asking \ pending /\ pending' = {}
      /\ UNCHANGED <<instance, loop, deaths>>
  BY DEF IInv, RespawnService, Head1
<1>1. /\ b \in Seq(Message \cup {Gone}) /\ permits \in Nat
      /\ Count(b, "reply") = 0 /\ At(b, "gone") = {} /\ GoneLast(b)
      /\ permits + Count(b, "reply") + 0 = MAX_QUEUED_PER_SOURCE
      /\ AsksOf(b, asking \ pending)
  BY <1>0, InboxTaken
<1> HIDE DEF m, b
<1>2. AsksStand'
  <2>1. asking \ pending = asking' \ pending'
    BY <1>0
  <2> QED BY <1>0, <1>1, <2>1 DEF AsksStand
<1>3. CASE Respawned
  <2>1. /\ requests' = <<>> /\ replies' = <<>> /\ service' = "alive" /\ serving' = None
        /\ reader' = None /\ attached' = TRUE /\ permits' = MAX_QUEUED_PER_SOURCE
        /\ quota' = NewQuota /\ disk' = [s \in Slots |-> 0]
        /\ restarts < MAX_SERVICE_RESTARTS /\ restarts' = restarts + 1
    BY <1>3 DEF Respawned
  <2>2. /\ quota' \in [used : Nat, sizes : [Slots -> 0 .. MAX_VALUE]]
        /\ quota'.used = 0 /\ quota'.sizes = [s \in Slots |-> 0]
        /\ disk' \in [Slots -> 0 .. MAX_VALUE] /\ 0 <= MAX_STORE
    BY <2>1, FreshStore
  <2>3. StoreOK'
    <3>1. Counted' = Stored([s \in Slots |-> 0])
      BY <2>2, CountedIsStored
    <3> QED BY <2>1, <2>2, <3>1, NothingStored DEF StoreOK
  <2>4. TypeOK'
    <3>1. \A S : <<>> \in Seq(S) /\ Len(<<>>) = 0
      BY EmptySeq
    <3>2. restarts' \in 0 .. MAX_SERVICE_RESTARTS
      BY <1>0, <2>1, ServicesAssumption DEF TypeOK
    <3> QED BY <1>0, <1>1, <2>1, <2>2, <3>1, <3>2, ServicesAssumption DEF TypeOK
  <2>5. PermitsStand' /\ GoneIsLast'
    BY <1>0, <1>1, <2>1, ServicesAssumption DEF PermitsStand, GoneIsLast
  <2> QED BY <1>0, <1>2, <2>3, <2>4, <2>5 DEF IInv, QueueStands
<1>4. CASE GivesUp
  <2>1. /\ restarts' = restarts
        /\ UNCHANGED <<requests, replies, service, serving, reader, attached, permits,
                       quota, disk>>
        /\ UNCHANGED store
    BY <1>4 DEF GivesUp, link, store
  <2>2. TypeOK'
    BY <1>0, <1>1, <2>1 DEF TypeOK
  <2>3. PermitsStand' /\ GoneIsLast'
    BY <1>0, <1>1, <2>1 DEF PermitsStand, GoneIsLast
  <2> QED BY <1>0, <1>2, <2>1, <2>2, <2>3, SameStore DEF IInv, QueueStands
<1> QED BY <1>3, <1>4 DEF RespawnService

(* What a step leaves alone when it touches neither the inbox nor the      *)
(* table of what is owed.                                                  *)
LEMMA QueueUntouched ==
  ASSUME QueueStands, UNCHANGED <<asking, pending, inbox, permits>>,
         loop' \in {loop, None},
         attached' = attached, reader = None => reader' = reader \/ attached
  PROVE  QueueStands'
<1>1. AsksStand'
  BY DEF QueueStands, AsksStand
<1>2. PermitsStand'
  BY DEF QueueStands, PermitsStand
<1>3. GoneIsLast'
  BY DEF QueueStands, GoneIsLast
<1> QED BY <1>1, <1>2, <1>3 DEF QueueStands

LEMMA WriteRequest_IInv == IInv /\ WriteRequest => IInv'
<1> SUFFICES ASSUME IInv, WriteRequest PROVE IInv'
  OBVIOUS
<1> DEFINE r == Append(requests, loop)
<1>0. /\ TypeOK /\ StoreOK /\ QueueStands /\ instance \in Instances
      /\ loop # None /\ Len(requests) < Room /\ requests' = r /\ loop' = None
      /\ UNCHANGED <<instance, asking, pending, inbox, replies, service, serving, reader,
                     attached, permits, restarts, deaths, store>>
  BY DEF IInv, WriteRequest
<1>1. requests \in Seq(Tabs) /\ loop \in Tabs
  BY <1>0 DEF TypeOK
<1>2. r \in Seq(Tabs) /\ Len(r) = Len(requests) + 1 /\ Len(requests) \in Nat
  BY <1>1, Appended
<1> HIDE DEF r
<1>3. UNCHANGED <<quota, disk>>
  BY <1>0 DEF store
<1>4. TypeOK'
  BY <1>0, <1>2, <1>3, ServicesAssumption DEF TypeOK
<1> QED BY <1>0, <1>4, SameStore, QueueUntouched DEF IInv

(* The write fails with the service: the request's renderer gets an error. *)
LEMMA WriteFails_IInv == IInv /\ WriteFails => IInv'
<1> SUFFICES ASSUME IInv, WriteFails PROVE IInv'
  OBVIOUS
<1>0. /\ TypeOK /\ StoreOK /\ QueueStands /\ instance \in Instances
      /\ loop # None /\ loop' = None
      /\ pending' = pending \ {loop} /\ asking' = asking \ {loop}
      /\ UNCHANGED <<instance, inbox, link, restarts, deaths, store>>
  BY DEF IInv, WriteFails
<1>1. UNCHANGED <<requests, replies, service, serving, reader, attached, permits, quota, disk>>
  BY <1>0 DEF link, store
<1>2. TypeOK'
  BY <1>0, <1>1 DEF TypeOK
<1>3. AsksStand'
  <2>1. loop \in pending /\ AsksOf(inbox, asking \ pending)
    BY <1>0 DEF QueueStands, AsksStand
  <2>2. asking \ pending = asking' \ pending'
    BY <1>0, <2>1
  <2> QED BY <1>0, <2>1, <2>2 DEF AsksStand
<1>4. PermitsStand' /\ GoneIsLast'
  BY <1>0, <1>1 DEF QueueStands, PermitsStand, GoneIsLast
<1> QED BY <1>0, <1>2, <1>3, <1>4, SameStore DEF IInv, QueueStands

LEMMA RestartAges_IInv == IInv /\ RestartAges => IInv'
<1> SUFFICES ASSUME IInv, RestartAges PROVE IInv'
  OBVIOUS
<1>0. /\ TypeOK /\ StoreOK /\ QueueStands /\ instance \in Instances
      /\ restarts > 0 /\ restarts' = restarts - 1
      /\ UNCHANGED <<instance, asking, pending, inbox, loop, link, deaths, store>>
  BY DEF IInv, RestartAges
<1>1. UNCHANGED <<requests, replies, service, serving, reader, attached, permits, quota, disk>>
  BY <1>0 DEF link, store
<1>2. restarts' \in 0 .. MAX_SERVICE_RESTARTS
  BY <1>0, ServicesAssumption DEF TypeOK
<1>3. TypeOK'
  BY <1>0, <1>1, <1>2 DEF TypeOK
<1> QED BY <1>0, <1>1, <1>3, SameStore, QueueUntouched DEF IInv

-----------------------------------------------------------------------------
(* The reader thread.                                                      *)

LEMMA Recv_IInv == IInv /\ Recv => IInv'
<1> SUFFICES ASSUME IInv, Recv PROVE IInv'
  OBVIOUS
<1>0. /\ TypeOK /\ StoreOK /\ QueueStands /\ instance \in Instances
      /\ attached /\ reader = None /\ replies # <<>>
      /\ reader' = Head(replies) /\ replies' = Tail(replies)
      /\ UNCHANGED <<instance, asking, pending, inbox, loop, requests, service, serving,
                     attached, permits, restarts, deaths, store>>
  BY DEF IInv, Recv
<1>1. /\ Head(replies) \in Tabs /\ Tail(replies) \in Seq(Tabs)
      /\ Len(Tail(replies)) <= Room
  <2>1. /\ replies \in Seq(Tabs) /\ Len(replies) <= Room
    BY <1>0 DEF TypeOK
  <2>2. /\ Head(replies) \in Tabs /\ Tail(replies) \in Seq(Tabs)
        /\ Len(replies) \in Nat \ {0} /\ Len(Tail(replies)) = Len(replies) - 1
    BY <1>0, <2>1, HeadTaken
  <2> QED BY <2>1, <2>2, ServicesAssumption
<1>2. UNCHANGED <<quota, disk>>
  BY <1>0 DEF store
<1>3. TypeOK'
  BY <1>0, <1>1, <1>2 DEF TypeOK
<1> QED BY <1>0, <1>3, SameStore, QueueUntouched DEF IInv

LEMMA Forward_IInv == IInv /\ Forward => IInv'
<1> SUFFICES ASSUME IInv, Forward PROVE IInv'
  OBVIOUS
<1> DEFINE m == Reply(reader)
           b == Append(inbox, m)
<1>0. /\ TypeOK /\ StoreOK /\ QueueStands /\ instance \in Instances
      /\ reader # None /\ permits > 0 /\ permits' = permits - 1
      /\ inbox' = b /\ reader' = None
      /\ UNCHANGED <<instance, asking, pending, loop, requests, replies, service, serving,
                     attached, restarts, deaths, store>>
  BY DEF IInv, Forward
<1>1. /\ inbox \in Seq(Message \cup {Gone}) /\ reader \in Tabs /\ permits \in Nat
      /\ permits <= MAX_QUEUED_PER_SOURCE
  BY <1>0, ServicesAssumption DEF TypeOK
<1>2. m \in Message \cup {Gone} /\ m.kind = "reply"
  BY <1>1, Sent
<1> HIDE DEF m
<1>3. /\ b \in Seq(Message \cup {Gone}) /\ Count(b, "reply") = Count(inbox, "reply") + 1
      /\ Count(inbox, "reply") \in Nat
  BY <1>1, <1>2, Appended, AppendCounts, CountType
<1>4. AsksOf(b, asking \ pending)
  BY <1>0, <1>1, <1>2, AsksAppend DEF QueueStands, AsksStand
<1>5. At(inbox, "gone") = {}
  BY <1>0 DEF QueueStands, GoneIsLast
<1>6. GoneLast(b) /\ At(b, "gone") = {}
  BY <1>0, <1>1, <1>2, <1>5, GoneAppend DEF QueueStands, GoneIsLast
<1> HIDE DEF b
<1>7. permits - 1 \in 0 .. MAX_QUEUED_PER_SOURCE
  BY <1>0, <1>1, ServicesAssumption
<1>8. UNCHANGED <<quota, disk>>
  BY <1>0 DEF store
<1>9. TypeOK'
  BY <1>0, <1>3, <1>7, <1>8 DEF TypeOK
<1>10. AsksStand'
  BY <1>0, <1>4 DEF QueueStands, AsksStand
<1>11. PermitsStand'
  BY <1>0, <1>1, <1>3 DEF QueueStands, PermitsStand
<1>12. GoneIsLast'
  BY <1>0, <1>6 DEF GoneIsLast
<1> QED BY <1>0, <1>9, <1>10, <1>11, <1>12, SameStore DEF IInv, QueueStands

LEMMA ReportDeath_IInv == IInv /\ ReportDeath => IInv'
<1> SUFFICES ASSUME IInv, ReportDeath PROVE IInv'
  OBVIOUS
<1> DEFINE b == Append(inbox, Gone)
<1>0. /\ TypeOK /\ StoreOK /\ QueueStands /\ instance \in Instances
      /\ attached /\ reader = None /\ attached' = FALSE /\ inbox' = b
      /\ UNCHANGED <<instance, asking, pending, loop, requests, replies, service, serving,
                     reader, permits, restarts, deaths, store>>
  BY DEF IInv, ReportDeath
<1>1. /\ inbox \in Seq(Message \cup {Gone})
      /\ Gone \in Message \cup {Gone} /\ Gone.kind = "gone"
  BY <1>0, Sent DEF TypeOK
<1>2. /\ b \in Seq(Message \cup {Gone}) /\ Count(b, "reply") = Count(inbox, "reply") + 0
      /\ Count(inbox, "reply") \in Nat
  BY <1>1, Appended, AppendCounts, CountType
<1>3. AsksOf(b, asking \ pending)
  BY <1>0, <1>1, AsksAppend DEF QueueStands, AsksStand
<1>4. At(inbox, "gone") = {}
  BY <1>0 DEF QueueStands, GoneIsLast
<1>5. GoneLast(b)
  BY <1>0, <1>1, <1>4, GoneAppend DEF QueueStands, GoneIsLast
<1> HIDE DEF b
<1>6. UNCHANGED <<quota, disk>>
  BY <1>0 DEF store
<1>7. TypeOK'
  BY <1>0, <1>2, <1>6 DEF TypeOK
<1>8. AsksStand'
  BY <1>0, <1>3 DEF QueueStands, AsksStand
<1>9. PermitsStand' /\ GoneIsLast'
  BY <1>0, <1>2, <1>5 DEF QueueStands, PermitsStand, GoneIsLast
<1> QED BY <1>0, <1>7, <1>8, <1>9, SameStore DEF IInv, QueueStands

-----------------------------------------------------------------------------
(* The service.                                                            *)

LEMMA Serve_IInv == IInv /\ Serve => IInv'
<1> SUFFICES ASSUME IInv, Serve PROVE IInv'
  OBVIOUS
<1>0. /\ TypeOK /\ StoreOK /\ QueueStands /\ instance \in Instances
      /\ requests # <<>> /\ serving' = Head(requests) /\ requests' = Tail(requests)
      /\ UNCHANGED <<instance, asking, pending, inbox, loop, replies, service, reader,
                     attached, permits, restarts, deaths>>
  BY DEF IInv, Serve
<1>1. PICK operation \in instance.operations : Handle(operation)
  BY DEF Serve
<1>2. StoreOK'
  BY <1>0, <1>1, HandleKeepsStore
<1>3. /\ Head(requests) \in Tabs /\ Tail(requests) \in Seq(Tabs)
      /\ Len(Tail(requests)) <= Room
  <2>1. /\ requests \in Seq(Tabs) /\ Len(requests) <= Room
    BY <1>0 DEF TypeOK
  <2>2. /\ Head(requests) \in Tabs /\ Tail(requests) \in Seq(Tabs)
        /\ Len(requests) \in Nat \ {0} /\ Len(Tail(requests)) = Len(requests) - 1
    BY <1>0, <2>1, HeadTaken
  <2> QED BY <2>1, <2>2, ServicesAssumption
<1>4. TypeOK'
  BY <1>0, <1>2, <1>3 DEF TypeOK, StoreOK
<1> QED BY <1>0, <1>2, <1>4, QueueUntouched DEF IInv

LEMMA SendReply_IInv == IInv /\ SendReply => IInv'
<1> SUFFICES ASSUME IInv, SendReply PROVE IInv'
  OBVIOUS
<1> DEFINE r == Append(replies, serving)
<1>0. /\ TypeOK /\ StoreOK /\ QueueStands /\ instance \in Instances
      /\ serving # None /\ Len(replies) < Room /\ replies' = r /\ serving' = None
      /\ UNCHANGED <<instance, asking, pending, inbox, loop, requests, service, reader,
                     attached, permits, restarts, deaths, store>>
  BY DEF IInv, SendReply
<1>1. replies \in Seq(Tabs) /\ serving \in Tabs
  BY <1>0 DEF TypeOK
<1>2. r \in Seq(Tabs) /\ Len(r) = Len(replies) + 1 /\ Len(replies) \in Nat
  BY <1>1, Appended
<1> HIDE DEF r
<1>3. UNCHANGED <<quota, disk>>
  BY <1>0 DEF store
<1>4. TypeOK'
  BY <1>0, <1>2, <1>3, ServicesAssumption DEF TypeOK
<1> QED BY <1>0, <1>4, SameStore, QueueUntouched DEF IInv

LEMMA Dies_IInv == IInv /\ Dies => IInv'
<1> SUFFICES ASSUME IInv, Dies PROVE IInv'
  OBVIOUS
<1>0. /\ TypeOK /\ StoreOK /\ QueueStands /\ instance \in Instances
      /\ service' = "dead" /\ serving' = None /\ requests' = <<>>
      /\ UNCHANGED <<instance, asking, pending, inbox, loop, replies, reader, attached,
                     permits, restarts, store>>
  BY DEF IInv, Dies
<1>1. UNCHANGED <<quota, disk>>
  BY <1>0 DEF store
<1>2. \A S : <<>> \in Seq(S) /\ Len(<<>>) = 0
  BY EmptySeq
<1>3. TypeOK'
  BY <1>0, <1>1, <1>2, ServicesAssumption DEF TypeOK
<1> QED BY <1>0, <1>3, SameStore, QueueUntouched DEF IInv

-----------------------------------------------------------------------------
(* The invariant holds of every behaviour.                                 *)

LEMMA Stutter_IInv == IInv /\ UNCHANGED vars => IInv'
<1> SUFFICES ASSUME IInv, UNCHANGED vars PROVE IInv'
  OBVIOUS
<1>1. /\ TypeOK /\ StoreOK /\ QueueStands /\ instance \in Instances
      /\ UNCHANGED <<instance, asking, pending, inbox, loop, restarts>>
      /\ UNCHANGED <<requests, replies, service, serving, reader, attached, permits>>
      /\ UNCHANGED store /\ UNCHANGED <<quota, disk>>
  BY DEF IInv, vars, link, store
<1>2. TypeOK'
  BY <1>1 DEF TypeOK
<1> QED BY <1>1, <1>2, SameStore, QueueUntouched DEF IInv

LEMMA Next_IInv == IInv /\ [Next]_vars => IInv'
<1> SUFFICES ASSUME IInv, [Next]_vars PROVE IInv'
  OBVIOUS
<1>1. ASSUME NEW t \in Tabs, NeedStorage(t) PROVE IInv'
  BY <1>1, NeedStorage_IInv
<1>2. CASE Loop
  BY <1>2, TabRequest_IInv, WriteRequest_IInv, WriteFails_IInv, StorageReply_IInv,
     RespawnService_IInv DEF Loop
<1>3. CASE Reader \/ Service
  BY <1>3, Recv_IInv, Forward_IInv, ReportDeath_IInv, Serve_IInv, SendReply_IInv
     DEF Reader, Service
<1>4. CASE RestartAges \/ Dies
  BY <1>4, RestartAges_IInv, Dies_IInv
<1> QED BY <1>1, <1>2, <1>3, <1>4, Stutter_IInv DEF Next

(* Services.QuotaIsTrue, for any tabs, slots, sizes and buffers: whatever  *)
(* is set, replaced, refused or half written, and however often the        *)
(* service dies, what the storage service counts (Quota in storage.rs) is  *)
(* the sum of what its slots were last set to and within the store's size; *)
(* the loop owes answers only to renderers that wait (engine.rs), and no   *)
(* permit of the link's gate is lost or made up.                           *)
THEOREM BudgetIsTrue == Spec => []QuotaIsTrue
<1>1. IInv => QuotaIsTrue
  BY DEF IInv, StoreOK, QuotaIsTrue
<1>2. Spec => []IInv
  BY Init_IInv, Next_IInv, PTL DEF Spec
<1> QED BY <1>1, <1>2, PTL
=============================================================================
