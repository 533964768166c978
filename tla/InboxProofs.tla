---------------------------- MODULE InboxProofs -----------------------------
(* Proofs about module Inbox, for every set of sources and all bounds.     *)
EXTENDS Inbox, FiniteSetTheorems, SequenceTheorems, TLAPS

-----------------------------------------------------------------------------
(* The queue and the positions in it.                                      *)

LEMMA Appended ==
  ASSUME NEW S, NEW q \in Seq(S), NEW x \in S
  PROVE  /\ Append(q, x) \in Seq(S)
         /\ DOMAIN Append(q, x) = DOMAIN q \cup {Len(q) + 1}
         /\ \A i \in DOMAIN q : i \in Nat /\ i < Len(q) + 1 /\ Append(q, x)[i] = q[i]
         /\ Append(q, x)[Len(q) + 1] = x /\ Len(q) + 1 \in Nat
<1>1. DOMAIN q = 1 .. Len(q) /\ Len(q) \in Nat
  BY LenProperties
<1>2. /\ Append(q, x) \in Seq(S)
      /\ Len(Append(q, x)) = Len(q) + 1
      /\ \A i \in 1 .. Len(q) : Append(q, x)[i] = q[i]
      /\ Append(q, x)[Len(q) + 1] = x
  BY AppendProperties
<1>3. DOMAIN Append(q, x) = 1 .. Len(q) + 1
  BY <1>2, LenProperties
<1> QED BY <1>1, <1>2, <1>3

LEMMA HeadTaken ==
  ASSUME NEW S, NEW q \in Seq(S), q # <<>>
  PROVE  /\ Tail(q) \in Seq(S)
         /\ 1 \in DOMAIN q /\ Head(q) = q[1] /\ Head(q) \in S
         /\ DOMAIN q \subseteq Nat \ {0} /\ DOMAIN Tail(q) \subseteq Nat \ {0}
         /\ \A i \in Nat \ {0} : i \in DOMAIN Tail(q) <=> i + 1 \in DOMAIN q
         /\ \A i \in DOMAIN Tail(q) : Tail(q)[i] = q[i + 1]
<1>1. DOMAIN q = 1 .. Len(q) /\ Len(q) \in Nat /\ Len(q) # 0
  BY LenProperties, EmptySeq
<1>2. /\ Head(q) \in S /\ Tail(q) \in Seq(S)
      /\ Len(Tail(q)) = Len(q) - 1
      /\ \A i \in 1 .. Len(Tail(q)) : Tail(q)[i] = q[i + 1]
  BY HeadTailProperties
<1>3. DOMAIN Tail(q) = 1 .. Len(q) - 1
  BY <1>2, LenProperties
<1>4. Head(q) = q[1]
  OBVIOUS
<1>5. \A i \in Nat \ {0} : i \in DOMAIN Tail(q) <=> i + 1 \in DOMAIN q
  BY <1>1, <1>3
<1> QED BY <1>1, <1>2, <1>3, <1>4, <1>5

(* A set of positions and the same set one place further.                  *)
LEMMA ShiftedCardinality ==
  ASSUME NEW A \in SUBSET Nat, NEW B \in SUBSET Nat, IsFiniteSet(B), 0 \notin B,
         \A i \in Nat : i \in A <=> i + 1 \in B
  PROVE  Cardinality(A) = Cardinality(B)
<1> DEFINE back == [i \in B |-> i - 1]
<1>1. back \in [B -> A]
  <2>1. ASSUME NEW i \in B PROVE i - 1 \in A
    <3>1. i - 1 \in Nat /\ (i - 1) + 1 = i
      BY <2>1
    <3> QED BY <3>1
  <2> QED BY <2>1
<1>2. \A i, j \in B : back[i] = back[j] => i = j
  OBVIOUS
<1>3. \A i \in A : \E j \in B : back[j] = i
  <2>1. ASSUME NEW i \in A PROVE i + 1 \in B /\ back[i + 1] = i
    <3>1. i + 1 \in B
      BY <2>1
    <3> QED BY <3>1
  <2> QED BY <2>1
<1>4. back \in Bijection(B, A)
  BY <1>1, <1>2, <1>3 DEF Bijection, Injection, Surjection, IsInjective
<1>5. ExistsBijection(B, A)
  BY <1>4 DEF ExistsBijection
<1> QED BY <1>5, FS_Bijection

LEMMA QueuedFinite ==
  ASSUME inbox \in Seq(Message), NEW l, NEW what
  PROVE  /\ IsFiniteSet(Queued(l, what)) /\ Cardinality(Queued(l, what)) \in Nat
         /\ Queued(l, what) \subseteq Nat \ {0}
<1>1. DOMAIN inbox = 1 .. Len(inbox) /\ Len(inbox) \in Nat
  BY LenProperties
<1>2. IsFiniteSet(DOMAIN inbox)
  BY <1>1, FS_Interval
<1>3. Queued(l, what) \in SUBSET (DOMAIN inbox)
  BY DEF Queued
<1>4. IsFiniteSet(Queued(l, what))
  BY <1>2, <1>3, FS_Subset
<1> QED BY <1>1, <1>3, <1>4, FS_CardinalityType

LEMMA AppendCounts ==
  ASSUME inbox \in Seq(Message), NEW m \in Message, inbox' = Append(inbox, m), NEW l
  PROVE  Cardinality(Queued(l, "message")') =
           Cardinality(Queued(l, "message"))
             + (IF m.what = "message" /\ m.of = l THEN 1 ELSE 0)
<1>1. /\ DOMAIN inbox' = DOMAIN inbox \cup {Len(inbox) + 1}
      /\ \A i \in DOMAIN inbox : i < Len(inbox) + 1 /\ inbox'[i] = inbox[i]
      /\ inbox'[Len(inbox) + 1] = m
      /\ DOMAIN inbox \subseteq Nat /\ Len(inbox) + 1 \in Nat
  BY Appended
<1>2. Len(inbox) + 1 \notin Queued(l, "message")
  BY <1>1 DEF Queued
<1>3. /\ IsFiniteSet(Queued(l, "message"))
      /\ Cardinality(Queued(l, "message")) \in Nat
  BY QueuedFinite
<1>4. CASE m.what = "message" /\ m.of = l
  <2>1. Queued(l, "message")' = Queued(l, "message") \cup {Len(inbox) + 1}
    BY <1>1, <1>4 DEF Queued
  <2> QED BY <1>2, <1>3, <1>4, <2>1, FS_AddElement
<1>5. CASE ~(m.what = "message" /\ m.of = l)
  <2>1. Queued(l, "message")' = Queued(l, "message")
    BY <1>1, <1>5 DEF Queued
  <2> QED BY <1>3, <1>5, <2>1
<1> QED BY <1>4, <1>5

LEMMA TailCounts ==
  ASSUME inbox \in Seq(Message), inbox # <<>>, inbox' = Tail(inbox), NEW l
  PROVE  /\ Cardinality(Queued(l, "message")) =
              Cardinality(Queued(l, "message")')
                + (IF Head(inbox).what = "message" /\ Head(inbox).of = l THEN 1 ELSE 0)
         /\ Cardinality(Queued(l, "message")') \in Nat
<1> DEFINE B == Queued(l, "message") \ {1}
<1>1. /\ inbox' \in Seq(Message) /\ 1 \in DOMAIN inbox /\ Head(inbox) = inbox[1]
      /\ DOMAIN inbox \subseteq Nat \ {0} /\ DOMAIN inbox' \subseteq Nat \ {0}
      /\ \A i \in Nat \ {0} : i \in DOMAIN inbox' <=> i + 1 \in DOMAIN inbox
      /\ \A i \in DOMAIN inbox' : inbox'[i] = inbox[i + 1]
  BY HeadTaken
<1>2. \A i \in Nat : i \in Queued(l, "message")' <=> i + 1 \in B
  <2>1. ASSUME NEW i \in Nat \ {0}
        PROVE  i \in Queued(l, "message")' <=> i + 1 \in B
    <3>1. i + 1 # 1
      OBVIOUS
    <3> QED BY <1>1, <3>1 DEF Queued
  <2>2. 0 \notin Queued(l, "message")' /\ 0 + 1 \notin B
    BY <1>1 DEF Queued
  <2> QED BY <2>1, <2>2
<1>3. /\ IsFiniteSet(Queued(l, "message")) /\ Cardinality(Queued(l, "message")) \in Nat
      /\ Queued(l, "message") \subseteq Nat \ {0}
  BY QueuedFinite
<1>4. /\ IsFiniteSet(B)
      /\ Cardinality(B) = IF 1 \in Queued(l, "message")
                          THEN Cardinality(Queued(l, "message")) - 1
                          ELSE Cardinality(Queued(l, "message"))
  BY <1>3, FS_RemoveElement
<1>5. Queued(l, "message")' \subseteq Nat
  BY <1>1 DEF Queued
<1>6. Cardinality(Queued(l, "message")') = Cardinality(B)
  <2> HIDE DEF B
  <2>1. B \in SUBSET Nat /\ 0 \notin B
    BY <1>3 DEF B
  <2> QED BY <1>2, <1>4, <1>5, <2>1, ShiftedCardinality
<1>7. 1 \in Queued(l, "message") <=> Head(inbox).what = "message" /\ Head(inbox).of = l
  BY <1>1 DEF Queued
<1>8. Cardinality(B) \in Nat
  BY <1>4, FS_CardinalityType
<1> QED BY <1>3, <1>4, <1>6, <1>7, <1>8

-----------------------------------------------------------------------------
(* The inductive invariant.                                                *)

(* The sources whose messages do not carry their gate.                     *)
Component == Services \cup Net

(* The positions of what reader threads pushed.                            *)
FromReader == {i \in DOMAIN inbox : inbox[i].what \in {"message", "gone"}}

(* Nothing is known of a link before it is spawned: its gate is full.      *)
Unspawned ==
  \A l \in Link : l[2] >= made[l[1]] =>
    /\ reader[l] = "none" /\ permits[l] = MAX_QUEUED_PER_SOURCE
    /\ \A i \in FromReader : inbox[i].of # l

(* Whatever a component has in the queue or a thread for is of the         *)
(* generation the loop holds: an older one has left nothing behind.        *)
ComponentsCurrent ==
  /\ \A i \in FromReader :
       inbox[i].of[1] \in Component => current[inbox[i].of[1]] = inbox[i].of[2]
  /\ \A l \in Link :
       l[1] \in Component /\ reader[l] \notin {"none", "done"} => current[l[1]] = l[2]

(* The report of a death is the last thing its thread does.                *)
GoneIsLast ==
  \A i \in FromReader : inbox[i].what = "gone" =>
    /\ reader[inbox[i].of] = "done"
    /\ \A j \in FromReader : j > i => inbox[j].of # inbox[i].of

InHand(l) == IF reader[l] = "push" THEN 1 ELSE 0

Conserved ==
  \A l \in Link :
    permits[l] + Cardinality(Queued(l, "message")) + InHand(l) = MAX_QUEUED_PER_SOURCE

Orderly == Unspawned /\ ComponentsCurrent /\ GoneIsLast /\ Conserved

IInv == TypeOK /\ (running => Orderly)

LEMMA PushedLinks ==
  ASSUME inbox \in Seq(Message)
  PROVE  \A i \in FromReader : i \in Nat /\ i \in DOMAIN inbox /\ inbox[i].of \in Link
<1> TAKE i \in FromReader
<1>1. i \in DOMAIN inbox /\ inbox[i].what \in {"message", "gone"}
  BY DEF FromReader
<1>2. i \in Nat /\ inbox[i] \in Message
  BY <1>1, LenProperties
<1>3. inbox[i] \notin Command
  BY <1>1 DEF Command
<1>4. inbox[i] \in [what : {"message", "gone"}, of : Link]
  BY <1>2, <1>3 DEF Message
<1> QED BY <1>1, <1>2, <1>4

LEMMA Init_IInv == Init => IInv
<1> SUFFICES ASSUME Init PROVE IInv
  OBVIOUS
<1>1. TypeOK
  BY InboxAssumption DEF Init, TypeOK, Generation, Source, Link, ReaderState, Message
<1>2. FromReader = {} /\ \A l, what : Queued(l, what) = {}
  BY DEF Init, FromReader, Queued
<1>3. Unspawned
  <2>1. ASSUME NEW l \in Link, l[2] >= made[l[1]]
        PROVE  reader[l] = "none" /\ permits[l] = MAX_QUEUED_PER_SOURCE
    <3>1. l[1] \in Source /\ l[2] \in Nat
      BY DEF Link, Generation
    <3>2. current[l[1]] # l[2]
      BY <2>1, <3>1, InboxAssumption DEF Init
    <3> QED BY <3>2 DEF Init
  <2> QED BY <1>2, <2>1 DEF Unspawned
<1>4. ComponentsCurrent
  BY <1>2 DEF Init, ComponentsCurrent
<1>5. GoneIsLast
  BY <1>2 DEF GoneIsLast
<1>6. Conserved
  <2>1. \A l \in Link : InHand(l) = 0 /\ permits[l] = MAX_QUEUED_PER_SOURCE
    BY DEF Init, InHand
  <2>2. \A l : Cardinality(Queued(l, "message")) = 0
    BY <1>2, FS_EmptySet
  <2> QED BY <2>1, <2>2, InboxAssumption DEF Conserved
<1> QED BY <1>1, <1>3, <1>4, <1>5, <1>6 DEF IInv, Orderly

-----------------------------------------------------------------------------
(* The readers, their peers and the embedder.                              *)

(* What is queued is not touched.                                          *)
LEMMA SameQueue ==
  ASSUME UNCHANGED inbox
  PROVE  FromReader' = FromReader /\ \A l, what : Queued(l, what)' = Queued(l, what)
BY DEF FromReader, Queued

LEMMA SourceOfLink ==
  ASSUME NEW l \in Link
  PROVE  l[1] \in Source /\ l[2] \in Generation /\ l = <<l[1], l[2]>>
BY DEF Link

(* A spawned thread moves without touching the queue; a permit it takes    *)
(* is in its hand.                                                         *)
LEMMA ReaderMoves ==
  ASSUME IInv, NEW l \in Link, reader[l] \notin {"none", "done"},
         NEW state \in ReaderState \ {"none"}, Goto(l, state),
         UNCHANGED <<running, current, made, inbox>>,
         permits' \in [Link -> 0 .. MAX_QUEUED_PER_SOURCE],
         \A k \in Link : permits'[k] + InHand(k)' = permits[k] + InHand(k)
  PROVE  running => Orderly'
<1> SUFFICES ASSUME running PROVE Orderly'
  OBVIOUS
<1>0. TypeOK /\ Orderly
  BY DEF IInv
<1>1. /\ \A k \in Link : k # l => reader'[k] = reader[k]
      /\ reader'[l] = state
  BY <1>0 DEF Goto, TypeOK
<1>2. /\ FromReader' = FromReader
      /\ \A k : Queued(k, "message")' = Queued(k, "message")
  BY SameQueue
<1>3. Unspawned'
  <2>1. ASSUME NEW k \in Link, k[2] >= made[k[1]]
        PROVE  /\ reader'[k] = "none" /\ permits'[k] = MAX_QUEUED_PER_SOURCE
               /\ \A i \in FromReader : inbox[i].of # k
    <3>1. reader[k] = "none" /\ permits[k] = MAX_QUEUED_PER_SOURCE
      BY <1>0, <2>1 DEF Orderly, Unspawned
    <3>2. k # l /\ reader'[k] = reader[k] /\ InHand(k)' = InHand(k)
      BY <1>1, <3>1 DEF InHand
    <3>3. permits'[k] \in Nat /\ InHand(k) \in Nat
      BY InboxAssumption DEF InHand
    <3> QED BY <1>0, <2>1, <3>1, <3>2, <3>3, InboxAssumption DEF Orderly, Unspawned
  <2> QED BY <1>2, <2>1 DEF Unspawned
<1>4. ComponentsCurrent'
  BY <1>0, <1>1, <1>2 DEF Orderly, ComponentsCurrent
<1>5. GoneIsLast'
  <2>1. \A i \in FromReader : inbox[i].of \in Link
    BY <1>0, PushedLinks DEF TypeOK
  <2>2. \A i \in FromReader : inbox[i].what = "gone" => inbox[i].of # l
    BY <1>0 DEF Orderly, GoneIsLast
  <2>3. \A i \in FromReader : inbox[i].what = "gone" => reader'[inbox[i].of] = "done"
    BY <1>0, <1>1, <2>1, <2>2 DEF Orderly, GoneIsLast
  <2> QED BY <1>0, <1>2, <2>3 DEF Orderly, GoneIsLast
<1>6. Conserved'
  <2>1. ASSUME NEW k \in Link
        PROVE  permits'[k] + Cardinality(Queued(k, "message")) + InHand(k)'
                 = MAX_QUEUED_PER_SOURCE
    <3>1. /\ permits[k] \in Nat /\ permits'[k] \in Nat
          /\ Cardinality(Queued(k, "message")) \in Nat
          /\ InHand(k) \in Nat /\ InHand(k)' \in Nat
      BY <1>0, QueuedFinite, InboxAssumption DEF TypeOK, InHand
    <3> QED BY <1>0, <3>1 DEF Orderly, Conserved
  <2> QED BY <1>2, <2>1 DEF Conserved
<1> QED BY <1>3, <1>4, <1>5, <1>6 DEF Orderly

(* A thread appends what it has to say, and moves on.                      *)
LEMMA ReaderPushes ==
  ASSUME IInv, running, NEW l \in Link, NEW what \in {"message", "gone"},
         inbox' = Append(inbox, [what |-> what, of |-> l]),
         reader[l] = IF what = "message" THEN "push" ELSE "report",
         Goto(l, IF what = "message" THEN "recv" ELSE "done"),
         UNCHANGED <<running, current, made, permits>>
  PROVE  Orderly'
<1> DEFINE m == [what |-> what, of |-> l]
<1>0. TypeOK /\ Orderly /\ m \in Message
  BY DEF IInv, Message
<1>1. /\ \A k \in Link : k # l => reader'[k] = reader[k]
      /\ reader'[l] = IF what = "message" THEN "recv" ELSE "done"
  BY <1>0 DEF Goto, TypeOK
<1> DEFINE n == Len(inbox) + 1
<1>2. /\ DOMAIN inbox' = DOMAIN inbox \cup {n}
      /\ \A i \in DOMAIN inbox : i \in Nat /\ i < n /\ inbox'[i] = inbox[i]
      /\ inbox'[n] = m /\ n \in Nat
  BY <1>0, Appended DEF TypeOK
<1>3. /\ FromReader' = FromReader \cup {n}
      /\ \A i \in FromReader : i \in Nat /\ i < n /\ inbox'[i] = inbox[i]
      /\ m.what = what /\ m.of = l
  BY <1>2 DEF FromReader
<1> HIDE DEF n, m
<1>4. Unspawned'
  <2>1. l[2] < made[l[1]]
    <3>1. l[2] \in Nat /\ made[l[1]] \in Nat
      BY <1>0, SourceOfLink DEF TypeOK, Generation
    <3>2. ~(l[2] >= made[l[1]])
      BY <1>0 DEF Orderly, Unspawned
    <3> QED BY <3>1, <3>2
  <2>2. ASSUME NEW k \in Link, k[2] >= made[k[1]]
        PROVE  /\ reader'[k] = "none" /\ permits[k] = MAX_QUEUED_PER_SOURCE
               /\ \A i \in FromReader' : inbox'[i].of # k
    <3>1. k # l
      <4>1. l[2] \in Nat /\ made[l[1]] \in Nat
        BY <1>0, SourceOfLink DEF TypeOK, Generation
      <4> QED BY <2>1, <2>2, <4>1
    <3> QED BY <1>0, <1>1, <1>2, <1>3, <2>2, <3>1, ZenonT(30) DEF Orderly, Unspawned
  <2> QED BY <2>2 DEF Unspawned
<1>5. ComponentsCurrent'
  <2>1. l[1] \in Component => current[l[1]] = l[2]
    BY <1>0 DEF Orderly, ComponentsCurrent
  <2>2. ASSUME NEW i \in FromReader', inbox'[i].of[1] \in Component
        PROVE  current[inbox'[i].of[1]] = inbox'[i].of[2]
    BY <1>0, <1>2, <1>3, <2>1, <2>2 DEF Orderly, ComponentsCurrent
  <2>3. ASSUME NEW k \in Link, k[1] \in Component, reader'[k] \notin {"none", "done"}
        PROVE  current[k[1]] = k[2]
    BY <1>0, <1>1, <2>1, <2>3 DEF Orderly, ComponentsCurrent
  <2> QED BY <2>2, <2>3 DEF ComponentsCurrent
<1>6. GoneIsLast'
  <2>1. \A i \in FromReader : inbox[i].what = "gone" => inbox[i].of # l
    BY <1>0 DEF Orderly, GoneIsLast
  <2>2. ASSUME NEW i \in FromReader', inbox'[i].what = "gone"
        PROVE  /\ reader'[inbox'[i].of] = "done"
               /\ \A j \in FromReader' : j > i => inbox'[j].of # inbox'[i].of
    <3>1. CASE i = n
      <4>1. inbox'[i].of = l /\ what = "gone"
        BY <1>2, <1>3, <2>2, <3>1
      <4>2. \A j \in FromReader' : ~(j > i)
        BY <1>2, <1>3, <3>1
      <4> QED BY <1>1, <4>1, <4>2
    <3>2. CASE i \in FromReader
      <4>1. inbox'[i] = inbox[i] /\ inbox[i].of # l /\ inbox[i].of \in Link
        <5>1. inbox'[i] = inbox[i]
          BY <1>3, <3>2
        <5>2. inbox[i].of \in Link
          BY <1>0, <3>2, PushedLinks DEF TypeOK
        <5> QED BY <2>1, <2>2, <3>2, <5>1, <5>2
      <4>2. reader'[inbox[i].of] = "done"
        BY <1>0, <1>1, <2>2, <3>2, <4>1 DEF Orderly, GoneIsLast
      <4>3. ASSUME NEW j \in FromReader', j > i PROVE inbox'[j].of # inbox[i].of
        <5>1. CASE j = n
          BY <1>2, <1>3, <4>1, <5>1
        <5>2. CASE j \in FromReader
          <6>1. inbox'[j] = inbox[j] /\ inbox[i].what = "gone"
            BY <1>3, <2>2, <4>1, <5>2
          <6>2. inbox[j].of # inbox[i].of
            BY <1>0, <3>2, <4>3, <5>2, <6>1 DEF Orderly, GoneIsLast
          <6> QED BY <6>1, <6>2
        <5> QED BY <1>3, <5>1, <5>2
      <4> QED BY <4>1, <4>2, <4>3
    <3> QED BY <1>3, <2>2, <3>1, <3>2
  <2> QED BY <2>2 DEF GoneIsLast
<1>7. Conserved'
  <2>1. ASSUME NEW k \in Link
        PROVE  permits[k] + Cardinality(Queued(k, "message")') + InHand(k)'
                 = MAX_QUEUED_PER_SOURCE
    <3> DEFINE one == IF what = "message" /\ l = k THEN 1 ELSE 0
    <3>0. one \in Nat
      OBVIOUS
    <3>1. Cardinality(Queued(k, "message")') = Cardinality(Queued(k, "message")) + one
      <4>1. Cardinality(Queued(k, "message")') =
              Cardinality(Queued(k, "message"))
                + (IF m.what = "message" /\ m.of = k THEN 1 ELSE 0)
        BY <1>0, AppendCounts DEF TypeOK, m
      <4> QED BY <1>3, <4>1
    <3>2. InHand(k) = InHand(k)' + one
      BY <1>1 DEF InHand
    <3> HIDE DEF one
    <3>3. /\ permits[k] \in Nat /\ Cardinality(Queued(k, "message")) \in Nat
          /\ InHand(k)' \in Nat
          /\ permits[k] + Cardinality(Queued(k, "message")) + InHand(k)
               = MAX_QUEUED_PER_SOURCE
      BY <1>0, QueuedFinite, InboxAssumption DEF TypeOK, InHand, Orderly, Conserved
    <3> QED BY <3>0, <3>1, <3>2, <3>3
  <2> QED BY <2>1 DEF Conserved
<1> QED BY <1>4, <1>5, <1>6, <1>7 DEF Orderly

LEMMA StoppedIsState == \A l : Stopped(l) \in ReaderState \ {"none"}
BY DEF Stopped, ReaderState

LEMMA Reader_IInv ==
  ASSUME IInv, NEW l \in Link, Reader(l)
  PROVE  IInv'
<1>0. TypeOK /\ permits \in [Link -> 0 .. MAX_QUEUED_PER_SOURCE]
  BY DEF IInv, TypeOK
<1>1. ASSUME NEW state \in ReaderState \ {"none"}, Goto(l, state),
             reader[l] \notin {"none", "done"}, state # "push", reader[l] # "push",
             UNCHANGED <<instance, running, current, made, gates, peer, inbox, restarts,
                         sent, mourned>>,
             backlog' \in [Link -> 0 .. SocketBound]
      PROVE  IInv'
  <2>1. TypeOK'
    BY <1>0, <1>1 DEF TypeOK, Goto, gates, Message, Command, Link, Source, Generation
  <2>2. \A k \in Link : permits'[k] + InHand(k)' = permits[k] + InHand(k)
    BY <1>0, <1>1 DEF TypeOK, Goto, gates, InHand
  <2>3. running' => Orderly'
    BY <1>0, <1>1, <2>2, ReaderMoves DEF gates
  <2> QED BY <2>1, <2>3 DEF IInv
<1>2. CASE Recv(l)
  <2>1. backlog' \in [Link -> 0 .. SocketBound]
    BY <1>0, <1>2, InboxAssumption DEF Recv, TypeOK
  <2>2. PICK state \in {"acquire", "eof"} : Goto(l, state)
    BY <1>2 DEF Recv
  <2> QED BY <1>1, <1>2, <2>1, <2>2 DEF Recv, ReaderState
<1>3. CASE Eof(l)
  BY <1>0, <1>1, <1>3 DEF Eof, ReaderState, TypeOK
<1>4. CASE Acquire(l)
  <2>1. CASE closed[l] /\ Goto(l, Stopped(l)) /\ UNCHANGED permits
    BY <1>0, <1>1, <1>4, <2>1, StoppedIsState DEF Acquire, TypeOK, gates, Stopped
  <2>2. CASE /\ permits[l] > 0 /\ permits' = [permits EXCEPT ![l] = @ - 1]
             /\ Goto(l, "push")
    <3>1. permits' \in [Link -> 0 .. MAX_QUEUED_PER_SOURCE]
      BY <1>0, <2>2, InboxAssumption
    <3>2. TypeOK'
      BY <1>0, <1>4, <2>2, <3>1 DEF Acquire, TypeOK, Goto, ReaderState, Message
    <3>3. \A k \in Link : permits'[k] + InHand(k)' = permits[k] + InHand(k)
      BY <1>0, <1>4, <2>2, InboxAssumption DEF Acquire, TypeOK, Goto, InHand
    <3>4. running' => Orderly'
      BY <1>4, <2>2, <3>1, <3>3, ReaderMoves DEF Acquire, ReaderState
    <3> QED BY <3>2, <3>4 DEF IInv
  <2> QED BY <1>4, <2>1, <2>2 DEF Acquire
<1>5. CASE Push(l)
  <2>1. CASE running
    <3>1. /\ inbox' = Append(inbox, [what |-> "message", of |-> l])
          /\ reader[l] = "push" /\ Goto(l, "recv")
      BY <1>5, <2>1 DEF Push
    <3>2. Orderly'
      BY <1>5, <2>1, <3>1, ReaderPushes DEF Push, gates
    <3>3. [what |-> "message", of |-> l] \in Message
      BY DEF Message
    <3>4. inbox' \in Seq(Message)
      BY <1>0, <3>1, <3>3, Appended DEF TypeOK
    <3>5. TypeOK'
      BY <1>0, <1>5, <3>1, <3>4 DEF Push, TypeOK, Goto, ReaderState, gates
    <3> QED BY <3>2, <3>5 DEF IInv
  <2>2. CASE ~running
    <3>1. TypeOK'
      BY <1>0, <1>5, <2>2, StoppedIsState DEF Push, TypeOK, Goto, gates
    <3> QED BY <1>5, <2>2, <3>1 DEF IInv, Push
  <2> QED BY <2>1, <2>2
<1>6. CASE CheckClosed(l)
  <2>1. PICK state \in {"done", "report"} : Goto(l, state)
    BY <1>6 DEF CheckClosed
  <2> QED BY <1>0, <1>1, <1>6, <2>1 DEF CheckClosed, ReaderState, TypeOK
<1>7. CASE Report(l)
  <2>1. CASE running
    <3>1. /\ inbox' = Append(inbox, [what |-> "gone", of |-> l])
          /\ reader[l] = "report" /\ Goto(l, "done")
      BY <1>7, <2>1 DEF Report
    <3>2. Orderly'
      BY <1>7, <2>1, <3>1, ReaderPushes DEF Report, gates
    <3>3. [what |-> "gone", of |-> l] \in Message
      BY DEF Message
    <3>4. inbox' \in Seq(Message)
      BY <1>0, <3>1, <3>3, Appended DEF TypeOK
    <3>5. TypeOK'
      BY <1>0, <1>7, <3>1, <3>4 DEF Report, TypeOK, Goto, ReaderState, gates
    <3> QED BY <3>2, <3>5 DEF IInv
  <2>2. CASE ~running
    <3>1. TypeOK'
      BY <1>0, <1>7, <2>2 DEF Report, TypeOK, Goto, ReaderState, gates
    <3> QED BY <1>7, <2>2, <3>1 DEF IInv, Report
  <2> QED BY <2>1, <2>2
<1> QED BY <1>2, <1>3, <1>4, <1>5, <1>6, <1>7 DEF Reader

-----------------------------------------------------------------------------
(* The loop.                                                               *)

LEMMA FreshLink ==
  ASSUME TypeOK, NEW s \in Source, made[s] < GenerationBound
  PROVE  Fresh(s) \in Link /\ Fresh(s)[1] = s /\ Fresh(s)[2] = made[s] /\ made[s] \in Generation
BY InboxAssumption DEF TypeOK, Fresh, Link, Generation

LEMMA RelinkTypes ==
  ASSUME TypeOK, NEW gone, NEW spawned, Relink(gone, spawned),
         \A s \in Source : s \in spawned => made[s] < GenerationBound
  PROVE  /\ current' \in [Source -> Generation \cup {None}]
         /\ made' \in [Source -> 0 .. GenerationBound]
         /\ reader' \in [Link -> ReaderState]
         /\ peer' \in [Link -> {"none", "alive", "gone"}]
<1>1. ASSUME NEW s \in Source, s \in spawned
      PROVE  made[s] \in Generation /\ made[s] + 1 \in 0 .. GenerationBound
  BY <1>1, InboxAssumption DEF TypeOK, Generation
<1>2. current' \in [Source -> Generation \cup {None}]
  BY <1>1 DEF Relink, TypeOK
<1>3. made' \in [Source -> 0 .. GenerationBound]
  BY <1>1 DEF Relink, TypeOK
<1>4. reader' \in [Link -> ReaderState]
  BY DEF Relink, TypeOK, ReaderState
<1>5. peer' \in [Link -> {"none", "alive", "gone"}]
  BY DEF Relink, TypeOK
<1> QED BY <1>2, <1>3, <1>4, <1>5

(* What the handling of the message m does, whatever it is: it replaces    *)
(* or drops links, but a component's only when m reports its death.        *)
Relinks(m) ==
  \E gone \in SUBSET Link, spawned \in SUBSET Source :
    /\ Relink(gone, spawned)
    /\ \A s \in spawned : made[s] < GenerationBound
    /\ running' => \A s \in Component :
         s \in spawned \/ (\E l \in gone : l[1] = s) => m.what = "gone" /\ m.of[1] = s

Effect(m) ==
  /\ Relinks(m)
  /\ running' \in BOOLEAN
  /\ closed' \in [Link -> BOOLEAN]
  /\ restarts' \in [Services -> 0 .. MAX_SERVICE_RESTARTS]
  /\ mourned' \in SUBSET Link
  /\ UNCHANGED <<instance, backlog, sent>>
  /\ permits' = IF m.what = "message"
                THEN [permits EXCEPT ![GateOf(m.of)] = @ + 1] ELSE permits

(* Tabs only, or nothing at all.                                           *)
LEMMA RelinksTabs ==
  ASSUME NEW m, NEW ts \in SUBSET TabIds, NEW us \in SUBSET TabIds,
         \A t \in us : made[t] < GenerationBound, Relink(Behind(ts), us)
  PROVE  Relinks(m)
<1>1. us \in SUBSET Source /\ \A s \in Component : s \notin us
  BY InboxAssumption DEF Source, Component
<1>2. /\ Behind(ts) \in SUBSET Link
      /\ \A l \in Behind(ts) : l[1] \notin Component
  BY InboxAssumption DEF Behind, CurrentLinks, Component
<1> QED BY <1>1, <1>2 DEF Relinks

LEMMA RelinksNothing ==
  ASSUME TypeOK, NEW m, UNCHANGED <<current, made, reader, peer>>
  PROVE  Relinks(m)
<1>1. Relink({}, {})
  BY DEF TypeOK, Relink
<1>2. {} \in SUBSET Link /\ {} \in SUBSET Source
  OBVIOUS
<1> QED BY <1>1, <1>2 DEF Relinks

LEMMA GatesTyped ==
  ASSUME TypeOK, NEW gone, CloseGates(gone)
  PROVE  closed' \in [Link -> BOOLEAN]
BY DEF CloseGates, TypeOK

LEMMA HandleEffect ==
  ASSUME TypeOK, running, NEW m \in Message, Handle(m)
  PROVE  Effect(m)
<1>0. /\ closed \in [Link -> BOOLEAN] /\ running \in BOOLEAN
      /\ restarts \in [Services -> 0 .. MAX_SERVICE_RESTARTS]
      /\ mourned \in SUBSET Link
  BY DEF TypeOK
<1>1. m \in [what : {"message", "gone"}, of : Link] \/ m \in Command
  BY DEF Message
<1>2. m.what \in {"open", "navigate", "close"} => m.of \in TabIds
  BY <1>1 DEF Command
<1>3. CASE m.what = "message" /\ HandleMessage(m.of)
  <2>1. /\ UNCHANGED <<instance, running, backlog, restarts, sent, mourned>>
        /\ permits' = [permits EXCEPT ![GateOf(m.of)] = @ + 1]
    BY <1>3 DEF HandleMessage, Release
  <2>2. CASE \E t \in TabIds : DropCrashed({t})
    <3>1. PICK t \in TabIds : Relink(Behind({t}), {}) /\ CloseGates(Behind({t}))
      BY <2>2 DEF DropCrashed
    <3> QED BY <1>0, <1>3, <2>1, <3>1, RelinksTabs, GatesTyped DEF Effect
  <2>3. CASE UNCHANGED <<current, made, closed, reader, peer>>
    BY <1>0, <1>3, <2>1, <2>3, RelinksNothing DEF Effect
  <2> QED BY <1>3, <2>2, <2>3 DEF HandleMessage
<1>4. CASE m.what = "gone" /\ m.of[1] \in TabIds /\ HandleTabGone(m.of)
  <2>1. UNCHANGED <<instance, running, permits, backlog, restarts, sent, mourned>>
    BY <1>4 DEF HandleTabGone
  <2>2. CASE DropCrashed({m.of[1]})
    <3>1. Relink(Behind({m.of[1]}), {}) /\ CloseGates(Behind({m.of[1]}))
      BY <2>2 DEF DropCrashed
    <3>2. Relinks(m)
      BY <1>4, <3>1, RelinksTabs
    <3> QED BY <1>0, <1>4, <2>1, <3>1, <3>2, GatesTyped DEF Effect
  <2>3. CASE UNCHANGED <<current, made, closed, reader, peer>>
    BY <1>0, <1>4, <2>1, <2>3, RelinksNothing DEF Effect
  <2> QED BY <1>4, <2>2, <2>3 DEF HandleTabGone
<1>5. CASE m.what = "gone" /\ m.of[1] \in Services /\ HandleServiceGone(m.of)
  <2> DEFINE s == m.of[1]
  <2>1. /\ mourned' = mourned \cup {m.of} /\ m.of \in Link
        /\ UNCHANGED <<instance, running, permits, backlog, sent>>
        /\ {s} \in SUBSET Source /\ s \in Services
    BY <1>1, <1>5 DEF HandleServiceGone, Command, Source
  <2>2. PICK ts \in SUBSET LiveTabs :
          \/ /\ restarts[s] < MAX_SERVICE_RESTARTS /\ made[s] < GenerationBound
             /\ restarts' = [restarts EXCEPT ![s] = @ + 1]
             /\ Relink(Behind(ts \cup {s}), {s})
             /\ CloseGates(Behind(ts))
          \/ /\ restarts[s] >= MAX_SERVICE_RESTARTS /\ UNCHANGED restarts
             /\ DropCrashed(ts)
    BY <1>5 DEF HandleServiceGone
  <2>3. ts \in SUBSET TabIds
    BY DEF LiveTabs
  <2>4. restarts' \in [Services -> 0 .. MAX_SERVICE_RESTARTS]
    <3>1. restarts[s] < MAX_SERVICE_RESTARTS => restarts[s] + 1 \in 0 .. MAX_SERVICE_RESTARTS
      BY <1>0, <2>1, InboxAssumption
    <3> QED BY <1>0, <2>2, <3>1
  <2>5. closed' \in [Link -> BOOLEAN]
    BY <2>2, GatesTyped DEF DropCrashed
  <2>6. Relinks(m)
    <3>1. CASE made[s] < GenerationBound /\ Relink(Behind(ts \cup {s}), {s})
      <4>1. /\ Behind(ts \cup {s}) \in SUBSET Link
            /\ \A l \in Behind(ts \cup {s}) : l[1] \in Component => l[1] = s
        BY <2>3, InboxAssumption DEF Behind, CurrentLinks, Component
      <4>2. \A c \in Component :
              c \in {s} \/ (\E l \in Behind(ts \cup {s}) : l[1] = c)
                => m.what = "gone" /\ m.of[1] = c
        BY <1>5, <4>1
      <4>3. \A c \in {s} : made[c] < GenerationBound
        BY <3>1
      <4> HIDE DEF s
      <4> QED BY <2>1, <3>1, <4>1, <4>2, <4>3 DEF Relinks
    <3>2. CASE Relink(Behind(ts), {})
      BY <2>3, <3>2, RelinksTabs
    <3> QED BY <2>2, <3>1, <3>2 DEF DropCrashed
  <2> QED BY <1>0, <1>5, <2>1, <2>4, <2>5, <2>6 DEF Effect
<1>6. CASE m.what = "open" /\ OpenTab(m.of)
  <2>1. UNCHANGED <<instance, running, permits, closed, backlog, restarts, sent, mourned>>
    BY <1>6 DEF OpenTab, gates
  <2>2. Relinks(m)
    <3>1. CASE made[m.of] = 0 /\ Relink({}, {m.of})
      <4>1. Behind({}) = {} /\ made[m.of] < GenerationBound
        BY <3>1, InboxAssumption DEF Behind
      <4> QED BY <1>2, <1>6, <3>1, <4>1, RelinksTabs
    <3>2. CASE UNCHANGED <<current, made, reader, peer>>
      BY <3>2, RelinksNothing
    <3> QED BY <1>6, <3>1, <3>2 DEF OpenTab
  <2> QED BY <1>0, <1>6, <2>1, <2>2 DEF Effect
<1>7. CASE m.what = "close" /\ CloseTab(m.of)
  <2>1. /\ UNCHANGED <<instance, running, permits, backlog, restarts, sent, mourned>>
        /\ Relink(Behind({m.of}), {}) /\ CloseGates(Behind({m.of}))
    BY <1>7 DEF CloseTab
  <2>2. Relinks(m)
    BY <1>2, <1>7, <2>1, RelinksTabs
  <2> QED BY <1>0, <1>7, <2>1, <2>2, GatesTyped DEF Effect
<1>8. CASE m.what = "navigate" /\ Navigate(m.of)
  <2>1. UNCHANGED <<instance, running, permits, backlog, restarts, sent, mourned>>
    BY <1>8 DEF Navigate
  <2>2. closed' \in [Link -> BOOLEAN]
    BY <1>0, <1>8, GatesTyped DEF Navigate
  <2>3. Relinks(m)
    <3>1. CASE UNCHANGED <<current, made, closed, reader, peer>>
      BY <3>1, RelinksNothing
    <3>2. CASE made[m.of] < GenerationBound /\ Relink(Behind({m.of}), {m.of})
      BY <1>2, <1>8, <3>2, RelinksTabs
    <3>3. CASE Relink(Behind({m.of}), {})
      BY <1>2, <1>8, <3>3, RelinksTabs
    <3> QED BY <1>8, <3>1, <3>2, <3>3 DEF Navigate
  <2> QED BY <1>0, <1>8, <2>1, <2>2, <2>3 DEF Effect
<1>9. CASE m.what = "shutdown" /\ Shutdown
  <2>1. /\ running' = FALSE
        /\ Relink(CurrentLinks, {}) /\ CloseGates(CurrentLinks)
        /\ UNCHANGED <<instance, permits, backlog, restarts, sent, mourned>>
    BY <1>9 DEF Shutdown
  <2>2. CurrentLinks \in SUBSET Link /\ {} \in SUBSET Source
    BY DEF CurrentLinks
  <2>3. Relinks(m)
    BY <2>1, <2>2 DEF Relinks
  <2> QED BY <1>0, <1>9, <2>1, <2>3, GatesTyped DEF Effect
<1> QED BY <1>3, <1>4, <1>5, <1>6, <1>7, <1>8, <1>9 DEF Handle

(* The permit of a handled message goes back to the gate it came from.     *)
LEMMA GateIsOwn ==
  ASSUME TypeOK, Orderly, inbox # <<>>, Head(inbox).what = "message"
  PROVE  /\ Head(inbox).of \in Link /\ GateOf(Head(inbox).of) = Head(inbox).of
         /\ permits[Head(inbox).of] + 1 \in 0 .. MAX_QUEUED_PER_SOURCE
<1> DEFINE l == Head(inbox).of
<1>1. /\ 1 \in DOMAIN inbox /\ Head(inbox) = inbox[1]
      /\ 1 \in FromReader
  <2>1. 1 \in DOMAIN inbox /\ Head(inbox) = inbox[1]
    BY HeadTaken DEF TypeOK
  <2> QED BY <2>1 DEF FromReader
<1>2. l \in Link
  BY <1>1, PushedLinks DEF TypeOK
<1>3. GateOf(l) = l
  <2>1. CASE l[1] \in TabIds
    BY <2>1 DEF GateOf
  <2>2. CASE l[1] \notin TabIds
    <3>1. l[1] \in Component
      BY <1>2, <2>2, SourceOfLink DEF Source, Component
    <3>2. current[l[1]] = l[2]
      BY <1>1, <3>1 DEF Orderly, ComponentsCurrent
    <3> HIDE DEF l
    <3> QED BY <1>2, <2>2, <3>2, SourceOfLink DEF GateOf
  <2> QED BY <2>1, <2>2
<1>4. permits[l] + 1 \in 0 .. MAX_QUEUED_PER_SOURCE
  <2>1. 1 \in Queued(l, "message")
    BY <1>1 DEF Queued
  <2>2. /\ IsFiniteSet(Queued(l, "message")) /\ Cardinality(Queued(l, "message")) \in Nat
    BY QueuedFinite DEF TypeOK
  <2>3. Cardinality(Queued(l, "message")) # 0
    BY <2>1, <2>2, FS_EmptySet
  <2>4. /\ permits[l] + Cardinality(Queued(l, "message")) + InHand(l) = MAX_QUEUED_PER_SOURCE
        /\ InHand(l) \in Nat /\ permits[l] \in Nat
    BY <1>2 DEF Orderly, Conserved, InHand, TypeOK
  <2> HIDE DEF l
  <2> QED BY <2>2, <2>3, <2>4, InboxAssumption
<1> QED BY <1>2, <1>3, <1>4

LEMMA Loop_TypeOK ==
  ASSUME IInv, Loop
  PROVE  TypeOK' /\ Effect(Head(inbox))
<1> DEFINE m == Head(inbox)
<1>0. TypeOK /\ Orderly /\ running /\ inbox # <<>> /\ inbox' = Tail(inbox)
  BY DEF IInv, Loop
<1>1. m \in Message /\ inbox' \in Seq(Message)
  BY <1>0, HeadTaken DEF TypeOK
<1>2. Effect(m)
  BY <1>0, <1>1, HandleEffect DEF Loop
<1>3. PICK gone \in SUBSET Link, spawned \in SUBSET Source :
        Relink(gone, spawned) /\ \A s \in spawned : made[s] < GenerationBound
  BY <1>2 DEF Effect, Relinks
<1>4. /\ current' \in [Source -> Generation \cup {None}]
      /\ made' \in [Source -> 0 .. GenerationBound]
      /\ reader' \in [Link -> ReaderState]
      /\ peer' \in [Link -> {"none", "alive", "gone"}]
  BY <1>0, <1>3, RelinkTypes
<1>5. permits' \in [Link -> 0 .. MAX_QUEUED_PER_SOURCE]
  <2>1. CASE m.what # "message"
    BY <1>0, <1>2, <2>1 DEF Effect, TypeOK
  <2>2. CASE m.what = "message"
    <3>1. /\ m.of \in Link /\ permits[m.of] + 1 \in 0 .. MAX_QUEUED_PER_SOURCE
          /\ permits' = [permits EXCEPT ![m.of] = @ + 1]
      BY <1>0, <1>2, <2>2, GateIsOwn DEF Effect
    <3> HIDE DEF m
    <3> QED BY <1>0, <3>1 DEF TypeOK
  <2> QED BY <2>1, <2>2
<1>6. /\ running' \in BOOLEAN
      /\ closed' \in [Link -> BOOLEAN]
      /\ restarts' \in [Services -> 0 .. MAX_SERVICE_RESTARTS]
      /\ mourned' \in SUBSET Link
      /\ UNCHANGED <<instance, backlog, sent>>
  BY <1>2 DEF Effect
<1> HIDE DEF m
<1> QED BY <1>0, <1>1, <1>2, <1>4, <1>5, <1>6 DEF TypeOK, m

(* A death a component is reported of is that of the generation the loop   *)
(* holds, and nothing else of it is queued.                                *)
LEMMA ReportedIsCurrent ==
  ASSUME TypeOK, Orderly, inbox # <<>>, Head(inbox).what = "gone",
         Head(inbox).of[1] \in Component
  PROVE  /\ Head(inbox).of = <<Head(inbox).of[1], current[Head(inbox).of[1]]>>
         /\ reader[Head(inbox).of] = "done"
         /\ \A j \in FromReader : j > 1 => inbox[j].of # Head(inbox).of
<1>1. 1 \in FromReader /\ Head(inbox) = inbox[1]
  <2>1. 1 \in DOMAIN inbox /\ Head(inbox) = inbox[1]
    BY HeadTaken DEF TypeOK
  <2> QED BY <2>1 DEF FromReader
<1>2. inbox[1].of \in Link
  BY <1>1, PushedLinks DEF TypeOK
<1>3. current[inbox[1].of[1]] = inbox[1].of[2]
  BY <1>1 DEF Orderly, ComponentsCurrent
<1>4. inbox[1].of = <<inbox[1].of[1], inbox[1].of[2]>>
  BY <1>2, SourceOfLink
<1> QED BY <1>1, <1>3, <1>4 DEF Orderly, GoneIsLast

LEMMA Loop_Orderly ==
  ASSUME IInv, Loop, running'
  PROVE  Orderly'
<1> DEFINE m == Head(inbox)
<1>0. /\ TypeOK /\ TypeOK' /\ Orderly /\ inbox # <<>> /\ inbox' = Tail(inbox)
      /\ Effect(m) /\ inbox \in Seq(Message)
  BY Loop_TypeOK DEF IInv, Loop, TypeOK
<1>1. PICK gone \in SUBSET Link, spawned \in SUBSET Source :
        /\ Relink(gone, spawned)
        /\ \A s \in spawned : made[s] < GenerationBound
        /\ \A s \in Component :
             s \in spawned \/ (\E l \in gone : l[1] = s) => m.what = "gone" /\ m.of[1] = s
  BY <1>0 DEF Effect, Relinks
<1>2. /\ 1 \in DOMAIN inbox /\ m = inbox[1]
      /\ \A i \in FromReader' :
           i \in Nat \ {0} /\ i + 1 \in FromReader /\ inbox'[i] = inbox[i + 1]
  <2>1. /\ 1 \in DOMAIN inbox /\ m = inbox[1]
        /\ DOMAIN inbox' \subseteq Nat \ {0}
        /\ \A i \in Nat \ {0} : i \in DOMAIN inbox' <=> i + 1 \in DOMAIN inbox
        /\ \A i \in DOMAIN inbox' : inbox'[i] = inbox[i + 1]
    BY <1>0, HeadTaken
  <2>2. \A i \in FromReader' : i \in DOMAIN inbox' /\ inbox'[i].what \in {"message", "gone"}
    BY DEF FromReader
  <2>3. \A i \in FromReader' : i + 1 \in DOMAIN inbox /\ inbox'[i] = inbox[i + 1]
    BY <2>1, <2>2
  <2> QED BY <2>1, <2>2, <2>3 DEF FromReader
<1>3. \A k \in Link : k[1] \in spawned /\ k = Fresh(k[1]) => reader[k] = "none"
  <2>1. ASSUME NEW k \in Link, k[1] \in spawned, k = Fresh(k[1]) PROVE k[2] >= made[k[1]]
    <3>1. k[2] = made[k[1]] /\ k[2] \in Nat
      BY <2>1, SourceOfLink DEF Fresh, Generation
    <3> QED BY <3>1
  <2> QED BY <1>0, <2>1 DEF Orderly, Unspawned
<1>4. \A k \in Link : reader'[k] = IF k[1] \in spawned /\ k = Fresh(k[1]) THEN "recv"
                                                                          ELSE reader[k]
  BY <1>1 DEF Relink
<1>5. \A k \in Link : InHand(k)' = InHand(k)
  BY <1>3, <1>4 DEF InHand
<1>6. /\ m.what = "message" =>
            /\ m.of \in Link /\ permits[m.of] \in Nat
            /\ permits' = [permits EXCEPT ![m.of] = @ + 1]
      /\ m.what # "message" => permits' = permits
  <2>1. CASE m.what = "message"
    <3>1. m.of \in Link /\ GateOf(m.of) = m.of
      BY <1>0, <2>1, GateIsOwn
    <3>2. permits[m.of] \in Nat
      BY <1>0, <3>1 DEF TypeOK
    <3> QED BY <1>0, <2>1, <3>1, <3>2 DEF Effect
  <2>2. CASE m.what # "message"
    BY <1>0, <2>2 DEF Effect
  <2> QED BY <2>1, <2>2
<1>7. Unspawned'
  <2>1. ASSUME NEW k \in Link, k[2] >= made'[k[1]]
        PROVE  /\ k[2] >= made[k[1]]
               /\ ~(k[1] \in spawned /\ k = Fresh(k[1]))
    <3>1. k[1] \in Source /\ k[2] \in Nat /\ made[k[1]] \in Nat
      BY <1>0, SourceOfLink DEF TypeOK, Generation
    <3>2. made'[k[1]] = IF k[1] \in spawned THEN made[k[1]] + 1 ELSE made[k[1]]
      BY <1>1, <3>1 DEF Relink
    <3>3. k = Fresh(k[1]) => k[2] = made[k[1]]
      BY DEF Fresh
    <3> QED BY <2>1, <3>1, <3>2, <3>3
  <2>2. ASSUME NEW k \in Link, k[2] >= made'[k[1]]
        PROVE  /\ reader'[k] = "none" /\ permits'[k] = MAX_QUEUED_PER_SOURCE
               /\ \A i \in FromReader' : inbox'[i].of # k
    <3>1. /\ reader[k] = "none" /\ permits[k] = MAX_QUEUED_PER_SOURCE
          /\ \A i \in FromReader : inbox[i].of # k
          /\ reader'[k] = reader[k]
      BY <1>0, <1>4, <2>1, <2>2 DEF Orderly, Unspawned
    <3>2. permits'[k] = permits[k]
      <4>1. m.what = "message" => m.of # k
        BY <1>2, <3>1 DEF FromReader
      <4> QED BY <1>0, <1>6, <4>1 DEF TypeOK
    <3> QED BY <1>2, <3>1, <3>2
  <2> QED BY <2>2 DEF Unspawned
<1>8. ASSUME NEW k \in Link, k[1] \in Component, current[k[1]] = k[2],
             current'[k[1]] # current[k[1]]
      PROVE  /\ m.what = "gone" /\ m.of = k /\ reader[k] = "done"
             /\ \A j \in FromReader : j > 1 => inbox[j].of # k
  <2>1. k[1] \in Source /\ k = <<k[1], k[2]>>
    BY SourceOfLink
  <2>2. k[1] \in spawned \/ \E l \in gone : l[1] = k[1]
    BY <1>1, <1>8, <2>1 DEF Relink
  <2>3. m.what = "gone" /\ m.of[1] = k[1]
    BY <1>1, <1>8, <2>2
  <2> QED BY <1>0, <1>8, <2>1, <2>3, ReportedIsCurrent
<1>9. ComponentsCurrent'
  <2>1. ASSUME NEW i \in FromReader', inbox'[i].of[1] \in Component
        PROVE  current'[inbox'[i].of[1]] = inbox'[i].of[2]
    <3>1. i + 1 \in FromReader /\ inbox'[i] = inbox[i + 1] /\ i + 1 > 1
      BY <1>2
    <3>2. inbox[i + 1].of \in Link /\ current[inbox[i + 1].of[1]] = inbox[i + 1].of[2]
      BY <1>0, <2>1, <3>1, PushedLinks DEF Orderly, ComponentsCurrent
    <3> QED BY <1>8, <2>1, <3>1, <3>2
  <2>2. ASSUME NEW k \in Link, k[1] \in Component, reader'[k] \notin {"none", "done"}
        PROVE  current'[k[1]] = k[2]
    <3>1. CASE k[1] \in spawned /\ k = Fresh(k[1])
      <4>1. k[1] \in Source /\ k[2] = made[k[1]]
        BY <3>1, SourceOfLink DEF Fresh
      <4> QED BY <1>1, <3>1, <4>1 DEF Relink
    <3>2. CASE ~(k[1] \in spawned /\ k = Fresh(k[1]))
      <4>1. reader[k] \notin {"none", "done"} /\ current[k[1]] = k[2]
        BY <1>0, <1>4, <2>2, <3>2 DEF Orderly, ComponentsCurrent
      <4> QED BY <1>8, <2>2, <4>1
    <3> QED BY <3>1, <3>2
  <2> QED BY <2>1, <2>2 DEF ComponentsCurrent
<1>10. GoneIsLast'
  <2>1. ASSUME NEW i \in FromReader', inbox'[i].what = "gone"
        PROVE  /\ reader'[inbox'[i].of] = "done"
               /\ \A j \in FromReader' : j > i => inbox'[j].of # inbox'[i].of
    <3>1. i + 1 \in FromReader /\ inbox'[i] = inbox[i + 1] /\ inbox[i + 1].of \in Link
      BY <1>0, <1>2, PushedLinks
    <3>2. /\ reader[inbox[i + 1].of] = "done"
          /\ \A j \in FromReader : j > i + 1 => inbox[j].of # inbox[i + 1].of
      BY <1>0, <2>1, <3>1 DEF Orderly, GoneIsLast
    <3>3. reader'[inbox[i + 1].of] = "done"
      BY <1>3, <1>4, <3>1, <3>2
    <3>4. ASSUME NEW j \in FromReader', j > i PROVE inbox'[j].of # inbox[i + 1].of
      <4>1. /\ j \in Nat /\ i \in Nat /\ j + 1 \in FromReader /\ inbox'[j] = inbox[j + 1]
        BY <1>2
      <4>2. j + 1 > i + 1
        BY <3>4, <4>1
      <4> QED BY <3>2, <4>1, <4>2
    <3> QED BY <3>1, <3>3, <3>4
  <2> QED BY <2>1 DEF GoneIsLast
<1>11. Conserved'
  <2>1. ASSUME NEW k \in Link
        PROVE  permits'[k] + Cardinality(Queued(k, "message")') + InHand(k)'
                 = MAX_QUEUED_PER_SOURCE
    <3> DEFINE one == IF m.what = "message" /\ m.of = k THEN 1 ELSE 0
    <3>1. one \in Nat
      OBVIOUS
    <3>2. /\ Cardinality(Queued(k, "message")) = Cardinality(Queued(k, "message")') + one
          /\ Cardinality(Queued(k, "message")') \in Nat
      BY <1>0, TailCounts
    <3>3. permits'[k] = permits[k] + one /\ permits[k] \in Nat
      BY <1>0, <1>6 DEF TypeOK
    <3>4. /\ permits[k] + Cardinality(Queued(k, "message")) + InHand(k) = MAX_QUEUED_PER_SOURCE
          /\ InHand(k) \in Nat
      BY <1>0 DEF Orderly, Conserved, InHand
    <3> HIDE DEF one
    <3> QED BY <1>5, <3>1, <3>2, <3>3, <3>4
  <2> QED BY <2>1 DEF Conserved
<1> QED BY <1>7, <1>9, <1>10, <1>11 DEF Orderly

-----------------------------------------------------------------------------
(* The theorems.                                                           *)

(* A step that the queue, the gates and the threads do not see.            *)
LEMMA Unseen ==
  ASSUME IInv, TypeOK', UNCHANGED <<running, current, made, permits, reader, inbox>>
  PROVE  IInv'
<1>1. FromReader' = FromReader /\ \A l : Queued(l, "message")' = Queued(l, "message")
  BY SameQueue
<1>2. Unspawned => Unspawned'
  BY <1>1 DEF Unspawned
<1>3. ComponentsCurrent => ComponentsCurrent'
  BY <1>1 DEF ComponentsCurrent
<1>4. GoneIsLast => GoneIsLast'
  BY <1>1 DEF GoneIsLast
<1>5. Conserved => Conserved'
  BY <1>1 DEF Conserved, InHand
<1> QED BY <1>2, <1>3, <1>4, <1>5 DEF IInv, Orderly

LEMMA Send_IInv ==
  ASSUME IInv, NEW c \in Command, Send(c)
  PROVE  IInv'
<1>0. TypeOK /\ c \in Message /\ c.what \notin {"message", "gone"}
  BY DEF IInv, Message, Command
<1>1. /\ inbox' = Append(inbox, c) /\ running
      /\ UNCHANGED <<instance, running, current, made, gates, reader, peer, backlog,
                     restarts, mourned>>
  BY DEF Send
<1>2. TypeOK'
  <2>1. inbox' \in Seq(Message)
    BY <1>0, <1>1, Appended DEF TypeOK
  <2>2. sent' \in 0 .. instance.commands
    BY <1>0, InboxAssumption DEF Send, TypeOK
  <2> QED BY <1>0, <1>1, <2>1, <2>2 DEF TypeOK, gates
<1>3. Orderly
  BY <1>1 DEF IInv
<1>4. /\ FromReader' = FromReader
      /\ \A i \in FromReader : inbox'[i] = inbox[i]
  <2>1. /\ DOMAIN inbox' = DOMAIN inbox \cup {Len(inbox) + 1}
        /\ \A i \in DOMAIN inbox : inbox'[i] = inbox[i]
        /\ inbox'[Len(inbox) + 1] = c
    BY <1>0, <1>1, Appended DEF TypeOK
  <2> QED BY <1>0, <2>1 DEF FromReader
<1>5. Unspawned'
  BY <1>1, <1>3, <1>4 DEF Orderly, Unspawned, gates
<1>6. ComponentsCurrent'
  BY <1>1, <1>3, <1>4 DEF Orderly, ComponentsCurrent
<1>7. GoneIsLast'
  <2>1. ASSUME NEW i \in FromReader', inbox'[i].what = "gone"
        PROVE  /\ reader'[inbox'[i].of] = "done"
               /\ \A j \in FromReader' : j > i => inbox'[j].of # inbox'[i].of
    <3>1. i \in FromReader /\ inbox'[i] = inbox[i]
      BY <1>4, <2>1
    <3>2. /\ reader[inbox[i].of] = "done"
          /\ \A j \in FromReader : j > i => inbox[j].of # inbox[i].of
      BY <1>3, <2>1, <3>1 DEF Orderly, GoneIsLast
    <3>3. ASSUME NEW j \in FromReader', j > i PROVE inbox'[j].of # inbox'[i].of
      <4>1. j \in FromReader /\ inbox'[j] = inbox[j]
        BY <1>4, <3>3
      <4> QED BY <3>1, <3>2, <3>3, <4>1
    <3> QED BY <1>1, <3>1, <3>2, <3>3
  <2> QED BY <2>1 DEF GoneIsLast
<1>8. Conserved'
  <2>1. ASSUME NEW k \in Link
        PROVE  Cardinality(Queued(k, "message")') = Cardinality(Queued(k, "message"))
    <3>1. Cardinality(Queued(k, "message")') = Cardinality(Queued(k, "message")) + 0
      BY <1>0, <1>1, AppendCounts DEF TypeOK
    <3> QED BY <1>0, <3>1, QueuedFinite DEF TypeOK
  <2> QED BY <1>1, <1>3, <2>1 DEF Orderly, Conserved, InHand, gates
<1> QED BY <1>2, <1>5, <1>6, <1>7, <1>8 DEF IInv, Orderly

LEMMA Step_IInv == IInv /\ [Next]_vars => IInv'
<1> SUFFICES ASSUME IInv, [Next]_vars PROVE IInv'
  OBVIOUS
<1>0. TypeOK
  BY DEF IInv
<1>1. ASSUME NEW l \in Link, PeerWrites(l) PROVE IInv'
  <2>1. /\ backlog[l] < SocketBound /\ backlog' = [backlog EXCEPT ![l] = @ + 1]
        /\ UNCHANGED <<instance, running, current, made, permits, closed, reader, peer,
                       inbox, restarts, sent, mourned>>
    BY <1>1 DEF PeerWrites, gates
  <2>2. backlog[l] + 1 \in 0 .. SocketBound
    BY <1>0, <2>1, InboxAssumption DEF TypeOK
  <2>3. backlog' \in [Link -> 0 .. SocketBound]
    BY <1>0, <2>1, <2>2 DEF TypeOK
  <2>4. TypeOK'
    BY <1>0, <2>1, <2>3 DEF TypeOK
  <2> QED BY <1>1, <2>4, Unseen DEF PeerWrites, gates
<1>2. ASSUME NEW l \in Link, PeerEnds(l) PROVE IInv'
  <2>1. TypeOK'
    BY <1>0, <1>2 DEF PeerEnds, TypeOK, gates
  <2> QED BY <1>2, <2>1, Unseen DEF PeerEnds, gates
<1>3. ASSUME NEW s \in Services, RestartAges(s) PROVE IInv'
  <2>1. restarts[s] > 0 /\ restarts' = [restarts EXCEPT ![s] = @ - 1]
    BY <1>3 DEF RestartAges
  <2>2. restarts[s] - 1 \in 0 .. MAX_SERVICE_RESTARTS
    BY <1>0, <2>1, InboxAssumption DEF TypeOK
  <2>3. restarts' \in [Services -> 0 .. MAX_SERVICE_RESTARTS]
    BY <1>0, <2>1, <2>2 DEF TypeOK
  <2>4. UNCHANGED <<instance, running, current, made, permits, closed, reader, peer,
                    backlog, inbox, sent, mourned>>
    BY <1>3 DEF RestartAges, gates
  <2>5. TypeOK'
    BY <1>0, <2>3, <2>4 DEF TypeOK
  <2> QED BY <1>3, <2>5, Unseen DEF RestartAges, gates
<1>4. CASE Loop
  BY <1>4, Loop_TypeOK, Loop_Orderly DEF IInv
<1>5. CASE UNCHANGED vars
  <2>1. TypeOK'
    BY <1>0, <1>5 DEF TypeOK, vars, gates
  <2> QED BY <1>5, <2>1, Unseen DEF vars, gates
<1> QED BY <1>1, <1>2, <1>3, <1>4, <1>5, Reader_IInv, Send_IInv DEF Next

LEMMA Reachable == Spec => []IInv
<1> QED BY Init_IInv, Step_IInv, PTL DEF Spec

(* No permit is lost or made up, for any number of sources, respawns and   *)
(* permits: what a source has in the queue never exceeds its share         *)
(* (engine.rs:800, 839, 843).                                              *)
THEOREM PermitsAreConserved == Spec => []PermitsConserved
<1>1. IInv => PermitsConserved
  BY DEF IInv, Orderly, Conserved, InHand, PermitsConserved
<1> QED BY <1>1, Reachable, PTL

(* The step of DeathEndsOnlyTheDead.                                       *)
EndsOnly(l) ==
  /\ \A s \in Source :
       \/ current'[s] = current[s]
       \/ s = l[1] /\ current[s] = l[2]
       \/ s \in TabIds /\ l[1] \in Services /\ current'[s] = None
  /\ \A k \in Link : closed'[k] => closed[k] \/ current'[k[1]] # k[2]

EndsOnlyTheDead ==
  \A l \in Link :
    (inbox # <<>> /\ inbox' = Tail(inbox) /\ Head(inbox) = [what |-> "gone", of |-> l])
      => EndsOnly(l)

(* What becomes of the sources ts and of the others.                       *)
LEMMA RelinkedSources ==
  ASSUME TypeOK, NEW ts \in SUBSET Source, NEW spawned, Relink(Behind(ts), spawned)
  PROVE  \A u \in Source : u \notin spawned =>
           current'[u] = IF u \in ts THEN None ELSE current[u]
<1> SUFFICES ASSUME NEW u \in Source, u \notin spawned
             PROVE  current'[u] = IF u \in ts THEN None ELSE current[u]
  OBVIOUS
<1>1. current'[u] = IF \E l \in Behind(ts) : l[1] = u THEN None ELSE current[u]
  BY DEF Relink
<1>2. CASE u \notin ts
  BY <1>1, <1>2 DEF Behind
<1>3. CASE u \in ts /\ current[u] = None
  BY <1>1, <1>3
<1>4. CASE u \in ts /\ current[u] # None
  <2>1. current[u] \in Generation
    BY <1>4 DEF TypeOK
  <2>2. <<u, current[u]>> \in Link
    BY <2>1 DEF Link
  <2>3. <<u, current[u]>> \in Behind(ts)
    BY <1>4, <2>2 DEF Behind, CurrentLinks
  <2> QED BY <1>1, <1>4, <2>3
<1> QED BY <1>2, <1>3, <1>4

LEMMA ClosedBehind ==
  ASSUME NEW ts, CloseGates(Behind(ts)), NEW k \in Link, closed'[k]
  PROVE  closed[k] \/ (k[1] \in ts /\ k[1] \in Source /\ k[2] # None)
<1>1. k[1] \in Source /\ k[2] # None
  BY InboxAssumption DEF Link, Generation
<1> QED BY <1>1 DEF CloseGates, Behind

LEMMA EndsStep == IInv /\ [Next]_vars => EndsOnlyTheDead
<1> SUFFICES ASSUME IInv, [Next]_vars, NEW l \in Link,
                    inbox # <<>>, inbox' = Tail(inbox), Head(inbox) = [what |-> "gone", of |-> l]
             PROVE  EndsOnly(l)
  BY DEF EndsOnlyTheDead
<1>1. ASSUME UNCHANGED <<current, closed>>
      PROVE  EndsOnly(l)
  BY <1>1 DEF EndsOnly
<1>2. CASE Loop
  <2> DEFINE m == Head(inbox)
  <2>0. TypeOK /\ Orderly /\ Handle(m) /\ m.what = "gone" /\ m.of = l
    BY <1>2 DEF IInv, Loop
  <2>1. \/ l[1] \in TabIds /\ HandleTabGone(l)
        \/ l[1] \in Services /\ HandleServiceGone(l)
    BY <2>0 DEF Handle
  <2>2. ASSUME NEW ts \in SUBSET Source, DropCrashed(ts),
               \A t \in ts : \/ t = l[1] /\ current[t] = l[2]
                             \/ t \in TabIds /\ l[1] \in Services
        PROVE  EndsOnly(l)
    <3>1. Relink(Behind(ts), {}) /\ CloseGates(Behind(ts))
      BY <2>2 DEF DropCrashed
    <3>2. \A u \in Source : current'[u] = IF u \in ts THEN None ELSE current[u]
      BY <2>0, <3>1, RelinkedSources
    <3>3. \A k \in Link : closed'[k] => closed[k] \/ current'[k[1]] # k[2]
      BY <3>1, <3>2, ClosedBehind
    <3> QED BY <2>2, <3>2, <3>3 DEF EndsOnly
  <2>3. CASE l[1] \in TabIds /\ HandleTabGone(l)
    <3>1. CASE current[l[1]] = l[2]
      <4>1. DropCrashed({l[1]}) /\ {l[1]} \in SUBSET Source
        BY <2>3, <3>1 DEF HandleTabGone, Source
      <4> QED BY <3>1, <4>1, <2>2
    <3>2. CASE current[l[1]] # l[2]
      BY <1>1, <2>3, <3>2 DEF HandleTabGone
    <3> QED BY <3>1, <3>2
  <2>4. CASE l[1] \in Services /\ HandleServiceGone(l)
    <3> DEFINE s == l[1]
    <3>1. current[s] = l[2]
      <4>1. m.of = <<s, current[s]>>
        BY <1>2, <2>0, <2>4, ReportedIsCurrent DEF Component
      <4> QED BY <2>0, <4>1
    <3>2. PICK ts \in SUBSET LiveTabs :
            \/ Relink(Behind(ts \cup {s}), {s}) /\ CloseGates(Behind(ts))
            \/ DropCrashed(ts)
      BY <2>4 DEF HandleServiceGone
    <3>3. ts \subseteq TabIds /\ ts \subseteq Source /\ s \in Source /\ s \notin ts
      BY <2>4, InboxAssumption DEF LiveTabs, Source
    <3>4. CASE DropCrashed(ts)
      BY <2>2, <2>4, <3>3, <3>4
    <3>5. CASE Relink(Behind(ts \cup {s}), {s}) /\ CloseGates(Behind(ts))
      <4> HIDE DEF s
      <4>1. \A u \in Source \ {s} : current'[u] = IF u \in ts THEN None ELSE current[u]
        <5>1. ts \cup {s} \in SUBSET Source
          BY <3>3
        <5> QED BY <2>0, <3>5, <5>1, RelinkedSources
      <4>2. \A k \in Link : closed'[k] => closed[k] \/ current'[k[1]] # k[2]
        BY <3>3, <3>5, <4>1, ClosedBehind
      <4>3. s = l[1]
        BY DEF s
      <4> QED BY <2>4, <3>1, <3>3, <4>1, <4>2, <4>3 DEF EndsOnly
    <3> QED BY <3>2, <3>4, <3>5
  <2> QED BY <2>1, <2>3, <2>4
<1>3. UNCHANGED <<current, closed>> \/ Loop
  BY DEF Next, PeerWrites, PeerEnds, Reader, Recv, Eof, Acquire, Push, CheckClosed, Report,
         Send, RestartAges, vars, gates
<1> QED BY <1>1, <1>2, <1>3

(* The report of a death ends the link that died, of no other source more  *)
(* than tabs that could not be told of a dead service, and closes no gate  *)
(* of a link that stays.                                                   *)
THEOREM DeathsEndTheirOwn == Spec => DeathEndsOnlyTheDead
<1>1. IInv /\ [Next]_vars => [EndsOnlyTheDead]_vars
  BY EndsStep
<1>2. Spec => [][EndsOnlyTheDead]_vars
  BY <1>1, Reachable, PTL DEF Spec
<1> QED BY <1>2 DEF DeathEndsOnlyTheDead, EndsOnlyTheDead, EndsOnly
=============================================================================
