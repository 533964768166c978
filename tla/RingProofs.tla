----------------------------- MODULE RingProofs -----------------------------
(* Proofs about module Ring, for every window, word size, chunk and body.  *)
EXTENDS Ring, Integers, SequenceTheorems, TLAPS

-----------------------------------------------------------------------------
(* Remainders.                                                             *)

LEMMA Division ==
  ASSUME NEW M \in Nat \ {0}, NEW a \in Nat
  PROVE  a = M * (a \div M) + (a % M) /\ a % M \in 0 .. M - 1 /\ a \div M \in Nat
BY SMT

LEMMA Remainder ==
  ASSUME NEW M \in Nat \ {0}, NEW k \in Nat, NEW m \in 0 .. M - 1
  PROVE  (M * k + m) % M = m
BY SMT

LEMMA Times ==
  ASSUME NEW M \in Nat \ {0}, NEW d \in Int, NEW c \in Nat, d >= c
  PROVE  M * d >= M * c
BY SMT

(* Reducing early does not change a sum's remainder.                       *)
LEMMA ReduceEarly ==
  ASSUME NEW M \in Nat \ {0}, NEW a \in Nat, NEW n \in Nat
  PROVE  ((a % M) + n) % M = (a + n) % M
<1> DEFINE q == a \div M
           r == a % M
           p == (r + n) \div M
           s == (r + n) % M
<1>1. a = M * q + r /\ r \in Nat /\ q \in Nat
  BY Division
<1>2. r + n = M * p + s /\ s \in 0 .. M - 1 /\ p \in Nat
  <2> HIDE DEF r
  <2>1. r + n \in Nat
    BY <1>1
  <2> QED BY <2>1, Division
<1> HIDE DEF q, r, p, s
<1>3. a + n = M * (q + p) + s
  <2>1. M * (q + p) = M * q + M * p
    BY <1>1, <1>2
  <2> QED BY <1>1, <1>2, <2>1
<1>4. q + p \in Nat
  BY <1>1, <1>2
<1>5. (M * (q + p) + s) % M = s
  BY <1>2, <1>4, Remainder
<1>6. (a + n) % M = s
  BY <1>3, <1>5
<1> QED BY <1>6 DEF r, s

(* Less than M apart, different numbers have different remainders.         *)
LEMMA Apart ==
  ASSUME NEW M \in Nat \ {0}, NEW a \in Nat, NEW b \in Nat,
         a < b, b < a + M
  PROVE  a % M # b % M
<1> DEFINE q == a \div M
           p == b \div M
           r == a % M
           s == b % M
<1>1. /\ a = M * q + r /\ q \in Nat /\ r \in Int
      /\ b = M * p + s /\ p \in Nat /\ s \in Int
  BY Division
<1> HIDE DEF q, p, r, s
<1>2. SUFFICES ASSUME r = s PROVE FALSE
  BY DEF r, s
<1>3. M * (p - q) = b - a
  <2>1. M * (p - q) = M * p - M * q
    BY <1>1
  <2> QED BY <1>1, <1>2, <2>1
<1>4. CASE p - q >= 1
  BY <1>1, <1>3, <1>4, Times
<1>5. CASE q - p >= 0
  <2>1. M * (q - p) >= 0
    BY <1>1, <1>5, Times
  <2>2. M * (q - p) = 0 - M * (p - q)
    BY <1>1
  <2> QED BY <1>3, <2>1, <2>2
<1> QED BY <1>1, <1>4, <1>5

-----------------------------------------------------------------------------
(* The cursors.  A cursor stands for the number of bytes that went past it.*)

(* wrapping_add moves the count.                                           *)
LEMMA AdvanceCounts ==
  ASSUME NEW a \in Nat, NEW n \in Nat
  PROVE  Advance(a % Word, n) = (a + n) % Word
<1>1. Word \in Nat \ {0}
  BY RingAssumption
<1> QED BY <1>1, ReduceEarly DEF Advance

(* wrapping_sub of cursors no more than a window apart is the difference   *)
(* of the counts.                                                          *)
LEMMA DistanceCounts ==
  ASSUME NEW a \in Nat, NEW b \in Nat, a <= b, b <= a + Capacity
  PROVE  Distance(b % Word, a % Word) = b - a
<1> DEFINE q == a \div Word
           p == b \div Word
           r == a % Word
           s == b % Word
<1>0. Word \in Nat \ {0} /\ Capacity \in Nat /\ Word > Capacity
  BY RingAssumption
<1>1. /\ a = Word * q + r /\ q \in Nat /\ r \in 0 .. Word - 1
      /\ b = Word * p + s /\ p \in Nat /\ s \in 0 .. Word - 1
  BY <1>0, Division
<1> HIDE DEF q, p, r, s
<1>2. Word * (p - q) = Word * p - Word * q
  BY <1>0, <1>1
<1>3. p - q <= 1
  <2>1. SUFFICES ASSUME p - q >= 2 PROVE FALSE
    BY <1>1
  <2>2. Word * (p - q) >= Word * 2
    BY <1>0, <1>1, <2>1, Times
  <2> QED BY <1>0, <1>1, <1>2, <2>2
<1>4. s + Word - r = Word * (1 + q - p) + (b - a)
  <2>1. Word * (1 + q - p) = Word - Word * (p - q)
    BY <1>0, <1>1
  <2> QED BY <1>0, <1>1, <1>2, <2>1
<1>5. 1 + q - p \in Nat /\ b - a \in 0 .. Word - 1
  BY <1>0, <1>1, <1>3
<1>6. (s + Word - r) % Word = b - a
  BY <1>0, <1>4, <1>5, Remainder
<1> QED BY <1>6 DEF Distance, r, s

(* The offset of a byte depends on its count alone, although the cursor    *)
(* has wrapped: the window divides the word.                               *)
LEMMA OffsetCounts ==
  ASSUME NEW a \in Nat, NEW i \in Nat
  PROVE  /\ OffsetOf(a % Word, i) = (a + i) % Capacity
         /\ (a + i) % Capacity \in Offset
<1>0. Word \in Nat \ {0} /\ Capacity \in Nat \ {0} /\ Word % Capacity = 0
  BY RingAssumption
<1> DEFINE K == Word \div Capacity
           q == a \div Word
           r == a % Word
           t == r \div Capacity
           u == r % Capacity
<1>1. Word = Capacity * K /\ K \in Nat
  BY <1>0, Division
<1>2. a = Word * q + r /\ q \in Nat /\ r \in Nat
  BY <1>0, Division
<1>3. r = Capacity * t + u /\ t \in Nat /\ u \in 0 .. Capacity - 1
  <2> HIDE DEF r
  <2> QED BY <1>0, <1>2, Division
<1> HIDE DEF K, q, r, t, u
<1>4. a = Capacity * (K * q + t) + u
  <2>1. Word * q = Capacity * (K * q)
    BY <1>0, <1>1, <1>2
  <2>2. Capacity * (K * q + t) = Capacity * (K * q) + Capacity * t
    BY <1>0, <1>1, <1>2, <1>3
  <2>3. Capacity * (K * q) \in Nat /\ Capacity * t \in Nat /\ K * q + t \in Nat
    BY <1>0, <1>1, <1>2, <1>3
  <2> DEFINE x == Capacity * (K * q)
             y == Capacity * t
             z == Capacity * (K * q + t)
             w == Word * q
  <2>4. w = x /\ z = x + y /\ a = w + r /\ r = y + u /\ x \in Nat /\ y \in Nat
    BY <1>2, <1>3, <2>1, <2>2, <2>3
  <2>5. a = z + u
    <3> HIDE DEF w, x, y, z
    <3> QED BY <2>4, <1>2, <1>3
  <2> QED BY <2>5
<1>5. K * q + t \in Nat
  BY <1>1, <1>2, <1>3
<1>6. a % Capacity = u
  BY <1>0, <1>3, <1>4, <1>5, Remainder
<1>7. (u + i) % Capacity = (a + i) % Capacity
  BY <1>0, <1>6, ReduceEarly
<1>8. (a + i) % Capacity \in Offset
  BY <1>0, Division DEF Offset
<1> QED BY <1>7, <1>8 DEF OffsetOf, r, u

-----------------------------------------------------------------------------
(* The inductive invariant.  k is the number of bytes whose place the      *)
(* consumer has given back; it differs from the length of its output only  *)
(* between a copy and the publication that follows.                        *)

Holds(j) == window[(j - 1) % Capacity] = j

Counts(k) ==
  /\ k <= Len(got) /\ Len(got) <= put /\ put <= body_len /\ put <= k + Capacity
  /\ write_pos = put % Word /\ read_pos = k % Word
  /\ \A i \in 1 .. Len(got) : got[i] = i
  /\ \A j \in k + 1 .. put : Holds(j)

ProducerInv(k) ==
  /\ at["producer"] \in {"copy", "publish"} =>
       /\ moving["producer"] >= 1
       /\ put + moving["producer"] <= k + Capacity
       /\ put + moving["producer"] <= body_len
  /\ at["producer"] = "publish" =>
       \A j \in put + 1 .. put + moving["producer"] : Holds(j)
  /\ at["producer"] \notin {"drop_wake", "over", "dead"} => done = "streaming"
  /\ verdict["producer"] = "finished" => put = body_len
  /\ done = "finished" => put = body_len
  /\ verdict["producer"] # "corrupt"

ConsumerInv(k) ==
  /\ at["consumer"] \notin {"publish", "dead"} => Len(got) = k
  /\ at["consumer"] = "copy" => moving["consumer"] >= 1 /\ k + moving["consumer"] <= put
  /\ at["consumer"] = "publish" => Len(got) = k + moving["consumer"]
  /\ at["consumer"] # "over" => verdict["consumer"] = "none"
  /\ verdict["consumer"] = "all" => Len(got) = body_len
  /\ verdict["consumer"] # "corrupt"

AllOf(k) == Counts(k) /\ ProducerInv(k) /\ ConsumerInv(k)

IInv == TypeOK /\ \E k \in 0 .. Len(got) : AllOf(k)

LEMMA InitHolds == Init => IInv
<1> SUFFICES ASSUME Init PROVE IInv
  OBVIOUS
<1>1. TypeOK
  BY RingAssumption DEF Init, TypeOK, Cursor, Offset, Side, Place, Verdict
<1>2. 0 % Word = 0
  <2>1. Word \in Nat \ {0} /\ Word * 0 + 0 = 0 /\ 0 \in 0 .. Word - 1
    BY RingAssumption
  <2> QED BY <2>1
<1>3. AllOf(0)
  BY <1>2, RingAssumption DEF Init, AllOf, Counts, ProducerInv, ConsumerInv, Side
<1> QED BY <1>1, <1>3 DEF IInv, Init

(* What the actions that leave the header, the window and the output alone *)
(* leave alone.                                                            *)
LEMMA CountsStay ==
  ASSUME NEW k, Counts(k), UNCHANGED <<write_pos, read_pos, window, body_len, put, got>>
  PROVE  Counts(k)'
BY DEF Counts, Holds

(* Both sides.                                                             *)
LEMMA WaitForStep ==
  ASSUME TypeOK, NEW k \in 0 .. Len(got), AllOf(k), PWait \/ CWait
  PROVE  TypeOK' /\ AllOf(k)'
<1> USE DEF PWait, CWait, WaitFor, Leave, Goto, header
<1>1. TypeOK'
  BY DEF TypeOK, Side, Place, Verdict
<1>2. Counts(k)'
  BY CountsStay DEF AllOf
<1>3. ProducerInv(k)'
  BY DEF TypeOK, AllOf, ProducerInv, Side, Holds
<1>4. ConsumerInv(k)'
  BY DEF TypeOK, AllOf, ConsumerInv, Side
<1> QED BY <1>1, <1>2, <1>3, <1>4 DEF AllOf

LEMMA SliceStep ==
  ASSUME TypeOK, NEW k \in 0 .. Len(got), AllOf(k), NEW s \in Side, Slice(s)
  PROVE  TypeOK' /\ AllOf(k)'
<1> USE DEF Slice, Goto, header
<1>1. TypeOK'
  BY RingAssumption DEF TypeOK, Side, Place, Verdict, Least
<1>2. Counts(k)'
  BY CountsStay DEF AllOf
<1>3. ProducerInv(k)'
  BY DEF TypeOK, AllOf, ProducerInv, Side, Holds
<1>4. ConsumerInv(k)'
  BY DEF TypeOK, AllOf, ConsumerInv, Side
<1> QED BY <1>1, <1>2, <1>3, <1>4 DEF AllOf

LEMMA DiesStep ==
  ASSUME TypeOK, NEW k \in 0 .. Len(got), AllOf(k), NEW s \in Side, Dies(s)
  PROVE  TypeOK' /\ AllOf(k)'
<1> USE DEF Dies, Stopped, Goto, header
<1>1. TypeOK'
  BY DEF TypeOK, Side, Place, Verdict
<1>2. Counts(k)'
  BY CountsStay DEF AllOf
<1>3. ProducerInv(k)'
  BY DEF TypeOK, AllOf, ProducerInv, Side, Holds
<1>4. ConsumerInv(k)'
  BY DEF TypeOK, AllOf, ConsumerInv, Side
<1> QED BY <1>1, <1>2, <1>3, <1>4 DEF AllOf

LEMMA TimePassesStep ==
  ASSUME TypeOK, NEW k \in 0 .. Len(got), AllOf(k), NEW s \in Side, TimePasses(s)
  PROVE  TypeOK' /\ AllOf(k)'
<1> USE DEF TimePasses, header
<1>1. TypeOK'
  BY RingAssumption DEF TypeOK, Side
<1>2. Counts(k)'
  BY CountsStay DEF AllOf
<1>3. ProducerInv(k)' /\ ConsumerInv(k)'
  BY DEF AllOf, ProducerInv, ConsumerInv, Holds
<1> QED BY <1>1, <1>2, <1>3 DEF AllOf

(* The producer.                                                           *)
LEMMA PLoadStep ==
  ASSUME TypeOK, NEW k \in 0 .. Len(got), AllOf(k), PLoad
  PROVE  TypeOK' /\ AllOf(k)'
<1> DEFINE used == Distance(write_pos, read_pos)
           n == Least(Room(used), ChunkLeft)
<1>0. put \in Nat /\ body_len \in Nat /\ k \in Nat /\ k <= put /\ put <= k + Capacity
      /\ Capacity \in Nat
  BY RingAssumption DEF TypeOK, AllOf, Counts
<1>1. used = put - k
  BY <1>0, DistanceCounts DEF AllOf, Counts
<1>2. ChunkLeft \in Nat /\ ChunkLeft <= body_len - put
      /\ (put < body_len => ChunkLeft >= 1)
  <2>1. put % Chunk \in 0 .. Chunk - 1 /\ Chunk \in Nat
    BY <1>0, Division, RingAssumption
  <2>2. put <= body_len
    BY DEF AllOf, Counts
  <2> QED BY <1>0, <2>1, <2>2 DEF ChunkLeft, Least
<1>3. n \in 0 .. Capacity /\ put + n <= k + Capacity /\ put + n <= body_len
  BY <1>0, <1>1, <1>2 DEF Room, Least
<1>4. ~(used > Capacity)
  BY <1>0, <1>1
<1> HIDE DEF used, n
<1>5. /\ at["producer"] = "load"
      /\ \/ /\ put = body_len
            /\ Leave("producer", "drop", "finished") /\ UNCHANGED <<seen, moving>>
         \/ /\ seen' = [seen EXCEPT !["producer"] = read_pos]
            /\ moving' = [moving EXCEPT !["producer"] = n]
            /\ Goto("producer", IF n = 0 THEN "wait" ELSE "copy")
            /\ UNCHANGED verdict
      /\ UNCHANGED <<header, window, body_len, put, got, idle>>
  BY <1>4 DEF PLoad, used, n
<1> USE DEF Leave, Goto, header
<1>6. TypeOK'
  BY <1>3, <1>5 DEF TypeOK, Side, Place, Verdict
<1>7. Counts(k)'
  BY <1>5, CountsStay DEF AllOf
<1>8. ProducerInv(k)'
  BY <1>3, <1>5 DEF TypeOK, AllOf, ProducerInv, Side, Holds
<1>9. ConsumerInv(k)'
  BY <1>5 DEF TypeOK, AllOf, ConsumerInv, Side
<1> QED BY <1>6, <1>7, <1>8, <1>9 DEF AllOf

(* What a copy of the producer leaves in the window.                       *)
LEMMA CopyWrites ==
  ASSUME TypeOK, NEW k \in 0 .. Len(got), AllOf(k), PCopy
  PROVE  /\ window' \in [Offset -> Nat]
         /\ \A j \in k + 1 .. put + moving["producer"] : Holds(j)'
<1> DEFINE n == moving["producer"]
           Puts(o, i) == i \in 0 .. n - 1 /\ OffsetOf(write_pos, i) = o
<1>0. /\ put \in Nat /\ k \in Nat /\ n \in Nat /\ k <= put /\ put + n <= k + Capacity
      /\ write_pos = put % Word /\ Capacity \in Nat \ {0}
  BY RingAssumption DEF TypeOK, AllOf, Counts, ProducerInv, PCopy, Side
<1>1. window' = [o \in Offset |->
        IF o \in Region(write_pos, n)
        THEN put + 1 + (CHOOSE i \in 0 .. n - 1 : OffsetOf(write_pos, i) = o)
        ELSE window[o]]
  BY DEF PCopy
<1>2. ASSUME NEW i \in 0 .. n - 1
      PROVE  OffsetOf(write_pos, i) = (put + i) % Capacity /\ (put + i) % Capacity \in Offset
  <2>1. i \in Nat
    BY <1>0
  <2>2. OffsetOf(put % Word, i) = (put + i) % Capacity
    BY <1>0, <2>1, OffsetCounts
  <2>3. (put + i) % Capacity \in Offset
    BY <1>0, <2>1, OffsetCounts
  <2> QED BY <1>0, <2>2, <2>3
<1>3. ASSUME NEW o \in Offset, NEW i \in 0 .. n - 1, OffsetOf(write_pos, i) = o
      PROVE  window'[o] = put + 1 + i
  <2> DEFINE c == CHOOSE x \in 0 .. n - 1 : OffsetOf(write_pos, x) = o
  <2>1. o \in Region(write_pos, n)
    BY <1>3 DEF Region
  <2>2. c \in 0 .. n - 1 /\ OffsetOf(write_pos, c) = o
    BY <1>3
  <2>3. window'[o] = put + 1 + c
    BY <1>1, <2>1
  <2> HIDE DEF c, n
  <2>4. (put + c) % Capacity = (put + i) % Capacity
    BY <1>2, <1>3, <2>2
  <2>5. ~(put + c < put + i)
    <3>1. put + c \in Nat /\ put + i \in Nat /\ put + i < put + c + Capacity
      BY <1>0, <2>2
    <3> QED BY <1>0, <2>4, <3>1, Apart
  <2>6. ~(put + i < put + c)
    <3>1. put + c \in Nat /\ put + i \in Nat /\ put + c < put + i + Capacity
      BY <1>0, <2>2
    <3> QED BY <1>0, <2>4, <3>1, Apart
  <2>7. c = i
    BY <1>0, <2>2, <2>5, <2>6
  <2> QED BY <2>3, <2>7
<1>4. ASSUME NEW j \in put + 1 .. put + n
      PROVE  Holds(j)'
  <2>1. j - 1 - put \in 0 .. n - 1 /\ put + (j - 1 - put) = j - 1
    BY <1>0
  <2>2. OffsetOf(write_pos, j - 1 - put) = (j - 1) % Capacity /\ (j - 1) % Capacity \in Offset
    BY <1>2, <2>1
  <2>3. window'[(j - 1) % Capacity] = put + 1 + (j - 1 - put)
    BY <1>3, <2>1, <2>2
  <2> QED BY <1>0, <2>3 DEF Holds
<1>5. ASSUME NEW j \in k + 1 .. put
      PROVE  Holds(j)'
  <2>1. j - 1 \in Nat /\ (j - 1) % Capacity \in Offset
    <3>1. j - 1 \in Nat /\ j - 1 + 0 = j - 1
      BY <1>0
    <3> QED BY <3>1, OffsetCounts
  <2>2. (j - 1) % Capacity \notin Region(write_pos, n)
    <3>1. SUFFICES ASSUME NEW i \in 0 .. n - 1, OffsetOf(write_pos, i) = (j - 1) % Capacity
                   PROVE  FALSE
      BY DEF Region
    <3>2. put + i \in Nat /\ j - 1 < put + i /\ put + i < j - 1 + Capacity
      BY <1>0
    <3>3. (put + i) % Capacity = (j - 1) % Capacity
      BY <1>2, <3>1
    <3> QED BY <1>0, <2>1, <3>2, <3>3, Apart
  <2>3. window'[(j - 1) % Capacity] = window[(j - 1) % Capacity]
    BY <1>1, <2>1, <2>2
  <2> QED BY <2>3 DEF Holds, AllOf, Counts
<1>6. window' \in [Offset -> Nat]
  <2>1. ASSUME NEW o \in Offset PROVE window'[o] \in Nat
    <3>1. CASE o \in Region(write_pos, n)
      <4>1. PICK i \in 0 .. n - 1 : OffsetOf(write_pos, i) = o
        BY <3>1 DEF Region
      <4> QED BY <1>0, <1>3, <4>1
    <3>2. CASE o \notin Region(write_pos, n)
      BY <1>1, <3>2 DEF TypeOK
    <3> QED BY <3>1, <3>2
  <2> QED BY <1>1, <2>1
<1>7. \A j \in k + 1 .. put + n : j \in k + 1 .. put \/ j \in put + 1 .. put + n
  BY <1>0
<1> QED BY <1>4, <1>5, <1>6, <1>7

LEMMA PCopyStep ==
  ASSUME TypeOK, NEW k \in 0 .. Len(got), AllOf(k), PCopy
  PROVE  TypeOK' /\ AllOf(k)'
<1>0. /\ window' \in [Offset -> Nat]
      /\ \A j \in k + 1 .. put + moving["producer"] : Holds(j)'
  BY CopyWrites
<1>a. put \in Nat /\ k \in Nat /\ k <= put /\ moving["producer"] \in Nat
  BY RingAssumption DEF TypeOK, AllOf, Counts, Side
<1> USE DEF PCopy, Goto, header
<1>1. TypeOK'
  BY <1>0 DEF TypeOK, Side, Place
<1>2. Counts(k)'
  BY <1>0, <1>a DEF AllOf, Counts
<1>3. ProducerInv(k)'
  BY <1>0, <1>a DEF TypeOK, AllOf, ProducerInv, Side
<1>4. ConsumerInv(k)'
  BY DEF TypeOK, AllOf, ConsumerInv, Side
<1> QED BY <1>1, <1>2, <1>3, <1>4 DEF AllOf

LEMMA PPublishStep ==
  ASSUME TypeOK, NEW k \in 0 .. Len(got), AllOf(k), PPublish
  PROVE  TypeOK' /\ AllOf(k)'
<1> DEFINE n == moving["producer"]
<1>0. /\ put \in Nat /\ k \in Nat /\ k <= put /\ n \in Nat /\ Len(got) <= put
      /\ Word \in Nat \ {0}
      /\ put + n <= k + Capacity /\ put + n <= body_len /\ n >= 1
  BY RingAssumption DEF TypeOK, AllOf, Counts, ProducerInv, PPublish, Side
<1>1. write_pos' = (put + n) % Word
  BY <1>0, AdvanceCounts DEF AllOf, Counts, PPublish
<1>2. write_pos' \in Cursor
  <2>1. put + n \in Nat
    BY <1>0
  <2> QED BY <1>0, <1>1, <2>1, Division DEF Cursor
<1> USE DEF PPublish, Goto, Progress
<1>3. TypeOK'
  BY <1>0, <1>2, RingAssumption DEF TypeOK, Side, Place
<1>4. Counts(k)'
  <2>1. \A j \in k + 1 .. put + n : Holds(j)
    BY <1>0 DEF AllOf, Counts, ProducerInv
  <2>2. \A j \in k + 1 .. put' : Holds(j)'
    BY <2>1 DEF Holds
  <2> QED BY <1>0, <1>1, <2>2 DEF AllOf, Counts
<1>5. ProducerInv(k)'
  BY <1>0 DEF TypeOK, AllOf, ProducerInv, Side
<1>6. ConsumerInv(k)'
  BY <1>0 DEF TypeOK, AllOf, ConsumerInv, Side
<1> QED BY <1>3, <1>4, <1>5, <1>6 DEF AllOf

LEMMA PWakeStep ==
  ASSUME TypeOK, NEW k \in 0 .. Len(got), AllOf(k), PWake
  PROVE  TypeOK' /\ AllOf(k)'
<1> USE DEF PWake, Woken, header
<1>1. TypeOK'
  BY DEF TypeOK, Side, Place
<1>2. Counts(k)'
  BY CountsStay DEF AllOf
<1>3. ProducerInv(k)'
  BY DEF TypeOK, AllOf, ProducerInv, Side, Holds
<1>4. ConsumerInv(k)'
  BY DEF TypeOK, AllOf, ConsumerInv, Side
<1> QED BY <1>1, <1>2, <1>3, <1>4 DEF AllOf

LEMMA PDropStep ==
  ASSUME TypeOK, NEW k \in 0 .. Len(got), AllOf(k), PDrop
  PROVE  TypeOK' /\ AllOf(k)'
<1> USE DEF PDrop, Goto, Status
<1>1. TypeOK'
  BY DEF TypeOK, Side, Place
<1>2. Counts(k)'
  BY CountsStay DEF AllOf
<1>3. ProducerInv(k)'
  BY DEF TypeOK, AllOf, ProducerInv, Side, Holds
<1>4. ConsumerInv(k)'
  BY DEF TypeOK, AllOf, ConsumerInv, Side
<1> QED BY <1>1, <1>2, <1>3, <1>4 DEF AllOf

-----------------------------------------------------------------------------
(* The consumer.                                                           *)
LEMMA CStartStep ==
  ASSUME TypeOK, NEW k \in 0 .. Len(got), AllOf(k), CStart \/ CEmpty
  PROVE  TypeOK' /\ AllOf(k)'
<1> USE DEF CStart, CEmpty, Leave, Goto, header
<1>1. TypeOK'
  BY DEF TypeOK, Side, Place, Verdict
<1>2. Counts(k)'
  BY CountsStay DEF AllOf
<1>3. ProducerInv(k)'
  BY DEF TypeOK, AllOf, ProducerInv, Side, Holds
<1>4. ConsumerInv(k)'
  BY DEF TypeOK, AllOf, ConsumerInv, Side
<1> QED BY <1>1, <1>2, <1>3, <1>4 DEF AllOf

LEMMA CLoadStep ==
  ASSUME TypeOK, NEW k \in 0 .. Len(got), AllOf(k), CLoad
  PROVE  TypeOK' /\ AllOf(k)'
<1> DEFINE avail == Distance(write_pos, read_pos)
           n == Least(avail, body_len - Len(got))
<1>0. /\ put \in Nat /\ body_len \in Nat /\ k \in Nat /\ k <= put /\ put <= k + Capacity
      /\ Capacity \in Nat /\ Len(got) = k /\ put <= body_len
  BY RingAssumption DEF TypeOK, AllOf, Counts, ConsumerInv, CLoad
<1>1. avail = put - k
  BY <1>0, DistanceCounts DEF AllOf, Counts
<1>2. n \in 0 .. Capacity /\ k + n <= put /\ ~(avail > Capacity)
  BY <1>0, <1>1 DEF Least
<1> HIDE DEF avail, n
<1>3. /\ at["consumer"] = "load"
      /\ seen' = [seen EXCEPT !["consumer"] = write_pos]
      /\ moving' = [moving EXCEPT !["consumer"] = n]
      /\ Goto("consumer", IF n = 0 THEN "empty" ELSE "copy")
      /\ UNCHANGED <<header, window, body_len, put, got, idle, verdict>>
  BY <1>2 DEF CLoad, avail, n
<1> USE DEF Goto, header
<1>4. TypeOK'
  BY <1>2, <1>3 DEF TypeOK, Side, Place
<1>5. Counts(k)'
  BY <1>3, CountsStay DEF AllOf
<1>6. ProducerInv(k)'
  BY <1>3 DEF TypeOK, AllOf, ProducerInv, Side, Holds
<1>7. ConsumerInv(k)'
  BY <1>2, <1>3 DEF TypeOK, AllOf, ConsumerInv, Side
<1> QED BY <1>4, <1>5, <1>6, <1>7 DEF AllOf

(* The output after a copy.                                                *)
LEMMA CopyReads ==
  ASSUME TypeOK, NEW k \in 0 .. Len(got), AllOf(k), CCopy
  PROVE  /\ got' \in Seq(Nat)
         /\ Len(got) = k /\ Len(got') = k + moving["consumer"]
         /\ \A i \in 1 .. Len(got') : got'[i] = i
<1> DEFINE n == moving["consumer"]
           f == [i \in 1 .. n |-> window[OffsetOf(read_pos, i - 1)]]
<1>0. /\ k \in Nat /\ n \in Nat /\ Len(got) = k /\ k + n <= put /\ put \in Nat
      /\ read_pos = k % Word /\ got \in Seq(Nat)
  BY RingAssumption DEF TypeOK, AllOf, Counts, ConsumerInv, CCopy, Side
<1>1. ASSUME NEW i \in 1 .. n
      PROVE  window[OffsetOf(read_pos, i - 1)] = k + i
  <2>1. i - 1 \in Nat /\ k + (i - 1) = (k + i) - 1 /\ k + i \in k + 1 .. put
    BY <1>0
  <2>2. OffsetOf(read_pos, i - 1) = ((k + i) - 1) % Capacity
    BY <1>0, <2>1, OffsetCounts
  <2>3. Holds(k + i)
    BY <2>1 DEF AllOf, Counts
  <2> QED BY <2>2, <2>3 DEF Holds
<1>2. f = [i \in 1 .. n |-> k + i]
  BY <1>1
<1>3. got' = got \o [i \in 1 .. n |-> k + i]
  BY <1>2 DEF CCopy
<1>4. \A i \in 1 .. k : got[i] = i
  BY <1>0 DEF AllOf, Counts
<1> HIDE DEF n, f
<1> DEFINE g == [i \in 1 .. n |-> k + i]
<1>5. g \in Seq(Nat) /\ Len(g) = n /\ \A i \in 1 .. n : g[i] = k + i
  BY <1>0
<1> HIDE DEF g
<1>6. got' \in Seq(Nat) /\ Len(got') = k + n
  BY <1>0, <1>3, <1>5, ConcatProperties DEF g
<1>7. ASSUME NEW i \in 1 .. k + n PROVE got'[i] = i
  <2>1. CASE i <= k
    BY <1>0, <1>3, <1>4, <1>5, <1>7, <2>1, ConcatProperties DEF g
  <2>2. CASE i > k
    <3>1. i - k \in 1 .. n /\ i \in k + 1 .. k + n /\ k + (i - k) = i
      BY <1>0, <1>7, <2>2
    <3>2. got' = got \o g
      BY <1>3 DEF g
    <3>3. got'[i] = g[i - k]
      BY <1>0, <1>5, <1>7, <2>2, <3>2, ConcatProperties
    <3> QED BY <1>5, <3>1, <3>3
  <2> QED BY <1>0, <1>7, <2>1, <2>2
<1> QED BY <1>0, <1>6, <1>7 DEF n

LEMMA CCopyStep ==
  ASSUME TypeOK, NEW k \in 0 .. Len(got), AllOf(k), CCopy
  PROVE  TypeOK' /\ k \in 0 .. Len(got)' /\ AllOf(k)'
<1>0. /\ got' \in Seq(Nat)
      /\ Len(got) = k /\ Len(got') = k + moving["consumer"]
      /\ \A i \in 1 .. Len(got') : got'[i] = i
  BY CopyReads
<1>a. /\ k \in Nat /\ put \in Nat /\ moving["consumer"] \in Nat
      /\ moving["consumer"] >= 1 /\ k + moving["consumer"] <= put
  BY RingAssumption, <1>0 DEF TypeOK, AllOf, Counts, ConsumerInv, CCopy, Side
<1> USE DEF CCopy, Goto, header
<1>1. TypeOK'
  BY <1>0 DEF TypeOK, Side, Place
<1>2. Counts(k)'
  BY <1>0, <1>a DEF AllOf, Counts, Holds
<1>3. ProducerInv(k)'
  BY DEF TypeOK, AllOf, ProducerInv, Side, Holds
<1>4. ConsumerInv(k)'
  BY <1>0, <1>a DEF TypeOK, AllOf, ConsumerInv, Side
<1> QED BY <1>0, <1>a, <1>1, <1>2, <1>3, <1>4 DEF AllOf

LEMMA CPublishStep ==
  ASSUME TypeOK, NEW k \in 0 .. Len(got), AllOf(k), CPublish
  PROVE  TypeOK' /\ AllOf(Len(got))'
<1> DEFINE n == moving["consumer"]
<1>0. /\ put \in Nat /\ k \in Nat /\ n \in Nat /\ Len(got) = k + n /\ Len(got) <= put
      /\ Word \in Nat \ {0} /\ read_pos = k % Word
      /\ put <= k + Capacity /\ Capacity \in Nat /\ k <= Len(got)
  BY RingAssumption DEF TypeOK, AllOf, Counts, ConsumerInv, CPublish, Side
<1>1. read_pos' = Len(got) % Word
  BY <1>0, AdvanceCounts DEF CPublish
<1>2. read_pos' \in Cursor
  <2>1. k + n \in Nat
    BY <1>0
  <2> QED BY <1>0, <1>1, <2>1, Division DEF Cursor
<1> USE DEF CPublish, Goto, Progress
<1>3. TypeOK'
  BY <1>0, <1>2, RingAssumption DEF TypeOK, Side, Place
<1>4. Counts(Len(got))'
  BY <1>0, <1>1, SMTT(20) DEF AllOf, Counts, Holds
<1>5. ProducerInv(Len(got))'
  BY <1>0 DEF TypeOK, AllOf, ProducerInv, Side, Holds
<1>6. ConsumerInv(Len(got))'
  BY <1>0 DEF TypeOK, AllOf, ConsumerInv, Side
<1> QED BY <1>3, <1>4, <1>5, <1>6 DEF AllOf

LEMMA CWakeStep ==
  ASSUME TypeOK, NEW k \in 0 .. Len(got), AllOf(k), CWake
  PROVE  TypeOK' /\ AllOf(k)'
<1> USE DEF CWake, Woken, header
<1>1. TypeOK'
  BY DEF TypeOK, Side, Place, Verdict
<1>2. Counts(k)'
  BY CountsStay DEF AllOf
<1>3. ProducerInv(k)'
  BY DEF TypeOK, AllOf, ProducerInv, Side, Holds
<1>4. ConsumerInv(k)'
  BY DEF TypeOK, AllOf, ConsumerInv, Side
<1> QED BY <1>1, <1>2, <1>3, <1>4 DEF AllOf

-----------------------------------------------------------------------------
LEMMA StepHolds == IInv /\ [Next]_vars => IInv'
<1> SUFFICES ASSUME IInv, [Next]_vars PROVE IInv'
  OBVIOUS
<1>0. PICK k \in 0 .. Len(got) : AllOf(k)
  BY DEF IInv
<1>1. TypeOK
  BY DEF IInv
<1>2. ASSUME TypeOK' /\ AllOf(k)', got' = got PROVE IInv'
  BY <1>2 DEF IInv
<1>3. CASE Producer
  <2>1. got' = got
    BY <1>3 DEF Producer, PLoad, PWait, WaitFor, Slice, PCopy, PPublish, PWake, PDrop
  <2>2. TypeOK' /\ AllOf(k)'
    BY <1>0, <1>1, <1>3, PLoadStep, WaitForStep, SliceStep, PCopyStep, PPublishStep,
       PWakeStep, PDropStep DEF Producer, Side
  <2> QED BY <1>2, <2>1, <2>2
<1>4. CASE CCopy
  BY <1>0, <1>1, <1>4, CCopyStep DEF IInv
<1>5. CASE CPublish
  <2>1. TypeOK' /\ AllOf(Len(got))' /\ got' = got
    BY <1>0, <1>1, <1>5, CPublishStep DEF CPublish
  <2>2. Len(got) \in 0 .. Len(got)
    BY <1>1 DEF TypeOK
  <2> QED BY <2>1, <2>2 DEF IInv
<1>6. CASE CStart \/ CLoad \/ CEmpty \/ CWait \/ Slice("consumer") \/ CWake
  <2>1. got' = got
    BY <1>6 DEF CStart, CLoad, CEmpty, CWait, WaitFor, Slice, CWake
  <2>2. TypeOK' /\ AllOf(k)'
    BY <1>0, <1>1, <1>6, CStartStep, CLoadStep, WaitForStep, SliceStep, CWakeStep DEF Side
  <2> QED BY <1>2, <2>1, <2>2
<1>7. CASE \E s \in Side : Dies(s) \/ TimePasses(s)
  <2>1. got' = got
    BY <1>7 DEF Dies, TimePasses
  <2>2. TypeOK' /\ AllOf(k)'
    BY <1>0, <1>1, <1>7, DiesStep, TimePassesStep
  <2> QED BY <1>2, <2>1, <2>2
<1>8. CASE UNCHANGED vars
  <2>1. got' = got /\ Counts(k)'
    BY <1>0, <1>8, CountsStay DEF vars, header, AllOf
  <2>2. TypeOK'
    BY <1>1, <1>8 DEF vars, header, TypeOK
  <2>3. ProducerInv(k)'
    BY <1>0, <1>8 DEF vars, header, AllOf, ProducerInv, Holds
  <2>4. ConsumerInv(k)'
    BY <1>0, <1>8 DEF vars, header, AllOf, ConsumerInv
  <2> QED BY <1>2, <2>1, <2>2, <2>3, <2>4 DEF AllOf
<1> QED BY <1>3, <1>4, <1>5, <1>6, <1>7, <1>8 DEF Next, Consumer

(* Every reachable state satisfies the inductive invariant.                *)
LEMMA Reachable == Spec => []IInv
BY InitHolds, StepHolds, PTL DEF Spec

-----------------------------------------------------------------------------
(* The header, the window and the locals of both sides keep their types.   *)
THEOREM RingTypes == Spec => []TypeOK
BY Reachable, PTL DEF IInv

(* The output of consume is the body in order and without a gap or a       *)
(* repetition, and the whole body when it is returned, whatever the window,*)
(* the word size, the chunks and the length.                               *)
THEOREM BytesAreInOrder == Spec => []BytesInOrder
<1>1. IInv => BytesInOrder
  <2>1. SUFFICES ASSUME IInv PROVE BytesInOrder
    OBVIOUS
  <2>2. PICK k \in 0 .. Len(got) : AllOf(k)
    BY <2>1 DEF IInv
  <2>3. DOMAIN got = 1 .. Len(got)
    BY <2>1 DEF IInv, TypeOK
  <2> QED BY <2>2, <2>3 DEF AllOf, Counts, ConsumerInv, BytesInOrder
<1> QED BY <1>1, Reachable, PTL

(* No cursor check of write_all or consume ever fails between these two.   *)
THEOREM NoFalseCorruption == Spec => []HonestNeverCorrupt
<1>1. IInv => HonestNeverCorrupt
  BY DEF IInv, AllOf, ProducerInv, ConsumerInv, HonestNeverCorrupt, Side
<1> QED BY <1>1, Reachable, PTL

(* The bytes a copy of write_all and a copy of consume touch at the same   *)
(* time are different bytes of the window.                                 *)
THEOREM CopiesAreDisjoint == Spec => []RegionsDisjoint
<1>1. IInv => RegionsDisjoint
  <2>1. SUFFICES ASSUME IInv, at["producer"] = "copy", at["consumer"] = "copy",
                        NEW o \in Region(write_pos, moving["producer"]),
                        o \in Region(read_pos, moving["consumer"])
                 PROVE  FALSE
    BY DEF RegionsDisjoint
  <2>2. PICK k \in 0 .. Len(got) : AllOf(k)
    BY <2>1 DEF IInv
  <2> DEFINE n == moving["producer"]
             m == moving["consumer"]
  <2>3. /\ put \in Nat /\ k \in Nat /\ n \in Nat /\ m \in Nat
        /\ put + n <= k + Capacity /\ k + m <= put /\ Capacity \in Nat \ {0}
        /\ write_pos = put % Word /\ read_pos = k % Word
    BY <2>1, <2>2, RingAssumption
       DEF IInv, TypeOK, AllOf, Counts, ProducerInv, ConsumerInv, Side
  <2>4. PICK i \in 0 .. n - 1 : OffsetOf(write_pos, i) = o
    BY <2>1 DEF Region
  <2>5. PICK j \in 0 .. m - 1 : OffsetOf(read_pos, j) = o
    BY <2>1 DEF Region
  <2> HIDE DEF n, m
  <2>6. i \in Nat /\ j \in Nat
    BY <2>3
  <2>7. OffsetOf(write_pos, i) = (put + i) % Capacity
    BY <2>3, <2>6, OffsetCounts
  <2>8. OffsetOf(read_pos, j) = (k + j) % Capacity
    BY <2>3, <2>6, OffsetCounts
  <2>9. put + i \in Nat /\ k + j \in Nat /\ k + j < put + i /\ put + i < k + j + Capacity
    BY <2>3, <2>4, <2>5, <2>6
  <2> QED BY <2>3, <2>4, <2>5, <2>7, <2>8, <2>9, Apart
<1> QED BY <1>1, Reachable, PTL

-----------------------------------------------------------------------------
(* The ring implements the pipe.                                           *)

Sink == IF verdict["consumer"] = "all" THEN "all"
        ELSE IF Stopped("consumer") THEN "failed" ELSE "open"

LEMMA Numbered ==
  ASSUME NEW n \in Nat
  PROVE  [i \in 1 .. n |-> i] \in Seq(Nat) /\ Len([i \in 1 .. n |-> i]) = n
BY SMT

LEMMA NumberedPrefix ==
  ASSUME NEW n \in Nat, NEW m \in 0 .. n
  PROVE  SubSeq([i \in 1 .. n |-> i], 1, m) = [i \in 1 .. m |-> i]
BY SMT

LEMMA PipeInit == Init => Pipe!Init
<1> SUFFICES ASSUME Init PROVE Pipe!Init
  OBVIOUS
<1>1. [i \in 1 .. put |-> i] = <<>>
  BY DEF Init
<1> QED BY <1>1 DEF Init, Pipe!Init, Stopped, Side

(* A publication of the producer puts its bytes into the pipe.             *)
LEMMA PipePut ==
  ASSUME IInv, PPublish
  PROVE  \E n \in 1 .. Capacity : Pipe!Put(n)
<1>0. PICK n : n = moving["producer"]
  OBVIOUS
<1>1. PICK k \in 0 .. Len(got) : AllOf(k)
  BY DEF IInv
<1>2. /\ put \in Nat /\ n \in 1 .. Capacity /\ k \in Nat /\ Len(got) \in Nat /\ k <= Len(got)
      /\ put + n <= k + Capacity /\ put + n <= body_len /\ body_len \in Nat
      /\ done = "streaming"
  BY <1>0, <1>1, RingAssumption DEF IInv, TypeOK, AllOf, Counts, ProducerInv, PPublish, Side
<1>3. put' = put + n
  BY <1>0 DEF PPublish
<1>4. Len([i \in 1 .. put |-> i]) = put
  BY <1>2, Numbered
<1>5. [i \in 1 .. put' |-> i] = SubSeq([i \in 1 .. body_len |-> i], 1, put + n)
  BY <1>2, <1>3, NumberedPrefix
<1>6. Stopped("consumer")' = Stopped("consumer") /\ verdict' = verdict
      /\ UNCHANGED <<body_len, got, done>>
  BY DEF PPublish, Goto, IInv, TypeOK, Side, Stopped
<1>7. Pipe!Put(n)
  <2>1. Len([i \in 1 .. put |-> i]) + n <= body_len
        /\ Len([i \in 1 .. put |-> i]) + n - Len(got) <= Capacity
    BY <1>2, <1>4, RingAssumption
  <2>2. [i \in 1 .. put' |-> i]
          = SubSeq(Pipe!Body, 1, Len([i \in 1 .. put |-> i]) + n)
    BY <1>4, <1>5 DEF Pipe!Body
  <2> QED BY <1>2, <1>6, <2>1, <2>2 DEF Pipe!Put
<1>8. n \in 1 .. Capacity
  BY <1>2
<1> QED BY <1>7, <1>8

(* A copy of the consumer takes bytes out of it.                           *)
LEMMA PipeTake ==
  ASSUME IInv, CCopy
  PROVE  \E n \in 1 .. Capacity : Pipe!Take(n)
<1>0. PICK n : n = moving["consumer"]
  OBVIOUS
<1>1. PICK k \in 0 .. Len(got) : AllOf(k)
  BY DEF IInv
<1>2. /\ got' \in Seq(Nat) /\ Len(got) = k /\ Len(got') = k + n
      /\ \A i \in 1 .. Len(got') : got'[i] = i
  BY <1>0, <1>1, CopyReads DEF IInv
<1>3. /\ put \in Nat /\ k \in Nat /\ n \in 1 .. Capacity /\ k + n <= put /\ got \in Seq(Nat)
      /\ \A i \in 1 .. k : got[i] = i
      /\ at["consumer"] = "copy" /\ verdict["consumer"] = "none" /\ n \in Nat
  BY <1>0, <1>1, <1>2, RingAssumption DEF IInv, TypeOK, AllOf, Counts, ConsumerInv, CCopy, Side
<1>4. Len([i \in 1 .. put |-> i]) = put /\ [i \in 1 .. put |-> i] \in Seq(Nat)
  BY <1>3, Numbered
<1>5. got' = got \o SubSeq([i \in 1 .. put |-> i], k + 1, k + n)
  <2> DEFINE g == SubSeq([i \in 1 .. put |-> i], k + 1, k + n)
  <2>1. g \in Seq(Nat) /\ Len(g) = n /\ \A i \in 1 .. n : g[i] = k + i
    BY <1>3
  <2> HIDE DEF g
  <2>2. got \o g \in Seq(Nat) /\ Len(got \o g) = k + n
    BY <1>2, <1>3, <2>1, ConcatProperties
  <2>3. ASSUME NEW i \in 1 .. k + n PROVE (got \o g)[i] = i
    <3>0. /\ got \in Seq(Nat) /\ g \in Seq(Nat) /\ Len(got) = k /\ Len(g) = n
          /\ i \in 1 .. Len(got) + Len(g)
      BY <1>2, <1>3, <2>1
    <3>1. (got \o g)[i] = IF i <= k THEN got[i] ELSE g[i - k]
      BY <3>0, ConcatProperties
    <3>2. CASE i <= k
      BY <1>3, <3>1, <3>2
    <3>3. CASE i > k
      <4>1. i - k \in 1 .. n /\ k + (i - k) = i
        BY <1>3, <3>3
      <4>2. g[i - k] = k + (i - k)
        BY <2>1, <4>1
      <4>3. (got \o g)[i] = g[i - k]
        BY <1>3, <3>1, <3>3
      <4> QED BY <4>1, <4>2, <4>3
    <3>4. i <= k \/ i > k
      <4>1. k \in Nat /\ n \in Nat
        BY <1>3
      <4> QED BY <4>1
    <3> QED BY <3>2, <3>3, <3>4
  <2>4. got' = got \o g
    BY <1>2, <1>3, <2>2, <2>3, SeqEqual
  <2> QED BY <2>4 DEF g
<1>6. /\ UNCHANGED <<body_len, put, done, verdict>> /\ at'["consumer"] = "publish"
  BY DEF CCopy, Goto, header, IInv, TypeOK, Side
<1>7. Pipe!Take(n)
  BY <1>2, <1>3, <1>4, <1>5, <1>6 DEF Pipe!Take, Stopped
<1> QED BY <1>3, <1>7

(* The flag of a producer that is dropped: finished only with everything   *)
(* published.                                                              *)
LEMMA PipeClose ==
  ASSUME IInv, PDrop
  PROVE  Pipe!Finish \/ Pipe!Abort
<1>1. PICK k \in 0 .. Len(got) : AllOf(k)
  BY DEF IInv
<1>2. /\ done = "streaming" /\ put \in Nat
      /\ verdict["producer"] = "finished" => put = body_len
  BY <1>1 DEF IInv, TypeOK, AllOf, ProducerInv, PDrop
<1>3. Len([i \in 1 .. put |-> i]) = put
  BY <1>2, Numbered
<1>4. /\ UNCHANGED <<body_len, put, got, verdict>> /\ Stopped("consumer")' = Stopped("consumer")
      /\ done' = Status
  BY DEF PDrop, Goto, IInv, TypeOK, Side, Stopped
<1>5. CASE verdict["producer"] = "finished"
  BY <1>2, <1>3, <1>4, <1>5 DEF Pipe!Finish, Status
<1>6. CASE verdict["producer"] # "finished"
  BY <1>2, <1>4, <1>6 DEF Pipe!Abort, Status
<1> QED BY <1>5, <1>6

(* A consumer that leaves its loop concludes, or has failed.               *)
LEMMA PipeLeave ==
  ASSUME IInv,
         UNCHANGED <<body_len, put, got, done>>,
         at["consumer"] \notin {"over", "dead"},
         at' \in [Side -> Place],
         \/ at'["consumer"] \notin {"over", "dead"} /\ verdict'["consumer"] = "none"
         \/ at'["consumer"] \in {"over", "dead"} /\ verdict'["consumer"] # "all"
         \/ /\ at'["consumer"] = "over" /\ verdict'["consumer"] = "all"
            /\ Len(got) = body_len
  PROVE  [Pipe!Next]_Pipe!vars
<1>1. PICK k \in 0 .. Len(got) : AllOf(k)
  BY DEF IInv
<1>2. /\ verdict["consumer"] = "none" /\ got \in Seq(Nat) /\ body_len \in Nat
      /\ \A i \in 1 .. Len(got) : got[i] = i
  BY <1>1, RingAssumption DEF IInv, TypeOK, AllOf, Counts, ConsumerInv
<1>3. Sink = "open"
  BY <1>2 DEF Sink, Stopped
<1>4. CASE at'["consumer"] \notin {"over", "dead"} /\ verdict'["consumer"] = "none"
  <2>1. Sink' = "open"
    BY <1>4 DEF Sink, Stopped
  <2> QED BY <1>3, <2>1 DEF Pipe!vars, Sink
<1>5. CASE at'["consumer"] \in {"over", "dead"} /\ verdict'["consumer"] # "all"
  <2>1. Sink' = "failed"
    BY <1>5 DEF Sink, Stopped
  <2>2. Pipe!Fail
    BY <1>3, <2>1 DEF Pipe!Fail, Sink
  <2> QED BY <2>2 DEF Pipe!Next
<1>6. CASE /\ at'["consumer"] = "over" /\ verdict'["consumer"] = "all"
           /\ Len(got) = body_len
  <2>1. Sink' = "all"
    BY <1>6 DEF Sink, Stopped
  <2>2. got = [i \in 1 .. body_len |-> i]
    <3>1. [i \in 1 .. body_len |-> i] \in Seq(Nat) /\ Len([i \in 1 .. body_len |-> i]) = body_len
      BY <1>2, Numbered
    <3>2. \A j \in 1 .. Len(got) : got[j] = [i \in 1 .. body_len |-> i][j]
      BY <1>2, <1>6
    <3> QED BY <1>2, <1>6, <3>1, <3>2, SeqEqual
  <2>3. Pipe!Conclude
    BY <1>3, <2>1, <2>2 DEF Pipe!Conclude, Pipe!Body, Sink
  <2> QED BY <2>3 DEF Pipe!Next
<1> QED BY <1>4, <1>5, <1>6

LEMMA PipeStep == IInv /\ [Next]_vars => [Pipe!Next]_Pipe!vars
<1> SUFFICES ASSUME IInv, [Next]_vars PROVE [Pipe!Next]_Pipe!vars
  OBVIOUS
<1>1. PICK k \in 0 .. Len(got) : AllOf(k)
  BY DEF IInv
<1>2. ASSUME UNCHANGED <<body_len, put, got, done, verdict>>,
             Stopped("consumer")' = Stopped("consumer")
      PROVE  [Pipe!Next]_Pipe!vars
  BY <1>2 DEF Pipe!vars
<1>3. /\ at \in [Side -> Place] /\ verdict \in [Side -> Verdict]
      /\ at["consumer"] # "over" => verdict["consumer"] = "none"
  BY <1>1 DEF IInv, TypeOK, AllOf, ConsumerInv
<1>4. CASE PPublish
  BY <1>4, PipePut DEF Pipe!Next
<1>5. CASE CCopy
  BY <1>5, PipeTake DEF Pipe!Next
<1>6. CASE PDrop
  BY <1>6, PipeClose DEF Pipe!Next
<1>7. CASE PLoad \/ PWait \/ Slice("producer") \/ PCopy \/ PWake
  <2>1. /\ UNCHANGED <<body_len, put, got, done>> /\ verdict'["consumer"] = verdict["consumer"]
        /\ Stopped("consumer")' = Stopped("consumer")
    BY <1>3, <1>7 DEF PLoad, PWait, WaitFor, Slice, PCopy, PWake, Woken, Leave, Goto, header,
       Side, Stopped
  <2> QED BY <2>1 DEF Pipe!vars
<1>8. CASE CPublish \/ Slice("consumer")
  <2>1. UNCHANGED <<body_len, put, got, done, verdict>>
        /\ Stopped("consumer")' = Stopped("consumer")
    BY <1>3, <1>8 DEF CPublish, Slice, Goto, header, Side, Stopped
  <2> QED BY <1>2, <2>1
<1>9. CASE CStart \/ CLoad \/ CEmpty \/ CWait \/ CWake \/ Dies("consumer")
  <2>1. UNCHANGED <<body_len, put, got, done>> /\ at["consumer"] \notin {"over", "dead"}
    BY <1>9 DEF CStart, CLoad, CEmpty, CWait, WaitFor, CWake, Dies, Stopped, header
  <2>2. at' \in [Side -> Place]
    BY <1>3, <1>9 DEF CStart, CLoad, CEmpty, CWait, WaitFor, CWake, Dies, Woken, Leave, Goto,
       Side, Place
  <2>3. \/ at'["consumer"] \notin {"over", "dead"} /\ verdict'["consumer"] = "none"
        \/ at'["consumer"] \in {"over", "dead"} /\ verdict'["consumer"] # "all"
        \/ /\ at'["consumer"] = "over" /\ verdict'["consumer"] = "all"
           /\ Len(got) = body_len
    BY <1>3, <1>9, <2>1 DEF CStart, CLoad, CEmpty, CWait, WaitFor, CWake, Dies, Leave, Goto, Side
  <2> QED BY <2>1, <2>2, <2>3, PipeLeave
<1>10. CASE Dies("producer") \/ \E s \in Side : TimePasses(s)
  <2>1. UNCHANGED <<body_len, put, got, done, verdict>>
        /\ Stopped("consumer")' = Stopped("consumer")
    BY <1>3, <1>10 DEF Dies, TimePasses, Goto, header, Side, Stopped
  <2> QED BY <1>2, <2>1
<1>11. CASE UNCHANGED vars
  <2>1. UNCHANGED <<body_len, put, got, done, verdict>>
        /\ Stopped("consumer")' = Stopped("consumer")
    BY <1>11 DEF vars, header, Stopped
  <2> QED BY <1>2, <2>1
<1> QED
  BY <1>4, <1>5, <1>6, <1>7, <1>8, <1>9, <1>10, <1>11 DEF Next, Producer, Consumer, Side

(* Every behaviour of the ring is one of the bounded pipe of Stream: in    *)
(* order, once, at most Capacity under way, finished only when everything  *)
(* was published, all only when everything was taken.                      *)
THEOREM RingIsAPipe == Spec => IsAPipe
<1>1. Init => Pipe!Init
  BY PipeInit
<1>2. IInv /\ [Next]_vars => [Pipe!Next]_Pipe!vars
  BY PipeStep
<1> QED BY <1>1, <1>2, Reachable, PTL DEF Spec, IsAPipe, Pipe!Spec
=============================================================================
