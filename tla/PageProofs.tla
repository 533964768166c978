----------------------------- MODULE PageProofs ------------------------------
(* Proofs about module Page, for all hostings and any number of            *)
(* navigations.                                                            *)
EXTENDS Page, FiniteSetTheorems, SequenceTheorems, TLAPS

-----------------------------------------------------------------------------
(* The messages of one kind in a queue.                                    *)

At(s, what) == {i \in 1 .. Len(s) : s[i].what = what}

Count(s, what) == Cardinality(At(s, what))

LEMMA CountType ==
  ASSUME NEW S, NEW s \in Seq(S), NEW what
  PROVE  /\ IsFiniteSet(At(s, what)) /\ Count(s, what) \in Nat
         /\ At(s, what) \subseteq 1 .. Len(s) /\ Len(s) \in Nat
         /\ Count(s, what) = 0 => At(s, what) = {}
<1>1. Len(s) \in Nat
  BY LenProperties
<1>2. IsFiniteSet(1 .. Len(s)) /\ At(s, what) \in SUBSET (1 .. Len(s))
  BY <1>1, FS_Interval DEF At
<1>3. IsFiniteSet(At(s, what))
  BY <1>2, FS_Subset
<1> QED BY <1>1, <1>2, <1>3, FS_CardinalityType, FS_EmptySet DEF Count

LEMMA Appended ==
  ASSUME NEW S, NEW s \in Seq(S), NEW x \in S
  PROVE  /\ Append(s, x) \in Seq(S) /\ Len(s) \in Nat
         /\ Len(Append(s, x)) = Len(s) + 1
         /\ \A i \in 1 .. Len(s) : Append(s, x)[i] = s[i]
         /\ Append(s, x)[Len(s) + 1] = x
         /\ \A what : At(Append(s, x), what) =
              At(s, what) \cup (IF x.what = what THEN {Len(s) + 1} ELSE {})
<1>1. /\ Append(s, x) \in Seq(S) /\ Len(s) \in Nat
      /\ Len(Append(s, x)) = Len(s) + 1
      /\ \A i \in 1 .. Len(s) : Append(s, x)[i] = s[i]
      /\ Append(s, x)[Len(s) + 1] = x
  BY AppendProperties, LenProperties
<1>2. 1 .. Len(s) + 1 = 1 .. Len(s) \cup {Len(s) + 1}
  BY <1>1
<1>3. ASSUME NEW what
      PROVE  At(Append(s, x), what) =
               At(s, what) \cup (IF x.what = what THEN {Len(s) + 1} ELSE {})
  BY <1>1, <1>2 DEF At
<1> QED BY <1>1, <1>3

LEMMA AppendCounts ==
  ASSUME NEW S, NEW s \in Seq(S), NEW x \in S, NEW what
  PROVE  Count(Append(s, x), what) =
           Count(s, what) + (IF x.what = what THEN 1 ELSE 0)
<1>1. /\ IsFiniteSet(At(s, what)) /\ Count(s, what) \in Nat
      /\ At(s, what) \subseteq 1 .. Len(s) /\ Len(s) \in Nat
  BY CountType
<1>2. Len(s) + 1 \notin At(s, what)
  BY <1>1
<1>3. At(Append(s, x), what) =
        At(s, what) \cup (IF x.what = what THEN {Len(s) + 1} ELSE {})
  BY Appended
<1>4. CASE x.what = what
  BY <1>1, <1>2, <1>3, <1>4, FS_AddElement, ZenonT(30) DEF Count
<1>5. CASE x.what # what
  BY <1>1, <1>3, <1>5 DEF Count
<1> QED BY <1>4, <1>5

(* t is s without its head.                                                *)
Shifted(s, t) ==
  /\ \A i, what : i \in At(t, what) =>
       i \in Nat \ {0} /\ i + 1 \in At(s, what) /\ t[i] = s[i + 1]
  /\ \A i \in Nat \ {0} : \A what : i + 1 \in At(s, what) => i \in At(t, what)

LEMMA HeadTaken ==
  ASSUME NEW S, NEW s \in Seq(S), s # <<>>
  PROVE  /\ Tail(s) \in Seq(S) /\ Head(s) = s[1] /\ Head(s) \in S
         /\ Len(s) \in Nat \ {0} /\ Len(Tail(s)) = Len(s) - 1
         /\ \A i \in 1 .. Len(Tail(s)) : Tail(s)[i] = s[i + 1]
         /\ Shifted(s, Tail(s))
<1>1. Len(s) \in Nat /\ Len(s) # 0
  BY LenProperties, EmptySeq
<1>2. /\ Head(s) \in S /\ Tail(s) \in Seq(S)
      /\ Len(Tail(s)) = Len(s) - 1
      /\ \A i \in 1 .. Len(Tail(s)) : Tail(s)[i] = s[i + 1]
  BY HeadTailProperties
<1>3. Head(s) = s[1]
  OBVIOUS
<1>4. ASSUME NEW i \in Nat \ {0}, NEW what
      PROVE  /\ i \in At(Tail(s), what) <=> i + 1 \in At(s, what)
             /\ i \in At(Tail(s), what) => Tail(s)[i] = s[i + 1]
  <2>1. i \in 1 .. Len(Tail(s)) <=> i + 1 \in 1 .. Len(s)
    BY <1>1, <1>2
  <2> QED BY <1>2, <2>1 DEF At
<1>5. \A i, what : i \in At(Tail(s), what) => i \in Nat \ {0}
  BY DEF At
<1>6. Shifted(s, Tail(s))
  BY <1>4, <1>5 DEF Shifted
<1> QED BY <1>1, <1>2, <1>3, <1>6

(* A set of positions and the same set one place further.                  *)
LEMMA ShiftedCardinality ==
  ASSUME NEW A \in SUBSET Nat, NEW B \in SUBSET Nat, IsFiniteSet(B), 0 \notin B,
         \A i \in Nat : i \in A <=> i + 1 \in B
  PROVE  Cardinality(A) = Cardinality(B)
<1> DEFINE back == [i \in B |-> i - 1]
<1>1. back \in [B -> A]
  <2>1. ASSUME NEW i \in B PROVE i - 1 \in A
    <3>1. i - 1 \in Nat /\ (i - 1) + 1 = i
      BY <2>1
    <3> QED BY <3>1
  <2> QED BY <2>1
<1>2. \A i, j \in B : back[i] = back[j] => i = j
  OBVIOUS
<1>3. \A i \in A : \E j \in B : back[j] = i
  <2>1. ASSUME NEW i \in A PROVE i + 1 \in B /\ back[i + 1] = i
    <3>1. i + 1 \in B
      BY <2>1
    <3> QED BY <3>1
  <2> QED BY <2>1
<1>4. back \in Bijection(B, A)
  BY <1>1, <1>2, <1>3 DEF Bijection, Injection, Surjection, IsInjective
<1>5. ExistsBijection(B, A)
  BY <1>4 DEF ExistsBijection
<1> QED BY <1>5, FS_Bijection

LEMMA TailCounts ==
  ASSUME NEW S, NEW s \in Seq(S), s # <<>>, NEW what
  PROVE  Count(s, what) =
           Count(Tail(s), what) + (IF Head(s).what = what THEN 1 ELSE 0)
<1> DEFINE B == At(s, what) \ {1}
<1>1. /\ Head(s) = s[1] /\ Len(s) \in Nat \ {0} /\ Tail(s) \in Seq(S)
      /\ Shifted(s, Tail(s))
  BY HeadTaken
<1>2. /\ IsFiniteSet(At(s, what)) /\ Count(s, what) \in Nat
      /\ At(s, what) \subseteq 1 .. Len(s)
  BY CountType
<1>3. 1 \in At(s, what) <=> Head(s).what = what
  BY <1>1 DEF At
<1>4. /\ IsFiniteSet(B)
      /\ Cardinality(B) = IF 1 \in At(s, what) THEN Cardinality(At(s, what)) - 1
                          ELSE Cardinality(At(s, what))
  BY <1>2, FS_RemoveElement
<1>5. \A i \in Nat : i \in At(Tail(s), what) <=> i + 1 \in B
  <2>1. \A i \in Nat \ {0} : i + 1 # 1
    OBVIOUS
  <2> QED BY <1>1, <2>1 DEF Shifted
<1>6. Cardinality(At(Tail(s), what)) = Cardinality(B)
  <2>1. B \in SUBSET Nat /\ 0 \notin B /\ At(Tail(s), what) \in SUBSET Nat
    BY <1>1, <1>2 DEF Shifted
  <2> HIDE DEF B
  <2> QED BY <1>4, <1>5, <2>1, ShiftedCardinality
<1> QED BY <1>2, <1>3, <1>4, <1>6 DEF Count

-----------------------------------------------------------------------------
(* The inductive invariant.                                                *)

Kinds == {"RenderPage", "Shutdown", "stale"}

InboxMessage == FromRenderer \cup [what : {"TabGone"}]

Waiting == IF renderer = "waiting" THEN 1 ELSE 0

(* A navigation is at one place: its command is in the link, its load is   *)
(* under way, its tile is on the way, its frame is delivered.              *)
FramesAccounted ==
  frames + Count(inbox, "tile") + Count(up, "tile") + Waiting
    + Count(down, "RenderPage") <= navigations

(* A descriptor stands behind every streamed answer, which is of a fetch.  *)
Followed(s) ==
  \A i \in At(s, "answer") : s[i].stream =>
    i + 1 \in At(s, "fd") /\ Exchanges[s[i].to.step] = "NeedFetch"

Streamed(h, s) == (At(s, "fd") # {} => h = "forked") /\ Followed(s)

(* And none stands anywhere else, as long as nothing strayed.              *)
Preceded(s) ==
  \A i \in At(s, "fd") : i - 1 \in At(s, "answer") /\ s[i - 1].stream

(* The question the renderer waits with is the only one anywhere between   *)
(* the renderer and the loop, going or answered.                           *)
OneAtATime ==
  /\ pending \subseteq {at}
  /\ Count(up, "ask") + Count(inbox, "ask") + Cardinality(pending)
       + Count(down, "answer") <= Waiting
  /\ \A i \in At(up, "ask") : up[i].q = at
  /\ \A i \in At(inbox, "ask") : inbox[i].q = at
  /\ \A i \in At(down, "answer") : down[i].to = at

InStep == OneAtATime /\ Preceded(down)

IInv ==
  /\ TypeOK /\ MixedOnlyAfterStrays /\ FramesAccounted /\ Streamed(hosting, down)
  /\ strays = {} /\ renderer # "gone" => InStep

-----------------------------------------------------------------------------
(* What is sent, and what is received.                                     *)

LEMMA Sent ==
  /\ \A q \in Question : [what |-> "ask", q |-> q] \in FromRenderer
  /\ \A u \in Url : /\ [what |-> "tile", url |-> u] \in FromRenderer
                    /\ [what |-> "RenderPage", url |-> u] \in ToRenderer
  /\ [what |-> "Shutdown"] \in ToRenderer /\ [what |-> "fd"] \in ToRenderer
  /\ [what |-> "stale"] \in ToRenderer
  /\ [what |-> "TabGone"] \in InboxMessage
  /\ \A m \in FromRenderer : m \in InboxMessage
  /\ \A q \in Question, b \in BOOLEAN :
       [what |-> "answer", to |-> q, stream |-> b] \in ToRenderer
BY DEF FromRenderer, ToRenderer, InboxMessage

LEMMA Received ==
  /\ \A m \in ToRenderer :
       /\ m.what \in Kinds \cup {"fd", "answer"}
       /\ m.what = "RenderPage" => m.url \in Url
       /\ m.what = "answer" => m.to \in Question /\ m.stream \in BOOLEAN
  /\ \A m \in InboxMessage : m.what = "ask" => m.q \in Question
BY DEF FromRenderer, ToRenderer, InboxMessage, Kinds

LEMMA Questions ==
  /\ \A u \in Url : [url |-> u, step |-> 1] \in Question
  /\ \A q \in Question : /\ q.url \in Url /\ q.step \in Step
                         /\ q.step < Len(Exchanges) =>
                              [q EXCEPT !.step = @ + 1] \in Question
<1>1. Len(Exchanges) = 9
  BY DEF Exchanges
<1>2. 1 \in Step /\ \A i \in Step : i < Len(Exchanges) => i + 1 \in Step
  BY <1>1 DEF Step
<1>3. \A q \in Question : q.url \in Url /\ q.step \in Step
  BY DEF Question
<1>4. \A u \in Url : [url |-> u, step |-> 1] \in Question
  BY <1>2 DEF Question
<1>5. ASSUME NEW q \in Question, q.step < Len(Exchanges)
      PROVE  [q EXCEPT !.step = @ + 1] \in Question
  <2>1. q.step + 1 \in Step
    BY <1>2, <1>3, <1>5
  <2>2. [q EXCEPT !.step = q.step + 1] \in Question
    BY <2>1 DEF Question
  <2> QED BY <2>2
<1> QED BY <1>3, <1>4, <1>5

-----------------------------------------------------------------------------
(* The descriptors in the link.                                            *)

LEMMA StreamedTail ==
  ASSUME NEW h, NEW s \in Seq(ToRenderer), s # <<>>, Streamed(h, s)
  PROVE  Streamed(h, Tail(s))
<1>1. Shifted(s, Tail(s))
  BY HeadTaken
<1>2. At(Tail(s), "fd") # {} => h = "forked"
  BY <1>1 DEF Streamed, Shifted
<1>3. ASSUME NEW i \in At(Tail(s), "answer"), Tail(s)[i].stream
      PROVE  /\ i + 1 \in At(Tail(s), "fd")
             /\ Exchanges[Tail(s)[i].to.step] = "NeedFetch"
  <2>1. /\ i \in Nat \ {0} /\ i + 1 \in Nat \ {0}
        /\ i + 1 \in At(s, "answer") /\ s[i + 1].stream /\ Tail(s)[i] = s[i + 1]
    <3>1. i \in Nat \ {0} /\ i + 1 \in At(s, "answer") /\ Tail(s)[i] = s[i + 1]
      BY <1>1 DEF Shifted
    <3>2. s[i + 1].stream
      BY <1>3, <3>1, Zenon
    <3>3. i + 1 \in Nat \ {0}
      BY <3>1
    <3> QED BY <3>1, <3>2, <3>3
  <2>2. (i + 1) + 1 \in At(s, "fd") /\ Exchanges[s[i + 1].to.step] = "NeedFetch"
    BY <2>1 DEF Streamed, Followed
  <2> QED BY <1>1, <2>1, <2>2 DEF Shifted
<1> QED BY <1>2, <1>3 DEF Streamed, Followed

(* A message without a descriptor is appended.                             *)
LEMMA StreamedAppend ==
  ASSUME NEW h, NEW s \in Seq(ToRenderer), Streamed(h, s), NEW m \in ToRenderer,
         m.what # "fd", m.what = "answer" => ~m.stream
  PROVE  /\ Streamed(h, Append(s, m))
         /\ Preceded(s) => Preceded(Append(s, m))
<1> DEFINE t == Append(s, m)
           n == Len(s) + 1
<1>1. /\ \A i \in 1 .. Len(s) : t[i] = s[i]
      /\ t[n] = m
      /\ \A what : At(t, what) = At(s, what) \cup (IF m.what = what THEN {n} ELSE {})
  BY Appended
<1>2. \A what : At(s, what) \subseteq 1 .. Len(s)
  BY DEF At
<1> HIDE DEF t, n
<1>3. At(t, "fd") = At(s, "fd")
  BY <1>1
<1>4. ASSUME NEW i \in At(t, "answer"), t[i].stream
      PROVE  i + 1 \in At(t, "fd") /\ Exchanges[t[i].to.step] = "NeedFetch"
  <2>1. i # n \/ m.what # "answer"
    BY <1>1, <1>4
  <2>2. i \in At(s, "answer") /\ t[i] = s[i]
    BY <1>1, <1>2, <2>1
  <2> QED BY <1>3, <1>4, <2>2 DEF Streamed, Followed
<1>5. Preceded(s) => Preceded(t)
  BY <1>1, <1>2, <1>3 DEF Preceded
<1> QED BY <1>3, <1>4, <1>5 DEF Streamed, Followed, t

(* A streamed answer is appended, and its descriptor.                      *)
LEMMA StreamedAnswer ==
  ASSUME NEW h, NEW s \in Seq(ToRenderer), Streamed(h, s), h = "forked",
         NEW a \in ToRenderer, a.what = "answer", Exchanges[a.to.step] = "NeedFetch",
         NEW f \in ToRenderer, f.what = "fd", a.stream
  PROVE  LET t == Append(Append(s, a), f) IN
         /\ Streamed(h, t)
         /\ Preceded(s) => Preceded(t)
<1> DEFINE r == Append(s, a)
           t == Append(r, f)
           n == Len(s) + 1
<1>1. /\ \A i \in 1 .. Len(s) : r[i] = s[i]
      /\ r[n] = a /\ n \in Nat /\ r \in Seq(ToRenderer) /\ Len(r) = n
      /\ \A what : At(r, what) = At(s, what) \cup (IF a.what = what THEN {n} ELSE {})
  BY Appended
<1> HIDE DEF r
<1>2. /\ \A i \in 1 .. n : t[i] = r[i]
      /\ t[n + 1] = f
      /\ \A what : At(t, what) = At(r, what) \cup (IF f.what = what THEN {n + 1} ELSE {})
  BY <1>1, Appended
<1>3. (\A what : At(s, what) \subseteq 1 .. Len(s)) /\ Len(s) \in Nat
  BY LenProperties DEF At
<1> HIDE DEF t
<1>4. At(t, "fd") = At(s, "fd") \cup {n + 1} /\ At(t, "answer") = At(s, "answer") \cup {n}
  BY <1>1, <1>2
<1>5. t[n] = a /\ \A i \in 1 .. Len(s) : t[i] = s[i]
  BY <1>1, <1>2, <1>3
<1>6. ASSUME NEW i \in At(t, "answer"), t[i].stream
      PROVE  i + 1 \in At(t, "fd") /\ Exchanges[t[i].to.step] = "NeedFetch"
  <2>1. CASE i = n
    BY <1>4, <1>5, <2>1
  <2>2. CASE i \in At(s, "answer")
    <3>1. t[i] = s[i]
      BY <1>3, <1>5, <2>2
    <3> QED BY <1>4, <1>6, <2>2, <3>1 DEF Streamed, Followed
  <2> QED BY <1>4, <2>1, <2>2
<1>7. ASSUME Preceded(s), NEW i \in At(t, "fd")
      PROVE  i - 1 \in At(t, "answer") /\ t[i - 1].stream
  <2>1. CASE i = n + 1
    <3>1. i - 1 = n
      BY <1>1, <2>1
    <3> QED BY <1>4, <1>5, <3>1
  <2>2. CASE i \in At(s, "fd")
    <3>1. i - 1 \in At(s, "answer") /\ s[i - 1].stream
      BY <1>7, <2>2 DEF Preceded
    <3>2. t[i - 1] = s[i - 1]
      BY <1>3, <1>5, <3>1
    <3> QED BY <1>4, <3>1, <3>2
  <2> QED BY <1>4, <2>1, <2>2
<1>8. Streamed(h, t)
  BY <1>6 DEF Streamed, Followed
<1>9. Preceded(s) => Preceded(t)
  BY <1>7 DEF Preceded
<1> QED BY <1>8, <1>9 DEF t, r

(* What is not the answer of a streamed body is taken.                     *)
LEMMA PrecededTail ==
  ASSUME NEW s \in Seq(ToRenderer), s # <<>>, Preceded(s),
         ~(Head(s).what = "answer" /\ Head(s).stream)
  PROVE  Preceded(Tail(s))
<1>1. /\ Shifted(s, Tail(s))
      /\ Head(s) = s[1]
  BY HeadTaken
<1>2. ASSUME NEW i \in At(Tail(s), "fd")
      PROVE  i - 1 \in At(Tail(s), "answer") /\ Tail(s)[i - 1].stream
  <2>1. i \in Nat \ {0} /\ i + 1 \in At(s, "fd") /\ (i + 1) - 1 = i
    BY <1>1 DEF Shifted
  <2>2. i \in At(s, "answer") /\ s[i].stream
    BY <2>1 DEF Preceded
  <2>3. i # 1
    BY <1>1, <2>2 DEF At
  <2>4. i - 1 \in Nat \ {0} /\ (i - 1) + 1 = i
    BY <2>1, <2>3
  <2>5. i - 1 \in At(Tail(s), "answer")
    BY <1>1, <2>2, <2>4 DEF Shifted
  <2> QED BY <1>1, <2>2, <2>4, <2>5 DEF Shifted
<1> QED BY <1>2 DEF Preceded

(* The answer of a streamed body is taken with its descriptor.             *)
LEMMA BodyTaken ==
  ASSUME NEW h, NEW s \in Seq(ToRenderer), s # <<>>, Streamed(h, s),
         Head(s).what = "answer", Head(s).stream
  PROVE  /\ Tail(s) \in Seq(ToRenderer) /\ Tail(s) # <<>> /\ Head(Tail(s)).what = "fd"
         /\ Preceded(s) => Preceded(Tail(Tail(s)))
<1>1. /\ Shifted(s, Tail(s))
      /\ Head(s) = s[1] /\ Len(s) \in Nat \ {0} /\ Tail(s) \in Seq(ToRenderer)
  BY HeadTaken
<1>2. 1 \in At(s, "answer")
  BY <1>1 DEF At
<1>3. 1 + 1 \in At(s, "fd")
  BY <1>1, <1>2 DEF Streamed, Followed
<1>4. 1 \in At(Tail(s), "fd")
  BY <1>1, <1>3 DEF Shifted
<1>5. Tail(s) # <<>>
  <2>1. Tail(s) = <<>> => At(Tail(s), "fd") = {}
    BY DEF At
  <2> QED BY <1>4, <2>1
<1> DEFINE t == Tail(s)
<1>6. /\ Shifted(t, Tail(t))
      /\ Head(t) = t[1]
  BY <1>1, <1>5, HeadTaken
<1>7. Head(t).what = "fd"
  BY <1>4, <1>6 DEF At
<1>8. ASSUME Preceded(s), NEW i \in At(Tail(t), "fd")
      PROVE  i - 1 \in At(Tail(t), "answer") /\ Tail(t)[i - 1].stream
  <2> HIDE DEF t
  <2>1. i \in Nat \ {0} /\ i + 1 \in At(t, "fd")
    BY <1>6 DEF Shifted
  <2>2. (i + 1) + 1 \in At(s, "fd") /\ ((i + 1) + 1) - 1 = i + 1
    BY <1>1, <2>1 DEF t, Shifted
  <2>3. i + 1 \in At(s, "answer") /\ s[i + 1].stream
    BY <1>8, <2>2 DEF Preceded
  <2>4. i # 1
    <3>1. ~(2 \in At(s, "answer") /\ 2 \in At(s, "fd"))
      BY DEF At
    <3> QED BY <1>3, <2>3, <3>1
  <2>5. i - 1 \in Nat \ {0} /\ (i - 1) + 1 = i
    BY <2>1, <2>4
  <2>6. i \in At(t, "answer") /\ t[i] = s[i + 1]
    BY <1>1, <2>1, <2>3 DEF t, Shifted
  <2>7. i - 1 \in At(Tail(t), "answer")
    BY <1>6, <2>5, <2>6 DEF Shifted
  <2> QED BY <1>6, <2>3, <2>5, <2>6, <2>7 DEF Shifted
<1> QED BY <1>1, <1>5, <1>7, <1>8 DEF Preceded

-----------------------------------------------------------------------------
(* What the renderer takes and sends.                                      *)

(* One message less, and the descriptor that belongs to it.                *)
LEMMA Taken ==
  ASSUME down \in Seq(ToRenderer), Streamed(hosting, down), down # <<>>,
         Head(down).what # "fd"
  PROVE  /\ Adopted \in Seq(ToRenderer) /\ Streamed(hosting, Adopted)
         /\ Count(down, "RenderPage") =
              Count(Adopted, "RenderPage")
                + (IF Head(down).what = "RenderPage" THEN 1 ELSE 0)
         /\ Count(down, "answer") =
              Count(Adopted, "answer") + (IF Head(down).what = "answer" THEN 1 ELSE 0)
         /\ Preceded(down) /\ (Head(down).what = "answer" => Head(down).to = at) =>
              Preceded(Adopted)
<1>1. /\ Tail(down) \in Seq(ToRenderer) /\ Streamed(hosting, Tail(down))
      /\ \A what : Count(down, what) =
           Count(Tail(down), what) + (IF Head(down).what = what THEN 1 ELSE 0)
  BY HeadTaken, TailCounts, StreamedTail
<1>2. \A what : Count(down, what) \in Nat /\ Count(Tail(down), what) \in Nat
  BY <1>1, CountType
<1>3. CASE Exchanges[at.step] = "NeedFetch" /\ Head(down).what = "answer" /\ Head(down).stream
  <2>1. /\ Tail(down) # <<>> /\ Head(Tail(down)).what = "fd"
        /\ Preceded(down) => Preceded(Tail(Tail(down)))
    BY <1>3, BodyTaken
  <2>2. /\ Tail(Tail(down)) \in Seq(ToRenderer) /\ Streamed(hosting, Tail(Tail(down)))
        /\ \A what : Count(Tail(down), what) =
             Count(Tail(Tail(down)), what)
               + (IF Head(Tail(down)).what = what THEN 1 ELSE 0)
    BY <1>1, <2>1, HeadTaken, TailCounts, StreamedTail
  <2>3. \A what : Count(Tail(Tail(down)), what) \in Nat
    BY <2>2, CountType
  <2>4. \A what : what # "fd" => Count(Tail(Tail(down)), what) = Count(Tail(down), what)
    BY <1>2, <2>1, <2>2, <2>3
  <2>5. Adopted = Tail(Tail(down))
    BY <1>3 DEF Adopted
  <2> QED BY <1>1, <2>1, <2>2, <2>4, <2>5
<1>4. CASE ~(Exchanges[at.step] = "NeedFetch" /\ Head(down).what = "answer"
             /\ Head(down).stream)
  <2>1. Adopted = Tail(down)
    BY <1>4 DEF Adopted
  <2>2. ASSUME Preceded(down), Head(down).what = "answer" => Head(down).to = at
        PROVE  Preceded(Tail(down))
    <3>1. ASSUME Head(down).what = "answer", Head(down).stream PROVE FALSE
      <4>1. Head(down) = down[1] /\ 1 \in 1 .. Len(down)
        BY HeadTaken
      <4>2. 1 \in At(down, "answer") /\ down[1].stream
        BY <3>1, <4>1 DEF At
      <4>3. Exchanges[down[1].to.step] = "NeedFetch"
        BY <4>2 DEF Streamed, Followed
      <4> QED BY <1>4, <2>2, <3>1, <4>1, <4>3
    <3> QED BY <2>2, <3>1, PrecededTail
  <2> QED BY <1>1, <2>1, <2>2
<1> QED BY <1>3, <1>4

(* The next question goes up, or the renderer ends.                        *)
LEMMA AskSends ==
  ASSUME up \in Seq(FromRenderer), NEW q \in Question, at \in Question, Ask(q)
  PROVE  /\ up' \in Seq(FromRenderer) /\ at' \in Question
         /\ renderer' \in {"waiting", "gone"}
         /\ Count(up', "tile") = Count(up, "tile")
         /\ renderer' # "gone" => /\ at' = q
                                  /\ Count(up', "ask") = Count(up, "ask") + 1
                                  /\ Count(up, "ask") = 0 =>
                                       \A i \in At(up', "ask") : up'[i].q = q
<1>1. CASE RendererCanSend
  <2> DEFINE m == [what |-> "ask", q |-> q]
  <2>1. m \in FromRenderer /\ m.what = "ask" /\ m.q = q
    BY Sent
  <2>2. renderer' = "waiting" /\ at' = q /\ up' = Append(up, m)
    BY <1>1 DEF Ask
  <2> HIDE DEF m
  <2>3. Count(up, "tile") \in Nat /\ (Count(up, "ask") = 0 => At(up, "ask") = {})
    BY CountType
  <2>4. /\ Append(up, m) \in Seq(FromRenderer)
        /\ Append(up, m)[Len(up) + 1] = m
        /\ At(Append(up, m), "ask") = At(up, "ask") \cup {Len(up) + 1}
    BY <2>1, Appended
  <2>5. /\ Count(Append(up, m), "tile") = Count(up, "tile") + 0
        /\ Count(Append(up, m), "ask") = Count(up, "ask") + 1
    BY <2>1, AppendCounts
  <2> QED BY <2>1, <2>2, <2>3, <2>4, <2>5
<1>2. CASE ~RendererCanSend
  BY <1>2 DEF Ask, Ends
<1> QED BY <1>1, <1>2

LEMMA TileSends ==
  ASSUME up \in Seq(FromRenderer), at \in Question, SendTile
  PROVE  /\ up' \in Seq(FromRenderer) /\ at' = at
         /\ renderer' \in {"idle", "gone"}
         /\ Count(up', "tile") <= Count(up, "tile") + 1
         /\ renderer' # "gone" => Count(up', "ask") = Count(up, "ask")
<1>0. Count(up, "tile") \in Nat /\ Count(up, "ask") \in Nat
  BY CountType
<1>1. CASE RendererCanSend
  <2> DEFINE m == [what |-> "tile", url |-> at.url]
  <2>1. m \in FromRenderer /\ m.what = "tile"
    BY Sent, Questions
  <2>2. renderer' = "idle" /\ at' = at /\ up' = Append(up, m)
    BY <1>1 DEF SendTile
  <2> HIDE DEF m
  <2>3. /\ Append(up, m) \in Seq(FromRenderer)
        /\ Count(Append(up, m), "tile") = Count(up, "tile") + 1
        /\ Count(Append(up, m), "ask") = Count(up, "ask") + 0
    BY <2>1, Appended, AppendCounts
  <2> QED BY <1>0, <2>2, <2>3
<1>2. CASE ~RendererCanSend
  BY <1>0, <1>2 DEF SendTile, Ends
<1> QED BY <1>1, <1>2

(* A count of nothing leaves nothing to speak of.                          *)
LEMMA NothingOutstanding ==
  ASSUME NEW u \in Seq(FromRenderer), NEW b \in Seq(InboxMessage),
         NEW d \in Seq(ToRenderer), NEW p, IsFiniteSet(p),
         Count(u, "ask") + Count(b, "ask") + Cardinality(p) + Count(d, "answer") <= 0
  PROVE  /\ At(u, "ask") = {} /\ At(b, "ask") = {} /\ p = {} /\ At(d, "answer") = {}
         /\ Count(u, "ask") = 0 /\ Count(b, "ask") = 0 /\ Cardinality(p) = 0
         /\ Count(d, "answer") = 0
<1>1. /\ Count(u, "ask") \in Nat /\ (Count(u, "ask") = 0 => At(u, "ask") = {})
      /\ Count(b, "ask") \in Nat /\ (Count(b, "ask") = 0 => At(b, "ask") = {})
      /\ Count(d, "answer") \in Nat /\ (Count(d, "answer") = 0 => At(d, "answer") = {})
  BY CountType
<1>2. Cardinality(p) \in Nat /\ (Cardinality(p) = 0 => p = {})
  BY FS_CardinalityType, FS_EmptySet
<1>3. /\ Count(u, "ask") = 0 /\ Count(b, "ask") = 0 /\ Cardinality(p) = 0
      /\ Count(d, "answer") = 0
  BY <1>1, <1>2
<1> QED BY <1>1, <1>2, <1>3

(* What OneAtATime counts are numbers.                                     *)
LEMMA Counted ==
  ASSUME TypeOK
  PROVE  /\ \A what : /\ Count(up, what) \in Nat /\ Count(inbox, what) \in Nat
                      /\ Count(down, what) \in Nat
         /\ pending \subseteq {at} => IsFiniteSet(pending) /\ Cardinality(pending) \in Nat
         /\ Waiting \in {0, 1} /\ frames \in Nat /\ navigations \in Nat
<1>1. \A what : /\ Count(up, what) \in Nat /\ Count(inbox, what) \in Nat
                /\ Count(down, what) \in Nat
  BY CountType DEF TypeOK
<1>2. pending \subseteq {at} => IsFiniteSet(pending) /\ Cardinality(pending) \in Nat
  BY FS_Singleton, FS_Subset, FS_CardinalityType
<1>3. frames \in Nat /\ navigations \in Nat
  BY PageAssumption DEF TypeOK
<1> QED BY <1>1, <1>2, <1>3 DEF Waiting

-----------------------------------------------------------------------------
(* The renderer.                                                           *)

LEMMA Init_IInv == Init => IInv
<1> SUFFICES ASSUME Init PROVE IInv
  OBVIOUS
<1>1. at \in Question
  <2>1. 1 \in Url
    BY PageAssumption DEF Url
  <2> QED BY <2>1, Questions DEF Init
<1>2. TypeOK
  <2>1. 0 \in 0 .. NavigationBound /\ 0 \in 0 .. 0
    BY PageAssumption
  <2>2. \A S : <<>> \in Seq(S)
    BY EmptySeq
  <2>3. navigations \in 0 .. NavigationBound /\ stale \in 0 .. StaleBound
    BY PageAssumption DEF Init, Opened, Swapped
  <2>4. 0 \in 0 .. navigations
    BY <2>3, PageAssumption
  <2>5. down \in Seq(ToRenderer)
    <3>1. CASE Opened
      BY <2>2, <3>1 DEF Opened
    <3>2. CASE Swapped
      <4>1. 1 \in Url
        BY PageAssumption DEF Url
      <4>2. [what |-> "RenderPage", url |-> 1] \in ToRenderer
        BY <4>1, Sent
      <4> QED BY <3>2, <4>2 DEF Swapped
    <3> QED BY <3>1, <3>2 DEF Init
  <2> QED BY <1>1, <2>2, <2>3, <2>4, <2>5 DEF Init, TypeOK
<1>3. \A what : At(<<>>, what) = {} /\ Count(<<>>, what) = 0
  BY FS_EmptySet DEF At, Count
<1>4. /\ \A what : /\ Count(down, what) \in Nat
                   /\ what # "RenderPage" => At(down, what) = {} /\ Count(down, what) = 0
      /\ Count(down, "RenderPage") <= navigations
  <2>1. CASE Opened
    BY <1>3, <2>1 DEF Opened
  <2>2. CASE Swapped
    <3> DEFINE m == [what |-> "RenderPage", url |-> 1]
               e == <<>>
    <3>1. m \in ToRenderer /\ m.what = "RenderPage" /\ e \in Seq(ToRenderer)
      <4>1. 1 \in Url
        BY PageAssumption DEF Url
      <4> QED BY <4>1, Sent, EmptySeq
    <3>2. down = Append(e, m) /\ navigations = 1
      BY <2>2 DEF Swapped
    <3>3. \A what : At(e, what) = {} /\ Count(e, what) = 0
      BY <1>3
    <3> HIDE DEF m, e
    <3>4. \A what : At(down, what) = At(e, what) \cup
                         (IF m.what = what THEN {Len(e) + 1} ELSE {})
      BY <3>1, <3>2, Appended
    <3>5. \A what : Count(down, what) = Count(e, what)
                         + (IF m.what = what THEN 1 ELSE 0)
      BY <3>1, <3>2, AppendCounts
    <3>6. \A what : Count(down, what) = IF m.what = what THEN 1 ELSE 0
      BY <3>3, <3>5
    <3> QED BY <3>1, <3>2, <3>3, <3>4, <3>6
  <2> QED BY <2>1, <2>2 DEF Init
<1>5. FramesAccounted
  BY <1>2, <1>3, <1>4 DEF Init, FramesAccounted, Waiting, TypeOK
<1>6. Streamed(hosting, down)
  BY <1>4 DEF Streamed, Followed
<1>7. InStep
  BY <1>3, <1>4, FS_EmptySet DEF Init, InStep, OneAtATime, Preceded, Waiting
<1>8. MixedOnlyAfterStrays
  BY DEF Init, MixedOnlyAfterStrays
<1> QED BY <1>2, <1>5, <1>6, <1>7, <1>8 DEF IInv

(* A renderer that is gone sends and takes nothing any more.               *)
LEMMA RendererEnds ==
  ASSUME IInv, renderer' = "gone",
         UNCHANGED <<hosting, tab, navigations, pending, inbox, frames, reader, up, at,
                     strays, mixed, stale, abandoned>>,
         down' \in Seq(ToRenderer), Streamed(hosting, down'),
         Count(down', "RenderPage") <= Count(down, "RenderPage"),
         garbled' \in BOOLEAN, garbled' => garbled
  PROVE  IInv'
<1>1. TypeOK'
  BY DEF IInv, TypeOK
<1>2. FramesAccounted'
  <2>1. Waiting' = 0
    BY DEF Waiting
  <2>2. Count(down', "RenderPage") \in Nat
    BY CountType
  <2>3. TypeOK /\ FramesAccounted
    BY DEF IInv
  <2> QED BY <2>1, <2>2, <2>3, Counted DEF FramesAccounted
<1>3. MixedOnlyAfterStrays'
  BY DEF IInv, MixedOnlyAfterStrays
<1> QED BY <1>1, <1>2, <1>3 DEF IInv

LEMMA Serve_IInv == IInv /\ Serve => IInv'
<1> SUFFICES ASSUME IInv, Serve PROVE IInv'
  OBVIOUS
<1>0. /\ TypeOK /\ FramesAccounted /\ Streamed(hosting, down)
      /\ renderer = "idle" /\ ~garbled /\ down # <<>> /\ Head(down).what # "fd"
      /\ down' = Tail(down)
      /\ UNCHANGED <<hosting, tab, navigations, pending, inbox, frames, reader,
                     garbled, strays, mixed, stale, abandoned>>
  BY DEF IInv, Serve
<1> DEFINE m == Head(down)
           t == Tail(down)
<1>1. /\ m \in ToRenderer /\ t \in Seq(ToRenderer) /\ Streamed(hosting, t)
      /\ \A what : Count(down, what) = Count(t, what) + (IF m.what = what THEN 1 ELSE 0)
      /\ \A what : Count(down, what) \in Nat /\ Count(t, what) \in Nat
  <2>1. down \in Seq(ToRenderer)
    BY <1>0 DEF TypeOK
  <2>2. /\ m \in ToRenderer /\ t \in Seq(ToRenderer) /\ Streamed(hosting, t)
        /\ \A what : Count(down, what) = Count(t, what) + (IF m.what = what THEN 1 ELSE 0)
    BY <1>0, <2>1, HeadTaken, TailCounts, StreamedTail
  <2> QED BY <2>1, <2>2, CountType
<1>2. m.what # "fd" /\ down' = t
  BY <1>0
<1>3. Preceded(down) /\ m.what # "answer" => Preceded(t)
  BY <1>0, PrecededTail DEF TypeOK
<1>4. CASE m.what = "Shutdown" /\ Ends
  <2>1. renderer' = "gone" /\ UNCHANGED <<at, up>>
    BY <1>4 DEF Ends
  <2>2. Count(down', "RenderPage") <= Count(down, "RenderPage") /\ garbled' \in BOOLEAN
    BY <1>0, <1>1, <1>2, <1>4 DEF TypeOK
  <2> HIDE DEF t
  <2>3. down' \in Seq(ToRenderer) /\ Streamed(hosting, down')
    BY <1>1, <1>2
  <2> QED BY <1>0, <2>1, <2>2, <2>3, RendererEnds
<1>5. CASE m.what = "answer" /\ UNCHANGED <<renderer, at, up>>
  <2> HIDE DEF t, m
  <2>1. TypeOK'
    BY <1>0, <1>1, <1>2, <1>5 DEF TypeOK
  <2>2. FramesAccounted'
    <3>1. Count(down', "RenderPage") = Count(down, "RenderPage")
      <4>1. Count(down, "RenderPage") = Count(t, "RenderPage") + 0
        BY <1>1, <1>5
      <4> QED BY <1>1, <1>2, <4>1
    <3>2. Waiting' = Waiting
      BY <1>5 DEF Waiting
    <3> QED BY <1>0, <1>5, <3>1, <3>2 DEF FramesAccounted
  <2>3. Streamed(hosting', down')
    BY <1>0, <1>1, <1>2
  <2>4. ~InStep
    <3>1. ASSUME InStep PROVE FALSE
      <4>1. Count(down, "answer") >= 1
        BY <1>1, <1>5
      <4>2. Waiting = 0 /\ pending \subseteq {at}
        BY <1>0, <3>1 DEF Waiting, InStep, OneAtATime
      <4> QED BY <1>0, <3>1, <4>1, <4>2, Counted DEF InStep, OneAtATime
    <3> QED BY <3>1
  <2>5. strays' # {}
    BY <1>0, <2>4 DEF IInv
  <2>6. MixedOnlyAfterStrays'
    BY <2>5 DEF MixedOnlyAfterStrays
  <2> QED BY <2>1, <2>2, <2>3, <2>5, <2>6 DEF IInv
<1>6. CASE m.what = "RenderPage" /\ Ask([url |-> m.url, step |-> 1])
  <2> DEFINE q == [url |-> m.url, step |-> 1]
  <2>1. q \in Question
    BY <1>1, <1>6, Received, Questions
  <2>2. Ask(q)
    BY <1>6
  <2> HIDE DEF t, m, q
  <2>3. /\ up' \in Seq(FromRenderer) /\ at' \in Question
        /\ renderer' \in {"waiting", "gone"}
        /\ Count(up', "tile") = Count(up, "tile")
        /\ renderer' # "gone" => /\ at' = q
                                 /\ Count(up', "ask") = Count(up, "ask") + 1
                                 /\ Count(up, "ask") = 0 =>
                                      \A i \in At(up', "ask") : up'[i].q = q
    BY <1>0, <2>1, <2>2, AskSends DEF TypeOK
  <2>4. TypeOK'
    BY <1>0, <1>1, <1>2, <2>3 DEF TypeOK
  <2>5. FramesAccounted'
    <3>1. Count(down, "RenderPage") = Count(down', "RenderPage") + 1
      BY <1>1, <1>2, <1>6
    <3>2. Waiting = 0 /\ Waiting' \in {0, 1}
      BY <1>0 DEF Waiting
    <3>3. Count(down', "RenderPage") \in Nat
      BY <1>1, <1>2
    <3> QED BY <1>0, <2>3, <3>1, <3>2, <3>3, Counted, SMTT(20) DEF FramesAccounted
  <2>6. Streamed(hosting', down')
    BY <1>0, <1>1, <1>2
  <2>7. MixedOnlyAfterStrays'
    BY <1>0 DEF IInv, MixedOnlyAfterStrays
  <2>8. ASSUME strays' = {}, renderer' # "gone" PROVE InStep'
    <3>1. InStep
      BY <1>0, <2>8 DEF IInv
    <3>2. Preceded(down')
      BY <1>2, <1>3, <1>6, <3>1 DEF InStep
    <3>3. /\ At(up, "ask") = {} /\ At(inbox, "ask") = {} /\ pending = {}
          /\ At(down, "answer") = {} /\ Count(down, "answer") = 0
          /\ Count(up, "ask") = 0 /\ Count(inbox, "ask") = 0 /\ Cardinality(pending) = 0
      <4>1. Waiting = 0
        BY <1>0 DEF Waiting
      <4>2. IsFiniteSet(pending)
        BY <1>0, <3>1, Counted DEF InStep, OneAtATime
      <4> QED BY <1>0, <3>1, <4>1, <4>2, NothingOutstanding
            DEF InStep, OneAtATime, TypeOK, InboxMessage
    <3>4. Count(down', "answer") = 0
      BY <1>1, <1>2, <1>6, <3>3
    <3>5. At(down', "answer") = {}
      BY <1>1, <1>2, <3>4, CountType
    <3>6. Waiting' = 1
      BY <2>3, <2>8 DEF Waiting
    <3> QED BY <1>0, <2>3, <2>8, <3>2, <3>3, <3>4, <3>5, <3>6 DEF InStep, OneAtATime
  <2> QED BY <2>4, <2>5, <2>6, <2>7, <2>8 DEF IInv
<1>7. CASE m.what = "stale" /\ UNCHANGED <<renderer, at, up>>
  <2>7. Shifted(down, t)
    BY <1>0, HeadTaken DEF TypeOK
  <2> HIDE DEF t, m
  <2>1. \A what : what # "stale" => Count(down', what) = Count(down, what)
    BY <1>1, <1>2, <1>7
  <2>2. TypeOK'
    BY <1>0, <1>1, <1>2, <1>7 DEF TypeOK
  <2>3. Waiting' = Waiting
    BY <1>7 DEF Waiting
  <2>4. FramesAccounted'
    BY <1>0, <1>7, <2>1, <2>3 DEF FramesAccounted
  <2>5. Streamed(hosting', down') /\ MixedOnlyAfterStrays'
    BY <1>0, <1>1, <1>2 DEF IInv, MixedOnlyAfterStrays
  <2>6. ASSUME strays' = {}, renderer' # "gone" PROVE InStep'
    <3>1. InStep
      BY <1>0, <2>6 DEF IInv
    <3>2. Preceded(down')
      BY <1>2, <1>3, <1>7, <3>1 DEF InStep
    <3>3. \A i \in At(down', "answer") : down'[i].to = at
      <4>1. ASSUME NEW i \in At(t, "answer") PROVE t[i].to = at
        <5>1. i + 1 \in At(down, "answer") /\ t[i] = down[i + 1]
          BY <2>7 DEF Shifted
        <5> QED BY <3>1, <5>1 DEF InStep, OneAtATime
      <4> QED BY <1>2, <4>1
    <3> QED BY <1>0, <1>7, <2>1, <2>3, <3>1, <3>2, <3>3 DEF InStep, OneAtATime
  <2> QED BY <2>2, <2>4, <2>5, <2>6 DEF IInv
<1> QED BY <1>4, <1>5, <1>6, <1>7 DEF Serve

(* A load that ends or goes on is counted where it was counted before.     *)
LEMMA StillAccounted ==
  ASSUME NEW f \in Nat, NEW i \in Nat, NEW n \in Nat,
         NEW u \in Nat, NEW d \in Nat, NEW u1 \in Nat, NEW w1 \in Nat, NEW d1 \in Nat,
         f + i + u + 1 + d <= n, u1 + w1 <= u + 1, d1 <= d
  PROVE  f + i + u1 + w1 + d1 <= n
OBVIOUS

LEMMA Exchange_IInv == IInv /\ Exchange => IInv'
<1> SUFFICES ASSUME IInv, Exchange PROVE IInv'
  OBVIOUS
<1> DEFINE m == Head(down)
<1>0. /\ TypeOK /\ FramesAccounted /\ Streamed(hosting, down)
      /\ renderer = "waiting" /\ ~garbled /\ down # <<>> /\ m.what # "fd"
      /\ down' = Adopted
      /\ UNCHANGED <<hosting, tab, navigations, pending, stale, inbox, frames, reader,
                     garbled, abandoned>>
  BY DEF IInv, Exchange
<1>1. /\ Adopted \in Seq(ToRenderer) /\ Streamed(hosting, Adopted)
      /\ Count(down, "RenderPage") =
           Count(Adopted, "RenderPage") + (IF m.what = "RenderPage" THEN 1 ELSE 0)
      /\ Count(down, "answer") =
           Count(Adopted, "answer") + (IF m.what = "answer" THEN 1 ELSE 0)
      /\ Preceded(down) /\ (m.what = "answer" => m.to = at) => Preceded(Adopted)
  BY <1>0, Taken DEF TypeOK
<1>2. Count(Adopted, "RenderPage") \in Nat /\ Count(Adopted, "answer") \in Nat
  BY <1>1, CountType
<1>3. \/ m.what = "answer" /\ strays' = strays /\ mixed' = (mixed \/ m.to # at)
      \/ m.what # "answer" /\ strays' # {} /\ strays' \subseteq Kinds /\ mixed' \in BOOLEAN
  <2>1. CASE m.what = "answer"
    BY <2>1 DEF Exchange
  <2>2. CASE m.what # "answer"
    <3>1. m \in ToRenderer /\ strays \subseteq Kinds /\ mixed \in BOOLEAN
      BY <1>0, HeadTaken DEF TypeOK, Kinds
    <3>2. m.what \in Kinds
      BY <1>0, <2>2, <3>1, Received
    <3>3. strays' = strays \cup {m.what} /\ mixed' = (mixed \/ m.what = "stale")
      BY <2>2 DEF Exchange
    <3> HIDE DEF m
    <3>4. mixed' \in BOOLEAN
      BY <3>1, <3>3
    <3> QED BY <2>2, <3>1, <3>2, <3>3, <3>4
  <2> QED BY <2>1, <2>2
<1>4. m = down[1] /\ 1 \in 1 .. Len(down)
  BY <1>0, HeadTaken DEF TypeOK
<1> DEFINE next == [at EXCEPT !.step = @ + 1]
<1>5. \/ next \in Question /\ Ask(next)
      \/ SendTile
  <2>1. at.step < Len(Exchanges) => next \in Question
    BY <1>0, Questions DEF TypeOK
  <2> QED BY <2>1 DEF Exchange
<1> HIDE DEF m, next
<1>6. /\ up' \in Seq(FromRenderer) /\ at' \in Question
      /\ renderer' \in {"idle", "waiting", "gone"}
      /\ Count(up', "tile") + Waiting' <= Count(up, "tile") + 1
      /\ Count(up', "tile") \in Nat /\ Count(up', "ask") \in Nat
  <2>1. up \in Seq(FromRenderer) /\ at \in Question /\ Count(up, "tile") \in Nat
    BY <1>0, Counted DEF TypeOK
  <2>2. CASE next \in Question /\ Ask(next)
    <3>1. /\ up' \in Seq(FromRenderer) /\ at' \in Question
          /\ renderer' \in {"waiting", "gone"}
          /\ Count(up', "tile") = Count(up, "tile")
      BY <2>1, <2>2, AskSends
    <3>2. Waiting' \in {0, 1} /\ Count(up', "tile") \in Nat /\ Count(up', "ask") \in Nat
      BY <3>1, CountType DEF Waiting
    <3> QED BY <2>1, <3>1, <3>2
  <2>3. CASE SendTile
    <3>1. /\ up' \in Seq(FromRenderer) /\ at' = at
          /\ renderer' \in {"idle", "gone"}
          /\ Count(up', "tile") <= Count(up, "tile") + 1
      BY <2>1, <2>3, TileSends
    <3>2. Waiting' = 0 /\ Count(up', "tile") \in Nat /\ Count(up', "ask") \in Nat
      BY <3>1, CountType DEF Waiting
    <3> QED BY <2>1, <3>1, <3>2
  <2> QED BY <1>5, <2>2, <2>3
<1>7. TypeOK'
  <2>1. strays' \subseteq Kinds /\ mixed' \in BOOLEAN
        /\ (strays # {} => strays' # {})
    BY <1>0, <1>3 DEF TypeOK, Kinds
  <2> QED BY <1>0, <1>1, <1>6, <2>1 DEF TypeOK, Kinds
<1>8. FramesAccounted'
  <2>1. Waiting = 1 /\ Waiting' \in {0, 1}
    BY <1>0 DEF Waiting
  <2>2. Count(down', "RenderPage") <= Count(down, "RenderPage")
        /\ Count(down', "RenderPage") \in Nat
    BY <1>0, <1>1, <1>2
  <2>3. /\ frames \in Nat /\ navigations \in Nat /\ Count(inbox, "tile") \in Nat
        /\ Count(up, "tile") \in Nat /\ Count(down, "RenderPage") \in Nat
    BY <1>0, Counted
  <2>4. frames + Count(inbox, "tile") + Count(up', "tile") + Waiting'
          + Count(down', "RenderPage") <= navigations
    <3>1. frames + Count(inbox, "tile") + Count(up, "tile") + 1
            + Count(down, "RenderPage") <= navigations
      BY <1>0, <2>1 DEF FramesAccounted
    <3>2. Waiting' \in Nat
      BY <2>1
    <3> QED BY <1>6, <2>2, <2>3, <3>1, <3>2, StillAccounted
  <2> QED BY <1>0, <2>4 DEF FramesAccounted
<1>9. Streamed(hosting', down')
  BY <1>0, <1>1
<1>10. ASSUME strays' = {}
       PROVE  m.what = "answer" /\ strays = {} /\ InStep /\ m.to = at
  <2>1. m.what = "answer" /\ strays = {}
    BY <1>3, <1>10
  <2>2. InStep
    BY <1>0, <2>1 DEF IInv
  <2>3. m.to = at
    <3>1. 1 \in At(down, "answer")
      BY <1>4, <2>1 DEF At
    <3> QED BY <1>4, <2>2, <3>1 DEF InStep, OneAtATime
  <2> QED BY <2>1, <2>2, <2>3
<1>11. MixedOnlyAfterStrays'
  <2>1. CASE strays' # {}
    BY <2>1 DEF MixedOnlyAfterStrays
  <2>2. CASE strays' = {}
    <3>1. m.what = "answer" /\ strays = {} /\ m.to = at
      BY <1>10, <2>2
    <3>2. mixed' = mixed
      BY <1>0, <1>3, <3>1 DEF TypeOK
    <3> QED BY <3>1, <3>2 DEF IInv, MixedOnlyAfterStrays
  <2> QED BY <2>1, <2>2
<1>12. ASSUME strays' = {}, renderer' # "gone" PROVE InStep'
  <2>1. m.what = "answer" /\ InStep /\ m.to = at
    BY <1>10, <1>12
  <2>2. Preceded(down')
    BY <1>0, <1>1, <2>1 DEF InStep
  <2>3. /\ At(up, "ask") = {} /\ At(inbox, "ask") = {} /\ pending = {}
        /\ At(Adopted, "answer") = {} /\ Count(Adopted, "answer") = 0
        /\ Count(up, "ask") = 0 /\ Count(inbox, "ask") = 0 /\ Cardinality(pending) = 0
    <3>1. Waiting = 1 /\ Count(down, "answer") = Count(Adopted, "answer") + 1
      BY <1>0, <1>1, <2>1 DEF Waiting
    <3>2. IsFiniteSet(pending) /\ Cardinality(pending) \in Nat
      BY <1>0, <2>1, Counted DEF InStep, OneAtATime
    <3>3. Count(up, "ask") + Count(inbox, "ask") + Cardinality(pending)
            + Count(Adopted, "answer") <= 0
      BY <1>0, <1>2, <2>1, <3>1, <3>2, Counted, SMTT(20) DEF InStep, OneAtATime
    <3> QED BY <1>0, <1>1, <3>2, <3>3, NothingOutstanding DEF TypeOK, InboxMessage
  <2>4. At(down', "answer") = {} /\ Count(down', "answer") = 0
    BY <1>0, <2>3
  <2>5. CASE next \in Question /\ Ask(next)
    <3>1. /\ renderer' \in {"waiting", "gone"} /\ at' = next
          /\ Count(up', "ask") = Count(up, "ask") + 1
          /\ Count(up, "ask") = 0 => \A i \in At(up', "ask") : up'[i].q = next
      BY <1>0, <1>12, <2>5, AskSends DEF TypeOK
    <3>2. Waiting' = 1
      BY <1>12, <3>1 DEF Waiting
    <3> QED BY <1>0, <2>2, <2>3, <2>4, <3>1, <3>2 DEF InStep, OneAtATime
  <2>6. CASE SendTile
    <3>1. Count(up', "ask") = 0 /\ renderer' = "idle"
      BY <1>0, <1>12, <2>3, <2>6, TileSends DEF TypeOK
    <3>2. At(up', "ask") = {}
      BY <1>6, <3>1, CountType
    <3>3. Waiting' = 0
      BY <3>1 DEF Waiting
    <3> QED BY <1>0, <2>2, <2>3, <2>4, <3>1, <3>2, <3>3 DEF InStep, OneAtATime
  <2> QED BY <1>5, <2>5, <2>6
<1> QED BY <1>7, <1>8, <1>9, <1>11, <1>12 DEF IInv

(* A descriptor is read as a length only after something strayed.          *)
LEMMA Garble_IInv == IInv /\ Garble => IInv'
<1> SUFFICES ASSUME IInv, Garble PROVE IInv'
  OBVIOUS
<1> DEFINE t == Tail(down)
<1>0. /\ TypeOK /\ FramesAccounted /\ Streamed(hosting, down) /\ MixedOnlyAfterStrays
      /\ renderer # "gone" /\ down # <<>> /\ Head(down).what = "fd"
      /\ garbled' = TRUE /\ down' = t
      /\ UNCHANGED <<hosting, tab, navigations, pending, inbox, frames, reader, up,
                     renderer, at, strays, mixed, stale, abandoned>>
  BY DEF IInv, Garble
<1>1. /\ t \in Seq(ToRenderer) /\ Streamed(hosting, t)
      /\ Count(down, "RenderPage") = Count(t, "RenderPage") + 0
      /\ Head(down) = down[1] /\ 1 \in 1 .. Len(down)
  <2>1. down \in Seq(ToRenderer)
    BY <1>0 DEF TypeOK
  <2>2. t \in Seq(ToRenderer) /\ Head(down) = down[1] /\ 1 \in 1 .. Len(down)
    BY <1>0, <2>1, HeadTaken
  <2>3. Streamed(hosting, t)
    BY <1>0, <2>1, StreamedTail
  <2>4. Count(down, "RenderPage") =
          Count(t, "RenderPage") + (IF Head(down).what = "RenderPage" THEN 1 ELSE 0)
    BY <1>0, <2>1, TailCounts
  <2> QED BY <1>0, <2>2, <2>3, <2>4
<1> HIDE DEF t
<1>2. 1 \in At(down, "fd")
  BY <1>0, <1>1 DEF At
<1>3. hosting = "forked"
  BY <1>0, <1>2 DEF Streamed
<1>4. strays # {}
  <2>1. ~Preceded(down)
    <3>1. 1 - 1 \notin At(down, "answer")
      BY DEF At
    <3> QED BY <1>2, <3>1 DEF Preceded
  <2> QED BY <1>0, <2>1 DEF IInv, InStep, TypeOK
<1>5. TypeOK'
  BY <1>0, <1>1, <1>3, <1>4 DEF TypeOK
<1>6. FramesAccounted'
  <2>1. Waiting' = Waiting /\ Count(t, "RenderPage") \in Nat
    BY <1>0, <1>1, CountType DEF Waiting
  <2>2. Count(down', "RenderPage") = Count(down, "RenderPage")
    BY <1>0, <1>1, <2>1
  <2> QED BY <1>0, <2>1, <2>2 DEF FramesAccounted
<1>7. Streamed(hosting', down') /\ MixedOnlyAfterStrays' /\ strays' # {}
  BY <1>0, <1>1, <1>4 DEF MixedOnlyAfterStrays
<1> QED BY <1>5, <1>6, <1>7 DEF IInv

LEMMA Swallow_IInv == IInv /\ Swallow => IInv'
<1> SUFFICES ASSUME IInv, Swallow PROVE IInv'
  OBVIOUS
<1> DEFINE t == Tail(down)
<1>0. /\ TypeOK /\ FramesAccounted /\ Streamed(hosting, down) /\ MixedOnlyAfterStrays
      /\ garbled /\ down # <<>> /\ down' = t
      /\ Ends \/ UNCHANGED <<renderer, at, up>>
      /\ UNCHANGED <<hosting, tab, navigations, pending, inbox, frames, reader,
                     garbled, strays, mixed, stale, abandoned>>
  BY DEF IInv, Swallow
<1>1. /\ t \in Seq(ToRenderer) /\ Streamed(hosting, t)
      /\ Count(t, "RenderPage") <= Count(down, "RenderPage")
      /\ Count(t, "RenderPage") \in Nat
  <2>1. down \in Seq(ToRenderer) /\ Count(down, "RenderPage") \in Nat
    BY <1>0, Counted DEF TypeOK
  <2>2. t \in Seq(ToRenderer) /\ Streamed(hosting, t)
    BY <1>0, <2>1, HeadTaken, StreamedTail
  <2>3. Count(down, "RenderPage") =
          Count(t, "RenderPage") + (IF Head(down).what = "RenderPage" THEN 1 ELSE 0)
    BY <1>0, <2>1, TailCounts
  <2>4. Count(t, "RenderPage") \in Nat
    BY <2>2, CountType
  <2> QED BY <2>1, <2>2, <2>3, <2>4
<1> HIDE DEF t
<1>2. CASE Ends
  <2>1. renderer' = "gone" /\ UNCHANGED <<at, up>>
    BY <1>2 DEF Ends
  <2>2. garbled' \in BOOLEAN /\ (garbled' => garbled)
    BY <1>0 DEF TypeOK
  <2>3. /\ down' \in Seq(ToRenderer) /\ Streamed(hosting, down')
        /\ Count(down', "RenderPage") <= Count(down, "RenderPage")
    BY <1>0, <1>1
  <2> QED BY <1>0, <2>1, <2>2, <2>3, RendererEnds
<1>3. CASE UNCHANGED <<renderer, at, up>>
  <2>1. TypeOK'
    BY <1>0, <1>1, <1>3 DEF TypeOK
  <2>2. FramesAccounted'
    <3>1. Waiting' = Waiting
      BY <1>3 DEF Waiting
    <3>2. /\ Count(down', "RenderPage") <= Count(down, "RenderPage")
          /\ Count(down', "RenderPage") \in Nat
      BY <1>0, <1>1
    <3> QED BY <1>0, <1>3, <3>1, <3>2, Counted DEF FramesAccounted
  <2>3. Streamed(hosting', down') /\ MixedOnlyAfterStrays'
    BY <1>0, <1>1 DEF MixedOnlyAfterStrays
  <2>4. strays' # {}
    BY <1>0 DEF TypeOK
  <2> QED BY <2>1, <2>2, <2>3, <2>4 DEF IInv
<1> QED BY <1>0, <1>2, <1>3

LEMMA Ends_IInv == IInv /\ (Eof \/ Dies) => IInv'
<1> SUFFICES ASSUME IInv, Eof \/ Dies PROVE IInv'
  OBVIOUS
<1>1. /\ TypeOK /\ Streamed(hosting, down)
      /\ renderer' = "gone"
      /\ UNCHANGED <<hosting, tab, navigations, pending, inbox, frames, reader, up, down,
                     at, garbled, strays, mixed, stale, abandoned>>
  BY DEF IInv, Eof, Dies, Ends
<1>2. /\ down' \in Seq(ToRenderer) /\ Streamed(hosting, down')
      /\ garbled' \in BOOLEAN /\ (garbled' => garbled)
      /\ Count(down', "RenderPage") <= Count(down, "RenderPage")
  <2>1. down \in Seq(ToRenderer) /\ garbled \in BOOLEAN
        /\ Count(down, "RenderPage") <= Count(down, "RenderPage")
    BY <1>1, Counted DEF TypeOK
  <2> QED BY <1>1, <2>1
<1> QED BY <1>1, <1>2, RendererEnds

-----------------------------------------------------------------------------
(* The reader thread.                                                      *)

LEMMA TilesMoved ==
  ASSUME NEW f \in Nat, NEW i \in Nat, NEW u \in Nat, NEW w \in Nat, NEW d \in Nat,
         NEW n \in Nat, NEW i1 \in Nat, NEW u1 \in Nat, NEW w1 \in Nat,
         f + i + u + w + d <= n, u1 + i1 <= u + i, w1 <= w
  PROVE  f + i1 + u1 + w1 + d <= n
OBVIOUS

LEMMA AsksKept ==
  ASSUME NEW u \in Nat, NEW i \in Nat, NEW p \in Nat, NEW d \in Nat, NEW w \in Nat,
         NEW i1 \in Nat, NEW p1 \in Nat,
         u + i + p + d <= w, p1 + i1 <= p + i
  PROVE  u + i1 + p1 + d <= w
OBVIOUS

LEMMA AsksMoved ==
  ASSUME NEW u \in Nat, NEW i \in Nat, NEW p \in Nat, NEW d \in Nat, NEW w \in Nat,
         NEW u1 \in Nat, NEW i1 \in Nat,
         u + i + p + d <= w, u1 + i1 <= u + i
  PROVE  u1 + i1 + p + d <= w
OBVIOUS

(* What comes up the link goes into the queue, or nowhere.                 *)
LEMMA ReaderKeepsIInv ==
  ASSUME IInv, up' \in Seq(FromRenderer), inbox' \in Seq(InboxMessage),
         reader' \in {"recv", "gone"},
         \A what \in {"ask", "tile"} :
           Count(up', what) + Count(inbox', what) <= Count(up, what) + Count(inbox, what),
         InStep => /\ \A i \in At(up', "ask") : up'[i].q = at
                   /\ \A i \in At(inbox', "ask") : inbox'[i].q = at,
         UNCHANGED <<hosting, tab, navigations, pending, frames, down,
                     renderer, at, garbled, strays, mixed, stale, abandoned>>
  PROVE  IInv'
<1>0. TypeOK /\ FramesAccounted /\ Streamed(hosting, down) /\ MixedOnlyAfterStrays
  BY DEF IInv
<1>1. \A what : /\ Count(up', what) \in Nat /\ Count(inbox', what) \in Nat
                /\ Count(up, what) \in Nat /\ Count(inbox, what) \in Nat
  BY <1>0, Counted, CountType
<1>2. TypeOK'
  BY <1>0 DEF TypeOK, InboxMessage
<1>3. Waiting' = Waiting /\ Waiting \in {0, 1}
  BY DEF Waiting
<1>4. FramesAccounted'
  <2>1. /\ frames \in Nat /\ navigations \in Nat /\ Count(down, "RenderPage") \in Nat
    BY <1>0, Counted
  <2>2. Count(up', "tile") + Count(inbox', "tile") <= Count(up, "tile") + Count(inbox, "tile")
    OBVIOUS
  <2>3. frames + Count(inbox', "tile") + Count(up', "tile") + Waiting
          + Count(down, "RenderPage") <= navigations
    <3>1. frames + Count(inbox, "tile") + Count(up, "tile") + Waiting
            + Count(down, "RenderPage") <= navigations
      BY <1>0 DEF FramesAccounted
    <3>2. Waiting \in Nat /\ Waiting <= Waiting
      BY <1>3
    <3> QED BY <1>1, <2>1, <2>2, <3>1, <3>2, TilesMoved, ZenonT(30)
  <2> QED BY <1>3, <2>3 DEF FramesAccounted
<1>5. Streamed(hosting', down') /\ MixedOnlyAfterStrays'
  BY <1>0 DEF MixedOnlyAfterStrays
<1>6. ASSUME strays' = {}, renderer' # "gone" PROVE InStep'
  <2>1. InStep
    BY <1>6 DEF IInv
  <2>2. Count(up', "ask") + Count(inbox', "ask") + Cardinality(pending)
          + Count(down, "answer") <= Waiting
    <3>1. Count(up', "ask") + Count(inbox', "ask") <= Count(up, "ask") + Count(inbox, "ask")
      OBVIOUS
    <3>2. Count(down, "answer") \in Nat /\ Cardinality(pending) \in Nat
      BY <1>0, <2>1, Counted DEF InStep, OneAtATime
    <3>3. Count(up, "ask") + Count(inbox, "ask") + Cardinality(pending)
            + Count(down, "answer") <= Waiting
      BY <2>1 DEF InStep, OneAtATime
    <3>4. Waiting \in Nat
      BY <1>3
    <3> QED BY <1>1, <3>1, <3>2, <3>3, <3>4, AsksMoved, ZenonT(30)
  <2> QED BY <1>3, <2>1, <2>2 DEF InStep, OneAtATime
<1> QED BY <1>2, <1>4, <1>5, <1>6 DEF IInv

(* One message less comes up the link.                                     *)
LEMMA UpTaken ==
  ASSUME TypeOK, up # <<>>
  PROVE  /\ Tail(up) \in Seq(FromRenderer) /\ Head(up) \in FromRenderer
         /\ \A what : /\ Count(up, what) =
                           Count(Tail(up), what) + (IF Head(up).what = what THEN 1 ELSE 0)
                     /\ Count(Tail(up), what) \in Nat /\ Count(up, what) \in Nat
         /\ InStep => /\ \A i \in At(Tail(up), "ask") : Tail(up)[i].q = at
                      /\ Head(up).what = "ask" => Head(up).q = at
<1> DEFINE m == Head(up)
           t == Tail(up)
<1>1. up \in Seq(FromRenderer)
  BY DEF TypeOK
<1>2. /\ t \in Seq(FromRenderer) /\ m \in FromRenderer
      /\ m = up[1] /\ 1 \in 1 .. Len(up) /\ Shifted(up, t)
      /\ \A what : Count(up, what) = Count(t, what) + (IF m.what = what THEN 1 ELSE 0)
  BY <1>1, HeadTaken, TailCounts
<1>3. \A what : Count(t, what) \in Nat /\ Count(up, what) \in Nat
  BY <1>1, <1>2, CountType
<1> HIDE DEF m, t
<1>4. ASSUME InStep, NEW i \in At(t, "ask") PROVE t[i].q = at
  <2>1. i + 1 \in At(up, "ask") /\ t[i] = up[i + 1]
    BY <1>2 DEF Shifted
  <2> QED BY <1>4, <2>1 DEF InStep, OneAtATime
<1>5. ASSUME InStep, m.what = "ask" PROVE m.q = at
  <2>1. 1 \in At(up, "ask")
    BY <1>2, <1>5 DEF At
  <2> QED BY <1>2, <1>5, <2>1 DEF InStep, OneAtATime
<1> QED BY <1>2, <1>3, <1>4, <1>5 DEF m, t

(* One message more is queued.                                             *)
LEMMA Queued ==
  ASSUME TypeOK, NEW m \in InboxMessage, InStep /\ m.what = "ask" => m.q = at
  PROVE  LET b == Append(inbox, m) IN
         /\ b \in Seq(InboxMessage)
         /\ \A what : /\ Count(b, what) =
                           Count(inbox, what) + (IF m.what = what THEN 1 ELSE 0)
                     /\ Count(b, what) \in Nat /\ Count(inbox, what) \in Nat
         /\ InStep => \A i \in At(b, "ask") : b[i].q = at
<1> DEFINE b == Append(inbox, m)
<1>1. inbox \in Seq(InboxMessage)
  BY DEF TypeOK, InboxMessage
<1>2. /\ b \in Seq(InboxMessage)
      /\ \A what : Count(b, what) = Count(inbox, what) + (IF m.what = what THEN 1 ELSE 0)
      /\ \A i \in 1 .. Len(inbox) : b[i] = inbox[i]
      /\ b[Len(inbox) + 1] = m
      /\ \A what : At(b, what) =
           At(inbox, what) \cup (IF m.what = what THEN {Len(inbox) + 1} ELSE {})
  BY <1>1, Appended, AppendCounts
<1>3. \A what : Count(b, what) \in Nat /\ Count(inbox, what) \in Nat
  BY <1>1, <1>2, CountType
<1> HIDE DEF b
<1>4. ASSUME InStep PROVE \A i \in At(b, "ask") : b[i].q = at
  <2>1. \A i \in At(inbox, "ask") : i \in 1 .. Len(inbox) /\ inbox[i].q = at
    BY <1>4 DEF InStep, OneAtATime, At
  <2> QED BY <1>2, <1>4, <2>1
<1> QED BY <1>2, <1>3, <1>4 DEF b

(* A message that goes from one queue to the other, or is lost.            *)
LEMMA MovedOn ==
  ASSUME NEW u, NEW b, NEW t \in Nat, NEW i \in Nat, NEW P \in BOOLEAN,
         u = t + (IF P THEN 1 ELSE 0), b = i + (IF P THEN 1 ELSE 0)
  PROVE  t + b <= u + i /\ t + i <= u + i
OBVIOUS

LEMMA Forward_IInv == IInv /\ Forward => IInv'
<1> SUFFICES ASSUME IInv, Forward PROVE IInv'
  OBVIOUS
<1> DEFINE m == Head(up)
           t == Tail(up)
           b == Append(inbox, m)
<1>0. /\ TypeOK /\ up # <<>> /\ up' = t /\ reader' \in {"recv", "gone"}
      /\ inbox' = b \/ inbox' = inbox
      /\ UNCHANGED <<hosting, tab, navigations, pending, frames, down,
                     renderer, at, garbled, strays, mixed, stale, abandoned>>
  BY DEF IInv, Forward, TypeOK
<1>1. /\ t \in Seq(FromRenderer) /\ m \in InboxMessage
      /\ \A what : /\ Count(up, what) = Count(t, what) + (IF m.what = what THEN 1 ELSE 0)
                  /\ Count(t, what) \in Nat /\ Count(up, what) \in Nat
      /\ InStep => /\ \A i \in At(t, "ask") : t[i].q = at
                   /\ m.what = "ask" => m.q = at
  BY <1>0, UpTaken, Sent
<1>2. /\ b \in Seq(InboxMessage)
      /\ \A what : /\ Count(b, what) = Count(inbox, what) + (IF m.what = what THEN 1 ELSE 0)
                  /\ Count(b, what) \in Nat /\ Count(inbox, what) \in Nat
      /\ InStep => \A i \in At(b, "ask") : b[i].q = at
  BY <1>0, <1>1, Queued
<1>3. /\ inbox \in Seq(InboxMessage)
      /\ InStep => \A i \in At(inbox, "ask") : inbox[i].q = at
  BY <1>0 DEF TypeOK, InboxMessage, InStep, OneAtATime
<1> HIDE DEF m, t, b
<1>4. \A what : Count(up', what) + Count(inbox', what) <= Count(up, what) + Count(inbox, what)
  <2> TAKE what
  <2>1. /\ Count(up, what) = Count(t, what) + (IF m.what = what THEN 1 ELSE 0)
        /\ Count(b, what) = Count(inbox, what) + (IF m.what = what THEN 1 ELSE 0)
        /\ Count(t, what) \in Nat /\ Count(inbox, what) \in Nat
    BY <1>1, <1>2, Zenon
  <2>2. /\ Count(t, what) + Count(b, what) <= Count(up, what) + Count(inbox, what)
        /\ Count(t, what) + Count(inbox, what) <= Count(up, what) + Count(inbox, what)
    BY <2>1, MovedOn, Zenon
  <2>3. CASE inbox' = b
    BY <1>0, <2>2, <2>3
  <2>4. CASE inbox' = inbox
    BY <1>0, <2>2, <2>4
  <2> QED BY <1>0, <2>3, <2>4
<1>5. /\ up' \in Seq(FromRenderer) /\ inbox' \in Seq(InboxMessage)
      /\ InStep => /\ \A i \in At(up', "ask") : up'[i].q = at
                   /\ \A i \in At(inbox', "ask") : inbox'[i].q = at
  BY <1>0, <1>1, <1>2, <1>3
<1> QED BY <1>0, <1>4, <1>5, ReaderKeepsIInv

LEMMA ReaderEnds_IInv == IInv /\ (ReaderEof \/ RejectTile) => IInv'
<1> SUFFICES ASSUME IInv, ReaderEof \/ RejectTile PROVE IInv'
  OBVIOUS
<1> DEFINE m == [what |-> "TabGone"]
           b == Append(inbox, m)
<1>0. /\ TypeOK /\ reader' \in {"recv", "gone"}
      /\ inbox' = b \/ inbox' = inbox
      /\ up' = up \/ (up # <<>> /\ up' = Tail(up))
      /\ UNCHANGED <<hosting, tab, navigations, pending, frames, down,
                     renderer, at, garbled, strays, mixed, stale, abandoned>>
  BY DEF IInv, ReaderEof, RejectTile, ReaderEnds
<1>1. m \in InboxMessage /\ m.what = "TabGone"
  BY Sent
<1> HIDE DEF m
<1>2. /\ b \in Seq(InboxMessage)
      /\ \A what : /\ Count(b, what) = Count(inbox, what) + (IF m.what = what THEN 1 ELSE 0)
                  /\ Count(b, what) \in Nat /\ Count(inbox, what) \in Nat
      /\ InStep => \A i \in At(b, "ask") : b[i].q = at
  BY <1>0, <1>1, Queued
<1> HIDE DEF b
<1>3. /\ inbox' \in Seq(InboxMessage)
      /\ InStep => \A i \in At(inbox', "ask") : inbox'[i].q = at
      /\ \A what \in {"ask", "tile"} : Count(inbox', what) = Count(inbox, what)
  <2>1. CASE inbox' = b
    BY <1>1, <1>2, <2>1
  <2>2. CASE inbox' = inbox
    BY <1>0, <2>2 DEF TypeOK, InboxMessage, InStep, OneAtATime
  <2> QED BY <1>0, <2>1, <2>2
<1>4. /\ up' \in Seq(FromRenderer)
      /\ InStep => \A i \in At(up', "ask") : up'[i].q = at
      /\ \A what : Count(up', what) <= Count(up, what) /\ Count(up', what) \in Nat
  <2>1. CASE up' = up
    <3>1. \A what : Count(up, what) <= Count(up, what) /\ Count(up, what) \in Nat
      BY <1>0, Counted
    <3> QED BY <1>0, <2>1, <3>1 DEF TypeOK, InStep, OneAtATime
  <2>2. CASE up # <<>> /\ up' = Tail(up)
    <3>1. /\ Tail(up) \in Seq(FromRenderer)
          /\ \A what : /\ Count(up, what) = Count(Tail(up), what)
                            + (IF Head(up).what = what THEN 1 ELSE 0)
                      /\ Count(Tail(up), what) \in Nat
          /\ InStep => \A i \in At(Tail(up), "ask") : Tail(up)[i].q = at
      BY <1>0, <2>2, UpTaken
    <3>2. \A what : Count(Tail(up), what) <= Count(up, what)
      BY <3>1
    <3> QED BY <2>2, <3>1, <3>2
  <2> QED BY <1>0, <2>1, <2>2
<1>5. ASSUME NEW what \in {"ask", "tile"}
      PROVE  Count(up', what) + Count(inbox', what) <= Count(up, what) + Count(inbox, what)
  <2>1. Count(up', what) <= Count(up, what) /\ Count(inbox', what) = Count(inbox, what)
    BY <1>3, <1>4
  <2>2. Count(up, what) \in Nat /\ Count(up', what) \in Nat /\ Count(inbox, what) \in Nat
    BY <1>0, <1>4, Counted
  <2> QED BY <2>1, <2>2
<1> QED BY <1>0, <1>3, <1>4, <1>5, ReaderKeepsIInv

-----------------------------------------------------------------------------
(* The event loop.                                                         *)

(* A message that stands alone is written, or lost with its reader.        *)
LEMMA WrittenAlone ==
  ASSUME down \in Seq(ToRenderer), Streamed(hosting, down), NEW m \in ToRenderer,
         m.what # "fd", m.what = "answer" => ~m.stream, Written(<<m>>)
  PROVE  /\ down' \in Seq(ToRenderer) /\ Streamed(hosting, down')
         /\ Preceded(down) => Preceded(down')
         /\ \A what : Count(down', what) \in Nat /\ Count(down, what) \in Nat
         /\ \A what : m.what # what => Count(down', what) = Count(down, what)
         /\ \A what : renderer # "gone" \/ m.what # what =>
              Count(down', what) = Count(down, what) + (IF m.what = what THEN 1 ELSE 0)
         /\ \A what : Count(down', what) <=
              Count(down, what) + (IF m.what = what THEN 1 ELSE 0)
         /\ \A i, what : i \in At(down', what) =>
              \/ i \in At(down, what) /\ down'[i] = down[i]
              \/ m.what = what /\ down'[i] = m
<1>1. \A what : Count(down, what) \in Nat
  BY CountType
<1>2. CASE renderer # "gone"
  <2> DEFINE t == Append(down, m)
  <2>1. down' = t
    BY <1>2 DEF Written
  <2>2. /\ t \in Seq(ToRenderer) /\ Streamed(hosting, t)
        /\ Preceded(down) => Preceded(t)
        /\ \A what : Count(t, what) = Count(down, what) + (IF m.what = what THEN 1 ELSE 0)
    BY Appended, AppendCounts, StreamedAppend
  <2>3. /\ \A i \in 1 .. Len(down) : t[i] = down[i]
        /\ t[Len(down) + 1] = m
        /\ \A what : At(t, what) =
             At(down, what) \cup (IF m.what = what THEN {Len(down) + 1} ELSE {})
    BY Appended
  <2>4. ASSUME NEW what, NEW i \in At(t, what)
        PROVE  \/ i \in At(down, what) /\ t[i] = down[i]
               \/ m.what = what /\ t[i] = m
    <3>1. At(down, what) \subseteq 1 .. Len(down)
      BY DEF At
    <3> QED BY <2>3, <2>4, <3>1
  <2> HIDE DEF t
  <2>5. \A what : Count(t, what) \in Nat
    BY <2>2, CountType
  <2>6. \A i, what : i \in At(down', what) =>
          \/ i \in At(down, what) /\ down'[i] = down[i]
          \/ m.what = what /\ down'[i] = m
    BY <2>1, <2>4
  <2> QED BY <1>1, <1>2, <2>1, <2>2, <2>5, <2>6
<1>3. CASE renderer = "gone"
  <2>1. down' = down
    BY <1>3 DEF Written
  <2> QED BY <1>1, <1>3, <2>1
<1> QED BY <1>2, <1>3

LEMMA Navigate_IInv == IInv /\ Navigate => IInv'
<1> SUFFICES ASSUME IInv, Navigate PROVE IInv'
  OBVIOUS
<1> DEFINE m == [what |-> "RenderPage", url |-> navigations + 1]
<1>0. /\ TypeOK /\ FramesAccounted /\ Streamed(hosting, down) /\ MixedOnlyAfterStrays
      /\ navigations < NavigationBound /\ navigations' = navigations + 1 /\ Written(<<m>>)
      /\ UNCHANGED <<hosting, tab, pending, inbox, frames, reader, up,
                     renderer, at, garbled, strays, mixed, stale, abandoned>>
  BY DEF IInv, Navigate
<1>1. navigations + 1 \in Url /\ navigations + 1 \in 0 .. NavigationBound
  BY <1>0, PageAssumption DEF TypeOK, Url
<1>2. m \in ToRenderer /\ m.what = "RenderPage"
  BY <1>1, Sent
<1> HIDE DEF m
<1>3. /\ down' \in Seq(ToRenderer) /\ Streamed(hosting, down')
      /\ Preceded(down) => Preceded(down')
      /\ \A what : Count(down', what) \in Nat /\ Count(down, what) \in Nat
      /\ Count(down', "answer") = Count(down, "answer")
      /\ Count(down', "RenderPage") <= Count(down, "RenderPage") + 1
      /\ \A i \in At(down', "answer") : i \in At(down, "answer") /\ down'[i] = down[i]
  <2>1. down \in Seq(ToRenderer)
    BY <1>0 DEF TypeOK
  <2> QED BY <1>0, <1>2, <2>1, WrittenAlone
<1>4. TypeOK'
  <2>1. frames \in 0 .. navigations + 1
    BY <1>0, PageAssumption DEF TypeOK
  <2> QED BY <1>0, <1>1, <1>3, <2>1 DEF TypeOK
<1>5. FramesAccounted'
  <2>1. Waiting' = Waiting /\ Waiting \in {0, 1}
    BY <1>0 DEF Waiting
  <2>2. /\ frames \in Nat /\ navigations \in Nat /\ Count(inbox, "tile") \in Nat
        /\ Count(up, "tile") \in Nat
    BY <1>0, Counted
  <2>3. frames + Count(inbox, "tile") + Count(up, "tile") + Waiting
          + Count(down', "RenderPage") <= navigations + 1
    BY <1>0, <1>3, <2>1, <2>2, SMTT(20) DEF FramesAccounted
  <2> QED BY <1>0, <2>1, <2>3 DEF FramesAccounted
<1>6. Streamed(hosting', down') /\ MixedOnlyAfterStrays'
  BY <1>0, <1>3 DEF MixedOnlyAfterStrays
<1>7. ASSUME strays' = {}, renderer' # "gone" PROVE InStep'
  <2>1. InStep
    BY <1>0, <1>7 DEF IInv
  <2>2. Waiting' = Waiting
    BY <1>0 DEF Waiting
  <2>3. \A i \in At(down', "answer") : down'[i].to = at
    BY <1>3, <2>1 DEF InStep, OneAtATime
  <2> QED BY <1>0, <1>3, <2>1, <2>2, <2>3 DEF InStep, OneAtATime
<1> QED BY <1>4, <1>5, <1>6, <1>7 DEF IInv

(* The end of a tab forgets its questions, and may take the renderer.      *)
LEMMA TabEnds ==
  ASSUME IInv,
         UNCHANGED <<hosting, navigations, frames, reader, up, at, garbled,
                     strays, mixed>>,
         stale' \in 0 .. StaleBound, abandoned' \in BOOLEAN,
         inbox' \in Seq(InboxMessage),
         \A what \in {"ask", "tile"} : Count(inbox', what) <= Count(inbox, what),
         InStep => \A i \in At(inbox', "ask") : inbox'[i].q = at,
         tab' \in {"closing", "gone"}, tab' = "closing" => hosting = "thread",
         pending' \in {pending, {}}, renderer' \in {renderer, "gone"},
         down' \in Seq(ToRenderer), Streamed(hosting, down'),
         Preceded(down) => Preceded(down'),
         Count(down', "RenderPage") = Count(down, "RenderPage"),
         Count(down', "answer") = Count(down, "answer"),
         \A i \in At(down', "answer") : i \in At(down, "answer") /\ down'[i] = down[i]
  PROVE  IInv'
<1>0. TypeOK /\ FramesAccounted /\ MixedOnlyAfterStrays
  BY DEF IInv
<1>1. TypeOK'
  BY <1>0 DEF TypeOK, InboxMessage
<1>9. /\ Count(inbox', "tile") <= Count(inbox, "tile") /\ Count(inbox', "tile") \in Nat
      /\ Count(inbox', "ask") <= Count(inbox, "ask") /\ Count(inbox', "ask") \in Nat
  BY CountType
<1>2. FramesAccounted'
  <2>1. Waiting' <= Waiting /\ Waiting \in {0, 1} /\ Waiting' \in {0, 1}
    BY DEF Waiting
  <2>2. /\ frames \in Nat /\ navigations \in Nat /\ Count(inbox, "tile") \in Nat
        /\ Count(up, "tile") \in Nat /\ Count(down, "RenderPage") \in Nat
    BY <1>0, Counted
  <2>3. frames + Count(inbox', "tile") + Count(up, "tile") + Waiting'
          + Count(down, "RenderPage") <= navigations
    <3>1. frames + Count(inbox, "tile") + Count(up, "tile") + Waiting
            + Count(down, "RenderPage") <= navigations
      BY <1>0 DEF FramesAccounted
    <3>2. Count(up, "tile") + Count(inbox', "tile") <= Count(up, "tile") + Count(inbox, "tile")
      BY <1>9, <2>2
    <3>3. Waiting \in Nat /\ Waiting' \in Nat
      BY <2>1
    <3> QED BY <1>9, <2>1, <2>2, <3>1, <3>2, <3>3, TilesMoved, ZenonT(30)
  <2> QED BY <2>3 DEF FramesAccounted
<1>3. MixedOnlyAfterStrays'
  BY <1>0 DEF MixedOnlyAfterStrays
<1>4. ASSUME strays' = {}, renderer' # "gone" PROVE InStep'
  <2>1. InStep /\ renderer' = renderer
    BY <1>4 DEF IInv
  <2>2. Waiting' = Waiting
    BY <2>1 DEF Waiting
  <2>3. \A i \in At(down', "answer") : down'[i].to = at
    BY <2>1 DEF InStep, OneAtATime
  <2>4. pending' \subseteq {at} /\ Cardinality(pending') <= Cardinality(pending)
        /\ Cardinality(pending') \in Nat /\ Cardinality(pending) \in Nat
    <3>1. pending \subseteq {at} /\ Cardinality(pending) \in Nat
      BY <1>0, <2>1, Counted DEF InStep, OneAtATime
    <3>2. CASE pending' = pending
      BY <3>1, <3>2
    <3>3. CASE pending' = {}
      BY <3>1, <3>3, FS_EmptySet
    <3> QED BY <3>2, <3>3
  <2>5. Count(up, "ask") + Count(inbox', "ask") + Cardinality(pending')
          + Count(down, "answer") <= Waiting
    <3>1. /\ Count(up, "ask") \in Nat /\ Count(inbox, "ask") \in Nat
          /\ Count(down, "answer") \in Nat /\ Waiting \in {0, 1}
      BY <1>0, Counted
    <3>2. Count(up, "ask") + Count(inbox, "ask") + Cardinality(pending)
            + Count(down, "answer") <= Waiting
      BY <2>1 DEF InStep, OneAtATime
    <3>3. Cardinality(pending') + Count(inbox', "ask") <= Cardinality(pending) + Count(inbox, "ask")
      BY <1>9, <2>4, <3>1
    <3>4. Waiting \in Nat /\ Count(inbox, "ask") \in Nat
      BY <1>0, <3>1, Counted
    <3> QED BY <1>9, <2>4, <3>1, <3>2, <3>3, <3>4, AsksKept, ZenonT(30)
  <2> QED BY <2>1, <2>2, <2>3, <2>4, <2>5 DEF InStep, OneAtATime
<1> QED BY <1>1, <1>2, <1>3, <1>4 DEF IInv

LEMMA Untouched ==
  ASSUME TypeOK, UNCHANGED <<inbox, stale, abandoned>>
  PROVE  /\ inbox' \in Seq(InboxMessage) /\ stale' \in 0 .. StaleBound
         /\ abandoned' \in BOOLEAN
         /\ \A what \in {"ask", "tile"} : Count(inbox', what) <= Count(inbox, what)
         /\ InStep => \A i \in At(inbox', "ask") : inbox'[i].q = at
<1>1. \A what : Count(inbox, what) <= Count(inbox, what)
  BY Counted
<1> QED BY <1>1 DEF TypeOK, InboxMessage, InStep, OneAtATime

LEMMA Close_IInv == IInv /\ Close => IInv'
<1> SUFFICES ASSUME IInv, Close PROVE IInv'
  OBVIOUS
<1> DEFINE m == [what |-> "Shutdown"]
<1>0. /\ TypeOK /\ Streamed(hosting, down)
      /\ Written(<<m>>)
      /\ tab' \in {"closing", "gone"} /\ (tab' = "closing" => hosting = "thread")
      /\ pending' \in {pending, {}} /\ renderer' \in {renderer, "gone"}
      /\ UNCHANGED <<hosting, navigations, inbox, frames, reader, up, at, garbled,
                     strays, mixed, stale, abandoned>>
  BY DEF IInv, Close
<1>1. m \in ToRenderer /\ m.what = "Shutdown" /\ down \in Seq(ToRenderer)
  BY <1>0, Sent DEF TypeOK
<1> HIDE DEF m
<1>2. /\ down' \in Seq(ToRenderer) /\ Streamed(hosting, down')
      /\ Preceded(down) => Preceded(down')
      /\ Count(down', "RenderPage") = Count(down, "RenderPage")
      /\ Count(down', "answer") = Count(down, "answer")
      /\ \A i \in At(down', "answer") : i \in At(down, "answer") /\ down'[i] = down[i]
  BY <1>0, <1>1, WrittenAlone
<1>3. /\ inbox' \in Seq(InboxMessage) /\ stale' \in 0 .. StaleBound
      /\ abandoned' \in BOOLEAN
      /\ \A what \in {"ask", "tile"} : Count(inbox', what) <= Count(inbox, what)
      /\ InStep => \A i \in At(inbox', "ask") : inbox'[i].q = at
  BY <1>0, Untouched
<1> QED BY <1>0, <1>2, <1>3, TabEnds

LEMMA Join_IInv == IInv /\ Join => IInv'
<1> SUFFICES ASSUME IInv, Join PROVE IInv'
  OBVIOUS
<1>1. /\ TypeOK /\ Streamed(hosting, down)
      /\ tab' = "gone" /\ pending' = {} /\ renderer' = renderer /\ down' = down
      /\ UNCHANGED <<hosting, navigations, inbox, frames, reader, up, at, garbled,
                     strays, mixed, stale, abandoned>>
  BY DEF IInv, Join
<1>2. /\ down' \in Seq(ToRenderer) /\ Streamed(hosting, down')
      /\ Preceded(down) => Preceded(down')
      /\ Count(down', "RenderPage") = Count(down, "RenderPage")
      /\ Count(down', "answer") = Count(down, "answer")
      /\ \A i \in At(down', "answer") : i \in At(down, "answer") /\ down'[i] = down[i]
  BY <1>1 DEF TypeOK
<1>3. /\ inbox' \in Seq(InboxMessage) /\ stale' \in 0 .. StaleBound
      /\ abandoned' \in BOOLEAN
      /\ \A what \in {"ask", "tile"} : Count(inbox', what) <= Count(inbox, what)
      /\ InStep => \A i \in At(inbox', "ask") : inbox'[i].q = at
  BY <1>1, Untouched
<1> QED BY <1>1, <1>2, <1>3, TabEnds

LEMMA TwoAppended ==
  ASSUME NEW S, NEW s \in Seq(S), NEW x \in S, NEW y \in S
  PROVE  s \o (<<x>> \o <<y>>) = Append(Append(s, x), y)
<1>1. <<x>> \in Seq(S) /\ <<y>> \in Seq(S)
  OBVIOUS
<1>2. Append(s, x) = s \o <<x>> /\ Append(s, x) \in Seq(S)
  BY AppendIsConcat, AppendProperties
<1>3. Append(Append(s, x), y) = Append(s, x) \o <<y>>
  BY <1>2, AppendIsConcat
<1> QED BY <1>1, <1>2, <1>3, ConcatAssociative

(* An answer stands in the link, its descriptor behind it.                 *)
LEMMA AnswerWritten ==
  ASSUME TypeOK, Streamed(hosting, down), NEW q \in Question, renderer # "gone",
         NEW stream \in {s \in BOOLEAN : s => /\ Exchanges[q.step] = "NeedFetch"
                                             /\ hosting = "forked"},
         Written(<<[what |-> "answer", to |-> q, stream |-> stream]>>
                 \o IF stream THEN <<[what |-> "fd"]>> ELSE <<>>)
  PROVE  /\ down' \in Seq(ToRenderer) /\ Streamed(hosting, down')
         /\ Count(down', "RenderPage") = Count(down, "RenderPage")
         /\ Preceded(down) => Preceded(down')
         /\ Count(down', "answer") = Count(down, "answer") + 1
         /\ \A i \in At(down', "answer") :
              \/ i \in At(down, "answer") /\ down'[i] = down[i]
              \/ down'[i].to = q
<1>0. down \in Seq(ToRenderer)
  BY DEF TypeOK
<1>1. /\ stream \in BOOLEAN
      /\ stream => Exchanges[q.step] = "NeedFetch" /\ hosting = "forked"
      /\ Written(<<[what |-> "answer", to |-> q, stream |-> stream]>>
                 \o IF stream THEN <<[what |-> "fd"]>> ELSE <<>>)
  OBVIOUS
<1> DEFINE a == [what |-> "answer", to |-> q, stream |-> stream]
           f == [what |-> "fd"]
<1>2. /\ a \in ToRenderer /\ a.what = "answer" /\ a.to = q /\ a.stream = stream
      /\ f \in ToRenderer /\ f.what = "fd"
  BY Sent
<1>3. CASE ~stream
  <2>1. Written(<<a>>)
    BY <1>1, <1>3
  <2> HIDE DEF a
  <2>2. ~a.stream
    BY <1>2, <1>3
  <2>3. /\ down' \in Seq(ToRenderer) /\ Streamed(hosting, down')
        /\ Preceded(down) => Preceded(down')
        /\ Count(down', "RenderPage") = Count(down, "RenderPage")
        /\ Count(down', "answer") = Count(down, "answer") + 1
        /\ \A i \in At(down', "answer") :
             \/ i \in At(down, "answer") /\ down'[i] = down[i]
             \/ down'[i] = a
    BY <1>0, <1>2, <2>1, <2>2, WrittenAlone
  <2> QED BY <1>1, <1>2, <2>3
<1>4. CASE stream
  <2> DEFINE r == Append(down, a)
             t == Append(r, f)
  <2>1. down' = t
    <3>1. Written(<<a>> \o <<f>>)
      BY <1>1, <1>4
    <3> HIDE DEF a, f
    <3>2. down' = down \o (<<a>> \o <<f>>)
      BY <3>1 DEF Written
    <3> QED BY <1>0, <1>2, <3>2, TwoAppended
  <2>2. hosting = "forked" /\ Exchanges[q.step] = "NeedFetch"
    BY <1>1, <1>4
  <2>3. a.stream /\ Exchanges[a.to.step] = "NeedFetch"
    BY <1>2, <1>4, <2>2
  <2> HIDE DEF a, f
  <2>4. Streamed(hosting, t) /\ (Preceded(down) => Preceded(t))
    BY <1>0, <1>2, <2>2, <2>3, StreamedAnswer
  <2> HIDE DEF t, r
  <2>5. /\ r \in Seq(ToRenderer) /\ Len(r) = Len(down) + 1
        /\ \A i \in 1 .. Len(down) : r[i] = down[i]
        /\ r[Len(down) + 1] = a
        /\ At(r, "answer") = At(down, "answer") \cup {Len(down) + 1}
        /\ Count(r, "RenderPage") = Count(down, "RenderPage") + 0
        /\ Count(r, "answer") = Count(down, "answer") + 1
    BY <1>0, <1>2, Appended, AppendCounts DEF r
  <2>6. /\ t \in Seq(ToRenderer)
        /\ \A i \in 1 .. Len(r) : t[i] = r[i]
        /\ At(t, "answer") = At(r, "answer")
        /\ Count(t, "RenderPage") = Count(r, "RenderPage") + 0
        /\ Count(t, "answer") = Count(r, "answer") + 0
    <3>1. r \in Seq(ToRenderer) /\ f \in ToRenderer /\ f.what = "fd"
      BY <1>2, <2>5
    <3>2. /\ t \in Seq(ToRenderer)
          /\ \A i \in 1 .. Len(r) : t[i] = r[i]
          /\ \A what : At(t, what) =
               At(r, what) \cup (IF f.what = what THEN {Len(r) + 1} ELSE {})
      BY <3>1, Appended DEF t
    <3>3. \A what : Count(t, what) = Count(r, what) + (IF f.what = what THEN 1 ELSE 0)
      BY <3>1, AppendCounts DEF t
    <3> QED BY <3>1, <3>2, <3>3
  <2>7. /\ Count(down, "RenderPage") \in Nat /\ Count(down, "answer") \in Nat
        /\ Len(down) \in Nat /\ At(down, "answer") \subseteq 1 .. Len(down)
    BY <1>0, CountType
  <2>8. /\ Count(t, "RenderPage") = Count(down, "RenderPage")
        /\ Count(t, "answer") = Count(down, "answer") + 1
    BY <2>5, <2>6, <2>7
  <2>9. ASSUME NEW i \in At(t, "answer")
        PROVE  \/ i \in At(down, "answer") /\ t[i] = down[i]
               \/ t[i].to = q
    <3>1. CASE i = Len(down) + 1
      BY <1>2, <2>5, <2>6, <2>7, <3>1
    <3>2. CASE i \in At(down, "answer")
      BY <2>5, <2>6, <2>7, <3>2
    <3> QED BY <2>5, <2>6, <3>1, <3>2
  <2> QED BY <1>1, <2>1, <2>4, <2>6, <2>8, <2>9
<1> QED BY <1>1, <1>3, <1>4

LEMMA NoMore ==
  ASSUME NEW f \in Nat, NEW g \in Nat, NEW a \in Nat, NEW b \in Nat, NEW c \in Nat,
         NEW d \in Nat, NEW w \in Nat, NEW n \in Nat,
         f + a + c + w + d <= n, g + b <= f + a
  PROVE  g + b + c + w + d <= n
OBVIOUS

LEMMA QuestionTraded ==
  ASSUME NEW left,
         Count(up, "ask") \in Nat, Count(inbox, "ask") \in Nat,
         Count(inbox', "ask") \in Nat, Count(down, "answer") \in Nat,
         Cardinality(left) \in Nat, Cardinality(pending) \in Nat,
         Count(down', "answer") = Count(down, "answer") + 1,
         Count(inbox', "ask") + Cardinality(left) + 1 =
           Count(inbox, "ask") + Cardinality(pending)
  PROVE  Count(up, "ask") + Count(inbox', "ask") + Cardinality(left)
           + Count(down', "answer") =
         Count(up, "ask") + Count(inbox, "ask") + Cardinality(pending)
           + Count(down, "answer")
<1> DEFINE Keeps(u, a, b, p, l, d, e) ==
             e = d + 1 /\ b + l + 1 = a + p => u + b + l + e = u + a + p + d
<1>1. \A u, a, b, p, l, d, e \in Nat : Keeps(u, a, b, p, l, d, e)
  OBVIOUS
<1>2. Count(down', "answer") \in Nat
  OBVIOUS
<1> HIDE DEF Keeps
<1>3. Keeps(Count(up, "ask"), Count(inbox, "ask"), Count(inbox', "ask"),
            Cardinality(pending), Cardinality(left),
            Count(down, "answer"), Count(down', "answer"))
  BY <1>1, <1>2, Zenon
<1> QED BY <1>3, Zenon DEF Keeps

(* What is sent stands in the link, or the tab ends as crashed.            *)
LEMMA SentOrDropped ==
  ASSUME NEW msgs, NEW left, TypeOK, SendToTab(msgs, left)
  PROVE  \/ /\ renderer # "gone" /\ Written(msgs) /\ pending' = left
            /\ UNCHANGED <<tab, renderer, abandoned>>
         \/ /\ tab' = "gone" /\ pending' = {} /\ down' = down
            /\ renderer' \in {renderer, "gone"} /\ abandoned' \in BOOLEAN
<1>1. (hosting = "forked") \in BOOLEAN /\ abandoned \in BOOLEAN
  BY DEF TypeOK
<1> QED BY <1>1 DEF SendToTab, TimesOut, DropCrashed

LEMMA Dropped ==
  ASSUME IInv, tab' = "gone", pending' = {}, down' = down,
         renderer' \in {renderer, "gone"}, abandoned' \in BOOLEAN,
         stale' \in 0 .. StaleBound,
         inbox' \in Seq(InboxMessage),
         \A what \in {"ask", "tile"} : Count(inbox', what) <= Count(inbox, what),
         InStep => \A i \in At(inbox', "ask") : inbox'[i].q = at,
         UNCHANGED <<hosting, navigations, frames, reader, up, at, garbled, strays, mixed>>
  PROVE  IInv'
<1>1. /\ down' \in Seq(ToRenderer) /\ Streamed(hosting, down')
      /\ Preceded(down) => Preceded(down')
      /\ Count(down', "RenderPage") = Count(down, "RenderPage")
      /\ Count(down', "answer") = Count(down, "answer")
      /\ \A i \in At(down', "answer") : i \in At(down, "answer") /\ down'[i] = down[i]
  BY DEF IInv, TypeOK
<1> QED BY <1>1, TabEnds

(* One place less holds the question, and the answer stands in the link.   *)
LEMMA AnswerKeepsIInv ==
  ASSUME IInv, NEW q \in Question, NEW left \in SUBSET Question, SendAnswer(q, left),
         UNCHANGED <<hosting, navigations, frames, reader, up, at, garbled,
                     strays, mixed, stale>>,
         inbox' \in Seq(InboxMessage),
         \A what \in {"ask", "tile"} : Count(inbox', what) <= Count(inbox, what),
         InStep => /\ q = at /\ left \subseteq {at}
                   /\ Count(inbox', "ask") + Cardinality(left) + 1 =
                        Count(inbox, "ask") + Cardinality(pending)
                   /\ \A i \in At(inbox', "ask") : inbox'[i].q = at
  PROVE  IInv'
<1>0. TypeOK /\ FramesAccounted /\ MixedOnlyAfterStrays /\ Streamed(hosting, down)
  BY DEF IInv
<1>1. PICK stream \in {s \in BOOLEAN : s => /\ Exchanges[q.step] = "NeedFetch"
                                            /\ hosting = "forked"} :
        SendToTab(<<[what |-> "answer", to |-> q, stream |-> stream]>>
                  \o IF stream THEN <<[what |-> "fd"]>> ELSE <<>>, left)
  BY DEF SendAnswer
<1> DEFINE msgs == <<[what |-> "answer", to |-> q, stream |-> stream]>>
                   \o IF stream THEN <<[what |-> "fd"]>> ELSE <<>>
<1>2. CASE /\ tab' = "gone" /\ pending' = {} /\ down' = down
           /\ renderer' \in {renderer, "gone"} /\ abandoned' \in BOOLEAN
  <2>1. InStep => \A i \in At(inbox', "ask") : inbox'[i].q = at
    OBVIOUS
  <2>2. stale' \in 0 .. StaleBound
    BY <1>0 DEF TypeOK
  <2> QED BY <1>2, <2>1, <2>2, Dropped
<1>3. \/ /\ renderer # "gone" /\ Written(msgs) /\ pending' = left
         /\ UNCHANGED <<tab, renderer, abandoned>>
      \/ /\ tab' = "gone" /\ pending' = {} /\ down' = down
         /\ renderer' \in {renderer, "gone"} /\ abandoned' \in BOOLEAN
  BY <1>0, <1>1, SentOrDropped
<1>4. CASE /\ renderer # "gone" /\ Written(msgs) /\ pending' = left
           /\ UNCHANGED <<tab, renderer, abandoned>>
  <2>1. /\ down' \in Seq(ToRenderer) /\ Streamed(hosting, down')
        /\ Count(down', "RenderPage") = Count(down, "RenderPage")
        /\ Preceded(down) => Preceded(down')
        /\ Count(down', "answer") = Count(down, "answer") + 1
        /\ \A i \in At(down', "answer") :
             \/ i \in At(down, "answer") /\ down'[i] = down[i]
             \/ down'[i].to = q
    BY <1>0, <1>1, <1>4, AnswerWritten
  <2>2. TypeOK'
    BY <1>0, <1>4, <2>1 DEF TypeOK, InboxMessage
  <2>3. Waiting' = Waiting /\ Waiting \in {0, 1}
    BY <1>4 DEF Waiting
  <2>4. /\ frames \in Nat /\ navigations \in Nat
        /\ \A what : /\ Count(up, what) \in Nat /\ Count(inbox, what) \in Nat
                     /\ Count(down, what) \in Nat /\ Count(inbox', what) \in Nat
    BY <1>0, Counted, CountType
  <2>5. FramesAccounted'
    <3>1. frames + Count(inbox', "tile") + Count(up, "tile") + Waiting
            + Count(down, "RenderPage") <= navigations
      <4>1. /\ Count(inbox', "tile") \in Nat /\ Count(inbox, "tile") \in Nat
            /\ Count(up, "tile") \in Nat /\ Count(down, "RenderPage") \in Nat
            /\ Waiting \in Nat
        BY <2>3, <2>4
      <4>2. frames + Count(inbox', "tile") <= frames + Count(inbox, "tile")
        <5>1. Count(inbox', "tile") <= Count(inbox, "tile")
          OBVIOUS
        <5> QED BY <2>4, <4>1, <5>1
      <4>3. frames + Count(inbox, "tile") + Count(up, "tile") + Waiting
              + Count(down, "RenderPage") <= navigations
        BY <1>0 DEF FramesAccounted
      <4> QED BY <2>4, <4>1, <4>2, <4>3, NoMore
    <3> QED BY <2>1, <2>3, <3>1 DEF FramesAccounted
  <2>6. MixedOnlyAfterStrays'
    BY <1>0 DEF MixedOnlyAfterStrays
  <2>7. ASSUME strays' = {}, renderer' # "gone" PROVE InStep'
    <3>1. InStep
      BY <1>4, <2>7 DEF IInv
    <3>2. \A i \in At(down', "answer") : down'[i].to = at
      BY <2>1, <3>1 DEF InStep, OneAtATime
    <3>3. Count(up, "ask") + Count(inbox', "ask") + Cardinality(left)
            + Count(down', "answer") <= Waiting
      <4>1. /\ Count(down', "answer") = Count(down, "answer") + 1
            /\ Count(inbox', "ask") + Cardinality(left) + 1 =
                 Count(inbox, "ask") + Cardinality(pending)
            /\ Count(up, "ask") + Count(inbox, "ask") + Cardinality(pending)
                 + Count(down, "answer") <= Waiting
        BY <2>1, <3>1 DEF InStep, OneAtATime
      <4>2. /\ Count(up, "ask") \in Nat /\ Count(inbox, "ask") \in Nat
            /\ Count(inbox', "ask") \in Nat /\ Count(down, "answer") \in Nat
        BY <2>4
      <4>3. Cardinality(left) \in Nat /\ Cardinality(pending) \in Nat
        <5>1. left \subseteq {at} /\ pending \subseteq {at}
          BY <3>1 DEF InStep, OneAtATime
        <5> QED BY <5>1, FS_Singleton, FS_Subset, FS_CardinalityType
      <4>4. Count(up, "ask") + Count(inbox', "ask") + Cardinality(left)
              + Count(down', "answer") =
            Count(up, "ask") + Count(inbox, "ask") + Cardinality(pending)
              + Count(down, "answer")
        BY <4>1, <4>2, <4>3, QuestionTraded, Zenon
      <4> QED BY <4>1, <4>4, Zenon
    <3>4. pending' = left /\ Preceded(down')
      BY <1>4, <2>1, <3>1 DEF InStep
    <3> QED BY <2>3, <3>1, <3>2, <3>3, <3>4 DEF InStep, OneAtATime
  <2> QED BY <2>1, <2>2, <2>5, <2>6, <2>7 DEF IInv
<1> QED BY <1>2, <1>3, <1>4

LEMMA Answer_IInv == IInv /\ Answer => IInv'
<1> SUFFICES ASSUME IInv, Answer PROVE IInv'
  OBVIOUS
<1>1. PICK q \in pending : SendAnswer(q, Settled(q))
  BY DEF Answer
<1>2. /\ TypeOK
      /\ UNCHANGED <<hosting, navigations, frames, reader, up, at, garbled,
                     strays, mixed, stale>>
      /\ inbox' = inbox
  BY DEF IInv, Answer
<1> DEFINE left == pending \ {q}
<1>3. SendAnswer(q, left) /\ q \in Question /\ left \in SUBSET Question
  BY <1>1, <1>2 DEF Settled, TypeOK
<1>4. /\ inbox' \in Seq(InboxMessage)
      /\ \A what \in {"ask", "tile"} : Count(inbox', what) <= Count(inbox, what)
  <2>1. inbox \in Seq(InboxMessage) /\ \A what : Count(inbox, what) \in Nat
    BY <1>2, Counted DEF TypeOK, InboxMessage
  <2> QED BY <1>2, <2>1
<1>5. InStep => /\ q = at /\ left \subseteq {at}
                /\ Count(inbox', "ask") + Cardinality(left) + 1 =
                     Count(inbox, "ask") + Cardinality(pending)
                /\ \A i \in At(inbox', "ask") : inbox'[i].q = at
  <2> SUFFICES ASSUME InStep
               PROVE  /\ q = at /\ left \subseteq {at}
                      /\ Count(inbox', "ask") + Cardinality(left) + 1 =
                           Count(inbox, "ask") + Cardinality(pending)
                      /\ \A i \in At(inbox', "ask") : inbox'[i].q = at
    OBVIOUS
  <2>1. /\ pending \subseteq {at} /\ q = at
        /\ \A i \in At(inbox', "ask") : inbox'[i].q = at
    BY <1>2 DEF InStep, OneAtATime
  <2>2. /\ IsFiniteSet(pending) /\ Cardinality(pending) \in Nat
        /\ Count(inbox, "ask") \in Nat
    BY <1>2, <2>1, Counted
  <2>3. Cardinality(left) = Cardinality(pending) - 1
    BY <2>2, FS_RemoveElement
  <2> QED BY <1>2, <2>1, <2>2, <2>3
<1> HIDE DEF left
<1> QED BY <1>2, <1>3, <1>4, <1>5, AnswerKeepsIInv

LEMMA LateCookies_IInv == IInv /\ LateCookies => IInv'
<1> SUFFICES ASSUME IInv, LateCookies PROVE IInv'
  OBVIOUS
<1> DEFINE m == [what |-> "stale"]
<1>0. /\ TypeOK /\ FramesAccounted /\ Streamed(hosting, down) /\ MixedOnlyAfterStrays
      /\ SendToTab(<<m>>, pending)
      /\ UNCHANGED <<hosting, navigations, frames, reader, up, at, garbled,
                     strays, mixed>>
      /\ inbox' = inbox /\ stale' \in 0 .. StaleBound
  BY PageAssumption DEF IInv, LateCookies, TypeOK
<1>1. m \in ToRenderer /\ m.what = "stale" /\ down \in Seq(ToRenderer)
  BY <1>0, Sent DEF TypeOK
<1> HIDE DEF m
<1>2. CASE /\ tab' = "gone" /\ pending' = {} /\ down' = down
           /\ renderer' \in {renderer, "gone"} /\ abandoned' \in BOOLEAN
  <2>1. /\ inbox' \in Seq(InboxMessage)
        /\ \A what \in {"ask", "tile"} : Count(inbox', what) <= Count(inbox, what)
        /\ InStep => \A i \in At(inbox', "ask") : inbox'[i].q = at
    <3>1. \A what : Count(inbox, what) <= Count(inbox, what)
      BY <1>0, Counted
    <3> QED BY <1>0, <3>1 DEF TypeOK, InboxMessage, InStep, OneAtATime
  <2> QED BY <1>0, <1>2, <2>1, Dropped
<1>3. CASE /\ renderer # "gone" /\ Written(<<m>>) /\ pending' = pending
           /\ UNCHANGED <<tab, renderer, abandoned>>
  <2>1. /\ down' \in Seq(ToRenderer) /\ Streamed(hosting, down')
        /\ Preceded(down) => Preceded(down')
        /\ \A what : what # "stale" => Count(down', what) = Count(down, what)
        /\ \A i \in At(down', "answer") : i \in At(down, "answer") /\ down'[i] = down[i]
    BY <1>0, <1>1, <1>3, WrittenAlone
  <2>2. TypeOK'
    BY <1>0, <1>3, <2>1 DEF TypeOK
  <2>3. Waiting' = Waiting
    BY <1>3 DEF Waiting
  <2>4. FramesAccounted'
    BY <1>0, <1>3, <2>1, <2>3 DEF FramesAccounted
  <2>5. Streamed(hosting', down') /\ MixedOnlyAfterStrays'
    BY <1>0, <2>1 DEF MixedOnlyAfterStrays
  <2>6. ASSUME strays' = {}, renderer' # "gone" PROVE InStep'
    <3>1. InStep
      BY <1>0, <1>3, <2>6 DEF IInv
    <3>2. \A i \in At(down', "answer") : down'[i].to = at
      BY <2>1, <3>1 DEF InStep, OneAtATime
    <3> QED BY <1>0, <1>3, <2>1, <2>3, <3>1, <3>2 DEF InStep, OneAtATime
  <2> QED BY <2>2, <2>4, <2>5, <2>6 DEF IInv
<1> QED BY <1>0, <1>2, <1>3, SentOrDropped

LEMMA FromTab_IInv == IInv /\ FromTab => IInv'
<1> SUFFICES ASSUME IInv, FromTab PROVE IInv'
  OBVIOUS
<1> DEFINE m == Head(inbox)
           t == Tail(inbox)
<1>0. /\ TypeOK /\ FramesAccounted /\ MixedOnlyAfterStrays /\ Streamed(hosting, down)
      /\ inbox # <<>> /\ inbox' = t
      /\ UNCHANGED <<hosting, navigations, reader, up, at, garbled,
                     strays, mixed, stale>>
  BY DEF IInv, FromTab
<1>1. inbox \in Seq(InboxMessage)
  BY <1>0 DEF TypeOK, InboxMessage
<1>2. /\ t \in Seq(InboxMessage) /\ m \in InboxMessage
      /\ m = inbox[1] /\ 1 \in 1 .. Len(inbox) /\ Shifted(inbox, t)
      /\ \A what : Count(inbox, what) = Count(t, what) + (IF m.what = what THEN 1 ELSE 0)
  BY <1>0, <1>1, HeadTaken, TailCounts
<1>3. /\ frames \in Nat /\ navigations \in Nat
      /\ \A what : /\ Count(up, what) \in Nat /\ Count(inbox, what) \in Nat
                   /\ Count(down, what) \in Nat /\ Count(t, what) \in Nat
  BY <1>0, <1>2, Counted, CountType
<1>4. InStep => \A i \in At(t, "ask") : t[i].q = at
  <2>1. ASSUME InStep, NEW i \in At(t, "ask") PROVE t[i].q = at
    <3>1. i + 1 \in At(inbox, "ask") /\ t[i] = inbox[i + 1]
      BY <1>2 DEF Shifted
    <3> QED BY <2>1, <3>1 DEF InStep, OneAtATime
  <2> QED BY <2>1
<1>5. Waiting \in {0, 1} /\ (renderer' = renderer => Waiting' = Waiting)
  BY DEF Waiting
<1>6. InStep /\ m.what = "ask" => m.q = at
  <2>1. m.what = "ask" => 1 \in At(inbox, "ask")
    BY <1>2 DEF At
  <2> QED BY <1>2, <2>1 DEF InStep, OneAtATime
<1>7. \/ tab # "open" /\ UNCHANGED <<tab, pending, down, renderer, abandoned, frames>>
      \/ tab = "open" /\ m.what = "ask" /\ SendAnswer(m.q, pending) /\ UNCHANGED frames
      \/ tab = "open" /\ m.what = "ask" /\ HandOn(m.q) /\ UNCHANGED frames
      \/ m.what = "tile" /\ frames' = frames + 1
            /\ UNCHANGED <<tab, pending, down, renderer, abandoned>>
      \/ DropCrashed /\ UNCHANGED <<frames, abandoned>>
  BY DEF FromTab, Handle, Asked
<1> HIDE DEF m, t
(* What is left when the question does not change its place.               *)
<1>8. ASSUME NEW p \in SUBSET Question, pending' = p,
             UNCHANGED <<down, renderer, abandoned>>,
             tab' \in {"open", "closing", "gone"},
             tab' = "closing" => tab = "closing",
             frames' \in Nat,
             frames' + Count(t, "tile") <= frames + Count(inbox, "tile"),
             InStep => /\ p \subseteq {at}
                       /\ Count(t, "ask") + Cardinality(p) <=
                            Count(inbox, "ask") + Cardinality(pending)
      PROVE  IInv'
  <2>1. FramesAccounted'
    <3>1. frames' + Count(t, "tile") + Count(up, "tile") + Waiting
            + Count(down, "RenderPage") <= navigations
      <4>1. /\ Count(t, "tile") \in Nat /\ Count(inbox, "tile") \in Nat
            /\ Count(up, "tile") \in Nat /\ Count(down, "RenderPage") \in Nat
            /\ Waiting \in Nat /\ frames' \in Nat
        BY <1>3, <1>5, <1>8
      <4>2. frames + Count(inbox, "tile") + Count(up, "tile") + Waiting
              + Count(down, "RenderPage") <= navigations
        BY <1>0 DEF FramesAccounted
      <4> QED BY <1>3, <1>8, <4>1, <4>2, NoMore
    <3> QED BY <1>0, <1>5, <1>8, <3>1 DEF FramesAccounted
  <2>2. frames' \in 0 .. navigations
    <3>1. /\ Count(t, "tile") \in Nat /\ Count(up, "tile") \in Nat
          /\ Count(down, "RenderPage") \in Nat
      BY <1>3
    <3>2. frames' + Count(t, "tile") + Count(up, "tile") + Waiting
            + Count(down, "RenderPage") <= navigations
      BY <1>0, <1>5, <1>8, <2>1 DEF FramesAccounted
    <3> QED BY <1>3, <1>5, <1>8, <3>1, <3>2
  <2>3. TypeOK'
    BY <1>0, <1>2, <1>8, <2>2 DEF TypeOK, InboxMessage
  <2>4. Streamed(hosting', down') /\ MixedOnlyAfterStrays'
    BY <1>0, <1>8 DEF MixedOnlyAfterStrays
  <2>5. ASSUME strays' = {}, renderer' # "gone" PROVE InStep'
    <3>1. InStep
      BY <1>0, <1>8, <2>5 DEF IInv
    <3>2. Count(up, "ask") + Count(t, "ask") + Cardinality(p)
            + Count(down, "answer") <= Waiting
      <4>1. /\ Count(t, "ask") + Cardinality(p) <=
                 Count(inbox, "ask") + Cardinality(pending)
            /\ Count(up, "ask") + Count(inbox, "ask") + Cardinality(pending)
                 + Count(down, "answer") <= Waiting
        BY <1>8, <3>1 DEF InStep, OneAtATime
      <4>2. /\ Count(t, "ask") \in Nat /\ Count(inbox, "ask") \in Nat
            /\ Count(up, "ask") \in Nat /\ Count(down, "answer") \in Nat
        BY <1>3
      <4>3. Cardinality(p) \in Nat /\ Cardinality(pending) \in Nat
        <5>1. p \subseteq {at} /\ pending \subseteq {at}
          BY <1>8, <3>1 DEF InStep, OneAtATime
        <5> QED BY <5>1, FS_Singleton, FS_Subset, FS_CardinalityType
      <4> QED BY <1>5, <4>1, <4>2, <4>3
    <3> QED BY <1>0, <1>4, <1>5, <1>8, <3>1, <3>2 DEF InStep, OneAtATime
  <2> QED BY <2>1, <2>3, <2>4, <2>5 DEF IInv
<1>9. /\ Count(t, "tile") <= Count(inbox, "tile") /\ Count(t, "ask") <= Count(inbox, "ask")
      /\ m.what = "tile" => Count(inbox, "tile") = Count(t, "tile") + 1
      /\ m.what = "ask" => Count(inbox, "ask") = Count(t, "ask") + 1
  BY <1>2, <1>3
<1>10. pending \in SUBSET Question /\ tab \in {"open", "closing", "gone"}
  BY <1>0 DEF TypeOK
<1>11. InStep => pending \subseteq {at} /\ IsFiniteSet(pending) /\ Cardinality(pending) \in Nat
  BY <1>0, Counted DEF InStep, OneAtATime
<1>12. CASE UNCHANGED <<tab, pending, down, renderer, abandoned, frames>>
  <2>1. InStep => /\ pending \subseteq {at}
                  /\ Count(t, "ask") + Cardinality(pending) <=
                       Count(inbox, "ask") + Cardinality(pending)
    BY <1>3, <1>9, <1>11
  <2>2. frames' \in Nat /\ frames' + Count(t, "tile") <= frames + Count(inbox, "tile")
    BY <1>3, <1>9, <1>12
  <2> QED BY <1>8, <1>10, <1>12, <2>1, <2>2
<1>13. CASE m.what = "tile" /\ frames' = frames + 1
              /\ UNCHANGED <<tab, pending, down, renderer, abandoned>>
  <2>1. InStep => /\ pending \subseteq {at}
                  /\ Count(t, "ask") + Cardinality(pending) <=
                       Count(inbox, "ask") + Cardinality(pending)
    BY <1>3, <1>9, <1>11
  <2>2. frames' \in Nat /\ frames' + Count(t, "tile") <= frames + Count(inbox, "tile")
    BY <1>3, <1>9, <1>13
  <2> QED BY <1>8, <1>10, <1>13, <2>1, <2>2
<1>14. /\ inbox' \in Seq(InboxMessage)
       /\ \A what \in {"ask", "tile"} : Count(inbox', what) <= Count(inbox, what)
       /\ InStep => \A i \in At(inbox', "ask") : inbox'[i].q = at
  BY <1>0, <1>2, <1>4, <1>9
<1>15. CASE DropCrashed /\ UNCHANGED <<frames, abandoned>>
  <2>1. /\ tab' = "gone" /\ pending' = {} /\ down' = down
        /\ renderer' \in {renderer, "gone"} /\ abandoned' \in BOOLEAN
        /\ stale' \in 0 .. StaleBound
    BY <1>0, <1>15 DEF DropCrashed, TypeOK
  <2> QED BY <1>0, <1>15, <1>14, <2>1, Dropped
<1>16. CASE tab = "open" /\ m.what = "ask" /\ HandOn(m.q) /\ UNCHANGED frames
  <2> DEFINE p == pending \cup {m.q}
  <2>1. p \in SUBSET Question /\ pending' = p /\ UNCHANGED <<tab, down, renderer, abandoned>>
    BY <1>2, <1>10, <1>16, Received DEF HandOn
  <2>2. InStep => /\ p \subseteq {at}
                  /\ Count(t, "ask") + Cardinality(p) <=
                       Count(inbox, "ask") + Cardinality(pending)
    <3> SUFFICES ASSUME InStep
                 PROVE  /\ p \subseteq {at}
                        /\ Count(t, "ask") + Cardinality(p) <=
                             Count(inbox, "ask") + Cardinality(pending)
      OBVIOUS
    <3>1. pending \subseteq {at} /\ m.q = at
      BY <1>6, <1>11, <1>16
    <3>2. Cardinality(p) <= Cardinality(pending) + 1 /\ Cardinality(p) \in Nat
      BY <1>11, FS_AddElement
    <3>3. /\ Count(inbox, "ask") = Count(t, "ask") + 1
          /\ Count(t, "ask") \in Nat /\ Cardinality(pending) \in Nat
      BY <1>3, <1>9, <1>11, <1>16
    <3> HIDE DEF p
    <3>4. Count(t, "ask") + Cardinality(p) <= Count(inbox, "ask") + Cardinality(pending)
      BY <3>2, <3>3
    <3> QED BY <3>1, <3>4 DEF p
  <2>3. frames' \in Nat /\ frames' + Count(t, "tile") <= frames + Count(inbox, "tile")
    BY <1>3, <1>9, <1>16
  <2> HIDE DEF p
  <2> QED BY <1>8, <1>10, <2>1, <2>2, <2>3
<1>17. CASE tab = "open" /\ m.what = "ask" /\ SendAnswer(m.q, pending) /\ UNCHANGED frames
  <2>1. m.q \in Question
    BY <1>2, <1>17, Received
  <2>3. InStep => /\ m.q = at /\ pending \subseteq {at}
                  /\ Count(inbox', "ask") + Cardinality(pending) + 1 =
                       Count(inbox, "ask") + Cardinality(pending)
                  /\ \A i \in At(inbox', "ask") : inbox'[i].q = at
    BY <1>0, <1>3, <1>4, <1>6, <1>9, <1>11, <1>17
  <2> QED BY <1>0, <1>10, <1>17, <1>14, <2>1, <2>3, AnswerKeepsIInv
<1> QED BY <1>7, <1>12, <1>13, <1>15, <1>16, <1>17

-----------------------------------------------------------------------------
(* The invariant holds of every page load.                                 *)

LEMMA Stutter_IInv == IInv /\ UNCHANGED vars => IInv'
<1> SUFFICES ASSUME IInv, UNCHANGED vars PROVE IInv'
  OBVIOUS
<1>1. UNCHANGED <<hosting, tab, navigations, pending, inbox, frames, reader, up, down,
                  renderer, at, garbled, strays, mixed, stale, abandoned>>
  BY DEF vars
<1>2. TypeOK'
  BY <1>1 DEF IInv, TypeOK
<1>3. Waiting' = Waiting
  BY <1>1 DEF Waiting
<1>4. FramesAccounted' /\ Streamed(hosting', down') /\ MixedOnlyAfterStrays'
  BY <1>1, <1>3 DEF IInv, FramesAccounted, MixedOnlyAfterStrays
<1>5. InStep => InStep'
  BY <1>1, <1>3 DEF InStep, OneAtATime
<1> QED BY <1>1, <1>2, <1>4, <1>5 DEF IInv

LEMMA Next_IInv == IInv /\ [Next]_vars => IInv'
<1> SUFFICES ASSUME IInv, [Next]_vars PROVE IInv'
  OBVIOUS
<1>1. CASE Renderer \/ Dies
  BY <1>1, Serve_IInv, Exchange_IInv, Garble_IInv, Swallow_IInv, Ends_IInv DEF Renderer
<1>2. CASE Reader
  BY <1>2, Forward_IInv, ReaderEnds_IInv DEF Reader
<1>3. CASE Navigate \/ Close \/ Join \/ Answer \/ LateCookies \/ FromTab
  BY <1>3, Navigate_IInv, Close_IInv, Join_IInv, Answer_IInv, LateCookies_IInv,
        FromTab_IInv
<1> QED BY <1>1, <1>2, <1>3, Stutter_IInv DEF Next

LEMMA InvariantHolds == Spec => []IInv
<1> QED BY Init_IInv, Next_IInv, PTL DEF Spec

(* Page.TypeOK, for all hostings: what the link, the queue and the table   *)
(* hold are messages of their kind, no tab is given more frames than       *)
(* navigations, the loop joins threads only, and the frames of a link are  *)
(* out of step only in a forked renderer that took a stray for an answer.  *)
THEOREM PagesAreTyped == Spec => []TypeOK
<1>1. IInv => TypeOK
  BY DEF IInv
<1> QED BY <1>1, InvariantHolds, PTL

(* Page.MixedOnlyAfterStrays: between the renderer and the loop there is   *)
(* never more than the one question the renderer waits with, asked or      *)
(* answered, until a command, or a cookie answer the tab still owed to the *)
(* renderer it was swapped for, is taken for an answer (recv_or in         *)
(* renderer.rs): only then can it take an answer for another question's.   *)
THEOREM AnswersMatchQuestions == Spec => []MixedOnlyAfterStrays
<1>1. IInv => MixedOnlyAfterStrays
  BY DEF IInv
<1> QED BY <1>1, InvariantHolds, PTL
=============================================================================
