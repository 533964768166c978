----------------------------- MODULE VaultProofs -----------------------------
(* Proofs about module Vault, for every set of partitions and all bounds.  *)
EXTENDS Vault, SequenceTheorems, TLAPS

-----------------------------------------------------------------------------
(* Messages and queues.                                                    *)

LEMMA RequestKinds ==
  ASSUME NEW r \in NetRequest
  PROVE  /\ r.what \in {"get", "fetch", "set", "bind"}
         /\ r.what \in {"get", "fetch"} => r \in Ask
         /\ r.what = "set" => r.cookie \in Cookie /\ r \in VaultRequest
         /\ r.what = "bind" => r.gen \in Generation \cup {None}
BY DEF NetRequest, Ask, VaultRequest

LEMMA ReplyKinds ==
  ASSUME NEW r \in FromNet
  PROVE  /\ r.what \in {"reply", "gone"}
         /\ r.what = "reply" => r.id \in 1 .. AskBound /\ r.answer \in Answer
BY DEF FromNet

LEMMA AnswersAreReplies ==
  ASSUME NEW ask \in Ask, NEW cookies \in SUBSET Cookie,
         NEW g \in Generation \cup {None}
  PROVE  /\ Message(ask, cookies, g) \in FromNet
         /\ Message(ask, cookies, g).what = "reply"
         /\ Message(ask, cookies, g).id = ask.id
BY DEF Ask, Message, FromNet, Answer

LEMMA NoneIsNoGeneration ==
  None \notin Generation /\ None \notin Ask
BY VaultAssumption, NoneAssumption DEF Generation

LEMMA Enqueued ==
  ASSUME NEW S, NEW q \in Seq(S), NEW x \in S
  PROVE  /\ Append(q, x) \in Seq(S)
         /\ DOMAIN Append(q, x) = DOMAIN q \cup {Len(q) + 1}
         /\ Len(q) + 1 \notin DOMAIN q
         /\ \A i \in DOMAIN q : Append(q, x)[i] = q[i]
         /\ Append(q, x)[Len(q) + 1] = x
<1>1. DOMAIN q = 1 .. Len(q) /\ Len(q) \in Nat
  BY LenProperties
<1>2. /\ Append(q, x) \in Seq(S)
      /\ Len(Append(q, x)) = Len(q) + 1
      /\ \A i \in 1 .. Len(q) : Append(q, x)[i] = q[i]
      /\ Append(q, x)[Len(q) + 1] = x
  BY AppendProperties
<1>3. DOMAIN Append(q, x) = 1 .. Len(q) + 1
  BY <1>2, LenProperties
<1> QED BY <1>1, <1>2, <1>3

LEMMA Dequeued ==
  ASSUME NEW S, NEW q \in Seq(S), q # <<>>
  PROVE  /\ Tail(q) \in Seq(S)
         /\ 1 \in DOMAIN q /\ Head(q) = q[1] /\ Head(q) \in S
         /\ \A i \in DOMAIN Tail(q) :
              i + 1 \in DOMAIN q /\ i + 1 # 1 /\ Tail(q)[i] = q[i + 1]
<1>1. DOMAIN q = 1 .. Len(q) /\ Len(q) \in Nat /\ Len(q) # 0
  BY LenProperties, EmptySeq
<1>2. /\ Head(q) \in S /\ Tail(q) \in Seq(S)
      /\ Len(Tail(q)) = Len(q) - 1
      /\ \A i \in 1 .. Len(Tail(q)) : Tail(q)[i] = q[i + 1]
  BY HeadTailProperties
<1>3. DOMAIN Tail(q) = 1 .. Len(q) - 1
  BY <1>2, LenProperties
<1>4. Head(q) = q[1]
  OBVIOUS
<1> QED BY <1>1, <1>2, <1>3, <1>4

-----------------------------------------------------------------------------
(* Types.                                                                  *)

(* What the types of the queues do not say: requests in flight carry the   *)
(* number of a request that was made, and net only waits on a link.        *)
Numbered ==
  /\ \A i \in DOMAIN toNet :
       toNet[i].what \in {"get", "fetch"} => toNet[i].id \in 1 .. ids
  /\ \A i \in DOMAIN toBroker :
       toBroker[i].what = "reply" => toBroker[i].id \in 1 .. ids
  /\ call # None => call.id \in 1 .. ids /\ link # None

Typed == TypeOK /\ Numbered

LEMMA TypedInit == Init => Typed
<1> SUFFICES ASSUME Init PROVE Typed
  OBVIOUS
<1>1. [what |-> "bind", gen |-> 1] \in NetRequest
  BY VaultAssumption DEF NetRequest, Generation
<1>2. DOMAIN asked = 1 .. ids /\ DOMAIN answer \subseteq 1 .. ids
  BY DEF Init
<1>3. toNet \in Seq(NetRequest)
  BY <1>1 DEF Init
<1>4. /\ alive \in [Generation -> BOOLEAN] /\ store \in [Generation -> SUBSET Cookie]
      /\ wire \in [Generation -> Seq(VaultRequest)]
      /\ back \in [Generation -> Seq(SUBSET Cookie)]
  BY DEF Init
<1>5. /\ restarts \in 0 .. MAX_SERVICE_RESTARTS /\ vault \in Generation \cup {None}
      /\ made \in Generation /\ made + (MAX_SERVICE_RESTARTS - restarts) <= GenerationBound
      /\ baked \in 0 .. CookieBound /\ ids \in 0 .. AskBound
  BY VaultAssumption DEF Init, Generation
<1>6. DOMAIN asked = {} /\ DOMAIN answer = {}
  BY DEF Init
<1>7. /\ running \in BOOLEAN /\ jar \subseteq Cookie /\ toBroker \in Seq(FromNet)
      /\ link \in Generation \cup {None} /\ call \in Ask \cup {None}
      /\ jammed \in BOOLEAN /\ unbound \subseteq Generation
      /\ set \subseteq [cookie : Cookie, under : Generation \cup {None}]
  <2>1. /\ running = TRUE /\ jar = {} /\ toBroker = <<>> /\ link = None /\ call = None
        /\ jammed = FALSE /\ unbound = {} /\ set = {}
    BY DEF Init
  <2>2. running \in BOOLEAN /\ jammed \in BOOLEAN /\ link \in Generation \cup {None}
        /\ call \in Ask \cup {None}
    BY <2>1
  <2>3. toBroker \in Seq(FromNet)
    BY <2>1
  <2>4. /\ jar \subseteq Cookie /\ unbound \subseteq Generation
        /\ set \subseteq [cookie : Cookie, under : Generation \cup {None}]
    BY <2>1
  <2> QED BY <2>2, <2>3, <2>4
<1>8. TypeOK
  BY <1>2, <1>3, <1>4, <1>5, <1>6, <1>7 DEF TypeOK
<1>9. Numbered
  BY DEF Init, Numbered
<1> QED BY <1>8, <1>9 DEF Typed

LEMMA TypedSetCookie ==
  ASSUME Typed, NEW p \in Partition, NEW h \in BOOLEAN, SetCookie(p, h)
  PROVE  Typed'
<1> DEFINE c == [at |-> p, http_only |-> h, n |-> baked + 1]
           r == [what |-> "set", cookie |-> c]
<1> USE DEF Typed, TypeOK
<1>1. c \in Cookie /\ baked' \in 0 .. CookieBound
  BY VaultAssumption DEF SetCookie, Cookie
<1>2. r \in NetRequest
  BY <1>1 DEF NetRequest
<1>3. set' \subseteq [cookie : Cookie, under : Generation \cup {None}]
  BY <1>1 DEF SetCookie
<1>4. CASE cookies_in_vault
  <2>1. toNet' = Append(toNet, r) /\ UNCHANGED jar
    BY <1>4 DEF SetCookie
  <2>2. toNet' \in Seq(NetRequest)
    BY <1>2, <2>1, Enqueued
  <2>3. \A i \in DOMAIN toNet' :
          toNet'[i].what \in {"get", "fetch"} => toNet'[i].id \in 1 .. ids
    <3> HIDE DEF c
    <3>1. r.what = "set"
      OBVIOUS
    <3> QED BY <1>2, <2>1, <3>1, Enqueued DEF Numbered
  <2>4. TypeOK'
    BY <1>1, <1>3, <2>1, <2>2 DEF SetCookie, vaults
  <2> QED BY <2>3, <2>4 DEF Numbered, SetCookie
<1>5. CASE ~cookies_in_vault
  <2>1. TypeOK'
    BY <1>1, <1>3, <1>5 DEF SetCookie, vaults
  <2> QED BY <1>5, <2>1 DEF Numbered, SetCookie
<1> QED BY <1>4, <1>5

LEMMA NotedTypes ==
  ASSUME Typed, NEW what \in {"get", "fetch"}, NEW p \in Partition, Noted(what, p)
  PROVE  /\ ids' \in 1 .. AskBound /\ ids' = ids + 1
         /\ DOMAIN asked' = 1 .. ids'
         /\ \A i \in DOMAIN asked' : asked'[i] \in
              [what : {"get", "fetch"}, at : Partition, before : 0 .. CookieBound,
               under : Generation \cup {None}]
BY VaultAssumption, SMTT(20) DEF Typed, TypeOK, Noted

(* A request appended to the queue of net.                                 *)
LEMMA AskQueued ==
  ASSUME Typed, NEW r \in Ask, ids' \in Nat, ids' >= ids, r.id \in 1 .. ids',
         toNet' = Append(toNet, r), UNCHANGED <<toBroker, call, link>>
  PROVE  toNet' \in Seq(NetRequest) /\ Numbered'
<1>1. r \in NetRequest
  BY DEF NetRequest
<1>2. ids \in Nat /\ \A i : i \in 1 .. ids => i \in 1 .. ids'
  BY VaultAssumption DEF Typed, TypeOK
<1>3. \A i \in DOMAIN toNet' :
        toNet'[i].what \in {"get", "fetch"} => toNet'[i].id \in 1 .. ids'
  BY <1>1, <1>2, Enqueued DEF Typed, TypeOK, Numbered
<1> QED BY <1>1, <1>2, <1>3, Enqueued DEF Typed, TypeOK, Numbered

LEMMA AskCount ==
  ASSUME Typed
  PROVE  /\ ids \in Nat
         /\ ids' = ids + 1 => ids' \in Nat /\ ids' >= ids
<1>1. ids \in 0 .. AskBound
  BY DEF Typed, TypeOK
<1>2. AskBound \in Nat
  BY VaultAssumption
<1> QED BY <1>1, <1>2

LEMMA TypedNeedFetch ==
  ASSUME Typed, NEW p \in Partition, NeedFetch(p)
  PROVE  Typed'
<1> DEFINE r == [what |-> "fetch", id |-> ids', at |-> p,
                 cookies |-> IF cookies_in_vault THEN {} ELSE View(jar, p, FALSE)]
<1>1. /\ ids' \in 1 .. AskBound /\ ids' = ids + 1
      /\ DOMAIN asked' = 1 .. ids'
      /\ \A i \in DOMAIN asked' : asked'[i] \in
           [what : {"get", "fetch"}, at : Partition, before : 0 .. CookieBound,
            under : Generation \cup {None}]
  BY NotedTypes DEF NeedFetch
<1>2. r \in Ask /\ r.id \in 1 .. ids'
  BY <1>1 DEF Ask, View, Typed, TypeOK
<1>3. toNet' \in Seq(NetRequest) /\ Numbered'
  <2> HIDE DEF r
  <2>1. ids \in Nat /\ ids' \in Nat /\ ids' >= ids
    BY <1>1, AskCount
  <2> QED BY <1>2, <2>1, AskQueued DEF NeedFetch, r
<1>4. TypeOK'
  <2>1. UNCHANGED <<running, vault, jar, restarts, made, baked, toBroker, link, call,
                    jammed, alive, store, wire, back, set, answer, unbound>>
    BY DEF NeedFetch, vaults
  <2>2. ids' \in 0 .. AskBound /\ TypeOK
    BY <1>1, VaultAssumption DEF Typed
  <2>3. DOMAIN answer' \subseteq 1 .. ids' /\ \A i \in DOMAIN answer' : answer'[i] \in Answer
    <3>1. \A i : i \in 1 .. ids => i \in 1 .. ids'
      BY <1>1, <2>2, VaultAssumption DEF TypeOK
    <3>2. answer' = answer /\ DOMAIN answer \subseteq 1 .. ids
          /\ \A i \in DOMAIN answer : answer[i] \in Answer
      BY <2>2 DEF NeedFetch, TypeOK
    <3> QED BY <3>1, <3>2
  <2> HIDE DEF r
  <2> QED BY <1>1, <1>3, <2>1, <2>2, <2>3, SMTT(30) DEF TypeOK
<1> QED BY <1>3, <1>4 DEF Typed

LEMMA TypedNeedCookies ==
  ASSUME Typed, NEW p \in Partition, NeedCookies(p)
  PROVE  Typed'
<1> DEFINE r == [what |-> "get", id |-> ids', at |-> p, cookies |-> {}]
           a == [cookies |-> View(jar, p, TRUE), from |-> None]
<1>1. /\ ids' \in 1 .. AskBound /\ ids' = ids + 1
      /\ DOMAIN asked' = 1 .. ids'
      /\ \A i \in DOMAIN asked' : asked'[i] \in
           [what : {"get", "fetch"}, at : Partition, before : 0 .. CookieBound,
            under : Generation \cup {None}]
  BY NotedTypes DEF NeedCookies
<1>2. r \in Ask /\ r.id \in 1 .. ids' /\ a \in Answer
  BY <1>1 DEF Ask, Answer, View, Typed, TypeOK
<1>3. ids \in Nat /\ ids' \in Nat /\ ids' >= ids
  BY <1>1, AskCount
<1>4. toNet' \in Seq(NetRequest) /\ Numbered'
  <2> HIDE DEF r
  <2>1. CASE cookies_in_vault
    BY <1>2, <1>3, <2>1, AskQueued DEF NeedCookies, r
  <2>2. CASE ~cookies_in_vault
    <3>1. \A i : i \in 1 .. ids => i \in 1 .. ids'
      BY <1>3
    <3> QED BY <2>2, <3>1 DEF NeedCookies, Typed, TypeOK, Numbered
  <2> QED BY <2>1, <2>2
<1>5. DOMAIN answer' \subseteq 1 .. ids' /\ \A i \in DOMAIN answer' : answer'[i] \in Answer
  <2>1. ids' \in 1 .. ids' /\ \A i : i \in 1 .. ids => i \in 1 .. ids'
    BY <1>3, <1>1, VaultAssumption
  <2>2. answer' = answer \/ answer' = Settled(ids', a)
    BY DEF NeedCookies
  <2> HIDE DEF a
  <2>3. DOMAIN answer \subseteq 1 .. ids /\ \A i \in DOMAIN answer : answer[i] \in Answer
    BY DEF Typed, TypeOK
  <2>4. CASE answer' = answer
    BY <2>1, <2>3, <2>4
  <2>5. CASE answer' = Settled(ids', a)
    BY <1>2, <2>1, <2>3, <2>5 DEF Settled
  <2> QED BY <2>2, <2>4, <2>5
<1>6. TypeOK'
  <2>1. UNCHANGED <<running, vault, jar, restarts, made, baked, toBroker, link, call,
                    jammed, alive, store, wire, back, set, unbound>>
    BY DEF NeedCookies, vaults
  <2>2. ids' \in 0 .. AskBound /\ TypeOK
    BY <1>1, VaultAssumption DEF Typed
  <2> HIDE DEF r, a
  <2> QED BY <1>1, <1>4, <1>5, <2>1, <2>2, SMTT(30) DEF TypeOK
<1> QED BY <1>4, <1>6 DEF Typed

(* What is taken from the head of a queue leaves the rest as it was.       *)
LEMMA RequestTaken ==
  ASSUME Typed, toNet # <<>>
  PROVE  /\ Head(toNet) \in NetRequest /\ Tail(toNet) \in Seq(NetRequest)
         /\ Head(toNet).what \in {"get", "fetch"} =>
              Head(toNet) \in Ask /\ Head(toNet).id \in 1 .. ids
         /\ \A i \in DOMAIN Tail(toNet) :
              Tail(toNet)[i].what \in {"get", "fetch"} => Tail(toNet)[i].id \in 1 .. ids
<1>1. toNet \in Seq(NetRequest)
  BY DEF Typed, TypeOK
<1>2. /\ Tail(toNet) \in Seq(NetRequest)
      /\ 1 \in DOMAIN toNet /\ Head(toNet) = toNet[1] /\ Head(toNet) \in NetRequest
      /\ \A i \in DOMAIN Tail(toNet) :
           i + 1 \in DOMAIN toNet /\ i + 1 # 1 /\ Tail(toNet)[i] = toNet[i + 1]
  BY <1>1, Dequeued
<1> QED BY <1>2, RequestKinds DEF Typed, Numbered

LEMMA ReplyTaken ==
  ASSUME Typed, toBroker # <<>>
  PROVE  /\ Head(toBroker) \in FromNet /\ Tail(toBroker) \in Seq(FromNet)
         /\ Head(toBroker).what = "reply" =>
              Head(toBroker).id \in 1 .. ids /\ Head(toBroker).answer \in Answer
         /\ \A i \in DOMAIN Tail(toBroker) :
              Tail(toBroker)[i].what = "reply" => Tail(toBroker)[i].id \in 1 .. ids
<1>1. toBroker \in Seq(FromNet)
  BY DEF Typed, TypeOK
<1>2. /\ Tail(toBroker) \in Seq(FromNet)
      /\ 1 \in DOMAIN toBroker /\ Head(toBroker) = toBroker[1]
      /\ Head(toBroker) \in FromNet
      /\ \A i \in DOMAIN Tail(toBroker) :
           i + 1 \in DOMAIN toBroker /\ i + 1 # 1 /\ Tail(toBroker)[i] = toBroker[i + 1]
  BY <1>1, Dequeued
<1> QED BY <1>2, ReplyKinds DEF Typed, Numbered

LEMMA TypedReply ==
  ASSUME Typed, Reply
  PROVE  Typed'
<1>1. /\ toBroker' = Tail(toBroker) /\ toBroker # <<>>
      /\ Head(toBroker).what = "reply"
      /\ UNCHANGED <<broker, toNet, link, call, jammed, vaults, set, asked, unbound>>
  BY DEF Reply
<1>2. DOMAIN answer' \subseteq 1 .. ids /\ \A i \in DOMAIN answer' : answer'[i] \in Answer
  BY <1>1, ReplyTaken DEF Reply, Settled, Typed, TypeOK
<1>3. TypeOK'
  BY <1>1, <1>2, ReplyTaken DEF broker, vaults, Typed, TypeOK
<1>4. Numbered'
  BY <1>1, ReplyTaken DEF broker, Typed, Numbered
<1> QED BY <1>3, <1>4 DEF Typed

LEMMA ReapTypes ==
  ASSUME Typed
  PROVE  /\ Reap \in [Generation -> BOOLEAN]
         /\ \A g \in Generation : [Reap EXCEPT ![g] = TRUE] \in [Generation -> BOOLEAN]
BY DEF Reap, Typed, TypeOK

LEMMA TypedVaultGone ==
  ASSUME Typed, VaultGone
  PROVE  Typed'
<1>1. /\ toBroker' = Tail(toBroker) /\ toBroker # <<>>
      /\ UNCHANGED <<running, jar, baked, ids, link, call, jammed, store, wire, back, history>>
  BY DEF VaultGone
<1>2. /\ restarts \in Nat /\ made \in Nat /\ made >= 1
      /\ MAX_SERVICE_RESTARTS \in Nat /\ GenerationBound \in Nat
      /\ restarts <= MAX_SERVICE_RESTARTS
      /\ made <= GenerationBound
      /\ made + (MAX_SERVICE_RESTARTS - restarts) <= GenerationBound
  BY VaultAssumption DEF Typed, TypeOK, Generation
<1>3. CASE MayRestart /\ restarts' = restarts + 1 /\ Rewired
  <2>1. made + 1 \in Generation
    BY <1>2, <1>3 DEF MayRestart, Generation
  <2>2. [what |-> "bind", gen |-> made + 1] \in NetRequest
    BY <2>1 DEF NetRequest
  <2>3. /\ toNet' \in Seq(NetRequest)
        /\ \A i \in DOMAIN toNet' :
             toNet'[i].what \in {"get", "fetch"} => toNet'[i].id \in 1 .. ids
    <3> DEFINE r == [what |-> "bind", gen |-> made + 1]
    <3>1. r.what = "bind" /\ toNet' = Append(toNet, r)
      BY <1>3 DEF Rewired
    <3> HIDE DEF r
    <3>2. r \in NetRequest
      BY <2>2 DEF r
    <3>3. toNet \in Seq(NetRequest) /\ \A i \in DOMAIN toNet :
            toNet[i].what \in {"get", "fetch"} => toNet[i].id \in 1 .. ids
      BY DEF Typed, TypeOK, Numbered
    <3> QED BY <3>1, <3>2, <3>3, Enqueued
  <2>4. /\ restarts' \in 0 .. MAX_SERVICE_RESTARTS /\ made' \in Generation
        /\ made' + (MAX_SERVICE_RESTARTS - restarts') <= GenerationBound
    BY <1>2, <1>3, <2>1 DEF MayRestart, Rewired
  <2>5. vault' \in Generation /\ alive' \in [Generation -> BOOLEAN]
    BY <1>3, <2>1, ReapTypes DEF Rewired
  <2>6. TypeOK'
    BY <1>1, <2>3, <2>4, <2>5, ReplyTaken DEF history, Typed, TypeOK
  <2> QED BY <1>1, <2>3, <2>6, ReplyTaken DEF Typed, Numbered
<1>4. CASE RewireFailed
  <2>1. /\ restarts' \in 0 .. MAX_SERVICE_RESTARTS
        /\ made + (MAX_SERVICE_RESTARTS - restarts') <= GenerationBound
    BY <1>2 DEF VaultGone, MayRestart
  <2>2. /\ vault' = None /\ alive' \in [Generation -> BOOLEAN]
        /\ UNCHANGED <<made, toNet>>
    BY <1>4, ReapTypes DEF RewireFailed
  <2>3. TypeOK'
    BY <1>1, <2>1, <2>2, ReplyTaken DEF history, Typed, TypeOK
  <2>4. UNCHANGED <<toNet, ids, link, call>>
    BY <1>1, <2>2
  <2>5. \A i \in DOMAIN toBroker' :
          toBroker'[i].what = "reply" => toBroker'[i].id \in 1 .. ids
    BY <1>1, ReplyTaken
  <2>6. Numbered'
    BY <2>4, <2>5 DEF Typed, Numbered
  <2> QED BY <2>3, <2>6 DEF Typed
<1>5. CASE RewireTorn
  <2> DEFINE r == [what |-> "bind", gen |-> None]
  <2>1. /\ restarts' \in 0 .. MAX_SERVICE_RESTARTS
        /\ made + (MAX_SERVICE_RESTARTS - restarts') <= GenerationBound
    BY <1>2 DEF VaultGone, MayRestart
  <2>2. /\ vault' = None /\ alive' \in [Generation -> BOOLEAN]
        /\ toNet' = Append(toNet, r) /\ UNCHANGED made
    BY <1>5, ReapTypes DEF RewireTorn
  <2>3. r \in NetRequest /\ r.what = "bind"
    BY DEF NetRequest
  <2> HIDE DEF r
  <2>4. /\ toNet' \in Seq(NetRequest)
        /\ \A i \in DOMAIN toNet' :
             toNet'[i].what \in {"get", "fetch"} => toNet'[i].id \in 1 .. ids
    BY <2>2, <2>3, Enqueued DEF Typed, TypeOK, Numbered
  <2>5. TypeOK'
    BY <1>1, <2>1, <2>2, <2>4, ReplyTaken DEF history, Typed, TypeOK
  <2> QED BY <1>1, <2>4, <2>5, ReplyTaken DEF Typed, Numbered
<1>6. \/ MayRestart /\ restarts' = restarts + 1 /\ Rewired
      \/ RewireFailed \/ RewireTorn
  BY DEF VaultGone
<1> QED BY <1>3, <1>4, <1>5, <1>6

LEMMA TypedRestartAges ==
  ASSUME Typed, RestartAges
  PROVE  Typed'
<1>1. /\ restarts' \in 0 .. MAX_SERVICE_RESTARTS
      /\ made + (MAX_SERVICE_RESTARTS - restarts') <= GenerationBound
  BY VaultAssumption, SMTT(30) DEF RestartAges, Typed, TypeOK, Generation
<1>2. UNCHANGED <<running, vault, jar, made, baked, ids, net, vaults, history>>
  BY DEF RestartAges
<1>3. TypeOK'
  BY <1>1, <1>2 DEF net, vaults, history, Typed, TypeOK
<1>4. Numbered'
  BY <1>2 DEF net, Typed, Numbered
<1> QED BY <1>3, <1>4 DEF Typed

LEMMA TypedShutdown ==
  ASSUME Typed, Shutdown
  PROVE  Typed'
<1>1. alive' \in [Generation -> BOOLEAN]
  BY ReapTypes DEF Shutdown
<1>2. toNet' \in Seq(NetRequest) /\ toBroker' \in Seq(FromNet)
  BY DEF Shutdown
<1>3. TypeOK'
  BY <1>1, <1>2 DEF Shutdown, history, Typed, TypeOK
<1>4. Numbered'
  BY DEF Shutdown, Typed, Numbered
<1> QED BY <1>3, <1>4 DEF Typed

LEMMA TypedBindVault ==
  ASSUME Typed, BindVault
  PROVE  Typed'
<1>1. /\ toNet # <<>> /\ Head(toNet).what = "bind" /\ toNet' = Tail(toNet) /\ call = None
      /\ UNCHANGED <<broker, toBroker, call, vaults, set, asked, answer>>
  BY DEF BindVault, NextRequest
<1>2. Head(toNet).gen \in Generation \cup {None} /\ Tail(toNet) \in Seq(NetRequest)
  BY <1>1, RequestTaken, RequestKinds
<1>3. /\ link' \in Generation \cup {None} /\ jammed' \in BOOLEAN
      /\ unbound' \subseteq Generation
  <2>1. link \in Generation \cup {None} /\ jammed \in BOOLEAN /\ unbound \subseteq Generation
    BY DEF Typed, TypeOK
  <2> QED BY <1>2, <2>1 DEF BindVault
<1>4. TypeOK'
  <2>1. TypeOK
    BY DEF Typed
  <2>2. toNet' \in Seq(NetRequest)
    BY <1>1, <1>2
  <2>3. UNCHANGED <<running, vault, jar, restarts, made, baked, ids, toBroker, call,
                    alive, store, wire, back, set, asked, answer>>
    BY <1>1 DEF broker, vaults
  <2> QED BY <1>3, <2>1, <2>2, <2>3, SMTT(30) DEF TypeOK
<1>5. Numbered'
  <2>1. ids' = ids /\ toBroker' = toBroker /\ call' = None
    BY <1>1 DEF broker
  <2>2. \A i \in DOMAIN toNet' :
          toNet'[i].what \in {"get", "fetch"} => toNet'[i].id \in 1 .. ids'
    BY <1>1, <2>1, RequestTaken
  <2> QED BY <2>1, <2>2 DEF Typed, Numbered
<1> QED BY <1>4, <1>5 DEF Typed

(* A request written on the link to a vault.                               *)
LEMMA WireTypes ==
  ASSUME Typed, NEW g \in Generation, NEW r \in VaultRequest
  PROVE  [wire EXCEPT ![g] = Append(@, r)] \in [Generation -> Seq(VaultRequest)]
<1>0. wire[g] \in Seq(VaultRequest)
  BY DEF Typed, TypeOK
<1>1. Append(wire[g], r) \in Seq(VaultRequest)
  BY <1>0, AppendProperties
<1> QED BY <1>1 DEF Typed, TypeOK

LEMMA TypedCookieSet ==
  ASSUME Typed, CookieSet
  PROVE  Typed'
<1>1. /\ toNet # <<>> /\ Head(toNet).what = "set" /\ toNet' = Tail(toNet)
      /\ UNCHANGED <<broker, toBroker, link, call, jammed, alive, store, back, history>>
  BY DEF CookieSet, NextRequest
<1>2. wire' \in [Generation -> Seq(VaultRequest)]
  <2>1. Head(toNet) \in VaultRequest
    BY <1>1, RequestTaken, RequestKinds
  <2>2. CASE link # None /\ alive[link]
    <3>1. link \in Generation /\ wire' = [wire EXCEPT ![link] = Append(@, Head(toNet))]
      BY <2>2 DEF CookieSet, Typed, TypeOK
    <3> QED BY <2>1, <3>1, WireTypes
  <2>3. CASE ~(link # None /\ alive[link])
    BY <2>3 DEF CookieSet, Typed, TypeOK
  <2> QED BY <2>2, <2>3
<1>3. TypeOK'
  BY <1>1, <1>2, RequestTaken DEF broker, history, Typed, TypeOK
<1>4. Numbered'
  BY <1>1, RequestTaken DEF broker, Typed, Numbered
<1> QED BY <1>3, <1>4 DEF Typed

(* A reply appended to the queue of the broker.                            *)
LEMMA ReplyQueued ==
  ASSUME NEW q \in Seq(FromNet), NEW ask \in Ask, NEW cookies \in SUBSET Cookie,
         NEW g \in Generation \cup {None}, NEW n \in Nat, ask.id \in 1 .. n,
         \A i \in DOMAIN q : q[i].what = "reply" => q[i].id \in 1 .. n
  PROVE  /\ Append(q, Message(ask, cookies, g)) \in Seq(FromNet)
         /\ \A i \in DOMAIN Append(q, Message(ask, cookies, g)) :
              Append(q, Message(ask, cookies, g))[i].what = "reply"
              => Append(q, Message(ask, cookies, g))[i].id \in 1 .. n
<1>1. /\ Message(ask, cookies, g) \in FromNet
      /\ Message(ask, cookies, g).id \in 1 .. n
  BY AnswersAreReplies
<1> QED BY <1>1, Enqueued

LEMMA VaultLostTypes ==
  ASSUME Typed, NEW ask \in Ask, ask.id \in 1 .. ids, VaultLost(ask)
  PROVE  /\ toBroker' \in Seq(FromNet) /\ link' = None /\ call' = None
         /\ \A i \in DOMAIN toBroker' :
              toBroker'[i].what = "reply" => toBroker'[i].id \in 1 .. ids
<1> DEFINE gone == [what |-> "gone"]
           q == Append(toBroker, gone)
<1>1. gone \in FromNet /\ gone.what # "reply"
  BY DEF FromNet
<1>2. ids \in Nat /\ toBroker \in Seq(FromNet)
  BY VaultAssumption DEF Typed, TypeOK
<1>3. toBroker' = Append(q, Message(ask, {}, None)) /\ link' = None /\ call' = None
  BY DEF VaultLost
<1> HIDE DEF gone
<1>4. q \in Seq(FromNet) /\ \A i \in DOMAIN q : q[i].what = "reply" => q[i].id \in 1 .. ids
  BY <1>1, <1>2, Enqueued DEF Typed, Numbered
<1> HIDE DEF q
<1>5. {} \in SUBSET Cookie /\ None \in Generation \cup {None}
  OBVIOUS
<1> QED BY <1>2, <1>3, <1>4, <1>5, ReplyQueued

LEMMA TypedAskVault ==
  ASSUME Typed, AskVault
  PROVE  Typed'
<1> DEFINE ask == Head(toNet)
<1>1. /\ toNet # <<>> /\ ask.what \in {"get", "fetch"} /\ toNet' = Tail(toNet) /\ call = None
      /\ UNCHANGED <<broker, jammed, alive, store, back, history>>
  BY DEF AskVault, NextRequest
<1>2. ask \in Ask /\ ask.id \in 1 .. ids /\ ask.cookies \in SUBSET Cookie
  BY <1>1, RequestTaken DEF Ask
<1>3. ids \in Nat /\ toBroker \in Seq(FromNet)
  BY VaultAssumption DEF Typed, TypeOK
<1>4. \/ /\ toBroker' = Append(toBroker, Message(ask, ask.cookies, None))
         /\ UNCHANGED <<link, call, wire>>
      \/ VaultLost(ask) /\ UNCHANGED wire
      \/ /\ link # None
         /\ wire' = [wire EXCEPT ![link] = Append(@,
              [what |-> "get", at |-> ask.at, visible_only |-> ask.what = "get"])]
         /\ call' = ask
         /\ UNCHANGED <<link, toBroker>>
  BY DEF AskVault
<1> HIDE DEF ask
<1> DEFINE ReplyIds == \A i \in DOMAIN toBroker' :
             toBroker'[i].what = "reply" => toBroker'[i].id \in 1 .. ids
<1>5. /\ toBroker' \in Seq(FromNet) /\ ReplyIds
      /\ link' \in Generation \cup {None}
      /\ call' \in Ask \cup {None}
      /\ call' # None => call'.id \in 1 .. ids /\ link' # None
      /\ wire' \in [Generation -> Seq(VaultRequest)]
  <2>1. CASE /\ toBroker' = Append(toBroker, Message(ask, ask.cookies, None))
             /\ UNCHANGED <<link, call, wire>>
    <3>1. toBroker' \in Seq(FromNet) /\ ReplyIds
      BY <1>2, <1>3, <2>1, ReplyQueued DEF Typed, Numbered
    <3> QED BY <1>1, <2>1, <3>1 DEF Typed, TypeOK
  <2>2. CASE VaultLost(ask) /\ UNCHANGED wire
    BY <1>2, <2>2, VaultLostTypes DEF Typed, TypeOK
  <2>3. CASE /\ link # None
             /\ wire' = [wire EXCEPT ![link] = Append(@,
                  [what |-> "get", at |-> ask.at, visible_only |-> ask.what = "get"])]
             /\ call' = ask
             /\ UNCHANGED <<link, toBroker>>
    <3> DEFINE r == [what |-> "get", at |-> ask.at, visible_only |-> ask.what = "get"]
    <3>1. r \in VaultRequest
      BY <1>2 DEF Ask, VaultRequest
    <3>2. link \in Generation
      BY <2>3 DEF Typed, TypeOK
    <3> HIDE DEF r
    <3>3. wire' \in [Generation -> Seq(VaultRequest)]
      BY <2>3, <3>1, <3>2, WireTypes DEF r
    <3>4. toBroker' \in Seq(FromNet) /\ ReplyIds
      BY <2>3 DEF Typed, TypeOK, Numbered
    <3> QED BY <1>2, <2>3, <3>2, <3>3, <3>4
  <2> QED BY <1>4, <2>1, <2>2, <2>3
<1>6. TypeOK'
  BY <1>1, <1>5, RequestTaken DEF broker, history, Typed, TypeOK
<1>7. Numbered'
  BY <1>1, <1>5, RequestTaken DEF broker, Numbered
<1> QED BY <1>6, <1>7 DEF Typed

LEMMA TypedVaultAnswers ==
  ASSUME Typed, VaultAnswers
  PROVE  Typed'
<1>1. /\ call # None
      /\ UNCHANGED <<broker, toNet, jammed, alive, store, wire, history>>
  BY DEF VaultAnswers
<1>2. call \in Ask /\ call.id \in 1 .. ids /\ link \in Generation
  BY <1>1 DEF Typed, TypeOK, Numbered
<1>3. ids \in Nat /\ toBroker \in Seq(FromNet) /\ back[link] \in Seq(SUBSET Cookie)
  BY <1>2, VaultAssumption DEF Typed, TypeOK
<1> DEFINE ReplyIds == \A i \in DOMAIN toBroker' :
             toBroker'[i].what = "reply" => toBroker'[i].id \in 1 .. ids
<1>4. /\ toBroker' \in Seq(FromNet) /\ ReplyIds
      /\ link' \in Generation \cup {None} /\ call' = None
      /\ back' \in [Generation -> Seq(SUBSET Cookie)]
  <2>1. CASE back[link] # <<>>
    <3>1. Head(back[link]) \in SUBSET Cookie /\ Tail(back[link]) \in Seq(SUBSET Cookie)
      BY <1>3, <2>1, HeadTailProperties
    <3>2. /\ toBroker' = Append(toBroker, Message(call, Head(back[link]), link))
          /\ back' = [back EXCEPT ![link] = Tail(@)]
          /\ call' = None /\ UNCHANGED link
      BY <2>1 DEF VaultAnswers
    <3>3. toBroker' \in Seq(FromNet) /\ ReplyIds
      BY <1>2, <1>3, <3>1, <3>2, ReplyQueued DEF Typed, Numbered
    <3>4. back' \in [Generation -> Seq(SUBSET Cookie)]
      BY <3>1, <3>2 DEF Typed, TypeOK
    <3> QED BY <1>2, <3>2, <3>3, <3>4
  <2>2. CASE back[link] = <<>>
    <3>1. VaultLost(call) /\ UNCHANGED back
      BY <2>2 DEF VaultAnswers
    <3> QED BY <1>2, <3>1, VaultLostTypes DEF Typed, TypeOK
  <2> QED BY <2>1, <2>2
<1>5. TypeOK'
  BY <1>1, <1>4 DEF broker, history, Typed, TypeOK
<1>6. Numbered'
  BY <1>1, <1>4 DEF broker, Typed, Numbered
<1> QED BY <1>5, <1>6 DEF Typed

LEMMA TypedServe ==
  ASSUME Typed, NEW g \in Generation, Serve(g)
  PROVE  Typed'
<1> DEFINE req == Head(wire[g])
<1>1. /\ wire[g] # <<>> /\ wire' = [wire EXCEPT ![g] = Tail(@)]
      /\ UNCHANGED <<broker, net, alive, history>>
  BY DEF Serve
<1>2. req \in VaultRequest /\ Tail(wire[g]) \in Seq(VaultRequest)
  BY <1>1, HeadTailProperties DEF Typed, TypeOK
<1>3. wire' \in [Generation -> Seq(VaultRequest)]
  BY <1>1, <1>2 DEF Typed, TypeOK
<1>4. /\ store' \in [Generation -> SUBSET Cookie]
      /\ back' \in [Generation -> Seq(SUBSET Cookie)]
  <2>1. CASE req.what = "set"
    <3>1. req.cookie \in Cookie
      BY <1>2, <2>1 DEF VaultRequest
    <3>2. store' = [store EXCEPT ![g] = @ \cup {req.cookie}] /\ UNCHANGED back
      BY <2>1 DEF Serve
    <3> QED BY <3>1, <3>2 DEF Typed, TypeOK
  <2>2. CASE req.what = "get"
    <3> DEFINE v == View(store[g], req.at, req.visible_only)
    <3>1. v \in SUBSET Cookie
      BY DEF View, Typed, TypeOK
    <3>2. back' = [back EXCEPT ![g] = Append(@, v)] /\ UNCHANGED store
      BY <2>2 DEF Serve
    <3> HIDE DEF v
    <3>3. Append(back[g], v) \in Seq(SUBSET Cookie)
      BY <3>1, AppendProperties DEF Typed, TypeOK
    <3> QED BY <3>2, <3>3 DEF Typed, TypeOK
  <2> QED BY <2>1, <2>2 DEF Serve
<1>5. TypeOK'
  BY <1>1, <1>3, <1>4 DEF broker, net, history, Typed, TypeOK
<1>6. Numbered'
  BY <1>1 DEF broker, net, Typed, Numbered
<1> QED BY <1>5, <1>6 DEF Typed

LEMMA TypedDies ==
  ASSUME Typed, NEW g \in Generation, Dies(g)
  PROVE  Typed'
<1>1. /\ alive' \in [Generation -> BOOLEAN]
      /\ UNCHANGED <<broker, net, store, wire, back, history>>
  BY DEF Dies, Typed, TypeOK
<1>2. TypeOK'
  BY <1>1 DEF broker, net, history, Typed, TypeOK
<1>3. Numbered'
  BY <1>1 DEF broker, net, Typed, Numbered
<1> QED BY <1>2, <1>3 DEF Typed

LEMMA TypedNext == Typed /\ [Next]_vars => Typed'
<1> SUFFICES ASSUME Typed, [Next]_vars PROVE Typed'
  OBVIOUS
<1>1. CASE UNCHANGED vars
  <2>1. TypeOK'
    BY <1>1 DEF vars, Typed, TypeOK
  <2>2. Numbered'
    BY <1>1 DEF vars, Typed, Numbered
  <2> QED BY <2>1, <2>2 DEF Typed
<1>2. CASE \E p \in Partition :
             (\E h \in BOOLEAN : SetCookie(p, h)) \/ NeedFetch(p) \/ NeedCookies(p)
  BY <1>2, TypedSetCookie, TypedNeedFetch, TypedNeedCookies
<1>3. CASE Loop \/ RestartAges \/ Shutdown
  BY <1>3, TypedReply, TypedVaultGone, TypedRestartAges, TypedShutdown DEF Loop
<1>4. CASE Net
  BY <1>4, TypedBindVault, TypedCookieSet, TypedAskVault, TypedVaultAnswers DEF Net
<1>5. CASE \E g \in Generation : Serve(g) \/ Dies(g)
  BY <1>5, TypedServe, TypedDies
<1> QED BY <1>1, <1>2, <1>3, <1>4, <1>5 DEF Next

(* Every variable keeps its type, for all bounds.                          *)
THEOREM VaultTypes == Spec => []TypeOK
<1>1. Spec => []Typed
  BY TypedInit, TypedNext, PTL DEF Spec
<1>2. Typed => TypeOK
  BY DEF Typed
<1> QED BY <1>1, <1>2, PTL

-----------------------------------------------------------------------------
(* One vault, one link, one report.                                        *)

(* Of a vault the broker holds, at most one thing is under way: its link   *)
(* is net's, or it is in the queue to net, or the report of its death is   *)
(* in the queue to the broker.  A bind request without a descriptor is in  *)
(* the queue to net only once the broker holds none.                       *)
Wired ==
  /\ NoOrphans /\ DeathReportedOnce
  /\ \A i \in Binds : Binds = {i} /\ Reports = {} /\ link = None /\ vault = toNet[i].gen
  /\ link # None => link = vault /\ Binds = {} /\ Reports = {}

LEMMA WiredInit == Init => Wired
<1> SUFFICES ASSUME Init PROVE Wired
  OBVIOUS
<1>1. NoOrphans
  BY DEF Init, NoOrphans
<1>2. Reports = {}
  BY DEF Init, Reports
<1>3. DOMAIN toNet = {1} /\ toNet[1] = [what |-> "bind", gen |-> 1]
  BY DEF Init
<1>4. Binds = {1} /\ toNet[1].gen = 1
  BY <1>3 DEF Binds
<1>5. link = None /\ vault = 1
  BY DEF Init
<1> QED BY <1>1, <1>2, <1>4, <1>5 DEF Wired, DeathReportedOnce

LEMMA Positions ==
  ASSUME Typed
  PROVE  Binds \subseteq Nat /\ Reports \subseteq Nat
BY LenProperties DEF Typed, TypeOK, Binds, Reports

(* An action that only moves the queues and lets vaults die.               *)
LEMMA QueuesMove ==
  ASSUME Typed, Typed', Wired, UNCHANGED <<vault, link>>,
         \A g \in Generation : alive'[g] => alive[g],
         NEW k \in Nat, \A i \in Binds' : i + k \in Binds /\ toNet'[i] = toNet[i + k],
         NEW l \in Nat, \A i \in Reports' : i + l \in Reports
  PROVE  Wired'
<1>1. Binds' \subseteq Nat /\ Reports' \subseteq Nat
  <2>1. toNet' \in Seq(NetRequest') /\ toBroker' \in Seq(FromNet')
    BY DEF Typed, TypeOK
  <2>2. DOMAIN toNet' = 1 .. Len(toNet') /\ DOMAIN toBroker' = 1 .. Len(toBroker')
    BY <2>1, LenProperties
  <2> QED BY <2>2 DEF Binds, Reports
<1>2. NoOrphans'
  <2>1. Generation' = Generation
    BY DEF Generation
  <2> QED BY <2>1 DEF Wired, NoOrphans
<1>3. /\ Binds = {} => Binds' = {}
      /\ Reports = {} => Reports' = {}
  OBVIOUS
<1>4. ASSUME NEW i \in Binds' PROVE Binds' = {i}
  <2>1. Binds = {i + k}
    BY <1>4 DEF Wired
  <2>2. \A j \in Binds' : j = i
    BY <1>1, <1>4, <2>1
  <2> QED BY <1>4, <2>2
<1>5. ASSUME NEW i \in Reports' PROVE Reports' = {i}
  <2>1. Reports = {i + l}
    BY <1>5 DEF Wired, DeathReportedOnce
  <2>2. \A j \in Reports' : j = i
    BY <1>1, <1>5, <2>1
  <2> QED BY <1>5, <2>2
<1>6. ASSUME NEW i \in Reports'
      PROVE  Reports' = {i} /\ Binds' = {} /\ link' = None /\ vault' # None /\ ~alive'[vault']
  <2>1. i + l \in Reports
    BY <1>6
  <2>2. Binds = {} /\ link = None /\ vault # None /\ ~alive[vault]
    BY <2>1 DEF Wired, DeathReportedOnce
  <2>3. vault \in Generation
    BY <2>2 DEF Typed, TypeOK
  <2> QED BY <1>3, <1>5, <2>2, <2>3
<1>7. ASSUME NEW i \in Binds'
      PROVE  Binds' = {i} /\ Reports' = {} /\ link' = None /\ vault' = toNet'[i].gen
  <2>1. i + k \in Binds /\ toNet'[i] = toNet[i + k]
    BY <1>7
  <2> QED BY <1>3, <1>4, <2>1 DEF Wired
<1>8. link' # None => link' = vault' /\ Binds' = {} /\ Reports' = {}
  BY <1>3 DEF Wired
<1> QED BY <1>2, <1>6, <1>7, <1>8 DEF Wired, DeathReportedOnce

(* What the queues' operations do to the positions of the two notices.     *)
LEMMA OthersQueued ==
  ASSUME Typed, NEW r \in NetRequest, r.what # "bind", toNet' = Append(toNet, r)
  PROVE  \A i \in Binds' : i + 0 \in Binds /\ toNet'[i] = toNet[i + 0]
<1>0. toNet \in Seq(NetRequest)
  BY DEF Typed, TypeOK
<1>1. /\ DOMAIN toNet' = DOMAIN toNet \cup {Len(toNet) + 1}
      /\ \A i \in DOMAIN toNet : toNet'[i] = toNet[i]
      /\ toNet'[Len(toNet) + 1] = r
  BY <1>0, Enqueued
<1>2. \A i \in DOMAIN toNet : i + 0 = i
  BY <1>0, LenProperties
<1> TAKE i \in Binds'
<1>3. i \in DOMAIN toNet' /\ toNet'[i].what = "bind"
  BY DEF Binds
<1>4. i \in DOMAIN toNet /\ toNet'[i] = toNet[i]
  BY <1>1, <1>3
<1> QED BY <1>2, <1>3, <1>4 DEF Binds

LEMMA HeadOfNetTaken ==
  ASSUME Typed, toNet # <<>>, toNet' = Tail(toNet)
  PROVE  /\ \A i \in Binds' : i + 1 \in Binds /\ i + 1 # 1 /\ toNet'[i] = toNet[i + 1]
         /\ Head(toNet).what = "bind" => 1 \in Binds
         /\ Head(toNet) = toNet[1]
<1>1. toNet \in Seq(NetRequest)
  BY DEF Typed, TypeOK
<1>2. /\ 1 \in DOMAIN toNet /\ Head(toNet) = toNet[1]
      /\ \A i \in DOMAIN toNet' : /\ i + 1 \in DOMAIN toNet /\ i + 1 # 1
                                 /\ toNet'[i] = toNet[i + 1]
  BY <1>1, Dequeued
<1> QED BY <1>2 DEF Binds

LEMMA ReplyQueuedHere ==
  ASSUME Typed, NEW r \in FromNet, r.what # "gone", toBroker' = Append(toBroker, r)
  PROVE  \A i \in Reports' : i + 0 \in Reports
<1>0. toBroker \in Seq(FromNet)
  BY DEF Typed, TypeOK
<1>1. /\ DOMAIN toBroker' = DOMAIN toBroker \cup {Len(toBroker) + 1}
      /\ \A i \in DOMAIN toBroker : toBroker'[i] = toBroker[i]
      /\ toBroker'[Len(toBroker) + 1] = r
  BY <1>0, Enqueued
<1>2. \A i \in DOMAIN toBroker : i + 0 = i
  BY <1>0, LenProperties
<1> QED BY <1>1, <1>2 DEF Reports

LEMMA HeadOfBrokerTaken ==
  ASSUME Typed, toBroker # <<>>, toBroker' = Tail(toBroker)
  PROVE  /\ \A i \in Reports' : i + 1 \in Reports /\ i + 1 # 1
         /\ Head(toBroker).what = "gone" => 1 \in Reports
<1>1. toBroker \in Seq(FromNet)
  BY DEF Typed, TypeOK
<1>2. /\ 1 \in DOMAIN toBroker /\ Head(toBroker) = toBroker[1]
      /\ \A i \in DOMAIN toBroker' : /\ i + 1 \in DOMAIN toBroker /\ i + 1 # 1
                                    /\ toBroker'[i] = toBroker[i + 1]
  BY <1>1, Dequeued
<1> QED BY <1>2 DEF Reports

LEMMA QueueUnchanged ==
  ASSUME Typed
  PROVE  /\ UNCHANGED toNet => \A i \in Binds' : i + 0 \in Binds /\ toNet'[i] = toNet[i + 0]
         /\ UNCHANGED toBroker => \A i \in Reports' : i + 0 \in Reports
<1>0. toNet \in Seq(NetRequest) /\ toBroker \in Seq(FromNet)
  BY DEF Typed, TypeOK
<1>1. \A i \in DOMAIN toNet \cup DOMAIN toBroker : i + 0 = i
  BY <1>0, LenProperties
<1> QED BY <1>1 DEF Binds, Reports

(* The link is lost: the report takes its place.                           *)
LEMMA WiredVaultLost ==
  ASSUME Typed, Wired, NEW ask \in Ask, link # None, ~alive[link], VaultLost(ask),
         UNCHANGED <<vault, alive>>, Binds' = {}
  PROVE  Wired'
<1> DEFINE gone == [what |-> "gone"]
           q == Append(toBroker, gone)
           m == Message(ask, {}, None)
           n == Len(toBroker) + 1
<1>1. gone \in FromNet /\ gone.what = "gone"
  BY DEF FromNet
<1>2. m \in FromNet /\ m.what = "reply"
  BY AnswersAreReplies
<1>3. toBroker \in Seq(FromNet)
  BY DEF Typed, TypeOK
<1>4. link = vault /\ vault # None /\ Reports = {}
  BY DEF Wired
<1>5. toBroker' = Append(q, m) /\ link' = None
  BY DEF VaultLost
<1> HIDE DEF gone, m
<1>6. /\ q \in Seq(FromNet) /\ DOMAIN q = DOMAIN toBroker \cup {n}
      /\ \A i \in DOMAIN toBroker : q[i] = toBroker[i]
      /\ q[n] = gone
  BY <1>1, <1>3, Enqueued
<1> HIDE DEF q
<1>7. /\ DOMAIN toBroker' = DOMAIN q \cup {Len(q) + 1}
      /\ \A i \in DOMAIN q : toBroker'[i] = q[i]
      /\ toBroker'[Len(q) + 1] = m
  BY <1>2, <1>5, <1>6, Enqueued
<1> HIDE DEF n
<1>8. Reports' = {n}
  <2>1. \A i \in DOMAIN toBroker' : toBroker'[i].what = "gone" => i = n
    BY <1>2, <1>4, <1>6, <1>7 DEF Reports
  <2>2. n \in DOMAIN toBroker' /\ toBroker'[n].what = "gone"
    BY <1>1, <1>6, <1>7
  <2> QED BY <2>1, <2>2 DEF Reports
<1>9. NoOrphans'
  BY DEF Wired, NoOrphans
<1> QED BY <1>4, <1>5, <1>8, <1>9 DEF Wired, DeathReportedOnce

LEMMA NobodyLeft ==
  ASSUME Typed, Wired
  PROVE  \A g \in Generation : ~Reap[g]
BY DEF Reap, Wired, NoOrphans

LEMMA WiredVaultGone ==
  ASSUME Typed, Typed', Wired, VaultGone
  PROVE  Wired'
<1>1. toBroker # <<>> /\ Head(toBroker).what = "gone" /\ toBroker' = Tail(toBroker)
      /\ UNCHANGED link
  BY DEF VaultGone
<1>2. 1 \in Reports /\ \A i \in Reports' : i + 1 \in Reports /\ i + 1 # 1
  BY <1>1, HeadOfBrokerTaken
<1>3. Reports = {1} /\ Binds = {} /\ link = None
  BY <1>2 DEF Wired, DeathReportedOnce
<1>4. Reports' = {} /\ link' = None
  BY <1>1, <1>2, <1>3
<1>5. CASE RewireFailed
  <2>1. alive' = Reap /\ vault' = None /\ UNCHANGED toNet
    BY <1>5 DEF RewireFailed
  <2>2. NoOrphans'
    BY <2>1, NobodyLeft DEF NoOrphans, Generation
  <2>3. Binds' = {}
    BY <1>3, <2>1 DEF Binds
  <2> QED BY <1>4, <2>2, <2>3 DEF Wired, DeathReportedOnce
<1>6. CASE Rewired
  <2> DEFINE r == [what |-> "bind", gen |-> made + 1]
             n == Len(toNet) + 1
  <2>1. vault' = made + 1 /\ made' = made + 1 /\ toNet' = Append(toNet, r)
        /\ alive' = [Reap EXCEPT ![made + 1] = TRUE]
    BY <1>6 DEF Rewired
  <2>2. made + 1 \in Generation
    <3>1. made' \in Generation
      BY DEF Typed, TypeOK, Generation
    <3> QED BY <2>1, <3>1
  <2>3. r \in NetRequest /\ r.what = "bind" /\ r.gen = made + 1
    BY <2>2 DEF NetRequest
  <2> HIDE DEF r
  <2>4. /\ DOMAIN toNet' = DOMAIN toNet \cup {n}
        /\ \A i \in DOMAIN toNet : toNet'[i] = toNet[i]
        /\ toNet'[n] = r
    <3>1. toNet' = Append(toNet, r) /\ toNet \in Seq(NetRequest)
      BY <2>1 DEF Typed, TypeOK
    <3> QED BY <2>3, <3>1, Enqueued
  <2> HIDE DEF n
  <2>5. Binds' = {n}
    BY <1>3, <2>3, <2>4 DEF Binds
  <2>6. NoOrphans'
    <3>1. Reap \in [Generation -> BOOLEAN]
      BY ReapTypes
    <3>2. \A g \in Generation : alive'[g] => g = made + 1
      BY <2>1, <2>2, <3>1, NobodyLeft
    <3> QED BY <2>1, <3>2 DEF NoOrphans, Generation
  <2> QED BY <1>4, <2>1, <2>3, <2>4, <2>5, <2>6 DEF Wired, DeathReportedOnce
<1>7. CASE RewireTorn
  <2> DEFINE r == [what |-> "bind", gen |-> None]
             n == Len(toNet) + 1
  <2>1. vault' = None /\ toNet' = Append(toNet, r) /\ alive' = Reap
    BY <1>7 DEF RewireTorn
  <2>2. r \in NetRequest /\ r.what = "bind" /\ r.gen = None
    BY DEF NetRequest
  <2> HIDE DEF r
  <2>3. /\ DOMAIN toNet' = DOMAIN toNet \cup {n}
        /\ \A i \in DOMAIN toNet : toNet'[i] = toNet[i]
        /\ toNet'[n] = r
    <3>1. toNet \in Seq(NetRequest)
      BY DEF Typed, TypeOK
    <3> QED BY <2>1, <2>2, <3>1, Enqueued
  <2> HIDE DEF n
  <2>4. Binds' = {n}
    BY <1>3, <2>2, <2>3 DEF Binds
  <2>5. NoOrphans'
    BY <2>1, NobodyLeft DEF NoOrphans, Generation
  <2> QED BY <1>4, <2>1, <2>2, <2>3, <2>4, <2>5 DEF Wired, DeathReportedOnce
<1> QED BY <1>5, <1>6, <1>7 DEF VaultGone

LEMMA WiredShutdown ==
  ASSUME Typed, Wired, Shutdown
  PROVE  Wired'
<1>1. alive' = Reap /\ vault' = None /\ link' = None /\ toNet' = <<>> /\ toBroker' = <<>>
  BY DEF Shutdown
<1>2. NoOrphans'
  BY <1>1, NobodyLeft DEF NoOrphans, Generation
<1>3. Binds' = {} /\ Reports' = {}
  BY <1>1 DEF Binds, Reports
<1> QED BY <1>1, <1>2, <1>3 DEF Wired, DeathReportedOnce

LEMMA WiredBindVault ==
  ASSUME Typed, Wired, BindVault
  PROVE  Wired'
<1>1. /\ toNet # <<>> /\ Head(toNet).what = "bind" /\ toNet' = Tail(toNet)
      /\ link' = Head(toNet).gen \/ UNCHANGED link
      /\ UNCHANGED <<vault, alive, toBroker>>
  BY DEF BindVault, NextRequest, broker, vaults
<1>2. /\ 1 \in Binds /\ Head(toNet) = toNet[1]
      /\ \A i \in Binds' : i + 1 \in Binds /\ i + 1 # 1
  BY <1>1, HeadOfNetTaken
<1>3. Binds = {1} /\ Reports = {} /\ link = None /\ vault = toNet[1].gen
  BY <1>2 DEF Wired
<1>4. Binds' = {} /\ Reports' = {} /\ link' \in {vault', None}
  <2>1. Binds' = {}
    BY <1>2, <1>3
  <2>2. Reports' = {}
    BY <1>1, <1>3 DEF Reports
  <2> QED BY <1>1, <1>2, <1>3, <2>1, <2>2
<1>5. NoOrphans'
  BY <1>1 DEF Wired, NoOrphans, Generation
<1> QED BY <1>4, <1>5 DEF Wired, DeathReportedOnce

(* The requests and the answers of net that leave its link alone.          *)
LEMMA WiredAskVault ==
  ASSUME Typed, Typed', Wired, AskVault
  PROVE  Wired'
<1> DEFINE ask == Head(toNet)
<1>1. /\ toNet # <<>> /\ ask.what \in {"get", "fetch"} /\ toNet' = Tail(toNet)
      /\ UNCHANGED <<vault, alive>>
  BY DEF AskVault, NextRequest, broker
<1>2. ask \in Ask /\ ask.cookies \in SUBSET Cookie
  BY <1>1, RequestTaken DEF Ask
<1>3. \A i \in Binds' : i + 1 \in Binds /\ toNet'[i] = toNet[i + 1]
  BY <1>1, HeadOfNetTaken
<1>4. \/ /\ toBroker' = Append(toBroker, Message(ask, ask.cookies, None))
         /\ UNCHANGED link
      \/ link # None /\ ~alive[link] /\ VaultLost(ask)
      \/ UNCHANGED <<link, toBroker>>
  BY DEF AskVault
<1> HIDE DEF ask
<1>5. CASE /\ toBroker' = Append(toBroker, Message(ask, ask.cookies, None))
           /\ UNCHANGED link
  <2>1. \A i \in Reports' : i + 0 \in Reports
    <3>1. Message(ask, ask.cookies, None) \in FromNet
          /\ Message(ask, ask.cookies, None).what = "reply"
      BY <1>2, AnswersAreReplies
    <3> QED BY <1>5, <3>1, ReplyQueuedHere
  <2> QED BY <1>1, <1>3, <1>5, <2>1, QueuesMove
<1>6. CASE link # None /\ ~alive[link] /\ VaultLost(ask)
  <2>1. Binds' = {}
    BY <1>3, <1>6 DEF Wired
  <2> QED BY <1>1, <1>2, <1>6, <2>1, WiredVaultLost
<1>7. CASE UNCHANGED <<link, toBroker>>
  BY <1>1, <1>3, <1>7, QueueUnchanged, QueuesMove
<1> QED BY <1>4, <1>5, <1>6, <1>7

LEMMA WiredVaultAnswers ==
  ASSUME Typed, Typed', Wired, VaultAnswers
  PROVE  Wired'
<1>1. call # None /\ UNCHANGED <<vault, alive, toNet>>
  BY DEF VaultAnswers, broker
<1>2. call \in Ask /\ link \in Generation /\ link # None
  BY <1>1 DEF Typed, TypeOK, Numbered
<1>3. CASE back[link] # <<>>
  <2>1. Head(back[link]) \in SUBSET Cookie
    BY <1>2, <1>3, HeadTailProperties DEF Typed, TypeOK
  <2>2. toBroker' = Append(toBroker, Message(call, Head(back[link]), link)) /\ UNCHANGED link
    BY <1>3 DEF VaultAnswers
  <2>3. \A i \in Reports' : i + 0 \in Reports
    <3>1. /\ Message(call, Head(back[link]), link) \in FromNet
          /\ Message(call, Head(back[link]), link).what = "reply"
      BY <1>2, <2>1, AnswersAreReplies
    <3> QED BY <2>2, <3>1, ReplyQueuedHere
  <2> QED BY <1>1, <2>2, <2>3, QueueUnchanged, QueuesMove
<1>4. CASE back[link] = <<>>
  <2>1. ~alive[link] /\ VaultLost(call)
    BY <1>4 DEF VaultAnswers
  <2>2. Binds' = {}
    BY <1>1, <1>2 DEF Wired, Binds
  <2> QED BY <1>1, <1>2, <2>1, <2>2, WiredVaultLost
<1> QED BY <1>3, <1>4

LEMMA WiredNext == Typed /\ Typed' /\ Wired /\ [Next]_vars => Wired'
<1> SUFFICES ASSUME Typed, Typed', Wired, [Next]_vars PROVE Wired'
  OBVIOUS
<1>0. ASSUME UNCHANGED <<vault, link, alive, toNet, toBroker>> PROVE Wired'
  BY <1>0, QueueUnchanged, QueuesMove
<1>1. CASE UNCHANGED vars
  BY <1>0, <1>1 DEF vars
<1>2. ASSUME NEW p \in Partition, NEW h \in BOOLEAN, SetCookie(p, h) PROVE Wired'
  <2> DEFINE c == [at |-> p, http_only |-> h, n |-> baked + 1]
             r == [what |-> "set", cookie |-> c]
  <2>1. UNCHANGED <<vault, link, alive, toBroker>>
    BY <1>2 DEF SetCookie, vaults
  <2>2. CASE toNet' = Append(toNet, r)
    <3>1. c \in Cookie
      BY <1>2, VaultAssumption DEF SetCookie, Cookie, Typed, TypeOK
    <3>2. r \in NetRequest /\ r.what # "bind"
      BY <3>1 DEF NetRequest
    <3> HIDE DEF r
    <3> QED BY <2>1, <2>2, <3>2, OthersQueued, QueueUnchanged, QueuesMove
  <2> QED BY <1>0, <1>2, <2>1, <2>2 DEF SetCookie
<1>3. ASSUME NEW r \in Ask, toNet' = Append(toNet, r),
             UNCHANGED <<vault, link, alive, toBroker>>
      PROVE  Wired'
  <2>1. r \in NetRequest /\ r.what # "bind"
    BY DEF NetRequest, Ask
  <2> QED BY <1>3, <2>1, OthersQueued, QueueUnchanged, QueuesMove
<1>4. ASSUME NEW p \in Partition, NeedFetch(p) PROVE Wired'
  <2> DEFINE r == [what |-> "fetch", id |-> ids', at |-> p,
                   cookies |-> IF cookies_in_vault THEN {} ELSE View(jar, p, FALSE)]
  <2>1. r \in Ask
    BY <1>4, NotedTypes DEF NeedFetch, Ask, View, Typed, TypeOK
  <2>2. toNet' = Append(toNet, r) /\ UNCHANGED <<vault, link, alive, toBroker>>
    BY <1>4 DEF NeedFetch, vaults
  <2> HIDE DEF r
  <2> QED BY <1>3, <2>1, <2>2
<1>5. ASSUME NEW p \in Partition, NeedCookies(p) PROVE Wired'
  <2> DEFINE r == [what |-> "get", id |-> ids', at |-> p, cookies |-> {}]
  <2>1. r \in Ask
    BY <1>5, NotedTypes DEF NeedCookies, Ask
  <2>2. /\ toNet' = Append(toNet, r) \/ UNCHANGED toNet
        /\ UNCHANGED <<vault, link, alive, toBroker>>
    BY <1>5 DEF NeedCookies, vaults
  <2> HIDE DEF r
  <2> QED BY <1>0, <1>3, <2>1, <2>2
<1>6. CASE Reply
  <2>1. toBroker # <<>> /\ toBroker' = Tail(toBroker) /\ UNCHANGED <<vault, link, alive, toNet>>
    BY <1>6 DEF Reply, broker, vaults
  <2> QED BY <2>1, HeadOfBrokerTaken, QueueUnchanged, QueuesMove
<1>7. CASE RestartAges
  BY <1>0, <1>7 DEF RestartAges, net, vaults
<1>8. CASE CookieSet
  <2>1. toNet # <<>> /\ toNet' = Tail(toNet) /\ UNCHANGED <<vault, link, alive, toBroker>>
    BY <1>8 DEF CookieSet, NextRequest, broker
  <2> QED BY <2>1, HeadOfNetTaken, QueueUnchanged, QueuesMove
<1>9. ASSUME NEW g \in Generation, Serve(g) PROVE Wired'
  BY <1>0, <1>9 DEF Serve, broker, net
<1>10. ASSUME NEW g \in Generation, Dies(g) PROVE Wired'
  <2>1. /\ UNCHANGED <<vault, link, toNet, toBroker>>
        /\ \A h \in Generation : alive'[h] => alive[h]
    BY <1>10 DEF Dies, broker, net, Typed, TypeOK
  <2> QED BY <2>1, QueueUnchanged, QueuesMove
<1>11. CASE VaultGone \/ Shutdown
  BY <1>11, WiredVaultGone, WiredShutdown
<1>12. CASE BindVault \/ AskVault \/ VaultAnswers
  BY <1>12, WiredBindVault, WiredAskVault, WiredVaultAnswers
<1> QED
  BY <1>1, <1>2, <1>4, <1>5, <1>6, <1>7, <1>8, <1>9, <1>10, <1>11, <1>12
  DEF Next, Loop, Net

LEMMA VaultInvariant == Spec => [](Typed /\ Wired)
<1>1. Init => Typed /\ Wired
  BY TypedInit, WiredInit
<1>2. (Typed /\ Wired) /\ [Next]_vars => (Typed /\ Wired)'
  BY TypedNext, WiredNext
<1> QED BY <1>1, <1>2, PTL DEF Spec

(* Only the vault the broker holds is ever alive.                          *)
THEOREM NoVaultIsOrphaned == Spec => []NoOrphans
<1>1. Typed /\ Wired => NoOrphans
  BY DEF Wired
<1> QED BY <1>1, VaultInvariant, PTL

(* A death is reported once, and only of a vault that is dead.             *)
THEOREM OneReportPerDeath == Spec => []DeathReportedOnce
<1>1. Typed /\ Wired => DeathReportedOnce
  BY DEF Wired
<1> QED BY <1>1, VaultInvariant, PTL

(* A vault given up stays given up.                                        *)
THEOREM GivenUpForGood == Spec => GivingUpIsFinal
<1>1. ASSUME Typed, Wired, [Next]_vars, vault = None
      PROVE  vault' = None /\ link' = None
  <2>1. Reports = {} /\ link = None
    BY <1>1 DEF Wired, DeathReportedOnce
  <2>2. ~VaultGone
    <3>1. SUFFICES ASSUME VaultGone PROVE FALSE
      OBVIOUS
    <3>2. toBroker # <<>> /\ Head(toBroker).what = "gone" /\ toBroker' = Tail(toBroker)
      BY <3>1 DEF VaultGone
    <3> QED BY <1>1, <2>1, <3>2, HeadOfBrokerTaken
  <2>3. CASE BindVault
    <3>1. /\ toNet # <<>> /\ Head(toNet).what = "bind" /\ toNet' = Tail(toNet)
          /\ link' = Head(toNet).gen \/ UNCHANGED link
          /\ UNCHANGED vault
      BY <2>3 DEF BindVault, NextRequest, broker
    <3>2. Head(toNet) = toNet[1] /\ 1 \in Binds
      BY <1>1, <3>1, HeadOfNetTaken
    <3>3. toNet[1].gen = None
      BY <1>1, <3>2 DEF Wired
    <3> QED BY <1>1, <2>1, <3>1, <3>2, <3>3
  <2>4. call = None
    BY <1>1, <2>1 DEF Typed, Numbered
  <2>5. CASE UNCHANGED vars
    BY <1>1, <2>1, <2>5 DEF vars
  <2>6. CASE \E p \in Partition :
               (\E h \in BOOLEAN : SetCookie(p, h)) \/ NeedFetch(p) \/ NeedCookies(p)
    BY <1>1, <2>1, <2>6 DEF SetCookie, NeedFetch, NeedCookies
  <2>7. CASE Reply \/ RestartAges \/ Shutdown
    BY <1>1, <2>1, <2>7 DEF Reply, RestartAges, Shutdown, broker, net
  <2>8. CASE CookieSet \/ AskVault
    BY <1>1, <2>1, <2>8 DEF CookieSet, AskVault, broker
  <2>9. CASE \E g \in Generation : Serve(g) \/ Dies(g)
    BY <1>1, <2>1, <2>9 DEF Serve, Dies, broker, net
  <2>10. ~VaultAnswers
    BY <2>4 DEF VaultAnswers
  <2> QED BY <1>1, <2>2, <2>3, <2>5, <2>6, <2>7, <2>8, <2>9, <2>10 DEF Next, Loop, Net
<1>2. Typed /\ Wired /\ [Next]_vars => [vault = None => vault' = None /\ link' = None]_vars
  BY <1>1
<1> QED BY <1>2, VaultInvariant, PTL DEF Spec, GivingUpIsFinal

-----------------------------------------------------------------------------
(* What was set is what is answered.                                       *)

Sets == {i \in DOMAIN toNet : toNet[i].what = "set"}
Asks == {i \in DOMAIN toNet : toNet[i].what \in {"get", "fetch"}}

(* Where the cookies are: told to the broker in the days of vault g; on    *)
(* the link to vault g or in its store; behind position b of net's queue.  *)
SetUnder(g) == {x.cookie : x \in {y \in set : y.under = g}}
OnWire(g) == {wire[g][i].cookie : i \in {j \in DOMAIN wire[g] : wire[g][j].what = "set"}}
Held(g) == store[g] \cup OnWire(g)
Queued(b) == {toNet[i].cookie : i \in {j \in Sets : j > b}}

(* The answer a to a request noted as q.                                   *)
Right(q, a) ==
  \/ a.from # None /\ a.from = q.under /\ a.cookies = Told(q, a.from)
  \/ a.from = None /\ a.cookies = (IF q.under = None THEN Told(q, None) ELSE {})

Recorded ==
  /\ \A x \in set : x.cookie.n <= baked /\ (x.under # None => x.under <= made)
  /\ \A i \in DOMAIN asked : asked[i].before <= baked
  /\ \A i \in Sets : toNet[i].cookie.n <= baked
  /\ \A g \in Generation : \A c \in Held(g) : c.n <= baked
  /\ jar = SetUnder(None)
  /\ vault # None => vault <= made

(* A vault nobody is linked to yet: what is meant for it is still behind   *)
(* its link in the queue.                                                  *)
Untouched(g) == store[g] = {} /\ wire[g] = <<>> /\ back[g] = <<>>

Unbound ==
  /\ \A g \in Generation : g > made => Untouched(g)
  /\ \A i \in Binds : toNet[i].gen # None =>
       Untouched(toNet[i].gen) /\ SetUnder(toNet[i].gen) = Queued(i)

(* A request in net's queue: what was set before it came is ahead of it,   *)
(* what was set later behind it.                                           *)
Fits(q, r) ==
  /\ q.what = r.what /\ q.at = r.at
  /\ r.cookies = (IF q.under = None THEN Told(q, None) ELSE {})

Ordered(q, i) ==
  /\ \A j \in Binds : j < i => q.under = toNet[j].gen
  /\ \A j \in Sets : /\ j < i => toNet[j].cookie.n <= q.before
                     /\ j > i => toNet[j].cookie.n > q.before

Reached(q, g) == q.under = g /\ \A c \in Held(g) : c.n <= q.before

AsksMatch ==
  \A i \in Asks :
    /\ Fits(asked[toNet[i].id], toNet[i])
    /\ Ordered(asked[toNet[i].id], i)
    /\ link # None => Reached(asked[toNet[i].id], link)

(* The request net waits for is the last thing on the link, or is answered *)
(* and the link is empty.                                                  *)
GetOf(ask) == [what |-> "get", at |-> ask.at, visible_only |-> ask.what = "get"]

LastOnWire(ask, g) ==
  /\ wire[g] # <<>>
  /\ \A i \in DOMAIN wire[g] : IF i = Len(wire[g]) THEN wire[g][i] = GetOf(ask)
                                                  ELSE wire[g][i].what = "set"

OnlySets(g) == \A i \in DOMAIN wire[g] : wire[g][i].what = "set"

InService(q, ask, g) ==
  /\ q.what = ask.what /\ q.at = ask.at /\ Reached(q, g)
  /\ \A j \in Sets : toNet[j].cookie.n > q.before
  /\ \/ LastOnWire(ask, g) /\ back[g] = <<>>
     \/ wire[g] = <<>> /\ back[g] = <<Told(q, g)>>

Called ==
  /\ call # None => InService(asked[call.id], call, link)
  /\ call = None /\ link # None => OnlySets(link) /\ back[link] = <<>>

(* Nothing told to the broker is lost while its vault lives.               *)
Complete == link # None /\ alive[link] => SetUnder(link) = Held(link) \cup Queued(0)

RepliesIn(q) ==
  \A i \in DOMAIN q : q[i].what = "reply" => Right(asked[q[i].id], q[i].answer)

Replied == RepliesIn(toBroker)

Answered == \A i \in DOMAIN answer : Right(asked[i], answer[i])

Traced == Recorded /\ Unbound /\ AsksMatch /\ Called /\ Complete /\ Replied /\ Answered

LEMMA TracedTypes ==
  ASSUME Typed
  PROVE  /\ \A i \in DOMAIN toNet : i \in Nat /\ i > 0 /\ toNet[i] \in NetRequest
         /\ Binds \subseteq DOMAIN toNet /\ Sets \subseteq DOMAIN toNet
         /\ Asks \subseteq DOMAIN toNet
         /\ \A i \in Binds : toNet[i].gen \in Generation \cup {None}
         /\ \A i \in Sets : toNet[i].cookie \in Cookie
         /\ \A i \in Asks : /\ toNet[i] \in Ask /\ toNet[i].id \in 1 .. ids
                            /\ toNet[i].id \in DOMAIN asked
         /\ \A i \in DOMAIN asked : /\ asked[i].before \in Nat
                                    /\ asked[i].under \in Generation \cup {None}
         /\ DOMAIN asked = 1 .. ids /\ baked \in Nat /\ ids \in Nat /\ made \in Nat
         /\ \A x \in set : x.cookie \in Cookie /\ x.under \in Generation \cup {None}
<1>1. /\ toNet \in Seq(NetRequest)
      /\ DOMAIN asked = 1 .. ids /\ baked \in Nat /\ ids \in Nat /\ made \in Nat
      /\ \A x \in set : x.cookie \in Cookie /\ x.under \in Generation \cup {None}
      /\ \A i \in DOMAIN asked : /\ asked[i].before \in Nat
                                 /\ asked[i].under \in Generation \cup {None}
  BY VaultAssumption DEF Typed, TypeOK, Generation
<1>2. \A i \in DOMAIN toNet : i \in Nat /\ i > 0 /\ toNet[i] \in NetRequest
  BY <1>1, LenProperties, ElementOfSeq
<1>3. \A i \in Asks : toNet[i] \in Ask /\ toNet[i].id \in 1 .. ids
  BY <1>2, RequestKinds DEF Asks, Typed, Numbered
<1> QED BY <1>1, <1>2, <1>3, RequestKinds DEF Binds, Sets, Asks

LEMMA CookieNumbers == \A c \in Cookie : c.n \in Nat
BY VaultAssumption DEF Cookie

LEMMA HeldAreCookies ==
  ASSUME Typed, NEW g \in Generation
  PROVE  Held(g) \subseteq Cookie
<1>1. wire[g] \in Seq(VaultRequest) /\ store[g] \subseteq Cookie
  BY DEF Typed, TypeOK
<1>2. \A i \in DOMAIN wire[g] : wire[g][i] \in VaultRequest
  BY <1>1, LenProperties, ElementOfSeq
<1>3. \A r \in VaultRequest : r.what = "set" => r.cookie \in Cookie
  BY DEF VaultRequest
<1> QED BY <1>1, <1>2, <1>3 DEF Held, OnWire

-----------------------------------------------------------------------------
(* What a step of a queue does to the sets.                                *)

Joins(r) ==
  \E n \in Nat : /\ DOMAIN toNet' = DOMAIN toNet \cup {n} /\ n > 0
                 /\ \A i \in DOMAIN toNet : i < n /\ toNet'[i] = toNet[i]
                 /\ toNet'[n] = r

Leaves(r) ==
  /\ 1 \in DOMAIN toNet /\ r = toNet[1]
  /\ \A i \in DOMAIN toNet' : /\ i \in Nat /\ i > 0 /\ i + 1 \in DOMAIN toNet
                              /\ toNet'[i] = toNet[i + 1]
  /\ \A i \in DOMAIN toNet : i = 1 \/ i - 1 \in DOMAIN toNet'

LEMMA NetAppended ==
  ASSUME Typed, NEW r \in NetRequest, toNet' = Append(toNet, r)
  PROVE  Joins(r)
<1>1. toNet \in Seq(NetRequest)
  BY DEF Typed, TypeOK
<1>2. /\ DOMAIN toNet' = DOMAIN toNet \cup {Len(toNet) + 1}
      /\ \A i \in DOMAIN toNet : toNet'[i] = toNet[i]
      /\ toNet'[Len(toNet) + 1] = r
  BY <1>1, Enqueued
<1>3. DOMAIN toNet = 1 .. Len(toNet) /\ Len(toNet) \in Nat
  BY <1>1, LenProperties
<1> DEFINE n == Len(toNet) + 1
<1>4. n \in Nat /\ n > 0 /\ \A i \in DOMAIN toNet : i < n
  BY <1>3
<1> HIDE DEF n
<1> QED BY <1>2, <1>4 DEF Joins, n

LEMMA NetTaken ==
  ASSUME Typed, toNet # <<>>, toNet' = Tail(toNet)
  PROVE  Leaves(Head(toNet))
<1>1. toNet \in Seq(NetRequest) /\ Len(toNet) \in Nat /\ DOMAIN toNet = 1 .. Len(toNet)
  BY LenProperties DEF Typed, TypeOK
<1>2. /\ Len(Tail(toNet)) = Len(toNet) - 1
      /\ \A i \in 1 .. Len(Tail(toNet)) : Tail(toNet)[i] = toNet[i + 1]
      /\ Tail(toNet) \in Seq(NetRequest)
  BY <1>1, HeadTailProperties
<1>3. DOMAIN toNet' = 1 .. Len(toNet) - 1
  BY <1>2, LenProperties
<1>4. Len(toNet) # 0 /\ Head(toNet) = toNet[1]
  BY <1>1, EmptySeq
<1> QED BY <1>1, <1>2, <1>3, <1>4 DEF Leaves

(* A request that is no cookie leaves what is queued as it is.             *)
LEMMA QueuedAppended ==
  ASSUME Typed, NEW r, Joins(r)
  PROVE  /\ r.what # "set" => \A b : Queued(b)' = Queued(b)
         /\ r.what = "set" => \A b \in DOMAIN toNet \cup {0} :
                                Queued(b)' = Queued(b) \cup {r.cookie}
<1>1. PICK n \in Nat : /\ DOMAIN toNet' = DOMAIN toNet \cup {n} /\ n > 0
                       /\ \A i \in DOMAIN toNet : i < n /\ toNet'[i] = toNet[i]
                       /\ toNet'[n] = r
  BY DEF Joins
<1>2. n \notin DOMAIN toNet
  BY <1>1
<1>3. CASE r.what # "set"
  <2>1. /\ Sets' = Sets
        /\ \A i \in Sets : toNet'[i] = toNet[i]
    BY <1>1, <1>2, <1>3 DEF Sets
  <2> QED BY <1>3, <2>1 DEF Queued
<1>4. CASE r.what = "set"
  <2>1. /\ Sets' = Sets \cup {n}
        /\ \A i \in Sets : toNet'[i] = toNet[i]
    BY <1>1, <1>2, <1>4 DEF Sets
  <2>2. \A b \in DOMAIN toNet \cup {0} : n > b
    BY <1>1
  <2>3. ASSUME NEW b \in DOMAIN toNet \cup {0}
        PROVE  Queued(b)' = Queued(b) \cup {r.cookie}
    <3>1. ASSUME NEW c \in Queued(b)' PROVE c \in Queued(b) \cup {r.cookie}
      <4>1. PICK i \in Sets' : i > b /\ c = toNet'[i].cookie
        BY <3>1 DEF Queued
      <4>2. i = n \/ (i \in Sets /\ toNet'[i] = toNet[i])
        BY <2>1
      <4> QED BY <1>1, <4>1, <4>2 DEF Queued
    <3>2. ASSUME NEW c \in Queued(b) PROVE c \in Queued(b)'
      <4>1. PICK i \in Sets : i > b /\ c = toNet[i].cookie
        BY <3>2 DEF Queued
      <4>2. i \in Sets' /\ c = toNet'[i].cookie
        BY <2>1, <4>1
      <4> QED BY <4>1, <4>2 DEF Queued
    <3>3. r.cookie \in Queued(b)'
      <4>1. n \in Sets' /\ n > b /\ r.cookie = toNet'[n].cookie
        BY <1>1, <2>1, <2>2
      <4> QED BY <4>1 DEF Queued
    <3> QED BY <3>1, <3>2, <3>3
  <2> QED BY <1>4, <2>3
<1> QED BY <1>3, <1>4

LEMMA QueuedTaken ==
  ASSUME Typed, NEW r, Leaves(r)
  PROVE  /\ \A b \in Nat : Queued(b)' = Queued(b + 1)
         /\ Queued(0) = Queued(1) \cup {c \in {r.cookie} : r.what = "set"}
<1>1. /\ 1 \in DOMAIN toNet /\ r = toNet[1]
      /\ \A i \in DOMAIN toNet' : /\ i \in Nat /\ i > 0 /\ i + 1 \in DOMAIN toNet
                                  /\ toNet'[i] = toNet[i + 1]
      /\ \A i \in DOMAIN toNet : i = 1 \/ i - 1 \in DOMAIN toNet'
  BY DEF Leaves
<1>2. \A i \in DOMAIN toNet : i \in Nat /\ i > 0
  BY TracedTypes
<1>3. ASSUME NEW b \in Nat PROVE Queued(b)' = Queued(b + 1)
  <2>1. ASSUME NEW c \in Queued(b)' PROVE c \in Queued(b + 1)
    <3>1. PICK i \in Sets' : i > b /\ c = toNet'[i].cookie
      BY <2>1 DEF Queued
    <3>2. i + 1 \in Sets /\ i + 1 > b + 1 /\ c = toNet[i + 1].cookie
      BY <1>1, <3>1 DEF Sets
    <3> QED BY <3>2 DEF Queued
  <2>2. ASSUME NEW c \in Queued(b + 1) PROVE c \in Queued(b)'
    <3>1. PICK i \in Sets : i > b + 1 /\ c = toNet[i].cookie
      BY <2>2 DEF Queued
    <3>2. i - 1 \in DOMAIN toNet' /\ toNet'[i - 1] = toNet[i] /\ i - 1 > b
      BY <1>1, <1>2, <3>1 DEF Sets
    <3> DEFINE k == i - 1
    <3>3. k \in Sets' /\ k > b /\ c = toNet'[k].cookie
      BY <3>1, <3>2 DEF Sets
    <3> HIDE DEF k
    <3> QED BY <3>3 DEF Queued
  <2> QED BY <2>1, <2>2
<1>4. Queued(0) = Queued(1) \cup {c \in {r.cookie} : r.what = "set"}
  <2>1. \A i \in Sets : i > 0 /\ (i = 1 \/ i > 1)
    BY <1>2 DEF Sets
  <2>2. 1 \in Sets <=> r.what = "set"
    BY <1>1 DEF Sets
  <2> QED BY <1>1, <2>1, <2>2 DEF Queued
<1> QED BY <1>3, <1>4

LEMMA WireAppended ==
  ASSUME Typed, NEW g \in Generation, NEW r \in VaultRequest,
         wire' = [wire EXCEPT ![g] = Append(@, r)], UNCHANGED store
  PROVE  /\ \A h \in Generation : h # g => wire'[h] = wire[h]
         /\ wire'[g] # <<>> /\ wire'[g][Len(wire'[g])] = r
         /\ \A i \in DOMAIN wire'[g] :
              i = Len(wire'[g]) \/ (i \in DOMAIN wire[g] /\ wire'[g][i] = wire[g][i])
         /\ Held(g)' = Held(g) \cup {c \in {r.cookie} : r.what = "set"}
<1>1. wire[g] \in Seq(VaultRequest) /\ g \in DOMAIN wire
  BY DEF Typed, TypeOK
<1>2. /\ Append(wire[g], r) \in Seq(VaultRequest)
      /\ Len(Append(wire[g], r)) = Len(wire[g]) + 1
      /\ \A i \in 1 .. Len(wire[g]) : Append(wire[g], r)[i] = wire[g][i]
      /\ Append(wire[g], r)[Len(wire[g]) + 1] = r
      /\ Append(wire[g], r) # <<>>
  BY <1>1, AppendProperties
<1>3. DOMAIN wire[g] = 1 .. Len(wire[g]) /\ Len(wire[g]) \in Nat
      /\ DOMAIN Append(wire[g], r) = 1 .. Len(wire[g]) + 1
  BY <1>1, <1>2, LenProperties
<1>4. wire'[g] = Append(wire[g], r)
  BY <1>1
<1>5. OnWire(g)' = OnWire(g) \cup {c \in {r.cookie} : r.what = "set"}
  <2>1. /\ DOMAIN wire'[g] = DOMAIN wire[g] \cup {Len(wire[g]) + 1}
        /\ \A i \in DOMAIN wire[g] : wire'[g][i] = wire[g][i]
        /\ wire'[g][Len(wire[g]) + 1] = r
    BY <1>2, <1>3, <1>4
  <2> QED BY <2>1 DEF OnWire
<1> QED BY <1>1, <1>2, <1>3, <1>4, <1>5 DEF Held

LEMMA WireTaken ==
  ASSUME Typed, NEW g \in Generation, wire[g] # <<>>,
         wire' = [wire EXCEPT ![g] = Tail(@)]
  PROVE  /\ \A h \in Generation : h # g => wire'[h] = wire[h]
         /\ wire'[g] \in Seq(VaultRequest)
         /\ Head(wire[g]) = wire[g][1] /\ 1 \in DOMAIN wire[g] /\ Len(wire[g]) \in Nat
         /\ Len(wire'[g]) = Len(wire[g]) - 1
         /\ \A i \in DOMAIN wire'[g] : /\ i \in Nat /\ i + 1 \in DOMAIN wire[g]
                                       /\ wire'[g][i] = wire[g][i + 1]
         /\ OnWire(g) = OnWire(g)' \cup
              {c \in {Head(wire[g]).cookie} : Head(wire[g]).what = "set"}
<1>1. wire[g] \in Seq(VaultRequest) /\ g \in DOMAIN wire
  BY DEF Typed, TypeOK
<1>2. /\ Tail(wire[g]) \in Seq(VaultRequest)
      /\ Len(Tail(wire[g])) = Len(wire[g]) - 1
      /\ \A i \in 1 .. Len(Tail(wire[g])) : Tail(wire[g])[i] = wire[g][i + 1]
  BY <1>1, HeadTailProperties
<1>3. /\ DOMAIN wire[g] = 1 .. Len(wire[g]) /\ Len(wire[g]) \in Nat /\ Len(wire[g]) # 0
      /\ DOMAIN Tail(wire[g]) = 1 .. Len(wire[g]) - 1
  BY <1>1, <1>2, LenProperties, EmptySeq
<1>4. wire'[g] = Tail(wire[g])
  BY <1>1
<1>5. Head(wire[g]) = wire[g][1]
  BY <1>1
<1>6. \A i \in DOMAIN wire'[g] : /\ i \in Nat /\ i + 1 \in DOMAIN wire[g]
                                 /\ wire'[g][i] = wire[g][i + 1]
  <2> DEFINE w == wire[g]
             t == Tail(wire[g])
  <2>1. \A i \in DOMAIN t : i \in Nat /\ i + 1 \in DOMAIN w /\ t[i] = w[i + 1]
    <3>1. /\ DOMAIN w = 1 .. Len(w) /\ Len(w) \in Nat /\ DOMAIN t = 1 .. Len(w) - 1
          /\ \A i \in DOMAIN t : t[i] = w[i + 1]
      BY <1>2, <1>3
    <3> HIDE DEF w, t
    <3> QED BY <3>1
  <2> QED BY <1>4, <2>1
<1>7. OnWire(g) = OnWire(g)' \cup
        {c \in {Head(wire[g]).cookie} : Head(wire[g]).what = "set"}
  <2>1. ASSUME NEW c \in OnWire(g)'
        PROVE  c \in OnWire(g)
    <3>1. PICK i \in DOMAIN wire'[g] : wire'[g][i].what = "set" /\ c = wire'[g][i].cookie
      BY <2>1 DEF OnWire
    <3>2. /\ i + 1 \in DOMAIN wire[g] /\ wire[g][i + 1].what = "set"
          /\ c = wire[g][i + 1].cookie
      BY <1>6, <3>1
    <3> QED BY <3>2 DEF OnWire
  <2>2. ASSUME NEW c \in OnWire(g)
        PROVE  c \in OnWire(g)' \/ (c = Head(wire[g]).cookie /\ Head(wire[g]).what = "set")
    <3>1. PICK i \in DOMAIN wire[g] : wire[g][i].what = "set" /\ c = wire[g][i].cookie
      BY <2>2 DEF OnWire
    <3>2. CASE i = 1
      BY <1>5, <3>1, <3>2
    <3>3. CASE i # 1
      <4> DEFINE k == i - 1
      <4>1. k \in DOMAIN wire'[g] /\ k + 1 = i
        BY <1>3, <1>4, <3>3
      <4> HIDE DEF k
      <4>2. wire'[g][k] = wire[g][i]
        BY <1>6, <4>1
      <4> QED BY <3>1, <4>1, <4>2 DEF OnWire
    <3> QED BY <3>2, <3>3
  <2>3. Head(wire[g]).what = "set" => Head(wire[g]).cookie \in OnWire(g)
    BY <1>3, <1>5 DEF OnWire
  <2> QED BY <2>1, <2>2, <2>3
<1> QED BY <1>1, <1>2, <1>3, <1>4, <1>5, <1>6, <1>7

-----------------------------------------------------------------------------
(* What a step leaves as it was.                                           *)

(* A cookie set now is nothing to a request noted before.                  *)
ToldBefore == \A q, g : q.before \in Nat /\ q.before <= baked => Told(q, g)' = Told(q, g)

LEMMA SetKept ==
  ASSUME UNCHANGED set
  PROVE  ToldBefore /\ \A g : SetUnder(g)' = SetUnder(g)
BY DEF ToldBefore, Told, SetUnder

LEMMA SetGrows ==
  ASSUME Typed, NEW c \in Cookie, c.n = baked + 1,
         set' = set \cup {[cookie |-> c, under |-> vault]}
  PROVE  /\ ToldBefore
         /\ \A g : SetUnder(g)' = SetUnder(g) \cup {x \in {c} : g = vault}
<1> DEFINE y == [cookie |-> c, under |-> vault]
<1>0. y.cookie = c /\ y.under = vault
  OBVIOUS
<1>1. baked \in Nat
  BY TracedTypes
<1> HIDE DEF y
<1>2. ASSUME NEW q, NEW g, q.before \in Nat, q.before <= baked
      PROVE  Told(q, g)' = Told(q, g)
  <2>1. ~(y.cookie.n <= q.before)
    BY <1>0, <1>1, <1>2
  <2>2. {x \in set' : x.under = g /\ x.cookie.n <= q.before}
          = {x \in set : x.under = g /\ x.cookie.n <= q.before}
    BY <2>1 DEF y
  <2> QED BY <2>2 DEF Told
<1>3. ASSUME NEW g PROVE SetUnder(g)' = SetUnder(g) \cup {x \in {c} : g = vault}
  BY <1>0 DEF SetUnder, y
<1> QED BY <1>2, <1>3 DEF ToldBefore

LEMMA RightKept ==
  ASSUME ToldBefore
  PROVE  \A q : q.before \in Nat /\ q.before <= baked =>
           /\ \A a : Right(q, a)' <=> Right(q, a)
           /\ \A r : Fits(q, r)' <=> Fits(q, r)
BY DEF ToldBefore, Right, Fits

LEMMA RepliesKept ==
  ASSUME Typed, Recorded, ToldBefore, \A i \in DOMAIN asked : asked'[i] = asked[i]
  PROVE  /\ \A q : (\A i \in DOMAIN q : q[i].what = "reply" => q[i].id \in 1 .. ids)
                   /\ RepliesIn(q) => RepliesIn(q)'
         /\ Answered => \A i \in DOMAIN answer : \A q, a :
                          q = asked'[i] /\ a = answer[i] => Right(q, a)'
<1>1. \A i \in 1 .. ids : /\ i \in DOMAIN asked /\ asked[i].before \in Nat
                          /\ asked[i].before <= baked
  BY TracedTypes DEF Recorded
<1>2. \A i \in 1 .. ids : \A q : q = asked'[i] => \A a : Right(asked[i], a) => Right(q, a)'
  <2> TAKE i \in 1 .. ids
  <2> TAKE q
  <2> HAVE q = asked'[i]
  <2>1. q = asked[i] /\ q.before \in Nat /\ q.before <= baked
    BY <1>1
  <2> QED BY <2>1, RightKept
<1>3. Typed => DOMAIN answer \subseteq 1 .. ids
  BY DEF Typed, TypeOK
<1>4. ASSUME NEW q, \A i \in DOMAIN q : q[i].what = "reply" => q[i].id \in 1 .. ids,
             RepliesIn(q)
      PROVE  RepliesIn(q)'
  <2>1. ASSUME NEW i \in DOMAIN q, q[i].what = "reply"
        PROVE  \A x, a : x = asked'[q[i].id] /\ a = q[i].answer => Right(x, a)'
    BY <1>2, <1>4, <2>1 DEF RepliesIn
  <2> QED BY <2>1 DEF RepliesIn
<1>5. ASSUME Answered, NEW i \in DOMAIN answer, NEW q, NEW a,
             q = asked'[i], a = answer[i]
      PROVE  Right(q, a)'
  BY <1>2, <1>3, <1>5 DEF Answered
<1> QED BY <1>4, <1>5

LEMMA ReplyAppended ==
  ASSUME NEW q \in Seq(FromNet), NEW r \in FromNet, RepliesIn(q),
         r.what = "reply" => Right(asked[r.id], r.answer)
  PROVE  RepliesIn(Append(q, r))
BY Enqueued DEF RepliesIn

(* The asks of the queue, when a request joins and when one is taken.      *)
LEMMA AsksAppended ==
  ASSUME Typed, Recorded, AsksMatch, ToldBefore, NEW r, Joins(r),
         UNCHANGED <<link, store, wire>>,
         \A i \in DOMAIN asked : asked'[i] = asked[i],
         r.what = "set" => \A i \in Asks : r.cookie.n > asked[toNet[i].id].before,
         r.what \in {"get", "fetch"} => \A q : q = asked'[r.id] =>
           /\ Fits(q, r)'
           /\ \A j \in Binds : q.under = toNet[j].gen
           /\ \A j \in Sets : toNet[j].cookie.n <= q.before
           /\ link # None => Reached(q, link)
  PROVE  AsksMatch'
<1>1. PICK n \in Nat : /\ DOMAIN toNet' = DOMAIN toNet \cup {n} /\ n > 0
                       /\ \A i \in DOMAIN toNet : i < n /\ toNet'[i] = toNet[i]
                       /\ toNet'[n] = r
  BY DEF Joins
<1>2. /\ \A i \in DOMAIN toNet : i \in Nat /\ i > 0
      /\ \A i \in Asks : /\ toNet[i].id \in DOMAIN asked /\ i \in DOMAIN toNet
                         /\ asked[toNet[i].id].before \in Nat
                         /\ asked[toNet[i].id].before <= baked
  BY TracedTypes DEF Recorded
<1>3. \A q : Reached(q, link)' <=> Reached(q, link)
  BY DEF Reached, Held, OnWire
<1>4. \A i \in Binds' : i = n \/ (i \in Binds /\ toNet'[i] = toNet[i])
  BY <1>1 DEF Binds
<1>5. \A i \in Sets' : (i = n /\ r.what = "set") \/ (i \in Sets /\ toNet'[i] = toNet[i])
  BY <1>1 DEF Sets
<1> SUFFICES ASSUME NEW i \in Asks', NEW q, q = asked'[toNet'[i].id]
             PROVE  /\ \A x : x = toNet'[i] => Fits(q, x)'
                    /\ Ordered(q, i)'
                    /\ link # None => Reached(q, link)'
  BY DEF AsksMatch
<1>6. CASE i \in DOMAIN toNet
  <2>1. i \in Asks /\ toNet'[i] = toNet[i] /\ i < n /\ i \in Nat
    BY <1>1, <1>2, <1>6 DEF Asks
  <2>2. q = asked[toNet[i].id] /\ q.before \in Nat /\ q.before <= baked
    BY <1>2, <2>1
  <2>3. Fits(q, toNet[i]) /\ Ordered(q, i) /\ (link # None => Reached(q, link))
    BY <2>1, <2>2 DEF AsksMatch
  <2>4. \A x : x = toNet'[i] => Fits(q, x)'
    BY <2>1, <2>2, <2>3, RightKept
  <2>5. \A j \in Binds' : j < i => q.under = toNet'[j].gen
    BY <1>4, <2>1, <2>3 DEF Ordered
  <2>6. \A j \in Sets' : /\ j < i => toNet'[j].cookie.n <= q.before
                         /\ j > i => toNet'[j].cookie.n > q.before
    BY <1>1, <1>5, <2>1, <2>2, <2>3 DEF Ordered
  <2> QED BY <1>3, <2>3, <2>4, <2>5, <2>6 DEF Ordered
<1>7. CASE i = n /\ i \notin DOMAIN toNet
  <2>1. toNet'[i] = r /\ r.what \in {"get", "fetch"} /\ q = asked'[r.id]
    BY <1>1, <1>7 DEF Asks
  <2>2. \A j \in Binds' : j < i => q.under = toNet'[j].gen
    BY <1>4, <1>7, <2>1
  <2>3. \A j \in Sets' : /\ j < i => toNet'[j].cookie.n <= q.before
                         /\ j > i => toNet'[j].cookie.n > q.before
    <3>1. \A j \in Sets' : j \in Sets /\ toNet'[j] = toNet[j] /\ j < n /\ j \in Nat
      BY <1>1, <1>2, <1>5, <2>1 DEF Sets
    <3>2. \A j \in Sets : toNet[j].cookie.n <= q.before
      BY <2>1
    <3>3. ASSUME NEW j \in Sets' PROVE toNet'[j].cookie.n <= q.before /\ ~(j > i)
      <4>1. j \in Sets /\ toNet'[j] = toNet[j] /\ j < n /\ j \in Nat
        BY <3>1
      <4>2. toNet[j].cookie.n <= q.before
        BY <3>2, <4>1
      <4> QED BY <1>7, <4>1, <4>2
    <3> QED BY <3>3
  <2> QED BY <1>3, <2>1, <2>2, <2>3 DEF Ordered
<1> QED BY <1>1, <1>6, <1>7 DEF Asks

LEMMA AsksTaken ==
  ASSUME Typed, Recorded, AsksMatch, NEW r, Leaves(r), UNCHANGED <<asked, set>>,
         link' # None => \A i \in Asks : i > 1 =>
                           \A q : q = asked[toNet[i].id] => Reached(q, link)'
  PROVE  AsksMatch'
<1>1. \A i \in DOMAIN toNet' : /\ i \in Nat /\ i > 0 /\ i + 1 \in DOMAIN toNet
                                /\ toNet'[i] = toNet[i + 1]
  BY DEF Leaves
<1>2. \A i \in Asks : /\ asked[toNet[i].id].before \in Nat
                      /\ asked[toNet[i].id].before <= baked
  BY TracedTypes DEF Recorded
<1>3. /\ \A j \in Binds' : j \in Nat /\ j + 1 \in Binds /\ toNet'[j] = toNet[j + 1]
      /\ \A j \in Sets' : j \in Nat /\ j + 1 \in Sets /\ toNet'[j] = toNet[j + 1]
      /\ \A j \in Asks' : j \in Nat /\ j > 0 /\ j + 1 \in Asks /\ toNet'[j] = toNet[j + 1]
  BY <1>1 DEF Binds, Sets, Asks
<1> SUFFICES ASSUME NEW i \in Asks', NEW q, q = asked'[toNet'[i].id]
             PROVE  /\ \A x : x = toNet'[i] => Fits(q, x)'
                    /\ Ordered(q, i)'
                    /\ link' # None => Reached(q, link)'
  BY DEF AsksMatch
<1>4. /\ i \in Nat /\ i + 1 \in Asks /\ toNet'[i] = toNet[i + 1] /\ i + 1 > 1
      /\ q = asked[toNet[i + 1].id]
  BY <1>3
<1>5. Fits(q, toNet[i + 1]) /\ Ordered(q, i + 1)
  BY <1>4 DEF AsksMatch
<1>6. \A x : x = toNet'[i] => Fits(q, x)'
  BY <1>2, <1>4, <1>5, SetKept, RightKept
<1>7. \A j \in Binds' : j < i => q.under = toNet'[j].gen
  BY <1>3, <1>4, <1>5 DEF Ordered
<1>8. \A j \in Sets' : /\ j < i => toNet'[j].cookie.n <= q.before
                       /\ j > i => toNet'[j].cookie.n > q.before
  BY <1>3, <1>4, <1>5 DEF Ordered
<1>9. link' # None => Reached(q, link)'
  BY <1>4
<1> QED BY <1>6, <1>7, <1>8, <1>9 DEF Ordered

LEMMA AnswersKept ==
  ASSUME Typed, Recorded, ToldBefore, \A i \in DOMAIN asked : asked'[i] = asked[i]
  PROVE  /\ UNCHANGED toBroker /\ Replied => Replied'
         /\ UNCHANGED answer /\ Answered => Answered'
<1>1. ASSUME UNCHANGED toBroker, Replied PROVE Replied'
  <2>1. \A q : q = toBroker => RepliesIn(q)'
    BY <1>1, RepliesKept DEF Replied, Typed, Numbered
  <2> QED BY <1>1, <2>1 DEF Replied
<1>2. ASSUME UNCHANGED answer, Answered PROVE Answered'
  <2>1. \A i \in DOMAIN answer : \A q, a : q = asked'[i] /\ a = answer[i] => Right(q, a)'
    BY <1>2, RepliesKept
  <2> QED BY <1>2, <2>1 DEF Answered
<1> QED BY <1>1, <1>2

LEMMA PartsKept ==
  ASSUME Typed, Recorded, Unbound, AsksMatch, Called, Complete,
         UNCHANGED <<set, asked, baked, jar, made, vault, toNet, store, wire, back, link, call>>,
         \A g \in Generation : alive'[g] => alive[g]
  PROVE  Recorded' /\ Unbound' /\ AsksMatch' /\ Called' /\ Complete'
<1>1. \A g : /\ Held(g)' = Held(g) /\ SetUnder(g)' = SetUnder(g) /\ Queued(g)' = Queued(g)
             /\ Untouched(g)' <=> Untouched(g)
  BY DEF Held, OnWire, SetUnder, Queued, Sets, Untouched
<1>2. Recorded' /\ Unbound'
  <2>1. Binds' = Binds /\ Sets' = Sets
    BY DEF Binds, Sets
  <2> QED BY <1>1, <2>1 DEF Recorded, Unbound
<1>3. AsksMatch'
  <2>1. \A q : /\ \A r : Fits(q, r)' <=> Fits(q, r)
               /\ \A i : Ordered(q, i)' <=> Ordered(q, i)
               /\ \A g : Reached(q, g)' <=> Reached(q, g)
    BY <1>1 DEF Fits, Told, Ordered, Binds, Sets, Reached
  <2>2. Asks' = Asks
    BY DEF Asks
  <2> QED BY <2>1, <2>2 DEF AsksMatch
<1>4. Called'
  <2>1. \A q, r, g : InService(q, r, g)' <=> InService(q, r, g)
    BY <1>1 DEF InService, LastOnWire, Sets, Reached, Told
  <2>2. OnlySets(link)' <=> OnlySets(link)
    BY DEF OnlySets
  <2> QED BY <2>1, <2>2 DEF Called
<1>5. Complete'
  <2>1. link # None => link \in Generation
    BY DEF Typed, TypeOK
  <2> QED BY <1>1, <2>1 DEF Complete
<1> QED BY <1>2, <1>3, <1>4, <1>5

LEMMA TracedReply ==
  ASSUME Typed, Wired, Traced, Reply
  PROVE  Traced'
<1> DEFINE m == Head(toBroker)
<1>1. /\ toBroker # <<>> /\ m.what = "reply" /\ toBroker' = Tail(toBroker)
      /\ answer' = Settled(m.id, m.answer)
      /\ UNCHANGED <<broker, toNet, link, call, jammed, vaults, set, asked, unbound>>
  BY DEF Reply
<1>2. /\ Tail(toBroker) \in Seq(FromNet) /\ 1 \in DOMAIN toBroker /\ m = toBroker[1]
      /\ \A i \in DOMAIN Tail(toBroker) :
           i + 1 \in DOMAIN toBroker /\ Tail(toBroker)[i] = toBroker[i + 1]
  <2>1. toBroker \in Seq(FromNet)
    BY DEF Typed, TypeOK
  <2> QED BY <1>1, <2>1, Dequeued
<1>3. Right(asked[m.id], m.answer) /\ RepliesIn(Tail(toBroker))
  BY <1>1, <1>2 DEF Traced, Replied, RepliesIn
<1>4. ToldBefore
  BY <1>1, SetKept
<1>5. Recorded' /\ Unbound' /\ AsksMatch' /\ Called' /\ Complete'
  BY <1>1, PartsKept DEF Traced, broker, vaults
<1>6. Replied'
  <2>1. \A i \in DOMAIN Tail(toBroker) : Tail(toBroker)[i].what = "reply"
          => Tail(toBroker)[i].id \in 1 .. ids
    BY <1>1, ReplyTaken
  <2>2. \A q : q = Tail(toBroker) => RepliesIn(q)'
    BY <1>1, <1>3, <1>4, <2>1, RepliesKept DEF Traced
  <2> QED BY <1>1, <2>2 DEF Replied
<1>7. Answered'
  <2>1. \A i \in DOMAIN answer' :
          Right(asked[i], answer'[i])
    BY <1>1, <1>3 DEF Settled, Traced, Answered
  <2>2. \A q, a : Right(q, a)' <=> Right(q, a)
    BY <1>1 DEF Right, Told
  <2>3. UNCHANGED asked
    BY <1>1
  <2> HIDE DEF m
  <2> QED BY <2>1, <2>2, <2>3 DEF Answered
<1> QED BY <1>5, <1>6, <1>7 DEF Traced

(* Sets of requests and what they were noted as, with an ask more.         *)
LEMMA CalledKept ==
  ASSUME Typed, Recorded, Called, ToldBefore,
         UNCHANGED <<call, link, store, wire, back>>,
         \A i \in DOMAIN asked : asked'[i] = asked[i],
         \A q : (/\ q.before \in Nat /\ q.before <= baked
                 /\ \A j \in Sets : toNet[j].cookie.n > q.before) =>
                  \A j \in Sets' : toNet'[j].cookie.n > q.before
  PROVE  Called'
<1>1. \A g : /\ Held(g)' = Held(g) /\ (OnlySets(g)' <=> OnlySets(g))
             /\ \A r : LastOnWire(r, g)' <=> LastOnWire(r, g)
  BY DEF Held, OnWire, OnlySets, LastOnWire
<1>2. ASSUME call # None PROVE InService(asked[call.id], call, link)'
  <2>1. call.id \in DOMAIN asked /\ link \in Generation
    BY <1>2 DEF Typed, TypeOK, Numbered
  <2>2. \A q : q = asked[call.id] => /\ q.before \in Nat /\ q.before <= baked
                                    /\ InService(q, call, link)
    BY <1>2, <2>1, TracedTypes DEF Recorded, Called
  <2>3. ASSUME NEW q, q = asked[call.id] PROVE InService(q, call, link)'
    <3>1. q.before \in Nat /\ q.before <= baked /\ InService(q, call, link)
      BY <2>2, <2>3
    <3>2. Told(q, link)' = Told(q, link)
      BY <3>1 DEF ToldBefore
    <3>3. \A j \in Sets' : toNet'[j].cookie.n > q.before
      BY <3>1 DEF InService
    <3> QED BY <1>1, <3>1, <3>2, <3>3 DEF InService, Reached
  <2>4. asked'[call.id] = asked[call.id]
    BY <2>1
  <2> QED BY <2>3, <2>4
<1>3. call = None /\ link # None => (OnlySets(link) /\ back[link] = <<>>)'
  BY <1>1 DEF Called
<1> QED BY <1>2, <1>3 DEF Called

LEMMA TracedSetCookie ==
  ASSUME Typed, Wired, Traced, NEW p \in Partition, NEW h \in BOOLEAN, SetCookie(p, h)
  PROVE  Traced'
<1> DEFINE c == [at |-> p, http_only |-> h, n |-> baked + 1]
           r == [what |-> "set", cookie |-> c]
<1>1. /\ baked' = baked + 1 /\ set' = set \cup {[cookie |-> c, under |-> vault]}
      /\ UNCHANGED <<vault, made, toBroker, link, call, alive, store, wire, back,
                     asked, answer>>
      /\ \/ vault # None /\ toNet' = Append(toNet, r) /\ UNCHANGED jar
         \/ vault = None /\ jar' = jar \cup {c} /\ UNCHANGED toNet
  BY DEF SetCookie, vaults, cookies_in_vault
<1>2. c \in Cookie /\ c.n = baked + 1
  BY VaultAssumption DEF SetCookie, Cookie, Typed, TypeOK
<1>3. r \in NetRequest /\ r.what = "set" /\ r.cookie = c
  BY <1>2 DEF NetRequest
<1> HIDE DEF c, r
<1>4. ToldBefore /\ \A g : SetUnder(g)' = SetUnder(g) \cup {x \in {c} : g = vault}
  BY <1>1, <1>2, SetGrows
<1>5. \A g : Held(g)' = Held(g) /\ (Untouched(g)' <=> Untouched(g))
  BY <1>1 DEF Held, OnWire, Untouched
<1>6. \/ vault # None /\ Joins(r) /\ UNCHANGED jar
      \/ vault = None /\ jar' = jar \cup {c} /\ UNCHANGED toNet
  BY <1>1, <1>3, NetAppended
<1>7. Recorded /\ Unbound /\ AsksMatch /\ Called /\ Complete /\ Replied /\ Answered
  BY DEF Traced
<1>8. /\ baked \in Nat /\ made \in Nat
      /\ \A x \in set : x.cookie \in Cookie /\ x.under \in Generation \cup {None}
      /\ \A i \in DOMAIN asked : asked[i].before \in Nat
      /\ \A i \in Sets : toNet[i].cookie \in Cookie
      /\ \A i \in Binds : i \in DOMAIN toNet
      /\ \A i \in Asks : toNet[i].id \in DOMAIN asked
      /\ vault \in Generation \cup {None}
  BY TracedTypes DEF Typed, TypeOK
<1>9. \A x \in Cookie : x.n \in Nat
  BY CookieNumbers
<1>10. vault = None => link = None
  BY DEF Wired
<1>11. /\ Binds' = Binds /\ \A i \in Binds : toNet'[i] = toNet[i]
       /\ \A i \in Sets' : (i \in Sets /\ toNet'[i] = toNet[i]) \/ toNet'[i].cookie = c
  BY <1>3, <1>6 DEF Joins, Binds, Sets
<1>12. Recorded'
  <2>1. \A x \in set' : x.cookie.n <= baked' /\ (x.under # None => x.under <= made')
    <3>1. ASSUME NEW x \in set'
          PROVE  x \in set \/ (x.cookie = c /\ x.under = vault)
      BY <1>1
    <3> QED BY <1>1, <1>2, <1>7, <1>8, <1>9, <3>1 DEF Recorded
  <2>2. \A i \in DOMAIN asked' : asked'[i].before <= baked'
    BY <1>1, <1>7, <1>8 DEF Recorded
  <2>3. \A i \in Sets' : toNet'[i].cookie.n <= baked'
    BY <1>1, <1>2, <1>7, <1>8, <1>9, <1>11 DEF Recorded
  <2>4. \A g \in Generation : \A x \in Held(g)' : x.n <= baked'
    BY <1>1, <1>5, <1>7, <1>8, <1>9, HeldAreCookies DEF Recorded
  <2>5. jar' = SetUnder(None)'
    BY <1>1, <1>4, <1>7 DEF Recorded
  <2> QED BY <1>1, <1>7, <2>1, <2>2, <2>3, <2>4, <2>5 DEF Recorded
<1>13. Unbound'
  <2>1. ASSUME NEW i \in Binds', toNet'[i].gen # None
        PROVE  (Untouched(toNet[i].gen) /\ SetUnder(toNet[i].gen) = Queued(i))'
    <3>1. /\ i \in Binds /\ toNet'[i] = toNet[i] /\ vault # None
          /\ vault = toNet[i].gen /\ i \in DOMAIN toNet
      BY <1>8, <1>11, <2>1 DEF Wired
    <3>2. Queued(i)' = Queued(i) \cup {c}
      BY <1>3, <1>6, <3>1, QueuedAppended
    <3>3. \A g : g = toNet[i].gen => Untouched(g)' /\ SetUnder(g)' = Queued(i)'
      BY <1>4, <1>5, <1>7, <3>1, <3>2 DEF Unbound
    <3> QED BY <3>1, <3>3
  <2> QED BY <1>1, <1>5, <1>7, <2>1 DEF Unbound
<1>14. \A i \in DOMAIN asked : asked'[i] = asked[i]
  BY <1>1
<1>15. AsksMatch'
  <2>1. CASE vault # None
    <3>1. \A i \in Asks : c.n > asked[toNet[i].id].before
      BY <1>2, <1>7, <1>8 DEF Recorded
    <3> QED BY <1>1, <1>3, <1>4, <1>6, <1>7, <1>14, <2>1, <3>1, AsksAppended
  <2>2. CASE vault = None
    <3>1. UNCHANGED <<toNet, link>> /\ link = None
      BY <1>1, <1>6, <1>10, <2>2
    <3>2. Asks' = Asks /\ \A q, i : Ordered(q, i)' <=> Ordered(q, i)
      BY <3>1 DEF Asks, Ordered, Binds, Sets
    <3>3. \A q, x : q.before \in Nat /\ q.before <= baked => (Fits(q, x)' <=> Fits(q, x))
      BY <1>4, RightKept
    <3>4. ASSUME NEW i \in Asks PROVE (Fits(asked[toNet[i].id], toNet[i])
                                        /\ Ordered(asked[toNet[i].id], i))'
      BY <1>1, <1>7, <1>8, <3>1, <3>2, <3>3 DEF Recorded, AsksMatch
    <3> QED BY <3>1, <3>2, <3>4 DEF AsksMatch
  <2> QED BY <2>1, <2>2
<1>16. Called'
  <2>1. ASSUME NEW q, q.before \in Nat, q.before <= baked,
               \A j \in Sets : toNet[j].cookie.n > q.before
        PROVE  \A j \in Sets' : toNet'[j].cookie.n > q.before
    <3> SUFFICES ASSUME NEW j \in Sets' PROVE toNet'[j].cookie.n > q.before
      OBVIOUS
    <3>1. CASE j \in Sets /\ toNet'[j] = toNet[j]
      BY <2>1, <3>1
    <3>2. CASE toNet'[j].cookie = c
      BY <1>2, <1>8, <2>1, <3>2
    <3> QED BY <1>11, <3>1, <3>2
  <2> QED BY <1>1, <1>4, <1>7, <1>14, <2>1, CalledKept
<1>17. Complete'
  <2> SUFFICES ASSUME link # None, alive[link]
               PROVE  SetUnder(link)' = Held(link)' \cup Queued(0)'
    BY <1>1 DEF Complete
  <2>1. link = vault /\ vault # None
    BY DEF Wired
  <2>2. Queued(0)' = Queued(0) \cup {c}
    BY <1>3, <1>6, <2>1, QueuedAppended
  <2>3. \A g : g = link => SetUnder(g)' = Held(g)' \cup Queued(0)'
    BY <1>4, <1>5, <1>7, <2>1, <2>2 DEF Complete
  <2> QED BY <1>1, <2>3
<1>18. Replied' /\ Answered'
  BY <1>1, <1>4, <1>7, <1>14, AnswersKept
<1> QED BY <1>12, <1>13, <1>15, <1>16, <1>17, <1>18 DEF Traced

(* The whole of the broker's jar that a request may see is what the broker *)
(* was told in its own days.                                               *)
Note(what, p) == [what |-> what, at |-> p, before |-> baked, under |-> vault]

LEMMA JarIsTold ==
  ASSUME Typed, Recorded, NEW p, NEW what \in {"get", "fetch"}
  PROVE  Told(Note(what, p), None) = View(jar, p, what = "get")
<1>1. \A x \in set : x.cookie.n <= baked
  BY DEF Recorded
<1>2. {x.cookie : x \in {y \in set : y.under = None /\ y.cookie.n <= Note(what, p).before}}
        = SetUnder(None)
  BY <1>1 DEF Note, SetUnder
<1>3. SetUnder(None) = jar /\ Note(what, p).at = p /\ Note(what, p).what = what
  BY DEF Recorded, Note
<1> QED BY <1>2, <1>3 DEF Told, View

LEMMA TracedNoted ==
  ASSUME Typed, Wired, Traced, NEW what \in {"get", "fetch"}, NEW p \in Partition, NEW r,
         Noted(what, p),
         UNCHANGED <<vault, jar, made, baked, toBroker, link, call, alive, store, wire, back,
                     set>>,
         \/ UNCHANGED toNet
         \/ /\ Joins(r) /\ r.what = what /\ r.id = ids' /\ r.at = p
            /\ r.cookies = (IF vault = None THEN View(jar, p, what = "get") ELSE {})
  PROVE  /\ Recorded' /\ Unbound' /\ AsksMatch' /\ Called' /\ Complete' /\ Replied'
         /\ \A i \in DOMAIN answer : \A q, a : q = asked'[i] /\ a = answer[i] => Right(q, a)'
<1>1. Recorded /\ Unbound /\ AsksMatch /\ Called /\ Complete /\ Replied /\ Answered
  BY DEF Traced
<1>2. /\ DOMAIN asked = 1 .. ids /\ ids \in Nat /\ baked \in Nat
      /\ \A i \in DOMAIN asked : asked[i].before \in Nat
      /\ \A i \in Asks : toNet[i].id \in DOMAIN asked
      /\ \A i \in Binds : i \in DOMAIN toNet
      /\ vault \in Generation \cup {None} /\ link \in Generation \cup {None}
  BY TracedTypes DEF Typed, TypeOK
<1>3. /\ DOMAIN asked' = DOMAIN asked \cup {ids'} /\ ids' \notin DOMAIN asked
      /\ \A i \in DOMAIN asked : asked'[i] = asked[i]
      /\ asked'[ids'] = Note(what, p)
  BY <1>2 DEF Noted, Note
<1>4. ToldBefore /\ \A g : SetUnder(g)' = SetUnder(g)
  BY SetKept
<1>5. \A g : Held(g)' = Held(g) /\ (Untouched(g)' <=> Untouched(g))
  BY DEF Held, OnWire, Untouched
<1>6. /\ Binds' = Binds /\ \A i \in Binds : toNet'[i] = toNet[i]
      /\ Sets' = Sets /\ \A i \in Sets : toNet'[i] = toNet[i]
      /\ \A b : Queued(b)' = Queued(b)
  <2>1. CASE UNCHANGED toNet
    BY <2>1 DEF Binds, Sets, Queued
  <2>2. CASE Joins(r) /\ r.what = what
    <3>1. r.what # "set" /\ r.what # "bind"
      BY <2>2
    <3>2. \A b : Queued(b)' = Queued(b)
      BY <2>2, <3>1, QueuedAppended
    <3>3. PICK n \in Nat : /\ DOMAIN toNet' = DOMAIN toNet \cup {n} /\ n > 0
                           /\ \A i \in DOMAIN toNet : i < n /\ toNet'[i] = toNet[i]
                           /\ toNet'[n] = r
      BY <2>2 DEF Joins
    <3>4. n \notin DOMAIN toNet
      BY <3>3
    <3> QED BY <3>1, <3>2, <3>3, <3>4 DEF Binds, Sets
  <2> QED BY <2>1, <2>2
<1>7. Recorded'
  <2>1. \A i \in DOMAIN asked' : asked'[i].before <= baked
    <3>1. Note(what, p).before <= baked
      BY <1>2 DEF Note
    <3> QED BY <1>1, <1>3, <3>1 DEF Recorded
  <2> QED BY <1>1, <1>4, <1>5, <1>6, <2>1 DEF Recorded
<1>8. Unbound'
  BY <1>1, <1>4, <1>5, <1>6 DEF Unbound
<1>9. AsksMatch'
  <2>1. CASE UNCHANGED toNet
    <3>1. /\ Asks' = Asks
          /\ \A q : /\ \A x : Fits(q, x)' <=> Fits(q, x)
                    /\ \A i : Ordered(q, i)' <=> Ordered(q, i)
                    /\ \A g : Reached(q, g)' <=> Reached(q, g)
      BY <1>5, <2>1 DEF Asks, Fits, Told, Ordered, Binds, Sets, Reached
    <3>2. \A i \in Asks : asked'[toNet[i].id] = asked[toNet[i].id]
      BY <1>2, <1>3
    <3> QED BY <1>1, <2>1, <3>1, <3>2 DEF AsksMatch
  <2>2. CASE /\ Joins(r) /\ r.what = what /\ r.id = ids' /\ r.at = p
             /\ r.cookies = (IF vault = None THEN View(jar, p, what = "get") ELSE {})
    <3> DEFINE q == Note(what, p)
    <3>1. q.what = what /\ q.at = p /\ q.before = baked /\ q.under = vault
      BY DEF Note
    <3>2. Told(q, None) = View(jar, p, what = "get")
      BY <1>1, JarIsTold
    <3>3. \A x : x = q => x.before \in Nat /\ x.before <= baked /\ Fits(x, r)
      BY <1>2, <2>2, <3>1, <3>2 DEF Fits
    <3>4. \A x : x = q => Fits(x, r)'
      BY <1>4, <3>3, RightKept
    <3>5. \A j \in Binds : q.under = toNet[j].gen
      BY <3>1 DEF Wired
    <3>6. \A j \in Sets : toNet[j].cookie.n <= q.before
      BY <1>1, <3>1 DEF Recorded
    <3>7. link # None => Reached(q, link)
      BY <1>1, <1>2, <3>1 DEF Wired, Recorded, Reached
    <3>8. asked'[r.id] = q /\ r.what # "set"
      BY <1>3, <2>2
    <3> HIDE DEF q
    <3> QED BY <1>1, <1>3, <1>4, <2>2, <3>4, <3>5, <3>6, <3>7, <3>8, AsksAppended
  <2> QED BY <2>1, <2>2
<1>10. Called'
  <2>1. \A q : (\A j \in Sets : toNet[j].cookie.n > q.before)
               => \A j \in Sets' : toNet'[j].cookie.n > q.before
    BY <1>6
  <2> QED BY <1>1, <1>3, <1>4, <2>1, CalledKept
<1>11. Complete'
  BY <1>1, <1>4, <1>5, <1>6 DEF Complete
<1>12. Replied'
  BY <1>1, <1>3, <1>4, AnswersKept
<1>13. \A i \in DOMAIN answer : \A q, a : q = asked'[i] /\ a = answer[i] => Right(q, a)'
  BY <1>1, <1>3, <1>4, RepliesKept
<1> QED BY <1>7, <1>8, <1>9, <1>10, <1>11, <1>12, <1>13

LEMMA TracedNeedFetch ==
  ASSUME Typed, Wired, Traced, NEW p \in Partition, NeedFetch(p)
  PROVE  Traced'
<1> DEFINE r == [what |-> "fetch", id |-> ids', at |-> p,
                 cookies |-> IF cookies_in_vault THEN {} ELSE View(jar, p, FALSE)]
<1>1. /\ Noted("fetch", p) /\ toNet' = Append(toNet, r)
      /\ UNCHANGED <<vault, jar, made, baked, toBroker, link, call, alive, store, wire, back,
                     set, answer>>
  BY DEF NeedFetch, vaults
<1>2. r \in NetRequest
  BY <1>1, NotedTypes DEF NetRequest, Ask, View, Typed, TypeOK
<1>3. /\ r.what = "fetch" /\ r.id = ids' /\ r.at = p
      /\ r.cookies = (IF vault = None THEN View(jar, p, "fetch" = "get") ELSE {})
  BY DEF cookies_in_vault
<1> HIDE DEF r
<1>4. Joins(r)
  BY <1>1, <1>2, NetAppended
<1>5. /\ Recorded' /\ Unbound' /\ AsksMatch' /\ Called' /\ Complete' /\ Replied'
      /\ \A i \in DOMAIN answer : \A q, a : q = asked'[i] /\ a = answer[i] => Right(q, a)'
  BY <1>1, <1>3, <1>4, TracedNoted
<1>6. Answered'
  BY <1>1, <1>5 DEF Answered
<1> QED BY <1>5, <1>6 DEF Traced

LEMMA TracedNeedCookies ==
  ASSUME Typed, Wired, Traced, NEW p \in Partition, NeedCookies(p)
  PROVE  Traced'
<1> DEFINE r == [what |-> "get", id |-> ids', at |-> p, cookies |-> {}]
           a == [cookies |-> View(jar, p, TRUE), from |-> None]
<1>1. /\ Noted("get", p)
      /\ UNCHANGED <<vault, jar, made, baked, toBroker, link, call, alive, store, wire, back, set>>
      /\ \/ vault # None /\ toNet' = Append(toNet, r) /\ UNCHANGED answer
         \/ vault = None /\ answer' = Settled(ids', a) /\ UNCHANGED toNet
  BY DEF NeedCookies, vaults, cookies_in_vault
<1>2. r \in NetRequest
  BY <1>1, NotedTypes DEF NetRequest, Ask
<1>3. r.what = "get" /\ r.id = ids' /\ r.at = p /\ r.cookies = {}
  OBVIOUS
<1> HIDE DEF r
<1>4. (vault # None /\ Joins(r)) \/ UNCHANGED toNet
  BY <1>1, <1>2, NetAppended
<1>5. /\ Recorded' /\ Unbound' /\ AsksMatch' /\ Called' /\ Complete' /\ Replied'
      /\ \A i \in DOMAIN answer : \A q, x : q = asked'[i] /\ x = answer[i] => Right(q, x)'
  BY <1>1, <1>3, <1>4, TracedNoted
<1>6. Answered'
  <2>1. CASE UNCHANGED answer
    BY <1>5, <2>1 DEF Answered
  <2>2. CASE vault = None /\ answer' = Settled(ids', a)
    <3> DEFINE q == Note("get", p)
    <3>1. asked'[ids'] = q
      BY <1>1, TracedTypes DEF Noted, Note
    <3>2. Right(q, a)
      <4>1. q.under = None /\ Told(q, None) = View(jar, p, TRUE)
        BY <2>2, JarIsTold DEF Note, Traced
      <4> QED BY <4>1 DEF Right
    <3>3. \A x, y : Right(x, y)' <=> Right(x, y)
      BY <1>1 DEF Right, Told
    <3>4. \A x, y : x = q /\ y = a => Right(x, y)'
      BY <3>2, <3>3
    <3> HIDE DEF q, a
    <3>5. ASSUME NEW i \in DOMAIN answer', NEW x, NEW y, x = asked'[i], y = answer'[i]
          PROVE  Right(x, y)'
      <4>1. i = ids' \/ (i \in DOMAIN answer /\ answer'[i] = answer[i])
        BY <2>2, <3>5 DEF Settled
      <4>2. i = ids' => answer'[i] = a
        BY <2>2, <3>5 DEF Settled
      <4> QED BY <1>5, <3>1, <3>4, <3>5, <4>1, <4>2
    <3> QED BY <3>5 DEF Answered
  <2> QED BY <1>1, <2>1, <2>2
<1> QED BY <1>5, <1>6 DEF Traced

LEMMA TracedVaultGone ==
  ASSUME Typed, Typed', Wired, Traced, VaultGone
  PROVE  Traced'
<1>1. /\ toBroker # <<>> /\ Head(toBroker).what = "gone" /\ toBroker' = Tail(toBroker)
      /\ UNCHANGED <<running, jar, baked, ids, link, call, store, wire, back, history>>
  BY DEF VaultGone
<1>2. Recorded /\ Unbound /\ AsksMatch /\ Called /\ Complete /\ Replied /\ Answered
  BY DEF Traced
<1>3. Binds = {} /\ link = None /\ link' = None /\ call = None /\ call' = None
  <2>1. 1 \in Reports
    BY <1>1, HeadOfBrokerTaken
  <2> QED BY <1>1, <2>1 DEF Wired, DeathReportedOnce, Typed, Numbered
<1>4. UNCHANGED <<set, asked, answer>> /\ ToldBefore /\ \A g : SetUnder(g)' = SetUnder(g)
  BY <1>1, SetKept DEF history
<1>5. \A g : Held(g)' = Held(g) /\ (Untouched(g)' <=> Untouched(g))
  BY <1>1 DEF Held, OnWire, Untouched
<1>6. Called' /\ Complete'
  BY <1>3 DEF Called, Complete
<1>7. Answered'
  BY <1>2, <1>4, AnswersKept
<1>8. Replied'
  <2>1. /\ \A i \in DOMAIN Tail(toBroker) : Tail(toBroker)[i].what = "reply"
             => Tail(toBroker)[i].id \in 1 .. ids
        /\ \A i \in DOMAIN Tail(toBroker) :
             i + 1 \in DOMAIN toBroker /\ Tail(toBroker)[i] = toBroker[i + 1]
    <3>1. toBroker \in Seq(FromNet)
      BY DEF Typed, TypeOK
    <3> QED BY <1>1, <3>1, ReplyTaken, Dequeued
  <2>2. RepliesIn(Tail(toBroker))
    BY <1>2, <2>1 DEF Replied, RepliesIn
  <2>3. \A q : q = Tail(toBroker) => RepliesIn(q)'
    BY <1>2, <1>4, <2>1, <2>2, RepliesKept
  <2> QED BY <1>1, <2>3 DEF Replied
<1>9. CASE RewireFailed
  <2>1. vault' = None /\ UNCHANGED <<made, toNet>>
    BY <1>9 DEF RewireFailed
  <2>2. Binds' = {} /\ Sets' = Sets
    BY <1>3, <2>1 DEF Binds, Sets
  <2>3. Recorded' /\ Unbound'
    BY <1>1, <1>2, <1>4, <1>5, <2>1, <2>2 DEF Recorded, Unbound
  <2>4. AsksMatch'
    <3>1. /\ Asks' = Asks
          /\ \A q : /\ \A x : Fits(q, x)' <=> Fits(q, x)
                    /\ \A i : Ordered(q, i)' <=> Ordered(q, i)
      BY <1>4, <2>1 DEF Asks, Fits, Told, Ordered, Binds, Sets
    <3> QED BY <1>2, <1>3, <1>4, <2>1, <3>1 DEF AsksMatch
  <2> QED BY <1>6, <1>7, <1>8, <2>3, <2>4 DEF Traced
<1>10. CASE Rewired
  <2> DEFINE r == [what |-> "bind", gen |-> made + 1]
  <2>1. vault' = made + 1 /\ made' = made + 1 /\ toNet' = Append(toNet, r)
    BY <1>10 DEF Rewired
  <2>2. made \in Nat /\ made + 1 \in Generation
    <3>1. made' \in Generation
      BY DEF Typed, TypeOK, Generation
    <3> QED BY <2>1, <3>1, TracedTypes
  <2>3. r \in NetRequest /\ r.what = "bind" /\ r.gen = made + 1
    BY <2>2 DEF NetRequest
  <2> HIDE DEF r
  <2>4. Joins(r)
    BY <2>1, <2>3, NetAppended
  <2>5. PICK n \in Nat : /\ DOMAIN toNet' = DOMAIN toNet \cup {n} /\ n > 0
                         /\ \A i \in DOMAIN toNet : i < n /\ toNet'[i] = toNet[i]
                         /\ toNet'[n] = r
    BY <2>4 DEF Joins
  <2>6. /\ Binds' = {n}
        /\ Sets' = Sets /\ \A i \in Sets : i < n /\ toNet'[i] = toNet[i]
    <3>1. n \notin DOMAIN toNet
      BY <2>5
    <3> QED BY <1>3, <2>3, <2>5, <3>1 DEF Binds, Sets
  <2>7. Recorded'
    <3>1. \A x \in set : x.under # None => x.under <= made'
      <4>1. \A x \in set : x.under # None => x.under \in Nat
        BY TracedTypes DEF Generation
      <4> QED BY <1>2, <2>1, <2>2, <4>1 DEF Recorded
    <3>2. /\ \A x \in set' : x.cookie.n <= baked'
          /\ \A i \in DOMAIN asked' : asked'[i].before <= baked'
          /\ \A i \in Sets' : toNet'[i].cookie.n <= baked'
      BY <1>1, <1>2, <1>4, <2>6 DEF Recorded
    <3>3. \A g \in Generation : \A c \in Held(g)' : c.n <= baked'
      BY <1>1, <1>2, <1>5 DEF Recorded
    <3>4. jar' = SetUnder(None)' /\ vault' <= made'
      BY <1>1, <1>2, <1>4, <2>1, <2>2 DEF Recorded
    <3> QED BY <1>4, <3>1, <3>2, <3>3, <3>4 DEF Recorded
  <2>8. Unbound'
    <3>1. \A g \in Generation : g > made => Untouched(g)' /\ SetUnder(g)' = {}
      <4>1. ASSUME NEW g \in Generation, g > made PROVE SetUnder(g) = {}
        <5>1. g # None /\ \A x \in set : ~(x.under = g)
          BY <1>2, <2>2, <4>1, NoneIsNoGeneration DEF Recorded, Generation
        <5> QED BY <5>1 DEF SetUnder
      <4> QED BY <1>2, <1>4, <1>5, <4>1 DEF Unbound
    <3>2. \A g \in Generation : g > made' => g > made
      BY <2>1, <2>2 DEF Generation
    <3>3. \A i \in Binds' : \A g : g = toNet'[i].gen =>
            Untouched(g)' /\ SetUnder(g)' = Queued(i)'
      <4>1. \A i \in Binds' : i = n /\ toNet'[i].gen = made + 1
        BY <2>3, <2>5, <2>6
      <4>2. \A g : g = made + 1 => g \in Generation /\ g > made
        BY <2>2
      <4>3. \A i : i = n => Queued(i)' = {}
        <5>1. \A j \in Sets' : ~(j > n)
          BY <2>5, <2>6, TracedTypes
        <5> QED BY <5>1 DEF Queued
      <4> QED BY <3>1, <4>1, <4>2, <4>3
    <3> QED BY <3>1, <3>2, <3>3 DEF Unbound
  <2>9. AsksMatch'
    <3>1. r.what # "set" /\ r.what \notin {"get", "fetch"} /\ UNCHANGED <<link, store, wire>>
      BY <1>1, <2>3
    <3> QED BY <1>2, <1>4, <2>4, <3>1, AsksAppended
  <2> QED BY <1>6, <1>7, <1>8, <2>7, <2>8, <2>9 DEF Traced
<1>11. CASE RewireTorn
  <2> DEFINE r == [what |-> "bind", gen |-> None]
  <2>1. vault' = None /\ made' = made /\ toNet' = Append(toNet, r)
    BY <1>11 DEF RewireTorn
  <2>2. r \in NetRequest /\ r.what = "bind" /\ r.gen = None
    BY DEF NetRequest
  <2> HIDE DEF r
  <2>3. Joins(r)
    BY <2>1, <2>2, NetAppended
  <2>4. PICK n \in Nat : /\ DOMAIN toNet' = DOMAIN toNet \cup {n} /\ n > 0
                         /\ \A i \in DOMAIN toNet : i < n /\ toNet'[i] = toNet[i]
                         /\ toNet'[n] = r
    BY <2>3 DEF Joins
  <2>5. /\ Binds' = {n}
        /\ Sets' = Sets /\ \A i \in Sets : i < n /\ toNet'[i] = toNet[i]
    <3>1. n \notin DOMAIN toNet
      BY <2>4
    <3> QED BY <1>3, <2>2, <2>4, <3>1 DEF Binds, Sets
  <2>6. Recorded'
    BY <1>1, <1>2, <1>4, <1>5, <2>1, <2>5 DEF Recorded
  <2>7. Unbound'
    <3>1. \A i \in Binds' : toNet'[i].gen = None
      BY <2>2, <2>4, <2>5
    <3> QED BY <1>2, <1>5, <2>1, <3>1 DEF Unbound
  <2>8. AsksMatch'
    <3>1. r.what # "set" /\ r.what \notin {"get", "fetch"} /\ UNCHANGED <<link, store, wire>>
      BY <1>1, <2>2
    <3> QED BY <1>2, <1>4, <2>3, <3>1, AsksAppended
  <2> QED BY <1>6, <1>7, <1>8, <2>6, <2>7, <2>8 DEF Traced
<1> QED BY <1>9, <1>10, <1>11 DEF VaultGone

LEMMA TracedShutdown ==
  ASSUME Typed, Traced, Shutdown
  PROVE  Traced'
<1>1. /\ vault' = None /\ link' = None /\ call' = None /\ toNet' = <<>> /\ toBroker' = <<>>
      /\ UNCHANGED <<jar, made, baked, store, wire, back, set, asked, answer>>
  BY DEF Shutdown, history
<1>2. Recorded /\ Unbound /\ AsksMatch /\ Called /\ Complete /\ Replied /\ Answered
  BY DEF Traced
<1>3. Binds' = {} /\ Sets' = {} /\ Asks' = {}
  BY <1>1 DEF Binds, Sets, Asks
<1>4. \A g : /\ Held(g)' = Held(g) /\ (Untouched(g)' <=> Untouched(g))
             /\ SetUnder(g)' = SetUnder(g)
  BY <1>1 DEF Held, OnWire, Untouched, SetUnder
<1>5. Recorded' /\ Unbound'
  BY <1>1, <1>2, <1>3, <1>4 DEF Recorded, Unbound
<1>6. AsksMatch' /\ Called' /\ Complete'
  BY <1>1, <1>3 DEF AsksMatch, Called, Complete
<1>7. Replied'
  BY <1>1 DEF Replied, RepliesIn
<1>8. Answered'
  BY <1>1, <1>2, SetKept, AnswersKept
<1> QED BY <1>5, <1>6, <1>7, <1>8 DEF Traced

LEMMA TracedKept ==
  ASSUME Typed, Traced,
         UNCHANGED <<set, asked, answer, baked, jar, made, vault, toNet, toBroker, store, wire,
                     back, link, call>>,
         \A g \in Generation : alive'[g] => alive[g]
  PROVE  Traced'
<1>1. Recorded' /\ Unbound' /\ AsksMatch' /\ Called' /\ Complete'
  BY PartsKept DEF Traced
<1>2. Replied' /\ Answered'
  BY SetKept, AnswersKept DEF Traced
<1> QED BY <1>1, <1>2 DEF Traced

LEMMA TracedBindVault ==
  ASSUME Typed, Typed', Wired, Traced, BindVault
  PROVE  Traced'
<1> DEFINE r == Head(toNet)
           g == r.gen
<1>1. /\ toNet # <<>> /\ r.what = "bind" /\ toNet' = Tail(toNet) /\ call = None
      /\ (g # None /\ link' = g) \/ UNCHANGED link
      /\ UNCHANGED <<vault, jar, made, baked, toBroker, call, alive, store, wire, back,
                     set, asked, answer>>
  BY DEF BindVault, NextRequest, broker, vaults
<1>2. Recorded /\ Unbound /\ AsksMatch /\ Called /\ Complete /\ Replied /\ Answered
  BY DEF Traced
<1>3. Leaves(r)
  BY <1>1, NetTaken
<1> HIDE DEF r
<1>4. /\ 1 \in DOMAIN toNet /\ r = toNet[1]
      /\ \A i \in DOMAIN toNet' : /\ i \in Nat /\ i > 0 /\ i + 1 \in DOMAIN toNet
                                  /\ toNet'[i] = toNet[i + 1]
  BY <1>3 DEF Leaves
<1>5. Binds = {1} /\ link = None /\ g \in Generation \cup {None}
  <2>1. 1 \in Binds
    BY <1>1, <1>4 DEF Binds
  <2> QED BY <1>4, <2>1, TracedTypes DEF Wired
<1>6. Binds' = {} /\ \A i \in Sets' : i + 1 \in Sets /\ toNet'[i] = toNet[i + 1]
  <2>1. \A i \in Binds' : i + 1 \in Binds /\ i + 1 # 1
    BY <1>4 DEF Binds
  <2> QED BY <1>4, <1>5, <2>1 DEF Sets
<1>7. g # None => Untouched(g) /\ SetUnder(g) = Queued(1)
  BY <1>2, <1>4, <1>5 DEF Unbound
<1>8. /\ \A h : /\ Held(h)' = Held(h) /\ (Untouched(h)' <=> Untouched(h))
                /\ SetUnder(h)' = SetUnder(h)
      /\ ToldBefore /\ UNCHANGED <<store, wire, back>>
  BY <1>1, SetKept DEF Held, OnWire, Untouched
<1>9. Recorded' /\ Unbound'
  BY <1>1, <1>2, <1>6, <1>8 DEF Recorded, Unbound
<1>10. Replied' /\ Answered'
  BY <1>1, <1>2, <1>8, AnswersKept
<1>11. UNCHANGED <<asked, set>>
  BY <1>1
<1>12. CASE UNCHANGED link
  <2>1. AsksMatch'
    BY <1>2, <1>3, <1>5, <1>11, <1>12, AsksTaken
  <2>2. Called' /\ Complete'
    BY <1>1, <1>5, <1>12 DEF Called, Complete
  <2> QED BY <1>9, <1>10, <2>1, <2>2 DEF Traced
<1>13. CASE g # None /\ link' = g
  <2>1. Held(g) = {} /\ OnlySets(g) /\ back[g] = <<>>
    BY <1>7, <1>13 DEF Untouched, Held, OnWire, OnlySets
  <2>2. AsksMatch'
    <3>1. ASSUME NEW i \in Asks, i > 1, NEW q, q = asked[toNet[i].id]
          PROVE  Reached(q, link)'
      <4>1. q.under = g
        BY <1>2, <1>4, <1>5, <3>1 DEF AsksMatch, Ordered
      <4>2. \A h : h = g => Reached(q, h)'
        BY <1>8, <2>1, <4>1 DEF Reached
      <4> QED BY <1>13, <4>2
    <3> HIDE DEF g
    <3> QED BY <1>2, <1>3, <1>11, <3>1, AsksTaken
  <2>3. Called'
    <3>1. \A h : h = g => OnlySets(h)' /\ back'[h] = <<>>
      BY <1>8, <2>1 DEF OnlySets
    <3> QED BY <1>1, <1>13, <3>1 DEF Called
  <2>4. Complete'
    <3>1. Queued(0)' = Queued(1)
      BY <1>3, QueuedTaken
    <3>2. \A h : h = g => SetUnder(h)' = Held(h)' \cup Queued(0)'
      BY <1>7, <1>8, <1>13, <2>1, <3>1
    <3> QED BY <1>13, <3>2 DEF Complete
  <2> QED BY <1>9, <1>10, <2>2, <2>3, <2>4 DEF Traced
<1> QED BY <1>1, <1>12, <1>13

LEMMA TracedCookieSet ==
  ASSUME Typed, Wired, Traced, CookieSet
  PROVE  Traced'
<1> DEFINE r == Head(toNet)
<1>1. /\ toNet # <<>> /\ r.what = "set" /\ toNet' = Tail(toNet) /\ call = None
      /\ UNCHANGED <<vault, jar, made, baked, toBroker, link, call, alive, store, back,
                     set, asked, answer>>
  BY DEF CookieSet, NextRequest, broker, history
<1>2. Recorded /\ Unbound /\ AsksMatch /\ Called /\ Complete /\ Replied /\ Answered
  BY DEF Traced
<1>3. Leaves(r)
  BY <1>1, NetTaken
<1>4. \/ /\ link # None /\ alive[link]
         /\ wire' = [wire EXCEPT ![link] = Append(@, r)]
      \/ ~(link # None /\ alive[link]) /\ UNCHANGED wire
  BY DEF CookieSet
<1>5. r \in VaultRequest /\ r.cookie \in Cookie
  BY <1>1, RequestTaken, RequestKinds
<1> HIDE DEF r
<1>6. /\ 1 \in DOMAIN toNet /\ r = toNet[1]
      /\ \A i \in DOMAIN toNet' : /\ i \in Nat /\ i > 0 /\ i + 1 \in DOMAIN toNet
                                  /\ toNet'[i] = toNet[i + 1]
  BY <1>3 DEF Leaves
<1>7. /\ \A i \in Binds' : i \in Nat /\ i + 1 \in Binds /\ toNet'[i] = toNet[i + 1]
      /\ \A i \in Sets' : i + 1 \in Sets /\ toNet'[i] = toNet[i + 1]
      /\ 1 \in Sets
  BY <1>1, <1>6 DEF Binds, Sets
<1>8. ToldBefore /\ \A h : SetUnder(h)' = SetUnder(h)
  BY <1>1, SetKept
<1>9. /\ \A b \in Nat : Queued(b)' = Queued(b + 1)
      /\ Queued(0) = Queued(1) \cup {r.cookie}
  BY <1>1, <1>3, QueuedTaken
<1>10. link # None => /\ Binds = {} /\ link \in Generation /\ link <= made
                      /\ OnlySets(link) /\ back[link] = <<>>
  BY <1>1, <1>2 DEF Wired, Typed, TypeOK, Recorded, Called
<1>11. /\ \A h \in Generation : h # link => /\ wire'[h] = wire[h]
                                            /\ Held(h)' = Held(h)
                                            /\ (Untouched(h)' <=> Untouched(h))
       /\ link # None => \/ /\ alive[link] /\ OnlySets(link)'
                            /\ \A h : h = link => Held(h)' = Held(h) \cup {r.cookie}
                         \/ /\ ~alive[link] /\ OnlySets(link)'
                            /\ \A h : h = link => Held(h)' = Held(h)
  <2>1. CASE ~(link # None /\ alive[link]) /\ UNCHANGED wire
    <3>1. \A h : /\ Held(h)' = Held(h) /\ (Untouched(h)' <=> Untouched(h))
                 /\ (OnlySets(h)' <=> OnlySets(h))
      BY <1>1, <2>1 DEF Held, OnWire, Untouched, OnlySets
    <3> QED BY <1>1, <1>10, <2>1, <3>1
  <2>2. CASE /\ link # None /\ alive[link]
             /\ wire' = [wire EXCEPT ![link] = Append(@, r)]
    <3>1. /\ \A h \in Generation : h # link => wire'[h] = wire[h]
          /\ wire'[link][Len(wire'[link])] = r
          /\ \A i \in DOMAIN wire'[link] :
               \/ i = Len(wire'[link])
               \/ i \in DOMAIN wire[link] /\ wire'[link][i] = wire[link][i]
      BY <1>1, <1>5, <1>10, <2>2, WireAppended
    <3>2. \A h \in Generation : h = link => Held(h)' = Held(h) \cup {r.cookie}
      <4> SUFFICES ASSUME NEW h \in Generation, h = link
                   PROVE  Held(h)' = Held(h) \cup {r.cookie}
        OBVIOUS
      <4>1. wire' = [wire EXCEPT ![h] = Append(@, r)] /\ UNCHANGED store
        BY <1>1, <2>2
      <4> QED BY <1>1, <1>5, <4>1, WireAppended
    <3>3. OnlySets(link)'
      <4>1. \A i \in DOMAIN wire'[link] : wire'[link][i].what = "set"
        BY <1>1, <1>10, <2>2, <3>1 DEF OnlySets
      <4> QED BY <1>1, <4>1 DEF OnlySets
    <3>4. \A h \in Generation : h # link =>
            Held(h)' = Held(h) /\ (Untouched(h)' <=> Untouched(h))
      BY <1>1, <3>1 DEF Held, OnWire, Untouched
    <3> QED BY <1>10, <2>2, <3>1, <3>2, <3>3, <3>4
  <2> QED BY <1>4, <2>1, <2>2
<1>12. /\ made \in Nat /\ \A i \in Binds : toNet[i].gen \in Generation \cup {None}
       /\ Generation \subseteq Nat
  BY TracedTypes DEF Generation
<1>13. Recorded'
  <2>1. \A i \in Sets' : toNet'[i].cookie.n <= baked'
    BY <1>1, <1>2, <1>7 DEF Recorded
  <2>2. \A h \in Generation : \A c \in Held(h)' : c.n <= baked'
    <3>1. r.cookie.n <= baked
      BY <1>2, <1>6, <1>7 DEF Recorded
    <3>2. \A h \in Generation : Held(h)' = Held(h) \/ Held(h)' = Held(h) \cup {r.cookie}
      <4> TAKE h \in Generation
      <4>1. CASE h # link
        BY <1>11, <4>1
      <4>2. CASE h = link
        BY <1>11, <4>2, NoneIsNoGeneration
      <4> QED BY <4>1, <4>2
    <3> QED BY <1>1, <1>2, <3>1, <3>2 DEF Recorded
  <2> QED BY <1>1, <1>2, <1>8, <2>1, <2>2 DEF Recorded
<1>14. Unbound'
  <2>1. \A h \in Generation : h > made' => Untouched(h)'
    <3>1. \A h \in Generation : h > made => h # link
      BY <1>10, <1>12, NoneIsNoGeneration
    <3> QED BY <1>1, <1>2, <1>11, <3>1 DEF Unbound
  <2>2. ASSUME NEW i \in Binds', NEW h, h = toNet'[i].gen, h # None
        PROVE  Untouched(h)' /\ SetUnder(h)' = Queued(i)'
    <3>1. i \in Nat /\ i + 1 \in Binds /\ h = toNet[i + 1].gen /\ h \in Generation
      BY <1>7, <1>12, <2>2
    <3>2. h # link
      BY <1>10, <3>1, NoneIsNoGeneration
    <3>3. Untouched(h) /\ SetUnder(h) = Queued(i + 1)
      BY <1>2, <2>2, <3>1 DEF Unbound
    <3> QED BY <1>8, <1>9, <1>11, <3>1, <3>2, <3>3
  <2> QED BY <2>1, <2>2 DEF Unbound
<1>15. AsksMatch'
  <2>1. ASSUME link' # None, NEW i \in Asks, i > 1, NEW q, q = asked[toNet[i].id]
        PROVE  Reached(q, link)'
    <3>1. Reached(q, link) /\ Ordered(q, i)
      BY <1>1, <1>2, <2>1 DEF AsksMatch
    <3>2. r.cookie.n <= q.before
      BY <1>6, <1>7, <2>1, <3>1 DEF Ordered
    <3>3. \A h : h = link => Reached(q, h)'
      <4> SUFFICES ASSUME NEW h, h = link PROVE Reached(q, h)'
        OBVIOUS
      <4>1. Held(h)' = Held(h) \/ Held(h)' = Held(h) \cup {r.cookie}
        BY <1>1, <1>11, <2>1
      <4> QED BY <3>1, <3>2, <4>1 DEF Reached
    <3> QED BY <1>1, <3>3
  <2>2. UNCHANGED <<asked, set>>
    BY <1>1
  <2> QED BY <1>2, <1>3, <2>1, <2>2, AsksTaken
<1>16. Called'
  BY <1>1, <1>10, <1>11 DEF Called
<1>17. Complete'
  <2> SUFFICES ASSUME link # None, alive[link], NEW h, h = link
               PROVE  SetUnder(h)' = Held(h)' \cup Queued(0)'
    BY <1>1 DEF Complete
  <2>1. SetUnder(h) = Held(h) \cup Queued(0)
    BY <1>2 DEF Complete
  <2>2. Held(h)' = Held(h) \cup {r.cookie}
    BY <1>11
  <2>3. Queued(0)' = Queued(1)
    BY <1>9
  <2> QED BY <1>8, <1>9, <2>1, <2>2, <2>3
<1>18. Replied' /\ Answered'
  BY <1>1, <1>2, <1>8, AnswersKept
<1> QED BY <1>13, <1>14, <1>15, <1>16, <1>17, <1>18 DEF Traced

(* A reply joins the queue to the broker.                                  *)
LEMMA ReplyJoins ==
  ASSUME Typed, Replied, NEW ask \in Ask, NEW cookies \in SUBSET Cookie,
         NEW g \in Generation \cup {None}, ask.id \in 1 .. ids,
         \A a : a.cookies = cookies /\ a.from = g => Right(asked[ask.id], a),
         toBroker' = Append(toBroker, Message(ask, cookies, g)), UNCHANGED <<asked, set>>
  PROVE  Replied'
<1> DEFINE m == Message(ask, cookies, g)
<1>1. m \in FromNet /\ m.what = "reply" /\ m.id = ask.id
  BY AnswersAreReplies
<1>2. m.answer.cookies = cookies /\ m.answer.from = g
  BY DEF Message
<1> HIDE DEF m
<1>3. toBroker \in Seq(FromNet)
  BY DEF Typed, TypeOK
<1>4. RepliesIn(Append(toBroker, m))
  BY <1>1, <1>2, <1>3, ReplyAppended DEF Replied
<1>5. \A q : RepliesIn(q) => RepliesIn(q)'
  <2>1. \A y, a : Right(y, a)' <=> Right(y, a)
    BY DEF Right, Told
  <2> QED BY <2>1 DEF RepliesIn
<1>6. \A q : q = toBroker' => RepliesIn(q)'
  BY <1>4, <1>5 DEF m
<1> QED BY <1>6 DEF Replied

LEMMA LostJoins ==
  ASSUME Typed, Replied, NEW ask \in Ask, ask.id \in 1 .. ids,
         asked[ask.id].under # None, VaultLost(ask), UNCHANGED <<asked, set>>
  PROVE  /\ Replied' /\ link' = None /\ call' = None
         /\ Called' /\ Complete'
<1> DEFINE gone == [what |-> "gone"]
           m == Message(ask, {}, None)
           q == Append(toBroker, gone)
<1>1. m \in FromNet /\ m.what = "reply" /\ m.id = ask.id
  BY AnswersAreReplies
<1>2. m.answer.cookies = {} /\ m.answer.from = None
  BY DEF Message
<1>3. gone \in FromNet /\ gone.what # "reply"
  BY DEF FromNet
<1>4. toBroker' = Append(q, m) /\ link' = None /\ call' = None
  BY DEF VaultLost
<1> HIDE DEF gone, m
<1>5. toBroker \in Seq(FromNet)
  BY DEF Typed, TypeOK
<1>6. q \in Seq(FromNet) /\ RepliesIn(q)
  BY <1>3, <1>5, ReplyAppended, Enqueued DEF Replied
<1> HIDE DEF q
<1>7. Right(asked[m.id], m.answer)
  BY <1>1, <1>2 DEF Right
<1>8. RepliesIn(Append(q, m))
  BY <1>1, <1>6, <1>7, ReplyAppended
<1>9. \A x : RepliesIn(x) => RepliesIn(x)'
  <2>1. \A y, a : Right(y, a)' <=> Right(y, a)
    BY DEF Right, Told
  <2> QED BY <2>1 DEF RepliesIn
<1>10. \A x : x = toBroker' => RepliesIn(x)'
  BY <1>4, <1>8, <1>9
<1>11. Replied'
  BY <1>10 DEF Replied
<1> QED BY <1>4, <1>11 DEF Called, Complete

LEMMA GetWritten ==
  ASSUME Typed, NEW g \in Generation, NEW a \in Ask, OnlySets(g), UNCHANGED store,
         wire' = [wire EXCEPT ![g] = Append(@, GetOf(a))]
  PROVE  LastOnWire(a, g)'
<1> DEFINE r == GetOf(a)
<1>1. r \in VaultRequest
  BY DEF GetOf, VaultRequest, Ask
<1> HIDE DEF r
<1>2. /\ wire'[g] # <<>> /\ wire'[g][Len(wire'[g])] = r
      /\ \A i \in DOMAIN wire'[g] :
           i = Len(wire'[g]) \/ (i \in DOMAIN wire[g] /\ wire'[g][i] = wire[g][i])
  BY <1>1, WireAppended DEF r
<1>3. \A i \in DOMAIN wire'[g] : IF i = Len(wire'[g]) THEN wire'[g][i] = r
                                                     ELSE wire'[g][i].what = "set"
  <2>1. \A i \in DOMAIN wire[g] : wire[g][i].what = "set"
    BY DEF OnlySets
  <2> QED BY <1>2, <2>1
<1> QED BY <1>2, <1>3 DEF LastOnWire, GetOf, r

LEMMA TracedAskVault ==
  ASSUME Typed, Wired, Traced, AskVault
  PROVE  Traced'
<1> DEFINE ask == Head(toNet)
<1>1. /\ toNet # <<>> /\ ask.what \in {"get", "fetch"} /\ toNet' = Tail(toNet) /\ call = None
      /\ UNCHANGED <<vault, jar, made, baked, alive, store, back, set, asked, answer>>
  BY DEF AskVault, NextRequest, broker, history
<1>2. Recorded /\ Unbound /\ AsksMatch /\ Called /\ Complete /\ Replied /\ Answered
  BY DEF Traced
<1>3. Leaves(ask)
  BY <1>1, NetTaken
<1>4. \/ /\ link = None
         /\ toBroker' = Append(toBroker, Message(ask, ask.cookies, None))
         /\ UNCHANGED <<link, call, wire>>
      \/ /\ link # None /\ ~alive[link] /\ VaultLost(ask) /\ UNCHANGED wire
      \/ /\ link # None /\ alive[link]
         /\ wire' = [wire EXCEPT ![link] = Append(@, GetOf(ask))]
         /\ call' = ask /\ UNCHANGED <<link, toBroker>>
  BY DEF AskVault, GetOf
<1>5. ask \in Ask /\ ask.id \in 1 .. ids /\ ask.cookies \in SUBSET Cookie
  BY <1>1, RequestTaken DEF Ask
<1> HIDE DEF ask
<1>6. /\ 1 \in DOMAIN toNet /\ ask = toNet[1]
      /\ \A i \in DOMAIN toNet' : /\ i \in Nat /\ i > 0 /\ i + 1 \in DOMAIN toNet
                                  /\ toNet'[i] = toNet[i + 1]
  BY <1>3 DEF Leaves
<1>7. /\ \A i \in Binds' : i \in Nat /\ i + 1 \in Binds /\ toNet'[i] = toNet[i + 1]
      /\ \A i \in Sets' : i + 1 \in Sets /\ toNet'[i] = toNet[i + 1] /\ i + 1 > 1
      /\ 1 \in Asks
  BY <1>1, <1>6 DEF Binds, Sets, Asks
<1>8. ToldBefore /\ \A h : SetUnder(h)' = SetUnder(h)
  BY <1>1, SetKept
<1>9. /\ \A b \in Nat : Queued(b)' = Queued(b + 1)
      /\ Queued(0) = Queued(1)
  BY <1>1, <1>3, QueuedTaken
<1>10. /\ Fits(asked[ask.id], ask) /\ Ordered(asked[ask.id], 1)
       /\ link # None => Reached(asked[ask.id], link)
  BY <1>2, <1>6, <1>7 DEF AsksMatch
<1>11. link # None => /\ Binds = {} /\ link \in Generation /\ link <= made
                      /\ OnlySets(link) /\ back[link] = <<>>
  BY <1>1, <1>2 DEF Wired, Typed, TypeOK, Recorded, Called
<1>12. /\ made \in Nat /\ \A i \in Binds : toNet[i].gen \in Generation \cup {None}
       /\ Generation \subseteq Nat
  BY TracedTypes DEF Generation
<1>13. /\ \A h \in Generation : h # link => Untouched(h)' <=> Untouched(h)
       /\ \A h \in Generation : Held(h)' = Held(h)
       /\ link' = link => Replied'
       /\ link' # link => link' = None /\ call' = None /\ Replied'
  <2>1. CASE UNCHANGED wire
    <3>1. \A h : Held(h)' = Held(h) /\ (Untouched(h)' <=> Untouched(h))
      BY <1>1, <2>1 DEF Held, OnWire, Untouched
    <3>2. CASE /\ link = None /\ UNCHANGED link
               /\ toBroker' = Append(toBroker, Message(ask, ask.cookies, None))
      <4>1. \A a : a.cookies = ask.cookies /\ a.from = None => Right(asked[ask.id], a)
        BY <1>10 DEF Fits, Right
      <4>2. Replied'
        BY <1>1, <1>2, <1>5, <3>2, <4>1, ReplyJoins
      <4> QED BY <3>1, <3>2, <4>2
    <3>3. CASE link # None /\ VaultLost(ask)
      <4>1. asked[ask.id].under # None
        BY <1>10, <3>3 DEF Reached
      <4> QED BY <1>1, <1>2, <1>5, <3>1, <3>3, <4>1, LostJoins
    <3>4. CASE UNCHANGED <<link, toBroker>>
      BY <1>1, <1>2, <1>8, <3>1, <3>4, AnswersKept
    <3> QED BY <1>4, <2>1, <3>2, <3>3, <3>4
  <2>2. CASE /\ link # None /\ UNCHANGED <<link, toBroker>>
             /\ wire' = [wire EXCEPT ![link] = Append(@, GetOf(ask))]
    <3>1. GetOf(ask) \in VaultRequest /\ GetOf(ask).what = "get"
      BY <1>5 DEF GetOf, VaultRequest, Ask
    <3>2. \A h \in Generation : h = link => Held(h)' = Held(h)
      <4> SUFFICES ASSUME NEW h \in Generation, h = link PROVE Held(h)' = Held(h)
        OBVIOUS
      <4>1. wire' = [wire EXCEPT ![h] = Append(@, GetOf(ask))] /\ UNCHANGED store
        BY <1>1, <2>2
      <4>2. Held(h)' = Held(h) \cup {c \in {GetOf(ask).cookie} : GetOf(ask).what = "set"}
        BY <3>1, <4>1, WireAppended
      <4> QED BY <3>1, <4>2
    <3>3. \A h \in Generation : h # link => wire'[h] = wire[h]
      BY <1>1, <1>11, <2>2, <3>1, WireAppended
    <3>4. \A h \in Generation : h # link =>
            Held(h)' = Held(h) /\ (Untouched(h)' <=> Untouched(h))
      BY <1>1, <3>3 DEF Held, OnWire, Untouched
    <3>5. Replied'
      BY <1>1, <1>2, <1>8, <2>2, AnswersKept
    <3> QED BY <2>2, <3>2, <3>4, <3>5
  <2> QED BY <1>4, <2>1, <2>2
<1>14. Recorded'
  BY <1>1, <1>2, <1>7, <1>8, <1>13 DEF Recorded
<1>15. Unbound'
  <2>1. \A h \in Generation : h > made' => Untouched(h)'
    <3>1. \A h \in Generation : h > made => h # link
      BY <1>11, <1>12, NoneIsNoGeneration
    <3> QED BY <1>1, <1>2, <1>13, <3>1 DEF Unbound
  <2>2. ASSUME NEW i \in Binds', NEW h, h = toNet'[i].gen, h # None
        PROVE  Untouched(h)' /\ SetUnder(h)' = Queued(i)'
    <3>1. i \in Nat /\ i + 1 \in Binds /\ h = toNet[i + 1].gen /\ h \in Generation
      BY <1>7, <1>12, <2>2
    <3>2. h # link
      BY <1>11, <3>1, NoneIsNoGeneration
    <3>3. Untouched(h) /\ SetUnder(h) = Queued(i + 1)
      BY <1>2, <2>2, <3>1 DEF Unbound
    <3> QED BY <1>8, <1>9, <1>13, <3>1, <3>2, <3>3
  <2> QED BY <2>1, <2>2 DEF Unbound
<1>16. AsksMatch'
  <2>1. ASSUME link' # None, NEW i \in Asks, i > 1, NEW q, q = asked[toNet[i].id]
        PROVE  Reached(q, link)'
    <3>1. link' = link /\ Reached(q, link)
      BY <1>2, <1>13, <2>1 DEF AsksMatch
    <3>2. \A h : h = link => Reached(q, h)'
      BY <1>11, <1>13, <2>1, <3>1 DEF Reached
    <3> QED BY <3>1, <3>2
  <2>2. UNCHANGED <<asked, set>>
    BY <1>1
  <2> QED BY <1>2, <1>3, <2>1, <2>2, AsksTaken
<1>17. Called'
  <2>1. CASE UNCHANGED <<link, call, wire>>
    <3>1. OnlySets(link)' <=> OnlySets(link)
      BY <2>1 DEF OnlySets
    <3> QED BY <1>1, <1>2, <2>1, <3>1 DEF Called
  <2>2. CASE VaultLost(ask)
    BY <2>2 DEF VaultLost, Called
  <2>3. CASE /\ link # None /\ UNCHANGED link
             /\ wire' = [wire EXCEPT ![link] = Append(@, GetOf(ask))]
             /\ call' = ask
    <3> SUFFICES ASSUME NEW q, NEW a, NEW g, q = asked[a.id], a = ask, g = link
                 PROVE  InService(q, a, g)'
      <4>1. call' # None
        BY <1>5, <2>3, NoneIsNoGeneration
      <4> QED BY <1>1, <2>3, <4>1 DEF Called
    <3>1. g \in Generation /\ OnlySets(g) /\ back'[g] = <<>>
      BY <1>1, <1>11, <2>3
    <3>2. q.what = a.what /\ q.at = a.at /\ Reached(q, g)'
      BY <1>10, <1>13, <2>3, <3>1 DEF Fits, Reached
    <3>3. \A j \in Sets' : toNet'[j].cookie.n > q.before
      BY <1>7, <1>10 DEF Ordered
    <3>4. LastOnWire(a, g)'
      <4>1. wire' = [wire EXCEPT ![g] = Append(@, GetOf(a))] /\ UNCHANGED store /\ a \in Ask
        BY <1>1, <1>5, <2>3
      <4> QED BY <3>1, <4>1, GetWritten
    <3> QED BY <3>1, <3>2, <3>3, <3>4 DEF InService
  <2> QED BY <1>4, <2>1, <2>2, <2>3
<1>18. Complete'
  <2> SUFFICES ASSUME link' # None, alive'[link'], NEW h, h = link'
               PROVE  SetUnder(h)' = Held(h)' \cup Queued(0)'
    BY DEF Complete
  <2>1. h = link /\ h \in Generation
    BY <1>11, <1>13
  <2>2. SetUnder(h) = Held(h) \cup Queued(0)
    BY <1>1, <1>2, <1>13, <2>1 DEF Complete
  <2>3. Queued(0)' = Queued(1)
    BY <1>9
  <2> QED BY <1>8, <1>9, <1>13, <2>1, <2>2, <2>3
<1>19. Replied' /\ Answered'
  BY <1>1, <1>2, <1>8, <1>13, AnswersKept
<1> QED BY <1>14, <1>15, <1>16, <1>17, <1>18, <1>19 DEF Traced

LEMMA TracedVaultAnswers ==
  ASSUME Typed, Wired, Traced, VaultAnswers
  PROVE  Traced'
<1>1. /\ call # None
      /\ UNCHANGED <<vault, jar, made, baked, toNet, alive, store, wire, set, asked, answer>>
  BY DEF VaultAnswers, broker, history
<1>2. Recorded /\ Unbound /\ AsksMatch /\ Called /\ Complete /\ Replied /\ Answered
  BY DEF Traced
<1>3. /\ call \in Ask /\ call.id \in 1 .. ids /\ link \in Generation /\ link # None
      /\ link <= made /\ Binds = {}
  BY <1>1, <1>2 DEF Typed, TypeOK, Numbered, Wired, Recorded
<1> DEFINE q == asked[call.id]
<1>4. InService(q, call, link)
  BY <1>1, <1>2 DEF Called
<1>5. /\ q.under = link
      /\ back[link] # <<>> => wire[link] = <<>> /\ back[link] = <<Told(q, link)>>
  BY <1>4 DEF InService, Reached
<1>6. ToldBefore /\ \A h : SetUnder(h)' = SetUnder(h)
  BY <1>1, SetKept
<1>7. Binds' = {} /\ Sets' = Sets
  BY <1>1, <1>3 DEF Binds, Sets
<1>8. \A h : Held(h)' = Held(h) /\ Queued(h)' = Queued(h)
  BY <1>1 DEF Held, OnWire, Queued, Sets
<1>9. \/ /\ back[link] # <<>> /\ UNCHANGED link /\ call' = None
         /\ toBroker' = Append(toBroker, Message(call, Head(back[link]), link))
         /\ back' = [back EXCEPT ![link] = Tail(@)]
      \/ back[link] = <<>> /\ VaultLost(call) /\ UNCHANGED back
  BY DEF VaultAnswers
<1>10. /\ Replied' /\ Called' /\ (link' = link \/ link' = None)
       /\ \A h \in Generation : h # link => back'[h] = back[h]
  <2>1. CASE back[link] = <<>> /\ VaultLost(call) /\ UNCHANGED back
    <3>1. q.under # None
      BY <1>3, <1>5
    <3> HIDE DEF q
    <3> QED BY <1>1, <1>2, <1>3, <2>1, <3>1, LostJoins DEF q
  <2>2. CASE /\ back[link] # <<>> /\ UNCHANGED link /\ call' = None
             /\ toBroker' = Append(toBroker, Message(call, Head(back[link]), link))
             /\ back' = [back EXCEPT ![link] = Tail(@)]
    <3> DEFINE v == Told(q, link)
    <3>1. v \in SUBSET Cookie
      BY TracedTypes DEF Told
    <3>2. back[link] = <<v>> /\ wire[link] = <<>>
      BY <1>5, <2>2
    <3>3. q.under = link
      BY <1>5
    <3>4. \A a : a.cookies = v /\ a.from = link => Right(q, a)
      BY <1>3, <3>3 DEF Right
    <3> HIDE DEF v
    <3>5. Head(back[link]) = v /\ Tail(back[link]) = <<>>
      BY <3>2
    <3>6. Replied'
      BY <1>1, <1>2, <1>3, <2>2, <3>1, <3>4, <3>5, ReplyJoins
    <3>7. back' = [back EXCEPT ![link] = <<>>]
      BY <2>2, <3>5
    <3>8. back'[link] = <<>> /\ \A h \in Generation : h # link => back'[h] = back[h]
      BY <1>3, <3>7 DEF Typed, TypeOK
    <3>9. OnlySets(link)'
      <4>1. wire'[link'] = <<>>
        BY <1>1, <2>2, <3>2
      <4> QED BY <4>1 DEF OnlySets
    <3> QED BY <2>2, <3>6, <3>8, <3>9 DEF Called
  <2> QED BY <1>9, <2>1, <2>2
<1>11. Recorded'
  BY <1>1, <1>2, <1>6, <1>7, <1>8 DEF Recorded
<1>12. Unbound'
  <2>1. \A h \in Generation : h > made => h # link
    BY <1>3, TracedTypes DEF Generation
  <2>2. \A h \in Generation : h > made => Untouched(h)'
    BY <1>1, <1>2, <1>10, <2>1 DEF Unbound, Untouched
  <2> QED BY <1>1, <1>7, <2>2 DEF Unbound
<1>13. AsksMatch'
  <2>1. /\ Asks' = Asks
        /\ \A x : /\ \A r : Fits(x, r)' <=> Fits(x, r)
                  /\ \A i : Ordered(x, i)' <=> Ordered(x, i)
                  /\ \A g : Reached(x, g)' <=> Reached(x, g)
    BY <1>1, <1>8 DEF Asks, Fits, Told, Ordered, Binds, Sets, Reached
  <2>2. UNCHANGED <<asked, toNet>>
    BY <1>1
  <2> QED BY <1>2, <1>10, <2>1, <2>2 DEF AsksMatch
<1>14. Complete'
  <2> SUFFICES ASSUME link' # None, alive'[link'], NEW h, h = link'
               PROVE  SetUnder(h)' = Held(h)' \cup Queued(0)'
    BY DEF Complete
  <2>1. h = link /\ alive[link]
    BY <1>1, <1>10
  <2> QED BY <1>2, <1>3, <1>6, <1>8, <2>1 DEF Complete
<1>15. Answered'
  BY <1>1, <1>2, <1>6, AnswersKept
<1> QED BY <1>10, <1>11, <1>12, <1>13, <1>14, <1>15 DEF Traced

(* What a vault finds in its store for the request net waits for.          *)
LEMMA FoundIsTold ==
  ASSUME Typed, NEW g \in Generation, NEW q, NEW ask, q.before \in Nat, q.under = g,
         q.what = ask.what, q.at = ask.at,
         SetUnder(g) = store[g] \cup Queued(0),
         \A c \in store[g] : c.n <= q.before,
         \A j \in Sets : toNet[j].cookie.n > q.before
  PROVE  View(store[g], GetOf(ask).at, GetOf(ask).visible_only) = Told(q, g)
<1>1. {x.cookie : x \in {y \in set : y.under = g /\ y.cookie.n <= q.before}} = store[g]
  <2>1. ASSUME NEW c \in store[g]
        PROVE  \E x \in set : x.under = g /\ x.cookie.n <= q.before /\ x.cookie = c
    <3>1. c \in SetUnder(g)
      OBVIOUS
    <3>2. PICK x \in set : x.under = g /\ x.cookie = c
      BY <3>1 DEF SetUnder
    <3>3. x.cookie.n <= q.before
      BY <2>1, <3>2
    <3> QED BY <3>2, <3>3
  <2>2. ASSUME NEW x \in set, x.under = g, x.cookie.n <= q.before
        PROVE  x.cookie \in store[g]
    <3>1. x.cookie \in SetUnder(g)
      BY <2>2 DEF SetUnder
    <3>2. x.cookie.n \in Nat
      BY TracedTypes, CookieNumbers
    <3>3. ASSUME x.cookie \in Queued(0) PROVE FALSE
      <4>1. PICK j \in Sets : x.cookie = toNet[j].cookie
        BY <3>3 DEF Queued
      <4>2. x.cookie.n > q.before
        BY <4>1
      <4> QED BY <2>2, <3>2, <4>2
    <3> QED BY <3>1, <3>3
  <2> QED BY <2>1, <2>2
<1>2. GetOf(ask).at = q.at /\ (GetOf(ask).visible_only <=> q.what = "get")
  BY DEF GetOf
<1> QED BY <1>1, <1>2 DEF View, Told

LEMMA TracedServe ==
  ASSUME Typed, Wired, Traced, NEW g \in Generation, Serve(g)
  PROVE  Traced'
<1> DEFINE r == Head(wire[g])
<1>1. /\ alive[g] /\ wire[g] # <<>> /\ wire' = [wire EXCEPT ![g] = Tail(@)]
      /\ UNCHANGED <<vault, jar, made, baked, toNet, toBroker, link, call, alive,
                     set, asked, answer>>
      /\ \/ /\ r.what = "set" /\ store' = [store EXCEPT ![g] = @ \cup {r.cookie}]
            /\ UNCHANGED back
         \/ /\ r.what = "get" /\ UNCHANGED store
            /\ back' = [back EXCEPT ![g] = Append(@, View(store[g], r.at, r.visible_only))]
  BY DEF Serve, broker, net, history
<1>2. Recorded /\ Unbound /\ AsksMatch /\ Called /\ Complete /\ Replied /\ Answered
  BY DEF Traced
<1>3. /\ \A h \in Generation : h # g => wire'[h] = wire[h]
      /\ r = wire[g][1] /\ 1 \in DOMAIN wire[g] /\ Len(wire[g]) \in Nat
      /\ Len(wire'[g]) = Len(wire[g]) - 1 /\ wire'[g] \in Seq(VaultRequest)
      /\ \A i \in DOMAIN wire'[g] : /\ i \in Nat /\ i + 1 \in DOMAIN wire[g]
                                     /\ wire'[g][i] = wire[g][i + 1]
      /\ OnWire(g) = OnWire(g)' \cup {c \in {r.cookie} : r.what = "set"}
  BY <1>1, WireTaken
<1> HIDE DEF r
<1>4. link # None => link = g /\ Binds = {}
  BY <1>1 DEF Wired, NoOrphans
<1>5. /\ \A h \in Generation : Held(h)' = Held(h)
      /\ \A h \in Generation : h # g => (Untouched(h)' <=> Untouched(h))
      /\ \A h : store[h] \subseteq Held(h)
  <2>1. \A h \in Generation : h # g => /\ Held(h)' = Held(h)
                                      /\ (Untouched(h)' <=> Untouched(h))
    BY <1>1, <1>3, SMTT(20) DEF Held, OnWire, Untouched, Typed, TypeOK
  <2>2. store'[g] = store[g] \cup {c \in {r.cookie} : r.what = "set"}
    BY <1>1, SMTT(20) DEF Typed, TypeOK
  <2>3. Held(g)' = Held(g)
    BY <1>3, <2>2 DEF Held
  <2> QED BY <2>1, <2>3 DEF Held
<1>6. ToldBefore /\ \A h : SetUnder(h)' = SetUnder(h) /\ Queued(h)' = Queued(h)
  BY <1>1, SetKept DEF Queued, Sets
<1>7. Binds' = Binds /\ Sets' = Sets /\ Asks' = Asks
  BY <1>1 DEF Binds, Sets, Asks
<1>8. Recorded'
  BY <1>1, <1>2, <1>5, <1>6, <1>7 DEF Recorded
<1>9. Unbound'
  <2>1. ~Untouched(g)
    BY <1>1 DEF Untouched
  <2>2. \A i \in Binds : toNet[i].gen \in Generation \cup {None}
    BY TracedTypes
  <2>3. \A h \in Generation : Untouched(h) => Untouched(h)'
    BY <1>5, <2>1
  <2>4. \A h \in Generation : h > made' => Untouched(h)'
    BY <1>1, <1>2, <2>3 DEF Unbound
  <2>5. ASSUME NEW i \in Binds', NEW h, h = toNet'[i].gen, h # None
        PROVE  Untouched(h)' /\ SetUnder(h)' = Queued(i)'
    BY <1>1, <1>2, <1>6, <1>7, <2>2, <2>3, <2>5 DEF Unbound
  <2> QED BY <2>4, <2>5 DEF Unbound
<1>10. AsksMatch'
  <2>1. \A x : /\ \A y : Fits(x, y)' <=> Fits(x, y)
               /\ \A i : Ordered(x, i)' <=> Ordered(x, i)
               /\ \A h \in Generation : Reached(x, h)' <=> Reached(x, h)
    BY <1>1, <1>5 DEF Fits, Told, Ordered, Binds, Sets, Reached
  <2>2. UNCHANGED <<asked, toNet, link>> /\ (link # None => link \in Generation)
    BY <1>1 DEF Typed, TypeOK
  <2> QED BY <1>2, <1>7, <2>1, <2>2 DEF AsksMatch
<1>11. Complete'
  <2> SUFFICES ASSUME link # None, alive[link], NEW h, h = link
               PROVE  SetUnder(h)' = Held(h)' \cup Queued(0)'
    BY <1>1 DEF Complete
  <2> QED BY <1>2, <1>4, <1>5, <1>6 DEF Complete
<1>12. Replied' /\ Answered'
  BY <1>1, <1>2, <1>6, AnswersKept
<1>13. Called'
  <2>1. CASE call = None
    <3> SUFFICES ASSUME link # None PROVE (OnlySets(link) /\ back[link] = <<>>)'
      BY <1>1, <2>1 DEF Called
    <3>1. link = g /\ OnlySets(g) /\ back[g] = <<>>
      BY <1>2, <1>4, <2>1 DEF Called
    <3>2. r.what = "set" /\ UNCHANGED back
      BY <1>1, <1>3, <3>1 DEF OnlySets
    <3>3. OnlySets(g)'
      BY <1>3, <3>1 DEF OnlySets
    <3>4. \A h : h = link' => OnlySets(h)' /\ back'[h] = <<>>
      BY <1>1, <3>1, <3>2, <3>3
    <3> QED BY <3>4
  <2>2. CASE call # None
    <3> SUFFICES ASSUME NEW q, NEW ask, q = asked[call.id], ask = call
                 PROVE  InService(q, ask, g)'
      <4>1. link = g
        BY <1>4, <2>2 DEF Typed, Numbered
      <4> QED BY <1>1, <2>2, <4>1 DEF Called
    <3>1. link = g /\ link # None
      BY <1>4, <2>2 DEF Typed, Numbered
    <3>2. InService(q, ask, g) /\ q.before \in Nat
      BY <1>2, <2>2, <3>1, TracedTypes DEF Called, Typed, Numbered
    <3>3. LastOnWire(ask, g) /\ back[g] = <<>>
      BY <1>1, <3>2 DEF InService
    <3>4. /\ q.what = ask.what /\ q.at = ask.at /\ Reached(q, g) /\ Reached(q, g)'
          /\ \A j \in Sets' : toNet'[j].cookie.n > q.before
          /\ \A j \in Sets : toNet[j].cookie.n > q.before
      BY <1>1, <1>5, <1>7, <3>2 DEF InService, Reached
    <3>5. \/ LastOnWire(ask, g)' /\ back'[g] = <<>>
          \/ wire'[g] = <<>> /\ back'[g] = <<Told(q, g)>>
      <4>1. wire[g][Len(wire[g])] = GetOf(ask) /\ GetOf(ask).what = "get"
        <5>1. Len(wire[g]) \in DOMAIN wire[g]
          <6>1. wire[g] \in Seq(VaultRequest) /\ Len(wire[g]) # 0
            BY <1>1, EmptySeq DEF Typed, TypeOK
          <6> QED BY <1>3, <6>1, LenProperties
        <5> QED BY <3>3, <5>1 DEF LastOnWire, GetOf
      <4>2. CASE r.what = "set"
        <5>1. Len(wire[g]) # 1 /\ UNCHANGED back
          BY <1>1, <1>3, <4>1, <4>2
        <5>2. wire'[g] # <<>>
          <6>1. Len(wire'[g]) # 0
            BY <1>3, <5>1
          <6> QED BY <6>1
        <5>3. \A i \in DOMAIN wire'[g] :
                IF i = Len(wire'[g]) THEN wire'[g][i] = GetOf(ask)
                                     ELSE wire'[g][i].what = "set"
          BY <1>3, <3>3 DEF LastOnWire
        <5> QED BY <3>3, <5>1, <5>2, <5>3 DEF LastOnWire, GetOf
      <4>3. CASE r.what = "get"
        <5>1. Len(wire[g]) = 1
          BY <1>3, <3>3, <4>3 DEF LastOnWire
        <5>2. r = GetOf(ask) /\ wire'[g] = <<>>
          BY <1>3, <4>1, <5>1, EmptySeq
        <5>3. OnWire(g) = {}
          <6>1. DOMAIN wire[g] = {1}
            BY <1>3, <5>1, LenProperties DEF Typed, TypeOK
          <6> QED BY <1>3, <4>3, <6>1 DEF OnWire
        <5>4. SetUnder(g) = store[g] \cup Queued(0)
          BY <1>1, <1>2, <3>1, <5>3 DEF Complete, Held
        <5>5. \A c \in store[g] : c.n <= q.before
          BY <1>5, <3>4 DEF Reached
        <5>6. q.under = g
          BY <3>4 DEF Reached
        <5>7. View(store[g], r.at, r.visible_only) = Told(q, g)
          BY <3>2, <3>4, <5>2, <5>4, <5>5, <5>6, FoundIsTold
        <5>8. back'[g] = <<View(store[g], r.at, r.visible_only)>>
          <6> DEFINE v == View(store[g], r.at, r.visible_only)
          <6>1. back' = [back EXCEPT ![g] = Append(@, v)]
            BY <1>1, <4>3
          <6> HIDE DEF v
          <6>2. back'[g] = Append(back[g], v)
            BY <6>1 DEF Typed, TypeOK
          <6>3. Append(<<>>, v) = <<v>>
            OBVIOUS
          <6> QED BY <3>3, <6>2, <6>3 DEF v
        <5> QED BY <5>2, <5>7, <5>8
      <4> QED BY <1>1, <4>2, <4>3
    <3>6. Told(q, g)' = Told(q, g)
      BY <1>1 DEF Told
    <3> QED BY <3>4, <3>5, <3>6 DEF InService
  <2> QED BY <2>1, <2>2
<1> QED BY <1>8, <1>9, <1>10, <1>11, <1>12, <1>13 DEF Traced

LEMMA TracedInit == Init => Traced
<1> SUFFICES ASSUME Init PROVE Traced
  OBVIOUS
<1>1. /\ toBroker = <<>> /\ link = None /\ call = None /\ set = {} /\ jar = {}
      /\ DOMAIN asked = {} /\ DOMAIN answer = {} /\ vault = 1 /\ made = 1
      /\ \A g \in Generation : store[g] = {} /\ wire[g] = <<>> /\ back[g] = <<>>
  BY DEF Init
<1>2. DOMAIN toNet = {1} /\ toNet[1] = [what |-> "bind", gen |-> 1] /\ 1 \in Generation
  BY VaultAssumption DEF Init, Generation
<1>3. Binds = {1} /\ Sets = {} /\ Asks = {} /\ toNet[1].gen = 1
  BY <1>2 DEF Binds, Sets, Asks
<1>4. /\ \A g \in Generation : Untouched(g) /\ Held(g) = {}
      /\ \A g : SetUnder(g) = {} /\ Queued(g) = {}
  BY <1>1, <1>3 DEF Untouched, Held, OnWire, SetUnder, Queued
<1>5. Recorded /\ Unbound
  <2>1. Recorded
    BY <1>1, <1>3, <1>4 DEF Recorded
  <2>2. Unbound
    BY <1>2, <1>3, <1>4 DEF Unbound
  <2> QED BY <2>1, <2>2
<1>6. AsksMatch /\ Called /\ Complete
  BY <1>1, <1>3 DEF AsksMatch, Called, Complete
<1>7. Replied /\ Answered
  BY <1>1 DEF Replied, RepliesIn, Answered
<1> QED BY <1>5, <1>6, <1>7 DEF Traced

LEMMA TracedNext == Typed /\ Typed' /\ Wired /\ Traced /\ [Next]_vars => Traced'
<1> SUFFICES ASSUME Typed, Typed', Wired, Traced, [Next]_vars PROVE Traced'
  OBVIOUS
<1>1. CASE UNCHANGED vars
  BY <1>1, TracedKept DEF vars
<1>2. CASE \E p \in Partition :
             (\E h \in BOOLEAN : SetCookie(p, h)) \/ NeedFetch(p) \/ NeedCookies(p)
  BY <1>2, TracedSetCookie, TracedNeedFetch, TracedNeedCookies
<1>3. CASE Reply \/ VaultGone \/ Shutdown
  BY <1>3, TracedReply, TracedVaultGone, TracedShutdown
<1>4. CASE RestartAges
  BY <1>4, TracedKept DEF RestartAges, net, vaults, history
<1>5. CASE Net
  BY <1>5, TracedBindVault, TracedCookieSet, TracedAskVault, TracedVaultAnswers DEF Net
<1>6. ASSUME NEW g \in Generation, Serve(g) PROVE Traced'
  BY <1>6, TracedServe
<1>7. ASSUME NEW g \in Generation, Dies(g) PROVE Traced'
  <2>1. \A h \in Generation : alive'[h] => alive[h]
    BY <1>7 DEF Dies, Typed, TypeOK
  <2> QED BY <1>7, <2>1, TracedKept DEF Dies, broker, net, history
<1> QED BY <1>1, <1>2, <1>3, <1>4, <1>5, <1>6, <1>7 DEF Next, Loop

(* Every answer is what was set.                                           *)
THEOREM AnswersAreFaithful == Spec => []AnswersAreWhatWasSet
<1>1. Init => Typed /\ Wired /\ Traced
  BY TypedInit, WiredInit, TracedInit
<1>2. (Typed /\ Wired /\ Traced) /\ [Next]_vars => (Typed /\ Wired /\ Traced)'
  BY TypedNext, WiredNext, TracedNext
<1>3. Typed /\ Wired /\ Traced => AnswersAreWhatWasSet
  BY DEF Traced, Answered, Right, AnswersAreWhatWasSet
<1> QED BY <1>1, <1>2, <1>3, PTL DEF Spec
=============================================================================
