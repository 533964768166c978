---------------------------- MODULE BrokerProofs ----------------------------
(* Proofs about module Broker, for every value of its constants.           *)
EXTENDS Broker, FiniteSetTheorems, TLAPS

-----------------------------------------------------------------------------
(* What the helpers of the handlers return.                                *)

LEMMA PurgeType ==
  ASSUME NEW p \in [Kind -> [RequestId -> TabId \cup {None}]], NEW gone
  PROVE  Purge(p, gone) \in [Kind -> [RequestId -> TabId \cup {None}]]
BY DEF Purge

LEMMA SlotTypes ==
  ASSUME NEW tab \in Tab, NEW k
  PROVE  Occupy(tab, k) \in Tab /\ Vacate(tab, k) \in Tab
<1>1. Occupy(tab, k) \in Tab
  BY DEF Occupy, Tab
<1>2. Vacate(tab, k) \in Tab
  BY DEF Vacate, SaturatingDec, Tab
<1> QED BY <1>1, <1>2

LEMMA DropCrashedType ==
  ASSUME TypeOK,
         NEW ts \in [TabId -> TabOrNone],
         NEW p \in [Kind -> [RequestId -> TabId \cup {None}]],
         NEW gone \in SUBSET TabId,
         DropCrashed(ts, p, gone)
  PROVE  /\ tabs' \in [TabId -> TabOrNone]
         /\ pending' \in [Kind -> [RequestId -> TabId \cup {None}]]
         /\ crashes' \in [Site -> Nat]
<1>1. tabs' \in [TabId -> TabOrNone]
  BY DEF DropCrashed, TabOrNone
<1>2. pending' \in [Kind -> [RequestId -> TabId \cup {None}]]
  BY PurgeType DEF DropCrashed
<1>3. crashes' \in [Site -> Nat]
  <2>1. ASSUME NEW s \in Site
        PROVE  crashes[s] + Cardinality({t \in gone : ts[t].site = s}) \in Nat
    <3>1. IsFiniteSet(TabId)
      BY FS_Interval, BrokerAssumption DEF TabId
    <3>2. IsFiniteSet({t \in gone : ts[t].site = s})
      BY <3>1, FS_Subset
    <3>3. Cardinality({t \in gone : ts[t].site = s}) \in Nat
      BY <3>2, FS_CardinalityType
    <3> QED BY <3>3 DEF TypeOK
  <2> QED BY <2>1 DEF DropCrashed
<1> QED BY <1>1, <1>2, <1>3

LEMMA SendToTabType ==
  ASSUME TypeOK,
         NEW ts \in [TabId -> TabOrNone],
         NEW p \in [Kind -> [RequestId -> TabId \cup {None}]],
         NEW t \in TabId, NEW sent \in BOOLEAN,
         SendToTab(ts, p, t, sent)
  PROVE  /\ tabs' \in [TabId -> TabOrNone]
         /\ pending' \in [Kind -> [RequestId -> TabId \cup {None}]]
         /\ crashes' \in [Site -> Nat]
<1>1. CASE sent
  BY <1>1 DEF SendToTab, TypeOK
<1>2. CASE ~sent
  <2>1. DropCrashed(ts, p, {t})
    BY <1>2 DEF SendToTab
  <2> QED BY <2>1, DropCrashedType
<1> QED BY <1>1, <1>2

(* The conjuncts of TypeOK that a request or a reply can disturb.          *)
Moved ==
  /\ tabs' \in [TabId -> TabOrNone]
  /\ pending' \in [Kind -> [RequestId -> TabId \cup {None}]]
  /\ crashes' \in [Site -> Nat]
  /\ next_request_id' \in 0 .. RequestBound
  /\ wire' \in [Kind -> SUBSET RequestId]
  /\ asker' \in [RequestId -> Epoch \cup {None}]
  /\ receiver' \in [RequestId -> Epoch \cup {None}]

LEMMA AnswerInlineType ==
  ASSUME TypeOK, NEW t \in TabId, AnswerInline(t)
  PROVE  Moved
<1>1. PICK sent \in BOOLEAN : SendToTab(tabs, pending, t, sent)
  BY DEF AnswerInline
<1>2. tabs \in [TabId -> TabOrNone] /\ pending \in [Kind -> [RequestId -> TabId \cup {None}]]
  BY DEF TypeOK
<1>3. /\ tabs' \in [TabId -> TabOrNone]
      /\ pending' \in [Kind -> [RequestId -> TabId \cup {None}]]
      /\ crashes' \in [Site -> Nat]
  BY <1>1, <1>2, SendToTabType
<1>4. /\ next_request_id' \in 0 .. RequestBound
      /\ wire' \in [Kind -> SUBSET RequestId]
      /\ asker' \in [RequestId -> Epoch \cup {None}]
      /\ receiver' \in [RequestId -> Epoch \cup {None}]
  BY DEF AnswerInline, ledger, TypeOK
<1> QED BY <1>3, <1>4 DEF Moved

LEMMA BrokerType ==
  ASSUME TypeOK, next_request_id < RequestBound,
         NEW t \in TabId, NEW e \in Epoch, Current(t, e), NEW k \in Kind,
         Broker(k, t, e)
  PROVE  Moved
<1>0. /\ FreshId \in RequestId /\ tabs[t] \in Tab /\ tabs[t].epoch \in Epoch
      /\ next_request_id + 1 \in 0 .. RequestBound
  BY BrokerAssumption DEF TypeOK, FreshId, RequestId, Current, Live, TabOrNone, Tab
<1>1. CASE AnswerUnavailable(t, e)
  <2>1. PICK sent \in BOOLEAN : SendToTab(tabs, pending, t, sent)
    BY <1>1 DEF AnswerUnavailable
  <2>2. tabs \in [TabId -> TabOrNone] /\ pending \in [Kind -> [RequestId -> TabId \cup {None}]]
    BY DEF TypeOK
  <2>3. /\ tabs' \in [TabId -> TabOrNone]
        /\ pending' \in [Kind -> [RequestId -> TabId \cup {None}]]
        /\ crashes' \in [Site -> Nat]
    BY <2>1, <2>2, SendToTabType
  <2> QED BY <1>0, <1>1, <2>3 DEF AnswerUnavailable, TypeOK, Moved
<1>2. CASE HandOver(k, t, e)
  <2>1. Occupy(tabs[t], k) \in Tab
    BY <1>0, SlotTypes
  <2>2. tabs' \in [TabId -> TabOrNone]
    BY <1>2, <2>1 DEF HandOver, TypeOK, TabOrNone
  <2>3. pending' \in [Kind -> [RequestId -> TabId \cup {None}]]
    BY <1>0, <1>2 DEF HandOver, TypeOK
  <2>4. /\ wire' \in [Kind -> SUBSET RequestId]
        /\ asker' \in [RequestId -> Epoch \cup {None}]
    BY <1>0, <1>2 DEF HandOver, TypeOK
  <2> QED BY <1>0, <1>2, <2>2, <2>3, <2>4 DEF HandOver, TypeOK, Moved
<1> QED BY <1>1, <1>2 DEF Broker

LEMMA TabRequestType ==
  ASSUME TypeOK, next_request_id < RequestBound,
         NEW t \in TabId, NEW e \in Epoch, Current(t, e), TabRequest(t, e)
  PROVE  Moved
<1>1. AnswerInline(t) \/ \E k \in Kind : Broker(k, t, e)
  BY DEF TabRequest, NeedFetch, NeedSubresource, NeedDecode, NeedStorage, NeedFont,
         NeedCookies, Kind
<1> QED BY <1>1, AnswerInlineType, BrokerType

LEMMA SettleType ==
  ASSUME TypeOK, NEW k \in Kind, NEW id \in RequestId, Settle(k, id)
  PROVE  /\ tabs' \in [TabId -> TabOrNone]
         /\ pending' \in [Kind -> [RequestId -> TabId \cup {None}]]
         /\ crashes' \in [Site -> Nat]
         /\ receiver' \in [RequestId -> Epoch \cup {None}]
<1> DEFINE t == pending[k][id]
           p == [pending EXCEPT ![k][id] = None]
<1>1. CASE t = None
  BY <1>1 DEF Settle, TypeOK
<1>2. p \in [Kind -> [RequestId -> TabId \cup {None}]]
  BY DEF TypeOK
<1>3. CASE t # None /\ ~Live(t)
  BY <1>2, <1>3 DEF Settle, TypeOK
<1>4. CASE t # None /\ Live(t)
  <2>1. t \in TabId /\ tabs[t] \in Tab /\ tabs[t].epoch \in Epoch
    BY <1>4 DEF TypeOK, Live, TabOrNone, Tab
  <2>2. Vacate(tabs[t], k) \in Tab
    BY <2>1, SlotTypes
  <2> DEFINE ts == [tabs EXCEPT ![t] = Vacate(@, k)]
  <2>3. ts \in [TabId -> TabOrNone]
    BY <2>2 DEF TypeOK, TabOrNone
  <2>4. PICK sent \in BOOLEAN : SendToTab(ts, p, t, sent)
    BY <1>4 DEF Settle
  <2>5. receiver' \in [RequestId -> Epoch \cup {None}]
    BY <1>4, <2>1 DEF Settle, TypeOK
  <2> HIDE DEF ts, t, p
  <2> QED BY <1>2, <2>1, <2>3, <2>4, <2>5, SendToTabType
<1> QED BY <1>1, <1>3, <1>4

-----------------------------------------------------------------------------
(* Type correctness.                                                       *)

LEMMA TypeInit == Init => TypeOK
BY BrokerAssumption DEF Init, TypeOK, TabOrNone

LEMMA TypeStep == TypeOK /\ [Next]_vars => TypeOK'
<1> SUFFICES ASSUME TypeOK, [Next]_vars PROVE TypeOK'
  OBVIOUS
<1>1. ASSUME NEW s \in Site, OpenTab(s) PROVE TypeOK'
  <2>1. CASE AtCeiling \/ CrashLooping(s)
    BY <1>1, <2>1 DEF OpenTab, vars, TypeOK
  <2>2. CASE ~(AtCeiling \/ CrashLooping(s))
    <3>0. /\ next_tab_id \in TabId /\ next_tab_id + 1 \in 0 .. TabBound
          /\ next_epoch \in Epoch /\ next_epoch + 1 \in 0 .. EpochBound
      BY <1>1, BrokerAssumption DEF OpenTab, TypeOK, TabId, Epoch
    <3>1. CASE Install(next_tab_id, s, tabs)
      <4>1. [site |-> s, epoch |-> next_epoch,
             inflight_fetches |-> 0, inflight_decodes |-> 0] \in Tab
        BY <3>0 DEF Tab
      <4>2. tabs' \in [TabId -> TabOrNone]
        BY <3>1, <4>1 DEF Install, TypeOK, TabOrNone
      <4> QED BY <1>1, <2>2, <3>0, <3>1, <4>2 DEF OpenTab, Install, ledger, TypeOK
    <3>2. CASE UNCHANGED <<tabs, next_epoch, generation>>
      BY <1>1, <2>2, <3>0, <3>2 DEF OpenTab, ledger, TypeOK
    <3> QED BY <1>1, <2>2, <3>1, <3>2 DEF OpenTab
  <2> QED BY <2>1, <2>2
<1>2. ASSUME NEW s \in Site, CrashAges(s) PROVE TypeOK'
  <2>1. crashes[s] - 1 \in Nat
    BY <1>2 DEF CrashAges, TypeOK
  <2> QED BY <1>2, <2>1 DEF CrashAges, ledger, TypeOK
<1>3. ASSUME NEW t \in TabId, CloseTab(t) PROVE TypeOK'
  <2>1. pending' \in [Kind -> [RequestId -> TabId \cup {None}]]
    BY <1>3, PurgeType DEF CloseTab, TypeOK
  <2> QED BY <1>3, <2>1 DEF CloseTab, Removed, ledger, TypeOK, TabOrNone
<1>4. ASSUME NEW t \in TabId, NEW o \in Origin, Navigate(t, o) PROVE TypeOK'
  <2>1. CASE UNCHANGED vars
    BY <2>1 DEF vars, TypeOK
  <2>2. CASE ~UNCHANGED vars
    <3>1. SwapRenderer(t, o)
      BY <1>4, <2>2 DEF Navigate
    <3> DEFINE s == <<tabs[t].site[1], o>>
    <3>2. tabs[t] \in Tab /\ s \in Site
      BY <1>4 DEF Navigate, Live, TypeOK, TabOrNone, Tab, Site
    <3>3. /\ pending' = Purge(pending, {t})
          /\ \/ Install(t, s, tabs)
             \/ tabs' = Removed(t) /\ UNCHANGED <<next_epoch, generation>>
          /\ UNCHANGED <<running, crashes, next_tab_id, next_request_id, wire, ledger>>
      BY <2>2, <3>1 DEF SwapRenderer
    <3>4. pending' \in [Kind -> [RequestId -> TabId \cup {None}]]
      BY <3>3, PurgeType DEF TypeOK
    <3>5. /\ tabs' \in [TabId -> TabOrNone]
          /\ next_epoch' \in 0 .. EpochBound
          /\ generation' \in [Epoch -> TabId \cup {None}]
      <4>0. next_epoch \in Epoch /\ next_epoch + 1 \in 0 .. EpochBound
        BY <1>4, BrokerAssumption DEF Navigate, TypeOK, Epoch
      <4>1. [site |-> s, epoch |-> next_epoch,
             inflight_fetches |-> 0, inflight_decodes |-> 0] \in Tab
        BY <3>2, <4>0 DEF Tab
      <4>2. CASE Install(t, s, tabs)
        BY <4>0, <4>1, <4>2 DEF Install, TypeOK, TabOrNone
      <4>3. CASE tabs' = Removed(t) /\ UNCHANGED <<next_epoch, generation>>
        BY <4>3 DEF Removed, TypeOK, TabOrNone
      <4> QED BY <3>3, <4>2, <4>3
    <3> QED BY <3>3, <3>4, <3>5 DEF ledger, TypeOK
  <2> QED BY <2>1, <2>2
<1>5. ASSUME NEW t \in TabId, NEW e \in Epoch, FromTab(t, e) PROVE TypeOK'
  <2>1. CASE Current(t, e)
    <3>1. Moved
      BY <1>5, <2>1, TabRequestType DEF FromTab
    <3> QED BY <1>5, <3>1 DEF FromTab, Moved, TypeOK
  <2>2. CASE ~Current(t, e)
    BY <1>5, <2>2 DEF FromTab, ledger, TypeOK
  <2> QED BY <2>1, <2>2
<1>6. ASSUME NEW t \in TabId, NEW e \in Epoch, TabGone(t, e) PROVE TypeOK'
  <2>1. CASE Current(t, e)
    <3>1. DropCrashed(tabs, pending, {t})
      BY <1>6, <2>1 DEF TabGone
    <3>2. /\ tabs \in [TabId -> TabOrNone]
          /\ pending \in [Kind -> [RequestId -> TabId \cup {None}]]
      BY DEF TypeOK
    <3>3. /\ tabs' \in [TabId -> TabOrNone]
          /\ pending' \in [Kind -> [RequestId -> TabId \cup {None}]]
          /\ crashes' \in [Site -> Nat]
      BY <3>1, <3>2, DropCrashedType
    <3> QED BY <1>6, <3>3 DEF TabGone, ledger, TypeOK
  <2>2. CASE ~Current(t, e)
    BY <1>6, <2>2 DEF TabGone, ledger, TypeOK
  <2> QED BY <2>1, <2>2
<1>7. ASSUME NEW k \in Kind, NEW j \in Kind, NEW id \in RequestId,
             Answered(k, id), Settle(j, id)
      PROVE  TypeOK'
  BY <1>7, SettleType DEF Answered, TypeOK
<1>8. ASSUME NEW id \in RequestId, NetStream(id) PROVE TypeOK'
  <2>1. PICK k \in {"fetch", "subresource"} : Answered(k, id)
    BY <1>8 DEF NetStream, NetAnswered
  <2>2. CASE \E j \in Kind : Settle(j, id)
    BY <1>7, <2>1, <2>2 DEF Kind
  <2>3. CASE ~\E j \in Kind : Settle(j, id)
    <3> DEFINE t == pending["subresource"][id]
    <3>1. /\ Live(t) /\ t # None
          /\ pending' = [pending EXCEPT !["subresource"][id] = None]
          /\ tabs' = [tabs EXCEPT ![t] = Vacate(@, "subresource")]
          /\ receiver' = [receiver EXCEPT ![id] = tabs[t].epoch]
          /\ UNCHANGED crashes
      BY <1>8, <2>3 DEF NetStream, Kind
    <3>2. t \in TabId /\ tabs[t] \in Tab /\ tabs[t].epoch \in Epoch
      BY <3>1 DEF TypeOK, Live, TabOrNone, Tab, Kind
    <3>3. Vacate(tabs[t], "subresource") \in Tab
      BY <3>2, SlotTypes
    <3>4. /\ tabs' \in [TabId -> TabOrNone]
          /\ receiver' \in [RequestId -> Epoch \cup {None}]
          /\ pending' \in [Kind -> [RequestId -> TabId \cup {None}]]
      BY <3>1, <3>2, <3>3 DEF TypeOK, TabOrNone
    <3> QED BY <2>1, <3>1, <3>4 DEF Answered, TypeOK
  <2> QED BY <2>2, <2>3
<1>9. ASSUME NEW id \in RequestId,
             \/ NetReply(id) \/ DecodeReply(id) \/ StorageReply(id)
             \/ FontReply(id) \/ CookieVisible(id)
      PROVE  TypeOK'
  <2>1. \E k, j \in Kind : Answered(k, id) /\ Settle(j, id)
    BY <1>9 DEF NetReply, NetAnswered, DecodeReply, StorageReply, FontReply,
                CookieVisible, Kind
  <2> QED BY <1>7, <2>1
<1>10. ASSUME NEW k \in {"storage", "font"}, ServiceGone(k) PROVE TypeOK'
  <2> DEFINE waiting == {id \in RequestId : pending[k][id] # None}
             p == [pending EXCEPT ![k] = [id \in RequestId |-> None]]
  <2>1. PICK heard \in SUBSET waiting :
          LET gone == {pending[k][id] : id \in waiting \ heard} IN
          /\ DropCrashed(tabs, p, gone \cap LiveTabs)
          /\ receiver' = [id \in RequestId |->
               IF id \in heard /\ Live(pending[k][id])
               THEN tabs[pending[k][id]].epoch ELSE receiver[id]]
    BY <1>10 DEF ServiceGone, FailPendingFor
  <2>2. p \in [Kind -> [RequestId -> TabId \cup {None}]] /\ tabs \in [TabId -> TabOrNone]
    BY DEF TypeOK
  <2>3. /\ tabs' \in [TabId -> TabOrNone]
        /\ pending' \in [Kind -> [RequestId -> TabId \cup {None}]]
        /\ crashes' \in [Site -> Nat]
    <3> DEFINE gone == {pending[k][id] : id \in waiting \ heard} \cap LiveTabs
    <3>1. gone \in SUBSET TabId /\ DropCrashed(tabs, p, gone)
      BY <2>1 DEF LiveTabs
    <3> HIDE DEF gone, p
    <3> QED BY <2>2, <3>1, DropCrashedType
  <2>4. receiver' \in [RequestId -> Epoch \cup {None}]
    <3>1. ASSUME NEW id \in heard, Live(pending[k][id])
          PROVE  tabs[pending[k][id]].epoch \in Epoch
      BY <3>1 DEF TypeOK, Live, TabOrNone, Tab, Kind
    <3> QED BY <2>1, <3>1 DEF TypeOK
  <2>5. wire' \in [Kind -> SUBSET RequestId]
    BY <1>10 DEF ServiceGone, TypeOK
  <2> QED BY <1>10, <2>3, <2>4, <2>5 DEF ServiceGone, TypeOK
<1>11. CASE Shutdown
  BY <1>11 DEF Shutdown, ledger, TypeOK, TabOrNone
<1>12. CASE UNCHANGED vars
  BY <1>12 DEF vars, TypeOK
<1> QED BY <1>1, <1>2, <1>3, <1>4, <1>5, <1>6, <1>8, <1>9, <1>10, <1>11, <1>12 DEF Next

(* The loop's state has its type in every reachable state.                 *)
THEOREM TypeCorrect == Spec => []TypeOK
<1> QED BY TypeInit, TypeStep, PTL DEF Spec

-----------------------------------------------------------------------------
(* The inductive invariant.                                                *)

(* Ids come from counters and are never reused: nothing is known yet under *)
(* an id that has not been handed out.                                     *)
IdsFresh ==
  /\ \A t \in TabId : t >= next_tab_id => tabs[t] = None
  /\ \A k \in Kind, id \in RequestId : id >= next_request_id => pending[k][id] = None

(* PendingBelongsToCurrent of the tab records ts and the pending maps p.   *)
Owed(ts, p, a) ==
  \A k \in RetainedMaps, id \in RequestId :
    p[k][id] # None => ts[p[k][id]] # None /\ ts[p[k][id]].epoch = a[id]

IInv ==
  /\ TypeOK
  /\ IdsFresh
  /\ running => Owed(tabs, pending, asker)
  /\ CeilingHolds

(* What a handler does to the records ts and maps p it has built: no tab   *)
(* and no entry appears, and what is left of them is still owed.           *)
Shrinks(ts, p) ==
  /\ \A t \in TabId : tabs'[t] # None => ts[t] # None
  /\ \A k \in Kind, id \in RequestId : p[k][id] = None => pending'[k][id] = None
  /\ Owed(tabs', pending', asker)

LEMMA PurgeOwed ==
  ASSUME NEW ts, NEW us, NEW p, NEW a, NEW gone, Owed(ts, p, a),
         p \in [Kind -> [RequestId -> TabId \cup {None}]],
         \A t \in TabId : t \notin gone => us[t] = ts[t]
  PROVE  Owed(us, Purge(p, gone), a)
BY DEF Owed, Purge, RetainedMaps

LEMMA DropCrashedShrinks ==
  ASSUME NEW ts \in [TabId -> TabOrNone],
         NEW p \in [Kind -> [RequestId -> TabId \cup {None}]],
         NEW gone \in SUBSET TabId,
         Owed(ts, p, asker), DropCrashed(ts, p, gone)
  PROVE  Shrinks(ts, p)
<1>1. Owed(tabs', pending', asker)
  BY PurgeOwed DEF DropCrashed
<1>2. \A t \in TabId : tabs'[t] # None => ts[t] # None
  BY DEF DropCrashed
<1>3. \A k \in Kind, id \in RequestId : p[k][id] = None => pending'[k][id] = None
  BY DEF DropCrashed, Purge
<1> QED BY <1>1, <1>2, <1>3 DEF Shrinks

LEMMA SendToTabShrinks ==
  ASSUME NEW ts \in [TabId -> TabOrNone],
         NEW p \in [Kind -> [RequestId -> TabId \cup {None}]],
         NEW t \in TabId, NEW sent \in BOOLEAN,
         Owed(ts, p, asker), SendToTab(ts, p, t, sent)
  PROVE  Shrinks(ts, p)
<1>1. CASE sent
  BY <1>1 DEF SendToTab, Shrinks
<1>2. CASE ~sent
  BY <1>2, DropCrashedShrinks DEF SendToTab
<1> QED BY <1>1, <1>2

LEMMA SettleShrinks ==
  ASSUME TypeOK, Owed(tabs, pending, asker), NEW k \in Kind, NEW id \in RequestId,
         Settle(k, id)
  PROVE  Shrinks(tabs, pending)
<1> DEFINE t == pending[k][id]
           p == [pending EXCEPT ![k][id] = None]
           ts == [tabs EXCEPT ![t] = Vacate(@, k)]
<1>1. CASE t = None
  BY <1>1 DEF Settle, Shrinks
<1>2. /\ p \in [Kind -> [RequestId -> TabId \cup {None}]]
      /\ \A j \in Kind, i \in RequestId : p[j][i] = None \/ p[j][i] = pending[j][i]
      /\ \A j \in Kind, i \in RequestId : pending[j][i] = None => p[j][i] = None
  BY DEF TypeOK
<1>3. Owed(tabs, p, asker)
  <2>1. ASSUME NEW j \in RetainedMaps, NEW i \in RequestId, p[j][i] # None
        PROVE  tabs[p[j][i]] # None /\ tabs[p[j][i]].epoch = asker[i]
    <3>1. p[j][i] = pending[j][i]
      BY <1>2, <2>1 DEF RetainedMaps
    <3> HIDE DEF p
    <3> QED BY <2>1, <3>1 DEF Owed
  <2> QED BY <2>1 DEF Owed
<1>4. CASE t # None /\ ~Live(t)
  <2>1. pending' = p /\ tabs' = tabs
    BY <1>4 DEF Settle
  <2> HIDE DEF p
  <2> QED BY <1>2, <1>3, <2>1 DEF Shrinks
<1>5. CASE t # None /\ Live(t)
  <2>1. t \in TabId /\ tabs[t] \in Tab
    BY <1>5 DEF TypeOK, Live, TabOrNone
  <2>2. Vacate(tabs[t], k) \in Tab
    BY <2>1, SlotTypes
  <2>3. Vacate(tabs[t], k).epoch = tabs[t].epoch
    BY <2>1 DEF Vacate, Tab
  <2>4. ts \in [TabId -> TabOrNone]
    BY <2>2 DEF TypeOK, TabOrNone
  <2>5. \A u \in TabId : tabs[u] # None => ts[u] # None /\ ts[u].epoch = tabs[u].epoch
    BY <2>2, <2>3, BrokerAssumption DEF TypeOK
  <2>6. \A u \in TabId : ts[u] # None => tabs[u] # None
    BY <1>5, <2>1 DEF Live, TypeOK
  <2>7. PICK sent \in BOOLEAN : SendToTab(ts, p, t, sent)
    BY <1>5 DEF Settle
  <2> HIDE DEF ts, t, p
  <2>8. Owed(ts, p, asker)
    BY <1>2, <1>3, <2>5 DEF Owed, RetainedMaps
  <2>9. Shrinks(ts, p)
    BY <1>2, <2>1, <2>4, <2>7, <2>8, SendToTabShrinks
  <2> QED BY <1>2, <2>6, <2>9 DEF Shrinks
<1> QED BY <1>1, <1>4, <1>5

LEMMA TabsFinite == IsFiniteSet(TabId) /\ IsFiniteSet(LiveTabs)
<1>1. IsFiniteSet(TabId)
  BY FS_Interval, BrokerAssumption DEF TabId
<1>2. LiveTabs \in SUBSET TabId
  BY DEF LiveTabs
<1> QED BY <1>1, <1>2, FS_Subset

(* Fewer tabs never break the ceiling.                                     *)
LEMMA CeilingShrinks ==
  ASSUME CeilingHolds, \A t \in TabId : tabs'[t] # None => tabs[t] # None
  PROVE  CeilingHolds'
<1>1. LiveTabs' \in SUBSET LiveTabs
  BY DEF LiveTabs, Live
<1>2. IsFiniteSet(LiveTabs)
  BY TabsFinite
<1>3. /\ Cardinality(LiveTabs') <= Cardinality(LiveTabs)
      /\ Cardinality(LiveTabs) \in Nat /\ Cardinality(LiveTabs') \in Nat
  BY <1>1, <1>2, FS_Subset, FS_CardinalityType
<1> QED BY <1>3, BrokerAssumption DEF CeilingHolds

LEMMA Init_IInv == Init => IInv
<1> SUFFICES ASSUME Init PROVE IInv
  OBVIOUS
<1>1. LiveTabs = {}
  BY DEF Init, LiveTabs, Live
<1>2. CeilingHolds
  BY <1>1, FS_EmptySet, BrokerAssumption DEF CeilingHolds
<1>3. IdsFresh /\ Owed(tabs, pending, asker)
  BY DEF Init, IdsFresh, Owed, RetainedMaps
<1> QED BY <1>2, <1>3, TypeInit DEF IInv

(* A step that shrinks what the loop holds and hands out no id.            *)
LEMMA ShrinkStep ==
  ASSUME IInv, TypeOK', running, Shrinks(tabs, pending),
         UNCHANGED <<running, next_tab_id, asker>>,
         next_request_id' \in {next_request_id, next_request_id + 1}
  PROVE  IInv'
<1>1. CeilingHolds'
  BY CeilingShrinks DEF IInv, Shrinks
<1>2. IdsFresh'
  BY DEF IInv, IdsFresh, Shrinks, TypeOK, RequestId
<1>3. Owed(tabs, pending, asker)'
  BY DEF Shrinks, Owed
<1> QED BY <1>1, <1>2, <1>3 DEF IInv

(* A request: what was pending stays owed, and the entry it adds is owed   *)
(* to the generation whose message it is.                                  *)
LEMMA Request_IInv ==
  ASSUME IInv, TypeOK', running, next_request_id < RequestBound,
         NEW t \in TabId, NEW e \in Epoch, Current(t, e), TabRequest(t, e),
         UNCHANGED <<running, next_tab_id>>
  PROVE  IInv'
<1>0. /\ TypeOK /\ IdsFresh /\ Owed(tabs, pending, asker) /\ CeilingHolds
      /\ FreshId \in RequestId /\ tabs[t] \in Tab
  BY BrokerAssumption
  DEF IInv, TypeOK, FreshId, RequestId, Current, Live, TabOrNone
<1>1. CASE AnswerInline(t)
  <2>1. Shrinks(tabs, pending)
    BY <1>0, <1>1, SendToTabShrinks DEF AnswerInline, TypeOK
  <2> QED BY <1>1, <2>1, ShrinkStep DEF AnswerInline, ledger
<1>2. CASE AnswerUnavailable(t, e)
  <2>1. Shrinks(tabs, pending)
    <3>1. PICK sent \in BOOLEAN : SendToTab(tabs, pending, t, sent)
      BY <1>2 DEF AnswerUnavailable
    <3> QED BY <1>0, <3>1, SendToTabShrinks DEF TypeOK
  <2>2. CeilingHolds'
    BY <1>0, <2>1, CeilingShrinks DEF Shrinks
  <2>3. IdsFresh'
    BY <1>0, <1>2, <2>1 DEF AnswerUnavailable, IdsFresh, Shrinks, TypeOK, RequestId
  <2>4. \A k \in Kind : pending'[k][FreshId] = None
    BY <1>0, <2>1 DEF IdsFresh, Shrinks, FreshId, TypeOK
  <2>5. \A id \in RequestId : id # FreshId => asker'[id] = asker[id]
    BY <1>0, <1>2 DEF AnswerUnavailable, TypeOK
  <2>6. Owed(tabs, pending, asker)'
    BY <2>1, <2>4, <2>5 DEF Owed, Shrinks, RetainedMaps
  <2> QED BY <2>2, <2>3, <2>6 DEF IInv
<1>3. ASSUME NEW k \in Kind, HandOver(k, t, e) PROVE IInv'
  <2>1. Occupy(tabs[t], k) \in Tab /\ Occupy(tabs[t], k).epoch = tabs[t].epoch
    BY <1>0 DEF Occupy, Tab
  <2>2. /\ \A u \in TabId : tabs'[u] # None => tabs[u] # None
        /\ \A u \in TabId : tabs[u] # None => tabs'[u] # None
        /\ \A u \in TabId : tabs[u] # None => tabs'[u].epoch = tabs[u].epoch
    <3>1. \A u \in TabId : tabs'[u] = IF u = t THEN Occupy(tabs[t], k) ELSE tabs[u]
      BY <1>0, <1>3 DEF HandOver, TypeOK
    <3>2. tabs[t] # None /\ Occupy(tabs[t], k) # None
      BY <1>0, <2>1, BrokerAssumption
    <3> QED BY <2>1, <3>1, <3>2
  <2>3. CeilingHolds'
    BY <1>0, <2>2, CeilingShrinks
  <2>4. IdsFresh'
    <3>1. \A u \in TabId : u >= next_tab_id' => tabs'[u] = None
      BY <1>0, <2>2 DEF IdsFresh
    <3>2. \A j \in Kind, id \in RequestId : id # FreshId => pending'[j][id] = pending[j][id]
      BY <1>0, <1>3 DEF HandOver, TypeOK
    <3>3. \A id \in RequestId : id >= next_request_id' => id # FreshId /\ id >= next_request_id
      BY <1>0, <1>3 DEF HandOver, TypeOK, RequestId, FreshId
    <3> QED BY <1>0, <3>1, <3>2, <3>3 DEF IdsFresh
  <2>5. ASSUME NEW j \in RetainedMaps, NEW id \in RequestId, pending'[j][id] # None
        PROVE  tabs'[pending'[j][id]] # None /\ tabs'[pending'[j][id]].epoch = asker'[id]
    <3>1. j \in Kind
      BY DEF RetainedMaps
    <3>2. CASE id = FreshId
      <4>1. pending[j][id] = None
        BY <1>0, <3>1, <3>2 DEF IdsFresh, FreshId, TypeOK
      <4>2. pending'[j][id] = t /\ asker'[id] = e
        BY <1>0, <1>3, <2>5, <3>1, <3>2, <4>1 DEF HandOver, TypeOK
      <4>3. tabs[t] # None /\ tabs[t].epoch = e
        BY DEF Current, Live
      <4> QED BY <2>2, <4>2, <4>3
    <3>3. CASE id # FreshId
      <4>1. pending'[j][id] = pending[j][id] /\ asker'[id] = asker[id]
        BY <1>0, <1>3, <3>1, <3>3 DEF HandOver, TypeOK
      <4>2. pending[j][id] \in TabId
        BY <1>0, <2>5, <3>1, <4>1 DEF TypeOK
      <4>3. tabs[pending[j][id]] # None /\ tabs[pending[j][id]].epoch = asker[id]
        BY <1>0, <2>5, <4>1 DEF Owed
      <4> QED BY <2>2, <4>1, <4>2, <4>3
    <3> QED BY <3>2, <3>3
  <2> QED BY <2>3, <2>4, <2>5 DEF IInv, Owed
<1>4. AnswerInline(t) \/ \E k \in Kind : AnswerUnavailable(t, e) \/ HandOver(k, t, e)
  BY DEF TabRequest, NeedFetch, NeedSubresource, NeedDecode, NeedStorage, NeedFont,
         NeedCookies, Broker, Kind
<1> QED BY <1>1, <1>2, <1>3, <1>4

(* An open or a swap puts a fresh generation behind t: nothing was pending *)
(* for t in the retained maps, so nothing is owed to it.                   *)
LEMMA InstallOwed ==
  ASSUME TypeOK, Owed(tabs, pending, asker), NEW t \in TabId, NEW s,
         \A k \in RetainedMaps, id \in RequestId : pending'[k][id] # t,
         \A k \in RetainedMaps, id \in RequestId :
            pending'[k][id] # None => pending'[k][id] = pending[k][id],
         Install(t, s, tabs), UNCHANGED asker
  PROVE  Owed(tabs', pending', asker')
<1>1. ASSUME NEW k \in RetainedMaps, NEW id \in RequestId, pending'[k][id] # None
      PROVE  /\ tabs'[pending'[k][id]] # None
             /\ tabs'[pending'[k][id]].epoch = asker'[id]
  <2>1. pending'[k][id] = pending[k][id] /\ pending'[k][id] # t
    BY <1>1
  <2>2. pending[k][id] \in TabId
    BY <1>1, <2>1 DEF TypeOK, RetainedMaps
  <2>3. tabs'[pending[k][id]] = tabs[pending[k][id]]
    BY <2>1, <2>2 DEF Install, TypeOK
  <2> QED BY <1>1, <2>1, <2>3 DEF Owed
<1> QED BY <1>1 DEF Owed

LEMMA Step_IInv == IInv /\ [Next]_vars => IInv'
<1> SUFFICES ASSUME IInv, [Next]_vars PROVE IInv'
  OBVIOUS
<1>0. TypeOK /\ TypeOK' /\ IdsFresh /\ CeilingHolds
  BY TypeStep DEF IInv
<1>1. ASSUME NEW s \in Site, OpenTab(s) PROVE IInv'
  <2>1. CASE UNCHANGED vars
    BY <1>0, <2>1 DEF vars, ledger, IInv, IdsFresh, Owed, CeilingHolds, LiveTabs, Live
  <2> DEFINE t == next_tab_id
  <2>2. CASE ~UNCHANGED vars
    <3>1. /\ ~AtCeiling /\ t \in TabId /\ next_tab_id' = t + 1 /\ running
          /\ UNCHANGED <<running, pending, next_request_id, asker>>
          /\ tabs' = tabs \/ Install(t, s, tabs)
      <4>1. running /\ t < TabBound
        BY <1>1 DEF OpenTab
      <4>2. t \in TabId
        BY <1>0, <4>1, BrokerAssumption DEF TypeOK, TabId
      <4>3. /\ ~AtCeiling /\ next_tab_id' = t + 1
            /\ UNCHANGED <<running, pending, next_request_id, ledger>>
            /\ tabs' = tabs \/ Install(t, s, tabs)
        BY <1>1, <2>2 DEF OpenTab
      <4> QED BY <4>1, <4>2, <4>3 DEF ledger
    <3>2. tabs[t] = None
      BY <1>0, <3>1 DEF IdsFresh, TypeOK
    <3>3. \A u \in TabId : u # t => tabs'[u] = tabs[u]
      BY <1>0, <3>1 DEF Install, TypeOK
    <3>4. CeilingHolds'
      <4>1. LiveTabs' \in SUBSET (LiveTabs \cup {t})
        BY <3>3 DEF LiveTabs, Live
      <4>2. /\ IsFiniteSet(LiveTabs \cup {t})
            /\ Cardinality(LiveTabs \cup {t}) <= Cardinality(LiveTabs) + 1
        <5>1. Cardinality(LiveTabs) \in Nat
          BY TabsFinite, FS_CardinalityType
        <5> QED BY <5>1, TabsFinite, FS_AddElement, SMTT(20)
      <4>3. /\ Cardinality(LiveTabs') <= Cardinality(LiveTabs \cup {t})
            /\ Cardinality(LiveTabs) \in Nat /\ Cardinality(LiveTabs') \in Nat
            /\ Cardinality(LiveTabs \cup {t}) \in Nat
        BY <4>1, <4>2, TabsFinite, FS_Subset, FS_CardinalityType
      <4> QED BY <3>1, <4>2, <4>3, BrokerAssumption DEF CeilingHolds, AtCeiling
    <3>5. IdsFresh'
      <4>1. \A u \in TabId : u >= t + 1 => u # t /\ u >= t
        BY <1>0 DEF TypeOK, TabId
      <4> QED BY <1>0, <3>1, <3>3, <4>1 DEF IdsFresh
    <3>6. \A k \in RetainedMaps, id \in RequestId : pending[k][id] # t
      <4>1. t # None
        BY <1>0, BrokerAssumption DEF TypeOK
      <4> QED BY <3>1, <3>2, <4>1 DEF IInv, Owed
    <3>7. Owed(tabs, pending, asker)'
      <4>1. CASE tabs' = tabs
        BY <3>1, <4>1 DEF IInv, Owed
      <4>2. CASE Install(t, s, tabs)
        BY <1>0, <3>1, <3>6, <4>2, InstallOwed DEF IInv
      <4> QED BY <3>1, <4>1, <4>2
    <3> QED BY <1>0, <3>4, <3>5, <3>7 DEF IInv
  <2> QED BY <2>1, <2>2
<1>2. ASSUME NEW s \in Site, CrashAges(s) PROVE IInv'
  BY <1>0, <1>2 DEF CrashAges, ledger, IInv, IdsFresh, Owed, CeilingHolds, LiveTabs, Live
<1>3. ASSUME NEW t \in TabId, CloseTab(t) PROVE IInv'
  <2>1. /\ \A u \in TabId : tabs'[u] # None => tabs[u] # None
        /\ \A u \in TabId : u \notin {t} => tabs'[u] = tabs[u]
    BY <1>0, <1>3 DEF CloseTab, Removed, TypeOK
  <2>2. Owed(tabs', pending', asker)
    <3>1. /\ Owed(tabs, pending, asker) /\ pending' = Purge(pending, {t})
          /\ pending \in [Kind -> [RequestId -> TabId \cup {None}]]
      BY <1>0, <1>3 DEF CloseTab, IInv, TypeOK
    <3> QED BY <2>1, <3>1, PurgeOwed
  <2>3. \A k \in Kind, id \in RequestId : pending[k][id] = None => pending'[k][id] = None
    BY <1>3 DEF CloseTab, Purge
  <2>4. Shrinks(tabs, pending)
    BY <2>1, <2>2, <2>3 DEF Shrinks
  <2> QED BY <1>0, <1>3, <2>4, ShrinkStep DEF CloseTab, ledger
<1>4. ASSUME NEW t \in TabId, NEW o \in Origin, Navigate(t, o) PROVE IInv'
  <2>1. CASE UNCHANGED vars
    BY <1>0, <2>1 DEF vars, ledger, IInv, IdsFresh, Owed, CeilingHolds, LiveTabs, Live
  <2>2. CASE ~UNCHANGED vars
    <3> DEFINE s == <<tabs[t].site[1], o>>
    <3>1. /\ running /\ tabs[t] # None
          /\ pending' = Purge(pending, {t})
          /\ Install(t, s, tabs) \/ tabs' = Removed(t)
          /\ UNCHANGED <<running, next_tab_id, next_request_id, asker>>
      BY <1>4, <2>2 DEF Navigate, SwapRenderer, ledger, Live
    <3>2. /\ \A u \in TabId : tabs'[u] # None => tabs[u] # None
          /\ \A u \in TabId : u \notin {t} => tabs'[u] = tabs[u]
      BY <1>0, <3>1 DEF Install, Removed, TypeOK
    <3>3. \A k \in Kind, id \in RequestId : pending[k][id] = None => pending'[k][id] = None
      BY <3>1 DEF Purge
    <3>4. Owed(tabs', pending', asker)
      <4>1. CASE tabs' = Removed(t)
        <5>1. /\ Owed(tabs, pending, asker)
              /\ pending \in [Kind -> [RequestId -> TabId \cup {None}]]
          BY <1>0, <3>1 DEF IInv, TypeOK
        <5> QED BY <3>1, <3>2, <5>1, PurgeOwed
      <4>2. CASE Install(t, s, tabs)
        <5>1. t # None
          BY BrokerAssumption DEF TabId
        <5>2. \A k \in RetainedMaps, id \in RequestId :
                 /\ pending'[k][id] # t
                 /\ pending'[k][id] # None => pending'[k][id] = pending[k][id]
          BY <3>1, <5>1 DEF Purge, RetainedMaps
        <5> QED BY <1>0, <3>1, <4>2, <5>2, InstallOwed DEF IInv
      <4> QED BY <3>1, <4>1, <4>2
    <3>5. Shrinks(tabs, pending)
      BY <3>2, <3>3, <3>4 DEF Shrinks
    <3> QED BY <1>0, <3>1, <3>5, ShrinkStep
  <2> QED BY <2>1, <2>2
<1>5. ASSUME NEW t \in TabId, NEW e \in Epoch, FromTab(t, e) PROVE IInv'
  <2>1. CASE Current(t, e)
    BY <1>0, <1>5, <2>1, Request_IInv DEF FromTab
  <2>2. CASE ~Current(t, e)
    BY <1>0, <1>5, <2>2
    DEF FromTab, ledger, IInv, IdsFresh, Owed, CeilingHolds, LiveTabs, Live
  <2> QED BY <2>1, <2>2
<1>6. ASSUME NEW t \in TabId, NEW e \in Epoch, TabGone(t, e) PROVE IInv'
  <2>1. CASE Current(t, e)
    <3>1. DropCrashed(tabs, pending, {t})
      BY <1>6, <2>1 DEF TabGone
    <3>2. Shrinks(tabs, pending)
      BY <1>0, <1>6, <3>1, DropCrashedShrinks DEF TabGone, IInv, TypeOK
    <3> QED BY <1>0, <1>6, <3>2, ShrinkStep DEF TabGone, ledger
  <2>2. CASE ~Current(t, e)
    BY <1>0, <1>6, <2>2
    DEF TabGone, ledger, IInv, IdsFresh, Owed, CeilingHolds, LiveTabs, Live
  <2> QED BY <2>1, <2>2
<1>7. ASSUME NEW k \in Kind, NEW j \in Kind, NEW id \in RequestId,
             Answered(k, id), Settle(j, id)
      PROVE  IInv'
  BY <1>0, <1>7, SettleShrinks, ShrinkStep DEF Answered, IInv
<1>8. ASSUME NEW id \in RequestId, NetStream(id) PROVE IInv'
  <2>1. PICK k \in {"fetch", "subresource"} : Answered(k, id)
    BY <1>8 DEF NetStream, NetAnswered
  <2>2. CASE \E j \in Kind : Settle(j, id)
    BY <1>7, <2>1, <2>2 DEF Kind
  <2>3. CASE ~\E j \in Kind : Settle(j, id)
    <3> DEFINE t == pending["subresource"][id]
    <3>1. /\ tabs[t] # None /\ t # None
          /\ pending' = [pending EXCEPT !["subresource"][id] = None]
          /\ tabs' = [tabs EXCEPT ![t] = Vacate(@, "subresource")]
      BY <1>8, <2>3 DEF NetStream, Kind, Live
    <3>2. t \in TabId /\ tabs[t] \in Tab
      BY <1>0, <3>1 DEF TypeOK, TabOrNone, Kind
    <3>3. /\ Vacate(tabs[t], "subresource") # None
          /\ Vacate(tabs[t], "subresource").epoch = tabs[t].epoch
      BY <3>2, SlotTypes, BrokerAssumption DEF Vacate, Tab
    <3>4. \A u \in TabId : tabs'[u] = IF u = t THEN Vacate(tabs[t], "subresource") ELSE tabs[u]
      BY <1>0, <3>1 DEF TypeOK
    <3>5. /\ \A u \in TabId : tabs'[u] # None => tabs[u] # None
          /\ \A u \in TabId : tabs[u] # None => tabs'[u] # None
          /\ \A u \in TabId : tabs[u] # None => tabs'[u].epoch = tabs[u].epoch
      BY <3>1, <3>3, <3>4
    <3>6. \A i \in Kind, r \in RequestId :
             pending'[i][r] \in {None, pending[i][r]}
      BY <1>0, <3>1 DEF TypeOK
    <3>7. Owed(tabs', pending', asker)
      <4>1. ASSUME NEW i \in RetainedMaps, NEW r \in RequestId, pending'[i][r] # None
            PROVE  tabs'[pending'[i][r]] # None /\ tabs'[pending'[i][r]].epoch = asker[r]
        <5>1. pending'[i][r] = pending[i][r] /\ pending[i][r] \in TabId
          BY <1>0, <3>6, <4>1 DEF TypeOK, RetainedMaps
        <5>2. tabs[pending[i][r]] # None /\ tabs[pending[i][r]].epoch = asker[r]
          BY <2>1, <4>1, <5>1 DEF IInv, Owed, Answered
        <5> QED BY <3>5, <5>1, <5>2
      <4> QED BY <4>1 DEF Owed
    <3>8. Shrinks(tabs, pending)
      BY <3>5, <3>6, <3>7 DEF Shrinks
    <3> QED BY <1>0, <2>1, <3>8, ShrinkStep DEF Answered
  <2> QED BY <2>2, <2>3
<1>9. ASSUME NEW id \in RequestId,
             \/ NetReply(id) \/ DecodeReply(id) \/ StorageReply(id)
             \/ FontReply(id) \/ CookieVisible(id)
      PROVE  IInv'
  <2>1. \E k, j \in Kind : Answered(k, id) /\ Settle(j, id)
    BY <1>9 DEF NetReply, NetAnswered, DecodeReply, StorageReply, FontReply,
                CookieVisible, Kind
  <2> QED BY <1>7, <2>1
<1>10. ASSUME NEW k \in {"storage", "font"}, ServiceGone(k) PROVE IInv'
  <2> DEFINE p == [pending EXCEPT ![k] = [id \in RequestId |-> None]]
  <2>1. PICK gone \in SUBSET TabId : DropCrashed(tabs, p, gone)
    BY <1>10 DEF ServiceGone, FailPendingFor, LiveTabs
  <2>2. /\ p \in [Kind -> [RequestId -> TabId \cup {None}]]
        /\ \A j \in Kind, id \in RequestId : p[j][id] \in {None, pending[j][id]}
    BY <1>0 DEF TypeOK
  <2> HIDE DEF p
  <2>3. Owed(tabs, p, asker)
    <3>1. ASSUME NEW j \in RetainedMaps, NEW id \in RequestId, p[j][id] # None
          PROVE  tabs[p[j][id]] # None /\ tabs[p[j][id]].epoch = asker[id]
      <4>1. p[j][id] = pending[j][id]
        BY <2>2, <3>1 DEF RetainedMaps
      <4> QED BY <1>10, <3>1, <4>1 DEF IInv, Owed, ServiceGone
    <3> QED BY <3>1 DEF Owed
  <2>4. Shrinks(tabs, p)
    BY <1>0, <2>1, <2>2, <2>3, DropCrashedShrinks DEF TypeOK
  <2>5. Shrinks(tabs, pending)
    BY <2>2, <2>4 DEF Shrinks
  <2> QED BY <1>0, <1>10, <2>5, ShrinkStep DEF ServiceGone
<1>11. CASE Shutdown
  <2>1. \A t \in TabId : tabs'[t] = None
    BY <1>11 DEF Shutdown
  <2>2. CeilingHolds'
    BY <1>0, <2>1, CeilingShrinks
  <2> QED BY <1>0, <1>11, <2>1, <2>2 DEF Shutdown, ledger, IInv, IdsFresh
<1>12. CASE UNCHANGED vars
  BY <1>0, <1>12 DEF vars, ledger, IInv, IdsFresh, Owed, CeilingHolds, LiveTabs, Live
<1> QED BY <1>1, <1>2, <1>3, <1>4, <1>5, <1>6, <1>8, <1>9, <1>10, <1>11, <1>12 DEF Next

LEMMA Reachable == Spec => []IInv
<1> QED BY Init_IInv, Step_IInv, PTL DEF Spec

-----------------------------------------------------------------------------
(* What follows from it.                                                   *)

(* Whatever the schedule, a reply can only match a request of the          *)
(* generation that now stands behind the tab (engine.rs:1071-1073).        *)
THEOREM PendingIsOwed == Spec => []PendingBelongsToCurrent
<1>1. IInv => PendingBelongsToCurrent
  BY DEF IInv, PendingBelongsToCurrent, Owed, Current, Live
<1> QED BY <1>1, Reachable, PTL

(* The number of tabs never exceeds MAX_RENDERERS (engine.rs:877).         *)
THEOREM CeilingIsKept == Spec => []CeilingHolds
<1>1. IInv => CeilingHolds
  BY DEF IInv
<1> QED BY <1>1, Reachable, PTL

(* The step of AnswersReachAsker.                                          *)
AnswerReachesAsker ==
  \A id \in RequestId :
    (receiver'[id] # receiver[id] /\ pending["cookies"][id] = None)
      => receiver'[id] = asker'[id]

LEMMA SettleReachesAsker ==
  ASSUME IInv, running, NEW k \in Kind, NEW id \in RequestId, Settle(k, id), UNCHANGED asker
  PROVE  AnswerReachesAsker
<1>0. TypeOK /\ Owed(tabs, pending, asker)
  BY DEF IInv
<1> DEFINE t == pending[k][id]
<1>1. CASE t = None \/ ~Live(t)
  <2>1. UNCHANGED receiver
    BY <1>1 DEF Settle
  <2> QED BY <2>1 DEF AnswerReachesAsker
<1>2. CASE t # None /\ Live(t)
  <2>1. receiver' = [receiver EXCEPT ![id] = tabs[t].epoch]
    BY <1>2 DEF Settle
  <2>2. \A i \in RequestId : i # id => receiver'[i] = receiver[i]
    BY <1>0, <2>1 DEF TypeOK
  <2>3. CASE k = "cookies"
    BY <1>2, <2>2, <2>3 DEF AnswerReachesAsker
  <2>4. CASE k # "cookies"
    <3>1. tabs[t].epoch = asker[id]
      BY <1>0, <1>2, <2>4 DEF Owed, RetainedMaps
    <3>2. receiver'[id] = asker'[id]
      BY <1>0, <2>1, <3>1 DEF TypeOK
    <3> QED BY <2>2, <3>2 DEF AnswerReachesAsker
  <2> QED BY <2>3, <2>4
<1> QED BY <1>1, <1>2

LEMMA AnswerStep == IInv /\ [Next]_vars => AnswerReachesAsker
<1> SUFFICES ASSUME IInv, [Next]_vars PROVE AnswerReachesAsker
  OBVIOUS
<1>0. TypeOK /\ (running => Owed(tabs, pending, asker))
  BY DEF IInv
<1>1. CASE UNCHANGED receiver
  BY <1>1 DEF AnswerReachesAsker
<1>2. ASSUME NEW t \in TabId, NEW e \in Epoch, FromTab(t, e) PROVE AnswerReachesAsker
  <2>1. UNCHANGED receiver \/ (Current(t, e) /\ AnswerUnavailable(t, e))
    BY <1>2 DEF FromTab, TabRequest, NeedFetch, NeedSubresource, NeedDecode, NeedStorage,
                NeedFont, NeedCookies, Broker, HandOver, AnswerInline, ledger
  <2>2. CASE Current(t, e) /\ AnswerUnavailable(t, e)
    <3>1. /\ receiver' = [receiver EXCEPT ![FreshId] = tabs[t].epoch]
          /\ asker' = [asker EXCEPT ![FreshId] = e] /\ tabs[t].epoch = e
      BY <2>2 DEF AnswerUnavailable, Current
    <3> QED BY <1>0, <3>1 DEF TypeOK, AnswerReachesAsker
  <2> QED BY <1>1, <2>1, <2>2
<1>3. ASSUME NEW k \in Kind, NEW j \in Kind, NEW id \in RequestId,
             Answered(k, id), Settle(j, id)
      PROVE  AnswerReachesAsker
  BY <1>3, SettleReachesAsker DEF Answered
<1>4. ASSUME NEW id \in RequestId,
             \/ NetReply(id) \/ DecodeReply(id) \/ StorageReply(id)
             \/ FontReply(id) \/ CookieVisible(id)
      PROVE  AnswerReachesAsker
  <2>1. \E k, j \in Kind : Answered(k, id) /\ Settle(j, id)
    BY <1>4 DEF NetReply, NetAnswered, DecodeReply, StorageReply, FontReply,
                CookieVisible, Kind
  <2> QED BY <1>3, <2>1
<1>5. ASSUME NEW id \in RequestId, NetStream(id) PROVE AnswerReachesAsker
  <2> DEFINE t == pending["subresource"][id]
  <2>1. PICK k \in {"fetch", "subresource"} : Answered(k, id)
    BY <1>5 DEF NetStream, NetAnswered
  <2>2. CASE \E j \in Kind : Settle(j, id)
    BY <1>3, <2>1, <2>2 DEF Kind
  <2>3. CASE ~\E j \in Kind : Settle(j, id)
    <3>1. t # None /\ running /\ receiver' = [receiver EXCEPT ![id] = tabs[t].epoch]
      BY <1>5, <2>1, <2>3 DEF NetStream, Kind, Answered
    <3>2. tabs[t].epoch = asker[id] /\ asker' = asker
      BY <1>0, <2>1, <3>1 DEF Owed, RetainedMaps, Kind, Answered
    <3> QED BY <1>0, <3>1, <3>2 DEF TypeOK, AnswerReachesAsker
  <2> QED BY <2>2, <2>3
<1>6. ASSUME NEW k \in {"storage", "font"}, ServiceGone(k) PROVE AnswerReachesAsker
  <2>1. PICK heard \in SUBSET {id \in RequestId : pending[k][id] # None} :
          receiver' = [id \in RequestId |->
            IF id \in heard /\ Live(pending[k][id])
            THEN tabs[pending[k][id]].epoch ELSE receiver[id]]
    BY <1>6 DEF ServiceGone, FailPendingFor
  <2>2. ASSUME NEW id \in RequestId, receiver'[id] # receiver[id]
        PROVE  receiver'[id] = asker'[id]
    <3>1. pending[k][id] # None /\ receiver'[id] = tabs[pending[k][id]].epoch
      BY <2>1, <2>2
    <3>2. tabs[pending[k][id]].epoch = asker[id] /\ asker' = asker
      BY <1>0, <1>6, <3>1 DEF Owed, RetainedMaps, Kind, ServiceGone
    <3> QED BY <3>1, <3>2
  <2> QED BY <2>2 DEF AnswerReachesAsker
<1>7. ASSUME \/ \E s \in Site : OpenTab(s) \/ CrashAges(s)
             \/ \E t \in TabId : CloseTab(t) \/ \E o \in Origin : Navigate(t, o)
             \/ \E t \in TabId, e \in Epoch : TabGone(t, e)
             \/ Shutdown \/ UNCHANGED vars
      PROVE  UNCHANGED receiver
  BY <1>7 DEF OpenTab, CrashAges, CloseTab, Navigate, SwapRenderer, TabGone, Shutdown,
              ledger, vars
<1> QED BY <1>1, <1>2, <1>4, <1>5, <1>6, <1>7 DEF Next

(* No answer outside pending_cookies is ever delivered to a generation     *)
(* that did not ask for it.                                                *)
THEOREM AnswersAreOwed == Spec => AnswersReachAsker
<1>1. IInv /\ [Next]_vars => [AnswerReachesAsker]_vars
  BY AnswerStep
<1>2. Spec => [][AnswerReachesAsker]_vars
  BY <1>1, Reachable, PTL DEF Spec
<1> QED BY <1>2 DEF AnswersReachAsker, AnswerReachesAsker

-----------------------------------------------------------------------------
(* The in-flight counters count the pending entries.                       *)

(* Held of the pending maps p that a handler has built so far.             *)
HeldIn(p, k, t) == {id \in RequestId : p[k][id] = t}

CountsHeld(tab, p, t) ==
  /\ tab.inflight_fetches =
       Cardinality(HeldIn(p, "fetch", t)) + Cardinality(HeldIn(p, "subresource", t))
  /\ tab.inflight_decodes = Cardinality(HeldIn(p, "decode", t))

(* SlotsMatchPending of the tab records ts and the pending maps p.         *)
Slots(ts, p) == \A t \in TabId : ts[t] # None => CountsHeld(ts[t], p, t)

Counted == {"fetch", "subresource", "decode"}

LEMMA NoneIsNoTab == None \notin TabId
BY BrokerAssumption DEF TabId

LEMMA HeldFinite ==
  ASSUME NEW p, NEW k, NEW t
  PROVE  IsFiniteSet(HeldIn(p, k, t)) /\ Cardinality(HeldIn(p, k, t)) \in Nat
<1>1. IsFiniteSet(RequestId)
  BY FS_Interval, BrokerAssumption DEF RequestId
<1>2. HeldIn(p, k, t) \in SUBSET RequestId
  BY DEF HeldIn
<1> QED BY <1>1, <1>2, FS_Subset, FS_CardinalityType

(* Tabs whose record and counted entries are the same keep their count.    *)
LEMMA SlotsCopied ==
  ASSUME NEW ts, NEW p, NEW us, NEW q, Slots(ts, p),
         \A t \in TabId : us[t] # None =>
            us[t] = ts[t] /\ \A k \in Counted : HeldIn(q, k, t) = HeldIn(p, k, t)
  PROVE  Slots(us, q)
BY DEF Slots, CountsHeld, Counted

LEMMA PurgeSlots ==
  ASSUME NEW ts, NEW us, NEW p \in [Kind -> [RequestId -> TabId \cup {None}]], NEW gone,
         Slots(ts, p),
         \A t \in TabId : us[t] # None => t \notin gone /\ us[t] = ts[t]
  PROVE  Slots(us, Purge(p, gone))
<1>1. ASSUME NEW t \in TabId, us[t] # None, NEW k \in Counted
      PROVE  HeldIn(Purge(p, gone), k, t) = HeldIn(p, k, t)
  BY <1>1, NoneIsNoTab DEF HeldIn, Purge, Counted, Kind, RetainedMaps
<1> HIDE DEF Purge
<1> QED BY <1>1, SlotsCopied

LEMMA SendToTabSlots ==
  ASSUME NEW ts \in [TabId -> TabOrNone],
         NEW p \in [Kind -> [RequestId -> TabId \cup {None}]],
         NEW t \in TabId, NEW sent \in BOOLEAN,
         Slots(ts, p), SendToTab(ts, p, t, sent)
  PROVE  Slots(tabs', pending')
<1>1. CASE sent
  BY <1>1 DEF SendToTab
<1>2. CASE ~sent
  <2>1. /\ pending' = Purge(p, {t})
        /\ \A u \in TabId : tabs'[u] # None => u \notin {t} /\ tabs'[u] = ts[u]
    BY <1>2 DEF SendToTab, DropCrashed
  <2> QED BY <2>1, PurgeSlots
<1> QED BY <1>1, <1>2

(* A tab that holds nothing is counted right with empty counters.          *)
LEMMA InstallSlots ==
  ASSUME TypeOK, Slots(tabs, pending), NEW t \in TabId, NEW s, Install(t, s, tabs),
         \A k \in Counted, id \in RequestId :
            pending'[k][id] # t /\ \A u \in TabId \ {t} : pending'[k][id] = u <=> pending[k][id] = u
  PROVE  Slots(tabs', pending')
<1>1. ASSUME NEW u \in TabId, u # t, tabs'[u] # None
      PROVE  CountsHeld(tabs'[u], pending', u)
  <2>1. tabs'[u] = tabs[u]
    BY <1>1 DEF Install, TypeOK
  <2>2. \A k \in Counted : HeldIn(pending', k, u) = HeldIn(pending, k, u)
    BY <1>1 DEF HeldIn
  <2> QED BY <1>1, <2>1, <2>2 DEF Slots, CountsHeld, Counted
<1>2. CountsHeld(tabs'[t], pending', t)
  <2>1. \A k \in Counted : HeldIn(pending', k, t) = {}
    BY DEF HeldIn
  <2>2. tabs'[t].inflight_fetches = 0 /\ tabs'[t].inflight_decodes = 0
    BY DEF Install, TypeOK
  <2> QED BY <2>1, <2>2, FS_EmptySet DEF CountsHeld, Counted
<1> QED BY <1>1, <1>2 DEF Slots

(* Giving back the slot of an entry that was held: the counter was not 0.  *)
LEMMA VacateSlots ==
  ASSUME TypeOK, Slots(tabs, pending), NEW k \in Kind, NEW id \in RequestId,
         NEW t \in TabId, pending[k][id] = t, tabs[t] # None
  PROVE  Slots([tabs EXCEPT ![t] = Vacate(@, k)], [pending EXCEPT ![k][id] = None])
<1> DEFINE ts == [tabs EXCEPT ![t] = Vacate(@, k)]
           p == [pending EXCEPT ![k][id] = None]
<1>1. \A j \in Kind, u \in TabId :
        HeldIn(p, j, u) = IF j = k /\ u = t THEN HeldIn(pending, k, t) \ {id}
                                            ELSE HeldIn(pending, j, u)
  BY NoneIsNoTab DEF HeldIn, TypeOK
<1>2. \A u \in TabId : u # t => ts[u] = tabs[u]
  BY DEF TypeOK
<1>3. ts[t] = Vacate(tabs[t], k) /\ tabs[t] \in Tab
  BY DEF TypeOK, TabOrNone
<1>4. id \in HeldIn(pending, k, t)
  BY DEF HeldIn
<1>5. /\ Cardinality(HeldIn(p, k, t)) = Cardinality(HeldIn(pending, k, t)) - 1
      /\ Cardinality(HeldIn(pending, k, t)) \in Nat
      /\ Cardinality(HeldIn(p, k, t)) \in Nat
  <2>1. HeldIn(p, k, t) = HeldIn(pending, k, t) \ {id}
    BY <1>1
  <2>2. IsFiniteSet(HeldIn(pending, k, t)) /\ Cardinality(HeldIn(pending, k, t)) \in Nat
    BY HeldFinite
  <2>3. Cardinality(HeldIn(p, k, t)) \in Nat
    BY HeldFinite
  <2> HIDE DEF p
  <2> QED BY <1>4, <2>1, <2>2, <2>3, FS_RemoveElement, ZenonT(30)
<1>6. /\ Cardinality(HeldIn(pending, "fetch", t)) \in Nat
      /\ Cardinality(HeldIn(pending, "subresource", t)) \in Nat
      /\ Cardinality(HeldIn(pending, "decode", t)) \in Nat
  BY HeldFinite
<1>7. \A j \in Kind : j # k => HeldIn(p, j, t) = HeldIn(pending, j, t)
  BY <1>1
<1>8. CountsHeld(tabs[t], pending, t)
  BY DEF Slots
<1> HIDE DEF p, ts
<1>9. CountsHeld(ts[t], p, t)
  <2>1. CASE k = "fetch"
    BY <1>3, <1>5, <1>6, <1>7, <1>8, <2>1 DEF CountsHeld, Vacate, SaturatingDec, Tab, Kind
  <2>2. CASE k = "subresource"
    BY <1>3, <1>5, <1>6, <1>7, <1>8, <2>2 DEF CountsHeld, Vacate, SaturatingDec, Tab, Kind
  <2>3. CASE k = "decode"
    BY <1>3, <1>5, <1>6, <1>7, <1>8, <2>3 DEF CountsHeld, Vacate, SaturatingDec, Tab, Kind
  <2>4. CASE k \notin Counted
    BY <1>3, <1>7, <1>8, <2>4 DEF CountsHeld, Vacate, Counted, Kind
  <2> QED BY <2>1, <2>2, <2>3, <2>4 DEF Counted
<1>10. ASSUME NEW u \in TabId, u # t, ts[u] # None
       PROVE  CountsHeld(ts[u], p, u)
  <2>1. \A j \in Kind : HeldIn(p, j, u) = HeldIn(pending, j, u)
    BY <1>1, <1>10
  <2> QED BY <1>2, <1>10, <2>1 DEF Slots, CountsHeld, Kind
<1> QED BY <1>9, <1>10 DEF Slots, ts, p

(* Taking a slot for a fresh entry.                                        *)
LEMMA OccupySlots ==
  ASSUME TypeOK, Slots(tabs, pending), NEW k \in Kind, NEW id \in RequestId,
         NEW t \in TabId, tabs[t] # None, pending[k][id] = None
  PROVE  Slots([tabs EXCEPT ![t] = Occupy(@, k)], [pending EXCEPT ![k][id] = t])
<1> DEFINE ts == [tabs EXCEPT ![t] = Occupy(@, k)]
           p == [pending EXCEPT ![k][id] = t]
<1>1. \A j \in Kind, u \in TabId :
        HeldIn(p, j, u) = IF j = k /\ u = t THEN HeldIn(pending, k, t) \cup {id}
                                            ELSE HeldIn(pending, j, u)
  BY NoneIsNoTab DEF HeldIn, TypeOK
<1>2. \A u \in TabId : u # t => ts[u] = tabs[u]
  BY DEF TypeOK
<1>3. ts[t] = Occupy(tabs[t], k) /\ tabs[t] \in Tab
  BY DEF TypeOK, TabOrNone
<1>4. id \notin HeldIn(pending, k, t)
  BY NoneIsNoTab DEF HeldIn
<1>5. /\ Cardinality(HeldIn(p, k, t)) = Cardinality(HeldIn(pending, k, t)) + 1
      /\ Cardinality(HeldIn(pending, k, t)) \in Nat
  <2>1. HeldIn(p, k, t) = HeldIn(pending, k, t) \cup {id}
    BY <1>1
  <2>2. IsFiniteSet(HeldIn(pending, k, t)) /\ Cardinality(HeldIn(pending, k, t)) \in Nat
    BY HeldFinite
  <2> HIDE DEF p
  <2> QED BY <1>4, <2>1, <2>2, FS_AddElement
<1>6. /\ Cardinality(HeldIn(pending, "fetch", t)) \in Nat
      /\ Cardinality(HeldIn(pending, "subresource", t)) \in Nat
      /\ Cardinality(HeldIn(pending, "decode", t)) \in Nat
  BY HeldFinite
<1>7. \A j \in Kind : j # k => HeldIn(p, j, t) = HeldIn(pending, j, t)
  BY <1>1
<1>8. CountsHeld(tabs[t], pending, t)
  BY DEF Slots
<1> HIDE DEF p, ts
<1>9. CountsHeld(ts[t], p, t)
  <2>1. CASE k = "fetch"
    BY <1>3, <1>5, <1>6, <1>7, <1>8, <2>1 DEF CountsHeld, Occupy, Tab, Kind
  <2>2. CASE k = "subresource"
    BY <1>3, <1>5, <1>6, <1>7, <1>8, <2>2 DEF CountsHeld, Occupy, Tab, Kind
  <2>3. CASE k = "decode"
    BY <1>3, <1>5, <1>6, <1>7, <1>8, <2>3 DEF CountsHeld, Occupy, Tab, Kind
  <2>4. CASE k \notin Counted
    BY <1>3, <1>7, <1>8, <2>4 DEF CountsHeld, Occupy, Counted, Kind
  <2> QED BY <2>1, <2>2, <2>3, <2>4 DEF Counted
<1>10. ASSUME NEW u \in TabId, u # t, ts[u] # None
       PROVE  CountsHeld(ts[u], p, u)
  <2>1. \A j \in Kind : HeldIn(p, j, u) = HeldIn(pending, j, u)
    BY <1>1, <1>10
  <2> QED BY <1>2, <1>10, <2>1 DEF Slots, CountsHeld, Kind
<1> QED BY <1>9, <1>10 DEF Slots, ts, p

LEMMA SettleSlots ==
  ASSUME TypeOK, Slots(tabs, pending), NEW k \in Kind, NEW id \in RequestId, Settle(k, id)
  PROVE  Slots(tabs', pending')
<1> DEFINE t == pending[k][id]
           p == [pending EXCEPT ![k][id] = None]
           ts == [tabs EXCEPT ![t] = Vacate(@, k)]
<1>1. CASE t = None
  BY <1>1 DEF Settle
<1>2. p \in [Kind -> [RequestId -> TabId \cup {None}]]
  BY DEF TypeOK
<1>3. CASE t # None /\ ~Live(t)
  <2>1. pending' = p /\ tabs' = tabs /\ tabs[t] = None
    BY <1>3 DEF Settle, Live
  <2>2. \A j \in Kind, u \in TabId : u # t => HeldIn(p, j, u) = HeldIn(pending, j, u)
    BY NoneIsNoTab DEF HeldIn, TypeOK
  <2> HIDE DEF p
  <2> QED BY <2>1, <2>2, SlotsCopied DEF Counted, Kind
<1>4. CASE t # None /\ Live(t)
  <2>1. t \in TabId /\ tabs[t] \in Tab
    BY <1>4 DEF TypeOK, Live, TabOrNone
  <2>2. Vacate(tabs[t], k) \in Tab
    BY <2>1, SlotTypes
  <2>3. ts \in [TabId -> TabOrNone]
    BY <2>2 DEF TypeOK, TabOrNone
  <2>4. Slots(ts, p)
    BY <1>4, <2>1, VacateSlots DEF Live
  <2>5. PICK sent \in BOOLEAN : SendToTab(ts, p, t, sent)
    BY <1>4 DEF Settle
  <2> HIDE DEF ts, t, p
  <2> QED BY <1>2, <2>1, <2>3, <2>4, <2>5, SendToTabSlots
<1> QED BY <1>1, <1>3, <1>4

LEMMA SlotsStep == IInv /\ Slots(tabs, pending) /\ [Next]_vars => Slots(tabs', pending')
<1> SUFFICES ASSUME IInv, Slots(tabs, pending), [Next]_vars PROVE Slots(tabs', pending')
  OBVIOUS
<1>0. TypeOK /\ IdsFresh
  BY DEF IInv
<1>1. CASE UNCHANGED <<tabs, pending>>
  BY <1>1
<1>2. ASSUME NEW s \in Site, OpenTab(s) PROVE Slots(tabs', pending')
  <2>1. CASE ~UNCHANGED <<tabs, pending>>
    <3> DEFINE t == next_tab_id
    <3>1. running /\ t \in TabId /\ Install(t, s, tabs) /\ pending' = pending
      <4>1. running /\ t < TabBound /\ Install(t, s, tabs) /\ pending' = pending
        BY <1>2, <2>1 DEF OpenTab, vars
      <4> QED BY <1>0, <4>1, BrokerAssumption DEF TypeOK, TabId
    <3>2. tabs[t] = None
      BY <1>0, <3>1 DEF IdsFresh, TypeOK
    <3>3. \A k \in Counted, id \in RequestId : pending[k][id] # t
      BY <3>1, <3>2, NoneIsNoTab DEF IInv, Owed, Counted, RetainedMaps, Kind
    <3> HIDE DEF t
    <3> QED BY <1>0, <3>1, <3>3, InstallSlots
  <2> QED BY <1>1, <2>1
<1>3. ASSUME NEW t \in TabId, CloseTab(t) PROVE Slots(tabs', pending')
  <2>1. pending' = Purge(pending, {t}) /\ tabs' = [tabs EXCEPT ![t] = None]
    BY <1>3 DEF CloseTab, Removed
  <2>2. \A u \in TabId : tabs'[u] # None => u \notin {t} /\ tabs'[u] = tabs[u]
    BY <1>0, <2>1 DEF TypeOK
  <2> QED BY <1>0, <2>1, <2>2, PurgeSlots DEF TypeOK
<1>4. ASSUME NEW t \in TabId, NEW o \in Origin, Navigate(t, o) PROVE Slots(tabs', pending')
  <2>1. CASE ~UNCHANGED <<tabs, pending>>
    <3>1. /\ pending' = Purge(pending, {t})
          /\ (\E s : Install(t, s, tabs)) \/ tabs' = [tabs EXCEPT ![t] = None]
      BY <1>4, <2>1 DEF Navigate, SwapRenderer, Removed, vars
    <3>2. CASE tabs' = [tabs EXCEPT ![t] = None]
      <4>1. \A u \in TabId : tabs'[u] # None => u \notin {t} /\ tabs'[u] = tabs[u]
        BY <1>0, <3>2 DEF TypeOK
      <4> QED BY <1>0, <3>1, <4>1, PurgeSlots DEF TypeOK
    <3>3. CASE \E s : Install(t, s, tabs)
      <4>1. \A k \in Counted, id \in RequestId :
              /\ pending'[k][id] # t
              /\ \A u \in TabId \ {t} : pending'[k][id] = u <=> pending[k][id] = u
        BY <3>1, NoneIsNoTab DEF Purge, Counted, RetainedMaps, Kind
      <4> QED BY <1>0, <3>3, <4>1, InstallSlots
    <3> QED BY <3>1, <3>2, <3>3
  <2> QED BY <1>1, <2>1
<1>5. ASSUME NEW t \in TabId, NEW e \in Epoch, FromTab(t, e) PROVE Slots(tabs', pending')
  <2>1. CASE Current(t, e)
    <3>1. /\ tabs[t] # None /\ FreshId \in RequestId
          /\ \A k \in Kind : pending[k][FreshId] = None
      BY <1>0, <1>5, <2>1, BrokerAssumption
      DEF FromTab, Current, Live, IdsFresh, FreshId, TypeOK, RequestId
    <3>2. \/ \E sent \in BOOLEAN : SendToTab(tabs, pending, t, sent)
          \/ \E k \in Kind : HandOver(k, t, e)
      BY <1>5, <2>1 DEF FromTab, TabRequest, NeedFetch, NeedSubresource, NeedDecode,
         NeedStorage, NeedFont, NeedCookies, Broker, AnswerInline, AnswerUnavailable, Kind
    <3>3. ASSUME NEW k \in Kind, HandOver(k, t, e) PROVE Slots(tabs', pending')
      BY <1>0, <3>1, <3>3, OccupySlots DEF HandOver
    <3> QED BY <1>0, <3>2, <3>3, SendToTabSlots DEF TypeOK
  <2>2. CASE ~Current(t, e)
    BY <1>1, <1>5, <2>2 DEF FromTab
  <2> QED BY <2>1, <2>2
<1>6. ASSUME NEW t \in TabId, NEW e \in Epoch, TabGone(t, e) PROVE Slots(tabs', pending')
  <2>1. CASE Current(t, e)
    <3>1. SendToTab(tabs, pending, t, FALSE)
      BY <1>6, <2>1 DEF TabGone, SendToTab
    <3> QED BY <1>0, <3>1, SendToTabSlots DEF TypeOK
  <2>2. CASE ~Current(t, e)
    BY <1>1, <1>6, <2>2 DEF TabGone
  <2> QED BY <2>1, <2>2
<1>7. ASSUME NEW id \in RequestId, NetStream(id) PROVE Slots(tabs', pending')
  <2>1. CASE \E j \in Kind : Settle(j, id)
    BY <1>0, <2>1, SettleSlots
  <2>2. CASE ~\E j \in Kind : Settle(j, id)
    <3> DEFINE t == pending["subresource"][id]
    <3>1. /\ tabs[t] # None /\ t # None
          /\ pending' = [pending EXCEPT !["subresource"][id] = None]
          /\ tabs' = [tabs EXCEPT ![t] = Vacate(@, "subresource")]
      BY <1>7, <2>2 DEF NetStream, Kind, Live
    <3>2. t \in TabId
      BY <1>0, <3>1 DEF TypeOK, Kind
    <3> QED BY <1>0, <3>1, <3>2, VacateSlots DEF Kind
  <2> QED BY <2>1, <2>2
<1>8. ASSUME NEW id \in RequestId,
             \/ NetReply(id) \/ DecodeReply(id) \/ StorageReply(id)
             \/ FontReply(id) \/ CookieVisible(id)
      PROVE  Slots(tabs', pending')
  <2>1. \E j \in Kind : Settle(j, id)
    BY <1>8 DEF NetReply, DecodeReply, StorageReply, FontReply, CookieVisible, Kind
  <2> QED BY <1>0, <2>1, SettleSlots
<1>9. ASSUME NEW k \in {"storage", "font"}, ServiceGone(k) PROVE Slots(tabs', pending')
  <2> DEFINE p == [pending EXCEPT ![k] = [id \in RequestId |-> None]]
  <2>1. PICK gone \in SUBSET TabId : DropCrashed(tabs, p, gone)
    BY <1>9 DEF ServiceGone, FailPendingFor, LiveTabs
  <2>2. /\ p \in [Kind -> [RequestId -> TabId \cup {None}]]
        /\ \A j \in Counted : p[j] = pending[j]
    BY <1>0 DEF TypeOK, Counted, Kind
  <2> HIDE DEF p
  <2>3. Slots(tabs, p)
    BY <2>2, SlotsCopied DEF HeldIn
  <2>4. \A u \in TabId : tabs'[u] # None => u \notin gone /\ tabs'[u] = tabs[u]
    BY <2>1 DEF DropCrashed
  <2>5. pending' = Purge(p, gone)
    BY <2>1 DEF DropCrashed
  <2> QED BY <2>2, <2>3, <2>4, <2>5, PurgeSlots
<1>10. CASE Shutdown
  BY <1>10 DEF Shutdown, Slots
<1>11. CASE UNCHANGED vars \/ \E s \in Site : CrashAges(s)
  BY <1>1, <1>11 DEF vars, CrashAges
<1> QED BY <1>2, <1>3, <1>4, <1>5, <1>6, <1>7, <1>8, <1>9, <1>10, <1>11 DEF Next

(* On every path through replies, failures, closes, crashes and swaps, a   *)
(* tab's counters are the sizes of what it holds (engine.rs:1237, 1247).   *)
THEOREM SlotsAreCounted == Spec => []SlotsMatchPending
<1>1. Init => Slots(tabs, pending)
  BY DEF Init, Slots
<1>2. Slots(tabs, pending) => SlotsMatchPending
  BY DEF Slots, CountsHeld, HeldIn, Held, SlotsMatchPending, LiveTabs, Live
<1>3. IInv /\ Slots(tabs, pending) /\ [Next]_vars => Slots(tabs, pending)'
  BY SlotsStep
<1> QED BY <1>1, <1>2, <1>3, Reachable, PTL DEF Spec

-----------------------------------------------------------------------------
(* Every request is pending or answered.                                   *)

(* The generation behind a tab was spawned for it.                         *)
Behind(ts, g) == \A t \in TabId : ts[t] # None => g[ts[t].epoch] = t

(* An entry names the tab of the generation that asked.                    *)
AskedFor(p, a, g) ==
  \A k \in Kind, id \in RequestId :
    p[k][id] # None => a[id] # None /\ g[a[id]] = p[k][id]

(* An id is in one pending map.                                            *)
OneKind(p) ==
  \A j, k \in Kind, id \in RequestId : p[j][id] # None /\ p[k][id] # None => j = k

NotTwice(p, r) ==
  \A id \in RequestId : r[id] # None => \A k \in Kind : p[k][id] = None

NotForgotten(ts, p, a, r) ==
  \A t \in TabId, id \in RequestId :
    ts[t] # None /\ ts[t].epoch = a[id] /\ r[id] = None
      => \E k \in Kind : p[k][id] # None

Accounted(ts, p, a, r, g) ==
  /\ Behind(ts, g)
  /\ AskedFor(p, a, g)
  /\ OneKind(p)
  /\ NotTwice(p, r)
  /\ NotForgotten(ts, p, a, r)

(* Generations and ids come from counters: what has not been handed out    *)
(* yet stands nowhere.                                                     *)
HandedOut ==
  /\ \A t \in TabId : tabs[t] # None => tabs[t].epoch < next_epoch
  /\ \A id \in RequestId : asker[id] # None => asker[id] < next_epoch
  /\ \A id \in RequestId : id >= next_request_id => asker[id] = None /\ receiver[id] = None

AInv ==
  /\ IInv
  /\ HandedOut
  /\ Accounted(tabs, pending, asker, receiver, generation)

(* Records that keep their generation, or are gone with their entries.     *)
LEMMA PurgeAccounted ==
  ASSUME NEW ts \in [TabId -> TabOrNone], NEW us \in [TabId -> TabOrNone],
         NEW p \in [Kind -> [RequestId -> TabId \cup {None}]], NEW gone,
         NEW a, NEW r, NEW g, Accounted(ts, p, a, r, g),
         \A t \in TabId : us[t] # None =>
            t \notin gone /\ ts[t] # None /\ us[t].epoch = ts[t].epoch
  PROVE  Accounted(us, Purge(p, gone), a, r, g)
<1> DEFINE q == Purge(p, gone)
<1>1. /\ \A k \in Kind, id \in RequestId : q[k][id] \in {None, p[k][id]}
      /\ \A k \in Kind, id \in RequestId :
            p[k][id] # None /\ q[k][id] = None => p[k][id] \in gone
  BY DEF Purge
<1> HIDE DEF q
<1>2. Behind(us, g)
  BY DEF Accounted, Behind
<1>3. AskedFor(q, a, g) /\ OneKind(q) /\ NotTwice(q, r)
  <2>1. AskedFor(q, a, g)
    BY <1>1 DEF Accounted, AskedFor
  <2>2. OneKind(q)
    BY <1>1 DEF Accounted, OneKind
  <2>3. NotTwice(q, r)
    BY <1>1 DEF Accounted, NotTwice
  <2> QED BY <2>1, <2>2, <2>3
<1>4. ASSUME NEW t \in TabId, NEW id \in RequestId,
             us[t] # None, us[t].epoch = a[id], r[id] = None
      PROVE  \E k \in Kind : q[k][id] # None
  <2>1. t \notin gone /\ ts[t] # None /\ ts[t].epoch = a[id]
    BY <1>4
  <2>2. PICK k \in Kind : p[k][id] # None
    BY <1>4, <2>1 DEF Accounted, NotForgotten
  <2>3. p[k][id] = t
    BY <2>1, <2>2 DEF Accounted, AskedFor, Behind
  <2> QED BY <1>1, <2>1, <2>2, <2>3
<1>5. NotForgotten(us, q, a, r)
  BY <1>4 DEF NotForgotten
<1> QED BY <1>2, <1>3, <1>5 DEF Accounted, q

LEMMA SendToTabAccounted ==
  ASSUME NEW ts \in [TabId -> TabOrNone],
         NEW p \in [Kind -> [RequestId -> TabId \cup {None}]],
         NEW t \in TabId, NEW sent \in BOOLEAN,
         NEW a, NEW r, NEW g, Accounted(ts, p, a, r, g), SendToTab(ts, p, t, sent)
  PROVE  Accounted(tabs', pending', a, r, g)
<1>1. CASE sent
  BY <1>1 DEF SendToTab
<1>2. CASE ~sent
  <2>1. /\ pending' = Purge(p, {t})
        /\ tabs' = [u \in TabId |-> IF u \in {t} THEN None ELSE ts[u]]
    BY <1>2 DEF SendToTab, DropCrashed
  <2>2. /\ tabs' \in [TabId -> TabOrNone]
        /\ \A u \in TabId : tabs'[u] # None =>
              u \notin {t} /\ ts[u] # None /\ tabs'[u].epoch = ts[u].epoch
    BY <2>1 DEF TabOrNone
  <2> QED BY <2>1, <2>2, PurgeAccounted
<1> QED BY <1>1, <1>2

(* The entry of id is consumed: either its asker is told, whatever record  *)
(* with the same generation is kept, or nobody is left to be told.         *)
LEMMA ConsumeAccounted ==
  ASSUME TypeOK, Accounted(tabs, pending, asker, receiver, generation),
         NEW k \in Kind, NEW id \in RequestId, NEW us, NEW r,
         pending[k][id] # None,
         \A i \in RequestId : i # id => r[i] = receiver[i],
         \A u \in TabId : us[u] # None => tabs[u] # None /\ us[u].epoch = tabs[u].epoch,
         r[id] # None \/ (r[id] = receiver[id] /\ us[pending[k][id]] = None)
  PROVE  Accounted(us, [pending EXCEPT ![k][id] = None], asker, r, generation)
<1> DEFINE p == [pending EXCEPT ![k][id] = None]
<1>1. /\ \A j \in Kind, i \in RequestId : i # id => p[j][i] = pending[j][i]
      /\ \A j \in Kind : j # k => p[j][id] = pending[j][id]
      /\ p[k][id] = None
  BY DEF TypeOK
<1>2. \A j \in Kind : p[j][id] = None
  BY <1>1 DEF Accounted, OneKind
<1> HIDE DEF p
<1>3. Behind(us, generation)
  BY DEF Accounted, Behind
<1>4. AskedFor(p, asker, generation)
  BY <1>1, <1>2 DEF Accounted, AskedFor
<1>5. OneKind(p)
  BY <1>1, <1>2 DEF Accounted, OneKind
<1>6. NotTwice(p, r)
  BY <1>1, <1>2 DEF Accounted, NotTwice
<1>7. ASSUME NEW t \in TabId, NEW i \in RequestId,
             us[t] # None, us[t].epoch = asker[i], r[i] = None
      PROVE  \E j \in Kind : p[j][i] # None
  <2>1. tabs[t] # None /\ tabs[t].epoch = asker[i]
    BY <1>7
  <2>2. CASE i # id
    BY <1>1, <1>7, <2>1, <2>2 DEF Accounted, NotForgotten
  <2>3. CASE i = id
    <3>1. pending[k][id] = t
      BY <2>1, <2>3 DEF Accounted, AskedFor, Behind
    <3> QED BY <1>7, <2>3, <3>1
  <2> QED BY <2>2, <2>3
<1>8. NotForgotten(us, p, asker, r)
  BY <1>7 DEF NotForgotten
<1> QED BY <1>3, <1>4, <1>5, <1>6, <1>8 DEF Accounted, p

LEMMA VacateKeeps ==
  ASSUME TypeOK, NEW t \in TabId, tabs[t] # None, NEW k \in Kind
  PROVE  LET ts == [tabs EXCEPT ![t] = Vacate(@, k)] IN
         /\ ts \in [TabId -> TabOrNone]
         /\ \A u \in TabId : ts[u] # None => tabs[u] # None /\ ts[u].epoch = tabs[u].epoch
<1>1. tabs[t] \in Tab
  BY DEF TypeOK, TabOrNone
<1>2. Vacate(tabs[t], k) \in Tab /\ Vacate(tabs[t], k).epoch = tabs[t].epoch
  BY <1>1, SlotTypes DEF Vacate, Tab
<1> QED BY <1>2 DEF TypeOK, TabOrNone

LEMMA SettleAccounted ==
  ASSUME TypeOK, Accounted(tabs, pending, asker, receiver, generation),
         NEW k \in Kind, NEW id \in RequestId, Settle(k, id)
  PROVE  Accounted(tabs', pending', asker, receiver', generation)
<1> DEFINE t == pending[k][id]
           p == [pending EXCEPT ![k][id] = None]
           ts == [tabs EXCEPT ![t] = Vacate(@, k)]
<1>1. CASE t = None
  BY <1>1 DEF Settle
<1>2. p \in [Kind -> [RequestId -> TabId \cup {None}]]
  BY DEF TypeOK
<1>3. CASE t # None /\ ~Live(t)
  <2>1. pending' = p /\ tabs' = tabs /\ receiver' = receiver /\ tabs[t] = None
    BY <1>3 DEF Settle, Live
  <2>2. Accounted(tabs, p, asker, receiver, generation)
    BY <1>3, <2>1, ConsumeAccounted
  <2> HIDE DEF p, t
  <2> QED BY <2>1, <2>2
<1>4. CASE t # None /\ Live(t)
  <2>1. t \in TabId /\ tabs[t] \in Tab /\ tabs[t] # None
    BY <1>4 DEF TypeOK, Live, TabOrNone
  <2>2. /\ ts \in [TabId -> TabOrNone]
        /\ \A u \in TabId : ts[u] # None => tabs[u] # None /\ ts[u].epoch = tabs[u].epoch
    BY <2>1, VacateKeeps
  <2>3. receiver' = [receiver EXCEPT ![id] = tabs[t].epoch]
    BY <1>4 DEF Settle
  <2>4. /\ receiver'[id] # None
        /\ \A i \in RequestId : i # id => receiver'[i] = receiver[i]
    BY <2>1, <2>3, BrokerAssumption DEF TypeOK, Tab, Epoch
  <2>5. PICK sent \in BOOLEAN : SendToTab(ts, p, t, sent)
    BY <1>4 DEF Settle
  <2>6. Accounted(ts, p, asker, receiver', generation)
    <3> HIDE DEF ts
    <3> QED BY <1>4, <2>2, <2>4, ConsumeAccounted
  <2> HIDE DEF ts, t, p
  <2> QED BY <1>2, <2>1, <2>2, <2>5, <2>6, SendToTabAccounted
<1> QED BY <1>1, <1>3, <1>4

(* A fresh generation behind t has asked for nothing yet, and what its     *)
(* predecessor asked for may be forgotten.                                 *)
LEMMA InstallAccounted ==
  ASSUME TypeOK, HandedOut, Accounted(tabs, pending, asker, receiver, generation),
         next_epoch < EpochBound,
         NEW t \in TabId, NEW s \in Site, Install(t, s, tabs),
         NEW gone \in SUBSET {t}, pending' = Purge(pending, gone)
  PROVE  Accounted(tabs', pending', asker, receiver, generation')
<1> DEFINE us == [tabs EXCEPT ![t] = None]
<1>1. /\ us \in [TabId -> TabOrNone]
      /\ \A u \in TabId : us[u] # None =>
            u \notin gone /\ tabs[u] # None /\ us[u].epoch = tabs[u].epoch
  BY DEF TypeOK, TabOrNone
<1>2. Accounted(us, pending', asker, receiver, generation)
  <2> HIDE DEF us
  <2> QED BY <1>1, PurgeAccounted DEF TypeOK
<1>3. next_epoch \in Epoch
  BY BrokerAssumption DEF TypeOK, Epoch
<1>4. /\ tabs'[t] # None /\ tabs'[t].epoch = next_epoch
      /\ \A u \in TabId : u # t => tabs'[u] = us[u]
      /\ generation'[next_epoch] = t
      /\ \A e \in Epoch : e # next_epoch => generation'[e] = generation[e]
  <2>1. tabs'[t] = [site |-> s, epoch |-> next_epoch,
                    inflight_fetches |-> 0, inflight_decodes |-> 0]
    BY DEF Install, TypeOK
  <2>2. tabs'[t] \in Tab
    BY <1>3, <2>1 DEF Tab
  <2> QED BY <1>3, <2>1, <2>2, BrokerAssumption DEF Install, TypeOK
<1>5. /\ \A u \in TabId : us[u] # None => us[u].epoch \in Epoch /\ us[u].epoch # next_epoch
      /\ \A i \in RequestId : asker[i] # None => asker[i] \in Epoch /\ asker[i] # next_epoch
      /\ us[t] = None
  <2>1. \A u \in TabId : tabs[u] # None => tabs[u].epoch \in Epoch
    BY DEF TypeOK, TabOrNone, Tab
  <2> QED BY <2>1 DEF HandedOut, TypeOK, Epoch
<1>6. next_epoch # None
  BY <1>3, BrokerAssumption DEF Epoch
<1> HIDE DEF us
<1>7. Behind(tabs', generation')
  BY <1>2, <1>4, <1>5 DEF Accounted, Behind
<1>8. AskedFor(pending', asker, generation')
  BY <1>2, <1>4, <1>5 DEF Accounted, AskedFor
<1>9. NotForgotten(tabs', pending', asker, receiver)
  <2>1. ASSUME NEW u \in TabId, NEW i \in RequestId,
               tabs'[u] # None, tabs'[u].epoch = asker[i], receiver[i] = None
        PROVE  \E k \in Kind : pending'[k][i] # None
    <3>1. u # t
      BY <1>4, <1>5, <1>6, <2>1
    <3> QED BY <1>2, <1>4, <2>1, <3>1 DEF Accounted, NotForgotten
  <2> QED BY <2>1 DEF NotForgotten
<1> QED BY <1>2, <1>7, <1>8, <1>9 DEF Accounted

(* A request whose id was spent at once: nothing pends, its asker is told. *)
LEMMA UnavailableAccounted ==
  ASSUME TypeOK, IdsFresh, HandedOut,
         Accounted(tabs, pending, asker, receiver, generation),
         FreshId \in RequestId,
         NEW t \in TabId, NEW e \in Epoch, Current(t, e), AnswerUnavailable(t, e)
  PROVE  Accounted(tabs', pending', asker', receiver', generation)
<1>1. /\ \A k \in Kind : pending[k][FreshId] = None
      /\ asker'[FreshId] = e /\ receiver'[FreshId] = e /\ e # None
      /\ \A i \in RequestId : i # FreshId =>
            asker'[i] = asker[i] /\ receiver'[i] = receiver[i]
  BY BrokerAssumption
  DEF AnswerUnavailable, Current, IdsFresh, TypeOK, FreshId, RequestId, Epoch
<1>2. AskedFor(pending, asker', generation)
  BY <1>1 DEF Accounted, AskedFor
<1>3. NotTwice(pending, receiver')
  BY <1>1 DEF Accounted, NotTwice
<1>4. NotForgotten(tabs, pending, asker', receiver')
  BY <1>1 DEF Accounted, NotForgotten
<1>5. Accounted(tabs, pending, asker', receiver', generation)
  BY <1>2, <1>3, <1>4 DEF Accounted
<1>6. PICK sent \in BOOLEAN : SendToTab(tabs, pending, t, sent)
  BY DEF AnswerUnavailable
<1> QED BY <1>5, <1>6, SendToTabAccounted DEF TypeOK

LEMMA HandOverAccounted ==
  ASSUME TypeOK, IdsFresh, HandedOut,
         Accounted(tabs, pending, asker, receiver, generation),
         FreshId \in RequestId, NEW k \in Kind,
         NEW t \in TabId, NEW e \in Epoch, Current(t, e), HandOver(k, t, e)
  PROVE  Accounted(tabs', pending', asker', receiver', generation)
<1>1. /\ \A j \in Kind : pending[j][FreshId] = None
      /\ receiver[FreshId] = None /\ receiver' = receiver
      /\ asker'[FreshId] = e /\ e # None /\ t # None
      /\ \A i \in RequestId : i # FreshId => asker'[i] = asker[i]
  BY BrokerAssumption, NoneIsNoTab
  DEF HandOver, HandedOut, IdsFresh, TypeOK, FreshId, RequestId, Epoch
<1>2. /\ pending'[k][FreshId] = t
      /\ \A j \in Kind : j # k => pending'[j][FreshId] = None
      /\ \A j \in Kind, i \in RequestId : i # FreshId => pending'[j][i] = pending[j][i]
  BY <1>1 DEF HandOver, TypeOK
<1>3. \A u \in TabId : tabs'[u] # None => tabs[u] # None /\ tabs'[u].epoch = tabs[u].epoch
  <2>1. tabs[t] \in Tab
    BY DEF TypeOK, TabOrNone, Current, Live
  <2>2. Occupy(tabs[t], k).epoch = tabs[t].epoch
    BY <2>1 DEF Occupy, Tab
  <2> QED BY <2>2 DEF HandOver, TypeOK, Current, Live
<1>4. generation[e] = t /\ tabs[t] # None
  BY DEF Accounted, Behind, Current, Live
<1>5. Behind(tabs', generation)
  BY <1>3 DEF Accounted, Behind
<1>6. AskedFor(pending', asker', generation)
  BY <1>1, <1>2, <1>4 DEF Accounted, AskedFor
<1>7. OneKind(pending')
  BY <1>1, <1>2 DEF Accounted, OneKind
<1>8. NotTwice(pending', receiver')
  BY <1>1, <1>2 DEF Accounted, NotTwice
<1>9. ASSUME NEW u \in TabId, NEW i \in RequestId,
             tabs'[u] # None, tabs'[u].epoch = asker'[i], receiver'[i] = None
      PROVE  \E j \in Kind : pending'[j][i] # None
  <2>1. CASE i = FreshId
    BY <1>1, <1>2, <2>1
  <2>2. CASE i # FreshId
    <3>1. PICK j \in Kind : pending[j][i] # None
      BY <1>1, <1>3, <1>9, <2>2 DEF Accounted, NotForgotten
    <3> QED BY <1>2, <2>2, <3>1
  <2> QED BY <2>1, <2>2
<1> QED BY <1>5, <1>6, <1>7, <1>8, <1>9 DEF Accounted, NotForgotten

(* The whole map is drained: who hears is told, who does not is dropped.   *)
LEMMA FailPendingAccounted ==
  ASSUME TypeOK, Accounted(tabs, pending, asker, receiver, generation),
         NEW k \in Kind, FailPendingFor(k)
  PROVE  Accounted(tabs', pending', asker, receiver', generation)
<1> DEFINE waiting == {id \in RequestId : pending[k][id] # None}
           p == [pending EXCEPT ![k] = [id \in RequestId |-> None]]
<1>1. PICK heard \in SUBSET waiting :
        LET gone == {pending[k][id] : id \in waiting \ heard} IN
        /\ DropCrashed(tabs, p, gone \cap LiveTabs)
        /\ receiver' = [id \in RequestId |->
             IF id \in heard /\ Live(pending[k][id])
             THEN tabs[pending[k][id]].epoch ELSE receiver[id]]
  BY DEF FailPendingFor
<1> DEFINE gone == {pending[k][id] : id \in waiting \ heard} \cap LiveTabs
<1>2. /\ p \in [Kind -> [RequestId -> TabId \cup {None}]]
      /\ \A j \in Kind, i \in RequestId : j # k => p[j][i] = pending[j][i]
      /\ \A i \in RequestId : p[k][i] = None
  BY DEF TypeOK
<1>3. /\ pending' = Purge(p, gone)
      /\ tabs' = [u \in TabId |-> IF u \in gone THEN None ELSE tabs[u]]
  BY <1>1 DEF DropCrashed
<1>4. /\ \A i \in RequestId : receiver'[i] # receiver[i] => pending[k][i] # None
      /\ \A i \in RequestId :
           pending[k][i] # None /\ tabs[pending[k][i]] # None
             => receiver'[i] # None \/ pending[k][i] \in gone
      /\ \A i \in RequestId : receiver[i] # None => receiver'[i] # None
  <2>1. ASSUME NEW i \in RequestId, pending[k][i] # None, tabs[pending[k][i]] # None
        PROVE  pending[k][i] \in TabId /\ tabs[pending[k][i]].epoch # None
    BY <2>1, BrokerAssumption DEF TypeOK, TabOrNone, Tab, Epoch
  <2>2. ASSUME NEW i \in RequestId, pending[k][i] # None, tabs[pending[k][i]] # None
        PROVE  receiver'[i] # None \/ pending[k][i] \in gone
    BY <1>1, <2>1, <2>2 DEF Live, LiveTabs
  <2>3. ASSUME NEW i \in RequestId, receiver[i] # None PROVE receiver'[i] # None
    BY <1>1, <2>1, <2>3 DEF Live
  <2>4. ASSUME NEW i \in RequestId, receiver'[i] # receiver[i] PROVE pending[k][i] # None
    BY <1>1, <2>4
  <2> QED BY <2>2, <2>3, <2>4
<1> HIDE DEF p, gone
<1> DEFINE us == [u \in TabId |-> IF u \in gone THEN None ELSE tabs[u]]
<1>5. Accounted(us, p, asker, receiver', generation)
  <2>1. Behind(us, generation)
    BY DEF Accounted, Behind
  <2>2. AskedFor(p, asker, generation)
    BY <1>2 DEF Accounted, AskedFor
  <2>3. OneKind(p)
    BY <1>2 DEF Accounted, OneKind
  <2>4. ASSUME NEW i \in RequestId, receiver'[i] # None, NEW j \in Kind
        PROVE  p[j][i] = None
    <3>1. CASE receiver'[i] = receiver[i]
      BY <1>2, <2>4, <3>1 DEF Accounted, NotTwice
    <3>2. CASE receiver'[i] # receiver[i]
      BY <1>2, <1>4, <3>2 DEF Accounted, OneKind
    <3> QED BY <3>1, <3>2
  <2>5. ASSUME NEW u \in TabId, NEW i \in RequestId,
               us[u] # None, us[u].epoch = asker[i], receiver'[i] = None
        PROVE  \E j \in Kind : p[j][i] # None
    <3>1. u \notin gone /\ tabs[u] # None /\ tabs[u].epoch = asker[i] /\ receiver[i] = None
      BY <1>4, <2>5
    <3>2. PICK j \in Kind : pending[j][i] # None
      BY <3>1 DEF Accounted, NotForgotten
    <3>3. pending[j][i] = u
      BY <3>1, <3>2 DEF Accounted, AskedFor, Behind
    <3>4. j # k
      BY <1>4, <2>5, <3>1, <3>2, <3>3
    <3> QED BY <1>2, <3>2, <3>4
  <2> HIDE DEF us
  <2> QED BY <2>1, <2>2, <2>3, <2>4, <2>5 DEF Accounted, NotTwice, NotForgotten
<1>6. us \in [TabId -> TabOrNone]
  BY DEF TypeOK, TabOrNone
<1>7. \A u \in TabId : us[u] # None => u \notin gone /\ us[u].epoch = us[u].epoch
  OBVIOUS
<1>8. pending' = Purge(p, gone) /\ tabs' = us
  BY <1>3
<1> HIDE DEF us
<1> QED BY <1>2, <1>5, <1>6, <1>7, <1>8, PurgeAccounted

LEMMA AccountedStep ==
  ASSUME AInv, [Next]_vars
  PROVE  Accounted(tabs', pending', asker', receiver', generation')
<1> DEFINE Goal == Accounted(tabs', pending', asker', receiver', generation')
<1>0. /\ TypeOK /\ IdsFresh /\ HandedOut
      /\ Accounted(tabs, pending, asker, receiver, generation)
  BY DEF AInv, IInv
<1>1. CASE UNCHANGED <<tabs, pending, asker, receiver, generation>>
  BY <1>0, <1>1
<1>2. ASSUME NEW s \in Site, OpenTab(s) PROVE Goal
  <2>1. CASE ~UNCHANGED <<tabs, pending, asker, receiver, generation>>
    <3> DEFINE t == next_tab_id
    <3>1. /\ t < TabBound /\ next_epoch < EpochBound /\ Install(t, s, tabs)
          /\ pending' = pending /\ asker' = asker /\ receiver' = receiver
      BY <1>2, <2>1 DEF OpenTab, vars, ledger
    <3>2. t \in TabId
      BY <1>0, <3>1, BrokerAssumption DEF TypeOK, TabId
    <3>3. pending' = Purge(pending, {})
      BY <1>0, <3>1 DEF Purge, TypeOK
    <3> HIDE DEF t
    <3> QED BY <1>0, <3>1, <3>2, <3>3, InstallAccounted
  <2> QED BY <1>1, <2>1
<1>3. ASSUME NEW t \in TabId, CloseTab(t) PROVE Goal
  <2>1. /\ pending' = Purge(pending, {t}) /\ tabs' = [tabs EXCEPT ![t] = None]
        /\ asker' = asker /\ receiver' = receiver /\ generation' = generation
    BY <1>3 DEF CloseTab, Removed, ledger
  <2>2. /\ tabs' \in [TabId -> TabOrNone]
        /\ \A u \in TabId : tabs'[u] # None =>
              u \notin {t} /\ tabs[u] # None /\ tabs'[u].epoch = tabs[u].epoch
    BY <1>0, <2>1 DEF TypeOK, TabOrNone
  <2> QED BY <1>0, <2>1, <2>2, PurgeAccounted DEF TypeOK
<1>4. ASSUME NEW t \in TabId, NEW o \in Origin, Navigate(t, o) PROVE Goal
  <2>1. CASE ~UNCHANGED <<tabs, pending, asker, receiver, generation>>
    <3> DEFINE s == <<tabs[t].site[1], o>>
    <3>1. /\ pending' = Purge(pending, {t}) /\ next_epoch < EpochBound /\ tabs[t] # None
          /\ \/ Install(t, s, tabs)
             \/ tabs' = [tabs EXCEPT ![t] = None] /\ generation' = generation
          /\ asker' = asker /\ receiver' = receiver
      BY <1>4, <2>1 DEF Navigate, SwapRenderer, Removed, vars, ledger, Live
    <3>2. CASE tabs' = [tabs EXCEPT ![t] = None] /\ generation' = generation
      <4>1. /\ tabs' \in [TabId -> TabOrNone]
            /\ \A u \in TabId : tabs'[u] # None =>
                  u \notin {t} /\ tabs[u] # None /\ tabs'[u].epoch = tabs[u].epoch
        BY <1>0, <3>2 DEF TypeOK, TabOrNone
      <4> QED BY <1>0, <3>1, <3>2, <4>1, PurgeAccounted DEF TypeOK
    <3>3. CASE Install(t, s, tabs)
      <4>1. s \in Site
        BY <1>0, <3>1 DEF TypeOK, TabOrNone, Tab, Site
      <4> QED BY <1>0, <3>1, <3>3, <4>1, InstallAccounted
    <3> QED BY <3>1, <3>2, <3>3
  <2> QED BY <1>1, <2>1
<1>5. ASSUME NEW t \in TabId, NEW e \in Epoch, FromTab(t, e) PROVE Goal
  <2>1. CASE Current(t, e)
    <3>1. FreshId \in RequestId /\ generation' = generation
      BY <1>0, <1>5, BrokerAssumption DEF FromTab, FreshId, TypeOK, RequestId
    <3>2. \/ AnswerInline(t) \/ AnswerUnavailable(t, e)
          \/ \E k \in Kind : HandOver(k, t, e)
      BY <1>5, <2>1 DEF FromTab, TabRequest, NeedFetch, NeedSubresource, NeedDecode,
         NeedStorage, NeedFont, NeedCookies, Broker, Kind
    <3>3. CASE AnswerInline(t)
      <4>1. /\ asker' = asker /\ receiver' = receiver
            /\ \E sent \in BOOLEAN : SendToTab(tabs, pending, t, sent)
        BY <3>3 DEF AnswerInline, ledger
      <4> QED BY <1>0, <3>1, <4>1, SendToTabAccounted DEF TypeOK
    <3> QED BY <1>0, <2>1, <3>1, <3>2, <3>3, UnavailableAccounted, HandOverAccounted
  <2>2. CASE ~Current(t, e)
    BY <1>1, <1>5, <2>2 DEF FromTab, ledger
  <2> QED BY <2>1, <2>2
<1>6. ASSUME NEW t \in TabId, NEW e \in Epoch, TabGone(t, e) PROVE Goal
  <2>1. CASE Current(t, e)
    <3>1. /\ SendToTab(tabs, pending, t, FALSE)
          /\ asker' = asker /\ receiver' = receiver /\ generation' = generation
      BY <1>6, <2>1 DEF TabGone, SendToTab, ledger
    <3> QED BY <1>0, <3>1, SendToTabAccounted DEF TypeOK
  <2>2. CASE ~Current(t, e)
    BY <1>1, <1>6, <2>2 DEF TabGone, ledger
  <2> QED BY <2>1, <2>2
<1>7. ASSUME NEW id \in RequestId, NetStream(id) PROVE Goal
  <2>0. generation' = generation /\ asker' = asker
    BY <1>7 DEF NetStream, NetAnswered, Answered
  <2>1. CASE \E j \in Kind : Settle(j, id)
    BY <1>0, <2>0, <2>1, SettleAccounted
  <2>2. CASE ~\E j \in Kind : Settle(j, id)
    <3> DEFINE t == pending["subresource"][id]
    <3>1. /\ tabs[t] # None /\ t # None
          /\ pending' = [pending EXCEPT !["subresource"][id] = None]
          /\ tabs' = [tabs EXCEPT ![t] = Vacate(@, "subresource")]
          /\ receiver' = [receiver EXCEPT ![id] = tabs[t].epoch]
      BY <1>7, <2>2 DEF NetStream, Kind, Live
    <3>2. t \in TabId /\ "subresource" \in Kind /\ tabs[t] \in Tab
      BY <1>0, <3>1 DEF TypeOK, TabOrNone, Kind
    <3>3. /\ receiver'[id] # None
          /\ \A i \in RequestId : i # id => receiver'[i] = receiver[i]
      BY <1>0, <3>1, <3>2, BrokerAssumption DEF TypeOK, Tab, Epoch
    <3>4. \A u \in TabId : tabs'[u] # None => tabs[u] # None /\ tabs'[u].epoch = tabs[u].epoch
      BY <1>0, <3>1, <3>2, VacateKeeps
    <3> QED BY <1>0, <2>0, <3>1, <3>2, <3>3, <3>4, ConsumeAccounted
  <2> QED BY <2>1, <2>2
<1>8. ASSUME NEW id \in RequestId,
             \/ NetReply(id) \/ DecodeReply(id) \/ StorageReply(id)
             \/ FontReply(id) \/ CookieVisible(id)
      PROVE  Goal
  <2>1. (\E j \in Kind : Settle(j, id)) /\ generation' = generation /\ asker' = asker
    BY <1>8 DEF NetReply, NetAnswered, DecodeReply, StorageReply, FontReply,
                CookieVisible, Answered, Kind
  <2> QED BY <1>0, <2>1, SettleAccounted
<1>9. ASSUME NEW k \in {"storage", "font"}, ServiceGone(k) PROVE Goal
  BY <1>0, <1>9, FailPendingAccounted DEF ServiceGone, Kind
<1>10. CASE Shutdown
  <2>1. /\ \A t \in TabId : tabs'[t] = None
        /\ pending' = pending /\ asker' = asker /\ receiver' = receiver
        /\ generation' = generation
    BY <1>10 DEF Shutdown, ledger
  <2> QED BY <1>0, <2>1 DEF Accounted, Behind, NotForgotten
<1>11. CASE UNCHANGED vars \/ \E s \in Site : CrashAges(s)
  BY <1>1, <1>11 DEF vars, CrashAges, ledger
<1> QED BY <1>2, <1>3, <1>4, <1>5, <1>6, <1>7, <1>8, <1>9, <1>10, <1>11 DEF Next

(* No record appears or changes its generation.                            *)
SameGenerations(ts, us) ==
  \A t \in TabId : us[t] # None => ts[t] # None /\ us[t].epoch = ts[t].epoch

LEMMA SendToTabGenerations ==
  ASSUME NEW ts \in [TabId -> TabOrNone],
         NEW p \in [Kind -> [RequestId -> TabId \cup {None}]],
         NEW t \in TabId, NEW sent \in BOOLEAN, SendToTab(ts, p, t, sent)
  PROVE  SameGenerations(ts, tabs')
BY DEF SendToTab, DropCrashed, SameGenerations

(* A reply is delivered for an id that was pending, so handed out.         *)
LEMMA SettleGenerations ==
  ASSUME TypeOK, NEW k \in Kind, NEW id \in RequestId, Settle(k, id)
  PROVE  /\ SameGenerations(tabs, tabs')
         /\ \A i \in RequestId : pending[k][i] = None => receiver'[i] = receiver[i]
<1> DEFINE t == pending[k][id]
           p == [pending EXCEPT ![k][id] = None]
           ts == [tabs EXCEPT ![t] = Vacate(@, k)]
<1>1. CASE t = None \/ ~Live(t)
  BY <1>1 DEF Settle, SameGenerations
<1>2. CASE t # None /\ Live(t)
  <2>1. /\ t \in TabId /\ tabs[t] # None /\ p \in [Kind -> [RequestId -> TabId \cup {None}]]
        /\ receiver' = [receiver EXCEPT ![id] = tabs[t].epoch]
    BY <1>2 DEF TypeOK, Live, Settle
  <2>2. ts \in [TabId -> TabOrNone] /\ SameGenerations(tabs, ts)
    BY <2>1, VacateKeeps DEF SameGenerations
  <2>3. PICK sent \in BOOLEAN : SendToTab(ts, p, t, sent)
    BY <1>2 DEF Settle
  <2>4. SameGenerations(ts, tabs')
    <3> HIDE DEF ts, p, t
    <3> QED BY <2>1, <2>2, <2>3, SendToTabGenerations
  <2>5. SameGenerations(tabs, tabs')
    <3> HIDE DEF ts
    <3> QED BY <2>2, <2>4 DEF SameGenerations
  <2> QED BY <1>2, <2>1, <2>5 DEF TypeOK
<1> QED BY <1>1, <1>2

LEMMA HandedOutStep ==
  ASSUME AInv, [Next]_vars
  PROVE  HandedOut'
<1>0. TypeOK /\ HandedOut /\ IdsFresh
  BY DEF AInv, IInv
<1>1. ASSUME SameGenerations(tabs, tabs'), UNCHANGED <<asker, next_epoch, next_request_id>>,
             \A id \in RequestId : receiver'[id] # receiver[id] =>
                \E k \in Kind : pending[k][id] # None
      PROVE  HandedOut'
  BY <1>0, <1>1 DEF HandedOut, IdsFresh, SameGenerations
<1>2. ASSUME NEW t \in TabId, NEW s, Install(t, s, tabs), next_epoch < EpochBound,
             UNCHANGED <<asker, receiver, next_request_id>>
      PROVE  HandedOut'
  <2>1. /\ tabs'[t].epoch = next_epoch /\ \A u \in TabId : u # t => tabs'[u] = tabs[u]
        /\ next_epoch' = next_epoch + 1 /\ next_epoch \in Nat
    BY <1>0, <1>2, BrokerAssumption DEF Install, TypeOK
  <2>2. \A u \in TabId : tabs[u] # None => tabs[u].epoch \in Nat
    BY <1>0 DEF TypeOK, TabOrNone, Tab, Epoch
  <2>3. \A id \in RequestId : asker[id] # None => asker[id] \in Nat
    BY <1>0 DEF TypeOK, Epoch
  <2>4. \A u \in TabId : tabs'[u] # None => tabs'[u].epoch < next_epoch'
    <3>1. ASSUME NEW u \in TabId, tabs'[u] # None PROVE tabs'[u].epoch < next_epoch'
      <4>1. CASE u = t
        BY <2>1, <4>1
      <4>2. CASE u # t
        <5>1. tabs[u] # None /\ tabs'[u].epoch = tabs[u].epoch
          BY <2>1, <3>1, <4>2
        <5> QED BY <1>0, <2>1, <2>2, <5>1 DEF HandedOut
      <4> QED BY <4>1, <4>2
    <3> QED BY <3>1
  <2>5. \A id \in RequestId : asker'[id] # None => asker'[id] < next_epoch'
    BY <1>0, <1>2, <2>1, <2>3 DEF HandedOut
  <2>6. \A id \in RequestId : id >= next_request_id' => asker'[id] = None /\ receiver'[id] = None
    BY <1>0, <1>2 DEF HandedOut
  <2> QED BY <2>4, <2>5, <2>6 DEF HandedOut
<1>3. ASSUME NEW s \in Site, OpenTab(s) PROVE HandedOut'
  <2>1. CASE UNCHANGED <<tabs, next_epoch, next_request_id, asker, receiver>>
    BY <1>1, <2>1 DEF SameGenerations
  <2>2. CASE ~UNCHANGED <<tabs, next_epoch, next_request_id, asker, receiver>>
    <3>1. /\ next_tab_id < TabBound /\ next_epoch < EpochBound
          /\ Install(next_tab_id, s, tabs)
          /\ UNCHANGED <<asker, receiver, next_request_id>>
      BY <1>3, <2>2 DEF OpenTab, vars, ledger
    <3>2. next_tab_id \in TabId
      BY <1>0, <3>1, BrokerAssumption DEF TypeOK, TabId
    <3> QED BY <1>2, <3>1, <3>2
  <2> QED BY <2>1, <2>2
<1>4. ASSUME NEW t \in TabId, NEW o \in Origin, Navigate(t, o) PROVE HandedOut'
  <2>1. \/ UNCHANGED <<tabs, next_epoch, next_request_id, asker, receiver>>
        \/ /\ next_epoch < EpochBound
           /\ UNCHANGED <<next_request_id, asker, receiver>>
           /\ \/ \E s : Install(t, s, tabs)
              \/ tabs' = [tabs EXCEPT ![t] = None] /\ UNCHANGED next_epoch
    BY <1>4 DEF Navigate, SwapRenderer, Removed, vars, ledger
  <2>3. CASE /\ tabs' = [tabs EXCEPT ![t] = None]
             /\ UNCHANGED <<next_epoch, next_request_id, asker, receiver>>
    <3>1. SameGenerations(tabs, tabs')
      BY <1>0, <2>3 DEF SameGenerations, TypeOK
    <3> QED BY <1>1, <2>3, <3>1
  <2>4. CASE UNCHANGED <<tabs, next_epoch, next_request_id, asker, receiver>>
    BY <1>1, <2>4 DEF SameGenerations
  <2> QED BY <1>2, <2>1, <2>3, <2>4
<1>5. ASSUME NEW t \in TabId, CloseTab(t) PROVE HandedOut'
  <2>1. SameGenerations(tabs, tabs')
    BY <1>0, <1>5 DEF CloseTab, Removed, SameGenerations, TypeOK
  <2> QED BY <1>1, <1>5, <2>1 DEF CloseTab, ledger
<1>6. ASSUME NEW t \in TabId, NEW e \in Epoch, FromTab(t, e) PROVE HandedOut'
  <2>1. CASE ~Current(t, e)
    BY <1>1, <1>6, <2>1 DEF FromTab, ledger, SameGenerations
  <2>2. CASE Current(t, e)
    <3>0. /\ tabs[t] \in Tab /\ tabs[t] # None /\ tabs[t].epoch = e /\ next_epoch' = next_epoch
          /\ FreshId \in RequestId /\ FreshId = next_request_id
      BY <1>0, <1>6, <2>2, BrokerAssumption
      DEF FromTab, Current, Live, TypeOK, TabOrNone, FreshId, RequestId
    <3>1. \/ AnswerInline(t) \/ AnswerUnavailable(t, e)
          \/ \E k \in Kind : HandOver(k, t, e)
      BY <1>6, <2>2 DEF FromTab, TabRequest, NeedFetch, NeedSubresource, NeedDecode,
         NeedStorage, NeedFont, NeedCookies, Broker, Kind
    <3>2. SameGenerations(tabs, tabs')
      <4>1. CASE \E sent \in BOOLEAN : SendToTab(tabs, pending, t, sent)
        BY <1>0, <4>1, SendToTabGenerations DEF TypeOK
      <4>2. ASSUME NEW k \in Kind, HandOver(k, t, e) PROVE SameGenerations(tabs, tabs')
        <5>1. Occupy(tabs[t], k).epoch = tabs[t].epoch
          BY <3>0 DEF Occupy, Tab
        <5> QED BY <1>0, <3>0, <4>2, <5>1 DEF HandOver, TypeOK, SameGenerations
      <4> QED BY <3>1, <4>1, <4>2 DEF AnswerInline, AnswerUnavailable
    <3>3. CASE AnswerInline(t)
      BY <1>1, <3>0, <3>2, <3>3 DEF AnswerInline, ledger
    <3>4. CASE ~AnswerInline(t)
      <4>1. /\ asker' = [asker EXCEPT ![FreshId] = e]
            /\ next_request_id' = next_request_id + 1
            /\ \A i \in RequestId : i # FreshId => receiver'[i] = receiver[i]
        BY <1>0, <3>1, <3>4 DEF AnswerUnavailable, HandOver, TypeOK
      <4>2. e < next_epoch
        BY <1>0, <3>0 DEF HandedOut
      <4>3. \A i \in RequestId : asker'[i] # None => asker'[i] < next_epoch
        BY <1>0, <3>0, <4>1, <4>2 DEF HandedOut, TypeOK
      <4>4. \A i \in RequestId : i >= next_request_id' => i >= next_request_id /\ i # FreshId
        BY <1>0, <3>0, <4>1 DEF TypeOK, RequestId
      <4>5. \A i \in RequestId : i >= next_request_id' => asker'[i] = None /\ receiver'[i] = None
        BY <1>0, <4>1, <4>4 DEF HandedOut, TypeOK
      <4>6. \A u \in TabId : tabs'[u] # None => tabs'[u].epoch < next_epoch
        BY <1>0, <3>2 DEF SameGenerations, HandedOut
      <4> QED BY <3>0, <4>3, <4>5, <4>6 DEF HandedOut
    <3> QED BY <3>3, <3>4
  <2> QED BY <2>1, <2>2
<1>7. ASSUME NEW t \in TabId, NEW e \in Epoch, TabGone(t, e) PROVE HandedOut'
  <2>1. SameGenerations(tabs, tabs')
    BY <1>7 DEF TabGone, DropCrashed, SameGenerations
  <2> QED BY <1>1, <1>7, <2>1 DEF TabGone, ledger
<1>8. ASSUME NEW id \in RequestId, NEW k \in Kind, Settle(k, id),
             UNCHANGED <<asker, next_epoch, next_request_id>>
      PROVE  HandedOut'
  BY <1>0, <1>1, <1>8, SettleGenerations
<1>9. ASSUME NEW id \in RequestId, NetStream(id) PROVE HandedOut'
  <2>0. UNCHANGED <<asker, next_epoch, next_request_id>>
    BY <1>9 DEF NetStream, NetAnswered, Answered
  <2>1. CASE \E j \in Kind : Settle(j, id)
    BY <1>8, <2>0, <2>1
  <2>2. CASE ~\E j \in Kind : Settle(j, id)
    <3> DEFINE t == pending["subresource"][id]
    <3>1. /\ tabs[t] # None /\ t # None
          /\ tabs' = [tabs EXCEPT ![t] = Vacate(@, "subresource")]
          /\ receiver' = [receiver EXCEPT ![id] = tabs[t].epoch]
      BY <1>9, <2>2 DEF NetStream, Kind, Live
    <3>2. t \in TabId /\ "subresource" \in Kind
      BY <1>0, <3>1 DEF TypeOK, Kind
    <3>3. SameGenerations(tabs, tabs')
      BY <1>0, <3>1, <3>2, VacateKeeps DEF SameGenerations
    <3>4. \A i \in RequestId : receiver'[i] # receiver[i] => pending["subresource"][i] # None
      BY <1>0, <3>1 DEF TypeOK
    <3> QED BY <1>1, <2>0, <3>2, <3>3, <3>4
  <2> QED BY <2>1, <2>2
<1>10. ASSUME NEW id \in RequestId,
              \/ NetReply(id) \/ DecodeReply(id) \/ StorageReply(id)
              \/ FontReply(id) \/ CookieVisible(id)
       PROVE  HandedOut'
  <2>1. /\ \E j \in Kind : Settle(j, id)
        /\ UNCHANGED <<asker, next_epoch, next_request_id>>
    BY <1>10 DEF NetReply, NetAnswered, DecodeReply, StorageReply, FontReply,
                 CookieVisible, Answered, Kind
  <2> QED BY <1>8, <2>1
<1>11. ASSUME NEW k \in {"storage", "font"}, ServiceGone(k) PROVE HandedOut'
  <2>1. /\ SameGenerations(tabs, tabs')
        /\ \A i \in RequestId : receiver'[i] # receiver[i] => pending[k][i] # None
    BY <1>11 DEF ServiceGone, FailPendingFor, DropCrashed, SameGenerations
  <2> QED BY <1>1, <1>11, <2>1 DEF ServiceGone, Kind
<1>12. CASE Shutdown \/ UNCHANGED vars \/ \E s \in Site : CrashAges(s)
  <2>1. SameGenerations(tabs, tabs')
    BY <1>12 DEF Shutdown, CrashAges, vars, SameGenerations
  <2> QED BY <1>1, <1>12, <2>1 DEF Shutdown, CrashAges, vars, ledger
<1> QED BY <1>3, <1>4, <1>5, <1>6, <1>7, <1>9, <1>10, <1>11, <1>12 DEF Next

LEMMA Init_AInv == Init => AInv
<1>1. Init => HandedOut
  BY DEF Init, HandedOut
<1>2. Init => Accounted(tabs, pending, asker, receiver, generation)
  BY BrokerAssumption
  DEF Init, Accounted, Behind, AskedFor, OneKind, NotTwice, NotForgotten
<1> QED BY <1>1, <1>2, Init_IInv DEF AInv

LEMMA Step_AInv == AInv /\ [Next]_vars => AInv'
<1> SUFFICES ASSUME AInv, [Next]_vars PROVE AInv'
  OBVIOUS
<1>1. IInv'
  BY Step_IInv DEF AInv
<1> QED BY <1>1, HandedOutStep, AccountedStep DEF AInv

LEMMA AccountedReachable == Spec => []AInv
<1> QED BY Init_AInv, Step_AInv, PTL DEF Spec

(* A renderer that is still there and has asked is waiting for exactly one *)
(* answer or has had exactly one, on every path (engine.rs:1685-1687,      *)
(* 1491-1500).                                                             *)
THEOREM EveryRequestIsAnsweredOnce == Spec => []ExactlyOneAnswer
<1>1. AInv => ExactlyOneAnswer
  BY DEF AInv, Accounted, NotTwice, NotForgotten, ExactlyOneAnswer, Current, Live
<1> QED BY <1>1, AccountedReachable, PTL
=============================================================================
