------------------------------- MODULE Broker -------------------------------
(***************************************************************************)
(* The bookkeeping of the broker's event loop (src/src/engine.rs): which   *)
(* renderer generation stands behind each tab, which requests are in       *)
(* flight, who gets each reply, and what is left behind by a close, a      *)
(* crash or a cross-origin swap.                                           *)
(*                                                                         *)
(* The loop is single threaded, so one message is one atomic action.  What *)
(* the components on the other ends of the sockets do is left open: a      *)
(* renderer may send any request at any time, a component may answer what  *)
(* it was sent at any later time and in any order, any process may die.    *)
(* The queue between the reader threads and the loop is module Inbox.      *)
(***************************************************************************)
EXTENDS Naturals, FiniteSets

CONSTANTS
  Zone, Origin,            \* cookie/storage partitions and the sites tabs show
  MAX_RENDERERS,           \* ceiling on open tabs
  MAX_INFLIGHT_FETCHES,    \* per-tab cap on fetches and subresources together
  MAX_INFLIGHT_DECODES,    \* per-tab cap on decodes
  CRASH_LOOP_THRESHOLD,    \* crashes within the window that make a crash loop
  TabBound,                \* bound on next_tab_id
  EpochBound,              \* bound on next_epoch
  RequestBound,            \* bound on next_request_id
  None                     \* no tab, no generation

TabId     == 0 .. TabBound - 1
Epoch     == 0 .. EpochBound - 1
RequestId == 0 .. RequestBound - 1
Site      == Zone \X Origin

(* One pending map of the loop per kind of request.                        *)
Kind == {"fetch", "subresource", "decode", "storage", "font", "cookies"}

Tab == [site : Site, epoch : Epoch, inflight_fetches : Nat, inflight_decodes : Nat]

ASSUME BrokerAssumption ==
  /\ MAX_RENDERERS \in Nat \ {0}
  /\ MAX_INFLIGHT_FETCHES \in Nat \ {0}
  /\ MAX_INFLIGHT_DECODES \in Nat \ {0}
  /\ CRASH_LOOP_THRESHOLD \in Nat \ {0}
  /\ TabBound \in Nat /\ EpochBound \in Nat /\ RequestBound \in Nat
  /\ None \notin Nat /\ None \notin Tab

VARIABLES
  running,          \* FALSE once Shutdown has been handled
  tabs,             \* the tab record behind each id, None when there is none
  pending,          \* per kind: request id -> the tab awaiting the reply
  crashes,          \* per site: renderer crashes inside the window
  next_tab_id, next_request_id, next_epoch,
  wire,             \* per kind: requests a component holds and may yet answer
  (* history, read by the properties and by no guard of the loop's handlers *)
  generation,       \* epoch -> the tab it was spawned for
  asker,            \* request id -> the generation whose message asked
  receiver          \* request id -> the generation the answer was sent to

ledger == <<asker, receiver>>
vars == <<running, tabs, pending, crashes, next_tab_id, next_request_id,
          next_epoch, wire, generation, asker, receiver>>

Init ==
  /\ running = TRUE
  /\ tabs = [t \in TabId |-> None]
  /\ pending = [k \in Kind |-> [id \in RequestId |-> None]]
  /\ crashes = [s \in Site |-> 0]
  /\ next_tab_id = 0 /\ next_request_id = 0 /\ next_epoch = 0
  /\ wire = [k \in Kind |-> {}]
  /\ generation = [e \in Epoch |-> None]
  /\ asker = [id \in RequestId |-> None]
  /\ receiver = [id \in RequestId |-> None]

-----------------------------------------------------------------------------
(* Shared pieces of the handlers.                                          *)

Live(t) == tabs[t] # None
LiveTabs == {t \in TabId : Live(t)}

(* The guard of LoopMsg::FromTab and TabGone: the message belongs to the   *)
(* generation that stands behind the tab now.                              *)
CurrentIgnoringEpoch(t, e) == Live(t)   \* broken variant
Current(t, e) == Live(t) /\ tabs[t].epoch = e

(* Tab ids of generation e's messages: its reader thread stamped them.     *)
SentBy(t, e) == generation[e] = t

CrashLooping(s) == crashes[s] >= CRASH_LOOP_THRESHOLD

RetainedMaps == Kind \ {"cookies"}

(* Broken variant: one map was left out of the retain calls.               *)
PurgeAllButFonts(p, gone) ==
  [k \in Kind |-> [id \in RequestId |->
     IF k \in RetainedMaps \ {"font"} /\ p[k][id] \in gone THEN None ELSE p[k][id]]]

(* The retain calls of every teardown: five maps, not pending_cookies.     *)
Purge(p, gone) ==
  [k \in Kind |-> [id \in RequestId |->
     IF k \in RetainedMaps /\ p[k][id] \in gone THEN None ELSE p[k][id]]]

(* drop_tab_crashed for every tab of `gone`, starting from the tab records *)
(* ts and the pending maps p that the handler has built so far.            *)
DropCrashed(ts, p, gone) ==
  /\ tabs' = [t \in TabId |-> IF t \in gone THEN None ELSE ts[t]]
  /\ pending' = Purge(p, gone)
  /\ crashes' = [s \in Site |->
                   crashes[s] + Cardinality({t \in gone : ts[t].site = s})]

(* A reply written to tab t's renderer: a dead peer or a write timeout     *)
(* (~sent) tears the tab down as a crash.                                  *)
SendToTab(ts, p, t, sent) ==
  IF sent THEN tabs' = ts /\ pending' = p /\ UNCHANGED crashes
          ELSE DropCrashed(ts, p, {t})

(* Take and give back the in-flight slot a request of kind k occupies.     *)
Occupy(tab, k) ==
  CASE k \in {"fetch", "subresource"} -> [tab EXCEPT !.inflight_fetches = @ + 1]
    [] k = "decode" -> [tab EXCEPT !.inflight_decodes = @ + 1]
    [] OTHER -> tab

SaturatingDec(n) == IF n > 0 THEN n - 1 ELSE 0

(* Broken variants: the slot of a subresource is never freed; the wrong    *)
(* counter is decremented.                                                 *)
VacateDocumentsOnly(tab, k) ==
  CASE k = "fetch" -> [tab EXCEPT !.inflight_fetches = SaturatingDec(@)]
    [] k = "decode" -> [tab EXCEPT !.inflight_decodes = SaturatingDec(@)]
    [] OTHER -> tab
VacateWrongCounter(tab, k) == [tab EXCEPT !.inflight_decodes = @ - 1]

(* Every reply path frees the slot of its kind.                            *)
Vacate(tab, k) ==
  CASE k \in {"fetch", "subresource"} ->
         [tab EXCEPT !.inflight_fetches = SaturatingDec(@)]
    [] k = "decode" -> [tab EXCEPT !.inflight_decodes = SaturatingDec(@)]
    [] OTHER -> tab

-----------------------------------------------------------------------------
(* Opening, navigating, closing.                                           *)

(* Install a fresh generation behind tab t.                                *)
Install(t, s, ts) ==
  /\ tabs' = [ts EXCEPT ![t] = [site |-> s, epoch |-> next_epoch,
                                inflight_fetches |-> 0, inflight_decodes |-> 0]]
  /\ next_epoch' = next_epoch + 1
  /\ generation' = [generation EXCEPT ![next_epoch] = t]

(* The test of open_tab against the ceiling, and an off-by-one of it.      *)
AtCeilingOffByOne == Cardinality(LiveTabs) > MAX_RENDERERS
AtCeiling == Cardinality(LiveTabs) >= MAX_RENDERERS

(* open_tab.  A refusal only emits OpenTabFailed; a spawn failure has      *)
(* already consumed the tab id.                                            *)
OpenTab(s) ==
  /\ running
  /\ next_tab_id < TabBound /\ next_epoch < EpochBound
  /\ IF AtCeiling \/ CrashLooping(s)
     THEN UNCHANGED vars
     ELSE /\ next_tab_id' = next_tab_id + 1
          /\ \/ Install(next_tab_id, s, tabs)
             \/ UNCHANGED <<tabs, next_epoch, generation>>  \* no fork server
          /\ UNCHANGED <<running, pending, crashes, next_request_id, wire, ledger>>

(* The part Close and swap_renderer share: the record leaves the map and   *)
(* the retained maps forget the tab.                                       *)
Removed(t) == [tabs EXCEPT ![t] = None]

CloseTab(t) ==
  /\ running /\ Live(t)
  /\ tabs' = Removed(t)
  /\ pending' = Purge(pending, {t})
  /\ UNCHANGED <<running, crashes, next_tab_id, next_request_id, next_epoch,
                 wire, generation, ledger>>

(* swap_renderer.  The crash-loop guard comes first and keeps the tab; a   *)
(* failed spawn comes after the teardown and leaves no tab behind.         *)
SwapRenderer(t, o) ==
  LET s == <<tabs[t].site[1], o>> IN
  IF CrashLooping(s)
  THEN UNCHANGED vars
  ELSE /\ pending' = Purge(pending, {t})
       /\ \/ Install(t, s, tabs)
          \/ tabs' = Removed(t) /\ UNCHANGED <<next_epoch, generation>>  \* no fork server
       /\ UNCHANGED <<running, crashes, next_tab_id, next_request_id, wire, ledger>>

(* TabCommand::Navigate: the same origin is forwarded to the renderer (the *)
(* failed send is ignored), another origin swaps renderers.                *)
Navigate(t, o) ==
  /\ running /\ Live(t)
  /\ next_epoch < EpochBound
  /\ IF o = tabs[t].site[2] THEN UNCHANGED vars ELSE SwapRenderer(t, o)

(* Shutdown drains the tabs without touching the pending maps; the loop    *)
(* returns.                                                                *)
Shutdown ==
  /\ running
  /\ running' = FALSE
  /\ tabs' = [t \in TabId |-> None]
  /\ UNCHANGED <<pending, crashes, next_tab_id, next_request_id, next_epoch,
                 wire, generation, ledger>>

(* TabGone of a stale generation is ignored.                               *)
TabGone(t, e) ==
  /\ running /\ SentBy(t, e)
  /\ IF Current(t, e) THEN DropCrashed(tabs, pending, {t})
                      ELSE UNCHANGED <<tabs, pending, crashes>>
  /\ UNCHANGED <<running, next_tab_id, next_request_id, next_epoch, wire,
                 generation, ledger>>

(* The window slides past one recorded crash.                              *)
CrashAges(s) ==
  /\ running /\ crashes[s] > 0
  /\ crashes' = [crashes EXCEPT ![s] = @ - 1]
  /\ UNCHANGED <<running, tabs, pending, next_tab_id, next_request_id, next_epoch,
                 wire, generation, ledger>>

-----------------------------------------------------------------------------
(* Requests: tab_request and broker_decode.  Each has up to three          *)
(* outcomes: answered on the spot without a request id, answered on the    *)
(* spot after one was consumed, or handed to a component.                  *)

FreshId == next_request_id

(* Answered inline; the only lasting effect is a failed write.             *)
AnswerInline(t) ==
  /\ \E sent \in BOOLEAN : SendToTab(tabs, pending, t, sent)
  /\ UNCHANGED <<next_request_id, wire, ledger>>

(* The component (or the fork server) could not be reached: the id is      *)
(* spent and the renderer hears a failure.                                 *)
AnswerUnavailable(t, e) ==
  /\ next_request_id' = next_request_id + 1
  /\ asker' = [asker EXCEPT ![FreshId] = e]
  /\ receiver' = [receiver EXCEPT ![FreshId] = tabs[t].epoch]
  /\ \E sent \in BOOLEAN : SendToTab(tabs, pending, t, sent)
  /\ UNCHANGED wire

HandOver(k, t, e) ==
  /\ next_request_id' = next_request_id + 1
  /\ asker' = [asker EXCEPT ![FreshId] = e]
  /\ pending' = [pending EXCEPT ![k][FreshId] = t]
  /\ tabs' = [tabs EXCEPT ![t] = Occupy(@, k)]
  /\ wire' = [wire EXCEPT ![k] = @ \cup {FreshId}]
  /\ UNCHANGED <<crashes, receiver>>

Broker(k, t, e) == AnswerUnavailable(t, e) \/ HandOver(k, t, e)

(* A url outside the renderer's origin, or the cap, is refused inline.     *)
NeedFetch(t, e) ==
  \/ AnswerInline(t)
  \/ tabs[t].inflight_fetches < MAX_INFLIGHT_FETCHES /\ Broker("fetch", t, e)

(* An unparseable url, or the cap it shares with fetches.                  *)
NeedSubresource(t, e) ==
  \/ AnswerInline(t)
  \/ tabs[t].inflight_fetches < MAX_INFLIGHT_FETCHES /\ Broker("subresource", t, e)

NeedDecode(t, e) ==
  IF tabs[t].inflight_decodes >= MAX_INFLIGHT_DECODES
  THEN AnswerInline(t)
  ELSE Broker("decode", t, e)

NeedStorage(t, e) == Broker("storage", t, e)

NeedFont(t, e) == Broker("font", t, e)

(* Inline for another origin's jar and whenever the broker holds the jar.  *)
NeedCookies(t, e) == AnswerInline(t) \/ Broker("cookies", t, e)

TabRequest(t, e) ==
  \/ NeedFetch(t, e) \/ NeedSubresource(t, e) \/ NeedDecode(t, e)
  \/ NeedStorage(t, e) \/ NeedFont(t, e) \/ NeedCookies(t, e)

FromTab(t, e) ==
  /\ running /\ SentBy(t, e)
  /\ next_request_id < RequestBound
  /\ IF Current(t, e)
     THEN TabRequest(t, e)
     ELSE UNCHANGED <<tabs, pending, crashes, next_request_id, wire, ledger>>
  /\ UNCHANGED <<running, next_tab_id, next_epoch, generation>>

-----------------------------------------------------------------------------
(* Replies.                                                                *)

(* The pending entry of id under kind k is consumed; its slot is freed and *)
(* the answer goes to whatever generation the tab has now.  No entry: the  *)
(* requester is gone and the reply is dropped.                             *)
Settle(k, id) ==
  LET t == pending[k][id]
      p == [pending EXCEPT ![k][id] = None]
  IN  IF t = None
      THEN UNCHANGED <<tabs, pending, crashes, receiver>>
      ELSE IF ~Live(t)
      THEN pending' = p /\ UNCHANGED <<tabs, crashes, receiver>>
      ELSE /\ receiver' = [receiver EXCEPT ![id] = tabs[t].epoch]
           /\ \E sent \in BOOLEAN :
                SendToTab([tabs EXCEPT ![t] = Vacate(@, k)], p, t, sent)

Answered(k, id) ==
  /\ running /\ id \in wire[k]
  /\ wire' = [wire EXCEPT ![k] = @ \ {id}]
  /\ UNCHANGED <<running, next_tab_id, next_request_id, next_epoch, generation, asker>>

(* A message of the net component about one fetch or subresource load.     *)
NetAnswered(id) == Answered("fetch", id) \/ Answered("subresource", id)

(* net_reply: the id is looked up as a document fetch first.               *)
NetReply(id) ==
  /\ NetAnswered(id)
  /\ Settle(IF pending["fetch"][id] # None THEN "fetch" ELSE "subresource", id)

(* net_stream: only a document fetch may be streamed.  A subresource that  *)
(* is has its slot freed and a refusal sent whose failure is ignored.      *)
NetStream(id) ==
  LET t == pending["subresource"][id] IN
  /\ NetAnswered(id)
  /\ IF pending["fetch"][id] # None \/ t = None \/ ~Live(t)
     THEN Settle(IF pending["fetch"][id] # None THEN "fetch" ELSE "subresource", id)
     ELSE /\ pending' = [pending EXCEPT !["subresource"][id] = None]
          /\ tabs' = [tabs EXCEPT ![t] = Vacate(@, "subresource")]
          /\ receiver' = [receiver EXCEPT ![id] = tabs[t].epoch]
          /\ UNCHANGED crashes

DecodeReply(id) == Answered("decode", id) /\ Settle("decode", id)

StorageReply(id) == Answered("storage", id) /\ Settle("storage", id)

FontReply(id) == Answered("font", id) /\ Settle("font", id)

CookieVisible(id) == Answered("cookies", id) /\ Settle("cookies", id)

FailPendingUnanswered(k) ==   \* broken variant: cleared, nobody is told
  /\ pending' = [pending EXCEPT ![k] = [id \in RequestId |-> None]]
  /\ UNCHANGED <<tabs, crashes, receiver>>

(* respawn_service for storage or font: before anything else every request *)
(* in flight to the dead process is failed.  The map is drained in no      *)
(* particular order; a renderer whose write fails is dropped, and the      *)
(* entries of its that come later find no tab.                             *)
FailPendingFor(k) ==
  LET waiting == {id \in RequestId : pending[k][id] # None}
      p == [pending EXCEPT ![k] = [id \in RequestId |-> None]]
  IN  \E heard \in SUBSET waiting :
        LET gone == {pending[k][id] : id \in waiting \ heard} IN
        /\ DropCrashed(tabs, p, gone \cap LiveTabs)
        /\ receiver' = [id \in RequestId |->
             IF id \in heard /\ Live(pending[k][id])
             THEN tabs[pending[k][id]].epoch ELSE receiver[id]]

ServiceGone(k) ==
  /\ running
  /\ FailPendingFor(k)
  /\ wire' = [wire EXCEPT ![k] = {}]
  /\ UNCHANGED <<running, next_tab_id, next_request_id, next_epoch, generation, asker>>

-----------------------------------------------------------------------------

Next ==
  \/ \E s \in Site : OpenTab(s) \/ CrashAges(s)
  \/ \E t \in TabId : CloseTab(t) \/ \E o \in Origin : Navigate(t, o)
  \/ \E t \in TabId, e \in Epoch : FromTab(t, e) \/ TabGone(t, e)
  \/ \E id \in RequestId : NetReply(id) \/ NetStream(id) \/ DecodeReply(id)
                           \/ StorageReply(id) \/ FontReply(id) \/ CookieVisible(id)
  \/ \E k \in {"storage", "font"} : ServiceGone(k)
  \/ Shutdown

Spec == Init /\ [][Next]_vars

-----------------------------------------------------------------------------
(* Properties.                                                             *)

TabOrNone == Tab \cup {None}

(* The types of the loop's state and of the history.                       *)
TypeOK ==
  /\ running \in BOOLEAN
  /\ tabs \in [TabId -> TabOrNone]
  /\ pending \in [Kind -> [RequestId -> TabId \cup {None}]]
  /\ crashes \in [Site -> Nat]
  /\ next_tab_id \in 0 .. TabBound
  /\ next_request_id \in 0 .. RequestBound
  /\ next_epoch \in 0 .. EpochBound
  /\ wire \in [Kind -> SUBSET RequestId]
  /\ generation \in [Epoch -> TabId \cup {None}]
  /\ asker \in [RequestId -> Epoch \cup {None}]
  /\ receiver \in [RequestId -> Epoch \cup {None}]

(* The requests of kind k that tab t is waiting for.                       *)
Held(k, t) == {id \in RequestId : pending[k][id] = t}

(* The per-tab counters that the caps are tested against count exactly the *)
(* entries of the pending maps: no path through replies, failures, closes, *)
(* crashes and swaps leaks a slot or frees one twice (engine.rs:1237,      *)
(* 1247, 1395, 1409, 1680, 1746, 1774, 1793, 1832, 1844).                  *)
SlotsMatchPending ==
  \A t \in LiveTabs :
    /\ tabs[t].inflight_fetches =
         Cardinality(Held("fetch", t)) + Cardinality(Held("subresource", t))
    /\ tabs[t].inflight_decodes = Cardinality(Held("decode", t))

(* Every entry of the five retained maps is owed to the generation that    *)
(* asked, and that generation still stands behind the tab: a teardown      *)
(* leaves nothing behind that a reply to a predecessor could match, and no *)
(* message of a replaced generation was handled under the new identity     *)
(* (engine.rs:789-801, 1071-1073).                                         *)
PendingBelongsToCurrent ==
  running => \A k \in RetainedMaps, id \in RequestId :
    pending[k][id] # None => Current(pending[k][id], asker[id])

(* A request of a generation that is still there has been answered or is   *)
(* pending, never both and never neither: no path forgets a renderer that  *)
(* waits, and none answers it twice (engine.rs:1685-1687, 1491-1500).      *)
ExactlyOneAnswer ==
  running => \A id \in RequestId :
    (\E t \in TabId : Current(t, asker[id])) =>
       (receiver[id] = None <=> \E k \in Kind : pending[k][id] # None)

(* Opens, swaps and crashes in any order never exceed the ceiling on tabs  *)
(* (engine.rs:877, SECURITY-MEASURES.md:115).                              *)
CeilingHolds == Cardinality(LiveTabs) <= MAX_RENDERERS

(* An answer that did not travel through pending_cookies goes to the       *)
(* generation that asked for it, never to one that replaced it under the   *)
(* same tab id.                                                            *)
AnswersReachAsker ==
  [][\A id \in RequestId :
       (receiver'[id] # receiver[id] /\ pending["cookies"][id] = None)
         => receiver'[id] = asker'[id]]_vars

(* The same for the replies routed by pending_cookies.                     *)
CookiesReachAsker ==
  [][\A id \in RequestId :
       (receiver'[id] # receiver[id] /\ pending["cookies"][id] # None)
         => receiver'[id] = asker[id]]_vars

=============================================================================
