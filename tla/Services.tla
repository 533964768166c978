------------------------------ MODULE Services ------------------------------
(***************************************************************************)
(* The link between the engine loop and a brokered filesystem service      *)
(* (engine.rs), with the storage service behind it (storage.rs): the       *)
(* loop's writes without a timeout, both socket buffers, the reader thread *)
(* and its gate, death and respawn, and the byte budget of the store.      *)
(*                                                                         *)
(* A renderer has one request outstanding, so a request, its entry in      *)
(* pending_storage and its reply are named by the tab.  What the request   *)
(* asks is settled when the service reads it.  The font service has the    *)
(* same link; tabs coming and going are module Broker.                     *)
(***************************************************************************)
EXTENDS Naturals, Sequences, FiniteSets

CONSTANTS
  Tabs,
  Slots,                    \* the (zone, origin, key) tuples in use
  None,                     \* no tab
  MAX_QUEUED_PER_SOURCE,    \* permits of the gate
  MAX_SERVICE_RESTARTS,     \* respawns within the window
  MAX_VALUE, MAX_STORE,     \* the sizes of a value and of the store, in units
  Room,                     \* frames a socket buffer holds
  Instances                 \* what a behaviour may have: the tabs that take
                            \* part, the operations, bounds on deaths of the
                            \* service and on failed writes

ASSUME ServicesAssumption ==
  /\ MAX_QUEUED_PER_SOURCE \in Nat \ {0} /\ Room \in Nat \ {0}
  /\ MAX_SERVICE_RESTARTS \in Nat /\ MAX_VALUE \in Nat /\ MAX_STORE \in Nat
  /\ None \notin Tabs
  /\ \A i \in Instances :
       i.tabs \subseteq Tabs /\ i.operations \subseteq {"Get", "Set"}
       /\ i.deaths \in Nat /\ i.failures \in Nat

VARIABLES
  instance,     \* the element of Instances this behaviour is of
  asking,       \* the tabs whose renderer waits for an answer
  pending,      \* pending_storage: the tabs the loop owes an answer
  inbox,        \* asks of tabs, replies for tabs and the service's end, in order
  loop,         \* the request the loop is writing to the service
  requests,     \* the socket buffer to the service
  replies,      \* the socket buffer back
  service,      \* alive, or dead
  serving,      \* the reply the service is writing
  reader,       \* the reply the reader thread took from the socket
  attached,     \* the reader thread runs
  permits,      \* free permits of the gate
  restarts,     \* respawns inside the window
  deaths,       \* deaths so far, for the bound
  failures,     \* failed writes so far, for the bound
  quota,        \* used, and the size of each slot
  disk,         \* what is in the file each slot is hashed to
  torn          \* the slots whose last write failed

link == <<requests, replies, service, serving, reader, attached, permits>>
store == <<quota, disk, torn, failures>>
vars == <<instance, asking, pending, inbox, loop, link, restarts, deaths, store>>

Message == [kind : {"ask", "reply"}, tab : Tabs]
Ask(t) == [kind |-> "ask", tab |-> t]
Reply(t) == [kind |-> "reply", tab |-> t]
Gone == [kind |-> "gone", tab |-> None]

NewQuota == [used |-> 0, sizes |-> [s \in Slots |-> 0]]

Init ==
  /\ instance \in Instances
  /\ asking = {} /\ pending = {} /\ inbox = <<>> /\ loop = None
  /\ requests = <<>> /\ replies = <<>> /\ service = "alive" /\ serving = None
  /\ reader = None /\ attached = TRUE /\ permits = MAX_QUEUED_PER_SOURCE
  /\ restarts = 0 /\ deaths = 0 /\ failures = 0
  /\ quota = NewQuota
  /\ disk = [s \in Slots |-> 0]
  /\ torn = {}

-----------------------------------------------------------------------------
(* Renderers.                                                              *)

NeedStorage(t) ==
  /\ t \in instance.tabs \ asking
  /\ asking' = asking \cup {t}
  /\ inbox' = Append(inbox, Ask(t))
  /\ UNCHANGED <<instance, pending, loop, link, restarts, deaths, store>>

-----------------------------------------------------------------------------
(* The loop.                                                               *)

Head1(kind) == loop = None /\ inbox # <<>> /\ Head(inbox).kind = kind

(* The request is entered before it is written; the write blocks while the *)
(* buffer is full and fails once the service's end is closed.              *)
TabRequest ==
  /\ Head1("ask")
  /\ loop' = Head(inbox).tab
  /\ pending' = pending \cup {Head(inbox).tab}
  /\ inbox' = Tail(inbox)
  /\ UNCHANGED <<instance, asking, link, restarts, deaths, store>>

WriteRequest ==
  /\ loop # None /\ service = "alive" /\ Len(requests) < Room
  /\ requests' = Append(requests, loop)
  /\ loop' = None
  /\ UNCHANGED <<instance, asking, pending, inbox, replies, service, serving, reader,
                 attached, permits, restarts, deaths, store>>

WriteFails ==
  /\ loop # None /\ service = "dead"
  /\ pending' = pending \ {loop}
  /\ asking' = asking \ {loop}
  /\ loop' = None
  /\ UNCHANGED <<instance, inbox, link, restarts, deaths, store>>

StorageReplyKeepsPermit ==
  /\ Head1("reply")
  /\ asking' = IF Head(inbox).tab \in pending THEN asking \ {Head(inbox).tab} ELSE asking
  /\ pending' = pending \ {Head(inbox).tab}
  /\ permits' = IF Head(inbox).tab \in pending THEN permits ELSE permits + 1
  /\ inbox' = Tail(inbox)
  /\ UNCHANGED <<instance, loop, requests, replies, service, serving, reader, attached,
                 restarts, deaths, store>>

(* The reply is relayed if it is owed; its permit goes back either way.    *)
StorageReply ==
  /\ Head1("reply")
  /\ asking' = IF Head(inbox).tab \in pending THEN asking \ {Head(inbox).tab} ELSE asking
  /\ pending' = pending \ {Head(inbox).tab}
  /\ permits' = permits + 1
  /\ inbox' = Tail(inbox)
  /\ UNCHANGED <<instance, loop, requests, replies, service, serving, reader, attached,
                 restarts, deaths, store>>

(* What was in flight fails; a fresh process gets a fresh link, gate and   *)
(* budget, and a fresh hash key: its slots are files nobody wrote.  When   *)
(* the bound is hit the loop keeps the dead link.  A spawn that fails ends *)
(* the engine (spawn_inherited panics), which is not a step of this module.*)
Respawned ==
  /\ restarts < MAX_SERVICE_RESTARTS
  /\ restarts' = restarts + 1
  /\ requests' = <<>> /\ replies' = <<>>
  /\ service' = "alive" /\ serving' = None
  /\ reader' = None /\ attached' = TRUE /\ permits' = MAX_QUEUED_PER_SOURCE
  /\ quota' = NewQuota
  /\ disk' = [s \in Slots |-> 0] /\ torn' = {}
  /\ UNCHANGED failures

GivesUp ==
  /\ restarts = MAX_SERVICE_RESTARTS
  /\ UNCHANGED <<restarts, link, store>>

RespawnService ==
  /\ Head1("gone")
  /\ inbox' = Tail(inbox)
  /\ asking' = asking \ pending
  /\ pending' = {}
  /\ Respawned \/ GivesUp
  /\ UNCHANGED <<instance, loop, deaths>>

(* A respawn leaves the window.                                            *)
RestartAges ==
  /\ restarts > 0
  /\ restarts' = restarts - 1
  /\ UNCHANGED <<instance, asking, pending, inbox, loop, link, deaths, store>>

-----------------------------------------------------------------------------
(* The reader thread.                                                      *)

Recv ==
  /\ attached /\ reader = None /\ replies # <<>>
  /\ reader' = Head(replies)
  /\ replies' = Tail(replies)
  /\ UNCHANGED <<instance, asking, pending, inbox, loop, requests, service, serving,
                 attached, permits, restarts, deaths, store>>

Forward ==
  /\ reader # None /\ permits > 0
  /\ permits' = permits - 1
  /\ inbox' = Append(inbox, Reply(reader))
  /\ reader' = None
  /\ UNCHANGED <<instance, asking, pending, loop, requests, replies, service, serving,
                 attached, restarts, deaths, store>>

(* The end of a dead process's link comes after everything it wrote.       *)
ReportDeath ==
  /\ attached /\ reader = None /\ replies = <<>> /\ service = "dead"
  /\ attached' = FALSE
  /\ inbox' = Append(inbox, Gone)
  /\ UNCHANGED <<instance, asking, pending, loop, requests, replies, service, serving,
                 reader, permits, restarts, deaths, store>>

-----------------------------------------------------------------------------
(* The storage service.                                                    *)

AdmitFresh(used, old, new) == IF used + new <= MAX_STORE THEN {used + new} ELSE {}

(* The total with new bytes in place of old ones, if the store holds it.   *)
AdmitWrite(used, old, new) ==
  LET projected == (IF used > old THEN used - old ELSE 0) + new
  IN IF projected <= MAX_STORE THEN {projected} ELSE {}

(* A value too large, or one the store does not hold, is refused.          *)
Refused(s, size) ==
  /\ size > MAX_VALUE \/ AdmitWrite(quota.used, quota.sizes[s], size) = {}
  /\ UNCHANGED store

Landed(s, size) ==
  /\ size <= MAX_VALUE
  /\ \E projected \in AdmitWrite(quota.used, quota.sizes[s], size) :
       quota' = [used |-> projected, sizes |-> [quota.sizes EXCEPT ![s] = size]]
  /\ disk' = [disk EXCEPT ![s] = size]
  /\ torn' = torn \ {s}
  /\ UNCHANGED failures

(* The write fails: in the open, which leaves the file, or after it was    *)
(* truncated and part of the value written.  The accounting stands.        *)
Failed(s, size) ==
  /\ size <= MAX_VALUE
  /\ AdmitWrite(quota.used, quota.sizes[s], size) # {}
  /\ failures < instance.failures
  /\ failures' = failures + 1
  /\ \/ UNCHANGED <<disk, torn>>
     \/ \E part \in 0 .. size :
          part < size /\ disk' = [disk EXCEPT ![s] = part] /\ torn' = torn \cup {s}
  /\ UNCHANGED quota

Handle(operation) ==
  \/ operation = "Get" /\ UNCHANGED store
  \/ /\ operation = "Set"
     /\ \E s \in Slots, size \in 0 .. MAX_VALUE + 1 :
          Refused(s, size) \/ Landed(s, size) \/ Failed(s, size)

Serve ==
  /\ service = "alive" /\ serving = None /\ requests # <<>>
  /\ serving' = Head(requests)
  /\ requests' = Tail(requests)
  /\ \E operation \in instance.operations : Handle(operation)
  /\ UNCHANGED <<instance, asking, pending, inbox, loop, replies, service, reader,
                 attached, permits, restarts, deaths>>

SendReply ==
  /\ service = "alive" /\ serving # None /\ Len(replies) < Room
  /\ replies' = Append(replies, serving)
  /\ serving' = None
  /\ UNCHANGED <<instance, asking, pending, inbox, loop, requests, service, reader,
                 attached, permits, restarts, deaths, store>>

Dies ==
  /\ service = "alive" /\ deaths < instance.deaths
  /\ deaths' = deaths + 1
  /\ service' = "dead"
  /\ serving' = None
  /\ requests' = <<>>
  /\ UNCHANGED <<instance, asking, pending, inbox, loop, replies, reader, attached,
                 permits, restarts, store>>

-----------------------------------------------------------------------------
Loop == TabRequest \/ WriteRequest \/ WriteFails \/ StorageReply \/ RespawnService
Reader == Recv \/ Forward \/ ReportDeath
Service == Serve \/ SendReply

Next ==
  \/ \E t \in Tabs : NeedStorage(t)
  \/ Loop \/ Reader \/ Service \/ RestartAges \/ Dies

(* Three threads that run when they can.                                   *)
Spec == Init /\ [][Next]_vars /\ WF_vars(Loop) /\ WF_vars(Reader) /\ WF_vars(Service)

-----------------------------------------------------------------------------
(* The types of the state; the loop owes answers only to renderers that    *)
(* wait for one.                                                           *)
TypeOK ==
  /\ pending \subseteq asking /\ asking \subseteq instance.tabs
  /\ inbox \in Seq(Message \cup {Gone})
  /\ loop \in Tabs \cup {None} /\ serving \in Tabs \cup {None}
  /\ reader \in Tabs \cup {None}
  /\ requests \in Seq(Tabs) /\ Len(requests) <= Room
  /\ replies \in Seq(Tabs) /\ Len(replies) <= Room
  /\ service \in {"alive", "dead"} /\ attached \in BOOLEAN
  /\ permits \in 0 .. MAX_QUEUED_PER_SOURCE
  /\ restarts \in 0 .. MAX_SERVICE_RESTARTS
  /\ quota \in [used : Nat, sizes : [Slots -> 0 .. MAX_VALUE]]
  /\ disk \in [Slots -> 0 .. MAX_VALUE]

(* The units counted for the slots, one by one.                            *)
Counted == {unit \in Slots \X (1 .. MAX_VALUE) : unit[2] <= quota.sizes[unit[1]]}

(* The budget is never passed and never wrong: what is counted is the sum  *)
(* of the slots' sizes, a replaced value once, a failed write not at all,  *)
(* and every file whose last write landed is as large as it is counted,    *)
(* through deaths and respawns of the service (storage.rs:50-55).          *)
QuotaIsTrue ==
  /\ TypeOK
  /\ quota.used = Cardinality(Counted) /\ quota.used <= MAX_STORE
  /\ \A s \in Slots \ torn : disk[s] = quota.sizes[s]

(* The loop waits for the service to read, the service for the reader to   *)
(* take its reply, the reader for a permit, and the permits are messages   *)
(* in the inbox only the loop can take.                                    *)
AllWait ==
  /\ loop # None /\ Len(requests) = Room
  /\ service = "alive" /\ serving # None /\ Len(replies) = Room
  /\ reader # None /\ permits = 0

(* "The loop never blocks on any one component" (README.md:236): it is     *)
(* never in a write that nothing but a death of the service would end      *)
(* (engine.rs:1328, 1340).                                                 *)
LoopNeverBlocks == ~AllWait

(* Every storage request of a renderer is answered: by the service, by a   *)
(* failed write, or by the failure of what was in flight when the service  *)
(* died, respawned or given up (engine.rs:1491-1502).                      *)
EveryAskIsAnswered == \A t \in Tabs : (t \in asking) ~> (t \notin asking)
=============================================================================
