------------------------------- MODULE Inbox --------------------------------
(***************************************************************************)
(* The threads that feed the broker's single inbox (src/src/engine.rs) and *)
(* the gates that bound them: one reader thread per component link, a      *)
(* counting semaphore per link, one unbounded queue, one loop.             *)
(*                                                                         *)
(* Every critical section of a gate, every queue operation and every       *)
(* socket read is one action, so that a reader can be caught between the   *)
(* check of the gate and the message it then sends.  A link is named by    *)
(* its source and its generation (the epoch of a tab; the n-th process of  *)
(* a service).  What a message asks for is module Broker.                  *)
(***************************************************************************)
EXTENDS Naturals, Sequences, FiniteSets

CONSTANTS
  TabIds, Services,         \* the tabs, the respawnable services
  Net,                      \* the net component: its reader reports no death
                            \* (a set, to leave it out of an instance)
  MAX_QUEUED_PER_SOURCE,    \* permits of a gate
  MAX_SERVICE_RESTARTS,     \* respawns of a service within the window
  GenerationBound,          \* bound on the generations of one source
  SocketBound,              \* bound on messages in one socket
  Instances,                \* what a behaviour may have: the sources that take
                            \* part, and bounds on the embedder's commands and on
                            \* the swaps of a tab
  None                      \* no generation

ASSUME InboxAssumption ==
  /\ MAX_QUEUED_PER_SOURCE \in Nat \ {0}
  /\ MAX_SERVICE_RESTARTS \in Nat
  /\ GenerationBound \in Nat /\ GenerationBound > MAX_SERVICE_RESTARTS /\ SocketBound \in Nat
  /\ \A i \in Instances :
       i.sources \subseteq TabIds \cup Services \cup Net /\ i.commands \in Nat /\ i.swaps \in Nat
  /\ None \notin Nat
  /\ TabIds \cap Services = {} /\ Net \cap (TabIds \cup Services) = {}

Source     == TabIds \cup Services \cup Net
Generation == 0 .. GenerationBound - 1
Link       == Source \X Generation

VARIABLES
  instance,    \* the element of Instances this behaviour is of
  running,     \* FALSE once the loop has returned and dropped its receiver
  current,     \* source -> the generation the loop holds a link to
  made,        \* source -> generations spawned so far
  permits, closed,  \* the gate of each link
  reader,      \* the reader thread of each link
  peer,        \* the process at the far end of each link
  backlog,     \* messages in each link's socket
  inbox,       \* the queue
  restarts,    \* service -> restarts inside the window
  sent,        \* commands sent so far
  (* history, read by the properties only *)
  mourned      \* the links of services whose death the loop has handled

gates == <<permits, closed>>
vars == <<instance, running, current, made, permits, closed, reader, peer, backlog,
          inbox, restarts, sent, mourned>>

(* A thread is blocked in recv, in acquire, about to push, past its loop,  *)
(* about to report a death, or finished.                                   *)
ReaderState == {"none", "recv", "acquire", "push", "eof", "report", "done"}

Init ==
  /\ instance \in Instances
  /\ running = TRUE
  /\ current = [s \in Source |-> IF s \in instance.sources \ TabIds THEN 0 ELSE None]
  /\ made = [s \in Source |-> IF s \in TabIds THEN 0 ELSE 1]
  /\ permits = [l \in Link |-> MAX_QUEUED_PER_SOURCE]
  /\ closed = [l \in Link |-> FALSE]
  /\ reader = [l \in Link |-> IF current[l[1]] = l[2] THEN "recv" ELSE "none"]
  /\ peer = [l \in Link |-> IF current[l[1]] = l[2] THEN "alive" ELSE "none"]
  /\ backlog = [l \in Link |-> 0]
  /\ inbox = <<>>
  /\ restarts = [s \in Services |-> 0]
  /\ sent = 0
  /\ mourned = {}

-----------------------------------------------------------------------------
(* The far end and the embedder.                                           *)

PeerWrites(l) ==
  /\ peer[l] = "alive" /\ backlog[l] < SocketBound
  /\ backlog' = [backlog EXCEPT ![l] = @ + 1]
  /\ UNCHANGED <<instance, running, current, made, gates, reader, peer, inbox, restarts, sent, mourned>>

(* A crash, a kill, or an exit on Shutdown; what it wrote stays readable.  *)
PeerEnds(l) ==
  /\ peer[l] = "alive"
  /\ peer' = [peer EXCEPT ![l] = "gone"]
  /\ UNCHANGED <<instance, running, current, made, gates, reader, backlog, inbox, restarts, sent, mourned>>

Command == [what : {"open", "navigate", "close"}, of : TabIds]
           \cup [what : {"shutdown"}, of : {None}]

(* EngineHandle::send.                                                     *)
Send(c) ==
  /\ running /\ sent < instance.commands
  /\ c.of \in instance.sources \cup {None}
  /\ sent' = sent + 1
  /\ inbox' = Append(inbox, c)
  /\ UNCHANGED <<instance, running, current, made, gates, reader, peer, backlog, restarts, mourned>>

-----------------------------------------------------------------------------
(* The reader threads.                                                     *)

Goto(l, state) == reader' = [reader EXCEPT ![l] = state]

(* A message is read.  A tile that fails validation, or a streamed         *)
(* response without its ring, ends the loop of the thread.                 *)
Recv(l) ==
  /\ reader[l] = "recv" /\ backlog[l] > 0
  /\ backlog' = [backlog EXCEPT ![l] = @ - 1]
  /\ Goto(l, "acquire") \/ (l[1] \in TabIds \cup Net /\ Goto(l, "eof"))
  /\ UNCHANGED <<instance, running, current, made, gates, peer, inbox, restarts, sent, mourned>>

(* recv fails once the peer is gone and its socket is drained.             *)
Eof(l) ==
  /\ reader[l] = "recv" /\ backlog[l] = 0 /\ peer[l] = "gone"
  /\ Goto(l, "eof")
  /\ UNCHANGED <<instance, running, current, made, gates, peer, backlog, inbox, restarts, sent, mourned>>

(* Where a thread goes whose acquire or push failed: a tab's returns, the  *)
(* others leave their loop.                                                *)
Stopped(l) == IF l[1] \in TabIds THEN "done" ELSE "eof"

(* Broken variant: a closed gate is noticed only while permits are free.   *)
AcquireMissingClose(l) ==
  /\ reader[l] = "acquire" /\ permits[l] > 0
  /\ IF closed[l] THEN Goto(l, Stopped(l)) /\ UNCHANGED permits
     ELSE permits' = [permits EXCEPT ![l] = @ - 1] /\ Goto(l, "push")
  /\ UNCHANGED <<instance, running, current, made, closed, peer, backlog, inbox, restarts, sent, mourned>>

(* Gate::acquire, enabled when it does not block.                          *)
Acquire(l) ==
  /\ reader[l] = "acquire"
  /\ \/ closed[l] /\ Goto(l, Stopped(l)) /\ UNCHANGED permits
     \/ /\ ~closed[l] /\ permits[l] > 0
        /\ permits' = [permits EXCEPT ![l] = @ - 1]
        /\ Goto(l, "push")
  /\ UNCHANGED <<instance, running, current, made, closed, peer, backlog, inbox, restarts, sent, mourned>>

Push(l) ==
  /\ reader[l] = "push"
  /\ IF running
     THEN inbox' = Append(inbox, [what |-> "message", of |-> l]) /\ Goto(l, "recv")
     ELSE UNCHANGED inbox /\ Goto(l, Stopped(l))
  /\ UNCHANGED <<instance, running, current, made, gates, peer, backlog, restarts, sent, mourned>>

(* Broken variant: a death is reported only when the gate is closed.       *)
CheckClosedInverted(l) ==
  /\ reader[l] = "eof"
  /\ Goto(l, IF ~closed[l] \/ l[1] \in Net THEN "done" ELSE "report")
  /\ UNCHANGED <<instance, running, current, made, gates, peer, backlog, inbox, restarts, sent, mourned>>

(* Past its loop a thread asks whether the gate was closed on purpose; the *)
(* reader of the net component does not ask and reports nothing.           *)
CheckClosed(l) ==
  /\ reader[l] = "eof"
  /\ Goto(l, IF closed[l] \/ l[1] \in Net THEN "done" ELSE "report")
  /\ UNCHANGED <<instance, running, current, made, gates, peer, backlog, inbox, restarts, sent, mourned>>

(* TabGone, ServiceGone.                                                   *)
Report(l) ==
  /\ reader[l] = "report"
  /\ inbox' = IF running THEN Append(inbox, [what |-> "gone", of |-> l]) ELSE inbox
  /\ Goto(l, "done")
  /\ UNCHANGED <<instance, running, current, made, gates, peer, backlog, restarts, sent, mourned>>

Reader(l) == Recv(l) \/ Eof(l) \/ Acquire(l) \/ Push(l) \/ CheckClosed(l) \/ Report(l)

-----------------------------------------------------------------------------
(* The loop.                                                               *)

Live(t) == current[t] # None
LiveTabs == {t \in TabIds : Live(t)}
Fresh(s) == <<s, made[s]>>
CurrentLinks == {l \in Link : current[l[1]] = l[2]}
Behind(ts) == {l \in CurrentLinks : l[1] \in ts}

(* The links `gone` leave the loop; each source of `spawned` gets a new    *)
(* generation with its own gate and reader thread.                         *)
Relink(gone, spawned) ==
  /\ current' = [s \in Source |->
       IF s \in spawned THEN made[s]
       ELSE IF \E l \in gone : l[1] = s THEN None ELSE current[s]]
  /\ made' = [s \in Source |-> IF s \in spawned THEN made[s] + 1 ELSE made[s]]
  /\ reader' = [l \in Link |->
       IF l[1] \in spawned /\ l = Fresh(l[1]) THEN "recv" ELSE reader[l]]
  /\ peer' = [l \in Link |->
       IF l[1] \in spawned /\ l = Fresh(l[1]) THEN "alive" ELSE peer[l]]

CloseGates(gone) == closed' = [l \in Link |-> closed[l] \/ l \in gone]

(* drop_tab_crashed of the tabs ts.                                        *)
DropCrashed(ts) == Relink(Behind(ts), {}) /\ CloseGates(Behind(ts))

Release(l) == permits' = [permits EXCEPT ![l] = @ + 1]

(* Broken variant: the permit goes to the gate of whatever link the source *)
(* has now.                                                                *)
GateOfCurrent(l) == IF Live(l[1]) THEN <<l[1], current[l[1]]>> ELSE l

(* Broken variant: a component's permits go to the gate it started with.   *)
GateOfStartup(l) == IF l[1] \in TabIds THEN l ELSE <<l[1], 0>>

(* The gate a handled message's permit goes back to: a tab's message       *)
(* carries its gate, the others use the gate the loop has for the source.  *)
GateOf(l) == IF l[1] \in TabIds THEN l ELSE <<l[1], current[l[1]]>>

(* A tab's request is handled if its generation is current, and a failed   *)
(* write may drop that tab; a component's reply may drop the tab it is     *)
(* for.  The permit goes back in every case.                               *)
HandleMessage(l) ==
  /\ \/ \E t \in TabIds :
          /\ Live(t) /\ (l[1] \in TabIds => l = <<t, current[t]>>)
          /\ DropCrashed({t})
     \/ UNCHANGED <<current, made, closed, reader, peer>>
  /\ Release(GateOf(l))
  /\ UNCHANGED <<instance, running, backlog, restarts, sent, mourned>>

(* Broken variant: TabGone without the test of the epoch.                  *)
HandleTabGoneOfAny(l) ==
  /\ IF Live(l[1]) THEN DropCrashed({l[1]})
                   ELSE UNCHANGED <<current, made, closed, reader, peer>>
  /\ UNCHANGED <<instance, running, permits, backlog, restarts, sent, mourned>>

HandleTabGone(l) ==
  /\ IF current[l[1]] = l[2] THEN DropCrashed({l[1]})
                             ELSE UNCHANGED <<current, made, closed, reader, peer>>
  /\ UNCHANGED <<instance, running, permits, backlog, restarts, sent, mourned>>

(* respawn_service: the requests in flight are failed, which may drop any  *)
(* of the tabs; then a new process and gate replace the dead ones, unless  *)
(* the bound is reached.  (A spawn that fails is a panic of the loop, and  *)
(* left out.)                                                              *)
HandleServiceGone(l) ==
  LET s == l[1] IN
  /\ \E ts \in SUBSET LiveTabs :
       \/ /\ restarts[s] < MAX_SERVICE_RESTARTS /\ made[s] < GenerationBound
          /\ restarts' = [restarts EXCEPT ![s] = @ + 1]
          /\ Relink(Behind(ts \cup {s}), {s})
          /\ CloseGates(Behind(ts))
       \/ /\ restarts[s] >= MAX_SERVICE_RESTARTS /\ UNCHANGED restarts
          /\ DropCrashed(ts)
  /\ mourned' = mourned \cup {l}
  /\ UNCHANGED <<instance, running, permits, backlog, sent>>

(* The window slides past one recorded restart; that of a service that may *)
(* die again as long as the bound on generations leaves room for every     *)
(* respawn that then is allowed.  A service that was given up is not tried *)
(* again: nothing reports its death a second time.                         *)
RestartAges(s) ==
  /\ running /\ restarts[s] > 0
  /\ \/ <<s, current[s]>> \in mourned
     \/ made[s] + (MAX_SERVICE_RESTARTS - restarts[s]) < GenerationBound
  /\ restarts' = [restarts EXCEPT ![s] = @ - 1]
  /\ UNCHANGED <<instance, running, current, made, gates, reader, peer, backlog, inbox, sent, mourned>>

(* open_tab: the tab id is new; a refusal or a failed spawn changes        *)
(* nothing here.                                                           *)
OpenTab(t) ==
  /\ \/ made[t] = 0 /\ Relink({}, {t})
     \/ UNCHANGED <<current, made, reader, peer>>
  /\ UNCHANGED <<instance, running, gates, backlog, restarts, sent, mourned>>

CloseTab(t) ==
  /\ Relink(Behind({t}), {}) /\ CloseGates(Behind({t}))
  /\ UNCHANGED <<instance, running, permits, backlog, restarts, sent, mourned>>

(* TabCommand::Navigate: within the origin, or into a crash loop, nothing  *)
(* changes here; else swap_renderer closes the old gate first, and the     *)
(* spawn may fail.                                                         *)
Navigate(t) ==
  /\ \/ UNCHANGED <<current, made, closed, reader, peer>>
     \/ /\ Live(t)
        /\ CloseGates(Behind({t}))
        /\ \/ /\ made[t] <= instance.swaps /\ made[t] < GenerationBound
              /\ Relink(Behind({t}), {t})
           \/ Relink(Behind({t}), {})
  /\ UNCHANGED <<instance, running, permits, backlog, restarts, sent, mourned>>

(* Every gate is closed, every process killed or told to exit.             *)
Shutdown ==
  /\ running' = FALSE
  /\ Relink(CurrentLinks, {}) /\ CloseGates(CurrentLinks)
  /\ UNCHANGED <<instance, permits, backlog, restarts, sent, mourned>>

Handle(m) ==
  \/ m.what = "message"  /\ HandleMessage(m.of)
  \/ m.what = "gone"     /\ m.of[1] \in TabIds /\ HandleTabGone(m.of)
  \/ m.what = "gone"     /\ m.of[1] \in Services /\ HandleServiceGone(m.of)
  \/ m.what = "open"     /\ OpenTab(m.of)
  \/ m.what = "close"    /\ CloseTab(m.of)
  \/ m.what = "navigate" /\ Navigate(m.of)
  \/ m.what = "shutdown" /\ Shutdown

Loop ==
  /\ running /\ inbox # <<>>
  /\ Handle(Head(inbox))
  /\ inbox' = Tail(inbox)

-----------------------------------------------------------------------------

Next ==
  \/ \E l \in Link : PeerWrites(l) \/ PeerEnds(l) \/ Reader(l)
  \/ \E c \in Command : Send(c)
  \/ \E s \in Services : RestartAges(s)
  \/ Loop

(* The scheduler runs every thread that can run: the loop and each reader. *)
(* Nothing is assumed of the components or of the embedder.                *)
Fairness == WF_vars(Loop) /\ \A l \in Link : WF_vars(Reader(l))

Spec == Init /\ [][Next]_vars /\ Fairness

-----------------------------------------------------------------------------
(* Properties.                                                             *)

Message == [what : {"message", "gone"}, of : Link] \cup Command

(* The types of the shared state.                                          *)
TypeOK ==
  /\ instance \in Instances
  /\ running \in BOOLEAN
  /\ current \in [Source -> Generation \cup {None}]
  /\ made \in [Source -> 0 .. GenerationBound]
  /\ permits \in [Link -> 0 .. MAX_QUEUED_PER_SOURCE]
  /\ closed \in [Link -> BOOLEAN]
  /\ reader \in [Link -> ReaderState]
  /\ peer \in [Link -> {"none", "alive", "gone"}]
  /\ backlog \in [Link -> 0 .. SocketBound]
  /\ inbox \in Seq(Message)
  /\ restarts \in [Services -> 0 .. MAX_SERVICE_RESTARTS]
  /\ sent \in 0 .. instance.commands
  /\ mourned \in SUBSET Link

(* The positions of the queue that hold what link l's reader pushed.       *)
Queued(l, what) == {i \in DOMAIN inbox : inbox[i].what = what /\ inbox[i].of = l}

(* Every permit of every gate is either free, in the hand of the gate's    *)
(* own reader, or under one queued message of that reader: the permit of a *)
(* message goes back to the gate it was taken from although a service's    *)
(* message does not say which (engine.rs:800, 839, 843).  So no source     *)
(* ever has more than its share of the queue, respawned or not.            *)
PermitsConserved ==
  /\ TypeOK
  /\ \A l \in Link : running =>
       permits[l] + Cardinality(Queued(l, "message"))
         + (IF reader[l] = "push" THEN 1 ELSE 0) = MAX_QUEUED_PER_SOURCE

(* A report of a death ends the link that died and nothing that lives: not *)
(* the generation that replaced it, not a service that is already back, no *)
(* link of another source, except tabs that could not be written to when   *)
(* the requests in flight with a service were failed.  Nothing but that    *)
(* service starts anew, and no gate is closed of a link that stays         *)
(* (engine.rs:812-824, 845-847, 1482-1530).                                *)
DeathEndsOnlyTheDead ==
  [][\A l \in Link :
       (inbox # <<>> /\ inbox' = Tail(inbox) /\ Head(inbox) = [what |-> "gone", of |-> l])
         => /\ \A s \in Source :
                 \/ current'[s] = current[s]
                 \/ s = l[1] /\ current[s] = l[2]
                 \/ s \in TabIds /\ l[1] \in Services /\ current'[s] = None
            /\ \A k \in Link : closed'[k] => closed[k] \/ current'[k[1]] # k[2]]_vars

(* A reader never stays blocked on its gate: the loop gives it a permit or *)
(* a teardown releases it (engine.rs:341-347).                             *)
NobodyStuckAtGate ==
  \A l \in Link : reader[l] = "acquire" ~> reader[l] # "acquire"

(* A tab or service whose process dies while the loop relies on it is      *)
(* cleaned up, respawned or given up, however much it had queued.          *)
DeathIsHandled ==
  \A l \in {k \in Link : k[1] \notin Net} :
    (running /\ peer[l] = "gone" /\ l \in CurrentLinks)
      ~> (~running \/ l \notin CurrentLinks \/ l \in mourned)
=============================================================================
