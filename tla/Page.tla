-------------------------------- MODULE Page --------------------------------
(***************************************************************************)
(* A page load: the conversation of one renderer (src/src/renderer.rs)     *)
(* with the event loop and its reader thread (src/src/engine.rs), and the  *)
(* end of both when the tab is closed.                                     *)
(*                                                                         *)
(* The renderer asks and blocks for the next message on its link, whatever *)
(* it is; the loop writes answers, but also commands, to that link.  The   *)
(* renderer may be forked by the fork server (nobody kills or joins it),   *)
(* a child process (killed, then joined) or a thread (joined).  A swap of  *)
(* the renderer ends the old one exactly as Close does; the new one may    *)
(* then be sent what the tab still owes the old one.  What is left of a    *)
(* message whose write failed is no message: its reader waits for the rest.*)
(***************************************************************************)
EXTENDS Naturals, Sequences

CONSTANTS
  Hostings,         \* the ways a renderer may be hosted in this instance
  NavigationBound,  \* bound on same-origin navigations
  StaleBound        \* bound on the cookie answers owed to earlier renderers

ASSUME PageAssumption ==
  /\ Hostings \subseteq {"forked", "process", "thread"}
  /\ NavigationBound \in Nat \ {0} /\ StaleBound \in Nat

(* The questions of a page load, in order.                                 *)
Exchanges == <<"NeedFetch", "NeedCookies", "NeedDecode", "NeedStorage",
               "NeedStorage", "NeedFont", "NeedSubresource",
               "NeedSubresource", "NeedSubresource">>

Step == 1 .. Len(Exchanges)
Url  == 1 .. NavigationBound
Question == [url : Url, step : Step]

ToRenderer   == [what : {"RenderPage"}, url : Url] \cup [what : {"Shutdown", "fd", "stale"}]
                \cup [what : {"answer"}, to : Question, stream : BOOLEAN]
FromRenderer == [what : {"ask"}, q : Question] \cup [what : {"tile"}, url : Url]

VARIABLES
  (* the event loop *)
  hosting, tab, navigations, pending, stale, inbox, frames,
  (* the reader thread, the link both ways *)
  reader, up, down,
  (* the renderer *)
  renderer, at, garbled,
  (* history, read by the properties only *)
  strays,     \* the kinds of message, no answers to it, taken for an answer
  mixed,      \* an answer was taken for another question's
  abandoned   \* the renderer was let go alive, without Shutdown

vars == <<hosting, tab, navigations, pending, stale, inbox, frames, reader, up, down,
          renderer, at, garbled, strays, mixed, abandoned>>

(* A renderer starts with a tab, or replaces the renderer of one: then the *)
(* command to render comes with it, and cookie answers to the old one may  *)
(* be outstanding (swap_renderer does not purge pending_cookies).  Only    *)
(* the vault, so only a fork-served renderer, answers cookies later.       *)
Opened  == navigations = 0 /\ down = <<>> /\ stale = 0
Swapped ==
  /\ navigations = 1 /\ down = <<[what |-> "RenderPage", url |-> 1]>>
  /\ stale \in IF hosting = "forked" THEN 0 .. StaleBound ELSE {0}

Init ==
  /\ hosting \in Hostings /\ tab = "open" /\ (Opened \/ Swapped)
  /\ pending = {} /\ inbox = <<>> /\ frames = 0
  /\ reader = "recv" /\ up = <<>>
  /\ renderer = "idle" /\ at = [url |-> 1, step |-> 1] /\ garbled = FALSE
  /\ strays = {} /\ mixed = FALSE /\ abandoned = FALSE

-----------------------------------------------------------------------------
(* The link.  The halves of a socket are the same socket: it is closed     *)
(* when both are dropped.  In-process halves are separate channels.        *)

TxAlive == tab # "gone"
RxAlive == reader # "gone"

RendererCanSend == RxAlive \/ (hosting # "thread" /\ TxAlive)
RendererSeesEof == down = <<>> /\ ~TxAlive /\ (hosting = "thread" \/ ~RxAlive)

-----------------------------------------------------------------------------
(* The renderer.                                                           *)

Ends == renderer' = "gone" /\ UNCHANGED <<at, up>>

Ask(q) ==
  IF RendererCanSend
  THEN renderer' = "waiting" /\ at' = q /\ up' = Append(up, [what |-> "ask", q |-> q])
  ELSE Ends

SendTile ==
  IF RendererCanSend
  THEN renderer' = "idle" /\ up' = Append(up, [what |-> "tile", url |-> at.url]) /\ UNCHANGED at
  ELSE Ends

(* serve, outside of an exchange.                                          *)
Serve ==
  /\ renderer = "idle" /\ ~garbled /\ down # <<>> /\ Head(down).what # "fd"
  /\ down' = Tail(down)
  /\ \/ Head(down).what = "RenderPage" /\ Ask([url |-> Head(down).url, step |-> 1])
     \/ Head(down).what = "Shutdown" /\ Ends
     \/ Head(down).what \in {"answer", "stale"} /\ UNCHANGED <<renderer, at, up>>
  /\ UNCHANGED <<hosting, tab, navigations, pending, stale, inbox, frames, reader,
                 garbled, strays, mixed, abandoned>>

(* Broken variant: the descriptor of a streamed body is left in the link.  *)
AdoptedNever == Tail(down)

(* Only the fetch takes the descriptor behind a streamed answer.           *)
Adopted ==
  IF Exchanges[at.step] = "NeedFetch" /\ Head(down).what = "answer" /\ Head(down).stream
  THEN Tail(Tail(down)) ELSE Tail(down)

(* The answer of an exchange is the next message, of whatever kind; then   *)
(* the next question, or the tile.                                         *)
Exchange ==
  /\ renderer = "waiting" /\ ~garbled /\ down # <<>> /\ Head(down).what # "fd"
  /\ down' = Adopted
  /\ IF Head(down).what = "answer"
     THEN mixed' = (mixed \/ Head(down).to # at) /\ UNCHANGED strays
     ELSE strays' = strays \cup {Head(down).what} /\ mixed' = (mixed \/ Head(down).what = "stale")
  /\ IF at.step < Len(Exchanges)
     THEN Ask([at EXCEPT !.step = @ + 1])
     ELSE SendTile
  /\ UNCHANGED <<hosting, tab, navigations, pending, stale, inbox, frames, reader,
                 garbled, abandoned>>

(* The byte that carries a descriptor is read as the first of a length:    *)
(* from here on frames are out of step.  They are read into a frame far    *)
(* longer than what comes, until one is refused.                           *)
Garble ==
  /\ renderer # "gone" /\ ~garbled /\ down # <<>> /\ Head(down).what = "fd"
  /\ garbled' = TRUE /\ down' = Tail(down)
  /\ UNCHANGED <<hosting, tab, navigations, pending, stale, inbox, frames, reader, up,
                 renderer, at, strays, mixed, abandoned>>

Swallow ==
  /\ renderer # "gone" /\ garbled /\ down # <<>>
  /\ down' = Tail(down)
  /\ Ends \/ UNCHANGED <<renderer, at, up>>
  /\ UNCHANGED <<hosting, tab, navigations, pending, stale, inbox, frames, reader,
                 garbled, strays, mixed, abandoned>>

Eof ==
  /\ renderer # "gone" /\ RendererSeesEof
  /\ Ends
  /\ UNCHANGED <<hosting, tab, navigations, pending, stale, inbox, frames, reader, down,
                 garbled, strays, mixed, abandoned>>

Dies ==
  /\ renderer # "gone" /\ Ends
  /\ UNCHANGED <<hosting, tab, navigations, pending, stale, inbox, frames, reader, down,
                 garbled, strays, mixed, abandoned>>

Renderer == Serve \/ Exchange \/ Garble \/ Swallow \/ Eof

-----------------------------------------------------------------------------
(* The reader thread.                                                      *)

(* Broken variant: the gate of a closed tab stays open.                    *)
GateStaysOpen == TRUE

GateOpen == tab = "open"

Forward ==
  /\ reader = "recv" /\ up # <<>>
  /\ up' = Tail(up)
  /\ IF GateOpen
     THEN inbox' = Append(inbox, Head(up)) /\ UNCHANGED reader
     ELSE reader' = "gone" /\ UNCHANGED inbox
  /\ UNCHANGED <<hosting, tab, navigations, pending, stale, frames, down,
                 renderer, at, garbled, strays, mixed, abandoned>>

ReaderEnds ==
  /\ reader' = "gone"
  /\ inbox' = IF GateOpen THEN Append(inbox, [what |-> "TabGone"]) ELSE inbox
  /\ UNCHANGED <<hosting, tab, navigations, pending, stale, frames, down,
                 renderer, at, garbled, strays, mixed, abandoned>>

ReaderEof ==
  /\ reader = "recv" /\ up = <<>> /\ renderer = "gone"
  /\ ReaderEnds /\ UNCHANGED up

(* A tile in shared memory that fails validation ends the link, whatever   *)
(* the renderer does.                                                      *)
RejectTile ==
  /\ reader = "recv" /\ hosting = "forked" /\ up # <<>> /\ Head(up).what = "tile"
  /\ ReaderEnds /\ up' = Tail(up)

Reader == Forward \/ ReaderEof \/ RejectTile

-----------------------------------------------------------------------------
(* The event loop, blocked while it joins a renderer.                      *)

Running == tab # "closing"

Written(msgs) == down' = IF renderer # "gone" THEN down \o msgs ELSE down

(* A navigation inside the origin; the send may fail, nobody looks.        *)
Navigate ==
  /\ tab = "open" /\ navigations < NavigationBound
  /\ navigations' = navigations + 1
  /\ Written(<<[what |-> "RenderPage", url |-> navigations + 1]>>)
  /\ UNCHANGED <<hosting, tab, pending, stale, inbox, frames, reader, up,
                 renderer, at, garbled, strays, mixed, abandoned>>

(* The tab is taken out and its gate closed before Shutdown is sent; its   *)
(* sender is dropped when the handler returns, after the join.             *)
Close ==
  /\ tab = "open"
  /\ Written(<<[what |-> "Shutdown"]>>)
  /\ IF hosting = "thread"
     THEN tab' = "closing" /\ UNCHANGED <<pending, renderer>>
     ELSE /\ tab' = "gone" /\ pending' = {}
          /\ renderer' = IF hosting = "process" THEN "gone" ELSE renderer
  /\ UNCHANGED <<hosting, navigations, stale, inbox, frames, reader, up, at, garbled,
                 strays, mixed, abandoned>>

Join ==
  /\ tab = "closing" /\ renderer = "gone"
  /\ tab' = "gone" /\ pending' = {}
  /\ UNCHANGED <<hosting, navigations, stale, inbox, frames, reader, up, down,
                 renderer, at, garbled, strays, mixed, abandoned>>

(* drop_tab_crashed; a fork-served renderer is neither killed nor told.    *)
DropCrashed ==
  /\ tab' = "gone" /\ pending' = {} /\ UNCHANGED down
  /\ renderer' = IF hosting = "process" THEN "gone" ELSE renderer

(* The write to a renderer that does not read times out; a channel's       *)
(* never does.                                                             *)
TimesOut ==
  /\ hosting # "thread" /\ renderer # "gone"
  /\ DropCrashed /\ abandoned' = (hosting = "forked")

(* send_to_tab.                                                            *)
SendToTab(msgs, left) ==
  \/ renderer = "gone" /\ DropCrashed /\ UNCHANGED abandoned
  \/ TimesOut
  \/ /\ renderer # "gone" /\ Written(msgs) /\ pending' = left
     /\ UNCHANGED <<tab, renderer, abandoned>>

(* A fetch may be answered by a body streamed through a ring whose         *)
(* descriptor follows the answer.                                          *)
SendAnswer(q, left) ==
  \E stream \in {s \in BOOLEAN : s => /\ Exchanges[q.step] = "NeedFetch"
                                      /\ hosting = "forked"} :
    SendToTab(<<[what |-> "answer", to |-> q, stream |-> stream]>>
              \o IF stream THEN <<[what |-> "fd"]>> ELSE <<>>, left)

(* Broken variant: an answered question stays in the table.                *)
SettledNever(q) == pending

Settled(q) == pending \ {q}

(* The component behind a pending question answers.                        *)
Answer ==
  /\ tab = "open" /\ \E q \in pending : SendAnswer(q, Settled(q))
  /\ UNCHANGED <<hosting, navigations, stale, inbox, frames, reader, up,
                 at, garbled, strays, mixed>>

(* cookie_visible of a question that an earlier renderer of the tab asked. *)
LateCookies ==
  /\ tab = "open" /\ stale > 0 /\ stale' = stale - 1
  /\ SendToTab(<<[what |-> "stale"]>>, pending)
  /\ UNCHANGED <<hosting, navigations, inbox, frames, reader, up,
                 at, garbled, strays, mixed>>

HandOn(q) == pending' = pending \cup {q} /\ UNCHANGED <<tab, down, renderer, abandoned>>

(* Broken variant: a question that cannot be handed on is dropped.         *)
AskedSilently(q) == UNCHANGED <<tab, pending, down, renderer, abandoned>> \/ HandOn(q)

(* A question is answered in its handler (a refusal, the broker's own jar) *)
(* or handed on to a component.                                            *)
Asked(q) == SendAnswer(q, pending) \/ HandOn(q)

(* FromTab, ShmTile and TabGone of the inbox.                              *)
Handle ==
  LET m == Head(inbox) IN
  \/ tab # "open" /\ UNCHANGED <<tab, pending, down, renderer, abandoned, frames>>
  \/ tab = "open" /\ m.what = "ask" /\ Asked(m.q) /\ UNCHANGED frames
  \/ /\ tab = "open" /\ m.what = "tile"
     /\ frames' = frames + 1 /\ UNCHANGED <<tab, pending, down, renderer, abandoned>>
  \/ tab = "open" /\ m.what = "TabGone" /\ DropCrashed /\ UNCHANGED <<abandoned, frames>>

FromTab ==
  /\ Running /\ inbox # <<>> /\ inbox' = Tail(inbox)
  /\ Handle
  /\ UNCHANGED <<hosting, navigations, stale, reader, up, at, garbled, strays, mixed>>

-----------------------------------------------------------------------------
Next == Renderer \/ Dies \/ Reader \/ Navigate \/ Close \/ Join
        \/ Answer \/ LateCookies \/ FromTab

(* Processes and threads that can run do, and components answer; nobody    *)
(* has to navigate, close or die.                                          *)
Fairness ==
  WF_vars(Renderer) /\ WF_vars(Reader) /\ WF_vars(Join) /\ WF_vars(Answer) /\ WF_vars(FromTab)

Spec == Init /\ [][Next]_vars /\ Fairness

-----------------------------------------------------------------------------
(* The types of the state; no tab gets more frames than it was sent        *)
(* commands to render, only threads are joined, and the frames of a link   *)
(* go out of step only in a forked renderer that took something else for   *)
(* an answer.                                                              *)
TypeOK ==
  /\ hosting \in Hostings /\ tab \in {"open", "closing", "gone"}
  /\ tab = "closing" => hosting = "thread"
  /\ navigations \in 0 .. NavigationBound /\ frames \in 0 .. navigations
  /\ pending \subseteq Question /\ stale \in 0 .. StaleBound
  /\ inbox \in Seq(FromRenderer \cup [what : {"TabGone"}])
  /\ reader \in {"recv", "gone"} /\ up \in Seq(FromRenderer) /\ down \in Seq(ToRenderer)
  /\ renderer \in {"idle", "waiting", "gone"} /\ at \in Question
  /\ garbled \in BOOLEAN /\ mixed \in BOOLEAN /\ abandoned \in BOOLEAN
  /\ strays \subseteq {"RenderPage", "Shutdown", "stale"}
  /\ garbled => hosting = "forked" /\ strays # {}

(* The renderer takes an answer for another question's only after a        *)
(* command has overtaken an answer, or a cookie answer to the renderer it  *)
(* replaced has come in its place: an embedder that waits for the frame    *)
(* before it navigates again, inside one origin, sees no mixed-up page.    *)
MixedOnlyAfterStrays == mixed => strays # {}

(* Every page load ends, also one whose answers were mixed up, unless the  *)
(* tab is closed under it or the frames of its link are out of step.       *)
LoadsEnd == (renderer = "waiting") ~> (renderer # "waiting" \/ garbled \/ tab # "open")

(* A renderer that nobody kills or joins ends by itself once its tab is    *)
(* gone, wherever in its page load the Shutdown reaches it, and so does    *)
(* its reader thread (kill_child: "dies with the fork server").  A write   *)
(* that timed out is followed by no Shutdown.                              *)
TeardownEndsBoth ==
  (tab = "gone") ~> ((renderer = "gone" /\ reader = "gone") \/ garbled \/ abandoned)

(* Every navigation is answered by a frame, or by the end of the tab, as   *)
(* events.rs:103 says, unless a command to render has overtaken an answer, *)
(* and one navigation goes without, or the link has gone out of step.      *)
NavigationsAreAnswered ==
  \A n \in Url :
    (navigations >= n) ~> (frames >= n \/ tab # "open" \/ "RenderPage" \in strays \/ garbled)

(* events.rs:110: Close is "answered by TabClosed", so the loop gets out of *)
(* the join.                                                               *)
ClosesAreAnswered == (tab = "closing") ~> (tab = "gone")
=============================================================================
