-------------------------------- MODULE Vault --------------------------------
(***************************************************************************)
(* The cookie vault across its crashes (multi-process build, Linux): the   *)
(* vault process of src/src/vault.rs, the net component as its only client *)
(* (src/src/net_daemon.rs) and the broker that spawns it, stamps every     *)
(* request, and keeps a jar of its own once there is no vault              *)
(* (src/src/engine.rs).                                                    *)
(*                                                                         *)
(* Three processes and four first-in-first-out sockets: broker to net, net *)
(* to broker (with the reader thread and the inbox behind it), and the     *)
(* link between net and one generation of the vault, each way.  A cookie   *)
(* is known by its serial number; a subresource load is a fetch for its    *)
(* destination's partition.  The net component does not die here, but it    *)
(* may stop for good on a bind request whose descriptor was not sent.  A   *)
(* vault that cannot be spawned is a panic of the loop (spawn_inherited)   *)
(* and left out.                                                           *)
(***************************************************************************)
EXTENDS Naturals, Sequences

CONSTANTS
  Partition,                \* (zone, origin) pairs
  MAX_SERVICE_RESTARTS,     \* respawns of the vault within the window
  GenerationBound,          \* bound on vault processes
  CookieBound, AskBound,    \* bounds on cookies set and on requests
  None                      \* no vault, no link, no call

ASSUME VaultAssumption ==
  /\ MAX_SERVICE_RESTARTS \in Nat
  /\ GenerationBound \in Nat /\ GenerationBound > MAX_SERVICE_RESTARTS
  /\ CookieBound \in Nat /\ AskBound \in Nat
  /\ None \notin Nat

Generation == 1 .. GenerationBound
Cookie     == [at : Partition, http_only : BOOLEAN, n : 1 .. CookieBound]
Ask        == [what : {"get", "fetch"}, id : 1 .. AskBound, at : Partition,
               cookies : SUBSET Cookie]
NetRequest == Ask \cup [what : {"set"}, cookie : Cookie]
                  \cup [what : {"bind"}, gen : Generation \cup {None}]   \* None: no descriptor
ASSUME NoneAssumption == None \notin Ask

Answer     == [cookies : SUBSET Cookie, from : Generation \cup {None}]
FromNet    == [what : {"reply"}, id : 1 .. AskBound, answer : Answer]
              \cup [what : {"gone"}]
VaultRequest == [what : {"set"}, cookie : Cookie]
                \cup [what : {"get"}, at : Partition, visible_only : BOOLEAN]

VARIABLES
  (* the broker *)
  running, vault, jar, restarts, made, baked, ids,
  (* the net component *)
  toNet, toBroker, link, call, jammed,
  (* the vault processes *)
  alive, store, wire, back,
  (* history, read by the properties only *)
  set, asked, answer, unbound

broker == <<running, vault, jar, restarts, made, baked, ids>>
net == <<toNet, toBroker, link, call, jammed>>
vaults == <<alive, store, wire, back>>
history == <<set, asked, answer, unbound>>
vars == <<running, vault, jar, restarts, made, baked, ids,
          toNet, toBroker, link, call, jammed, alive, store, wire, back,
          set, asked, answer, unbound>>

Init ==
  /\ running = TRUE /\ vault = 1 /\ jar = {} /\ restarts = 0
  /\ made = 1 /\ baked = 0 /\ ids = 0
  /\ toNet = <<[what |-> "bind", gen |-> 1]>> /\ toBroker = <<>>
  /\ link = None /\ call = None /\ jammed = FALSE
  /\ alive = [g \in Generation |-> g = 1]
  /\ store = [g \in Generation |-> {}]
  /\ wire = [g \in Generation |-> <<>>]
  /\ back = [g \in Generation |-> <<>>]
  /\ set = {} /\ unbound = {}
  /\ asked = [i \in {} |-> None] /\ answer = [i \in {} |-> None]

-----------------------------------------------------------------------------
(* Broken variant: the jar forgets the document.cookie filter.             *)
ViewUnfiltered(cookies, p, visible_only) == {c \in cookies : c.at = p}

(* What both jars answer: the whole partition to a fetch, the cookies that *)
(* are not HttpOnly to document.cookie.                                    *)
View(cookies, p, visible_only) ==
  {c \in cookies : c.at = p /\ (visible_only => ~c.http_only)}

Settled(i, a) == [j \in DOMAIN answer \cup {i} |-> IF j = i THEN a ELSE answer[j]]

-----------------------------------------------------------------------------
(* The broker loop.                                                        *)

cookies_in_vault == vault # None

SetCookie(p, http_only) ==
  /\ running /\ baked < CookieBound
  /\ LET c == [at |-> p, http_only |-> http_only, n |-> baked + 1] IN
       /\ baked' = baked + 1
       /\ set' = set \cup {[cookie |-> c, under |-> vault]}
       /\ IF cookies_in_vault
          THEN toNet' = Append(toNet, [what |-> "set", cookie |-> c]) /\ UNCHANGED jar
          ELSE jar' = jar \cup {c} /\ UNCHANGED toNet
  /\ UNCHANGED <<running, vault, restarts, made, ids, toBroker, link, call,
                 jammed, vaults, asked, answer, unbound>>

Noted(what, p) ==
  /\ ids < AskBound /\ ids' = ids + 1
  /\ asked' = [i \in DOMAIN asked \cup {ids'} |->
       IF i = ids' THEN [what |-> what, at |-> p, before |-> baked, under |-> vault]
       ELSE asked[i]]

(* NeedFetch and NeedSubresource, as far as they concern cookies.          *)
NeedFetch(p) ==
  /\ running /\ Noted("fetch", p)
  /\ toNet' = Append(toNet,
       [what |-> "fetch", id |-> ids', at |-> p,
        cookies |-> IF cookies_in_vault THEN {} ELSE View(jar, p, FALSE)])
  /\ UNCHANGED <<running, vault, jar, restarts, made, baked,
                 toBroker, link, call, jammed, vaults, set, answer, unbound>>

NeedCookies(p) ==
  /\ running /\ Noted("get", p)
  /\ IF cookies_in_vault
     THEN /\ toNet' = Append(toNet, [what |-> "get", id |-> ids', at |-> p, cookies |-> {}])
          /\ UNCHANGED answer
     ELSE /\ answer' = Settled(ids', [cookies |-> View(jar, p, TRUE), from |-> None])
          /\ UNCHANGED toNet
  /\ UNCHANGED <<running, vault, jar, restarts, made, baked,
                 toBroker, link, call, jammed, vaults, set, unbound>>

(* cookie_visible and net_reply.                                           *)
Reply ==
  /\ running /\ toBroker # <<>> /\ Head(toBroker).what = "reply"
  /\ toBroker' = Tail(toBroker)
  /\ answer' = Settled(Head(toBroker).id, Head(toBroker).answer)
  /\ UNCHANGED <<broker, toNet, link, call, jammed, vaults, set, asked, unbound>>

Reap == [g \in Generation |-> alive[g] /\ g # vault]

(* Broken variant: the fresh vault is spawned, net is never told.          *)
RewiredUnbound ==
  /\ vault' = made + 1 /\ made' = made + 1
  /\ alive' = [Reap EXCEPT ![made + 1] = TRUE]
  /\ UNCHANGED toNet

(* Broken variant: the rebind failed and the fresh vault is left running.  *)
RewireFailedLeaky ==
  /\ made < GenerationBound
  /\ vault' = None /\ made' = made + 1
  /\ alive' = [Reap EXCEPT ![made + 1] = TRUE]
  /\ UNCHANGED toNet

Rewired ==
  /\ vault' = made + 1 /\ made' = made + 1
  /\ alive' = [Reap EXCEPT ![made + 1] = TRUE]
  /\ toNet' = Append(toNet, [what |-> "bind", gen |-> made + 1])

(* No socket pair, no BindVault written, or no respawn allowed: the dead   *)
(* vault is reaped, and a fresh one, if there is any, killed.              *)
RewireFailed ==
  /\ vault' = None /\ alive' = Reap
  /\ UNCHANGED <<made, toNet>>

(* BindVault was written, its descriptor was not: the same, but net reads. *)
RewireTorn ==
  /\ vault' = None /\ alive' = Reap
  /\ toNet' = Append(toNet, [what |-> "bind", gen |-> None])
  /\ UNCHANGED made

(* Broken variant: one restart too many.                                   *)
MayRestartOnceMore == restarts <= MAX_SERVICE_RESTARTS

MayRestart == restarts < MAX_SERVICE_RESTARTS

(* respawn_vault, on the report of the net component.                      *)
VaultGone ==
  /\ running /\ toBroker # <<>> /\ Head(toBroker).what = "gone"
  /\ toBroker' = Tail(toBroker)
  /\ \/ MayRestart /\ restarts' = restarts + 1 /\ (Rewired \/ RewireFailed \/ RewireTorn)
     \/ ~MayRestart /\ RewireFailed /\ UNCHANGED restarts
  /\ UNCHANGED <<running, jar, baked, ids, link, call, jammed, store, wire, back, history>>

(* The restart window slides past an entry, while generations are left.    *)
RestartAges ==
  /\ restarts > 0 /\ made + (MAX_SERVICE_RESTARTS - restarts) < GenerationBound
  /\ restarts' = restarts - 1
  /\ UNCHANGED <<running, vault, jar, made, baked, ids, net, vaults, history>>

(* Every child is killed and reaped, net and the vault among them.         *)
Shutdown ==
  /\ running /\ running' = FALSE
  /\ vault' = None /\ alive' = Reap
  /\ link' = None /\ call' = None /\ toNet' = <<>> /\ toBroker' = <<>>
  /\ UNCHANGED <<jar, restarts, made, baked, ids, jammed, store, wire, back, history>>

-----------------------------------------------------------------------------
(* The net component: one thread, serve.                                   *)

NextRequest(what) ==
  /\ running /\ ~jammed /\ call = None /\ toNet # <<>> /\ Head(toNet).what = what
  /\ toNet' = Tail(toNet)

Message(ask, cookies, from) ==
  [what |-> "reply", id |-> ask.id, answer |-> [cookies |-> cookies, from |-> from]]

(* A descriptor that comes and cannot be taken in (recv_fd, Err) leaves    *)
(* net without a link and nobody told; its vault is cut off and will end   *)
(* (Dies).  Without a descriptor recv_fd takes the first byte of whatever  *)
(* comes next, and net never reads a request again.                        *)
BindVault ==
  /\ NextRequest("bind")
  /\ LET g == Head(toNet).gen IN
       \/ g # None /\ link' = g /\ UNCHANGED <<jammed, unbound>>
       \/ g # None /\ unbound' = unbound \cup {g} /\ UNCHANGED <<link, jammed>>
       \/ g = None /\ jammed' = TRUE /\ UNCHANGED <<link, unbound>>
  /\ UNCHANGED <<broker, toBroker, call, vaults, set, asked, answer>>

(* A write to a vault that died fails, and the failure is ignored.         *)
CookieSet ==
  /\ NextRequest("set")
  /\ IF link # None /\ alive[link]
     THEN wire' = [wire EXCEPT ![link] = Append(@, Head(toNet))]
     ELSE UNCHANGED wire
  /\ UNCHANGED <<broker, toBroker, link, call, jammed, alive, store, back, history>>

(* Broken variants: the dead link is kept; the ask is lost with the link.  *)
VaultLostKeepingLink(ask) ==
  /\ toBroker' = Append(Append(toBroker, [what |-> "gone"]), Message(ask, {}, None))
  /\ call' = None /\ UNCHANGED link
VaultLostUnanswered(ask) ==
  /\ toBroker' = Append(toBroker, [what |-> "gone"])
  /\ link' = None /\ call' = None

(* vault_get fails: the link is dropped, the broker told, no cookies.      *)
VaultLost(ask) ==
  /\ toBroker' = Append(Append(toBroker, [what |-> "gone"]), Message(ask, {}, None))
  /\ link' = None /\ call' = None

(* CookieGetVisible, Fetch and Subresource: with a link, vault_get writes  *)
(* its request and then blocks in recv; without, the cookies that came     *)
(* along are used.                                                         *)
AskVault ==
  /\ NextRequest("get") \/ NextRequest("fetch")
  /\ LET ask == Head(toNet) IN
       \/ /\ link = None
          /\ toBroker' = Append(toBroker, Message(ask, ask.cookies, None))
          /\ UNCHANGED <<link, call, wire>>
       \/ /\ link # None /\ ~alive[link]
          /\ VaultLost(ask) /\ UNCHANGED wire
       \/ /\ link # None /\ alive[link]
          /\ wire' = [wire EXCEPT ![link] = Append(@,
               [what |-> "get", at |-> ask.at, visible_only |-> ask.what = "get"])]
          /\ call' = ask
          /\ UNCHANGED <<link, toBroker>>
  /\ UNCHANGED <<broker, jammed, alive, store, back, history>>

(* What a dead vault wrote stays readable; then recv fails.                *)
VaultAnswers ==
  /\ call # None
  /\ IF back[link] # <<>>
     THEN /\ toBroker' = Append(toBroker, Message(call, Head(back[link]), link))
          /\ back' = [back EXCEPT ![link] = Tail(@)]
          /\ call' = None /\ UNCHANGED link
     ELSE ~alive[link] /\ VaultLost(call) /\ UNCHANGED back
  /\ UNCHANGED <<broker, toNet, jammed, alive, store, wire, history>>

Net == BindVault \/ CookieSet \/ AskVault \/ VaultAnswers

-----------------------------------------------------------------------------
(* A vault process: serve, and its death.                                  *)

Serve(g) ==
  /\ alive[g] /\ wire[g] # <<>>
  /\ wire' = [wire EXCEPT ![g] = Tail(@)]
  /\ LET req == Head(wire[g]) IN
       \/ /\ req.what = "set"
          /\ store' = [store EXCEPT ![g] = @ \cup {req.cookie}]
          /\ UNCHANGED back
       \/ /\ req.what = "get"
          /\ back' = [back EXCEPT ![g] = Append(@, View(store[g], req.at, req.visible_only))]
          /\ UNCHANGED store
  /\ UNCHANGED <<broker, net, alive, history>>

Dies(g) ==
  /\ alive[g] /\ alive' = [alive EXCEPT ![g] = FALSE]
  /\ UNCHANGED <<broker, net, store, wire, back, history>>

-----------------------------------------------------------------------------
Loop == Reply \/ VaultGone

Next ==
  \/ \E p \in Partition : (\E h \in BOOLEAN : SetCookie(p, h)) \/ NeedFetch(p) \/ NeedCookies(p)
  \/ Loop \/ RestartAges \/ Shutdown \/ Net
  \/ \E g \in Generation : Serve(g) \/ Dies(g)

(* The loop, net and a living vault keep running; nobody has to ask, die,  *)
(* shut down or wait for the window.                                       *)
Fairness == WF_vars(Loop) /\ WF_vars(Net) /\ \A g \in Generation : WF_vars(Serve(g))

Spec == Init /\ [][Next]_vars /\ Fairness

-----------------------------------------------------------------------------
(* The cookies the broker was told to set for the partition of a request,  *)
(* while generation g was its vault and before the request came.           *)
Told(ask, g) ==
  LET Before == {x \in set : x.under = g /\ x.cookie.n <= ask.before} IN
  {c \in {x.cookie : x \in Before} :
     c.at = ask.at /\ (ask.what = "get" => ~c.http_only)}

(* The types of the state; the restarts made and those left in the window  *)
(* never exceed the generations.                                           *)
TypeOK ==
  /\ running \in BOOLEAN /\ vault \in Generation \cup {None} /\ jar \subseteq Cookie
  /\ restarts \in 0 .. MAX_SERVICE_RESTARTS
  /\ made \in Generation /\ made + (MAX_SERVICE_RESTARTS - restarts) <= GenerationBound
  /\ baked \in 0 .. CookieBound /\ ids \in 0 .. AskBound
  /\ toNet \in Seq(NetRequest) /\ toBroker \in Seq(FromNet)
  /\ link \in Generation \cup {None} /\ call \in Ask \cup {None}
  /\ jammed \in BOOLEAN /\ unbound \subseteq Generation
  /\ alive \in [Generation -> BOOLEAN] /\ store \in [Generation -> SUBSET Cookie]
  /\ wire \in [Generation -> Seq(VaultRequest)]
  /\ back \in [Generation -> Seq(SUBSET Cookie)]
  /\ set \subseteq [cookie : Cookie, under : Generation \cup {None}]
  /\ DOMAIN asked = 1 .. ids /\ DOMAIN answer \subseteq 1 .. ids
  /\ \A i \in DOMAIN asked : asked[i] \in
       [what : {"get", "fetch"}, at : Partition, before : 0 .. CookieBound,
        under : Generation \cup {None}]
  /\ \A i \in DOMAIN answer : answer[i] \in Answer

(* An answer the vault gave is exactly what the broker was told to set for *)
(* that partition in the lifetime of that vault, HttpOnly cookies hidden   *)
(* from document.cookie: nothing of another partition, of an earlier vault *)
(* or set later, and no cookie lost to a write that failed.  An answer     *)
(* nobody could give is empty, except in the broker's own days, when it is *)
(* the broker's jar.                                                       *)
AnswersAreWhatWasSet ==
  \A i \in DOMAIN answer :
    LET q == asked[i]
        a == answer[i] IN
    \/ a.from # None /\ a.from = q.under /\ a.cookies = Told(q, a.from)
    \/ a.from = None /\ a.cookies = (IF q.under = None THEN Told(q, None) ELSE {})

(* The only vault alive is the one the broker holds: none is left behind   *)
(* by a respawn, by a respawn that failed, or by a shutdown.               *)
NoOrphans == \A g \in Generation : alive[g] => vault = g

Binds == {i \in DOMAIN toNet : toNet[i].what = "bind"}
Reports == {i \in DOMAIN toBroker : toBroker[i].what = "gone"}

(* A death is reported once, and what the broker then kills is dead: while *)
(* a report is under way net has no link and none is on its way.           *)
DeathReportedOnce ==
  \A i \in Reports :
    /\ Reports = {i} /\ Binds = {} /\ link = None
    /\ vault # None /\ ~alive[vault]

(* Giving the vault up is final, even once the restart window has slid:    *)
(* nothing reports a death again (engine.rs:1562, "cookies stay            *)
(* unavailable until restart").                                            *)
GivingUpIsFinal == [][vault = None => vault' = None /\ link' = None]_vars

(* Every document.cookie read and every fetch is answered, whichever       *)
(* process of the vault dies at whatever moment, unless net was stopped by *)
(* a bind request without its descriptor.                                  *)
EveryAskIsAnswered ==
  \A i \in 1 .. AskBound : i <= ids ~> (i \in DOMAIN answer \/ ~running \/ jammed)

(* A net component that lost its vault is linked to a living successor, or *)
(* the broker has given up.  The exception: net could not take in the very *)
(* descriptor of the vault the broker holds (net_daemon.rs:87).            *)
LinkIsRestored ==
  (vault # None /\ link = None) ~> (link # None \/ vault = None \/ vault \in unbound)

=============================================================================
