------------------------------- MODULE Fetch -------------------------------
(***************************************************************************)
(* One request of a renderer to the network: the engine's origin checks    *)
(* (engine.rs), the net component's loop, its redirect follower and its    *)
(* Opaque Response Blocking (net_daemon.rs, orb.rs), and the address       *)
(* policy each hop passes (ip_utils.rs).                                   *)
(*                                                                         *)
(* A URL is its authority and the class of its path.  The server behind a  *)
(* URL and the resolver behind a name are the environment: a redirect may  *)
(* name any URL, a name may answer any addresses, and other ones the next  *)
(* time it is asked.                                                       *)
(***************************************************************************)
EXTENDS Naturals, Sequences

CONSTANTS
  Authorities,      \* [scheme, user, host, port, upper]: what may stand before the path
  Paths,            \* the classes of paths
  Literals,         \* the hosts that are IP literals, with the address each one spells
  Addresses,        \* the addresses a name may answer
  Origins,          \* the origins tabs are bound to
  MAX_REDIRECTS

VARIABLES
  phase,            \* how far the request is
  request,          \* what the renderer asked, with what the engine stamped on it
  cookies,          \* the partition whose cookies ride along
  url,              \* the URL of this hop
  hops,             \* the redirects followed
  leftOrigin,       \* a redirect changed the authority
  answers,          \* the addresses of the host this hop is connected to
  outcome           \* the answer and the URL it came from

vars == <<phase, request, cookies, url, hops, leftOrigin, answers, outcome>>

Urls == [auth : Authorities, path : Paths]

NoOrigin == [scheme |-> "", user |-> FALSE, host |-> "", port |-> ""]

(* No partition: none is kept for what has no origin.                      *)
NoCookies == NoOrigin

ASSUME FetchAssumption ==
  /\ MAX_REDIRECTS \in Nat
  /\ Authorities \subseteq [scheme : STRING, user : BOOLEAN, host : STRING,
                           port : STRING, upper : BOOLEAN]
  /\ \A a \in Authorities : a.port = "default" => a.scheme \in {"http", "https"}
  /\ "/" \in Paths
  /\ NoOrigin \notin Origins

-----------------------------------------------------------------------------
(* Addresses.  An address is the form it is written in and the ranges its  *)
(* parts fall into: for an address that carries an IPv4 address, `low' is  *)
(* the range of its last 32 bits and `next' that of the 32 bits behind the *)
(* 6to4 prefix.                                                            *)

BlockedV4 == {"loopback", "private", "link-local", "this host", "broadcast", "CGNAT",
              "multicast", "class E", "IETF", "6to4 relay", "benchmarking", "TEST-NET"}

BlockedV6 == {"loopback", "unspecified", "unique-local", "link-local", "multicast"}

(* An address spells one form, and the part that form is judged by is in   *)
(* the open network or in one of the ranges inside.                        *)
ASSUME AddressAssumption ==
  \A a \in Addresses \cup {Literals[h] : h \in DOMAIN Literals} :
    \/ a.form \in {"v4", "mapped", "nat64", "compat"} /\ a.low \in BlockedV4 \cup {"public"}
    \/ a.form = "6to4" /\ a.next \in BlockedV4 \cup {"public"}
    \/ a.form = "v6" /\ a.low \in BlockedV6 \cup {"global"}

(* IPv4-mapped, NAT64 and IPv4-compatible addresses are judged by the IPv4 *)
(* address in their low bits, 6to4 ones by the one behind the prefix.      *)
BlockedIp(a) ==
  \/ a.form \in {"v4", "mapped", "nat64", "compat"} /\ a.low \in BlockedV4
  \/ a.form = "6to4" /\ a.next \in BlockedV4
  \/ a.form = "v6" /\ a.low \in BlockedV6

(* Any blocked answer refuses the name, whichever one would be used.       *)
Pins(u, addrs) ==
  /\ u.auth.scheme \in {"http", "https"}
  /\ addrs # <<>>
  /\ \A i \in DOMAIN addrs : ~BlockedIp(addrs[i])

(* What looking the host up may return; a literal is not looked up.        *)
Resolutions(u) ==
  IF u.auth.host \in DOMAIN Literals
    THEN {<<Literals[u.auth.host]>>}
    ELSE {<<>>} \cup {<<a>> : a \in Addresses} \cup (Addresses \X Addresses)

-----------------------------------------------------------------------------
(* Origins.                                                                *)

(* The engine folds case and the default port; userinfo stays in the host, *)
(* a port that is no number makes it no URL.                               *)
OriginOf(u) ==
  IF u.auth.port = "not a number" THEN NoOrigin
  ELSE [scheme |-> u.auth.scheme, user |-> u.auth.user, host |-> u.auth.host,
        port |-> IF u.auth.port = "default" THEN "" ELSE u.auth.port]

(* The net component compares what is written, up to case.                 *)
SameAuthority(u, v) ==
  [u.auth EXCEPT !.upper = FALSE] = [v.auth EXCEPT !.upper = FALSE]

-----------------------------------------------------------------------------
(* The synthetic server.                                                   *)

IsBlob(path) == path \in {"/blob/1", "/blob/200"}

TooLargeInBand(path) == path = "/blob/200"

MimeOf(path) ==
  CASE path \in {"/x.png", "/cors/x.png"}   -> "Image"
    [] path \in {"/x.json", "/cors/x.json"} -> "Json"
    [] path = "/x.bin"                      -> "Other"
    [] OTHER                                -> "Html"

CorsAllowed(path) == path \in {"/cors/x.png", "/cors/x.json"}

IsRedirect(path) == path \in {"/redirect-loop", "/relative-redirect", "/redirect/"}

(* Where a response from u sends the client.  The rest of a /redirect/     *)
(* path names any URL, one with no scheme a root of plain http.            *)
Targets(u) ==
  CASE u.path = "/redirect-loop"     -> {u}
    [] u.path = "/relative-redirect" -> {[u EXCEPT !.path = "/"]}
    [] OTHER                         -> Urls

-----------------------------------------------------------------------------
(* Opaque Response Blocking.                                               *)

Embeddable == {"Image", "Script", "Css", "Font"}

OrbDecide(sameOrigin, mode, corsOk, mime) ==
  CASE sameOrigin                -> "Ok"
    [] mode = "Cors" /\ corsOk   -> "Ok"
    [] OTHER                     -> IF mime \in Embeddable THEN "Opaque" ELSE "Blocked"

-----------------------------------------------------------------------------
NoRequest == [kind |-> "none"]
NoOutcome == [kind |-> "none"]

Init ==
  /\ phase = "idle"
  /\ request = NoRequest
  /\ cookies = NoCookies
  /\ url \in {u \in Urls : u.path = "/"}
  /\ hops = 0
  /\ leftOrigin = FALSE
  /\ answers = <<>>
  /\ outcome = NoOutcome

Finish(kind, attached) ==
  /\ phase' = "done"
  /\ outcome' = [kind |-> kind, cookies |-> attached]

Refuse == Finish("Denied", NoCookies) /\ answers' = <<>>

(* The renderer may ask again once it was answered: nothing of the request *)
(* before is kept.                                                         *)
Asks(u) ==
  /\ phase \in {"idle", "done"}
  /\ url' = u
  /\ hops' = 0
  /\ leftOrigin' = FALSE
  /\ answers' = <<>>

-----------------------------------------------------------------------------
(* The engine.                                                             *)

MayFetch(origin, u) == OriginOf(u) = origin

(* The cookies that may ride along: those of the partition the engine      *)
(* names; none when the vault is down.                                     *)
Carried(partition) == {partition, NoCookies}

(* A document: the tab's own origin only, with the tab's cookies.          *)
NeedFetch(origin, u) ==
  /\ Asks(u)
  /\ request' = [kind |-> "document", mode |-> "NoCors", tab |-> origin, same |-> TRUE]
  /\ IF MayFetch(origin, u)
       THEN /\ cookies' \in Carried(origin)
            /\ phase' = "serve"
            /\ outcome' = NoOutcome
       ELSE /\ cookies' = NoCookies
            /\ Finish("Denied", NoCookies)

(* A subresource: any origin, with the cookies of the origin it goes to.   *)
NeedSubresource(origin, u, mode) ==
  /\ Asks(u)
  /\ request' = [kind |-> "subresource", mode |-> mode, tab |-> origin,
                 same |-> OriginOf(u) = origin]
  /\ IF OriginOf(u) # NoOrigin
       THEN /\ cookies' \in Carried(OriginOf(u))
            /\ phase' = "serve"
            /\ outcome' = NoOutcome
       ELSE /\ cookies' = NoCookies
            /\ Finish("Denied", NoCookies)

-----------------------------------------------------------------------------
(* The net component.                                                      *)

(* A document is looked up once for the streaming decision: a large body   *)
(* whose host passes goes through a ring when the transport carries        *)
(* descriptors, or is denied when the ring cannot be set up.  Everything   *)
(* else, a refused look-up included, goes to the redirect follower, which  *)
(* looks the host up again.                                                *)
Stream ==
  /\ phase = "serve" /\ request.kind = "document"
  /\ IsBlob(url.path)
  /\ \E addrs \in Resolutions(url) :
       /\ Pins(url, addrs)
       /\ \/ answers' = addrs /\ Finish("Streamed", cookies)
          \/ Refuse
  /\ UNCHANGED <<request, cookies, url, hops, leftOrigin>>

Serve ==
  /\ phase = "serve"
  /\ phase' = "hop"
  /\ UNCHANGED <<request, cookies, url, hops, leftOrigin, answers, outcome>>

ResolveAndPinEntryOnly ==
  /\ phase = "hop"
  /\ \E addrs \in Resolutions(url) :
       \/ /\ addrs = <<>> \/ (hops = 0 /\ ~Pins(url, addrs))
          /\ Refuse
       \/ /\ addrs # <<>> /\ (hops > 0 \/ Pins(url, addrs))
          /\ answers' = addrs /\ phase' = "connected" /\ UNCHANGED outcome
  /\ UNCHANGED <<request, cookies, url, hops, leftOrigin>>

(* Every hop, the entry included, is looked up and classified before it is *)
(* connected to.                                                           *)
ResolveAndPin ==
  /\ phase = "hop"
  /\ \E addrs \in Resolutions(url) :
       \/ ~Pins(url, addrs) /\ Refuse
       \/ Pins(url, addrs) /\ answers' = addrs /\ phase' = "connected" /\ UNCHANGED outcome
  /\ UNCHANGED <<request, cookies, url, hops, leftOrigin>>

Follow(next, count, left) ==
  /\ url' = next
  /\ hops' = count
  /\ leftOrigin' = left
  /\ phase' = "hop"
  /\ answers' = <<>>
  /\ UNCHANGED outcome

FollowRedirectOneMore ==
  /\ phase = "connected" /\ IsRedirect(url.path)
  /\ IF hops > MAX_REDIRECTS
       THEN Refuse /\ UNCHANGED <<url, hops, leftOrigin>>
       ELSE \E next \in Targets(url) : Follow(next, hops + 1, leftOrigin \/ ~SameAuthority(url, next))
  /\ UNCHANGED <<request, cookies>>

FollowRedirectLastOnly ==
  /\ phase = "connected" /\ IsRedirect(url.path)
  /\ IF hops + 1 > MAX_REDIRECTS
       THEN Refuse /\ UNCHANGED <<url, hops, leftOrigin>>
       ELSE \E next \in Targets(url) : Follow(next, hops + 1, ~SameAuthority(url, next))
  /\ UNCHANGED <<request, cookies>>

FollowRedirectLoopsFree ==
  /\ phase = "connected" /\ IsRedirect(url.path)
  /\ IF hops + 1 > MAX_REDIRECTS
       THEN Refuse /\ UNCHANGED <<url, hops, leftOrigin>>
       ELSE \E next \in Targets(url) :
              Follow(next, IF next = url THEN hops ELSE hops + 1,
                     leftOrigin \/ ~SameAuthority(url, next))
  /\ UNCHANGED <<request, cookies>>

(* A redirect counts before it is followed; once the authority changed it  *)
(* has changed for good, whatever comes after.                             *)
FollowRedirect ==
  /\ phase = "connected" /\ IsRedirect(url.path)
  /\ IF hops + 1 > MAX_REDIRECTS
       THEN Refuse /\ UNCHANGED <<url, hops, leftOrigin>>
       ELSE \E next \in Targets(url) : Follow(next, hops + 1, leftOrigin \/ ~SameAuthority(url, next))
  /\ UNCHANGED <<request, cookies>>

Attached == IF leftOrigin THEN NoCookies ELSE cookies

(* The body of a document comes back readable, wherever it is from; a blob *)
(* is copied in-band, without a word about cookies, if it fits a frame.    *)
HandleFetch ==
  /\ phase = "connected" /\ ~IsRedirect(url.path)
  /\ request.kind = "document"
  /\ IF IsBlob(url.path)
       THEN Finish(IF TooLargeInBand(url.path) THEN "Denied" ELSE "Ok", NoCookies)
       ELSE Finish("Ok", Attached)
  /\ answers' = <<>>
  /\ UNCHANGED <<request, cookies, url, hops, leftOrigin>>

VerdictOnEntry ==
  OrbDecide(request.same, request.mode,
            request.mode = "Cors" /\ CorsAllowed(url.path), MimeOf(url.path))

(* What a subresource brings back is read, used or withheld.               *)
Verdict ==
  OrbDecide(request.same /\ ~leftOrigin, request.mode,
            request.mode = "Cors" /\ CorsAllowed(url.path), MimeOf(url.path))

HandleSubresource ==
  /\ phase = "connected" /\ ~IsRedirect(url.path)
  /\ request.kind = "subresource"
  /\ Finish(Verdict, IF Verdict = "Blocked" THEN NoCookies ELSE Attached)
  /\ answers' = <<>>
  /\ UNCHANGED <<request, cookies, url, hops, leftOrigin>>

-----------------------------------------------------------------------------
Engine ==
  \E origin \in Origins, u \in Urls :
    \/ NeedFetch(origin, u)
    \/ \E mode \in {"NoCors", "Cors"} : NeedSubresource(origin, u, mode)

Net == Stream \/ Serve \/ ResolveAndPin \/ FollowRedirect \/ HandleFetch \/ HandleSubresource

Next == Engine \/ Net

(* The component's loop runs; a renderer need not ask.                     *)
Spec == Init /\ [][Next]_vars /\ WF_vars(Net)

-----------------------------------------------------------------------------
(* The state has the shape the code gives it, and at most one connection,  *)
(* held while a hop's response is looked at or a body streamed             *)
(* (net_daemon.rs:451-487).                                                *)
TypeOK ==
  /\ phase \in {"idle", "serve", "hop", "connected", "done"}
  /\ url \in Urls
  /\ hops \in 0..MAX_REDIRECTS
  /\ leftOrigin \in BOOLEAN
  /\ cookies = NoCookies \/ cookies \in {OriginOf(u) : u \in Urls} \ {NoOrigin}
  /\ answers # <<>> <=> (phase = "connected" \/ outcome.kind = "Streamed")

Answered == phase = "done" /\ outcome.kind # "Denied"

(* The IPv4 or IPv6 host an address leads to once the networks that        *)
(* translate it have.                                                      *)
LeadsTo(a) == IF a.form = "6to4" THEN a.next ELSE a.low

(* No host that is connected to, at whatever hop, has an address inside:   *)
(* neither the one used nor another one its name answered, however the     *)
(* address is written (net_daemon.rs:443-447, ip_utils.rs:79-87).          *)
NoInternalHost ==
  \A i \in DOMAIN answers : LeadsTo(answers[i]) \in {"public", "global"}

(* Cookies arrive only at the origin whose partition they are from: same   *)
(* scheme, host and port, whichever redirects lie between                  *)
(* (engine.rs:1186-1191, net_daemon.rs:495-499).                           *)
CookiesStayHome ==
  (Answered /\ outcome.cookies # NoCookies) => outcome.cookies = OriginOf(url)

(* What a renderer can read of a subresource is from its own origin or     *)
(* opted in; what it can use without reading is embeddable; and nothing of *)
(* its own origin is withheld when no redirect left it (orb.rs:16-25).     *)
(* Of another origin a document fetch brings back only what a redirect led *)
(* to.                                                                     *)
OrbHolds ==
  LET own == OriginOf(url) = request.tab
      granted == request.mode = "Cors" /\ CorsAllowed(url.path)
  IN Answered =>
       IF request.kind = "document"
         THEN own \/ (leftOrigin /\ outcome.kind = "Ok" /\ outcome.cookies = NoCookies)
         ELSE /\ outcome.kind = "Ok" => own \/ granted
              /\ outcome.kind = "Opaque" => MimeOf(url.path) \in Embeddable /\ ~granted
              /\ (own /\ ~leftOrigin) => outcome.kind = "Ok"

(* Every request is answered: a chain of redirects, a loop included, ends  *)
(* at a body or at a refusal (net_daemon.rs:343-346).                      *)
EveryRequestEnds == (phase = "serve") ~> (phase = "done")
=============================================================================
