---------------------------- MODULE FetchProofs ----------------------------
(* Proofs about module Fetch: for every network, every resolver and every  *)
(* bound on the redirects.                                                 *)
EXTENDS Fetch, SequenceTheorems, TLAPS

-----------------------------------------------------------------------------
(* Addresses and origins.                                                  *)

(* What a look-up answers are addresses of the resolver or of a literal.   *)
Known == Addresses \cup {Literals[h] : h \in DOMAIN Literals}

LEMMA ResolvedAreKnown ==
  ASSUME NEW u, NEW addrs \in Resolutions(u), NEW i \in DOMAIN addrs
  PROVE  addrs[i] \in Known
<1>1. CASE u.auth.host \in DOMAIN Literals
  BY <1>1 DEF Resolutions, Known
<1>2. CASE u.auth.host \notin DOMAIN Literals
  BY <1>2 DEF Resolutions, Known
<1> QED BY <1>1, <1>2

LEMMA PassedLeadsOutside ==
  ASSUME NEW a \in Known, ~BlockedIp(a)
  PROVE  LeadsTo(a) \in {"public", "global"}
BY AddressAssumption DEF Known, BlockedIp, LeadsTo

LEMMA PinnedAreOutside ==
  ASSUME NEW u, NEW addrs \in Resolutions(u), Pins(u, addrs)
  PROVE  /\ addrs # <<>>
         /\ \A i \in DOMAIN addrs : LeadsTo(addrs[i]) \in {"public", "global"}
BY ResolvedAreKnown, PassedLeadsOutside DEF Pins

(* The net component's comparison is finer than the engine's: what it      *)
(* takes for one authority is one origin.                                  *)
LEMMA SameAuthorityIsSameOrigin ==
  ASSUME NEW u \in Urls, NEW v \in Urls, SameAuthority(u, v)
  PROVE  OriginOf(u) = OriginOf(v)
<1>1. u.auth \in Authorities /\ v.auth \in Authorities
  BY DEF Urls
<1>2. /\ u.auth.scheme = v.auth.scheme
      /\ u.auth.user = v.auth.user
      /\ u.auth.host = v.auth.host
      /\ u.auth.port = v.auth.port
  BY <1>1, FetchAssumption DEF SameAuthority
<1> QED BY <1>2 DEF OriginOf

LEMMA TargetsAreUrls ==
  ASSUME NEW u \in Urls
  PROVE  Targets(u) \subseteq Urls
BY FetchAssumption DEF Urls, Targets

-----------------------------------------------------------------------------
(* The invariant.                                                          *)

InService == phase \in {"serve", "hop", "connected"}

(* As long as no redirect left the authority of the URL asked, the         *)
(* engine's two judgements of that URL hold of the URL of this hop: whose  *)
(* cookies ride along, and whether it is the tab's own origin.             *)
Judged ==
  InService =>
    /\ request.kind \in {"document", "subresource"}
    /\ outcome = NoOutcome
    /\ phase = "serve" => ~leftOrigin
    /\ ~leftOrigin =>
         /\ cookies = NoCookies \/ cookies = OriginOf(url)
         /\ IF request.kind = "document"
              THEN OriginOf(url) = request.tab
              ELSE request.same = (OriginOf(url) = request.tab)

Guarded == TypeOK /\ Judged /\ NoInternalHost /\ CookiesStayHome /\ OrbHolds

(* A request that waits or was refused says nothing yet.                   *)
LEMMA SilentIsRight ==
  (phase # "done" \/ outcome.kind = "Denied") => CookiesStayHome /\ OrbHolds
BY DEF CookiesStayHome, OrbHolds, Answered

LEMMA GuardedInit == Init => Guarded
<1> SUFFICES ASSUME Init PROVE Guarded
  OBVIOUS
<1>1. TypeOK
  <2>1. url \in Urls /\ outcome.kind = "none"
    BY DEF Init, NoOutcome
  <2>2. phase = "idle" /\ hops = 0 /\ leftOrigin = FALSE /\ cookies = NoCookies /\ answers = <<>>
    BY DEF Init
  <2>3. hops \in 0 .. MAX_REDIRECTS
    BY <2>2, FetchAssumption
  <2>4. answers # <<>> <=> (phase = "connected" \/ outcome.kind = "Streamed")
    BY <2>1, <2>2
  <2> QED BY <2>1, <2>2, <2>3, <2>4 DEF TypeOK
<1>2. Judged /\ NoInternalHost
  BY DEF Init, Judged, InService, NoInternalHost
<1>3. CookiesStayHome /\ OrbHolds
  BY SilentIsRight DEF Init
<1> QED BY <1>1, <1>2, <1>3 DEF Guarded

-----------------------------------------------------------------------------
(* The engine asks.                                                        *)

LEMMA AsksUrl ==
  ASSUME Guarded, NEW u \in Urls, Asks(u)
  PROVE  /\ url' = u /\ u \in Urls
         /\ hops' = 0 /\ hops' \in 0 .. MAX_REDIRECTS
         /\ leftOrigin' = FALSE /\ answers' = <<>>
BY FetchAssumption DEF Asks

LEMMA GuardedNeedFetch ==
  ASSUME Guarded, NEW origin \in Origins, NEW u \in Urls, NeedFetch(origin, u)
  PROVE  Guarded'
<1>1. Asks(u)
  BY DEF NeedFetch
<1>2. NoInternalHost'
  <2>1. answers' = <<>>
    BY <1>1 DEF Asks
  <2> QED BY <2>1 DEF NoInternalHost
<1>3. CASE MayFetch(origin, u)
  <2>1. /\ phase' = "serve" /\ outcome' = NoOutcome
        /\ request' = [kind |-> "document", mode |-> "NoCors", tab |-> origin, same |-> TRUE]
        /\ cookies' \in {origin, NoCookies} /\ OriginOf(u) = origin
    BY <1>3 DEF NeedFetch, Carried, MayFetch
  <2>2. TypeOK'
    <3>1. outcome'.kind = "none"
      BY <2>1 DEF NoOutcome
    <3>2. cookies' = NoCookies \/ cookies' \in {OriginOf(v) : v \in Urls} \ {NoOrigin}
      BY <2>1, FetchAssumption
    <3> QED BY <1>1, <2>1, <3>1, <3>2, AsksUrl DEF TypeOK
  <2>3. Judged'
    BY <1>1, <2>1, AsksUrl DEF Judged, InService, OriginOf
  <2>4. CookiesStayHome' /\ OrbHolds'
    BY <2>1 DEF CookiesStayHome, OrbHolds, Answered
  <2> QED BY <1>2, <2>2, <2>3, <2>4 DEF Guarded
<1>4. CASE ~MayFetch(origin, u)
  <2>1. phase' = "done" /\ outcome'.kind = "Denied" /\ cookies' = NoCookies
    BY <1>4 DEF NeedFetch, Finish
  <2>2. TypeOK' /\ Judged'
    BY <1>1, <2>1, AsksUrl DEF TypeOK, Judged, InService
  <2>3. CookiesStayHome' /\ OrbHolds'
    BY <2>1 DEF CookiesStayHome, OrbHolds, Answered
  <2> QED BY <1>2, <2>2, <2>3 DEF Guarded
<1> QED BY <1>3, <1>4

LEMMA GuardedNeedSubresource ==
  ASSUME Guarded, NEW origin \in Origins, NEW u \in Urls,
         NEW mode \in {"NoCors", "Cors"}, NeedSubresource(origin, u, mode)
  PROVE  Guarded'
<1>1. Asks(u)
  BY DEF NeedSubresource
<1>2. NoInternalHost'
  <2>1. answers' = <<>>
    BY <1>1 DEF Asks
  <2> QED BY <2>1 DEF NoInternalHost
<1>3. CASE OriginOf(u) # NoOrigin
  <2>1. /\ phase' = "serve" /\ outcome' = NoOutcome
        /\ request' = [kind |-> "subresource", mode |-> mode, tab |-> origin,
                       same |-> OriginOf(u) = origin]
        /\ cookies' \in {OriginOf(u), NoCookies}
    BY <1>3 DEF NeedSubresource, Carried
  <2>2. TypeOK'
    <3>1. outcome'.kind = "none"
      BY <2>1 DEF NoOutcome
    <3>2. cookies' = NoCookies \/ cookies' \in {OriginOf(v) : v \in Urls} \ {NoOrigin}
      BY <1>3, <2>1
    <3> QED BY <1>1, <2>1, <3>1, <3>2, AsksUrl DEF TypeOK
  <2>3. Judged'
    BY <1>1, <2>1, AsksUrl DEF Judged, InService, OriginOf
  <2>4. CookiesStayHome' /\ OrbHolds'
    BY <2>1 DEF CookiesStayHome, OrbHolds, Answered
  <2> QED BY <1>2, <2>2, <2>3, <2>4 DEF Guarded
<1>4. CASE OriginOf(u) = NoOrigin
  <2>1. phase' = "done" /\ outcome'.kind = "Denied" /\ cookies' = NoCookies
    BY <1>4 DEF NeedSubresource, Finish
  <2>2. TypeOK' /\ Judged'
    BY <1>1, <2>1, AsksUrl DEF TypeOK, Judged, InService
  <2>3. CookiesStayHome' /\ OrbHolds'
    BY <2>1 DEF CookiesStayHome, OrbHolds, Answered
  <2> QED BY <1>2, <2>2, <2>3 DEF Guarded
<1> QED BY <1>3, <1>4

-----------------------------------------------------------------------------
(* The net component answers.                                              *)

(* The end of a request: what its answer must be like.                     *)
LEMMA Ended ==
  ASSUME Guarded, NEW kind, NEW attached, Finish(kind, attached),
         UNCHANGED <<request, cookies, url, hops, leftOrigin>>,
         answers' # <<>> <=> kind = "Streamed"
  PROVE  /\ TypeOK' /\ Judged'
         /\ (attached = NoCookies \/ attached = OriginOf(url)) => CookiesStayHome'
         /\ phase' = "done" /\ outcome' = [kind |-> kind, cookies |-> attached]
<1>1. phase' = "done" /\ outcome'.kind = kind /\ outcome'.cookies = attached
  BY DEF Finish
<1>2. TypeOK'
  BY <1>1 DEF Guarded, TypeOK
<1>3. Judged'
  BY <1>1 DEF Judged, InService
<1>4. (attached = NoCookies \/ attached = OriginOf(url)) => CookiesStayHome'
  BY <1>1 DEF CookiesStayHome, OriginOf
<1> QED BY <1>2, <1>3, <1>4 DEF Finish

LEMMA GuardedRefuse ==
  ASSUME Guarded, Refuse, UNCHANGED <<request, cookies, url, hops, leftOrigin>>
  PROVE  Guarded'
<1>1. TypeOK' /\ Judged' /\ CookiesStayHome' /\ phase' = "done" /\ outcome'.kind = "Denied"
  BY Ended DEF Refuse
<1>2. NoInternalHost' /\ OrbHolds'
  BY <1>1 DEF Refuse, NoInternalHost, OrbHolds, Answered
<1> QED BY <1>1, <1>2 DEF Guarded

LEMMA GuardedStream ==
  ASSUME Guarded, Stream
  PROVE  Guarded'
<1>1. UNCHANGED <<request, cookies, url, hops, leftOrigin>>
  BY DEF Stream
<1>2. CASE Refuse
  BY <1>1, <1>2, GuardedRefuse
<1>3. CASE ~Refuse
  <2>1. PICK addrs \in Resolutions(url) : Pins(url, addrs) /\ answers' = addrs
    BY <1>3 DEF Stream
  <2>2. answers' # <<>> /\ NoInternalHost'
    BY <2>1, PinnedAreOutside DEF NoInternalHost
  <2>3. Finish("Streamed", cookies)
    BY <1>3 DEF Stream
  <2>4. /\ request.kind = "document" /\ OriginOf(url) = request.tab
        /\ cookies = NoCookies \/ cookies = OriginOf(url)
    BY DEF Stream, Guarded, Judged, InService
  <2>5. TypeOK' /\ Judged' /\ CookiesStayHome'
    BY <1>1, <2>2, <2>3, <2>4, Ended
  <2>6. OrbHolds'
    BY <1>1, <2>3, <2>4 DEF OrbHolds, OriginOf
  <2> QED BY <2>2, <2>5, <2>6 DEF Guarded
<1> QED BY <1>2, <1>3

LEMMA GuardedServe ==
  ASSUME Guarded, Serve
  PROVE  Guarded'
<1>1. TypeOK' /\ Judged'
  BY DEF Guarded, Serve, TypeOK, Judged, InService, OriginOf
<1>2. NoInternalHost'
  BY DEF Guarded, Serve, NoInternalHost
<1>3. CookiesStayHome' /\ OrbHolds'
  BY DEF Serve, CookiesStayHome, OrbHolds, Answered
<1> QED BY <1>1, <1>2, <1>3 DEF Guarded

LEMMA GuardedResolveAndPin ==
  ASSUME Guarded, ResolveAndPin
  PROVE  Guarded'
<1>1. UNCHANGED <<request, cookies, url, hops, leftOrigin>>
  BY DEF ResolveAndPin
<1>2. PICK addrs \in Resolutions(url) :
        \/ ~Pins(url, addrs) /\ Refuse
        \/ Pins(url, addrs) /\ answers' = addrs /\ phase' = "connected" /\ UNCHANGED outcome
  BY DEF ResolveAndPin
<1>3. CASE Refuse
  BY <1>1, <1>3, GuardedRefuse
<1>4. CASE Pins(url, addrs) /\ answers' = addrs /\ phase' = "connected" /\ UNCHANGED outcome
  <2>1. answers' # <<>> /\ NoInternalHost'
    BY <1>4, PinnedAreOutside DEF NoInternalHost
  <2>2. TypeOK'
    BY <1>1, <1>4, <2>1 DEF Guarded, TypeOK
  <2>3. Judged'
    <3>1. phase = "hop"
      BY DEF ResolveAndPin
    <3> QED BY <1>1, <1>4, <3>1 DEF Guarded, Judged, InService, OriginOf
  <2>4. CookiesStayHome' /\ OrbHolds'
    BY <1>4 DEF CookiesStayHome, OrbHolds, Answered
  <2> QED BY <2>1, <2>2, <2>3, <2>4 DEF Guarded
<1> QED BY <1>2, <1>3, <1>4

LEMMA GuardedFollowRedirect ==
  ASSUME Guarded, FollowRedirect
  PROVE  Guarded'
<1>1. UNCHANGED <<request, cookies>> /\ phase = "connected"
  BY DEF FollowRedirect
<1>2. CASE hops + 1 > MAX_REDIRECTS
  BY <1>1, <1>2, GuardedRefuse DEF FollowRedirect
<1>3. CASE ~(hops + 1 > MAX_REDIRECTS)
  <2>1. PICK next \in Targets(url) :
          Follow(next, hops + 1, leftOrigin \/ ~SameAuthority(url, next))
    BY <1>3 DEF FollowRedirect
  <2>2. url \in Urls /\ next \in Urls
    BY TargetsAreUrls DEF Guarded, TypeOK
  <2>3. hops + 1 \in 0 .. MAX_REDIRECTS
    BY <1>3, FetchAssumption DEF Guarded, TypeOK
  <2>4. outcome = NoOutcome /\ outcome.kind # "Streamed"
    BY <1>1 DEF Guarded, Judged, InService, NoOutcome
  <2>5. TypeOK'
    BY <1>1, <2>1, <2>2, <2>3, <2>4 DEF Follow, Guarded, TypeOK
  <2>6. Judged'
    <3>1. /\ request'.kind \in {"document", "subresource"} /\ outcome' = NoOutcome
          /\ phase' # "serve"
      BY <1>1, <2>1 DEF Follow, Guarded, Judged, InService
    <3>2. CASE leftOrigin'
      BY <3>1, <3>2 DEF Judged
    <3>3. CASE ~leftOrigin'
      <4>1. ~leftOrigin /\ SameAuthority(url, next)
        BY <2>1, <3>3 DEF Follow
      <4>2. OriginOf(url) = OriginOf(next)
        BY <2>2, <4>1, SameAuthorityIsSameOrigin
      <4>3. OriginOf(url)' = OriginOf(next)
        BY <2>1 DEF Follow, OriginOf
      <4> QED BY <1>1, <3>1, <4>1, <4>2, <4>3 DEF Guarded, Judged, InService
    <3> QED BY <3>2, <3>3
  <2>7. NoInternalHost' /\ CookiesStayHome' /\ OrbHolds'
    BY <2>1 DEF Follow, NoInternalHost, CookiesStayHome, OrbHolds, Answered
  <2> QED BY <2>5, <2>6, <2>7 DEF Guarded
<1> QED BY <1>2, <1>3

(* What rides along with an answer is of the origin that answers.          *)
LEMMA AttachedIsHome ==
  ASSUME Guarded, phase = "connected"
  PROVE  Attached = NoCookies \/ Attached = OriginOf(url)
BY DEF Guarded, Judged, InService, Attached

LEMMA GuardedHandleFetch ==
  ASSUME Guarded, HandleFetch
  PROVE  Guarded'
<1> DEFINE kind == IF IsBlob(url.path) /\ TooLargeInBand(url.path) THEN "Denied" ELSE "Ok"
           attached == IF IsBlob(url.path) THEN NoCookies ELSE Attached
<1>1. /\ Finish(kind, attached) /\ answers' = <<>>
      /\ UNCHANGED <<request, cookies, url, hops, leftOrigin>>
      /\ phase = "connected" /\ request.kind = "document"
  BY DEF HandleFetch
<1>2. kind \in {"Denied", "Ok"}
  OBVIOUS
<1>3. /\ attached = NoCookies \/ attached = OriginOf(url)
      /\ leftOrigin => attached = NoCookies
  BY <1>1, AttachedIsHome DEF Attached
<1>4. ~leftOrigin => OriginOf(url) = request.tab
  BY <1>1 DEF Guarded, Judged, InService
<1> HIDE DEF kind, attached
<1>5. TypeOK' /\ Judged' /\ CookiesStayHome' /\ outcome' = [kind |-> kind, cookies |-> attached]
  BY <1>1, <1>2, <1>3, Ended
<1>6. NoInternalHost'
  BY <1>1 DEF NoInternalHost
<1>7. leftOrigin \in BOOLEAN
  BY DEF Guarded, TypeOK
<1>8. OrbHolds'
  BY <1>1, <1>2, <1>3, <1>4, <1>5, <1>7 DEF OrbHolds, Answered, OriginOf
<1> QED BY <1>5, <1>6, <1>8 DEF Guarded

(* What the verdict on a subresource says of it.                           *)
LEMMA VerdictIsRight ==
  LET granted == request.mode = "Cors" /\ CorsAllowed(url.path)
  IN  /\ Verdict \in {"Ok", "Opaque", "Blocked"}
      /\ Verdict = "Ok" => (request.same /\ ~leftOrigin) \/ granted
      /\ Verdict = "Opaque" => MimeOf(url.path) \in Embeddable /\ ~granted
      /\ (request.same /\ ~leftOrigin) => Verdict = "Ok"
BY DEF Verdict, OrbDecide

LEMMA GuardedHandleSubresource ==
  ASSUME Guarded, HandleSubresource
  PROVE  Guarded'
<1> DEFINE kind == Verdict
           attached == IF Verdict = "Blocked" THEN NoCookies ELSE Attached
<1>1. /\ Finish(kind, attached) /\ answers' = <<>>
      /\ UNCHANGED <<request, cookies, url, hops, leftOrigin>>
      /\ phase = "connected" /\ request.kind = "subresource"
  BY DEF HandleSubresource
<1>2. attached = NoCookies \/ attached = OriginOf(url)
  BY <1>1, AttachedIsHome
<1>3. /\ kind \in {"Ok", "Opaque", "Blocked"}
      /\ kind = "Ok" => (request.same /\ ~leftOrigin)
                        \/ (request.mode = "Cors" /\ CorsAllowed(url.path))
      /\ kind = "Opaque" => /\ MimeOf(url.path) \in Embeddable
                            /\ ~(request.mode = "Cors" /\ CorsAllowed(url.path))
      /\ (request.same /\ ~leftOrigin) => kind = "Ok"
  BY VerdictIsRight
<1>4. ~leftOrigin => request.same = (OriginOf(url) = request.tab)
  BY <1>1 DEF Guarded, Judged, InService
<1> HIDE DEF kind, attached
<1>5. TypeOK' /\ Judged' /\ CookiesStayHome' /\ outcome' = [kind |-> kind, cookies |-> attached]
  BY <1>1, <1>2, <1>3, Ended
<1>6. NoInternalHost'
  BY <1>1 DEF NoInternalHost
<1>7. OrbHolds'
  BY <1>1, <1>3, <1>4, <1>5 DEF OrbHolds, OriginOf, CorsAllowed, MimeOf
<1> QED BY <1>5, <1>6, <1>7 DEF Guarded

-----------------------------------------------------------------------------
(* Every step keeps the invariant.                                         *)

LEMMA GuardedNext ==
  ASSUME Guarded, [Next]_vars
  PROVE  Guarded'
<1>1. CASE Engine
  BY <1>1, GuardedNeedFetch, GuardedNeedSubresource DEF Engine
<1>2. CASE Net
  BY <1>2, GuardedStream, GuardedServe, GuardedResolveAndPin, GuardedFollowRedirect,
     GuardedHandleFetch, GuardedHandleSubresource DEF Net
<1>3. CASE UNCHANGED vars
  BY <1>3, ZenonT(30) DEF vars, Guarded, TypeOK, Judged, InService, NoInternalHost, CookiesStayHome,
     OrbHolds, Answered, OriginOf
<1> QED BY <1>1, <1>2, <1>3 DEF Next

THEOREM Guards == Spec => []Guarded
<1>1. Init => Guarded
  BY GuardedInit
<1>2. Guarded /\ [Next]_vars => Guarded'
  BY GuardedNext
<1> QED BY <1>1, <1>2, PTL DEF Spec

(* A request keeps its shape and at most MAX_REDIRECTS redirects are       *)
(* followed (net_daemon.rs:472).                                           *)
THEOREM FetchTypes == Spec => []TypeOK
<1>1. Guarded => TypeOK
  BY DEF Guarded
<1> QED BY <1>1, Guards, PTL

(* No hop connects to a host any of whose addresses is inside, whatever    *)
(* the resolver answers and however often it changes its mind              *)
(* (net_daemon.rs:456-466, ip_utils.rs:75-126).                            *)
THEOREM InternalHostsStayUnreached == Spec => []NoInternalHost
<1>1. Guarded => NoInternalHost
  BY DEF Guarded
<1> QED BY <1>1, Guards, PTL

(* Cookies arrive only at the origin they are from, after every chain of   *)
(* redirects (net_daemon.rs:475-481, 523-525).                             *)
THEOREM CookiesReachOnlyHome == Spec => []CookiesStayHome
<1>1. Guarded => CookiesStayHome
  BY DEF Guarded
<1> QED BY <1>1, Guards, PTL

(* What a renderer reads or uses of an answer is what Opaque Response      *)
(* Blocking grants for the URL the chain ended at (orb.rs:59-98).          *)
THEOREM BlockingHolds == Spec => []OrbHolds
<1>1. Guarded => OrbHolds
  BY DEF Guarded
<1> QED BY <1>1, Guards, PTL
=============================================================================
