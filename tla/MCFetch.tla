------------------------------ MODULE MCFetch -------------------------------
(* A network for Fetch: a site under every spelling and port the two       *)
(* comparisons of origins treat differently, another site, literals, and   *)
(* the forms of addresses that carry another one.                          *)
EXTENDS Fetch, TLC

Site(scheme, host, port) ==
  [scheme |-> scheme, user |-> FALSE, host |-> host, port |-> port, upper |-> FALSE]

Home == Site("https", "a", "")

MCAuthorities ==
  {Home, [Home EXCEPT !.upper = TRUE], [Home EXCEPT !.user = TRUE],
   Site("https", "a", "default"), Site("https", "a", "8443"),
   Site("https", "a", "not a number"), Site("http", "a", ""), Site("https", "b", ""),
   Site("ftp", "a", ""), Site("http", "[::1]", ""), Site("http", "0x7f.1", "")}

MCPaths == {"/", "/x.png", "/cors/x.json", "/blob/1", "/blob/200",
            "/redirect-loop", "/relative-redirect", "/redirect/"}

Address(form, low, next) == [form |-> form, low |-> low, next |-> next]

MCLiterals == ("[::1]" :> Address("v6", "loopback", "public")) @@
              ("0x7f.1" :> Address("v4", "loopback", "public"))

MCAddresses ==
  {Address("v4", "public", "public"), Address("v4", "link-local", "public"),
   Address("nat64", "private", "public"), Address("6to4", "public", "private"),
   Address("v6", "unique-local", "public")}

MCOrigins == {OriginOf([auth |-> Home, path |-> "/"])}
=============================================================================
