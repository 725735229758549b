----------------------------- MODULE RequestUrl -----------------------------
(***************************************************************************)
(* From the URL a program gives to the client to the request that is sent  *)
(* (src/src/client.rs, src/src/request.rs), and back from the answer to a  *)
(* discovery to its links.                                                 *)
(*                                                                         *)
(* A URL is what the url crate makes of it: a record of host, address      *)
(* (the host is an IP address), path and query.  A body, a token and the   *)
(* other options of a request are values the router does not look at.      *)
(***************************************************************************)
EXTENDS LinkFormat

WellKnownCore == <<".well-known", "/", "core">>

\* Errors, or the parts of a request: queries are cut at "&" and decoded.
ParseCoapUrl(url) ==
  IF ~url.valid THEN [error |-> "url error"]
  ELSE IF url.host = "" THEN [error |-> "host error"]
  ELSE [domain  |-> url.host, isAddress |-> url.isAddress, path |-> url.path,
        queries |-> IF ~url.hasQuery THEN <<>>
                    ELSE LET parts == Split(url.query, "&")
                         IN  [i \in DOMAIN parts |-> PercentDecode(parts[i])]]

DiscoveryUrl(url) == [url EXCEPT !.path = <<"/">> \o WellKnownCore]

\* coap-lite's set_path: one option per segment, a leading slash apart.
SetPath(path) ==
  LET segments == Split(path, "/")
  IN  IF Head(segments) = <<>> THEN Tail(segments) ELSE segments

\* RequestBuilder::build.  Queries have a setter of their own: to pass one
\* among the options fails an assertion.
Build(parts, method, body, confirmable, options) ==
  [panics   |-> "UriQuery" \in ToSet(options),
   method   |-> method,
   path     |-> SetPath(parts.path),
   queries  |-> parts.queries,
   options  |-> options \o IF parts.domain # "" /\ ~parts.isAddress
                           THEN <<"UriHost">> ELSE <<>>,
   body     |-> body,
   kind     |-> IF confirmable THEN "Confirmable" ELSE "NonConfirmable",
   params   |-> <<>>]

\* UdpCoAPClient::request: the request it sends for a URL.
UrlRequest(url, method, body) ==
  Build(ParseCoapUrl(url), method, body, TRUE, <<>>)

\* The links in the answer to a discovery, or why there are none.
ParseDiscoveryResponse(response) ==
  LET formats == response.formats
  IN  CASE response.status # "Content" -> [error |-> "discovery error"]
        [] /\ response.status = "Content"
           /\ formats # <<>> /\ Head(formats) # "link-format" ->
             [error |-> "unexpected content format"]
        [] /\ response.status = "Content"
           /\ formats = <<>> \/ Head(formats) = "link-format" ->
             IF response.payload.kind # "links" THEN [error |-> "link format error"]
             ELSE [links |-> ParseLinkFormat(response.payload.links)]
=============================================================================
