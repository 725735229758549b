------------------------------- MODULE Router -------------------------------
(***************************************************************************)
(* The router (src/src/router/): a program builds a table of routes, then  *)
(* the server hands it requests, those of the library's own client among   *)
(* them.  A request is handled by a task of its own that only reads the    *)
(* table: requests do not meet, handling one is one action, and a behaviour *)
(* ends with the answer to the first.                                      *)
(*                                                                         *)
(* A handler is the list of its extractors and the value it returns; what  *)
(* serde and the codecs make of a body or a query is part of the request.  *)
(***************************************************************************)
EXTENDS PathValue, RequestUrl, Functions

CONSTANTS
    PathType,   \* types a program may give to the Path extractor
    Programs,   \* sequences of [pattern, methods]: the calls of route()
    Fallbacks,  \* handlers a program may give to fallback()
    Requests,   \* requests of any client
    Urls,       \* URLs given to this library's client
    None        \* the absent value of an Option

\* The shapes serde's data model has, as PathValue describes them.
Shaped(type) ==
  /\ type.wraps \in Seq({"option", "newtype"})
  /\ \/ type.kind \in {"unit", "any", "bytes", "ignored", "enum"}
     \/ type.kind = "prim" /\ type.prim \in {"String", "char", "u32"}
     \/ type.kind = "seq" /\ type.of \in PathType
     \/ type.kind \in {"tuple", "tuple_struct"} /\ type.of \in Seq(PathType)
     \/ type.kind = "map" /\ {type.key, type.of} \subseteq PathType
     \/ type.kind = "struct" /\ type.fields \in Seq([name : Texts, type : PathType])

Extractor == [kind : {"json", "cbor", "state", "raw", "peer"}]
               \cup [kind : {"path"}, type : PathType]
               \cup [kind : {"query"}, keys : SUBSET Texts]

\* The calls of route() in all programs.
Calls == UNION {ToSet(p) : p \in Programs}

ASSUME NoneAssumption == None \notin [kind : {"links"}, text : {""}, links : Seq(Written)]

ASSUME PathTypeAssumption == \A type \in PathType : Shaped(type)

ASSUME ProgramsAssumption ==
  /\ Programs \subseteq Seq(Calls)
  /\ \A c \in Calls :
       /\ c.pattern \in Texts
       /\ c.methods.attributes \in Seq(Attributes)
       /\ \A m \in DOMAIN c.methods.handlers :
            c.methods.handlers[m].extract \in Seq(Extractor)
  /\ \A h \in Fallbacks : h.extract \in Seq(Extractor)

Received(req) ==
  /\ {"method", "path", "queries", "body", "kind", "params", "source"} \subseteq DOMAIN req
  /\ req.path \in Seq(Texts) /\ req.queries \in Seq(Texts)
  /\ req.body \in {"text", "json", "cbor", "binary"}
  /\ req.params = <<>>

\* The url crate leaves only ASCII in a URL.
ASSUME RequestsAssumption ==
  /\ \A req \in Requests : Received(req)
  /\ \A u \in Urls : /\ u.path \in Texts /\ u.query \in Texts
                     /\ Utf8(u.path) /\ Utf8(u.query)
                     /\ ~u.hasQuery => u.query = <<>>

VARIABLES
    program,  \* calls of route() still to be made, None after a panic
    table,    \* the router: routes, fallback, discovery
    request,  \* the request handled last
    url,      \* the URL it was made from, if the library's client made it
    answer    \* what became of it

vars == <<program, table, request, url, answer>>

-----------------------------------------------------------------------------
(* Method routers and routes.                                              *)

EmptyMethods == [handlers |-> [m \in {} |-> m], attributes |-> <<>>]

\* get, put, post, delete and fallback: a later call replaces an earlier one.
With(methods, method, handler) ==
  [methods EXCEPT !.handlers =
     [m \in DOMAIN @ \cup {method} |-> IF m = method THEN handler ELSE @[m]]]

\* The functions get, delete, post, put and fallback.
Only(method, handler) == With(EmptyMethods, method, handler)

LinkAttribute(methods, attribute) ==
  [methods EXCEPT !.attributes = Append(@, attribute)]

\* The handler for a method, or the method router's fallback, if there is one.
HandlerFor(methods, method) ==
  {methods.handlers[m] : m \in
     IF method \in DOMAIN methods.handlers THEN {method}
     ELSE {"fallback"} \cap DOMAIN methods.handlers}

NewRoute(pattern, methods) ==
  [pattern |-> pattern, regex |-> BuildRegex(pattern).regex, methods |-> methods]

Links(t) ==
  LET fixed == Those(t.routes, {r \in ToSet(t.routes) : ~HasParams(r.regex)})
  IN  [i \in DOMAIN fixed |-> [href |-> <<"/">> \o TrimSlashes(fixed[i].pattern),
                               attributes |-> fixed[i].methods.attributes]]

-----------------------------------------------------------------------------
(* Requests, as the router's wrapper reads them.                           *)

\* A path option that is not UTF-8 leaves no path at all.
RequestPath(req) ==
  IF req.path = <<>> \/ \E i \in DOMAIN req.path : ~Utf8(req.path[i]) THEN <<>>
  ELSE Join(req.path, <<"/">>)

\* Whether query_as_vec gives the queries or an error.
QueriesRead(req) == \A i \in DOMAIN req.queries : Utf8(req.queries[i])

NonEmpty(parts) == Those(parts, ToSet(parts) \ {<<>>})

\* The pairs a form deserializer sees in the queries joined by "&": "+" is a
\* space, and the escapes are decoded.
QueryPairs(req) ==
  LET text  == IF req.queries = <<>> THEN <<>> ELSE Join(req.queries, <<"&">>)
      parts == NonEmpty(Split(text, "&"))
      plain(part) == PercentDecode([i \in DOMAIN part |->
                                      IF part[i] = "+" THEN " " ELSE part[i]])
  IN  [i \in DOMAIN parts |->
         [name  |-> plain(SplitQuery(parts[i]).name),
          value |-> plain(SplitQuery(parts[i]).pattern)]]

\* coap-lite prepares a response to a message that may be answered.
Replyable(req) == req.kind \in {"Confirmable", "NonConfirmable"}

-----------------------------------------------------------------------------
(* Responses.  `None' is a part the handler leaves as coap-lite set it.    *)

Response(status, payload) ==
  [status |-> status, payload |-> payload, formats |-> <<>>]

Text(text) == [kind |-> "text", text |-> text, links |-> <<>>]

\* What a value becomes under either codec.
Encode(encodes) ==
  IF encodes THEN Response(None, Text("encoded"))
  ELSE Response("InternalServerError", Text("Failed to serialize response body"))

JsonResponse(reply) == Encode(reply.encodes)
CborResponse(reply) == Encode(reply.encodes)

NotFound == Response("NotFound", Text("Not found"))

\* message_2, message_4 or an EDHOC error message.
EdhocResponse(status) ==
  [Response(status, Text("edhoc")) EXCEPT !.formats = <<"edhoc+cbor-seq">>]

\* A value by itself.
IntoPlainResponse(reply) ==
  CASE reply.kind = "unit"     -> Response(None, None)
    [] reply.kind = "status"   -> Response(reply.status, None)
    [] reply.kind = "text"     -> Response(None, Text(reply.text))
    [] reply.kind = "json"     -> JsonResponse(reply)
    [] reply.kind = "cbor"     -> CborResponse(reply)
    [] reply.kind = "edhoc"    -> EdhocResponse(reply.status)

\* A status put around a value replaces the one the value comes with, or that
\* was put around it before: `around' has them, the last first.
IntoResponse(reply) ==
  IF reply.around = <<>> THEN IntoPlainResponse(reply)
  ELSE [IntoPlainResponse(reply) EXCEPT !.status = Head(reply.around)]

\* coap-lite prepares a response with status Content.
FillResponse(req, response) ==
  IF ~Replyable(req) THEN None
  ELSE [status  |-> IF response.status = None THEN "Content" ELSE response.status,
        payload |-> IF response.payload = None THEN Text("prepared")
                    ELSE response.payload,
        formats |-> response.formats]

-----------------------------------------------------------------------------
(* Handlers.                                                               *)

Reject(status, text) ==
  [tag |-> "rejected", response |-> Response(status, Text(text))]

ExtractPath(type, req) ==
  LET result == Deserialize(type, req.params)
  IN  IF result.tag = "error"
      THEN Reject(RejectionStatus(result.error), result.error)
      ELSE result

ExtractQuery(keys, req) ==
  LET pairs == QueryPairs(req)
  IN  IF ~QueriesRead(req) THEN Reject("BadRequest", "InvalidUtf8")
      ELSE IF ~(keys \subseteq {pairs[i].name : i \in DOMAIN pairs})
      THEN Reject("BadRequest", "InvalidQuery")
      ELSE [tag |-> "ok", value |-> [pairs |-> pairs]]

ExtractJson(req) ==
  CASE req.body \in {"binary", "cbor"} -> Reject("BadRequest", "InvalidUtf8")
    [] req.body = "text" -> Reject("BadRequest", "DeserializationError")
    [] req.body = "json" -> Leaf(req.body)

ExtractCbor(req) ==
  IF req.body = "cbor" THEN Leaf(req.body)
  ELSE Reject("BadRequest", "DeserializationError")

\* The part of the router's state a handler asks for is always there.
ExtractState == Leaf("state")

\* The extractors of the EDHOC route: the payload as it is, and the peer, whom
\* the server knows, a program that hands over a request of its own may not.
ExtractRawBody(req) == Leaf(req.body)

ExtractPeer(req) ==
  IF req.source = None THEN Reject("InternalServerError", "no peer address")
  ELSE Leaf("peer")

\* edhoc_route; what process_edhoc_message makes of the payload is Edhoc's.
EdhocRoute(status) ==
  Only("POST", [extract |-> <<[kind |-> "state"], [kind |-> "peer"], [kind |-> "raw"]>>,
                reply   |-> [kind |-> "edhoc", status |-> status, around |-> <<>>]])

FromRequest(extractor, req) ==
  CASE extractor.kind = "path"  -> ExtractPath(extractor.type, req)
    [] extractor.kind = "query" -> ExtractQuery(extractor.keys, req)
    [] extractor.kind = "json"  -> ExtractJson(req)
    [] extractor.kind = "cbor"  -> ExtractCbor(req)
    [] extractor.kind = "state" -> ExtractState
    [] extractor.kind = "raw"   -> ExtractRawBody(req)
    [] extractor.kind = "peer"  -> ExtractPeer(req)

\* Extractors run in order, up to the first that rejects; those of a tuple
\* among them stand in its place.
FromRequests(extractors, req) ==
  Collect([i \in DOMAIN extractors |-> FromRequest(extractors[i], req)])

\* A handler runs when every extractor has given its value.
Call(handler, req) ==
  LET got == FromRequests(handler.extract, req)
  IN  CASE got.tag = "ok" ->
             [outcome |-> "ran", handler |-> handler,
              response |-> FillResponse(req, IntoResponse(handler.reply))]
        [] got.tag = "rejected" ->
             [outcome |-> "rejected", handler |-> handler,
              response |-> FillResponse(req, got.response)]
        [] got.tag = "panic" ->
             [outcome |-> "panicked", handler |-> handler, response |-> None]

-----------------------------------------------------------------------------
(* Router::handle.                                                         *)

\* Who answers (a route, with its number), and what a handler makes of it.
Answer(by, route, called) ==
  [by |-> by, route |-> route, outcome |-> called.outcome,
   handler |-> called.handler, response |-> called.response]

\* An answer without a handler.
Reply(by, outcome, response) ==
  Answer(by, 0, [outcome |-> outcome, handler |-> None, response |-> response])

HandleFallback(t, req) ==
  IF t.fallback # None THEN Answer("fallback", 0, Call(t.fallback, req))
  ELSE Reply("fallback", "not found", FillResponse(req, NotFound))

HandleDiscovery(t, req) ==
  LET links == Those(Links(t), {link \in ToSet(Links(t)) :
                 \A i \in DOMAIN req.queries : MatchesQuery(link, req.queries[i])})
  IN  IF ~QueriesRead(req)
      THEN Reply("discovery", "rejected",
             FillResponse(req, Response("BadRequest", Text("Invalid query string"))))
      ELSE Reply("discovery", "ran",
             FillResponse(req, [status |-> "Content", formats |-> <<"link-format">>,
                                payload |-> [kind |-> "links", text |-> "",
                                             links |-> WriteLinkFormat(links)]]))

Hits(t, req) ==
  {i \in DOMAIN t.routes : MatchPath(t.routes[i].regex, RequestPath(req)) # {}}

\* Mutant of FirstHit: the route added last wins.
LastHit(t, req) == Max(Hits(t, req))

\* The routes are explored in the order they were added.
FirstHit(t, req) == Min(Hits(t, req))

\* A request with the parameters of a route that matches it.
Matched(route, req) ==
  [req EXCEPT !.params =
     CHOOSE p \in MatchPath(route.regex, RequestPath(req)) : TRUE]

\* When the route has no handler for the method, the router's fallback gets the
\* request, with the parameters of the route.
HandleRoute(t, i, req) ==
  LET matched == Matched(t.routes[i], req)
      found   == HandlerFor(t.routes[i].methods, req.method)
  IN  IF found = {} THEN HandleFallback(t, matched)
      ELSE Answer("route", i, Call(CHOOSE h \in found : TRUE, matched))

\* The first route that matches takes the request.
Handle(t, req) ==
  IF Hits(t, req) # {} THEN HandleRoute(t, FirstHit(t, req), req)
  ELSE IF t.discovery /\ req.method = "GET" /\ RequestPath(req) = WellKnownCore
  THEN HandleDiscovery(t, req)
  ELSE HandleFallback(t, req)

-----------------------------------------------------------------------------
Unasked == /\ request = None
           /\ url = None
           /\ answer = None

Init ==
  /\ program \in Programs
  /\ table = [routes |-> <<>>, fallback |-> None, discovery |-> FALSE]
  /\ Unasked

\* Router::route.  A pattern with an unmatched brace panics: no router is built.
AddRoute ==
  /\ Unasked
  /\ program \notin {<<>>, None}
  /\ IF BuildRegex(Head(program).pattern).panics
     THEN program' = None /\ UNCHANGED table
     ELSE /\ program' = Tail(program)
          /\ table' = [table EXCEPT !.routes =
               Append(@, NewRoute(Head(program).pattern, Head(program).methods))]
  /\ UNCHANGED <<request, url, answer>>

\* Router::fallback.
SetFallback(handler) ==
  /\ Unasked
  /\ program # None
  /\ table' = [table EXCEPT !.fallback = handler]
  /\ UNCHANGED <<program, request, url, answer>>

\* Router::enable_discovery.
EnableDiscovery(value) ==
  /\ Unasked
  /\ program # None
  /\ table' = [table EXCEPT !.discovery = value]
  /\ UNCHANGED <<program, request, url, answer>>

\* A request arrives.
Serve(req) ==
  /\ Unasked
  /\ program = <<>>
  /\ request' = req
  /\ url' = None
  /\ answer' = Handle(table, req)
  /\ UNCHANGED <<program, table>>

\* The server knows the address a request came from.
SentByClient(req) ==
  [field \in DOMAIN req \cup {"source"} |->
     IF field = "source" THEN "peer" ELSE req[field]]

\* UdpCoAPClient::request with a URL that can be parsed.
Fetch(u, method) ==
  /\ Unasked
  /\ program = <<>>
  /\ "error" \notin DOMAIN ParseCoapUrl(u)
  /\ request' = SentByClient(UrlRequest(u, method, "text"))
  /\ url' = u
  /\ answer' = Handle(table, request')
  /\ UNCHANGED <<program, table>>

\* UdpCoAPClient::discover.
Discover(u) == Fetch(DiscoveryUrl(u), "GET")

Next ==
  \/ AddRoute
  \/ \E h \in Fallbacks : SetFallback(h)
  \/ \E v \in BOOLEAN : EnableDiscovery(v)
  \/ \E req \in Requests : Serve(req)
  \/ \E u \in Urls, m \in {"GET", "POST", "PUT", "DELETE"} : Fetch(u, m)
  \/ \E u \in Urls : Discover(u)

Spec == Init /\ [][Next]_vars

-----------------------------------------------------------------------------
(* Properties.                                                             *)

\* The text of a pattern with a value in the place of each pair of braces.
Fill(pattern, values) ==
  LET given(n) == IF n \in DOMAIN values THEN values[n] ELSE <<>>
      step(st, ch) ==
        CASE ch = "{" -> [st EXCEPT !.skip = TRUE, !.n = @ + 1]
          [] ch = "}" -> [st EXCEPT !.skip = FALSE, !.text = @ \o given(st.n)]
          [] ch \notin {"{", "}"} ->
               IF st.skip THEN st ELSE [st EXCEPT !.text = Append(@, ch)]
  IN  FoldLeft(step, [text |-> <<>>, skip |-> FALSE, n |-> 0], pattern).text

\* The opening braces of a pattern, and what they may stand for in a path.
Opening(pattern) == {i \in DOMAIN pattern : pattern[i] = "{"}

Capturable(path) ==
  {t \in {SubSeq(path, j, k) : j, k \in DOMAIN path} : t # <<>> /\ ~Contains(t, "/")}

\* The values that fill a pattern to a path.
PatternValues(pattern, path) ==
  {v \in [1..Cardinality(Opening(pattern)) -> Capturable(path)] : Fill(pattern, v) = path}

\* A route matches exactly the paths its pattern describes: what it captures
\* fills the braces of the pattern to the path again, and when it captures
\* nothing, no values without a slash would.  (Route::build_regex and
\* match_path, route.rs:85-188.)
RoutedByPattern ==
  answer # None =>
    \A i \in DOMAIN table.routes :
      LET path   == TrimSlashes(RequestPath(request))
          values == PatternValues(TrimSlashes(table.routes[i].pattern), path)
          found  == Captures(table.routes[i].regex, path)
      IN  found \subseteq values /\ (found = {} => values = {})

\* A route added last takes only requests that no route took before: whatever
\* method it has, the answers of the earlier routes stay what they were, and
\* other answers change only for the paths it matches and for discovery.
\* ("Routes are matched in the order they are added", router/mod.rs:68.)
AppendKeepsAnswers ==
  [][Len(table'.routes) > Len(table.routes) =>
       \A req \in Requests :
         \/ Handle(table', req) = Handle(table, req)
         \/ /\ Hits(table, req) = {}
            /\ Hits(table', req) # {} \/ Handle(table, req).by = "discovery"]_table

\* The links a client reads from the answer to a discovery are the routes
\* without parameters that match all the queries, with all of their
\* attributes, flags and empty values told apart.  (write_link_format,
\* parse_link_format, discovery.rs:96-145, parse_discovery_response,
\* client.rs:1181.)
DiscoveryReachesClient ==
  (answer # None /\ answer.by = "discovery" /\ answer.outcome = "ran"
     /\ answer.response # None) =>
    LET parsed == ParseDiscoveryResponse(answer.response)
        passes(link) == \A i \in DOMAIN request.queries :
                          MatchesQuery(link, request.queries[i])
        readable(link) == [href |-> link.href, attributes |-> ToSet(link.attributes)]
    IN  /\ "links" \in DOMAIN parsed
        /\ {readable(l) : l \in ToSet(parsed.links)} =
           {readable(l) : l \in {k \in ToSet(Links(table)) : passes(k)}}

\* Asking for less never shows more: a discovery whose queries are a part of
\* another's, or end in a shorter prefix and "*", lists what the other lists.
\* (Link::matches_query, discovery.rs:73-92.)
WiderFilterShowsMore ==
  (answer # None /\ answer.by = "discovery") =>
    \A i \in DOMAIN request.queries : \A n \in 0..Len(request.queries[i]) :
      LET query  == request.queries[i]
          prefix == SubSeq(query, 1, n)
          wider  == {RemoveAt(request.queries, i)} \cup
                    {ReplaceAt(request.queries, i, Append(prefix, "*")) :
                       x \in {0} \cap {IF Contains(prefix, "=") /\ ~Contains(prefix, "*")
                                   THEN 0 ELSE 1}}
          links(queries) ==
            {l \in ToSet(Links(table)) :
               \A j \in DOMAIN queries : MatchesQuery(l, queries[j])}
      IN  \A w \in wider : links(request.queries) \subseteq links(w)

-----------------------------------------------------------------------------
(* The types of the Path extractor.                                        *)

PathTypes(handler) ==
  {handler.extract[i].type : i \in {j \in DOMAIN handler.extract :
                                      handler.extract[j].kind = "path"}}

\* A pair in a sequence whose second element is a pair again.
NestedPair(type) ==
  LET elements == CASE type.kind = "seq" -> {type.of}
                    [] type.kind \in {"tuple", "tuple_struct"} -> ToSet(type.of)
                    [] OTHER -> {}
  IN  \E e \in elements : IsPair(e) /\ IsPair(e.of[2])

\* The unreachable!() of de.rs:464 is reached, but only by a sequence of pairs
\* whose second element is a pair.
PanicOnlyOnNestedPair ==
  (answer # None /\ answer.outcome = "panicked") =>
    \E type \in PathTypes(answer.handler) : NestedPair(type)

\* A struct reads the parameters by their names as a tuple reads them by their
\* places: whatever the order of its fields, each gets the value of its
\* parameter, or the request is refused where the tuple refuses it.
\* (MapDeserializer and SeqDeserializer, de.rs:227-263 and 590-615.)
StructAgreesWithTuple ==
  (answer # None /\ answer.by = "route") =>
    LET regex  == table.routes[answer.route].regex
        params == CHOOSE p \in MatchPath(regex, RequestPath(request)) : TRUE
        places == DOMAIN params
    IN  IsInjective([i \in places |-> params[i].name]) =>
        \A prims \in [places -> {"String", "u32"}] :
        \A order \in Bijection(places, places) :
          LET type(i) == [kind |-> "prim", prim |-> prims[i], wraps |-> <<>>]
              tuple  == Deserialize([kind |-> "tuple_struct", wraps |-> <<>>,
                                     of |-> [i \in places |-> type(i)]], params)
              struct == Deserialize([kind |-> "struct", wraps |-> <<>>,
                          fields |-> [f \in places |->
                            [name |-> params[order[f]].name,
                             type |-> type(order[f])]]], params)
          IN  /\ struct.tag = tuple.tag
              /\ tuple.tag = "ok" =>
                   \A f \in places : struct.value.node[f] = tuple.value.node[order[f]]
              /\ tuple.tag = "error" => struct.at.name = tuple.at.name

\* What a program writes in a URL is what the handler gets: the parameters of
\* the route fill its pattern (with its escapes decoded) to the decoded path,
\* each decoded once, and the pairs of the query are those of the URL, as long
\* as no escape in the query stands for a character that the form encoding
\* reserves (the client decodes the query, and the Query extractor again; an
\* escaped percent sign is not among the characters).
\* (parse_coap_url, client.rs:1140; match_path, route.rs:167; Query::from_request,
\* extract/query.rs:49.)
UrlArrives ==
  (url # None /\ answer.by = "route") =>
    LET route  == table.routes[answer.route]
        params == CHOOSE p \in MatchPath(route.regex, RequestPath(request)) : TRUE
        split(pair) == [name |-> PercentDecode(SplitQuery(pair).name),
                        value |-> PercentDecode(SplitQuery(pair).pattern)]
        pairs  == NonEmpty(Split(url.query, "&"))
        reserved == {"%26", "%2B", "+", "%FF"}
    IN  /\ Fill(PercentDecode(TrimSlashes(route.pattern)),
               [i \in DOMAIN params |-> params[i].value])
             = PercentDecode(TrimSlashes(url.path))
        /\ ToSet(url.query) \cap reserved = {} =>
             QueryPairs(request) = [i \in DOMAIN pairs |-> split(pairs[i])]
=============================================================================
