------------------------------ MODULE MCRouter ------------------------------
(***************************************************************************)
(* Small instances of Router for TLC: every pair of routes with plain      *)
(* handlers, and every type of handler on a route of its own.              *)
(***************************************************************************)
EXTENDS Router, TLC

AnyChar == STRING

rt == <<"r", "t">>
obs == <<"o", "b", "s">>
Core == <<"/">> \o WellKnownCore

\* Types of the Path extractor.
Prim(p) == [kind |-> "prim", prim |-> p, wraps |-> <<>>]
Bare(kind) == [kind |-> kind, wraps |-> <<>>]
Of(kind, type) == [kind |-> kind, of |-> type, wraps |-> <<>>]
In(wrap, type) == [type EXCEPT !.wraps = <<wrap>> \o @]
Pair(a, b) == Of("tuple", <<a, b>>)
Num == Prim("u32")
Str == Prim("String")
Fields(last) == [kind |-> "struct", wraps |-> <<>>,
                 fields |-> <<[name |-> <<"y">>, type |-> last],
                              [name |-> <<"x">>, type |-> Num]>>]

PathValues ==
  {Num, Str, Prim("char"), Bare("unit"), Bare("any"),
   Bare("bytes"), In("option", Num), In("newtype", Num), Of("seq", Num),
   Of("seq", In("option", Num)), Of("seq", Of("seq", Num)),
   Of("seq", Pair(Str, Num)), Of("seq", Pair(Num, Num)),
   Of("seq", Pair(In("newtype", Str), Num)),
   Of("seq", Pair(Str, Pair(Str, Num))),
   In("newtype", Of("seq", In("option", Pair(Str, In("newtype", Pair(Str, Num)))))),
   In("newtype", In("option", Of("seq", Pair(Str, Pair(Str, Num))))),
   Of("tuple", <<Num, Str>>),
   Of("tuple_struct", <<Str, Of("seq", Num)>>), Fields(Num),
   Fields(In("option", Num)),
   [kind |-> "map", key |-> Str, of |-> Num, wraps |-> <<>>],
   [kind |-> "map", key |-> Num, of |-> Num, wraps |-> <<>>],
   [kind |-> "map", key |-> Str, of |-> Pair(Str, Pair(Str, Num)), wraps |-> <<>>],
   [kind |-> "enum", wraps |-> <<>>,
    variants |-> [v \in {<<"a">>, <<"1">>} |-> IF v = <<"a">> THEN "unit" ELSE "data"]]}

PartsOf(type) ==
  CASE type.kind = "seq" -> {type.of}
    [] type.kind \in {"tuple", "tuple_struct"} -> ToSet(type.of)
    [] type.kind = "map" -> {type.key, type.of}
    [] type.kind = "struct" -> {type.fields[f].type : f \in DOMAIN type.fields}
    [] OTHER -> {}

Parts == UNION {PartsOf(type) : type \in PathValues}

\* Every type above, its parts and theirs.
SomePathTypes ==
  PathValues \cup Parts \cup UNION {PartsOf(type) \cup
    UNION {PartsOf(part) : part \in PartsOf(type)} : type \in Parts}

\* Handlers.
Handler(extract, reply) == [extract |-> extract, reply |-> reply]
Said(text) == [kind |-> "text", text |-> text, around |-> <<>>]
Encoded(codec, works) == [kind |-> codec, encodes |-> works, around |-> <<>>]
Paired(status, reply) == [reply EXCEPT !.around = <<status>> \o @]
PathOf(type) == [kind |-> "path", type |-> type]
Query(keys) == [kind |-> "query", keys |-> keys]
Json == [kind |-> "json"]
Cbor == [kind |-> "cbor"]
State == [kind |-> "state"]

Plain == Handler(<<>>, Said("plain"))

Handlers ==
  {Handler(<<PathOf(t)>>, Said("value")) : t \in PathValues} \cup
  {Handler(<<PathOf(Num), Json>>, Encoded("json", TRUE)),
   Handler(<<Query({<<"k">>}), State>>, Encoded("cbor", FALSE)),
   Handler(<<Json, Query({})>>,
           Paired("Content", Paired("Changed", Encoded("json", FALSE)))),
   Handler(<<Cbor>>, [kind |-> "status", status |-> "Changed", around |-> <<>>]),
   Handler(<<>>, [kind |-> "unit", around |-> <<>>])}

\* Routes.
Get(handler) == Only("GET", handler)
Listed == LinkAttribute(
            LinkAttribute(LinkAttribute(Get(Plain), Attribute(rt, <<"a", " ", "b">>)),
                          Flag(obs)),
            Attribute(<<"t">>, <<>>))

MethodSets == {Listed, With(Only("PUT", Plain), "PUT", Handler(<<>>, Said("put"))),
               Only("fallback", Plain)}

Patterns == {<<"/">>, <<"/", "a">>, <<"/", "a", "/", "{", "x", "}", "/">>,
             <<"{", "x", "}", "/", "{", "y", "}">>,
             <<"{", "x", "}", "b", "{", "y", "}">>, Core}

BadPatterns == {<<"{", "x">>, <<"a", "}">>, <<"{", "{", "x", "}">>,
                <<"{", "x", "/", "y", "}">>}

Route(pattern, methods) == [pattern |-> pattern, methods |-> methods]

PlainPrograms == {<<Route(p, m), Route(q, n)>> :
                    p, q \in Patterns, m, n \in MethodSets}

RichPrograms == {<<Route(p, Get(h))>> :
                   p \in Patterns \cup {<<"{", "x", "}">>, <<"a", "/", "%20">>}, h \in Handlers}

BadPrograms == {<<Route(<<"a">>, Listed), Route(p, Listed)>> : p \in BadPatterns}

EdhocPrograms ==
  {<<Route(<<"/", "a">>, EdhocRoute(status))>> : status \in {"Changed", "BadRequest"}}

SomePrograms == PlainPrograms \cup RichPrograms \cup BadPrograms \cup EdhocPrograms

SomeFallbacks == {Handler(<<PathOf(Num)>>, Said("fallback"))}

\* Requests.
Msg(method, path, queries, body, kind) ==
  [panics |-> FALSE, method |-> method, path |-> path, queries |-> queries,
   options |-> <<>>, body |-> body, kind |-> kind, params |-> <<>>,
   source |-> "peer"]

Paths == {<<>>, <<<<>>, <<"a">>>>, <<<<"a">>>>, <<<<"a">>, <<"1">>>>,
          <<<<"1">>, <<"a">>>>, <<<<"1">>, <<"1", "2">>>>, <<<<"1">>>>,
          <<<<"a">>, <<"%20">>>>, <<<<"a">>, <<"%FF">>>>,
          <<<<"a", "\\xFF">>>>, <<<<"1", "b", "1", "b", "1">>>>,
          <<<<".well-known">>, <<"core">>>>}

Filters == {<<>>, <<rt \o <<"=", "b">>>>, <<rt \o <<"=", "a", "*">>, obs>>,
            <<rt \o <<"=", "b">>, <<"h", "r", "e", "f", "=", "/", "a">>>>,
            <<<<"t", "=">>>>, <<<<"\\xFF">>>>, <<obs \o <<"=", "*">>>>}

SomeRequests ==
  {Msg("GET", p, <<>>, "json", "Confirmable") : p \in Paths} \cup
  {Msg("PUT", p, <<>>, "cbor", "NonConfirmable") : p \in Paths} \cup
  {Msg("FETCH", <<<<"a">>>>, <<>>, "text", "Confirmable"),
   Msg("GET", <<<<"a">>, <<"1">>>>, <<>>, "binary", "Acknowledgement"),
   Msg("POST", <<<<"a">>>>, <<>>, "binary", "Confirmable"),
   [Msg("POST", <<<<"a">>>>, <<>>, "binary", "Confirmable") EXCEPT !.source = None],
   Msg("GET", <<<<"a">>, <<"1">>>>, <<<<"k", "=", "a">>>>, "text", "Confirmable"),
   Msg("GET", <<<<"a">>, <<"1">>>>, <<<<"k">>, <<"\\xFF">>>>, "cbor", "Confirmable")} \cup
  {Msg("GET", <<<<".well-known">>, <<"core">>>>, q, "text", "Confirmable") : q \in Filters}

Link2(path, hasQuery, query) ==
  [valid |-> TRUE, host |-> "h", isAddress |-> FALSE, path |-> path,
   hasQuery |-> hasQuery, query |-> query]

SomeUrls ==
  {Link2(<<"/", "a">>, FALSE, <<>>),
   Link2(<<"/", "a", "/", "%20">>, TRUE, <<"k", "=", "a", "%20", "&", "t">>),
   Link2(<<"/", "a", "/", "1">>, TRUE, <<"k", "=", "%26", "%2B">>),
   [Link2(<<"/">>, TRUE, rt \o <<"=", "a", "*">>) EXCEPT !.isAddress = TRUE],
   [Link2(<<"/">>, FALSE, <<>>) EXCEPT !.host = ""],
   [Link2(<<"/">>, FALSE, <<>>) EXCEPT !.valid = FALSE]}
=============================================================================
