----------------------------- MODULE LinkFormat -----------------------------
(***************************************************************************)
(* Links of resource discovery (src/src/discovery.rs): the filter of a     *)
(* query, and the link format as coap-lite writes and reads it.            *)
(*                                                                         *)
(* A link is a record [href, attributes]; an attribute is a record         *)
(* [key, given, value], `given' FALSE for a flag such as obs.  On the wire *)
(* an attribute has a form: "flag", "bare" or "quoted".                    *)
(***************************************************************************)
EXTENDS RoutePath

Attribute(key, value) == [key |-> key, given |-> TRUE, value |-> value]

Flag(key) == [key |-> key, given |-> FALSE, value |-> <<>>]

Attributes == [key : Texts, given : {TRUE}, value : Texts]
                \cup [key : Texts, given : {FALSE}, value : {<<>>}]

\* Links as they are written.
Written == [href : Texts,
            attributes : Seq([key : Texts, form : {"flag", "bare", "quoted"},
                              value : Texts])]

Valued(attributes) == Those(attributes, {a \in ToSet(attributes) : a.given})

Flags(attributes) == Those(attributes, {a \in ToSet(attributes) : ~a.given})

Words(value) == ToSet(Split(value, " ")) \ {<<>>}

\* split_once('='): the text before the first "=", and what follows it.
SplitQuery(query) ==
  LET at == {i \in DOMAIN query : query[i] = "="}
  IN  IF at = {} THEN [name |-> query, filtered |-> FALSE, pattern |-> <<>>]
      ELSE [name     |-> SubSeq(query, 1, Min(at) - 1),
            filtered |-> TRUE,
            pattern  |-> SubSeq(query, Min(at) + 1, Len(query))]

\* Mutant of ValueMatches: the prefix alone does not match.
ValueMatchesLonger(value, pattern) ==
  IF pattern # <<>> /\ Last(pattern) = "*" THEN IsStrictPrefix(Front(pattern), value)
  ELSE value = pattern

ValueMatches(value, pattern) ==
  IF pattern # <<>> /\ Last(pattern) = "*" THEN IsPrefix(Front(pattern), value)
  ELSE value = pattern

MatchesQuery(link, query) ==
  LET q == SplitQuery(query)
      attributes == ToSet(link.attributes)
  IN  IF ~q.filtered THEN \E a \in attributes : a.key = q.name
      ELSE IF q.name = <<"h", "r", "e", "f">> THEN ValueMatches(link.href, q.pattern)
      ELSE \E a \in attributes :
             /\ a.given /\ a.key = q.name
             /\ \E v \in {a.value} \cup Words(a.value) : ValueMatches(v, q.pattern)

\* coap-lite's LinkAttributeWrite::attr quotes a value with a space in it.
WriteAttr(key, value) ==
  [key |-> key, form |-> IF Contains(value, " ") THEN "quoted" ELSE "bare",
   value |-> value]

\* Mutant of WriteLink: an empty value is written like any other.
WriteEmptyBare(link) ==
  LET valued == Valued(link.attributes)
      flags  == Flags(link.attributes)
  IN  [href |-> link.href,
       attributes |->
         [i \in DOMAIN valued |-> WriteAttr(valued[i].key, valued[i].value)]
         \o [i \in DOMAIN flags |->
               [key |-> flags[i].key, form |-> "flag", value |-> <<>>]]]

\* Values first, an empty one quoted; then the flags.
WriteLink(link) ==
  LET valued == Valued(link.attributes)
      flags  == Flags(link.attributes)
  IN  [href |-> link.href,
       attributes |->
         [i \in DOMAIN valued |->
            IF valued[i].value = <<>>
            THEN [key |-> valued[i].key, form |-> "quoted", value |-> <<>>]
            ELSE WriteAttr(valued[i].key, valued[i].value)]
         \o [i \in DOMAIN flags |->
               [key |-> flags[i].key, form |-> "flag", value |-> <<>>]]]

WriteLinkFormat(links) == [i \in DOMAIN links |-> WriteLink(links[i])]

ParseLink(written) ==
  [href |-> written.href,
   attributes |->
     [i \in DOMAIN written.attributes |->
        LET a == written.attributes[i]
        IN  IF a.form = "quoted" \/ a.value # <<>> THEN Attribute(a.key, a.value)
            ELSE Flag(a.key)]]

ParseLinkFormat(written) == [i \in DOMAIN written |-> ParseLink(written[i])]
=============================================================================
