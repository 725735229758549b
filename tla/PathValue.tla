----------------------------- MODULE PathValue -----------------------------
(***************************************************************************)
(* How the Path extractor builds a value of the handler's type from the    *)
(* parameters of a route (src/src/router/extract/path/).                   *)
(*                                                                         *)
(* A type is a record with a `kind', what the kind needs, and `wraps', the *)
(* Options and newtypes around it, outermost first; the calls serde's      *)
(* visitors make on the deserializer are folded into the operators below.  *)
(* A value is a leaf (a text) or a node (a sequence of values).  The       *)
(* operators return a result: a value, an error or a panic.                *)
(***************************************************************************)
EXTENDS Naturals, SequencesExt

Leaf(text) == [tag |-> "ok", value |-> [leaf |-> text]]

Node(values) == [tag |-> "ok", value |-> [node |-> values]]

Fail(error, at) == [tag |-> "error", error |-> error, at |-> at]

Panic == [tag |-> "panic"]

\* The first result that is no value, or the node of all values.
Collect(results) ==
  LET failed == {i \in DOMAIN results : results[i].tag # "ok"}
  IN  IF failed = {} THEN Node([i \in DOMAIN results |-> results[i].value])
      ELSE results[Min(failed)]

\* str::parse of a primitive type.
Parses(prim, text) ==
  CASE prim = "String" -> TRUE
    [] prim = "char"   -> Len(text) = 1
    [] prim = "u32"    -> text # <<>> /\ ToSet(text) \subseteq {"1", "2"}

\* Where a value stands: under a key of a map, at an index of a sequence, or
\* nowhere (inside a pair).
AtKey(name)      == [kind |-> "Key", name |-> name, idx |-> 0]
AtIdx(i, name)   == [kind |-> "Idx", name |-> name, idx |-> i]
Nowhere          == [kind |-> "None", name |-> <<>>, idx |-> 0]

\* A value of one parameter, parsed; the kind of error says where it stood.
ParseValue(prim, text, at) ==
  IF Parses(prim, text) THEN Leaf(text)
  ELSE Fail(CASE at.kind = "Key"  -> "ParseErrorAtKey"
              [] at.kind = "Idx"  -> "ParseErrorAtIndex"
              [] at.kind = "None" -> "ParseError", at)

\* A key is a text or an identifier, and nothing else.
DeserializeKey(type, key) ==
  IF type.kind = "prim" /\ type.wraps = <<>> /\ type.prim = "String" THEN Leaf(key)
  ELSE Fail("Message", Nowhere)

\* Only variants without data can be read: which one is the text's choice.
DeserializeEnum(type, text) ==
  CASE text \notin DOMAIN type.variants   -> Fail("Message", Nowhere)
    [] text \in DOMAIN type.variants ->
         IF type.variants[text] = "unit" THEN Leaf(text)
         ELSE Fail("UnsupportedType", Nowhere)

IsPair(type) == type.kind = "tuple" /\ Len(type.of) = 2

\* ValueDeserializer, for all types but pairs.  Options and newtypes hand the
\* parameter on to what is in them.
DeserializeOne(type, text, at) ==
  CASE type.kind = "prim"   -> ParseValue(type.prim, text, at)
    [] type.kind \in {"any", "bytes"}   -> Leaf(text)
    [] type.kind \in {"unit", "ignored"} -> Node(<<>>)
    [] type.kind = "enum"   -> DeserializeEnum(type, text)
    [] type.kind \in {"seq", "tuple", "tuple_struct", "map", "struct"} ->
         Fail("UnsupportedType", at)

\* The second element of a pair has no key any more: a pair in its place
\* reaches unreachable!().
DeserializeSecond(type, text) ==
  IF IsPair(type) THEN Panic ELSE DeserializeOne(type, text, Nowhere)

\* ValueDeserializer: one parameter inside a sequence or a map.
DeserializeValue(type, text, at) ==
  IF ~IsPair(type) THEN DeserializeOne(type, text, at)
  ELSE CASE at.kind = "Key"  -> Fail("Message", at)
         [] at.kind = "Idx"  -> Collect(<<DeserializeKey(type.of[1], at.name),
                                          DeserializeSecond(type.of[2], text)>>)
         [] at.kind = "None" -> Panic

\* SeqDeserializer: the elements, each with its index.
DeserializeSeq(types, params) ==
  Collect([i \in DOMAIN params |->
             DeserializeValue(types[i], params[i].value,
                              AtIdx(i - 1, params[i].name))])

\* Mutant of DeserializeMap: the key is gone when the value is read.
DeserializeMapKeyless(type, params) ==
  Collect([i \in DOMAIN params |->
             Collect(<<DeserializeKey(type.key, params[i].name),
                       DeserializeValue(type.of, params[i].value, Nowhere)>>)])

\* MapDeserializer: a pair of key and value for each parameter.
DeserializeMap(type, params) ==
  Collect([i \in DOMAIN params |->
             Collect(<<DeserializeKey(type.key, params[i].name),
                       DeserializeValue(type.of, params[i].value,
                                        AtKey(params[i].name))>>)])

\* Mutant of DeserializeStruct: the fields are filled in their order.
DeserializeStructInOrder(type, params) ==
  IF Len(type.fields) # Len(params) THEN Fail("Message", Nowhere)
  ELSE Collect([i \in DOMAIN params |->
                  DeserializeValue(type.fields[i].type, params[i].value,
                                   AtKey(params[i].name))])

IsOption(type) == type.wraps # <<>> /\ Head(type.wraps) = "option"

\* The visitor of a struct takes the parameters in the order of the route,
\* ignores those it has no field for, refuses a second value for a field and
\* a field without value that is not an Option.
DeserializeStruct(type, params) ==
  LET known(i) == {f \in DOMAIN type.fields : type.fields[f].name = params[i].name}
      taken(i) == IF known(i) = {} THEN Node(<<>>)
                  ELSE IF \E j \in 1..(i - 1) : params[j].name = params[i].name
                  THEN Fail("Message", Nowhere)
                  ELSE DeserializeValue(type.fields[Min(known(i))].type,
                                        params[i].value, AtKey(params[i].name))
      given(f) == {i \in DOMAIN params : params[i].name = type.fields[f].name}
      all      == Collect([i \in DOMAIN params |-> taken(i)])
  IN  IF all.tag # "ok" THEN all
      ELSE Collect([f \in DOMAIN type.fields |->
             IF given(f) # {} THEN taken(Min(given(f)))
             ELSE IF IsOption(type.fields[f].type) THEN Node(<<>>)
             ELSE Fail("Message", Nowhere)])

\* PathDeserializer: all parameters of the route.
Deserialize(type, params) ==
  LET wrongNumber == Fail("WrongNumberOfParameters", Nowhere)
  IN  IF type.kind \in {"bytes", "ignored"} \/ Contains(type.wraps, "option")
      THEN Fail("UnsupportedType", Nowhere)
      ELSE CASE type.kind = "unit"    -> Node(<<>>)
             [] type.kind = "seq"     -> DeserializeSeq([i \in DOMAIN params |-> type.of], params)
             [] type.kind = "map"     -> DeserializeMap(type, params)
             [] type.kind = "struct"  -> DeserializeStruct(type, params)
             [] type.kind \in {"tuple", "tuple_struct"} ->
                  IF Len(params) # Len(type.of) THEN wrongNumber
                  ELSE DeserializeSeq(type.of, params)
             [] type.kind \in {"prim", "any", "enum"} ->
                  IF Len(params) # 1 THEN wrongNumber
                  ELSE CASE type.kind = "prim" ->
                              ParseValue(type.prim, params[1].value, Nowhere)
                         [] type.kind = "any"  -> Leaf(params[1].value)
                         [] type.kind = "enum" ->
                              DeserializeEnum(type, params[1].value)

\* IntoResponse: a type the deserializer cannot build is the program's fault.
RejectionStatus(error) ==
  IF error = "UnsupportedType" THEN "InternalServerError" ELSE "BadRequest"
=============================================================================
