----------------------------- MODULE RoutePath -----------------------------
(***************************************************************************)
(* Text as the router reads it, and its route patterns                     *)
(* (src/src/router/route.rs, src/src/router/util.rs).                      *)
(*                                                                         *)
(* A text is a sequence of characters.  A percent-escape is one character, *)
(* "%FF" the one that stands for a byte that is not UTF-8; "\xFF" is that  *)
(* byte itself.                                                            *)
(***************************************************************************)
EXTENDS Naturals, SequencesExt

CONSTANT Char   \* the characters a text may have

Texts == Seq(Char)

EscapeOf == [e \in {"%20", "%26", "%2B", "%FF"} |->
               CASE e = "%20" -> " " [] e = "%26" -> "&"
                 [] e = "%2B" -> "+" [] e = "%FF" -> "\\xFF"]

ASSUME CharAssumption ==
  {"/", " ", "&", "+", "*", "\\xFF", ".well-known", "core"} \subseteq Char

PercentDecode(text) ==
  [i \in DOMAIN text |->
     IF text[i] \in DOMAIN EscapeOf THEN EscapeOf[text[i]] ELSE text[i]]

\* The elements of a sequence that are in a set, in their order.
Those(s, set) ==
  FoldLeft(LAMBDA those, x : IF x \in set THEN Append(those, x) ELSE those, <<>>, s)

Utf8(text) == ~Contains(text, "\\xFF")

Split(text, separator) ==
  FoldLeft(LAMBDA parts, ch :
             IF ch = separator THEN Append(parts, <<>>)
             ELSE Append(Front(parts), Append(Last(parts), ch)),
           << <<>> >>, text)

Join(parts, separator) ==
  FoldLeft(LAMBDA text, part : text \o separator \o part,
           Head(parts), Tail(parts))

\* What is left of a text without the slashes at both of its ends.
TrimSlashes(text) ==
  LET kept == {i \in DOMAIN text : text[i] # "/"}
  IN  IF kept = {} THEN <<>> ELSE SubSeq(text, Min(kept), Max(kept))

-----------------------------------------------------------------------------
(* Patterns.  The regex of a route is a sequence of literal characters and *)
(* of parameters, each of which stands for ([^/]+).                        *)

Literal(ch) == [kind |-> "literal", text |-> <<ch>>]

Param(name) == [kind |-> "param", text |-> name]

Scan(st, ch) ==
  CASE ch = "{" -> IF st.inParam THEN [st EXCEPT !.panic = TRUE]
                   ELSE [st EXCEPT !.inParam = TRUE, !.name = <<>>]
    [] ch = "}" -> IF ~st.inParam THEN [st EXCEPT !.panic = TRUE]
                   ELSE [st EXCEPT !.inParam = FALSE,
                                   !.regex = Append(@, Param(st.name))]
    [] ch \notin {"{", "}"} ->
         IF st.inParam THEN [st EXCEPT !.name = Append(@, ch)]
         ELSE [st EXCEPT !.regex = Append(@, Literal(ch))]

ScanSegment(segment) ==
  FoldLeft(Scan, [inParam |-> FALSE, name |-> <<>>, regex |-> <<>>,
                  panic |-> FALSE], segment)

\* Mutant of BuildRegex: the segments are not separated.
RegexUnseparated(pattern) ==
  LET scanned == ScanSegment(Those(pattern, ToSet(pattern) \ {"/"}))
  IN  [panics |-> scanned.panic \/ scanned.inParam, regex |-> scanned.regex]

\* The regex of a pattern; `panics' when a brace has no partner in its segment.
BuildRegex(pattern) ==
  LET segments == Split(TrimSlashes(pattern), "/")
      scanned  == [i \in DOMAIN segments |-> ScanSegment(segments[i])]
  IN  [panics |-> \E i \in DOMAIN scanned : scanned[i].panic \/ scanned[i].inParam,
       regex  |-> Join([i \in DOMAIN scanned |-> scanned[i].regex],
                       <<Literal("/")>>)]

HasParams(regex) == \E i \in DOMAIN regex : regex[i].kind = "param"

\* The captures of an anchored match: the empty set when there is none, else
\* the one in which every parameter in turn takes as much as it can.
Captures(regex, text) ==
  LET rest(j) == SubSeq(text, j + 1, Len(text))
      fits(piece, j) ==
        IF piece.kind = "literal" THEN {n \in {1} : IsPrefix(piece.text, rest(j))}
        ELSE {n \in 1..(Len(text) - j) : ~Contains(SubSeq(text, j + 1, j + n), "/")}
      \* What the pieces from the i-th on capture of the text after its j-th
      \* character.
      from[i \in 1..(Len(regex) + 1)] ==
        [j \in 0..Len(text) |->
           IF i > Len(regex) THEN IF j = Len(text) THEN {<<>>} ELSE {}
           ELSE LET ends == {n \in fits(regex[i], j) : from[i + 1][j + n] # {}}
                IN  IF ends = {} THEN {}
                    ELSE IF regex[i].kind = "literal" THEN from[i + 1][j + 1]
                    ELSE {<<SubSeq(text, j + 1, j + Max(ends))>> \o c :
                            c \in from[i + 1][j + Max(ends)]}]
  IN  from[1][0]

\* Mutant of MatchPath: the values stay encoded.
MatchUndecoded(regex, path) ==
  LET names == Those(regex, {piece \in ToSet(regex) : piece.kind = "param"})
  IN  {[i \in DOMAIN names |-> [name |-> names[i].text, value |-> c[i]]] :
         c \in Captures(regex, TrimSlashes(path))}

\* The (name, value) pairs of a match, in a set that is empty when the path
\* does not match or a parameter does not decode to UTF-8.
MatchPath(regex, path) ==
  LET names == Those(regex, {piece \in ToSet(regex) : piece.kind = "param"})
  IN  {[i \in DOMAIN names |-> [name |-> names[i].text,
                                value |-> PercentDecode(c[i])]] :
         c \in {c \in Captures(regex, TrimSlashes(path)) :
                  \A i \in DOMAIN c : Utf8(PercentDecode(c[i]))}}
=============================================================================
