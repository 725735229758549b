---------------------------- MODULE RouterProofs ----------------------------
(***************************************************************************)
(* What holds of the router for every program, handler type and request.   *)
(* The invariants rest on two facts of the states: a table is made of the  *)
(* routes its program adds (TableTyped), and an answer is what Handle makes *)
(* of the request with this table (Answered).  The rest is about the pure  *)
(* operators: they are folds over texts and lists, which FoldRun unfolds    *)
(* into a step per element, and a fact about every step is carried from     *)
(* the first to the last by SetInduction, the induction on naturals that    *)
(* follows from NatLessThanWellFounded.                                     *)
(***************************************************************************)
EXTENDS Router, TLAPS, SequenceTheorems, FiniteSetTheorems, WellFoundedInduction

-----------------------------------------------------------------------------
(***************************************************************************)
(* Induction on naturals, and the least and greatest of a set of them.     *)
(***************************************************************************)
LEMMA Less == \A x, y \in Nat : <<x, y>> \in OpToRel(<, Nat) <=> x < y
BY DEF OpToRel

LEMMA LeastNatural ==
    ASSUME NEW T \in SUBSET Nat, T # {}
    PROVE  \E n \in T : \A m \in T : n <= m
<1> DEFINE R == OpToRel(<, Nat)
<1>1. \A x, y \in Nat : <<x, y>> \in R <=> x < y
  BY Less, Zenon
<1>2. IsWellFoundedOn(R, Nat)
  BY NatLessThanWellFounded, Zenon
<1> HIDE DEF R
<1>3. PICK n \in T : \A m \in T : <<m, n>> \notin R
  BY <1>2, WFMin
<1>4. ASSUME NEW m \in T PROVE n <= m
  <2>1. m \in Nat /\ n \in Nat
    OBVIOUS
  <2>2. ~(m < n)
    BY <2>1, <1>1, <1>3
  <2> QED
    BY <2>1, <2>2
<1> QED
  BY <1>4

LEMMA SetInduction ==
    ASSUME NEW T \in SUBSET Nat, 0 \in T, \A n \in T : n + 1 \in T
    PROVE  T = Nat
<1> SUFFICES ASSUME Nat \ T # {} PROVE FALSE
  OBVIOUS
<1> DEFINE U == Nat \ T
<1>1. PICK n \in U : \A m \in U : n <= m
  <2> HIDE DEF U
  <2>1. U \in SUBSET Nat /\ U # {}
    BY DEF U
  <2> QED
    BY <2>1, LeastNatural
<1>2. n # 0 /\ n \in Nat
  BY <1>1
<1>3. n - 1 \in Nat /\ n - 1 \notin U
  BY <1>1, <1>2
<1>4. n - 1 \in T
  BY <1>3
<1>5. (n - 1) + 1 \in T
  BY <1>4
<1> QED
  BY <1>1, <1>2, <1>5

LEMMA GreatestNatural ==
    ASSUME NEW N \in Nat, NEW S \in SUBSET (0 .. N), S # {}
    PROVE  \E n \in S : \A m \in S : m <= n
<1> DEFINE Bounds == {b \in Nat : \A m \in S : m <= b}
<1>1. N \in Bounds /\ Bounds \in SUBSET Nat
  OBVIOUS
<1>2. PICK b \in Bounds : \A c \in Bounds : b <= c
  BY <1>1, LeastNatural
<1>3. b \in Nat /\ \A m \in S : m <= b
  OBVIOUS
<1>4. b \in S
  <2> SUFFICES ASSUME b \notin S PROVE FALSE
    OBVIOUS
  <2>1. \A m \in S : m < b /\ m \in Nat
    BY <1>3
  <2>2. b - 1 \in Nat
    <3>1. PICK m \in S : TRUE
      OBVIOUS
    <3>2. m \in Nat /\ m < b
      BY <2>1
    <3> QED
      BY <1>3, <3>2
  <2>3. \A m \in S : m <= b - 1
    BY <1>3, <2>1
  <2> QED
    BY <1>2, <1>3, <2>2, <2>3
<1> QED
  BY <1>3, <1>4

LEMMA GreatestIsMax ==
    ASSUME NEW S \in SUBSET Nat, NEW m \in S, \A n \in S : n <= m
    PROVE  Max(S) = m
<1>1. \A x \in S : (\A y \in S : x >= y) => x = m
  <2> SUFFICES ASSUME NEW x \in S, \A y \in S : x >= y PROVE x = m
    OBVIOUS
  <2>1. x <= m /\ x >= m /\ x \in Nat /\ m \in Nat
    OBVIOUS
  <2> QED
    BY <2>1
<1>2. \A y \in S : m >= y
  <2> SUFFICES ASSUME NEW y \in S PROVE m >= y
    OBVIOUS
  <2>1. y <= m /\ y \in Nat /\ m \in Nat
    OBVIOUS
  <2> QED
    BY <2>1
<1> QED
  BY <1>1, <1>2 DEF Max

LEMMA MaxOfPart ==
    ASSUME NEW N \in Nat, NEW S \in SUBSET (1 .. N), S # {}
    PROVE  Max(S) \in S /\ \A n \in S : n <= Max(S)
<1>1. S \in SUBSET (0 .. N) /\ S \in SUBSET Nat
  OBVIOUS
<1>2. PICK m \in S : \A n \in S : n <= m
  BY <1>1, GreatestNatural
<1> QED
  BY <1>1, <1>2, GreatestIsMax

(***************************************************************************)
(* Folds.  FoldLeft(op, base, s) is iter[1 .. Len(s)] of a function iter   *)
(* on the sets of indices that the library chooses; there is one.          *)
(***************************************************************************)
Folded(iter, N, base, step) ==
    \A D \in SUBSET (1 .. N) :
       iter[D] = IF D = {} THEN base ELSE step[<<Max(D), iter[D \ {Max(D)}]>>]

LEMMA FoldExtends ==
    ASSUME NEW V, NEW base \in V, NEW M \in Nat, NEW step \in [(1 .. M) \X V -> V],
           NEW N \in Nat, N < M,
           NEW iter \in [SUBSET (1 .. N) -> V], Folded(iter, N, base, step)
    PROVE  \E next \in [SUBSET (1 .. N + 1) -> V] : Folded(next, N + 1, base, step)
<1> DEFINE next == [D \in SUBSET (1 .. N + 1) |->
                      IF N + 1 \in D THEN step[<<N + 1, iter[D \ {N + 1}]>>] ELSE iter[D]]
<1>1. ASSUME NEW D \in SUBSET (1 .. N + 1), N + 1 \notin D
      PROVE  D \in SUBSET (1 .. N)
  BY <1>1
<1>2. ASSUME NEW D \in SUBSET (1 .. N + 1)
      PROVE  D \ {N + 1} \in SUBSET (1 .. N) /\ D \ {N + 1} \in SUBSET (1 .. N + 1)
  OBVIOUS
<1>3. next \in [SUBSET (1 .. N + 1) -> V]
  <2> SUFFICES ASSUME NEW D \in SUBSET (1 .. N + 1)
               PROVE  (IF N + 1 \in D THEN step[<<N + 1, iter[D \ {N + 1}]>>] ELSE iter[D])
                        \in V
    OBVIOUS
  <2>1. iter[D \ {N + 1}] \in V /\ N + 1 \in 1 .. M
    BY <1>2
  <2>2. <<N + 1, iter[D \ {N + 1}]>> \in (1 .. M) \X V
    BY <2>1
  <2>3. N + 1 \notin D => iter[D] \in V
    BY <1>1
  <2> QED
    BY <2>2, <2>3
<1>4. ASSUME NEW D \in SUBSET (1 .. N + 1)
      PROVE  next[D] = IF D = {} THEN base ELSE step[<<Max(D), next[D \ {Max(D)}]>>]
  <2>1. CASE N + 1 \in D
    <3>1. Max(D) = N + 1
      <4>1. D \in SUBSET Nat /\ \A n \in D : n <= N + 1
        OBVIOUS
      <4> QED
        BY <2>1, <4>1, GreatestIsMax
    <3>2. next[D \ {N + 1}] = iter[D \ {N + 1}]
      BY <1>2
    <3> QED
      BY <2>1, <3>1, <3>2
  <2>2. CASE N + 1 \notin D
    <3>1. D \in SUBSET (1 .. N) /\ next[D] = iter[D]
      BY <1>1, <2>2
    <3>2. iter[D] = IF D = {} THEN base ELSE step[<<Max(D), iter[D \ {Max(D)}]>>]
      BY <3>1 DEF Folded
    <3>3. next[D \ {Max(D)}] = iter[D \ {Max(D)}]
      BY <2>2
    <3> QED
      BY <3>1, <3>2, <3>3
  <2> QED
    BY <2>1, <2>2
<1> HIDE DEF next
<1>5. Folded(next, N + 1, base, step)
  BY <1>4 DEF Folded
<1> QED
  BY <1>3, <1>5

LEMMA FoldExists ==
    ASSUME NEW V, NEW base \in V, NEW M \in Nat, NEW step \in [(1 .. M) \X V -> V]
    PROVE  \E iter \in [SUBSET (1 .. M) -> V] : Folded(iter, M, base, step)
<1> DEFINE P(n) == \E iter \in [SUBSET (1 .. n) -> V] : Folded(iter, n, base, step)
           Good == {n \in Nat : n <= M => P(n)}
<1>1. P(0)
  <2> DEFINE iter == [D \in SUBSET (1 .. 0) |-> base]
  <2>1. iter \in [SUBSET (1 .. 0) -> V]
    OBVIOUS
  <2>2. \A D \in SUBSET (1 .. 0) : D = {} /\ iter[D] = base
    OBVIOUS
  <2>3. Folded(iter, 0, base, step)
    BY <2>2 DEF Folded
  <2> QED
    BY <2>1, <2>3
<1>2. ASSUME NEW n \in Nat, n <= M => P(n), n + 1 <= M PROVE P(n + 1)
  <2>1. n < M /\ n <= M
    <3> HIDE DEF P
    <3> QED
      BY <1>2
  <2>2. PICK iter \in [SUBSET (1 .. n) -> V] : Folded(iter, n, base, step)
    <3>1. P(n)
      BY <1>2, <2>1
    <3> QED
      BY <3>1
  <2> QED
    BY <2>1, <2>2, FoldExtends
<1> HIDE DEF P
<1>3. 0 \in Good /\ Good \in SUBSET Nat /\ \A n \in Good : n + 1 \in Good
  BY <1>1, <1>2
<1>4. Good = Nat
  <2> HIDE DEF Good
  <2> QED
    BY <1>3, SetInduction
<1>5. P(M)
  BY <1>4
<1> QED
  BY <1>5 DEF P

LEMMA LeastIsMin ==
    ASSUME NEW S \in SUBSET Nat, NEW m \in S, \A n \in S : m <= n
    PROVE  Min(S) = m
<1>1. \A x \in S : (\A y \in S : x <= y) => x = m
  <2> SUFFICES ASSUME NEW x \in S, \A y \in S : x <= y PROVE x = m
    OBVIOUS
  <2>1. x <= m /\ m <= x /\ x \in Nat /\ m \in Nat
    OBVIOUS
  <2> QED
    BY <2>1
<1> QED
  BY <1>1 DEF Min

-----------------------------------------------------------------------------
(***************************************************************************)
(* The table while it is built.                                            *)
(***************************************************************************)
Routes ==
    {NewRoute(c.pattern, c.methods) : c \in {c \in Calls : ~BuildRegex(c.pattern).panics}}

Tables == [routes : Seq(Routes), fallback : Fallbacks \cup {None}, discovery : BOOLEAN]

TableTyped ==
    /\ program = None \/ program \in Seq(Calls)
    /\ table \in Tables

LEMMA RouteAdded ==
    ASSUME TableTyped, AddRoute, UNCHANGED table => FALSE
    PROVE  \E r \in Routes : table' = [table EXCEPT !.routes = Append(@, r)]
<1>1. program \in Seq(Calls) /\ program # <<>>
  BY DEF TableTyped, AddRoute
<1>2. Head(program) \in Calls
  BY <1>1, HeadTailProperties
<1> QED
  BY <1>2 DEF AddRoute, Routes

LEMMA TableTypedCorrect == Spec => []TableTyped
<1>1. Init => TableTyped
  <2> SUFFICES ASSUME Init PROVE TableTyped
    OBVIOUS
  <2>1. <<>> \in Seq(Routes)
    BY EmptySeq
  <2>2. program \in Seq(Calls)
    BY ProgramsAssumption DEF Init
  <2> QED
    BY <2>1, <2>2 DEF Init, TableTyped, Tables
<1>2. TableTyped /\ [Next]_vars => TableTyped'
  <2> SUFFICES ASSUME TableTyped, [Next]_vars PROVE TableTyped'
    OBVIOUS
  <2>1. CASE AddRoute
    <3>1. program \in Seq(Calls) /\ program # <<>>
      BY <2>1 DEF TableTyped, AddRoute
    <3>2. Head(program) \in Calls /\ Tail(program) \in Seq(Calls)
      BY <3>1, HeadTailProperties
    <3>3. program' = None \/ program' \in Seq(Calls)
      BY <2>1, <3>2 DEF AddRoute
    <3>4. CASE UNCHANGED table
      BY <3>3, <3>4 DEF TableTyped
    <3>5. CASE ~UNCHANGED table
      <4>1. PICK r \in Routes : table' = [table EXCEPT !.routes = Append(@, r)]
        BY <2>1, <3>5, RouteAdded
      <4>2. Append(table.routes, r) \in Seq(Routes)
        BY AppendProperties DEF TableTyped, Tables
      <4> QED
        BY <3>3, <4>1, <4>2 DEF TableTyped, Tables
    <3> QED
      BY <3>4, <3>5
  <2>2. CASE \E h \in Fallbacks : SetFallback(h)
    BY <2>2 DEF SetFallback, TableTyped, Tables
  <2>3. CASE \E v \in BOOLEAN : EnableDiscovery(v)
    BY <2>3 DEF EnableDiscovery, TableTyped, Tables
  <2>4. CASE UNCHANGED <<program, table>>
    BY <2>4 DEF TableTyped
  <2> QED
    BY <2>1, <2>2, <2>3, <2>4 DEF Next, Serve, Fetch, Discover, vars
<1> QED
  BY <1>1, <1>2, PTL DEF Spec

-----------------------------------------------------------------------------
(***************************************************************************)
(* A route added last.                                                     *)
(***************************************************************************)
LEMMA EarlierRoutesStay ==
    ASSUME NEW t, NEW r \in Routes, t.routes \in Seq(Routes),
           NEW u, u.routes = Append(t.routes, r), NEW req
    PROVE  /\ \A i \in DOMAIN t.routes : u.routes[i] = t.routes[i]
           /\ Hits(t, req) \subseteq Hits(u, req)
           /\ \A i \in Hits(u, req) : i \in Hits(t, req) \/ i = Len(t.routes) + 1
           /\ Hits(t, req) \subseteq 1 .. Len(t.routes)
           /\ Hits(u, req) \subseteq Nat
<1>1. /\ DOMAIN t.routes = 1 .. Len(t.routes) /\ Len(t.routes) \in Nat
      /\ DOMAIN u.routes = 1 .. Len(t.routes) + 1
      /\ \A i \in 1 .. Len(t.routes) : u.routes[i] = t.routes[i]
  BY AppendProperties, LenProperties
<1>4. /\ Hits(t, req) \subseteq DOMAIN t.routes
      /\ Hits(u, req) \subseteq DOMAIN u.routes
  BY DEF Hits
<1>2. /\ Hits(t, req) \subseteq 1 .. Len(t.routes) /\ Hits(u, req) \subseteq Nat
      /\ Hits(t, req) \subseteq Hits(u, req)
  <2>1. \A i \in DOMAIN t.routes : i \in DOMAIN u.routes /\ u.routes[i] = t.routes[i]
    BY <1>1
  <2>2. Hits(t, req) \subseteq Hits(u, req)
    BY <2>1 DEF Hits
  <2> QED
    BY <1>1, <1>4, <2>2
<1>3. ASSUME NEW i \in Hits(u, req), i \notin Hits(t, req)
      PROVE  i = Len(t.routes) + 1
  <2>1. i \in 1 .. Len(t.routes) + 1 /\ i \notin 1 .. Len(t.routes)
    BY <1>1, <1>3 DEF Hits
  <2> QED
    BY <1>1, <2>1
<1> QED
  BY <1>1, <1>2, <1>3

LEMMA FirstIsFirst ==
    ASSUME NEW t, t.routes \in Seq(Routes), NEW req, Hits(t, req) # {}
    PROVE  /\ FirstHit(t, req) \in Hits(t, req)
           /\ \A i \in Hits(t, req) : FirstHit(t, req) <= i
<1>1. Hits(t, req) \in SUBSET Nat
  BY LenProperties DEF Hits
<1>2. PICK m \in Hits(t, req) : \A i \in Hits(t, req) : m <= i
  BY <1>1, LeastNatural
<1> QED
  BY <1>1, <1>2, LeastIsMin DEF FirstHit

LEMMA SameRoute ==
    ASSUME NEW t, NEW u, NEW i, NEW req, u.routes[i] = t.routes[i],
           \A q : HandleFallback(u, q) = HandleFallback(t, q)
    PROVE  HandleRoute(u, i, req) = HandleRoute(t, i, req)
<1> DEFINE handlers(route) == HandlerFor(route.methods, req.method)
           called(route)   ==
             Answer("route", i, Call(CHOOSE h \in handlers(route) : TRUE,
                                     Matched(route, req)))
<1>1. \A v : HandleRoute(v, i, req) =
                IF handlers(v.routes[i]) = {}
                THEN HandleFallback(v, Matched(v.routes[i], req))
                ELSE called(v.routes[i])
  BY DEF HandleRoute
<1> HIDE DEF handlers, called
<1> QED
  BY <1>1

LEMMA HandledAsBefore ==
    ASSUME NEW t, NEW r \in Routes, NEW req, NEW u,
           t.routes \in Seq(Routes), u.routes = Append(t.routes, r),
           u.fallback = t.fallback, u.discovery = t.discovery
    PROVE  \/ Handle(u, req) = Handle(t, req)
           \/ /\ Hits(t, req) = {}
              /\ Hits(u, req) # {} \/ Handle(t, req).by = "discovery"
<1>1. Append(t.routes, r) \in Seq(Routes)
  BY AppendProperties
<1>2. \A q : HandleFallback(u, q) = HandleFallback(t, q)
  BY <1>1 DEF HandleFallback
<1>5. /\ \A i \in DOMAIN t.routes : u.routes[i] = t.routes[i]
      /\ Hits(t, req) \subseteq Hits(u, req)
      /\ \A i \in Hits(u, req) : i \in Hits(t, req) \/ i = Len(t.routes) + 1
      /\ Hits(t, req) \subseteq 1 .. Len(t.routes)
      /\ Hits(u, req) \subseteq Nat
  BY <1>1, EarlierRoutesStay
<1>3. CASE Hits(t, req) # {}
  <2>1. PICK m : /\ m = FirstHit(t, req)
                 /\ m \in Hits(t, req) /\ \A i \in Hits(t, req) : m <= i
    BY <1>1, <1>3, FirstIsFirst
  <2>2. m \in Hits(u, req) /\ \A i \in Hits(u, req) : m <= i
    <3>1. m \in 1 .. Len(t.routes) /\ Len(t.routes) \in Nat
      BY <1>1, <1>5, <2>1, LenProperties
    <3>2. ASSUME NEW i \in Hits(u, req), i \notin Hits(t, req) PROVE m <= i
      BY <1>5, <3>1, <3>2
    <3> QED
      BY <1>5, <2>1, <3>2
  <2>3. FirstHit(u, req) = m
    <3>1. Hits(u, req) \in SUBSET Nat
      BY <1>5
    <3> QED
      BY <2>2, <3>1, LeastIsMin DEF FirstHit
  <2>4. u.routes[m] = t.routes[m]
    BY <1>5, <2>1 DEF Hits
  <2>5. Hits(u, req) # {}
    BY <2>2
  <2> QED
    <3>1. \A i : u.routes[i] = t.routes[i] =>
                    HandleRoute(u, i, req) = HandleRoute(t, i, req)
      <4> TAKE i
      <4> HAVE u.routes[i] = t.routes[i]
      <4> QED
        BY ONLY u.routes[i] = t.routes[i], <1>2, SameRoute
    <3>2. HandleRoute(u, m, req) = HandleRoute(t, m, req)
      BY <2>4, <3>1
    <3> QED
      BY <1>3, <2>1, <2>3, <2>5, <3>2 DEF Handle
<1>4. CASE Hits(t, req) = {} /\ Hits(u, req) = {}
  <2>1. CASE t.discovery /\ req.method = "GET" /\ RequestPath(req) = WellKnownCore
    BY <1>4, <2>1 DEF Handle, HandleDiscovery, Reply, Answer
  <2>2. CASE ~(t.discovery /\ req.method = "GET" /\ RequestPath(req) = WellKnownCore)
    BY <1>1, <1>2, <1>4, <2>2 DEF Handle
  <2> QED
    BY <2>1, <2>2
<1> QED
  BY <1>3, <1>4

\* For every program and every request: a route that is added last takes only
\* requests that no route took before it, and changes no other answer but that
\* to a discovery (router/mod.rs:58-74, 111-133).
THEOREM AppendKeepsAnswersCorrect == Spec => AppendKeepsAnswers
<1>1. TableTyped /\ [Next]_vars =>
        [Len(table'.routes) > Len(table.routes) =>
           \A req \in Requests :
             \/ Handle(table', req) = Handle(table, req)
             \/ /\ Hits(table, req) = {}
                /\ Hits(table', req) # {} \/ Handle(table, req).by = "discovery"]_table
  <2> SUFFICES ASSUME TableTyped, [Next]_vars, Len(table'.routes) > Len(table.routes),
                      NEW req \in Requests
               PROVE  \/ Handle(table', req) = Handle(table, req)
                      \/ /\ Hits(table, req) = {}
                         /\ \/ Hits(table', req) # {}
                            \/ Handle(table, req).by = "discovery"
    OBVIOUS
  <2>1. Len(table.routes) \in Nat /\ table'.routes # table.routes
    BY LenProperties DEF TableTyped, Tables
  <2>2. AddRoute
    BY <2>1 DEF TableTyped, Tables, Next, SetFallback, EnableDiscovery, Serve, Fetch,
                Discover, vars
  <2>3. PICK r \in Routes : table' = [table EXCEPT !.routes = Append(@, r)]
    BY <2>1, <2>2, RouteAdded
  <2> QED
    <3>1. /\ table.routes \in Seq(Routes) /\ table'.routes = Append(table.routes, r)
          /\ table'.fallback = table.fallback /\ table'.discovery = table.discovery
      BY <2>3 DEF TableTyped, Tables
    <3> QED
      BY <3>1, HandledAsBefore
<1> QED
  BY <1>1, TableTypedCorrect, PTL DEF Spec, AppendKeepsAnswers

-----------------------------------------------------------------------------
(***************************************************************************)
(* A fold along a sequence, step by step.                                  *)
(***************************************************************************)
LEMMA LastOfRange ==
    ASSUME NEW n \in Nat, n # 0
    PROVE  1 .. n # {} /\ Max(1 .. n) = n /\ (1 .. n) \ {n} = 1 .. n - 1
<1>1. 1 .. n \in SUBSET Nat /\ n \in 1 .. n /\ \A m \in 1 .. n : m <= n
  OBVIOUS
<1> QED
  BY <1>1, GreatestIsMax, SMTT(30)

\* A run of a step function stays where the step function leads.
LEMMA RunsInside ==
    ASSUME NEW V, NEW M \in Nat, NEW f, f[0] \in V,
           \A n \in 1 .. M : f[n - 1] \in V => f[n] \in V
    PROVE  \A n \in 0 .. M : f[n] \in V
<1> DEFINE Good == {n \in Nat : n <= M => f[n] \in V}
<1>1. 0 \in Good
  OBVIOUS
<1>2. ASSUME NEW n \in Good PROVE n + 1 \in Good
  <2>1. SUFFICES ASSUME n + 1 <= M PROVE f[n + 1] \in V
    OBVIOUS
  <2>2. n \in Nat /\ n + 1 \in 1 .. M /\ (n + 1) - 1 = n /\ n <= M
    BY <2>1
  <2>3. f[n] \in V
    BY <2>2
  <2>4. f[(n + 1) - 1] \in V
    BY <2>2, <2>3
  <2> QED
    BY <2>2, <2>4
<1>3. Good = Nat
  <2>1. Good \in SUBSET Nat
    OBVIOUS
  <2> HIDE DEF Good
  <2> QED
    BY <1>1, <1>2, <2>1, SetInduction
<1> QED
  BY <1>3

Run(f, base, step, M) ==
    f[0] = base /\ \A n \in 1 .. M : f[n] = step[<<n, f[n - 1]>>]

Follows(iter, V, base, step, M) ==
    /\ iter[{}] = base
    /\ \A D \in SUBSET (1 .. M) : (D # {} /\ iter[D \ {Max(D)}] \in V) =>
          iter[D] = step[<<Max(D), iter[D \ {Max(D)}]>>]

\* result is where a run of step from base, with values in V, ends.
Reaches(V, base, step, M, result) ==
    \E f \in [0 .. M -> V] : Run(f, base, step, M) /\ f[M] = result

LEMMA FoldRun ==
    ASSUME NEW V, NEW base \in V, NEW M \in Nat, NEW step \in [(1 .. M) \X V -> V],
           NEW iter, Follows(iter, V, base, step, M)
    PROVE  Reaches(V, base, step, M, iter[1 .. M])
<1> DEFINE f == [n \in 0 .. M |-> iter[1 .. n]]
<1>1. f[0] = base
  <2>1. 1 .. 0 = {} /\ 0 \in 0 .. M
    OBVIOUS
  <2> QED
    BY <2>1 DEF Follows
<1>2. ASSUME NEW n \in 1 .. M, f[n - 1] \in V PROVE f[n] = step[<<n, f[n - 1]>>]
  <2>1. n \in Nat /\ n # 0 /\ 1 .. n \in SUBSET (1 .. M) /\ n \in 0 .. M /\ n - 1 \in 0 .. M
    OBVIOUS
  <2>2. 1 .. n # {} /\ Max(1 .. n) = n /\ (1 .. n) \ {n} = 1 .. n - 1
    BY <2>1, LastOfRange
  <2>3. iter[1 .. n - 1] \in V
    BY <1>2, <2>1
  <2>4. iter[1 .. n] = step[<<n, iter[1 .. n - 1]>>]
    BY <2>1, <2>2, <2>3 DEF Follows
  <2> QED
    BY <2>1, <2>4
<1>3. \A n \in 0 .. M : f[n] \in V
  <2>1. ASSUME NEW n \in 1 .. M, f[n - 1] \in V PROVE f[n] \in V
    <3>1. f[n] = step[<<n, f[n - 1]>>]
      BY <1>2, <2>1
    <3> HIDE DEF f
    <3> QED
      BY <2>1, <3>1
  <2>2. f[0] \in V
    BY <1>1
  <2> HIDE DEF f
  <2> QED
    BY <2>1, <2>2, RunsInside
<1>4. f \in [0 .. M -> V] /\ f[M] = iter[1 .. M]
  BY <1>3
<1>5. Run(f, base, step, M)
  <2>1. ASSUME NEW n \in 1 .. M PROVE f[n] = step[<<n, f[n - 1]>>]
    <3>1. f[n - 1] \in V
      BY <1>3
    <3> QED
      BY <1>2, <3>1
  <2> HIDE DEF f
  <2> QED
    BY <1>1, <2>1 DEF Run
<1> HIDE DEF f
<1> QED
  BY <1>4, <1>5 DEF Reaches

KeepStep(S, s, T) ==
    [p \in (1 .. Len(s)) \X Seq(S) |->
       IF s[p[1]] \in T THEN Append(p[2], s[p[1]]) ELSE p[2]]

LEMMA ThoseUnfolds ==
    ASSUME NEW S, NEW s \in Seq(S), NEW T
    PROVE  Reaches(Seq(S), <<>>, KeepStep(S, s, T), Len(s), Those(s, T))
<1> DEFINE M == Len(s)
           V == Seq(S)
           base == <<>>
           step == KeepStep(S, s, T)
           next(n, v) == IF s[n] \in T THEN Append(v, s[n]) ELSE v
           Body(iter) == [D \in SUBSET (1 .. M) |->
                            IF D = {} THEN base ELSE next(Max(D), iter[D \ {Max(D)}])]
           chosen == CHOOSE iter : iter = Body(iter)
<1>1. M \in Nat /\ DOMAIN s = 1 .. M /\ base \in V
  BY LenProperties, EmptySeq
<1>2. step \in [(1 .. M) \X V -> V] /\ \A n \in 1 .. M, v \in V : step[<<n, v>>] = next(n, v)
  <2>1. ASSUME NEW n \in 1 .. M, NEW v \in V PROVE next(n, v) \in V
    BY ElementOfSeq, AppendProperties
  <2>2. step = [p \in (1 .. M) \X V |-> next(p[1], p[2])]
    BY DEF KeepStep
  <2> HIDE DEF V, M, step, next
  <2> QED
    BY <2>1, <2>2
<1>3. Those(s, T) = chosen[1 .. M]
  BY <1>1 DEF Those, FoldLeft, MapThenFoldSet
<1> HIDE DEF M, V, base, step, next
<1>4. chosen = Body(chosen)
  <2>1. PICK iter \in [SUBSET (1 .. M) -> V] : Folded(iter, M, base, step)
    BY <1>1, <1>2, FoldExists
  <2>2. ASSUME NEW D \in SUBSET (1 .. M), D # {}
        PROVE  iter[D] = next(Max(D), iter[D \ {Max(D)}])
    <3>1. Max(D) \in 1 .. M
      BY <1>1, <2>2, MaxOfPart
    <3>2. iter[D] = step[<<Max(D), iter[D \ {Max(D)}]>>]
      BY <2>1, <2>2 DEF Folded
    <3> QED
      BY <1>2, <2>1, <3>1, <3>2
  <2>3. iter[{}] = base
    BY <2>1 DEF Folded
  <2>4. iter = Body(iter)
    BY <2>1, <2>2, <2>3
  <2> HIDE DEF Body
  <2> QED
    BY <2>4
<1> HIDE DEF chosen
<1>5. Follows(chosen, V, base, step, M)
  <2>1. chosen[{}] = base
    <3>1. {} \in SUBSET (1 .. M)
      OBVIOUS
    <3> QED
      BY <1>4, <3>1
  <2>2. ASSUME NEW D \in SUBSET (1 .. M), D # {}, chosen[D \ {Max(D)}] \in V
        PROVE  chosen[D] = step[<<Max(D), chosen[D \ {Max(D)}]>>]
    <3>1. Max(D) \in 1 .. M
      BY <1>1, <2>2, MaxOfPart
    <3> QED
      BY <1>2, <1>4, <2>2, <3>1
  <2> QED
    BY <2>1, <2>2 DEF Follows
<1>6. Reaches(V, base, step, M, chosen[1 .. M])
  BY <1>1, <1>2, <1>5, FoldRun
<1> QED
  BY <1>3, <1>6 DEF M, V, base, step

LEMMA FrontLast ==
    ASSUME NEW S, NEW s \in Seq(S), s # <<>>
    PROVE  /\ Front(s) \in Seq(S) /\ Last(s) \in S
           /\ Len(Front(s)) = Len(s) - 1 /\ Len(s) \in Nat \ {0}
           /\ \A i \in 1 .. Len(s) - 1 : Front(s)[i] = s[i]
<1>1. Len(s) \in Nat \ {0}
  BY EmptySeq
<1>2. \A i \in 1 .. Len(s) - 1 : s[i] \in S
  BY <1>1, ElementOfSeq
<1>3. /\ SubSeq(s, 1, Len(s) - 1) \in Seq(S)
      /\ Len(SubSeq(s, 1, Len(s) - 1)) = Len(s) - 1
      /\ \A i \in 1 .. Len(s) - 1 : SubSeq(s, 1, Len(s) - 1)[i] = s[i]
  <2> DEFINE n == Len(s) - 1
  <2>1. n \in Nat /\ 1 \in Int /\ n \in Int /\ \A i \in 1 .. n : s[i] \in S
    BY <1>1, <1>2
  <2> HIDE DEF n
  <2>2. /\ SubSeq(s, 1, n) \in Seq(S)
        /\ Len(SubSeq(s, 1, n)) = IF 1 <= n THEN n - 1 + 1 ELSE 0
        /\ \A i \in 1 .. n - 1 + 1 : SubSeq(s, 1, n)[i] = s[1 + i - 1]
    BY <2>1, SubSeqProperties
  <2>3. Len(SubSeq(s, 1, n)) = n /\ \A i \in 1 .. n : SubSeq(s, 1, n)[i] = s[i]
    BY <2>1, <2>2
  <2> QED
    BY <2>2, <2>3 DEF n
<1>4. s[Len(s)] \in S
  BY <1>1, ElementOfSeq
<1> QED
  BY <1>1, <1>3, <1>4 DEF Front, Last

SplitStep(S, text, separator) ==
    [p \in (1 .. Len(text)) \X (Seq(Seq(S)) \ {<<>>}) |->
       IF text[p[1]] = separator THEN Append(p[2], <<>>)
       ELSE Append(Front(p[2]), Append(Last(p[2]), text[p[1]]))]

LEMMA SplitUnfolds ==
    ASSUME NEW S, NEW text \in Seq(S), NEW separator
    PROVE  Reaches(Seq(Seq(S)) \ {<<>>}, << <<>> >>, SplitStep(S, text, separator), Len(text), Split(text, separator))
<1> DEFINE M == Len(text)
           V == Seq(Seq(S)) \ {<<>>}
           base == << <<>> >>
           step == SplitStep(S, text, separator)
           next(n, v) == IF text[n] = separator THEN Append(v, <<>>)
                         ELSE Append(Front(v), Append(Last(v), text[n]))
           Body(iter) == [D \in SUBSET (1 .. M) |->
                            IF D = {} THEN base ELSE next(Max(D), iter[D \ {Max(D)}])]
           chosen == CHOOSE iter : iter = Body(iter)
<1>1. M \in Nat /\ DOMAIN text = 1 .. M /\ base \in V
  <2>1. <<>> \in Seq(S)
    BY EmptySeq
  <2>2. << <<>> >> \in Seq(Seq(S)) /\ << <<>> >> # <<>>
    BY <2>1
  <2> QED
    BY <2>2, LenProperties
<1>2. step \in [(1 .. M) \X V -> V] /\ \A n \in 1 .. M, v \in V : step[<<n, v>>] = next(n, v)
  <2>1. ASSUME NEW n \in 1 .. M, NEW v \in V PROVE next(n, v) \in V
    <3> HIDE DEF M
    <3>1. text[n] \in S /\ <<>> \in Seq(S)
      BY ElementOfSeq, EmptySeq DEF M
    <3>2. v \in Seq(Seq(S)) /\ v # <<>>
      OBVIOUS
    <3>3. Front(v) \in Seq(Seq(S)) /\ Last(v) \in Seq(S)
      BY <3>2, FrontLast
    <3>4. \A x \in Seq(S) : /\ Append(v, x) \in Seq(Seq(S)) /\ Append(v, x) # <<>>
                            /\ Append(Front(v), x) \in Seq(Seq(S))
                            /\ Append(Front(v), x) # <<>>
      <4> DEFINE W == Seq(S)
      <4>1. Front(v) \in Seq(W) /\ v \in Seq(W)
        BY <3>2, <3>3
      <4> HIDE DEF W
      <4>2. \A x \in W : /\ Append(v, x) \in Seq(W) /\ Append(v, x) # <<>>
                         /\ Append(Front(v), x) \in Seq(W) /\ Append(Front(v), x) # <<>>
        <5>1. \A q \in Seq(W), x \in W : Append(q, x) \in Seq(W) /\ Append(q, x) # <<>>
          BY ONLY AppendProperties
        <5> QED
          BY <4>1, <5>1
      <4> QED
        BY <4>2 DEF W
    <3>5. Append(Last(v), text[n]) \in Seq(S)
      BY <3>1, <3>3, AppendProperties
    <3> QED
      BY <3>1, <3>4, <3>5
  <2>2. step = [p \in (1 .. M) \X V |-> next(p[1], p[2])]
    BY DEF SplitStep
  <2> HIDE DEF V, M, step, next
  <2> QED
    BY <2>1, <2>2
<1>3. Split(text, separator) = chosen[1 .. M]
  BY <1>1 DEF Split, FoldLeft, MapThenFoldSet
<1> HIDE DEF M, V, base, step, next
<1>4. chosen = Body(chosen)
  <2>1. PICK iter \in [SUBSET (1 .. M) -> V] : Folded(iter, M, base, step)
    BY <1>1, <1>2, FoldExists
  <2>2. ASSUME NEW D \in SUBSET (1 .. M), D # {}
        PROVE  iter[D] = next(Max(D), iter[D \ {Max(D)}])
    <3>1. Max(D) \in 1 .. M
      BY <1>1, <2>2, MaxOfPart
    <3>2. iter[D] = step[<<Max(D), iter[D \ {Max(D)}]>>]
      BY <2>1, <2>2 DEF Folded
    <3> QED
      BY <1>2, <2>1, <3>1, <3>2
  <2>3. iter[{}] = base
    BY <2>1 DEF Folded
  <2>4. iter = Body(iter)
    BY <2>1, <2>2, <2>3
  <2> HIDE DEF Body
  <2> QED
    BY <2>4
<1> HIDE DEF chosen
<1>5. Follows(chosen, V, base, step, M)
  <2>1. chosen[{}] = base
    <3>1. {} \in SUBSET (1 .. M)
      OBVIOUS
    <3> QED
      BY <1>4, <3>1
  <2>2. ASSUME NEW D \in SUBSET (1 .. M), D # {}, chosen[D \ {Max(D)}] \in V
        PROVE  chosen[D] = step[<<Max(D), chosen[D \ {Max(D)}]>>]
    <3>1. Max(D) \in 1 .. M
      BY <1>1, <2>2, MaxOfPart
    <3> QED
      BY <1>2, <1>4, <2>2, <3>1
  <2> QED
    BY <2>1, <2>2 DEF Follows
<1>6. Reaches(V, base, step, M, chosen[1 .. M])
  BY <1>1, <1>2, <1>5, FoldRun
<1> QED
  BY <1>3, <1>6 DEF M, V, base, step

JoinStep(S, parts, separator) ==
    [p \in (1 .. Len(Tail(parts))) \X Seq(S) |->
       p[2] \o separator \o Tail(parts)[p[1]]]

LEMMA JoinUnfolds ==
    ASSUME NEW S, NEW parts \in Seq(Seq(S)), parts # <<>>,
           NEW separator \in Seq(S)
    PROVE  Reaches(Seq(S), Head(parts), JoinStep(S, parts, separator), Len(Tail(parts)), Join(parts, separator))
<1> DEFINE M == Len(Tail(parts))
           V == Seq(S)
           base == Head(parts)
           step == JoinStep(S, parts, separator)
           next(n, v) == v \o separator \o Tail(parts)[n]
           Body(iter) == [D \in SUBSET (1 .. M) |->
                            IF D = {} THEN base ELSE next(Max(D), iter[D \ {Max(D)}])]
           chosen == CHOOSE iter : iter = Body(iter)
<1>1. M \in Nat /\ DOMAIN Tail(parts) = 1 .. M /\ base \in V
  BY HeadTailProperties, LenProperties
<1>2. step \in [(1 .. M) \X V -> V] /\ \A n \in 1 .. M, v \in V : step[<<n, v>>] = next(n, v)
  <2>1. ASSUME NEW n \in 1 .. M, NEW v \in V PROVE next(n, v) \in V
    <3> HIDE DEF M
    <3>1. Tail(parts)[n] \in Seq(S)
      BY HeadTailProperties, ElementOfSeq DEF M
    <3>2. v \o separator \in Seq(S)
      BY ConcatProperties
    <3> QED
      BY <3>1, <3>2, ConcatProperties
  <2>2. step = [p \in (1 .. M) \X V |-> next(p[1], p[2])]
    BY DEF JoinStep
  <2> HIDE DEF V, M, step, next
  <2> QED
    BY <2>1, <2>2
<1>3. Join(parts, separator) = chosen[1 .. M]
  BY <1>1 DEF Join, FoldLeft, MapThenFoldSet
<1> HIDE DEF M, V, base, step, next
<1>4. chosen = Body(chosen)
  <2>1. PICK iter \in [SUBSET (1 .. M) -> V] : Folded(iter, M, base, step)
    BY <1>1, <1>2, FoldExists
  <2>2. ASSUME NEW D \in SUBSET (1 .. M), D # {}
        PROVE  iter[D] = next(Max(D), iter[D \ {Max(D)}])
    <3>1. Max(D) \in 1 .. M
      BY <1>1, <2>2, MaxOfPart
    <3>2. iter[D] = step[<<Max(D), iter[D \ {Max(D)}]>>]
      BY <2>1, <2>2 DEF Folded
    <3> QED
      BY <1>2, <2>1, <3>1, <3>2
  <2>3. iter[{}] = base
    BY <2>1 DEF Folded
  <2>4. iter = Body(iter)
    BY <2>1, <2>2, <2>3
  <2> HIDE DEF Body
  <2> QED
    BY <2>4
<1> HIDE DEF chosen
<1>5. Follows(chosen, V, base, step, M)
  <2>1. chosen[{}] = base
    <3>1. {} \in SUBSET (1 .. M)
      OBVIOUS
    <3> QED
      BY <1>4, <3>1
  <2>2. ASSUME NEW D \in SUBSET (1 .. M), D # {}, chosen[D \ {Max(D)}] \in V
        PROVE  chosen[D] = step[<<Max(D), chosen[D \ {Max(D)}]>>]
    <3>1. Max(D) \in 1 .. M
      BY <1>1, <2>2, MaxOfPart
    <3> QED
      BY <1>2, <1>4, <2>2, <3>1
  <2> QED
    BY <2>1, <2>2 DEF Follows
<1>6. Reaches(V, base, step, M, chosen[1 .. M])
  BY <1>1, <1>2, <1>5, FoldRun
<1> QED
  BY <1>3, <1>6 DEF M, V, base, step

Pieces == {Literal(ch) : ch \in Char} \cup {Param(name) : name \in Texts}

LEMMA PieceTyped ==
    ASSUME NEW piece \in Pieces
    PROVE  /\ piece.text \in Texts
           /\ \/ piece.kind = "literal" /\ \E ch \in Char : piece.text = <<ch>>
              \/ piece.kind = "param"
<1>1. CASE \E ch \in Char : piece = Literal(ch)
  <2>1. PICK ch \in Char : piece = Literal(ch)
    BY <1>1
  <2>2. piece.kind = "literal" /\ piece.text = <<ch>>
    BY <2>1 DEF Literal
  <2>3. <<ch>> \in Texts
    BY DEF Texts
  <2> QED
    BY <2>2, <2>3
<1>2. CASE \E name \in Texts : piece = Param(name)
  BY <1>2 DEF Param
<1> QED
  BY <1>1, <1>2 DEF Pieces

Scans == [inParam : BOOLEAN, name : Texts, regex : Seq(Pieces), panic : BOOLEAN]

NotScanned == [inParam |-> FALSE, name |-> <<>>, regex |-> <<>>, panic |-> FALSE]

LEMMA ScanTyped ==
    ASSUME NEW st \in Scans, NEW ch \in Char
    PROVE  Scan(st, ch) \in Scans
<1>1. Literal(ch) \in Pieces /\ \A text \in Texts : Param(text) \in Pieces
  BY DEF Pieces
<1>2. st.name \in Texts /\ st.regex \in Seq(Pieces) /\ <<>> \in Texts
  BY DEF Scans, Texts
<1>3. Append(st.name, ch) \in Texts
  BY <1>2, AppendProperties DEF Texts
<1>4. /\ Append(st.regex, Param(st.name)) \in Seq(Pieces)
      /\ Append(st.regex, Literal(ch)) \in Seq(Pieces)
  <2> HIDE DEF Pieces
  <2> QED
    BY <1>1, <1>2, AppendProperties
<1>5. CASE ch = "{"
  BY <1>2, <1>5, Zenon DEF Scan, Scans
<1>6. CASE ch = "}"
  BY <1>4, <1>6, Zenon DEF Scan, Scans
<1>7. CASE ch \notin {"{", "}"}
  BY <1>3, <1>4, <1>7, Zenon DEF Scan, Scans
<1> QED
  BY <1>5, <1>6, <1>7, Zenon

ScanStep(segment) ==
    [p \in (1 .. Len(segment)) \X Scans |-> Scan(p[2], segment[p[1]])]

LEMMA ScanUnfolds ==
    ASSUME NEW segment \in Texts
    PROVE  Reaches(Scans, NotScanned, ScanStep(segment), Len(segment), ScanSegment(segment))
<1> DEFINE M == Len(segment)
           V == Scans
           base == NotScanned
           step == ScanStep(segment)
           next(n, v) == Scan(v, segment[n])
           Body(iter) == [D \in SUBSET (1 .. M) |->
                            IF D = {} THEN base ELSE next(Max(D), iter[D \ {Max(D)}])]
           chosen == CHOOSE iter : iter = Body(iter)
<1>1. M \in Nat /\ DOMAIN segment = 1 .. M /\ base \in V
  BY LenProperties, EmptySeq DEF Scans, Texts, NotScanned
<1>2. step \in [(1 .. M) \X V -> V] /\ \A n \in 1 .. M, v \in V : step[<<n, v>>] = next(n, v)
  <2>1. ASSUME NEW n \in 1 .. M, NEW v \in V PROVE next(n, v) \in V
    <3> HIDE DEF M, V
    <3>1. segment[n] \in Char
      BY ElementOfSeq DEF M, Texts
    <3> QED
      BY <3>1, ScanTyped DEF V
  <2>2. step = [p \in (1 .. M) \X V |-> next(p[1], p[2])]
    BY DEF ScanStep
  <2> HIDE DEF V, M, step, next
  <2> QED
    BY <2>1, <2>2
<1>3. ScanSegment(segment) = chosen[1 .. M]
  BY <1>1 DEF ScanSegment, NotScanned, FoldLeft, MapThenFoldSet
<1> HIDE DEF M, V, base, step, next
<1>4. chosen = Body(chosen)
  <2>1. PICK iter \in [SUBSET (1 .. M) -> V] : Folded(iter, M, base, step)
    BY <1>1, <1>2, FoldExists
  <2>2. ASSUME NEW D \in SUBSET (1 .. M), D # {}
        PROVE  iter[D] = next(Max(D), iter[D \ {Max(D)}])
    <3>1. Max(D) \in 1 .. M
      BY <1>1, <2>2, MaxOfPart
    <3>2. iter[D] = step[<<Max(D), iter[D \ {Max(D)}]>>]
      BY <2>1, <2>2 DEF Folded
    <3> QED
      BY <1>2, <2>1, <3>1, <3>2
  <2>3. iter[{}] = base
    BY <2>1 DEF Folded
  <2>4. iter = Body(iter)
    BY <2>1, <2>2, <2>3
  <2> HIDE DEF Body
  <2> QED
    BY <2>4
<1> HIDE DEF chosen
<1>5. Follows(chosen, V, base, step, M)
  <2>1. chosen[{}] = base
    <3>1. {} \in SUBSET (1 .. M)
      OBVIOUS
    <3> QED
      BY <1>4, <3>1
  <2>2. ASSUME NEW D \in SUBSET (1 .. M), D # {}, chosen[D \ {Max(D)}] \in V
        PROVE  chosen[D] = step[<<Max(D), chosen[D \ {Max(D)}]>>]
    <3>1. Max(D) \in 1 .. M
      BY <1>1, <2>2, MaxOfPart
    <3> QED
      BY <1>2, <1>4, <2>2, <3>1
  <2> QED
    BY <2>1, <2>2 DEF Follows
<1>6. Reaches(V, base, step, M, chosen[1 .. M])
  BY <1>1, <1>2, <1>5, FoldRun
<1> QED
  BY <1>3, <1>6 DEF M, V, base, step

LEMMA ToSetOfAppend ==
    ASSUME NEW S, NEW s \in Seq(S), NEW x \in S
    PROVE  ToSet(Append(s, x)) = ToSet(s) \cup {x}
<1>1. /\ DOMAIN s = 1 .. Len(s) /\ Len(s) \in Nat
      /\ DOMAIN Append(s, x) = 1 .. Len(s) + 1
      /\ \A i \in 1 .. Len(s) : Append(s, x)[i] = s[i]
      /\ Append(s, x)[Len(s) + 1] = x
  BY AppendProperties, LenProperties
<1>2. \A i \in DOMAIN Append(s, x) : i \in DOMAIN s \/ i = Len(s) + 1
  BY <1>1
<1>3. \A i \in DOMAIN s : i \in DOMAIN Append(s, x) /\ Append(s, x)[i] = s[i]
  BY <1>1
<1>4. Len(s) + 1 \in DOMAIN Append(s, x)
  BY <1>1
<1> QED
  BY <1>1, <1>2, <1>3, <1>4 DEF ToSet

\* What Those keeps of a sequence.
LEMMA ThoseKept ==
    ASSUME NEW S, NEW s \in Seq(S), NEW T
    PROVE  Those(s, T) \in Seq(S) /\ ToSet(Those(s, T)) = ToSet(s) \cap T
<1>0. PICK f \in [0 .. Len(s) -> Seq(S)] :
         Run(f, <<>>, KeepStep(S, s, T), Len(s)) /\ f[Len(s)] = Those(s, T)
  BY ThoseUnfolds DEF Reaches
<1>2. Len(s) \in Nat /\ DOMAIN s = 1 .. Len(s)
  BY LenProperties
<1>1. /\ f[0] = <<>> /\ Those(s, T) = f[Len(s)]
      /\ \A n \in 1 .. Len(s) :
           f[n] = IF s[n] \in T THEN Append(f[n - 1], s[n]) ELSE f[n - 1]
  <2>1. ASSUME NEW n \in 1 .. Len(s)
        PROVE  f[n] = IF s[n] \in T THEN Append(f[n - 1], s[n]) ELSE f[n - 1]
    <3>1. f[n - 1] \in Seq(S)
      BY <1>2
    <3>2. f[n] = KeepStep(S, s, T)[<<n, f[n - 1]>>]
      BY <1>0 DEF Run
    <3> QED
      BY <3>1, <3>2 DEF KeepStep
  <2> QED
    BY <1>0, <2>1 DEF Run
<1> DEFINE seen(n) == {s[i] : i \in 1 .. n}
           Good == {n \in Nat : n <= Len(s) => ToSet(f[n]) = seen(n) \cap T}
<1>3. 0 \in Good
  <2>1. ToSet(<<>>) = {}
    BY DEF ToSet
  <2>2. seen(0) = {}
    OBVIOUS
  <2> HIDE DEF seen
  <2> QED
    BY <1>1, <2>1, <2>2
<1>4. ASSUME NEW n \in Good PROVE n + 1 \in Good
  <2>1. SUFFICES ASSUME n + 1 <= Len(s) PROVE ToSet(f[n + 1]) = seen(n + 1) \cap T
    OBVIOUS
  <2>2. /\ n \in Nat /\ n \in 0 .. Len(s) /\ n + 1 \in 1 .. Len(s)
        /\ (n + 1) - 1 = n /\ n <= Len(s)
    BY <1>2, <2>1
  <2>3. ToSet(f[n]) = seen(n) \cap T
    BY <2>2
  <2>4. seen(n + 1) = seen(n) \cup {s[n + 1]}
    <3>1. 1 .. n + 1 = (1 .. n) \cup {n + 1}
      BY <2>2
    <3> QED
      BY <3>1
  <2>5. f[n] \in Seq(S) /\ s[n + 1] \in S
    BY <1>1, <2>2, ElementOfSeq
  <2>6. f[n + 1] = IF s[n + 1] \in T THEN Append(f[n], s[n + 1]) ELSE f[n]
    BY <1>1, <2>2
  <2>7. ToSet(f[n + 1]) = IF s[n + 1] \in T THEN ToSet(f[n]) \cup {s[n + 1]} ELSE ToSet(f[n])
    <3>1. ToSet(Append(f[n], s[n + 1])) = ToSet(f[n]) \cup {s[n + 1]}
      <4> HIDE DEF Good
      <4> QED
        BY <2>5, ToSetOfAppend
    <3> HIDE DEF Good
    <3> QED
      BY <2>6, <3>1
  <2> HIDE DEF seen
  <2> QED
    BY <2>3, <2>4, <2>7
<1>5. Good = Nat
  <2>1. Good \in SUBSET Nat
    OBVIOUS
  <2> HIDE DEF Good
  <2> QED
    BY <1>3, <1>4, <2>1, SetInduction
<1>6. ToSet(f[Len(s)]) = seen(Len(s)) \cap T
  <2> HIDE DEF seen
  <2> QED
    BY <1>2, <1>5
<1>7. seen(Len(s)) = ToSet(s)
  BY <1>2 DEF ToSet
<1>8. f[Len(s)] \in Seq(S)
  BY <1>1, <1>2
<1> HIDE DEF seen
<1> QED
  BY <1>1, <1>6, <1>7, <1>8

-----------------------------------------------------------------------------
(***************************************************************************)
(* The operators on texts and patterns stay among texts and pieces.        *)
(***************************************************************************)
LEMMA ReachesInside ==
    ASSUME NEW V, NEW base, NEW M \in Nat, NEW step, NEW result,
           Reaches(V, base, step, M, result)
    PROVE  result \in V
<1>1. M \in 0 .. M
  OBVIOUS
<1> QED
  BY <1>1 DEF Reaches

LEMMA SplitTyped ==
    ASSUME NEW S, NEW text \in Seq(S), NEW separator
    PROVE  Split(text, separator) \in Seq(Seq(S)) /\ Split(text, separator) # <<>>
<1>1. Split(text, separator) \in Seq(Seq(S)) \ {<<>>}
  BY SplitUnfolds, ReachesInside, LenProperties
<1> QED
  BY <1>1

LEMMA JoinTyped ==
    ASSUME NEW S, NEW parts \in Seq(Seq(S)), parts # <<>>, NEW separator \in Seq(S)
    PROVE  Join(parts, separator) \in Seq(S)
<1>1. Len(Tail(parts)) \in Nat
  BY HeadTailProperties, LenProperties
<1> QED
  BY <1>1, JoinUnfolds, ReachesInside

LEMMA ScanSegmentTyped ==
    ASSUME NEW segment \in Texts
    PROVE  ScanSegment(segment) \in Scans
<1>1. Len(segment) \in Nat
  BY LenProperties DEF Texts
<1> QED
  BY <1>1, ScanUnfolds, ReachesInside

LEMMA MinOfPart ==
    ASSUME NEW N \in Nat, NEW S \in SUBSET (1 .. N), S # {}
    PROVE  Min(S) \in S /\ \A n \in S : Min(S) <= n
<1>1. S \in SUBSET Nat
  OBVIOUS
<1>2. PICK m \in S : \A n \in S : m <= n
  BY <1>1, LeastNatural
<1> QED
  BY <1>1, <1>2, LeastIsMin

LEMMA SubSeqTyped ==
    ASSUME NEW S, NEW s \in Seq(S), NEW m \in 1 .. Len(s) + 1, NEW n \in 0 .. Len(s)
    PROVE  /\ SubSeq(s, m, n) \in Seq(S)
           /\ Len(SubSeq(s, m, n)) = IF m <= n THEN n - m + 1 ELSE 0
           /\ \A i \in 1 .. n - m + 1 : SubSeq(s, m, n)[i] = s[m + i - 1]
<1>1. Len(s) \in Nat
  BY LenProperties
<1>2. m \in Int /\ n \in Int
  BY <1>1
<1>3. \A i \in m .. n : s[i] \in S
  BY <1>1, ElementOfSeq
<1> QED
  BY <1>2, <1>3, SubSeqProperties

LEMMA TrimTyped ==
    ASSUME NEW S, NEW text \in Seq(S)
    PROVE  TrimSlashes(text) \in Seq(S)
<1> DEFINE kept == {i \in DOMAIN text : text[i] # "/"}
<1>1. Len(text) \in Nat /\ DOMAIN text = 1 .. Len(text)
  BY LenProperties
<1>2. CASE kept # {}
  <2>1. kept \in SUBSET (1 .. Len(text))
    BY <1>1
  <2> HIDE DEF kept
  <2>2. Min(kept) \in kept /\ Max(kept) \in kept
    BY <1>1, <1>2, <2>1, MinOfPart, MaxOfPart
  <2>3. PICK m, n : m = Min(kept) /\ n = Max(kept)
    OBVIOUS
  <2>4. m \in 1 .. Len(text) + 1 /\ n \in 0 .. Len(text)
    <3>1. m \in kept /\ n \in kept
      BY <2>2, <2>3
    <3>2. m \in 1 .. Len(text) /\ n \in 1 .. Len(text)
      BY <2>1, <3>1
    <3> QED
      BY <1>1, <3>2
  <2>5. SubSeq(text, m, n) \in Seq(S)
    BY <2>4, SubSeqTyped
  <2> QED
    BY <1>2, <2>3, <2>5 DEF TrimSlashes, kept
<1>3. CASE kept = {}
  BY <1>3, EmptySeq DEF TrimSlashes
<1> QED
  BY <1>2, <1>3

LEMMA RegexTyped ==
    ASSUME NEW pattern \in Texts
    PROVE  BuildRegex(pattern).regex \in Seq(Pieces)
<1> DEFINE segments == Split(TrimSlashes(pattern), "/")
           regexes  == [i \in DOMAIN segments |-> ScanSegment(segments[i]).regex]
           slash    == <<Literal("/")>>
<1>1. segments \in Seq(Texts) /\ segments # <<>>
  BY TrimTyped, SplitTyped DEF Texts
<1>2. regexes \in Seq(Seq(Pieces)) /\ regexes # <<>>
  <2> HIDE DEF segments
  <2>1. DOMAIN segments = 1 .. Len(segments) /\ Len(segments) \in Nat \ {0}
    BY <1>1, LenProperties, EmptySeq
  <2>2. \A i \in 1 .. Len(segments) : ScanSegment(segments[i]).regex \in Seq(Pieces)
    BY <1>1, ElementOfSeq, ScanSegmentTyped DEF Scans
  <2>3. regexes \in [1 .. Len(segments) -> Seq(Pieces)]
    BY <2>1, <2>2
  <2> HIDE DEF regexes
  <2>4. regexes \in Seq(Seq(Pieces)) /\ Len(regexes) = Len(segments)
    BY <2>1, <2>3
  <2> QED
    BY <2>1, <2>4, EmptySeq
<1>3. slash \in Seq(Pieces)
  <2>1. "/" \in Char
    BY CharAssumption, Zenon
  <2>2. Literal("/") \in Pieces
    BY <2>1 DEF Pieces
  <2> HIDE DEF Pieces
  <2> QED
    BY <2>2
<1>4. Join(regexes, slash) \in Seq(Pieces)
  <2> HIDE DEF regexes, slash
  <2> QED
    BY <1>2, <1>3, JoinTyped
<1>5. BuildRegex(pattern).regex =
        Join([i \in DOMAIN segments |-> [j \in DOMAIN segments |-> ScanSegment(segments[j])][i].regex],
             slash)
  BY DEF BuildRegex
<1>6. [i \in DOMAIN segments |-> [j \in DOMAIN segments |-> ScanSegment(segments[j])][i].regex]
        = regexes
  OBVIOUS
<1> QED
  BY <1>4, <1>5, <1>6

-----------------------------------------------------------------------------
(***************************************************************************)
(* What the Path extractor makes of a type.                                *)
(***************************************************************************)
Results == {"ok", "error", "panic"}

\* The node of all values, or one of the results that is no value.
LEMMA CollectOne ==
    ASSUME NEW results, NEW N \in Nat, DOMAIN results = 1 .. N
    PROVE  \/ /\ \A i \in 1 .. N : results[i].tag = "ok"
              /\ Collect(results) = Node([i \in 1 .. N |-> results[i].value])
           \/ \E i \in 1 .. N : results[i].tag # "ok" /\ Collect(results) = results[i]
<1> DEFINE failed == {i \in DOMAIN results : results[i].tag # "ok"}
<1>1. CASE failed = {}
  BY <1>1 DEF Collect
<1>2. CASE failed # {}
  <2>1. failed \in SUBSET (1 .. N)
    OBVIOUS
  <2>2. Collect(results) = results[Min(failed)]
    BY <1>2 DEF Collect
  <2>3. Min(failed) \in failed
    <3> HIDE DEF failed
    <3> QED
      BY <1>2, <2>1, MinOfPart
  <2> QED
    BY <2>2, <2>3
<1> QED
  BY <1>1, <1>2

LEMMA CollectTag ==
    ASSUME NEW results, NEW N \in Nat, DOMAIN results = 1 .. N
    PROVE  \/ Collect(results).tag = "ok"
           \/ \E i \in 1 .. N : Collect(results).tag = results[i].tag
BY CollectOne DEF Node

LEMMA KeyTag ==
    ASSUME NEW type, NEW key
    PROVE  DeserializeKey(type, key).tag \in {"ok", "error"}
BY DEF DeserializeKey, Leaf, Fail

LEMMA ParseTag ==
    ASSUME NEW prim, NEW text, NEW at
    PROVE  ParseValue(prim, text, at).tag \in {"ok", "error"}
BY DEF ParseValue, Leaf, Fail

LEMMA EnumTag ==
    ASSUME NEW type, NEW text
    PROVE  DeserializeEnum(type, text).tag \in {"ok", "error"}
BY DEF DeserializeEnum, Leaf, Fail

LEMMA OneTag ==
    ASSUME NEW type \in PathType, NEW text, NEW at
    PROVE  DeserializeOne(type, text, at).tag \in {"ok", "error"}
<1>1. type.kind \in {"unit", "any", "bytes", "ignored", "enum", "prim", "seq", "tuple",
                     "tuple_struct", "map", "struct"}
  BY PathTypeAssumption DEF Shaped
<1>2. CASE type.kind = "prim"
  BY <1>2, ParseTag DEF DeserializeOne
<1>3. CASE type.kind \in {"any", "bytes"}
  BY <1>3 DEF DeserializeOne, Leaf
<1>4. CASE type.kind \in {"unit", "ignored"}
  BY <1>4 DEF DeserializeOne, Node
<1>5. CASE type.kind = "enum"
  BY <1>5, EnumTag DEF DeserializeOne
<1>6. CASE type.kind \in {"seq", "tuple", "tuple_struct", "map", "struct"}
  BY <1>6 DEF DeserializeOne, Fail
<1> QED
  BY <1>1, <1>2, <1>3, <1>4, <1>5, <1>6

LEMMA PairParts ==
    ASSUME NEW type \in PathType, IsPair(type)
    PROVE  type.of[1] \in PathType /\ type.of[2] \in PathType
<1>1. type.of \in Seq(PathType) /\ Len(type.of) = 2
  BY PathTypeAssumption DEF Shaped, IsPair
<1> QED
  BY <1>1, ElementOfSeq

\* A parameter panics in a pair without a place of its own, or at an index when
\* the second element of the pair is a pair.
LEMMA ValueTag ==
    ASSUME NEW type \in PathType, NEW text, NEW at, at.kind \in {"Key", "Idx", "None"}
    PROVE  /\ DeserializeValue(type, text, at).tag \in Results
           /\ DeserializeValue(type, text, at).tag = "panic" =>
                /\ IsPair(type) /\ at.kind # "Key"
                /\ at.kind = "Idx" => IsPair(type.of[2])
<1>1. CASE ~IsPair(type)
  BY <1>1, OneTag DEF DeserializeValue, Results
<1>2. CASE IsPair(type) /\ at.kind = "Key"
  BY <1>2 DEF DeserializeValue, Fail, Results
<1>3. CASE IsPair(type) /\ at.kind = "None"
  BY <1>3 DEF DeserializeValue, Panic, Results
<1>4. CASE IsPair(type) /\ at.kind = "Idx"
  <2> DEFINE key    == DeserializeKey(type.of[1], at.name)
             second == DeserializeSecond(type.of[2], text)
  <2>1. DeserializeValue(type, text, at) = Collect(<<key, second>>)
    BY <1>4 DEF DeserializeValue
  <2>2. key.tag \in {"ok", "error"}
    BY KeyTag
  <2>3. second.tag \in Results /\ (second.tag = "panic" => IsPair(type.of[2]))
    BY <1>4, PairParts, OneTag DEF DeserializeSecond, Panic, Results
  <2> HIDE DEF key, second
  <2> DEFINE both == <<key, second>>
  <2>4. DOMAIN both = 1 .. 2 /\ both[1] = key /\ both[2] = second
    OBVIOUS
  <2> HIDE DEF both
  <2>5. Collect(both).tag = "ok" \/ \E i \in 1 .. 2 : Collect(both).tag = both[i].tag
    BY <2>4, CollectTag
  <2>6. \/ Collect(both).tag = "ok" \/ Collect(both).tag = key.tag
        \/ Collect(both).tag = second.tag
    <3>1. \A i \in 1 .. 2 : i = 1 \/ i = 2
      OBVIOUS
    <3> QED
      BY <2>4, <2>5, <3>1
  <2> QED
    BY <1>4, <2>1, <2>2, <2>3, <2>6 DEF both, Results
<1> QED
  BY <1>1, <1>2, <1>3, <1>4

LEMMA SeqTag ==
    ASSUME NEW types, NEW S, NEW params \in Seq(S),
           \A i \in 1 .. Len(params) : types[i] \in PathType
    PROVE  /\ DeserializeSeq(types, params).tag \in Results
           /\ DeserializeSeq(types, params).tag = "panic" =>
                \E i \in 1 .. Len(params) : IsPair(types[i]) /\ IsPair(types[i].of[2])
<1> DEFINE value(i) == DeserializeValue(types[i], params[i].value,
                                        AtIdx(i - 1, params[i].name))
           values == [i \in DOMAIN params |-> value(i)]
<1>1. Len(params) \in Nat /\ DOMAIN params = 1 .. Len(params)
  BY LenProperties
<1>2. ASSUME NEW i \in 1 .. Len(params)
      PROVE  /\ value(i).tag \in Results
             /\ value(i).tag = "panic" => IsPair(types[i]) /\ IsPair(types[i].of[2])
  <2>1. AtIdx(i - 1, params[i].name).kind = "Idx"
    BY DEF AtIdx
  <2> QED
    BY <2>1, ValueTag
<1> HIDE DEF value
<1>3. DOMAIN values = 1 .. Len(params) /\ \A i \in 1 .. Len(params) : values[i] = value(i)
  BY <1>1
<1>4. DeserializeSeq(types, params) = Collect(values)
  BY DEF DeserializeSeq, value
<1> HIDE DEF values
<1>5. \/ Collect(values).tag = "ok"
      \/ \E i \in 1 .. Len(params) : Collect(values).tag = values[i].tag
  BY <1>1, <1>3, CollectTag
<1> QED
  BY <1>2, <1>3, <1>4, <1>5 DEF Results

LEMMA MapTag ==
    ASSUME NEW type \in PathType, type.kind = "map", NEW S, NEW params \in Seq(S)
    PROVE  DeserializeMap(type, params).tag \in {"ok", "error"}
<1> DEFINE key(i)   == DeserializeKey(type.key, params[i].name)
           value(i) == DeserializeValue(type.of, params[i].value, AtKey(params[i].name))
           both(i)  == <<key(i), value(i)>>
           entries  == [i \in DOMAIN params |-> Collect(both(i))]
<1>1. Len(params) \in Nat /\ DOMAIN params = 1 .. Len(params)
  BY LenProperties
<1>2. type.of \in PathType
  BY PathTypeAssumption DEF Shaped
<1>3. ASSUME NEW i \in 1 .. Len(params) PROVE Collect(both(i)).tag \in {"ok", "error"}
  <2>1. key(i).tag \in {"ok", "error"}
    BY KeyTag
  <2>2. value(i).tag \in {"ok", "error"}
    <3>1. AtKey(params[i].name).kind = "Key"
      BY DEF AtKey
    <3> QED
      BY <1>2, <3>1, ValueTag DEF Results
  <2> HIDE DEF key, value
  <2>3. DOMAIN both(i) = 1 .. 2 /\ both(i)[1] = key(i) /\ both(i)[2] = value(i)
    OBVIOUS
  <2> HIDE DEF both
  <2>4. Collect(both(i)).tag = "ok" \/ \E k \in 1 .. 2 : Collect(both(i)).tag = both(i)[k].tag
    BY <2>3, CollectTag
  <2>5. \A k \in 1 .. 2 : k = 1 \/ k = 2
    OBVIOUS
  <2> QED
    BY <2>1, <2>2, <2>3, <2>4, <2>5
<1>4. DeserializeMap(type, params) = Collect(entries)
  BY DEF DeserializeMap
<1> HIDE DEF both
<1>5. DOMAIN entries = 1 .. Len(params)
      /\ \A i \in 1 .. Len(params) : entries[i] = Collect(both(i))
  BY <1>1
<1> HIDE DEF entries
<1>6. \/ Collect(entries).tag = "ok"
      \/ \E i \in 1 .. Len(params) : Collect(entries).tag = entries[i].tag
  BY <1>1, <1>5, CollectTag
<1> QED
  BY <1>3, <1>4, <1>5, <1>6

LEMMA StructTag ==
    ASSUME NEW type \in PathType, type.kind = "struct", NEW S, NEW params \in Seq(S)
    PROVE  DeserializeStruct(type, params).tag \in {"ok", "error"}
<1> DEFINE known(i) == {f \in DOMAIN type.fields : type.fields[f].name = params[i].name}
           taken(i) == IF known(i) = {} THEN Node(<<>>)
                       ELSE IF \E j \in 1 .. (i - 1) : params[j].name = params[i].name
                       THEN Fail("Message", Nowhere)
                       ELSE DeserializeValue(type.fields[Min(known(i))].type,
                                             params[i].value, AtKey(params[i].name))
           given(f) == {i \in DOMAIN params : params[i].name = type.fields[f].name}
           field(f) == IF given(f) # {} THEN taken(Min(given(f)))
                       ELSE IF IsOption(type.fields[f].type) THEN Node(<<>>)
                       ELSE Fail("Message", Nowhere)
           all    == [i \in DOMAIN params |-> taken(i)]
           fields == [f \in DOMAIN type.fields |-> field(f)]
<1>1. Len(params) \in Nat /\ DOMAIN params = 1 .. Len(params)
  BY LenProperties
<1>2. /\ Len(type.fields) \in Nat /\ DOMAIN type.fields = 1 .. Len(type.fields)
      /\ \A f \in 1 .. Len(type.fields) : type.fields[f].type \in PathType
  <2>1. type.fields \in Seq([name : Texts, type : PathType])
    BY PathTypeAssumption DEF Shaped
  <2>2. Len(type.fields) \in Nat /\ DOMAIN type.fields = 1 .. Len(type.fields)
    BY <2>1, LenProperties
  <2>3. \A f \in 1 .. Len(type.fields) : type.fields[f] \in [name : Texts, type : PathType]
    BY <2>1, ElementOfSeq
  <2> QED
    BY <2>2, <2>3
<1>3. Node(<<>>).tag = "ok" /\ Fail("Message", Nowhere).tag = "error"
  BY DEF Node, Fail
<1>4. ASSUME NEW i PROVE taken(i).tag \in {"ok", "error"}
  <2>1. CASE known(i) = {}
    BY <1>3, <2>1
  <2>2. CASE known(i) # {}
    <3>1. known(i) \in SUBSET (1 .. Len(type.fields))
      BY <1>2
    <3>2. Min(known(i)) \in known(i)
      <4> HIDE DEF known
      <4> QED
        BY <1>2, <2>2, <3>1, MinOfPart
    <3>3. type.fields[Min(known(i))].type \in PathType
      BY <1>2, <3>1, <3>2
    <3>4. AtKey(params[i].name).kind = "Key"
      BY DEF AtKey
    <3>5. DeserializeValue(type.fields[Min(known(i))].type, params[i].value,
                           AtKey(params[i].name)).tag \in {"ok", "error"}
      <4> HIDE DEF known
      <4> QED
        BY <3>3, <3>4, ValueTag DEF Results
    <3> HIDE DEF known
    <3> QED
      BY <1>3, <2>2, <3>5
  <2> QED
    BY <2>1, <2>2
<1>5. ASSUME NEW f PROVE field(f).tag \in {"ok", "error"}
  <2> HIDE DEF taken, given
  <2> QED
    BY <1>3, <1>4
<1>6. DeserializeStruct(type, params) =
        IF Collect(all).tag # "ok" THEN Collect(all) ELSE Collect(fields)
  BY DEF DeserializeStruct
<1> HIDE DEF taken, field
<1>7. /\ DOMAIN all = 1 .. Len(params) /\ \A i \in 1 .. Len(params) : all[i] = taken(i)
      /\ DOMAIN fields = 1 .. Len(type.fields)
      /\ \A f \in 1 .. Len(type.fields) : fields[f] = field(f)
  BY <1>1, <1>2
<1> HIDE DEF all, fields
<1>8. \/ Collect(all).tag = "ok"
      \/ \E i \in 1 .. Len(params) : Collect(all).tag = all[i].tag
  BY <1>1, <1>7, CollectTag
<1>9. \/ Collect(fields).tag = "ok"
      \/ \E f \in 1 .. Len(type.fields) : Collect(fields).tag = fields[f].tag
  BY <1>2, <1>7, CollectTag
<1> QED
  BY <1>4, <1>5, <1>6, <1>7, <1>8, <1>9

\* The deserializer panics only on a sequence of pairs of pairs.
LEMMA DeserializeTag ==
    ASSUME NEW type \in PathType, NEW S, NEW params \in Seq(S)
    PROVE  /\ Deserialize(type, params).tag \in Results
           /\ Deserialize(type, params).tag = "panic" => NestedPair(type)
<1>1. /\ Fail("WrongNumberOfParameters", Nowhere).tag = "error"
      /\ Fail("UnsupportedType", Nowhere).tag = "error" /\ Node(<<>>).tag = "ok"
      /\ Leaf(params[1].value).tag = "ok"
  BY DEF Fail, Node, Leaf
<1>2. CASE type.kind \in {"bytes", "ignored"} \/ Contains(type.wraps, "option")
  BY <1>1, <1>2 DEF Deserialize, Results
<1>3. ASSUME ~(type.kind \in {"bytes", "ignored"} \/ Contains(type.wraps, "option"))
      PROVE  /\ Deserialize(type, params).tag \in Results
             /\ Deserialize(type, params).tag = "panic" => NestedPair(type)
  <2>1. CASE type.kind = "unit"
    BY <1>1, <1>3, <2>1 DEF Deserialize, Results
  <2>2. CASE type.kind = "seq"
    <3> DEFINE types == [i \in DOMAIN params |-> type.of]
    <3>1. Deserialize(type, params) = DeserializeSeq(types, params)
      BY <1>3, <2>2 DEF Deserialize
    <3>2. \A i \in 1 .. Len(params) : types[i] = type.of
      BY LenProperties
    <3>3. type.of \in PathType
      BY <2>2, PathTypeAssumption DEF Shaped
    <3> HIDE DEF types
    <3>4. /\ DeserializeSeq(types, params).tag \in Results
          /\ DeserializeSeq(types, params).tag = "panic" =>
               \E i \in 1 .. Len(params) : IsPair(types[i]) /\ IsPair(types[i].of[2])
      BY <3>2, <3>3, SeqTag
    <3>5. IsPair(type.of) /\ IsPair(type.of.of[2]) => NestedPair(type)
      BY <2>2 DEF NestedPair
    <3> QED
      BY <3>1, <3>2, <3>4, <3>5
  <2>3. CASE type.kind = "map"
    BY <1>3, <2>3, MapTag DEF Deserialize, Results
  <2>4. CASE type.kind = "struct"
    BY <1>3, <2>4, StructTag DEF Deserialize, Results
  <2>5. CASE type.kind \in {"tuple", "tuple_struct"}
    <3>1. type.of \in Seq(PathType)
      BY <2>5, PathTypeAssumption DEF Shaped
    <3>2. CASE Len(params) # Len(type.of)
      BY <1>1, <1>3, <2>5, <3>2 DEF Deserialize, Results
    <3>3. CASE Len(params) = Len(type.of)
      <4>1. Deserialize(type, params) = DeserializeSeq(type.of, params)
        BY <1>3, <2>5, <3>3 DEF Deserialize
      <4>2. \A i \in 1 .. Len(params) : type.of[i] \in PathType /\ i \in DOMAIN type.of
        BY <3>1, <3>3, ElementOfSeq, LenProperties
      <4>3. ASSUME NEW i \in 1 .. Len(params), IsPair(type.of[i]), IsPair(type.of[i].of[2])
            PROVE  NestedPair(type)
        BY <2>5, <4>2, <4>3 DEF NestedPair, ToSet
      <4> QED
        BY <4>1, <4>2, <4>3, SeqTag
    <3> QED
      BY <3>2, <3>3
  <2>6. CASE type.kind \in {"prim", "any", "enum"}
    <3>1. CASE Len(params) # 1
      BY <1>1, <1>3, <2>6, <3>1 DEF Deserialize, Results
    <3>2. CASE Len(params) = 1 /\ type.kind = "prim"
      BY <1>3, <3>2, ParseTag DEF Deserialize, Results
    <3>3. CASE Len(params) = 1 /\ type.kind = "any"
      BY <1>1, <1>3, <3>3 DEF Deserialize, Results
    <3>4. CASE Len(params) = 1 /\ type.kind = "enum"
      BY <1>3, <3>4, EnumTag DEF Deserialize, Results
    <3> QED
      BY <2>6, <3>1, <3>2, <3>3, <3>4
  <2>7. type.kind \in {"unit", "any", "bytes", "ignored", "enum", "prim", "seq", "tuple",
                       "tuple_struct", "map", "struct"}
    BY PathTypeAssumption DEF Shaped
  <2> QED
    BY <1>3, <2>1, <2>2, <2>3, <2>4, <2>5, <2>6, <2>7
<1> QED
  BY <1>2, <1>3

-----------------------------------------------------------------------------
(***************************************************************************)
(* Handlers, and what their extractors make of a request.                  *)
(***************************************************************************)
Bodies == {"text", "json", "cbor", "binary"}

LEMMA FromRequestTag ==
    ASSUME NEW extractor \in Extractor, NEW req, NEW S, req.params \in Seq(S),
           req.body \in Bodies
    PROVE  /\ FromRequest(extractor, req).tag \in {"ok", "rejected", "panic"}
           /\ FromRequest(extractor, req).tag = "panic" =>
                extractor.kind = "path" /\ NestedPair(extractor.type)
<1>1. \A status, text : Reject(status, text).tag = "rejected"
  BY DEF Reject
<1>2. \A text : Leaf(text).tag = "ok"
  BY DEF Leaf
<1>3. CASE extractor.kind = "path"
  <2>1. extractor.type \in PathType
    BY <1>3 DEF Extractor
  <2>2. /\ Deserialize(extractor.type, req.params).tag \in Results
        /\ Deserialize(extractor.type, req.params).tag = "panic" => NestedPair(extractor.type)
    BY <2>1, DeserializeTag
  <2>3. FromRequest(extractor, req) = ExtractPath(extractor.type, req)
    BY <1>3 DEF FromRequest
  <2> QED
    BY <1>1, <1>3, <2>2, <2>3 DEF ExtractPath, Results
<1>4. CASE extractor.kind = "query"
  <2>1. FromRequest(extractor, req) = ExtractQuery(extractor.keys, req)
    BY <1>4 DEF FromRequest
  <2> QED
    BY <1>1, <2>1 DEF ExtractQuery
<1>5. CASE extractor.kind = "json"
  BY <1>1, <1>2, <1>5 DEF FromRequest, ExtractJson, Bodies
<1>6. CASE extractor.kind = "cbor"
  BY <1>1, <1>2, <1>6 DEF FromRequest, ExtractCbor
<1>7. CASE extractor.kind \in {"state", "raw"}
  BY <1>2, <1>7 DEF FromRequest, ExtractState, ExtractRawBody
<1>8. CASE extractor.kind = "peer"
  BY <1>1, <1>2, <1>8, Zenon DEF FromRequest, ExtractPeer
<1>9. extractor.kind \in {"path", "query", "json", "cbor", "state", "raw", "peer"}
  BY DEF Extractor
<1> QED
  BY <1>3, <1>4, <1>5, <1>6, <1>7, <1>8, <1>9

\* A handler panics only in a Path extractor of a sequence of pairs of pairs.
LEMMA CallPanics ==
    ASSUME NEW handler, handler.extract \in Seq(Extractor), NEW req, NEW S,
           req.params \in Seq(S), req.body \in Bodies
    PROVE  /\ Call(handler, req).handler = handler
           /\ Call(handler, req).outcome = "panicked" =>
                \E type \in PathTypes(handler) : NestedPair(type)
<1> DEFINE got == [i \in DOMAIN handler.extract |-> FromRequest(handler.extract[i], req)]
<1>1. /\ Len(handler.extract) \in Nat
      /\ DOMAIN handler.extract = 1 .. Len(handler.extract)
  BY LenProperties
<1>2. ASSUME NEW i \in 1 .. Len(handler.extract)
      PROVE  /\ got[i].tag \in {"ok", "rejected", "panic"}
             /\ got[i].tag = "panic" =>
                  /\ handler.extract[i].kind = "path" /\ NestedPair(handler.extract[i].type)
  <2>1. handler.extract[i] \in Extractor
    BY ElementOfSeq
  <2>2. got[i] = FromRequest(handler.extract[i], req)
    BY <1>1
  <2> HIDE DEF got
  <2> QED
    BY <2>1, <2>2, FromRequestTag
<1>3. DOMAIN got = 1 .. Len(handler.extract)
  BY <1>1
<1>4. FromRequests(handler.extract, req) = Collect(got)
  BY DEF FromRequests
<1> HIDE DEF got
<1>5. \/ Collect(got).tag = "ok"
      \/ \E i \in 1 .. Len(handler.extract) : Collect(got).tag = got[i].tag
  BY <1>1, <1>3, CollectTag
<1>6. Collect(got).tag \in {"ok", "rejected", "panic"}
  BY <1>2, <1>5
<1>7. /\ Call(handler, req).handler = handler
      /\ Call(handler, req).outcome = "panicked" => Collect(got).tag = "panic"
  BY <1>4, <1>6 DEF Call
<1>8. ASSUME Collect(got).tag = "panic"
      PROVE  \E type \in PathTypes(handler) : NestedPair(type)
  <2>1. PICK i \in 1 .. Len(handler.extract) : got[i].tag = "panic"
    BY <1>5, <1>8
  <2>2. handler.extract[i].kind = "path" /\ NestedPair(handler.extract[i].type)
    BY <1>2, <2>1
  <2>3. handler.extract[i].type \in PathTypes(handler)
    BY <1>1, <2>2 DEF PathTypes
  <2> QED
    BY <2>2, <2>3
<1> QED
  BY <1>7, <1>8

LEMMA MatchedParams ==
    ASSUME NEW regex \in Seq(Pieces), NEW path, NEW p \in MatchPath(regex, path)
    PROVE  p \in Seq(ToSet(p))
<1> DEFINE names == Those(regex, {piece \in ToSet(regex) : piece.kind = "param"})
<1>1. names \in Seq(Pieces)
  BY ThoseKept
<1>2. DOMAIN names = 1 .. Len(names) /\ Len(names) \in Nat
  BY <1>1, LenProperties
<1>3. PICK value : p = [i \in DOMAIN names |-> value[i]]
  <2>1. PICK c : p = [i \in DOMAIN names |-> [name |-> names[i].text,
                                              value |-> PercentDecode(c[i])]]
    BY DEF MatchPath
  <2> DEFINE v == [i \in DOMAIN names |-> [name |-> names[i].text,
                                           value |-> PercentDecode(c[i])]]
  <2>2. p = [i \in DOMAIN names |-> v[i]]
    BY <2>1
  <2> HIDE DEF v, names
  <2> QED
    BY <2>2
<1> HIDE DEF names
<1>4. DOMAIN p = 1 .. Len(names)
  BY <1>2, <1>3
<1>5. p \in [1 .. Len(names) -> ToSet(p)]
  BY <1>3, <1>4 DEF ToSet
<1> QED
  BY <1>2, <1>5

-----------------------------------------------------------------------------
(***************************************************************************)
(* The requests of this library's client.                                  *)
(***************************************************************************)
LEMMA DecodedTyped ==
    ASSUME NEW text \in Texts
    PROVE  PercentDecode(text) \in Texts
<1>1. DOMAIN text = 1 .. Len(text) /\ Len(text) \in Nat
      /\ \A i \in 1 .. Len(text) : text[i] \in Char
  BY LenProperties, ElementOfSeq DEF Texts
<1>2. \A e \in DOMAIN EscapeOf : EscapeOf[e] \in Char
  BY CharAssumption, Zenon DEF EscapeOf
<1>3. PercentDecode(text) \in [1 .. Len(text) -> Char]
  BY <1>1, <1>2 DEF PercentDecode
<1> QED
  BY <1>1, <1>3 DEF Texts

LEMMA SetPathTyped ==
    ASSUME NEW path \in Texts
    PROVE  SetPath(path) \in Seq(Texts)
<1>1. Split(path, "/") \in Seq(Texts) /\ Split(path, "/") # <<>>
  BY SplitTyped DEF Texts
<1>2. Tail(Split(path, "/")) \in Seq(Texts)
  BY <1>1, HeadTailProperties
<1> QED
  BY <1>1, <1>2 DEF SetPath

LEMMA ClientRequest ==
    ASSUME NEW u, u.path \in Texts, u.query \in Texts, NEW method,
           "error" \notin DOMAIN ParseCoapUrl(u)
    PROVE  Received(SentByClient(UrlRequest(u, method, "text")))
<1> DEFINE parts == ParseCoapUrl(u)
           split == Split(u.query, "&")
           built == UrlRequest(u, method, "text")
           sent  == SentByClient(built)
           queries == IF ~u.hasQuery THEN <<>>
                      ELSE [i \in DOMAIN split |-> PercentDecode(split[i])]
<1>1. parts.path = u.path /\ parts.queries = queries
  BY Zenon DEF ParseCoapUrl
<1>2. queries \in Seq(Texts)
  <2>1. split \in Seq(Texts)
    BY SplitTyped DEF Texts
  <2> HIDE DEF split
  <2>2. DOMAIN split = 1 .. Len(split) /\ Len(split) \in Nat
    BY <2>1, LenProperties
  <2>3. \A i \in 1 .. Len(split) : PercentDecode(split[i]) \in Texts
    BY <2>1, ElementOfSeq, DecodedTyped
  <2>4. [i \in DOMAIN split |-> PercentDecode(split[i])] \in [1 .. Len(split) -> Texts]
    BY <2>2, <2>3
  <2>5. [i \in DOMAIN split |-> PercentDecode(split[i])] \in Seq(Texts)
    BY <2>2, <2>4
  <2> QED
    BY <2>5, EmptySeq
<1>3. SetPath(u.path) \in Seq(Texts)
  BY SetPathTyped
<1> HIDE DEF parts, queries
<1>4. /\ built.path = SetPath(u.path) /\ built.queries = queries /\ built.body = "text"
      /\ built.params = <<>>
      /\ DOMAIN built = {"panics", "method", "path", "queries", "options", "body", "kind",
                         "params"}
  BY <1>1 DEF UrlRequest, Build, parts
<1> HIDE DEF built
<1>5. /\ DOMAIN sent = DOMAIN built \cup {"source"}
      /\ sent.path = built.path /\ sent.queries = built.queries /\ sent.body = built.body
      /\ sent.params = built.params
  BY <1>4 DEF SentByClient
<1> HIDE DEF sent
<1>6. Received(sent)
  BY <1>2, <1>3, <1>4, <1>5 DEF Received
<1> QED
  BY <1>6 DEF sent, built

LEMMA UrlTyped ==
    ASSUME NEW u \in Urls
    PROVE  u.path \in Texts /\ u.query \in Texts
BY RequestsAssumption

LEMMA DiscoveryUrlTyped ==
    ASSUME NEW u \in Urls
    PROVE  DiscoveryUrl(u).path \in Texts /\ DiscoveryUrl(u).query \in Texts
<1> DEFINE core == <<"/">> \o WellKnownCore
<1>1. core \in Texts
  <2>1. "/" \in Char /\ ".well-known" \in Char /\ "core" \in Char
    BY CharAssumption, Zenon
  <2>2. <<"/">> \in Seq(Char) /\ WellKnownCore \in Seq(Char)
    BY <2>1 DEF WellKnownCore
  <2> QED
    BY <2>2, ConcatProperties DEF Texts
<1> HIDE DEF core
<1>2. DiscoveryUrl(u) = [u EXCEPT !.path = core]
  BY DEF DiscoveryUrl, core
<1> QED
  BY <1>1, <1>2, UrlTyped

-----------------------------------------------------------------------------
(***************************************************************************)
(* The answer to a request.                                                *)
(***************************************************************************)
LEMMA RouteTyped ==
    ASSUME NEW t \in Tables, NEW i \in DOMAIN t.routes
    PROVE  /\ t.routes[i].regex \in Seq(Pieces)
           /\ t.routes[i].pattern \in Texts
           /\ t.routes[i].regex = BuildRegex(t.routes[i].pattern).regex
           /\ ~BuildRegex(t.routes[i].pattern).panics
           /\ t.routes[i].methods.attributes \in Seq(Attributes)
           /\ \A method : \A h \in HandlerFor(t.routes[i].methods, method) :
                h.extract \in Seq(Extractor)
<1>1. t.routes[i] \in Routes
  BY ElementOfSeq, LenProperties DEF Tables
<1>2. PICK c \in Calls : /\ t.routes[i] = NewRoute(c.pattern, c.methods)
                         /\ ~BuildRegex(c.pattern).panics
  BY <1>1 DEF Routes
<1>3. /\ c.pattern \in Texts /\ c.methods.attributes \in Seq(Attributes)
      /\ \A m \in DOMAIN c.methods.handlers :
           c.methods.handlers[m].extract \in Seq(Extractor)
  BY ProgramsAssumption
<1>4. /\ t.routes[i].pattern = c.pattern /\ t.routes[i].methods = c.methods
      /\ t.routes[i].regex = BuildRegex(c.pattern).regex
  BY <1>2 DEF NewRoute
<1>5. \A method : \A h \in HandlerFor(c.methods, method) : h.extract \in Seq(Extractor)
  BY <1>3 DEF HandlerFor
<1> QED
  BY <1>2, <1>3, <1>4, <1>5, RegexTyped

LEMMA MatchedReceived ==
    ASSUME NEW t \in Tables, NEW req, Received(req), NEW i \in Hits(t, req)
    PROVE  /\ Matched(t.routes[i], req).params \in MatchPath(t.routes[i].regex, RequestPath(req))
           /\ Matched(t.routes[i], req).params \in Seq(ToSet(Matched(t.routes[i], req).params))
           /\ Matched(t.routes[i], req).body \in Bodies
<1> DEFINE p == CHOOSE p \in MatchPath(t.routes[i].regex, RequestPath(req)) : TRUE
<1>1. i \in DOMAIN t.routes /\ MatchPath(t.routes[i].regex, RequestPath(req)) # {}
  BY DEF Hits
<1>2. p \in MatchPath(t.routes[i].regex, RequestPath(req))
  BY <1>1
<1>3. Matched(t.routes[i], req) = [req EXCEPT !.params = p]
  BY DEF Matched
<1> HIDE DEF p
<1>4. Matched(t.routes[i], req).params = p /\ Matched(t.routes[i], req).body = req.body
  BY <1>3 DEF Received
<1>5. p \in Seq(ToSet(p))
  BY <1>1, <1>2, RouteTyped, MatchedParams
<1> QED
  BY <1>2, <1>4, <1>5 DEF Received, Bodies

LEMMA FallbackPanics ==
    ASSUME NEW t \in Tables, NEW req, NEW S, req.params \in Seq(S), req.body \in Bodies,
           HandleFallback(t, req).outcome = "panicked"
    PROVE  \E type \in PathTypes(HandleFallback(t, req).handler) : NestedPair(type)
<1>1. t.fallback # None
  BY DEF HandleFallback, Reply, Answer
<1>2. t.fallback \in Fallbacks
  BY <1>1 DEF Tables
<1>3. t.fallback.extract \in Seq(Extractor)
  BY <1>2, ProgramsAssumption
<1> DEFINE called == Call(t.fallback, req)
<1>4. HandleFallback(t, req) = Answer("fallback", 0, called)
  BY <1>1 DEF HandleFallback
<1>5. /\ called.handler = t.fallback
      /\ called.outcome = "panicked" => \E type \in PathTypes(t.fallback) : NestedPair(type)
  BY <1>3, CallPanics
<1> HIDE DEF called
<1>6. /\ HandleFallback(t, req).outcome = called.outcome
      /\ HandleFallback(t, req).handler = called.handler
  BY <1>4 DEF Answer
<1> QED
  BY <1>5, <1>6

LEMMA HandlePanics ==
    ASSUME NEW t \in Tables, NEW req, Received(req), Handle(t, req).outcome = "panicked"
    PROVE  \E type \in PathTypes(Handle(t, req).handler) : NestedPair(type)
<1>1. CASE Hits(t, req) # {}
  <2>1. PICK i : i = FirstHit(t, req) /\ i \in Hits(t, req)
    BY <1>1, FirstIsFirst DEF Tables
  <2>2. i \in DOMAIN t.routes
    BY <2>1 DEF Hits
  <2> DEFINE matched == Matched(t.routes[i], req)
             found   == HandlerFor(t.routes[i].methods, req.method)
             called  == Call(CHOOSE h \in found : TRUE, matched)
  <2>3. Handle(t, req) = IF found = {} THEN HandleFallback(t, matched)
                         ELSE Answer("route", i, called)
    BY <1>1, <2>1 DEF Handle, HandleRoute
  <2>4. matched.params \in Seq(ToSet(matched.params)) /\ matched.body \in Bodies
    BY <2>1, MatchedReceived
  <2>5. CASE found = {}
    <3> HIDE DEF matched
    <3> QED
      BY <2>3, <2>4, <2>5, FallbackPanics
  <2>6. CASE found # {}
    <3> DEFINE h == CHOOSE h \in found : TRUE
    <3>1. h.extract \in Seq(Extractor)
      <4>1. h \in found
        BY <2>6
      <4> QED
        BY <2>2, <4>1, RouteTyped
    <3> HIDE DEF h, matched
    <3>2. /\ Call(h, matched).handler = h
          /\ Call(h, matched).outcome = "panicked" =>
               \E type \in PathTypes(h) : NestedPair(type)
      BY <2>4, <3>1, CallPanics
    <3>3. called = Call(h, matched)
      BY DEF h
    <3> HIDE DEF called, found
    <3>4. /\ Handle(t, req).outcome = called.outcome
          /\ Handle(t, req).handler = called.handler
      BY <2>3, <2>6 DEF Answer
    <3> QED
      BY <3>2, <3>3, <3>4
  <2> QED
    BY <2>5, <2>6
<1>2. CASE /\ Hits(t, req) = {}
           /\ t.discovery /\ req.method = "GET" /\ RequestPath(req) = WellKnownCore
  <2>1. Handle(t, req) = HandleDiscovery(t, req)
    BY <1>2 DEF Handle
  <2>2. HandleDiscovery(t, req).outcome \in {"rejected", "ran"}
    BY DEF HandleDiscovery, Reply, Answer
  <2> QED
    BY <2>1, <2>2
<1>3. CASE /\ Hits(t, req) = {}
           /\ ~(t.discovery /\ req.method = "GET" /\ RequestPath(req) = WellKnownCore)
  <2>1. Handle(t, req) = HandleFallback(t, req)
    BY <1>3 DEF Handle
  <2>2. req.params \in Seq({}) /\ req.body \in Bodies
    BY DEF Received, Bodies
  <2> QED
    BY <2>1, <2>2, FallbackPanics
<1> QED
  BY <1>1, <1>2, <1>3

Answered ==
    answer # None => answer = Handle(table, request) /\ Received(request)

LEMMA AnsweredCorrect == Spec => [](TableTyped /\ Answered)
<1>1. Init => Answered
  BY DEF Init, Unasked, Answered
<1>2. TableTyped /\ Answered /\ [Next]_vars => Answered'
  <2> SUFFICES ASSUME TableTyped, Answered, [Next]_vars PROVE Answered'
    OBVIOUS
  <2>1. CASE AddRoute \/ (\E h \in Fallbacks : SetFallback(h))
               \/ (\E v \in BOOLEAN : EnableDiscovery(v))
    BY <2>1 DEF AddRoute, SetFallback, EnableDiscovery, Unasked, Answered
  <2>2. CASE \E req \in Requests : Serve(req)
    <3>1. PICK req \in Requests : Serve(req)
      BY <2>2
    <3>2. request' = req /\ table' = table /\ answer' = Handle(table, req)
      BY <3>1 DEF Serve
    <3>3. Received(req)
      BY RequestsAssumption
    <3>4. answer' = Handle(table', request') /\ Received(request')
      BY <3>2, <3>3
    <3> QED
      BY <3>4 DEF Answered
  <2>3. ASSUME NEW u, NEW m, Fetch(u, m), u.path \in Texts, u.query \in Texts
        PROVE  Answered'
    <3>1. answer' = Handle(table, request') /\ table' = table
          /\ request' = SentByClient(UrlRequest(u, m, "text"))
          /\ "error" \notin DOMAIN ParseCoapUrl(u)
      BY <2>3 DEF Fetch
    <3>2. Received(request')
      BY <2>3, <3>1, ClientRequest
    <3>3. answer' = Handle(table', request')
      BY <3>1
    <3> QED
      BY <3>2, <3>3 DEF Answered
  <2>4. CASE \E u \in Urls, m \in {"GET", "POST", "PUT", "DELETE"} : Fetch(u, m)
    BY <2>3, <2>4, UrlTyped
  <2>5. CASE \E u \in Urls : Discover(u)
    <3>1. PICK u \in Urls : Fetch(DiscoveryUrl(u), "GET")
      BY <2>5 DEF Discover
    <3>2. DiscoveryUrl(u).path \in Texts /\ DiscoveryUrl(u).query \in Texts
      BY DiscoveryUrlTyped
    <3> QED
      BY <2>3, <3>1, <3>2
  <2>6. CASE UNCHANGED vars
    BY <2>6 DEF vars, Answered
  <2> QED
    BY <2>1, <2>2, <2>4, <2>5, <2>6 DEF Next
<1> QED
  BY <1>1, <1>2, TableTypedCorrect, PTL DEF Spec

\* For every program, type of handler and request: the unreachable!() is
\* reached only by a sequence of pairs whose second element is a pair
\* (extract/path/de.rs:392-528).
THEOREM PanicOnlyOnNestedPairCorrect == Spec => []PanicOnlyOnNestedPair
<1>1. TableTyped /\ Answered => PanicOnlyOnNestedPair
  BY HandlePanics DEF TableTyped, Answered, PanicOnlyOnNestedPair
<1> QED
  BY <1>1, AnsweredCorrect, PTL

-----------------------------------------------------------------------------
(***************************************************************************)
(* Links and the filters of a discovery.                                   *)
(***************************************************************************)
LEMMA PrefixElements ==
    ASSUME NEW S, NEW s \in Seq(S), NEW t \in Seq(S)
    PROVE  IsPrefix(s, t) <=> Len(s) <= Len(t) /\ \A i \in 1 .. Len(s) : s[i] = t[i]
<1>1. Len(s) \in Nat /\ Len(t) \in Nat
  BY LenProperties
<1>2. SubSeq(s, 1, Len(s)) = s
  BY SubSeqFull
<1>3. CASE Len(s) <= Len(t)
  <2> DEFINE u == SubSeq(t, 1, Len(s))
  <2>1. 1 \in 1 .. Len(t) + 1 /\ Len(s) \in 0 .. Len(t)
    BY <1>1, <1>3
  <2>2. /\ u \in Seq(S) /\ Len(u) = IF 1 <= Len(s) THEN Len(s) - 1 + 1 ELSE 0
        /\ \A i \in 1 .. Len(s) - 1 + 1 : u[i] = t[1 + i - 1]
    BY <2>1, SubSeqTyped
  <2>3. Len(u) = Len(s) /\ \A i \in 1 .. Len(s) : u[i] = t[i]
    BY <1>1, <2>2
  <2>4. IsPrefix(s, t) <=> s = u
    BY <1>2, <1>3 DEF IsPrefix
  <2> HIDE DEF u
  <2>5. (\A i \in 1 .. Len(s) : s[i] = t[i]) => s = u
    BY <2>2, <2>3, SeqEqual
  <2>6. s = u => \A i \in 1 .. Len(s) : s[i] = t[i]
    BY <2>3
  <2> QED
    BY <1>3, <2>4, <2>5, <2>6
<1>4. CASE ~(Len(s) <= Len(t))
  BY <1>4 DEF IsPrefix
<1> QED
  BY <1>3, <1>4

LEMMA LinksTyped ==
    ASSUME NEW t \in Tables, NEW link \in ToSet(Links(t))
    PROVE  link.href \in Texts /\ link.attributes \in Seq(Attributes)
<1> DEFINE fixed == Those(t.routes, {r \in ToSet(t.routes) : ~HasParams(r.regex)})
           of(r) == [href       |-> <<"/">> \o TrimSlashes(r.pattern),
                     attributes |-> r.methods.attributes]
<1>1. fixed \in Seq(Routes)
  BY ThoseKept DEF Tables
<1>2. Links(t) = [i \in DOMAIN fixed |-> of(fixed[i])]
  BY DEF Links
<1> HIDE DEF fixed, of
<1>3. PICK i \in DOMAIN fixed : link = of(fixed[i])
  BY <1>2 DEF ToSet
<1>4. fixed[i] \in Routes
  BY <1>1, ElementOfSeq, LenProperties
<1>5. fixed[i].pattern \in Texts /\ fixed[i].methods.attributes \in Seq(Attributes)
  BY <1>4, ProgramsAssumption DEF Routes, NewRoute
<1>6. <<"/">> \o TrimSlashes(fixed[i].pattern) \in Texts
  <2>1. TrimSlashes(fixed[i].pattern) \in Seq(Char)
    BY <1>5, TrimTyped DEF Texts
  <2>2. <<"/">> \in Seq(Char)
    <3>1. "/" \in Char
      BY CharAssumption, Zenon
    <3> QED
      BY <3>1
  <2> QED
    BY <2>1, <2>2, ConcatProperties DEF Texts
<1> QED
  BY <1>3, <1>5, <1>6 DEF of

\* A shorter prefix with "*" keeps what a filter compares, and matches more.
LEMMA ShorterFilter ==
    ASSUME NEW query \in Texts, NEW n \in 0 .. Len(query),
           Contains(SubSeq(query, 1, n), "="), ~Contains(SubSeq(query, 1, n), "*")
    PROVE  LET wide == Append(SubSeq(query, 1, n), "*")
           IN  /\ SplitQuery(query).filtered /\ SplitQuery(wide).filtered
               /\ SplitQuery(wide).name = SplitQuery(query).name
               /\ \A v \in Texts : ValueMatches(v, SplitQuery(query).pattern) =>
                                   ValueMatches(v, SplitQuery(wide).pattern)
<1> DEFINE prefix == SubSeq(query, 1, n)
           wide   == Append(prefix, "*")
           at(q)  == {i \in DOMAIN q : q[i] = "="}
           m      == Len(query)
<1>1. m \in Nat /\ DOMAIN query = 1 .. m /\ query \in Seq(Char) /\ n \in Nat /\ n <= m
  <2>1. m \in Nat /\ DOMAIN query = 1 .. m /\ query \in Seq(Char)
    BY LenProperties DEF Texts
  <2> QED
    BY <2>1
<1>2. /\ prefix \in Seq(Char) /\ Len(prefix) = n
      /\ \A i \in 1 .. n : prefix[i] = query[i]
  <2>1. 1 \in 1 .. m + 1 /\ n \in 0 .. m
    BY <1>1
  <2>2. /\ prefix \in Seq(Char) /\ Len(prefix) = IF 1 <= n THEN n - 1 + 1 ELSE 0
        /\ \A i \in 1 .. n - 1 + 1 : prefix[i] = query[1 + i - 1]
    BY <1>1, <2>1, SubSeqTyped
  <2> HIDE DEF prefix
  <2> QED
    BY <1>1, <2>2
<1>m. Len(query) = m
  OBVIOUS
<1> HIDE DEF m
<1>3. PICK k \in 1 .. n : query[k] = "="
  BY <1>2 DEF Contains
<1>4. /\ wide \in Seq(Char) /\ Len(wide) = n + 1 /\ DOMAIN wide = 1 .. n + 1
      /\ \A i \in 1 .. n : wide[i] = query[i]
      /\ wide[n + 1] = "*"
  <2>1. "*" \in Char
    BY CharAssumption, Zenon
  <2> HIDE DEF prefix
  <2> QED
    BY <1>2, <2>1, AppendProperties, LenProperties
<1>5. \A i \in 1 .. n : query[i] # "*"
  BY <1>2 DEF Contains
<1> HIDE DEF prefix, wide
<1>6. at(query) \in SUBSET (1 .. m) /\ at(wide) \in SUBSET (1 .. n) /\ k \in at(query)
      /\ \A i \in 1 .. n : i \in at(wide) <=> i \in at(query)
  <2>1. n + 1 \notin at(wide)
    BY <1>4
  <2> QED
    BY <1>1, <1>3, <1>4, <2>1
<1>7. PICK e \in 1 .. n : e \in at(query) /\ e = Min(at(query)) /\ e = Min(at(wide))
  <2>1. PICK e \in at(query) : \A i \in at(query) : e <= i
    <3> HIDE DEF at
    <3>1. at(query) \in SUBSET Nat /\ at(query) # {}
      BY <1>6
    <3> QED
      BY <3>1, LeastNatural
  <2> HIDE DEF at
  <2>2. e \in 1 .. n
    BY <1>6, <2>1
  <2>3. e = Min(at(query))
    <3>1. at(query) \in SUBSET Nat
      BY <1>6
    <3> QED
      BY <2>1, <3>1, LeastIsMin
  <2>4. e = Min(at(wide))
    <3>1. at(wide) \in SUBSET Nat /\ e \in at(wide) /\ \A i \in at(wide) : e <= i
      BY <1>6, <2>1, <2>2
    <3> QED
      BY <3>1, LeastIsMin
  <2> QED
    BY <2>1, <2>2, <2>3, <2>4
<1>8. at(query) # {} /\ at(wide) # {}
  <2> HIDE DEF at
  <2> QED
    BY <1>6, <1>7
<1>9. /\ SplitQuery(query).filtered = TRUE
      /\ SplitQuery(query).name = SubSeq(query, 1, e - 1)
      /\ SplitQuery(query).pattern = SubSeq(query, e + 1, m)
      /\ SplitQuery(wide).filtered = TRUE
      /\ SplitQuery(wide).name = SubSeq(wide, 1, e - 1)
      /\ SplitQuery(wide).pattern = SubSeq(wide, e + 1, n + 1)
  BY <1>4, <1>m, <1>7, <1>8 DEF SplitQuery
<1> HIDE DEF at
<1>10. SubSeq(wide, 1, e - 1) = SubSeq(query, 1, e - 1)
  <2> DEFINE a == SubSeq(wide, 1, e - 1)
             b == SubSeq(query, 1, e - 1)
             l == e - 1
  <2>1. /\ 1 \in 1 .. Len(wide) + 1 /\ l \in 0 .. Len(wide)
        /\ 1 \in 1 .. Len(query) + 1 /\ l \in 0 .. Len(query)
    BY <1>1, <1>m, <1>4
  <2>2. l \in Nat /\ l <= n
    BY <1>1
  <2> HIDE DEF l
  <2>3. /\ SubSeq(wide, 1, l) \in Seq(Char)
        /\ Len(SubSeq(wide, 1, l)) = IF 1 <= l THEN l - 1 + 1 ELSE 0
        /\ \A i \in 1 .. l - 1 + 1 : SubSeq(wide, 1, l)[i] = wide[1 + i - 1]
    BY <1>4, <2>1, SubSeqTyped
  <2>4. /\ SubSeq(query, 1, l) \in Seq(Char)
        /\ Len(SubSeq(query, 1, l)) = IF 1 <= l THEN l - 1 + 1 ELSE 0
        /\ \A i \in 1 .. l - 1 + 1 : SubSeq(query, 1, l)[i] = query[1 + i - 1]
    BY <1>1, <2>1, SubSeqTyped
  <2>5. \A i \in 1 .. l : SubSeq(wide, 1, l)[i] = SubSeq(query, 1, l)[i]
    <3>1. \A i \in 1 .. l : i \in 1 .. n /\ i \in 1 .. l - 1 + 1 /\ 1 + i - 1 = i
      BY <2>2, <1>1
    <3> QED
      BY <1>4, <2>3, <2>4, <3>1
  <2>6. Len(SubSeq(wide, 1, l)) = l /\ Len(SubSeq(query, 1, l)) = l
    BY <2>2, <2>3, <2>4
  <2> QED
    BY <2>3, <2>4, <2>5, <2>6, SeqEqual DEF l
<1> DEFINE long == SubSeq(query, e + 1, m)
           wild == SubSeq(wide, e + 1, n + 1)
<1>11. /\ long \in Seq(Char) /\ Len(long) = m - e
       /\ \A i \in 1 .. m - e : long[i] = query[e + i]
  <2>1. e + 1 \in 1 .. m + 1 /\ m \in 0 .. m /\ e \in Nat /\ e <= m
    BY <1>1
  <2>2. /\ long \in Seq(Char) /\ Len(long) = IF e + 1 <= m THEN m - (e + 1) + 1 ELSE 0
        /\ \A i \in 1 .. m - (e + 1) + 1 : long[i] = query[e + 1 + i - 1]
    BY <1>1, <1>m, <2>1, SubSeqTyped
  <2>3. \A i \in 1 .. m - e : i \in 1 .. m - (e + 1) + 1 /\ e + 1 + i - 1 = e + i
    BY <1>1, <2>1
  <2>4. Len(long) = m - e
    BY <1>1, <2>1, <2>2
  <2> HIDE DEF long
  <2> QED
    BY <2>2, <2>3, <2>4
<1>12. /\ wild \in Seq(Char) /\ Len(wild) = n - e + 1
       /\ \A i \in 1 .. n - e : wild[i] = query[e + i]
       /\ wild[n - e + 1] = "*"
  <2>1. /\ e + 1 \in 1 .. Len(wide) + 1 /\ n + 1 \in 0 .. Len(wide)
        /\ e \in Nat /\ n \in Nat /\ e <= n
    BY <1>1, <1>4
  <2>2. /\ wild \in Seq(Char)
        /\ Len(wild) = IF e + 1 <= n + 1 THEN n + 1 - (e + 1) + 1 ELSE 0
        /\ \A i \in 1 .. n + 1 - (e + 1) + 1 : wild[i] = wide[e + 1 + i - 1]
    BY <1>4, <2>1, SubSeqTyped
  <2> HIDE DEF wild
  <2>3. Len(wild) = n - e + 1 /\ \A i \in 1 .. n - e + 1 : wild[i] = wide[e + i]
    BY <2>1, <2>2
  <2>4. \A i \in 1 .. n - e : e + i \in 1 .. n /\ i \in 1 .. n - e + 1
    BY <2>1
  <2>5. n - e + 1 \in 1 .. n - e + 1 /\ e + (n - e + 1) = n + 1
    BY <2>1
  <2> QED
    BY <1>4, <2>2, <2>3, <2>4, <2>5
<1> HIDE DEF long, wild
<1>13. /\ wild # <<>> /\ Last(wild) = "*"
       /\ Front(wild) \in Seq(Char) /\ Len(Front(wild)) = n - e
       /\ \A i \in 1 .. n - e : Front(wild)[i] = query[e + i]
  <2>1. wild # <<>>
    BY <1>1, <1>12, EmptySeq
  <2>2. Last(wild) = "*"
    BY <1>12 DEF Last
  <2>3. /\ Front(wild) \in Seq(Char) /\ Len(Front(wild)) = Len(wild) - 1
        /\ \A i \in 1 .. Len(wild) - 1 : Front(wild)[i] = wild[i]
    BY <1>12, <2>1, FrontLast
  <2>4. Len(wild) - 1 = n - e
    BY <1>1, <1>12
  <2> QED
    BY <1>12, <2>1, <2>2, <2>3, <2>4
<1>14. ASSUME NEW v \in Texts, ValueMatches(v, long) PROVE ValueMatches(v, wild)
  <2>1. v \in Seq(Char) /\ Len(v) \in Nat
    BY LenProperties DEF Texts
  <2>2. CASE long # <<>> /\ Last(long) = "*"
    <3>1. IsPrefix(Front(long), v)
      BY <1>14, <2>2 DEF ValueMatches
    <3>2. /\ Front(long) \in Seq(Char) /\ Len(Front(long)) = m - e - 1
          /\ \A i \in 1 .. m - e - 1 : Front(long)[i] = query[e + i]
      <4>1. /\ Front(long) \in Seq(Char) /\ Len(Front(long)) = Len(long) - 1
            /\ \A i \in 1 .. Len(long) - 1 : Front(long)[i] = long[i]
        BY <1>11, <2>2, FrontLast
      <4>2. \A i \in 1 .. m - e - 1 : i \in 1 .. m - e
        BY <1>1
      <4> QED
        BY <1>11, <4>1, <4>2
    <3>3. n < m
      <4>1. query[m] = "*" /\ m - e >= 1
        <5>1. m - e \in Nat \ {0}
          BY <1>11, <2>2, EmptySeq
        <5>2. long[m - e] = "*" /\ m - e \in 1 .. m - e /\ e + (m - e) = m
          BY <1>1, <1>11, <2>2, <5>1 DEF Last
        <5> QED
          BY <1>11, <5>1, <5>2
      <4>2. n # m
        BY <1>1, <1>5, <4>1
      <4> QED
        BY <1>1, <4>2
    <3>4. Len(Front(long)) <= Len(v)
          /\ \A i \in 1 .. m - e - 1 : query[e + i] = v[i]
      BY <2>1, <3>1, <3>2, PrefixElements
    <3>5. n - e <= Len(v) /\ \A i \in 1 .. n - e : i \in 1 .. m - e - 1
      BY <1>1, <2>1, <3>2, <3>3, <3>4
    <3>6. \A i \in 1 .. n - e : Front(wild)[i] = v[i]
      BY <1>13, <3>4, <3>5
    <3>7. IsPrefix(Front(wild), v)
      BY <1>13, <2>1, <3>5, <3>6, PrefixElements
    <3> QED
      BY <1>13, <3>7 DEF ValueMatches
  <2>3. CASE ~(long # <<>> /\ Last(long) = "*")
    <3>1. v = long
      BY <1>14, <2>3 DEF ValueMatches
    <3>2. n - e <= Len(v) /\ \A i \in 1 .. n - e : i \in 1 .. m - e
      BY <1>1, <1>11, <3>1
    <3>3. \A i \in 1 .. n - e : Front(wild)[i] = v[i]
      BY <1>11, <1>13, <3>1, <3>2
    <3>4. IsPrefix(Front(wild), v)
      BY <1>13, <2>1, <3>2, <3>3, PrefixElements
    <3> QED
      BY <1>13, <3>4 DEF ValueMatches
  <2> QED
    BY <2>2, <2>3
<1>15. /\ SplitQuery(query).filtered /\ SplitQuery(wide).filtered
       /\ SplitQuery(wide).name = SplitQuery(query).name
       /\ SplitQuery(query).pattern = long /\ SplitQuery(wide).pattern = wild
  BY <1>9, <1>10 DEF long, wild
<1> QED
  BY <1>14, <1>15 DEF wide, prefix

LEMMA WiderMatches ==
    ASSUME NEW link, link.href \in Texts, link.attributes \in Seq(Attributes),
           NEW query, NEW wide,
           SplitQuery(query).filtered, SplitQuery(wide).filtered,
           SplitQuery(wide).name = SplitQuery(query).name,
           \A v \in Texts : ValueMatches(v, SplitQuery(query).pattern) =>
                            ValueMatches(v, SplitQuery(wide).pattern),
           MatchesQuery(link, query)
    PROVE  MatchesQuery(link, wide)
<1> DEFINE name == SplitQuery(query).name
           matches(v, q) == ValueMatches(v, SplitQuery(q).pattern)
<1>1. \A v \in Texts : matches(v, query) => matches(v, wide)
  OBVIOUS
<1>2. CASE name = <<"h", "r", "e", "f">>
  BY <1>2 DEF MatchesQuery
<1>3. CASE name # <<"h", "r", "e", "f">>
  <2>1. PICK a \in ToSet(link.attributes) :
           /\ a.given /\ a.key = name
           /\ \E v \in {a.value} \cup Words(a.value) : matches(v, query)
    BY <1>3 DEF MatchesQuery
  <2>2. a \in Attributes
    BY ElementOfSeq, LenProperties DEF ToSet
  <2>3. a.value \in Texts
    BY <2>1, <2>2 DEF Attributes
  <2>4. Words(a.value) \subseteq Texts
    <3>1. Split(a.value, " ") \in Seq(Texts)
      BY <2>3, SplitTyped, Zenon DEF Texts
    <3> QED
      <4> DEFINE words == Split(a.value, " ")
      <4>1. words \in Seq(Texts)
        BY <3>1, Zenon
      <4> HIDE DEF words
      <4>2. \A i \in DOMAIN words : words[i] \in Texts
        BY <4>1, ElementOfSeq, LenProperties
      <4>3. ToSet(words) \subseteq Texts
        BY <4>2 DEF ToSet
      <4> QED
        BY <4>3, Zenon DEF Words, words
  <2>5. \E v \in {a.value} \cup Words(a.value) : matches(v, wide)
    <3> HIDE DEF matches
    <3> QED
      BY <1>1, <2>1, <2>3, <2>4
  <2> QED
    BY <1>3, <2>1, <2>5 DEF MatchesQuery
<1> QED
  BY <1>2, <1>3

LEMMA RemovedIsPart ==
    ASSUME NEW S, NEW s \in Seq(S), NEW i \in 1 .. Len(s), NEW j \in DOMAIN RemoveAt(s, i)
    PROVE  \E k \in DOMAIN s : RemoveAt(s, i)[j] = s[k]
<1> DEFINE n == Len(s)
           before == SubSeq(s, 1, i - 1)
           after  == SubSeq(s, i + 1, n)
<1>1. n \in Nat /\ DOMAIN s = 1 .. n /\ i \in Nat /\ i >= 1 /\ i <= n
  BY LenProperties
<1>2. /\ before \in Seq(S) /\ Len(before) = i - 1
      /\ \A k \in 1 .. i - 1 : before[k] = s[k]
  <2>1. 1 \in 1 .. n + 1 /\ i - 1 \in 0 .. n
    BY <1>1
  <2>2. /\ before \in Seq(S) /\ Len(before) = IF 1 <= i - 1 THEN i - 1 - 1 + 1 ELSE 0
        /\ \A k \in 1 .. i - 1 - 1 + 1 : before[k] = s[1 + k - 1]
    BY <2>1, SubSeqTyped
  <2> HIDE DEF before
  <2> QED
    BY <1>1, <2>2
<1>3. /\ after \in Seq(S) /\ Len(after) = n - i
      /\ \A k \in 1 .. n - i : after[k] = s[i + k]
  <2>1. i + 1 \in 1 .. n + 1 /\ n \in 0 .. n
    BY <1>1
  <2>2. /\ after \in Seq(S) /\ Len(after) = IF i + 1 <= n THEN n - (i + 1) + 1 ELSE 0
        /\ \A k \in 1 .. n - (i + 1) + 1 : after[k] = s[i + 1 + k - 1]
    BY <2>1, SubSeqTyped
  <2>3. \A k \in 1 .. n - i : k \in 1 .. n - (i + 1) + 1 /\ i + 1 + k - 1 = i + k
    BY <1>1
  <2>4. Len(after) = n - i
    <3>1. i + 1 <= n => n - (i + 1) + 1 = n - i
      BY <1>1
    <3>2. ~(i + 1 <= n) => n - i = 0
      <4> PICK N : N = n
        OBVIOUS
      <4>1. i \in Nat /\ N \in Nat /\ i <= N
        BY <1>1
      <4>2. ~(i + 1 <= N) => N - i = 0
        BY ONLY <4>1
      <4> QED
        BY <4>2
    <3> HIDE DEF after
    <3> QED
      BY <2>2, <3>1, <3>2
  <2> HIDE DEF after
  <2> QED
    BY <2>2, <2>3, <2>4
<1>4. RemoveAt(s, i) = before \o after
  BY DEF RemoveAt
<1> HIDE DEF before, after
<1>5. /\ DOMAIN RemoveAt(s, i) = 1 .. (i - 1) + (n - i)
      /\ \A k \in 1 .. (i - 1) + (n - i) :
           RemoveAt(s, i)[k] = IF k <= i - 1 THEN before[k] ELSE after[k - (i - 1)]
  <2>1. before \o after \in Seq(S) /\ Len(before \o after) = Len(before) + Len(after)
        /\ \A k \in 1 .. Len(before) + Len(after) :
             (before \o after)[k] = IF k <= Len(before) THEN before[k]
                                    ELSE after[k - Len(before)]
    BY <1>2, <1>3, ConcatProperties
  <2>2. DOMAIN (before \o after) = 1 .. Len(before \o after)
    BY <2>1, LenProperties
  <2> QED
    BY <1>2, <1>3, <1>4, <2>1, <2>2
<1>6. CASE j <= i - 1
  <2>1. j \in 1 .. i - 1 /\ j \in 1 .. n
    BY <1>1, <1>5, <1>6
  <2> QED
    BY <1>1, <1>2, <1>5, <1>6, <2>1
<1>7. CASE ~(j <= i - 1)
  <2>1. j - (i - 1) \in 1 .. n - i /\ i + (j - (i - 1)) \in 1 .. n
    BY <1>1, <1>5, <1>7
  <2> QED
    BY <1>1, <1>3, <1>5, <1>7, <2>1
<1> QED
  BY <1>6, <1>7

\* For every table and every request: a discovery with a query less, or with
\* one cut short and ended in "*", lists whatever it listed before
\* (discovery.rs:73-92).
THEOREM WiderFilterShowsMoreCorrect == Spec => []WiderFilterShowsMore
<1> DEFINE links(queries) ==
             {l \in ToSet(Links(table)) :
                \A j \in DOMAIN queries : MatchesQuery(l, queries[j])}
           prefix(i, n) == SubSeq(request.queries[i], 1, n)
           wide(i, n)   == Append(prefix(i, n), "*")
<1>1. ASSUME TableTyped, Answered, answer # None,
             NEW i \in DOMAIN request.queries, NEW n \in 0 .. Len(request.queries[i])
      PROVE  /\ links(request.queries) \subseteq links(RemoveAt(request.queries, i))
             /\ (Contains(prefix(i, n), "=") /\ ~Contains(prefix(i, n), "*")) =>
                  links(request.queries) \subseteq
                    links(ReplaceAt(request.queries, i, wide(i, n)))
  <2>1. request.queries \in Seq(Texts)
    BY <1>1 DEF Answered, Received
  <2>2. i \in 1 .. Len(request.queries) /\ request.queries[i] \in Texts
    BY <2>1, LenProperties, ElementOfSeq
  <2>3. links(request.queries) \subseteq links(RemoveAt(request.queries, i))
    <3>1. \A j \in DOMAIN RemoveAt(request.queries, i) :
             \E k \in DOMAIN request.queries :
               RemoveAt(request.queries, i)[j] = request.queries[k]
      BY <2>1, <2>2, RemovedIsPart
    <3> QED
      BY <3>1
  <2>4. ASSUME Contains(prefix(i, n), "="), ~Contains(prefix(i, n), "*")
        PROVE  links(request.queries) \subseteq
                 links(ReplaceAt(request.queries, i, wide(i, n)))
    <3> DEFINE query == request.queries[i]
    <3>1. /\ SplitQuery(query).filtered /\ SplitQuery(wide(i, n)).filtered
          /\ SplitQuery(wide(i, n)).name = SplitQuery(query).name
          /\ \A v \in Texts : ValueMatches(v, SplitQuery(query).pattern) =>
                              ValueMatches(v, SplitQuery(wide(i, n)).pattern)
      BY <2>2, <2>4, ShorterFilter
    <3> HIDE DEF wide, query
    <3>2. ASSUME NEW l \in links(request.queries), NEW j \in DOMAIN request.queries
          PROVE  MatchesQuery(l, IF j = i THEN wide(i, n) ELSE request.queries[j])
      <4>1. l \in ToSet(Links(table)) /\ MatchesQuery(l, request.queries[j])
        BY <3>2
      <4>2. l.href \in Texts /\ l.attributes \in Seq(Attributes)
        BY <1>1, <4>1, LinksTyped DEF TableTyped
      <4>3. j = i => MatchesQuery(l, query)
        BY <4>1 DEF query
      <4>4. j = i => MatchesQuery(l, wide(i, n))
        <5> SUFFICES ASSUME j = i PROVE MatchesQuery(l, wide(i, n))
          OBVIOUS
        <5>1. MatchesQuery(l, query)
          BY <4>3
        <5> QED
          BY ONLY <3>1, <4>2, <5>1, WiderMatches
      <4> QED
        BY <4>1, <4>4
    <3>3. /\ DOMAIN ReplaceAt(request.queries, i, wide(i, n)) = DOMAIN request.queries
          /\ \A j \in DOMAIN request.queries :
               ReplaceAt(request.queries, i, wide(i, n))[j] =
                 IF j = i THEN wide(i, n) ELSE request.queries[j]
      BY DEF ReplaceAt
    <3> QED
      BY <3>2, <3>3
  <2> QED
    BY <2>3, <2>4
<1>2. TableTyped /\ Answered => WiderFilterShowsMore
  <2> HIDE DEF links
  <2> SUFFICES ASSUME TableTyped, Answered, answer # None,
                      NEW i \in DOMAIN request.queries,
                      NEW n \in 0 .. Len(request.queries[i]),
                      NEW w \in {RemoveAt(request.queries, i)} \cup
                        {ReplaceAt(request.queries, i, wide(i, n)) :
                           x \in {0} \cap {IF Contains(prefix(i, n), "=")
                                              /\ ~Contains(prefix(i, n), "*")
                                           THEN 0 ELSE 1}}
               PROVE  links(request.queries) \subseteq links(w)
    BY DEF WiderFilterShowsMore, links
  <2>1. \/ w = RemoveAt(request.queries, i)
        \/ /\ w = ReplaceAt(request.queries, i, wide(i, n))
           /\ Contains(prefix(i, n), "=") /\ ~Contains(prefix(i, n), "*")
    <3> HIDE DEF wide, prefix
    <3> QED
      OBVIOUS
  <2> QED
    BY <1>1, <2>1
<1> QED
  BY <1>2, AnsweredCorrect, PTL

-----------------------------------------------------------------------------
(***************************************************************************)
(* What a client reads of the links the router writes.                     *)
(***************************************************************************)
LEMMA ConcatElements ==
    ASSUME NEW S, NEW a \in Seq(S), NEW b \in Seq(S)
    PROVE  ToSet(a \o b) = ToSet(a) \cup ToSet(b)
<1> DEFINE c == a \o b
<1>1. /\ c \in Seq(S) /\ Len(c) = Len(a) + Len(b)
      /\ \A i \in 1 .. Len(a) + Len(b) :
           c[i] = IF i <= Len(a) THEN a[i] ELSE b[i - Len(a)]
  BY ConcatProperties
<1>2. /\ DOMAIN a = 1 .. Len(a) /\ DOMAIN b = 1 .. Len(b)
      /\ Len(a) \in Nat /\ Len(b) \in Nat
  BY LenProperties
<1>3. DOMAIN c = 1 .. Len(a) + Len(b)
  BY <1>1, LenProperties
<1> HIDE DEF c
<1>4. \A i \in DOMAIN a : i \in DOMAIN c /\ c[i] = a[i]
  <2> SUFFICES ASSUME NEW i \in 1 .. Len(a) PROVE i \in DOMAIN c /\ c[i] = a[i]
    BY <1>2
  <2>1. i \in 1 .. Len(a) + Len(b) /\ i <= Len(a)
    BY <1>2
  <2> QED
    BY <1>1, <1>3, <2>1
<1>5. \A i \in DOMAIN b : Len(a) + i \in DOMAIN c /\ c[Len(a) + i] = b[i]
  <2> SUFFICES ASSUME NEW i \in 1 .. Len(b)
               PROVE  Len(a) + i \in DOMAIN c /\ c[Len(a) + i] = b[i]
    BY <1>2
  <2>1. /\ Len(a) + i \in 1 .. Len(a) + Len(b) /\ ~(Len(a) + i <= Len(a))
        /\ Len(a) + i - Len(a) = i
    BY <1>2
  <2> QED
    BY <1>1, <1>3, <2>1
<1>6. \A i \in DOMAIN c : (\E j \in DOMAIN a : c[i] = a[j]) \/ (\E j \in DOMAIN b : c[i] = b[j])
  <2> SUFFICES ASSUME NEW i \in 1 .. Len(a) + Len(b)
               PROVE  (\E j \in DOMAIN a : c[i] = a[j]) \/ (\E j \in DOMAIN b : c[i] = b[j])
    BY <1>3
  <2>1. CASE i <= Len(a)
    <3>1. i \in 1 .. Len(a)
      BY <1>2, <2>1
    <3> QED
      BY <1>1, <1>2, <2>1, <3>1
  <2>2. CASE ~(i <= Len(a))
    <3>1. i - Len(a) \in 1 .. Len(b)
      BY <1>2, <2>2
    <3> QED
      BY <1>1, <1>2, <2>2, <3>1
  <2> QED
    BY <2>1, <2>2
<1>7. ToSet(c) = ToSet(a) \cup ToSet(b)
  BY <1>4, <1>5, <1>6 DEF ToSet
<1> QED
  BY <1>7 DEF c

WrittenAttributes == [key : Texts, form : {"flag", "bare", "quoted"}, value : Texts]

\* An attribute with a value as it is written, and what is read of one.
SentValue(a) == IF a.value = <<>> THEN [key |-> a.key, form |-> "quoted", value |-> <<>>]
                ELSE WriteAttr(a.key, a.value)

SentFlag(a) == [key |-> a.key, form |-> "flag", value |-> <<>>]

ReadAttr(w) == IF w.form = "quoted" \/ w.value # <<>> THEN Attribute(w.key, w.value)
               ELSE Flag(w.key)

LEMMA AttributeRead ==
    ASSUME NEW a \in Attributes
    PROVE  /\ a.given => SentValue(a) \in WrittenAttributes /\ ReadAttr(SentValue(a)) = a
           /\ ~a.given => SentFlag(a) \in WrittenAttributes /\ ReadAttr(SentFlag(a)) = a
<1>1. <<>> \in Texts
  BY EmptySeq DEF Texts
<1>2. CASE a \in [key : Texts, given : {TRUE}, value : Texts]
  <2>1. a.key \in Texts /\ a.value \in Texts /\ a.given = TRUE
    BY <1>2
  <2>2. a = [key |-> a.key, given |-> TRUE, value |-> a.value]
    BY <1>2
  <2>3. SentValue(a) \in WrittenAttributes
    BY <1>1, <2>1 DEF SentValue, WriteAttr, WrittenAttributes
  <2>4. ReadAttr(SentValue(a)) = Attribute(a.key, a.value)
    BY Zenon DEF SentValue, WriteAttr, ReadAttr
  <2> QED
    BY <2>1, <2>2, <2>3, <2>4 DEF Attribute
<1>3. CASE a \in [key : Texts, given : {FALSE}, value : {<<>>}]
  <2>1. a.key \in Texts /\ a.given = FALSE
    BY <1>3
  <2>2. a = [key |-> a.key, given |-> FALSE, value |-> <<>>]
    BY <1>3
  <2>3. SentFlag(a) \in WrittenAttributes
    BY <1>1, <2>1 DEF SentFlag, WrittenAttributes
  <2>4. ReadAttr(SentFlag(a)) = Flag(a.key)
    BY DEF SentFlag, ReadAttr
  <2> QED
    BY <2>1, <2>2, <2>3, <2>4 DEF Flag
<1> QED
  BY <1>2, <1>3 DEF Attributes

LEMMA LinkRead ==
    ASSUME NEW link, link.href \in Texts, link.attributes \in Seq(Attributes)
    PROVE  /\ WriteLink(link) \in Written
           /\ ParseLink(WriteLink(link)).href = link.href
           /\ ToSet(ParseLink(WriteLink(link)).attributes) = ToSet(link.attributes)
<1> DEFINE attributes == ToSet(link.attributes)
           valued == Valued(link.attributes)
           flags  == Flags(link.attributes)
           sentValues == [i \in DOMAIN valued |-> SentValue(valued[i])]
           sentFlags  == [i \in DOMAIN flags |-> SentFlag(flags[i])]
           sent == sentValues \o sentFlags
<1>1. /\ valued \in Seq(Attributes) /\ ToSet(valued) = {a \in attributes : a.given}
      /\ flags \in Seq(Attributes) /\ ToSet(flags) = {a \in attributes : ~a.given}
  BY ThoseKept DEF Valued, Flags
<1>2. WriteLink(link) = [href |-> link.href, attributes |-> sent]
  BY DEF WriteLink, SentValue, SentFlag
<1> HIDE DEF valued, flags
<1>3. /\ DOMAIN valued = 1 .. Len(valued) /\ Len(valued) \in Nat
      /\ DOMAIN flags = 1 .. Len(flags) /\ Len(flags) \in Nat
      /\ \A i \in DOMAIN valued : valued[i] \in Attributes
      /\ \A i \in DOMAIN flags : flags[i] \in Attributes
  BY <1>1, LenProperties, ElementOfSeq
<1>4. /\ \A i \in DOMAIN valued : valued[i].given /\ valued[i] \in attributes
      /\ \A i \in DOMAIN flags : ~flags[i].given /\ flags[i] \in attributes
  BY <1>1 DEF ToSet
<1>5. /\ \A i \in DOMAIN valued : /\ sentValues[i] \in WrittenAttributes
                                  /\ ReadAttr(sentValues[i]) = valued[i]
      /\ \A i \in DOMAIN flags : /\ sentFlags[i] \in WrittenAttributes
                                 /\ ReadAttr(sentFlags[i]) = flags[i]
  BY <1>3, <1>4, AttributeRead
<1>6. sentValues \in Seq(WrittenAttributes) /\ sentFlags \in Seq(WrittenAttributes)
  <2>1. /\ sentValues \in [1 .. Len(valued) -> WrittenAttributes]
        /\ sentFlags \in [1 .. Len(flags) -> WrittenAttributes]
    BY <1>3, <1>5
  <2> HIDE DEF sentValues, sentFlags
  <2> QED
    BY <1>3, <2>1
<1>7. DOMAIN sentValues = DOMAIN valued /\ DOMAIN sentFlags = DOMAIN flags
  OBVIOUS
<1> HIDE DEF sentValues, sentFlags
<1>8. sent \in Seq(WrittenAttributes)
  BY <1>6, ConcatProperties
<1>9. ToSet(sent) = ToSet(sentValues) \cup ToSet(sentFlags)
  BY <1>6, ConcatElements
<1> HIDE DEF sent
<1>10. WriteLink(link) \in Written
  BY <1>2, <1>8 DEF Written, WrittenAttributes
<1>11. /\ ParseLink(WriteLink(link)).href = link.href
       /\ ParseLink(WriteLink(link)).attributes = [i \in DOMAIN sent |-> ReadAttr(sent[i])]
  BY <1>2 DEF ParseLink, ReadAttr
<1> DEFINE read == [i \in DOMAIN sent |-> ReadAttr(sent[i])]
<1>12. ToSet(read) = {ReadAttr(sent[i]) : i \in DOMAIN sent}
  BY DEF ToSet
<1>13. ToSet(read) \subseteq attributes
  <2> SUFFICES ASSUME NEW i \in DOMAIN sent PROVE ReadAttr(sent[i]) \in attributes
    BY <1>12
  <2> QED
    <3>1. sent[i] \in ToSet(sentValues) \/ sent[i] \in ToSet(sentFlags)
      BY <1>9 DEF ToSet
    <3>2. \/ \E j \in DOMAIN valued : sent[i] = sentValues[j]
          \/ \E j \in DOMAIN flags : sent[i] = sentFlags[j]
      BY <1>7, <3>1 DEF ToSet
    <3> HIDE DEF attributes
    <3> QED
      BY <1>4, <1>5, <3>2
<1>14. attributes \subseteq ToSet(read)
  <2> SUFFICES ASSUME NEW a \in attributes PROVE \E i \in DOMAIN sent : a = ReadAttr(sent[i])
    BY <1>12
  <2>1. a \in ToSet(valued) \/ a \in ToSet(flags)
    <3> HIDE DEF attributes
    <3> QED
      BY <1>1
  <2>2. CASE a \in ToSet(valued)
    <3>1. PICK i \in DOMAIN valued : a = valued[i]
      BY <2>2 DEF ToSet
    <3>2. sentValues[i] \in ToSet(sent)
      BY <1>7, <1>9 DEF ToSet
    <3>3. PICK j \in DOMAIN sent : sent[j] = sentValues[i]
      BY <3>2 DEF ToSet
    <3> QED
      BY <1>5, <3>1, <3>3
  <2>3. CASE a \in ToSet(flags)
    <3>1. PICK i \in DOMAIN flags : a = flags[i]
      BY <2>3 DEF ToSet
    <3>2. sentFlags[i] \in ToSet(sent)
      BY <1>7, <1>9 DEF ToSet
    <3>3. PICK j \in DOMAIN sent : sent[j] = sentFlags[i]
      BY <3>2 DEF ToSet
    <3> QED
      BY <1>5, <3>1, <3>3
  <2> QED
    BY <2>1, <2>2, <2>3
<1> QED
  BY <1>10, <1>11, <1>13, <1>14

\* Only a discovery answers as one.
LEMMA AnsweredBy ==
    ASSUME NEW t, NEW req
    PROVE  /\ Handle(t, req).by = "discovery" => Handle(t, req) = HandleDiscovery(t, req)
           /\ Handle(t, req).by = "route" =>
                /\ Hits(t, req) # {}
                /\ Handle(t, req).route = FirstHit(t, req)
<1>1. \A by, route, called : /\ Answer(by, route, called).by = by
                             /\ Answer(by, route, called).route = route
  BY DEF Answer
<1>2. \A q : HandleFallback(t, q).by = "fallback"
  BY <1>1, Zenon DEF HandleFallback, Reply
<1>3. HandleDiscovery(t, req).by = "discovery"
  BY <1>1, Zenon DEF HandleDiscovery, Reply
<1>4. \A i : \/ HandleRoute(t, i, req).by = "fallback"
             \/ HandleRoute(t, i, req).by = "route" /\ HandleRoute(t, i, req).route = i
  BY <1>1, <1>2 DEF HandleRoute
<1>5. CASE Hits(t, req) # {}
  <2>1. Handle(t, req) = HandleRoute(t, FirstHit(t, req), req)
    BY <1>5 DEF Handle
  <2> QED
    BY <1>4, <1>5, <2>1
<1>6. CASE Hits(t, req) = {}
  <2>1. Handle(t, req) \in {HandleDiscovery(t, req), HandleFallback(t, req)}
    BY <1>6 DEF Handle
  <2> QED
    BY <1>2, <1>3, <2>1
<1> QED
  BY <1>5, <1>6

\* For every table and every request: what a client reads from the answer to a
\* discovery are the links that match, with all their attributes (discovery.rs:
\* 96-145, client.rs:1181).
THEOREM DiscoveryReachesClientCorrect == Spec => []DiscoveryReachesClient
<1> DEFINE passes(link) == \A i \in DOMAIN request.queries :
                             MatchesQuery(link, request.queries[i])
           readable(link) == [href |-> link.href, attributes |-> ToSet(link.attributes)]
           kept  == {link \in ToSet(Links(table)) : passes(link)}
           links == Those(Links(table), kept)
           written == WriteLinkFormat(links)
           payload == [kind |-> "links", text |-> "", links |-> written]
           parsed == ParseDiscoveryResponse(answer.response)
<1>1. ASSUME TableTyped, Answered, answer # None, answer.by = "discovery",
             answer.outcome = "ran", answer.response # None
      PROVE  /\ "links" \in DOMAIN parsed
             /\ {readable(l) : l \in ToSet(parsed.links)} = {readable(l) : l \in kept}
  <2>1. answer = HandleDiscovery(table, request)
    BY <1>1, AnsweredBy DEF Answered
  <2>2. /\ QueriesRead(request)
        /\ answer.response = FillResponse(request, [status |-> "Content",
             formats |-> <<"link-format">>, payload |-> payload])
    BY <1>1, <2>1, Zenon DEF HandleDiscovery, Reply, Answer
  <2>3. Links(table) \in Seq(ToSet(Links(table)))
    <3> DEFINE fixed == Those(table.routes,
                              {r \in ToSet(table.routes) : ~HasParams(r.regex)})
    <3>1. fixed \in Seq(Routes)
      BY <1>1, ThoseKept DEF TableTyped, Tables
    <3>2. DOMAIN Links(table) = DOMAIN fixed
      BY DEF Links
    <3> HIDE DEF fixed
    <3>3. DOMAIN Links(table) = 1 .. Len(fixed) /\ Len(fixed) \in Nat
      BY <3>1, <3>2, LenProperties
    <3>4. Links(table) \in [1 .. Len(fixed) -> ToSet(Links(table))]
      <4>1. Links(table) = [i \in DOMAIN Links(table) |-> Links(table)[i]]
        BY DEF Links
      <4> QED
        BY <3>3, <4>1 DEF ToSet
    <3> QED
      BY <3>3, <3>4
  <2>4. links \in Seq(ToSet(Links(table))) /\ ToSet(links) = kept
    <3> HIDE DEF passes
    <3>1. kept \subseteq ToSet(Links(table))
      OBVIOUS
    <3> HIDE DEF kept
    <3>2. PICK s, S : s = Links(table) /\ S = ToSet(Links(table))
      OBVIOUS
    <3>3. s \in Seq(S) /\ kept \subseteq S
      BY <2>3, <3>1, <3>2
    <3>4. Those(s, kept) \in Seq(S) /\ ToSet(Those(s, kept)) = ToSet(s) \cap kept
      BY ONLY <3>3, ThoseKept
    <3> QED
      BY <3>2, <3>3, <3>4
  <2> HIDE DEF links, kept, passes
  <2>5. DOMAIN links = 1 .. Len(links) /\ Len(links) \in Nat
    BY <2>4, LenProperties
  <2>6. ASSUME NEW i \in DOMAIN links
        PROVE  /\ WriteLink(links[i]) \in Written
               /\ readable(ParseLink(WriteLink(links[i]))) = readable(links[i])
    <3>1. links[i] \in ToSet(Links(table))
      BY <2>4, <2>5, ElementOfSeq
    <3>2. links[i].href \in Texts /\ links[i].attributes \in Seq(Attributes)
      BY <1>1, <3>1, LinksTyped DEF TableTyped
    <3> QED
      BY <3>2, LinkRead
  <2>7. written = [i \in DOMAIN links |-> WriteLink(links[i])]
    BY DEF WriteLinkFormat
  <2>8. payload # None
    <3>1. written \in [1 .. Len(links) -> Written]
      BY <2>5, <2>6, <2>7
    <3>2. written \in Seq(Written)
      BY <2>5, <3>1
    <3> HIDE DEF written
    <3>3. payload \in [kind : {"links"}, text : {""}, links : Seq(Written)]
      BY <3>2
    <3> QED
      BY <3>3, NoneAssumption, Zenon
  <2> HIDE DEF written, payload
  <2>9. answer.response = [status |-> "Content", payload |-> payload,
                           formats |-> <<"link-format">>]
    BY <1>1, <2>2, <2>8 DEF FillResponse
  <2>10. parsed = [links |-> ParseLinkFormat(written)]
    <3>1. /\ answer.response.status = "Content" /\ answer.response.payload = payload
          /\ answer.response.formats = <<"link-format">>
      BY <2>9
    <3>2. Head(<<"link-format">>) = "link-format" /\ <<"link-format">> # <<>>
      OBVIOUS
    <3>3. payload.kind = "links" /\ payload.links = written
      BY DEF payload
    <3> QED
      BY <3>1, <3>2, <3>3 DEF ParseDiscoveryResponse
  <2>11. ParseLinkFormat(written) = [i \in DOMAIN links |-> ParseLink(WriteLink(links[i]))]
    BY <2>7 DEF ParseLinkFormat
  <2>12. {readable(l) : l \in ToSet(parsed.links)}
           = {readable(ParseLink(WriteLink(links[i]))) : i \in DOMAIN links}
    BY <2>10, <2>11 DEF ToSet
  <2>13. {readable(l) : l \in kept} = {readable(links[i]) : i \in DOMAIN links}
    <3>1. {readable(l) : l \in ToSet(links)} = {readable(links[i]) : i \in DOMAIN links}
      BY DEF ToSet
    <3> QED
      BY <2>4, <3>1
  <2> HIDE DEF readable
  <2> QED
    BY <2>6, <2>10, <2>12, <2>13
<1>2. TableTyped /\ Answered => DiscoveryReachesClient
  <2> HIDE DEF parsed
  <2> QED
    BY <1>1 DEF DiscoveryReachesClient, parsed
<1> QED
  BY <1>2, AnsweredCorrect, PTL

-----------------------------------------------------------------------------
(***************************************************************************)
(* A struct and a tuple of the same primitive types.                       *)
(***************************************************************************)
PrimOf(prim) == [kind |-> "prim", prim |-> prim, wraps |-> <<>>]

\* The parameters as a tuple and as a struct in some order of the fields.
AsTuple(params, prims) ==
    Deserialize([kind |-> "tuple_struct", wraps |-> <<>>,
                 of |-> [i \in DOMAIN params |-> PrimOf(prims[i])]], params)

AsStruct(params, prims, order) ==
    Deserialize([kind |-> "struct", wraps |-> <<>>,
                 fields |-> [f \in DOMAIN params |->
                   [name |-> params[order[f]].name, type |-> PrimOf(prims[order[f]])]]],
                params)

\* What stands in the places of the parameters, in a sequence and in a map.
ByIdx(params, prims) ==
    [i \in DOMAIN params |->
       ParseValue(prims[i], params[i].value, AtIdx(i - 1, params[i].name))]

ByKey(params, prims) ==
    [i \in DOMAIN params |-> ParseValue(prims[i], params[i].value, AtKey(params[i].name))]

\* The names are different, and the fields are the parameters in some order.
Ordered(params, order) ==
    /\ \A i, j \in DOMAIN params : params[i].name = params[j].name => i = j
    /\ order \in [DOMAIN params -> DOMAIN params]
    /\ \A f, g \in DOMAIN params : order[f] = order[g] => f = g
    /\ \A i \in DOMAIN params : \E f \in DOMAIN params : order[f] = i

Agree(params, prims, order) ==
    LET tuple  == AsTuple(params, prims)
        struct == AsStruct(params, prims, order)
    IN  /\ struct.tag = tuple.tag
        /\ tuple.tag = "ok" =>
             \A f \in DOMAIN params : struct.value.node[f] = tuple.value.node[order[f]]
        /\ tuple.tag = "error" => struct.at.name = tuple.at.name

LEMMA CollectAll ==
    ASSUME NEW results, \A i \in DOMAIN results : results[i].tag = "ok"
    PROVE  /\ Collect(results).tag = "ok"
           /\ \A i \in DOMAIN results : Collect(results).value.node[i] = results[i].value
<1>1. {i \in DOMAIN results : results[i].tag # "ok"} = {}
  OBVIOUS
<1>2. Collect(results) = Node([i \in DOMAIN results |-> results[i].value])
  BY <1>1 DEF Collect
<1> QED
  BY <1>2 DEF Node

LEMMA ValueOfPrim ==
    ASSUME NEW prim, NEW text, NEW at
    PROVE  DeserializeValue(PrimOf(prim), text, at) = ParseValue(prim, text, at)
<1>1. PrimOf(prim).kind = "prim" /\ PrimOf(prim).prim = prim
  BY DEF PrimOf
<1>2. ~IsPair(PrimOf(prim))
  BY <1>1 DEF IsPair
<1> QED
  BY <1>1, <1>2 DEF DeserializeValue, DeserializeOne

LEMMA ParsedValue ==
    ASSUME NEW prim, NEW text, NEW at
    PROVE  \/ /\ Parses(prim, text) /\ ParseValue(prim, text, at) = Leaf(text)
              /\ ParseValue(prim, text, at).tag = "ok"
           \/ /\ ~Parses(prim, text) /\ ParseValue(prim, text, at).tag = "error"
              /\ ParseValue(prim, text, at).at = at
BY DEF ParseValue, Leaf, Fail

LEMMA TupleOfPrims ==
    ASSUME NEW S, NEW params \in Seq(S), NEW prims
    PROVE  AsTuple(params, prims) = Collect(ByIdx(params, prims))
<1> DEFINE of == [i \in DOMAIN params |-> PrimOf(prims[i])]
           type == [kind |-> "tuple_struct", wraps |-> <<>>, of |-> of]
<1>1. DOMAIN params = 1 .. Len(params) /\ Len(params) \in Nat
  BY LenProperties
<1>2. Len(of) = Len(params)
  BY <1>1
<1>3. ~Contains(<<>>, "option")
  BY DEF Contains
<1>4. type.kind = "tuple_struct" /\ type.wraps = <<>> /\ type.of = of
  OBVIOUS
<1>5. \A i \in DOMAIN params : of[i] = PrimOf(prims[i])
  OBVIOUS
<1> HIDE DEF of, type
<1>6. Deserialize(type, params) = DeserializeSeq(of, params)
  BY <1>2, <1>3, <1>4 DEF Deserialize
<1>7. DeserializeSeq(of, params) = Collect(ByIdx(params, prims))
  <2>1. \A i \in DOMAIN params :
           DeserializeValue(of[i], params[i].value, AtIdx(i - 1, params[i].name)) =
             ParseValue(prims[i], params[i].value, AtIdx(i - 1, params[i].name))
    BY <1>5, ValueOfPrim
  <2>2. [i \in DOMAIN params |->
           DeserializeValue(of[i], params[i].value, AtIdx(i - 1, params[i].name))] =
        [i \in DOMAIN params |->
           ParseValue(prims[i], params[i].value, AtIdx(i - 1, params[i].name))]
    BY <2>1
  <2> QED
    BY <2>2 DEF DeserializeSeq, ByIdx
<1> QED
  BY <1>6, <1>7 DEF AsTuple, type, of

LEMMA SingletonMin ==
    ASSUME NEW n \in Nat
    PROVE  Min({n}) = n
BY LeastIsMin

LEMMA StructOfPrims ==
    ASSUME NEW S, NEW params \in Seq(S), NEW prims, NEW order,
           Ordered(params, order)
    PROVE  AsStruct(params, prims, order) =
             IF Collect(ByKey(params, prims)).tag # "ok" THEN Collect(ByKey(params, prims))
             ELSE Collect([f \in DOMAIN params |-> ByKey(params, prims)[order[f]]])
<1> DEFINE parsed(i) == ParseValue(prims[i], params[i].value, AtKey(params[i].name))
           fields == [f \in DOMAIN params |->
                        [name |-> params[order[f]].name, type |-> PrimOf(prims[order[f]])]]
           type == [kind |-> "struct", wraps |-> <<>>, fields |-> fields]
           known(i) == {f \in DOMAIN fields : fields[f].name = params[i].name}
           taken(i) == IF known(i) = {} THEN Node(<<>>)
                       ELSE IF \E j \in 1 .. (i - 1) : params[j].name = params[i].name
                       THEN Fail("Message", Nowhere)
                       ELSE DeserializeValue(fields[Min(known(i))].type,
                                             params[i].value, AtKey(params[i].name))
           given(f) == {i \in DOMAIN params : params[i].name = fields[f].name}
           field(f) == IF given(f) # {} THEN taken(Min(given(f)))
                       ELSE IF IsOption(fields[f].type) THEN Node(<<>>)
                       ELSE Fail("Message", Nowhere)
<1>1. DOMAIN params = 1 .. Len(params) /\ Len(params) \in Nat
  BY LenProperties
<1>0. /\ \A i, j \in DOMAIN params : params[i].name = params[j].name => i = j
      /\ order \in [DOMAIN params -> DOMAIN params]
      /\ \A f, g \in DOMAIN params : order[f] = order[g] => f = g
      /\ \A i \in DOMAIN params : \E f \in DOMAIN params : order[f] = i
  BY DEF Ordered
<1>2. /\ DOMAIN fields = DOMAIN params
      /\ \A f \in DOMAIN params : /\ fields[f].name = params[order[f]].name
                                  /\ fields[f].type = PrimOf(prims[order[f]])
  OBVIOUS
<1>3. ~Contains(<<>>, "option")
  BY DEF Contains
<1>4. type.kind = "struct" /\ type.wraps = <<>> /\ type.fields = fields
  OBVIOUS
<1> HIDE DEF fields
<1>5. ASSUME NEW i \in DOMAIN params PROVE taken(i) = parsed(i)
  <2>1. PICK f \in DOMAIN params : order[f] = i
    BY <1>0
  <2>2. known(i) = {f}
    <3>1. ASSUME NEW g \in DOMAIN params PROVE fields[g].name = params[i].name <=> g = f
      <4>1. fields[g].name = params[order[g]].name /\ order[g] \in DOMAIN params
        BY <1>0, <1>2
      <4>2. f \in DOMAIN params /\ i \in DOMAIN params
        BY <1>5, <2>1
      <4> QED
        BY <1>0, <2>1, <4>1, <4>2
    <3> QED
      BY <1>2, <2>1, <3>1
  <2>3. Min(known(i)) = f /\ known(i) # {}
    <3>1. f \in Nat
      BY <1>1
    <3>2. Min({f}) = f
      BY <3>1, SingletonMin
    <3> HIDE DEF known
    <3> QED
      BY <2>2, <3>2
  <2>4. ~ \E j \in 1 .. (i - 1) : params[j].name = params[i].name
    <3> SUFFICES ASSUME NEW j \in 1 .. (i - 1), params[j].name = params[i].name PROVE FALSE
      OBVIOUS
    <3>1. j \in DOMAIN params /\ j # i
      BY <1>1
    <3> QED
      BY <1>0, <3>1
  <2>5. fields[f].type = PrimOf(prims[i])
    BY <1>2, <2>1
  <2> HIDE DEF known
  <2> QED
    BY <2>3, <2>4, <2>5, ValueOfPrim
<1>6. ASSUME NEW f \in DOMAIN params PROVE field(f) = parsed(order[f])
  <2>1. order[f] \in DOMAIN params /\ order[f] \in Nat
    BY <1>0, <1>1
  <2>2. given(f) = {order[f]}
    BY <1>0, <1>2, <2>1
  <2>3. Min(given(f)) = order[f] /\ given(f) # {}
    <3>1. Min({order[f]}) = order[f]
      BY <2>1, SingletonMin
    <3> HIDE DEF given
    <3> QED
      BY <2>2, <3>1
  <2> HIDE DEF given, taken, parsed
  <2> QED
    BY <1>5, <2>1, <2>3
<1> DEFINE all == Collect([i \in DOMAIN params |-> taken(i)])
<1>7. DeserializeStruct(type, params) =
        IF all.tag # "ok" THEN all ELSE Collect([f \in DOMAIN fields |-> field(f)])
  BY <1>4 DEF DeserializeStruct
<1>8. Deserialize(type, params) = DeserializeStruct(type, params)
  <2> HIDE DEF type
  <2> QED
    BY <1>3, <1>4 DEF Deserialize
<1>9. AsStruct(params, prims, order) = Deserialize(type, params)
  BY DEF AsStruct, fields
<1>10. ByKey(params, prims) = [i \in DOMAIN params |-> parsed(i)]
  BY DEF ByKey
<1> HIDE DEF taken, field, parsed, type
<1>11. [i \in DOMAIN params |-> taken(i)] = ByKey(params, prims)
  BY <1>5, <1>10
<1>12. [f \in DOMAIN fields |-> field(f)]
         = [f \in DOMAIN params |-> ByKey(params, prims)[order[f]]]
  BY <1>0, <1>2, <1>6, <1>10
<1> QED
  BY <1>7, <1>8, <1>9, <1>11, <1>12

LEMMA StructAsTuple ==
    ASSUME NEW S, NEW params \in Seq(S), NEW prims, NEW order, Ordered(params, order)
    PROVE  Agree(params, prims, order)
<1> DEFINE idx == ByIdx(params, prims)
           key == ByKey(params, prims)
           ordered == [f \in DOMAIN params |-> key[order[f]]]
           tuple  == AsTuple(params, prims)
           struct == AsStruct(params, prims, order)
           failed(results) == {i \in DOMAIN results : results[i].tag # "ok"}
<1>1. DOMAIN params = 1 .. Len(params) /\ Len(params) \in Nat
  BY LenProperties
<1>2. tuple = Collect(idx)
  BY TupleOfPrims
<1>3. struct = IF Collect(key).tag # "ok" THEN Collect(key) ELSE Collect(ordered)
  BY StructOfPrims
<1>4. ASSUME NEW i \in DOMAIN params
      PROVE  \/ idx[i].tag = "ok" /\ key[i].tag = "ok" /\ key[i] = idx[i]
             \/ /\ idx[i].tag = "error" /\ key[i].tag = "error"
                /\ key[i].at.name = idx[i].at.name
  <2>1. AtIdx(i - 1, params[i].name).name = AtKey(params[i].name).name
    BY DEF AtIdx, AtKey
  <2>2. /\ idx[i] = ParseValue(prims[i], params[i].value, AtIdx(i - 1, params[i].name))
        /\ key[i] = ParseValue(prims[i], params[i].value, AtKey(params[i].name))
    BY DEF ByIdx, ByKey
  <2> QED
    BY <2>1, <2>2, ParsedValue
<1>5. DOMAIN idx = DOMAIN params /\ DOMAIN key = DOMAIN params
  BY DEF ByIdx, ByKey
<1>o. order \in [DOMAIN params -> DOMAIN params]
  BY DEF Ordered
<1> HIDE DEF tuple, struct, idx, key
<1>6. failed(idx) = failed(key)
  BY <1>4, <1>5
<1>7. CASE failed(idx) = {}
  <2>1. \A i \in DOMAIN params : idx[i].tag = "ok" /\ key[i].tag = "ok" /\ key[i] = idx[i]
    BY <1>4, <1>5, <1>7
  <2>2. /\ tuple.tag = "ok"
        /\ \A i \in DOMAIN params : tuple.value.node[i] = idx[i].value
    BY <1>2, <1>5, <2>1, CollectAll
  <2>3. Collect(key).tag = "ok"
    BY <1>5, <2>1, CollectAll
  <2>4. /\ Collect(ordered).tag = "ok"
        /\ \A f \in DOMAIN params : Collect(ordered).value.node[f] = key[order[f]].value
    <3>1. /\ DOMAIN ordered = DOMAIN params
          /\ \A f \in DOMAIN params : ordered[f] = key[order[f]] /\ ordered[f].tag = "ok"
      BY <1>o, <2>1
    <3> HIDE DEF ordered
    <3> QED
      BY <3>1, CollectAll
  <2>5. struct = Collect(ordered)
    <3> HIDE DEF ordered
    <3> QED
      BY <1>3, <2>3
  <2>6. ASSUME NEW f \in DOMAIN params
        PROVE  struct.value.node[f] = tuple.value.node[order[f]]
    <3>1. order[f] \in DOMAIN params
      BY <1>o
    <3> HIDE DEF ordered
    <3> QED
      BY <2>1, <2>2, <2>4, <2>5, <3>1
  <2>7. struct.tag = "ok"
    BY <2>4, <2>5
  <2> QED
    BY <2>2, <2>6, <2>7 DEF tuple, struct, Agree
<1>8. CASE failed(idx) # {}
  <2>1. PICK m : m = Min(failed(idx))
    OBVIOUS
  <2>2. m \in failed(idx)
    <3>1. failed(idx) \in SUBSET (1 .. Len(params))
      BY <1>1, <1>5
    <3> HIDE DEF failed
    <3> QED
      BY <1>1, <1>8, <2>1, <3>1, MinOfPart
  <2>3. tuple = idx[m] /\ Collect(key) = key[m]
    BY <1>2, <1>6, <1>8, <2>1 DEF Collect
  <2>4. /\ idx[m].tag = "error" /\ key[m].tag = "error"
        /\ key[m].at.name = idx[m].at.name
    BY <1>4, <1>5, <2>2
  <2>5. struct = key[m]
    <3> HIDE DEF ordered
    <3> QED
      BY <1>3, <2>3, <2>4
  <2> QED
    BY <2>3, <2>4, <2>5 DEF tuple, struct, Agree
<1> QED
  BY <1>7, <1>8

\* For every table and every request: a struct gets the values a tuple of the
\* same types gets, each by its name (de.rs:227-263, 590-615).
THEOREM StructAgreesWithTupleCorrect == Spec => []StructAgreesWithTuple
<1>1. ASSUME TableTyped, Answered, answer # None, answer.by = "route"
      PROVE  LET regex  == table.routes[answer.route].regex
                 params == CHOOSE p \in MatchPath(regex, RequestPath(request)) : TRUE
             IN  params \in Seq(ToSet(params))
  <2>1. answer.route = FirstHit(table, request) /\ Hits(table, request) # {}
    BY <1>1, AnsweredBy DEF Answered
  <2>2. PICK i : i = answer.route /\ i \in Hits(table, request)
    BY <1>1, <2>1, FirstIsFirst DEF TableTyped, Tables
  <2>3. i \in DOMAIN table.routes
        /\ MatchPath(table.routes[i].regex, RequestPath(request)) # {}
    BY <2>2 DEF Hits
  <2>4. table.routes[i].regex \in Seq(Pieces)
    BY <1>1, <2>3, RouteTyped, SMTT(30) DEF TableTyped
  <2> QED
    BY <2>2, <2>3, <2>4, MatchedParams
<1>2. TableTyped /\ Answered => StructAgreesWithTuple
  <2> SUFFICES ASSUME TableTyped, Answered, answer # None, answer.by = "route"
               PROVE  StructAgreesWithTuple
    BY Zenon DEF StructAgreesWithTuple
  <2> DEFINE params == CHOOSE p \in MatchPath(table.routes[answer.route].regex,
                                              RequestPath(request)) : TRUE
             places == DOMAIN params
  <2>1. params \in Seq(ToSet(params))
    BY <1>1
  <2> HIDE DEF params
  <2>2. ASSUME IsInjective([i \in places |-> params[i].name]),
               NEW prims \in [places -> {"String", "u32"}],
               NEW order \in Bijection(places, places)
        PROVE  Agree(params, prims, order)
    <3>1. \A i, j \in places : params[i].name = params[j].name => i = j
      BY <2>2 DEF IsInjective
    <3>2. /\ order \in [places -> places]
          /\ \A f, g \in places : order[f] = order[g] => f = g
          /\ \A i \in places : \E f \in places : order[f] = i
      BY DEF Bijection, Injection, Surjection, IsInjective
    <3>3. Ordered(params, order)
      BY <3>1, <3>2 DEF Ordered
    <3> QED
      BY <2>1, <3>3, StructAsTuple
  <2> QED
    BY <2>2, ZenonT(40) DEF StructAgreesWithTuple, params, Agree, AsTuple, AsStruct, PrimOf
<1> QED
  BY <1>2, AnsweredCorrect, PTL

-----------------------------------------------------------------------------
(***************************************************************************)
(* Folds over a sequence with one element more.                            *)
(***************************************************************************)
SameSteps(one, two, V, M) == \A n \in 1 .. M, v \in V : one[<<n, v>>] = two[<<n, v>>]

LEMMA ReachesNext ==
    ASSUME NEW V, NEW base, NEW M \in Nat, NEW one, NEW two, NEW r, NEW s,
           Reaches(V, base, one, M, r), Reaches(V, base, two, M + 1, s),
           SameSteps(one, two, V, M)
    PROVE  r \in V /\ s \in V /\ s = two[<<M + 1, r>>]
<1>1. PICK f \in [0 .. M -> V] : Run(f, base, one, M) /\ f[M] = r
  BY DEF Reaches
<1>2. PICK g \in [0 .. M + 1 -> V] : Run(g, base, two, M + 1) /\ g[M + 1] = s
  BY DEF Reaches
<1> DEFINE Good == {n \in Nat : n <= M => f[n] = g[n]}
<1>3. 0 \in Good
  BY <1>1, <1>2 DEF Run
<1>4. ASSUME NEW n \in Good PROVE n + 1 \in Good
  <2> SUFFICES ASSUME n + 1 <= M PROVE f[n + 1] = g[n + 1]
    OBVIOUS
  <2>1. /\ n + 1 \in 1 .. M /\ n + 1 \in 1 .. M + 1 /\ (n + 1) - 1 = n
        /\ n \in 0 .. M /\ n \in Nat
    OBVIOUS
  <2>2. f[n] = g[n] /\ f[n] \in V
    BY <2>1
  <2>3. f[n + 1] = one[<<n + 1, f[n]>>]
    BY <1>1, <2>1 DEF Run
  <2>4. g[n + 1] = two[<<n + 1, g[n]>>]
    BY <1>2, <2>1 DEF Run
  <2> QED
    BY <2>1, <2>2, <2>3, <2>4 DEF SameSteps
<1>5. Good = Nat
  <2>1. Good \in SUBSET Nat
    OBVIOUS
  <2> HIDE DEF Good
  <2> QED
    BY <1>3, <1>4, <2>1, SetInduction
<1>6. f[M] = g[M]
  BY <1>5
<1>7. M + 1 \in 1 .. M + 1 /\ (M + 1) - 1 = M /\ M \in 0 .. M
  OBVIOUS
<1>8. g[M + 1] = two[<<M + 1, g[M]>>]
  BY <1>2, <1>7 DEF Run
<1> QED
  BY <1>1, <1>2, <1>6, <1>7, <1>8

LEMMA ReachesStart ==
    ASSUME NEW V, NEW base, NEW step, NEW r, Reaches(V, base, step, 0, r)
    PROVE  r = base
BY DEF Reaches, Run

\* The sequences of length n + 1 are those of length n with an element added.
LEMMA AppendOf ==
    ASSUME NEW S, NEW s \in Seq(S), s # <<>>
    PROVE  /\ Front(s) \in Seq(S) /\ Last(s) \in S /\ s = Append(Front(s), Last(s))
           /\ Len(Front(s)) = Len(s) - 1 /\ Len(s) \in Nat \ {0}
<1>1. /\ Front(s) \in Seq(S) /\ Last(s) \in S
      /\ Len(Front(s)) = Len(s) - 1 /\ Len(s) \in Nat \ {0}
      /\ \A i \in 1 .. Len(s) - 1 : Front(s)[i] = s[i]
  BY FrontLast
<1>2. Last(s) = s[Len(s)]
  BY DEF Last
<1> DEFINE t == Append(Front(s), Last(s))
<1>3. /\ t \in Seq(S) /\ Len(t) = Len(s)
      /\ \A i \in 1 .. Len(s) - 1 : t[i] = Front(s)[i]
      /\ t[Len(s)] = Last(s)
  <2>1. PICK fr : fr = Front(s)
    OBVIOUS
  <2>2. PICK la : la = Last(s)
    OBVIOUS
  <2>3. fr \in Seq(S) /\ la \in S /\ Len(fr) = Len(s) - 1
    BY <1>1, <2>1, <2>2
  <2>4. /\ Append(fr, la) \in Seq(S) /\ Len(Append(fr, la)) = Len(fr) + 1
        /\ \A i \in 1 .. Len(fr) : Append(fr, la)[i] = fr[i]
        /\ Append(fr, la)[Len(fr) + 1] = la
    BY <2>3, AppendProperties
  <2> QED
    BY <1>1, <2>1, <2>2, <2>3, <2>4
<1>4. \A i \in 1 .. Len(s) : t[i] = s[i]
  <2>1. ASSUME NEW i \in 1 .. Len(s) PROVE t[i] = s[i]
    <3>1. i \in 1 .. Len(s) - 1 \/ i = Len(s)
      BY <1>1
    <3> HIDE DEF t
    <3> QED
      BY <1>1, <1>2, <1>3, <3>1
  <2> QED
    BY <2>1
<1>5. t = s
  <2> HIDE DEF t
  <2>1. t \in Seq(S) /\ s \in Seq(S) /\ Len(t) = Len(s)
    BY <1>3
  <2> QED
    BY <1>4, <2>1, SeqEqual
<1> QED
  BY <1>1, <1>5

LEMMA ThoseAppend ==
    ASSUME NEW S, NEW s \in Seq(S), NEW x \in S, NEW T
    PROVE  /\ Those(s, T) \in Seq(S)
           /\ Those(Append(s, x), T) = IF x \in T THEN Append(Those(s, T), x) ELSE Those(s, T)
<1>1. /\ Append(s, x) \in Seq(S) /\ Len(Append(s, x)) = Len(s) + 1 /\ Len(s) \in Nat
      /\ \A i \in 1 .. Len(s) : Append(s, x)[i] = s[i]
      /\ Append(s, x)[Len(s) + 1] = x
  BY AppendProperties, LenProperties
<1> DEFINE one == KeepStep(S, s, T)
           two == KeepStep(S, Append(s, x), T)
<1>2. Reaches(Seq(S), <<>>, one, Len(s), Those(s, T))
  BY ThoseUnfolds
<1>3. Reaches(Seq(S), <<>>, two, Len(s) + 1, Those(Append(s, x), T))
  <2> DEFINE t == Append(s, x)
  <2>1. t \in Seq(S) /\ Len(t) = Len(s) + 1
    BY <1>1
  <2> HIDE DEF t
  <2>2. Reaches(Seq(S), <<>>, KeepStep(S, t, T), Len(s) + 1, Those(t, T))
    BY <2>1, ThoseUnfolds
  <2> QED
    BY <2>2 DEF t
<1>4. SameSteps(one, two, Seq(S), Len(s))
  BY <1>1 DEF SameSteps, KeepStep
<1>5. \A v \in Seq(S) : two[<<Len(s) + 1, v>>] = IF x \in T THEN Append(v, x) ELSE v
  BY <1>1 DEF KeepStep
<1> HIDE DEF one, two
<1>6. /\ Those(s, T) \in Seq(S)
      /\ Those(Append(s, x), T) = two[<<Len(s) + 1, Those(s, T)>>]
  BY <1>1, <1>2, <1>3, <1>4, ReachesNext
<1> QED
  BY <1>5, <1>6

LEMMA EmptyTexts ==
    ASSUME NEW S
    PROVE  <<>> \in Seq(S) /\ Len(<<>>) = 0
BY EmptySeq

LEMMA ThoseEmpty == \A T : Those(<<>>, T) = <<>>
<1> SUFFICES ASSUME NEW T PROVE Those(<<>>, T) = <<>>
  OBVIOUS
<1> DEFINE empty == <<>>
<1>1. empty \in Seq({}) /\ Len(empty) = 0
  BY EmptyTexts
<1>2. Reaches(Seq({}), <<>>, KeepStep({}, empty, T), Len(empty), Those(empty, T))
  <2> HIDE DEF empty
  <2> QED
    BY <1>1, ThoseUnfolds
<1> QED
  BY <1>1, <1>2, ReachesStart

LEMMA SplitAppend ==
    ASSUME NEW S, NEW text \in Seq(S), NEW ch \in S, NEW separator
    PROVE  /\ Split(text, separator) \in Seq(Seq(S))
           /\ Split(text, separator) # <<>>
           /\ Split(Append(text, ch), separator) =
                IF ch = separator THEN Append(Split(text, separator), <<>>)
                ELSE Append(Front(Split(text, separator)),
                            Append(Last(Split(text, separator)), ch))
<1>1. /\ Append(text, ch) \in Seq(S) /\ Len(Append(text, ch)) = Len(text) + 1
      /\ Len(text) \in Nat
      /\ \A i \in 1 .. Len(text) : Append(text, ch)[i] = text[i]
      /\ Append(text, ch)[Len(text) + 1] = ch
  BY AppendProperties, LenProperties
<1> DEFINE V == Seq(Seq(S)) \ {<<>>}
           one == SplitStep(S, text, separator)
           two == SplitStep(S, Append(text, ch), separator)
<1>2. Reaches(V, << <<>> >>, one, Len(text), Split(text, separator))
  BY SplitUnfolds
<1>3. Reaches(V, << <<>> >>, two, Len(text) + 1, Split(Append(text, ch), separator))
  <2> DEFINE t == Append(text, ch)
  <2>1. t \in Seq(S) /\ Len(t) = Len(text) + 1
    BY <1>1
  <2> HIDE DEF t
  <2>2. Reaches(V, << <<>> >>, SplitStep(S, t, separator), Len(text) + 1, Split(t, separator))
    BY <2>1, SplitUnfolds
  <2> QED
    BY <2>2 DEF t
<1>4. SameSteps(one, two, V, Len(text))
  BY <1>1 DEF SameSteps, SplitStep
<1>5. \A v \in V : two[<<Len(text) + 1, v>>] =
                     IF ch = separator THEN Append(v, <<>>)
                     ELSE Append(Front(v), Append(Last(v), ch))
  BY <1>1 DEF SplitStep
<1> HIDE DEF one, two, V
<1>6. /\ Split(text, separator) \in V
      /\ Split(Append(text, ch), separator) = two[<<Len(text) + 1, Split(text, separator)>>]
  BY <1>1, <1>2, <1>3, <1>4, ReachesNext
<1> QED
  BY <1>5, <1>6 DEF V

LEMMA SplitEmpty == \A separator : Split(<<>>, separator) = << <<>> >>
<1> SUFFICES ASSUME NEW separator PROVE Split(<<>>, separator) = << <<>> >>
  OBVIOUS
<1> DEFINE empty == <<>>
           V == Seq(Seq({})) \ {<<>>}
<1>1. empty \in Seq({}) /\ Len(empty) = 0
  BY EmptyTexts
<1>2. Reaches(V, << <<>> >>, SplitStep({}, empty, separator), Len(empty), Split(empty, separator))
  <2> HIDE DEF empty
  <2> QED
    BY <1>1, SplitUnfolds
<1> QED
  BY <1>1, <1>2, ReachesStart

LEMMA JoinAppend ==
    ASSUME NEW S, NEW parts \in Seq(Seq(S)), parts # <<>>, NEW part \in Seq(S),
           NEW separator \in Seq(S)
    PROVE  /\ Join(parts, separator) \in Seq(S)
           /\ Join(Append(parts, part), separator) = Join(parts, separator) \o separator \o part
<1> DEFINE W == Seq(S)
           more == Append(parts, part)
<1>0. parts \in Seq(W) /\ part \in W
  OBVIOUS
<1>1. /\ more \in Seq(W) /\ more # <<>>
      /\ Len(parts) \in Nat \ {0} /\ Len(more) = Len(parts) + 1
      /\ \A i \in 1 .. Len(parts) : more[i] = parts[i]
      /\ more[Len(parts) + 1] = part
  <2> HIDE DEF W
  <2> QED
    BY <1>0, AppendProperties, LenProperties, EmptySeq
<1>2. /\ Head(more) = Head(parts)
      /\ Len(Tail(parts)) = Len(parts) - 1 /\ Len(Tail(more)) = Len(parts)
      /\ \A i \in 1 .. Len(parts) - 1 : Tail(parts)[i] = parts[i + 1]
      /\ \A i \in 1 .. Len(parts) : Tail(more)[i] = more[i + 1]
  <2> HIDE DEF W, more
  <2> QED
    BY <1>0, <1>1, HeadTailProperties
<1> DEFINE one == JoinStep(S, parts, separator)
           two == JoinStep(S, more, separator)
           M   == Len(Tail(parts))
<1>3. Reaches(Seq(S), Head(parts), one, M, Join(parts, separator))
  BY JoinUnfolds
<1>4. Reaches(Seq(S), Head(parts), two, M + 1, Join(more, separator))
  <2>1. M + 1 = Len(Tail(more))
    BY <1>1, <1>2
  <2>2. more \in Seq(Seq(S)) /\ more # <<>>
    BY <1>1
  <2> HIDE DEF more, M
  <2>3. Reaches(Seq(S), Head(more), JoinStep(S, more, separator), Len(Tail(more)),
                Join(more, separator))
    BY <2>2, JoinUnfolds
  <2> QED
    BY <1>2, <2>1, <2>3
<1>5. \A n \in 1 .. M : Tail(parts)[n] = Tail(more)[n]
  BY <1>1, <1>2
<1>6. SameSteps(one, two, Seq(S), M)
  <2>1. M \in Nat /\ Len(Tail(more)) = M + 1
    BY <1>1, <1>2
  <2>2. ASSUME NEW n \in 1 .. M, NEW v \in Seq(S) PROVE one[<<n, v>>] = two[<<n, v>>]
    <3>1. one[<<n, v>>] = v \o separator \o Tail(parts)[n]
      BY DEF JoinStep
    <3>2. two[<<n, v>>] = v \o separator \o Tail(more)[n]
      <4>1. n \in 1 .. Len(Tail(more))
        BY <2>1
      <4> HIDE DEF more
      <4> QED
        BY <4>1 DEF JoinStep
    <3> HIDE DEF one, two
    <3> QED
      BY <1>5, <3>1, <3>2
  <2> HIDE DEF one, two, M
  <2> QED
    BY <2>2, Zenon DEF SameSteps
<1>7. \A v \in Seq(S) : two[<<M + 1, v>>] = v \o separator \o part
  <2>1. M + 1 \in 1 .. Len(Tail(more)) /\ Tail(more)[M + 1] = part
    BY <1>1, <1>2
  <2> HIDE DEF M
  <2> QED
    BY <2>1 DEF JoinStep
<1>8. M \in Nat
  BY <1>1, <1>2
<1> HIDE DEF one, two, M, more
<1>9. /\ Join(parts, separator) \in Seq(S)
      /\ Join(more, separator) = two[<<M + 1, Join(parts, separator)>>]
  BY <1>3, <1>4, <1>6, <1>8, ReachesNext
<1> QED
  BY <1>7, <1>9 DEF more

LEMMA JoinOne ==
    ASSUME NEW S, NEW part \in Seq(S), NEW separator \in Seq(S)
    PROVE  Join(<<part>>, separator) = part
<1> DEFINE parts == <<part>>
<1>1. parts \in Seq(Seq(S)) /\ parts # <<>> /\ Head(parts) = part /\ Len(Tail(parts)) = 0
  OBVIOUS
<1> HIDE DEF parts
<1>2. Reaches(Seq(S), part, JoinStep(S, parts, separator), 0, Join(parts, separator))
  BY <1>1, JoinUnfolds
<1> QED
  BY <1>2, ReachesStart DEF parts

LEMMA ScanAppend ==
    ASSUME NEW segment \in Texts, NEW ch \in Char
    PROVE  /\ ScanSegment(segment) \in Scans
           /\ ScanSegment(Append(segment, ch)) = Scan(ScanSegment(segment), ch)
<1>1. /\ Append(segment, ch) \in Texts /\ Len(Append(segment, ch)) = Len(segment) + 1
      /\ Len(segment) \in Nat
      /\ \A i \in 1 .. Len(segment) : Append(segment, ch)[i] = segment[i]
      /\ Append(segment, ch)[Len(segment) + 1] = ch
  BY AppendProperties, LenProperties DEF Texts
<1> DEFINE one == ScanStep(segment)
           two == ScanStep(Append(segment, ch))
<1>2. Reaches(Scans, NotScanned, one, Len(segment), ScanSegment(segment))
  BY ScanUnfolds
<1>3. Reaches(Scans, NotScanned, two, Len(segment) + 1, ScanSegment(Append(segment, ch)))
  <2> DEFINE t == Append(segment, ch)
  <2>1. t \in Texts /\ Len(t) = Len(segment) + 1
    BY <1>1
  <2> HIDE DEF t
  <2>2. Reaches(Scans, NotScanned, ScanStep(t), Len(segment) + 1, ScanSegment(t))
    BY <2>1, ScanUnfolds
  <2> QED
    BY <2>2 DEF t
<1>4. SameSteps(one, two, Scans, Len(segment))
  <2> HIDE DEF Scans
  <2> QED
    BY <1>1 DEF SameSteps, ScanStep
<1>5. \A v \in Scans : two[<<Len(segment) + 1, v>>] = Scan(v, ch)
  <2> HIDE DEF Scans
  <2> QED
    BY <1>1 DEF ScanStep
<1> HIDE DEF one, two
<1>6. /\ ScanSegment(segment) \in Scans
      /\ ScanSegment(Append(segment, ch)) = two[<<Len(segment) + 1, ScanSegment(segment)>>]
  BY <1>1, <1>2, <1>3, <1>4, ReachesNext
<1> QED
  BY <1>5, <1>6

LEMMA ScanEmpty == ScanSegment(<<>>) = NotScanned
<1> DEFINE empty == <<>>
<1>1. empty \in Texts /\ Len(empty) = 0
  BY EmptyTexts DEF Texts
<1>2. Reaches(Scans, NotScanned, ScanStep(empty), Len(empty), ScanSegment(empty))
  <2> HIDE DEF empty
  <2> QED
    BY <1>1, ScanUnfolds
<1> QED
  BY <1>1, <1>2, ReachesStart

-----------------------------------------------------------------------------
(***************************************************************************)
(* Filling a pattern, and spelling a regex out, with values for the braces *)
(* and the parameters.                                                     *)
(***************************************************************************)
Given(values, n) == IF n \in DOMAIN values THEN values[n] ELSE <<>>

TextValues(values) == \A n \in DOMAIN values : values[n] \in Texts

Fillings == [text : Texts, skip : BOOLEAN, n : Nat]

NotFilled == [text |-> <<>>, skip |-> FALSE, n |-> 0]

FillOne(values, st, ch) ==
    CASE ch = "{" -> [text |-> st.text, skip |-> TRUE, n |-> st.n + 1]
      [] ch = "}" -> [text |-> st.text \o Given(values, st.n), skip |-> FALSE, n |-> st.n]
      [] ch \notin {"{", "}"} ->
           IF st.skip THEN st ELSE [text |-> Append(st.text, ch), skip |-> st.skip, n |-> st.n]

\* What Fill has made of a pattern.
Filled(pattern, values) ==
    LET given(n) == IF n \in DOMAIN values THEN values[n] ELSE <<>>
        step(st, ch) ==
          CASE ch = "{" -> [st EXCEPT !.skip = TRUE, !.n = @ + 1]
            [] ch = "}" -> [st EXCEPT !.skip = FALSE, !.text = @ \o given(st.n)]
            [] ch \notin {"{", "}"} ->
                 IF st.skip THEN st ELSE [st EXCEPT !.text = Append(@, ch)]
    IN  FoldLeft(step, [text |-> <<>>, skip |-> FALSE, n |-> 0], pattern)

LEMMA FillIsText == \A pattern, values : Fill(pattern, values) = Filled(pattern, values).text
BY DEF Fill, Filled

LEMMA GivenTyped ==
    ASSUME NEW values, TextValues(values), NEW n
    PROVE  Given(values, n) \in Texts
BY EmptyTexts DEF Given, TextValues, Texts

LEMMA FillOneTyped ==
    ASSUME NEW values, TextValues(values), NEW st \in Fillings, NEW ch \in Char
    PROVE  FillOne(values, st, ch) \in Fillings
<1>1. st.text \in Texts /\ st.skip \in BOOLEAN /\ st.n \in Nat
  BY DEF Fillings
<1>2. st.text \o Given(values, st.n) \in Texts /\ Append(st.text, ch) \in Texts
  BY <1>1, GivenTyped, ConcatProperties, AppendProperties DEF Texts
<1>3. st.n + 1 \in Nat
  BY <1>1
<1> QED
  BY <1>1, <1>2, <1>3, Zenon DEF FillOne, Fillings

\* Mutable records written out.
LEMMA FillOneIs ==
    ASSUME NEW values, NEW st \in Fillings, NEW ch
    PROVE  FillOne(values, st, ch) =
             CASE ch = "{" -> [st EXCEPT !.skip = TRUE, !.n = @ + 1]
               [] ch = "}" -> [st EXCEPT !.skip = FALSE,
                                         !.text = @ \o (IF st.n \in DOMAIN values
                                                        THEN values[st.n] ELSE <<>>)]
               [] ch \notin {"{", "}"} ->
                    IF st.skip THEN st ELSE [st EXCEPT !.text = Append(@, ch)]
BY Zenon DEF FillOne, Fillings, Given

FillStep(pattern, values) ==
    [p \in (1 .. Len(pattern)) \X Fillings |-> FillOne(values, p[2], pattern[p[1]])]

LEMMA FillUnfolds ==
    ASSUME NEW pattern \in Texts, NEW values, TextValues(values)
    PROVE  Reaches(Fillings, NotFilled, FillStep(pattern, values), Len(pattern), Filled(pattern, values))
<1> DEFINE M == Len(pattern)
           V == Fillings
           base == NotFilled
           step == FillStep(pattern, values)
           next(n, v) == CASE pattern[n] = "{" -> [v EXCEPT !.skip = TRUE, !.n = @ + 1]
                           [] pattern[n] = "}" ->
                                [v EXCEPT !.skip = FALSE,
                                          !.text = @ \o (IF v.n \in DOMAIN values
                                                         THEN values[v.n] ELSE <<>>)]
                           [] pattern[n] \notin {"{", "}"} ->
                                IF v.skip THEN v
                                ELSE [v EXCEPT !.text = Append(@, pattern[n])]
           Body(iter) == [D \in SUBSET (1 .. M) |->
                            IF D = {} THEN base ELSE next(Max(D), iter[D \ {Max(D)}])]
           chosen == CHOOSE iter : iter = Body(iter)
<1>1. M \in Nat /\ DOMAIN pattern = 1 .. M /\ base \in V
  BY LenProperties, EmptyTexts DEF Fillings, Texts, NotFilled
<1>2. step \in [(1 .. M) \X V -> V] /\ \A n \in 1 .. M, v \in V : step[<<n, v>>] = next(n, v)
  <2>1. ASSUME NEW n \in 1 .. M, NEW v \in V PROVE next(n, v) \in V
    <3>1. pattern[n] \in Char
      BY ElementOfSeq DEF Texts
    <3>2. FillOne(values, v, pattern[n]) \in Fillings
      BY <3>1, FillOneTyped
    <3>3. next(n, v) = FillOne(values, v, pattern[n])
      BY FillOneIs, Zenon
    <3> HIDE DEF next
    <3> QED
      BY <3>2, <3>3
  <2>2. ASSUME NEW n \in 1 .. M, NEW v \in V PROVE step[<<n, v>>] = next(n, v)
    <3>1. step[<<n, v>>] = FillOne(values, v, pattern[n])
      <4> HIDE DEF next, Fillings
      <4> QED
        BY DEF FillStep
    <3>2. next(n, v) = FillOne(values, v, pattern[n])
      BY FillOneIs, Zenon
    <3> HIDE DEF next, step
    <3> QED
      BY <3>1, <3>2
  <2>3. step = [p \in (1 .. M) \X V |-> step[p]]
    <3> HIDE DEF next, Fillings
    <3> QED
      BY DEF FillStep
  <2> HIDE DEF V, M, step, next
  <2>4. \A p \in (1 .. M) \X V : step[p] \in V
    BY <2>1, <2>2
  <2> QED
    BY <2>2, <2>3, <2>4
<1>3. Filled(pattern, values) = chosen[1 .. M]
  BY <1>1 DEF Filled, NotFilled, FoldLeft, MapThenFoldSet
<1> HIDE DEF M, V, base, step, next
<1>4. chosen = Body(chosen)
  <2>1. PICK iter \in [SUBSET (1 .. M) -> V] : Folded(iter, M, base, step)
    BY <1>1, <1>2, FoldExists
  <2>2. ASSUME NEW D \in SUBSET (1 .. M), D # {}
        PROVE  iter[D] = next(Max(D), iter[D \ {Max(D)}])
    <3>1. Max(D) \in 1 .. M
      BY <1>1, <2>2, MaxOfPart
    <3>2. iter[D] = step[<<Max(D), iter[D \ {Max(D)}]>>]
      BY <2>1, <2>2 DEF Folded
    <3> QED
      BY <1>2, <2>1, <3>1, <3>2
  <2>3. iter[{}] = base
    BY <2>1 DEF Folded
  <2>4. iter = Body(iter)
    BY <2>1, <2>2, <2>3
  <2> HIDE DEF Body
  <2> QED
    BY <2>4
<1> HIDE DEF chosen
<1>5. Follows(chosen, V, base, step, M)
  <2>1. chosen[{}] = base
    <3>1. {} \in SUBSET (1 .. M)
      OBVIOUS
    <3> QED
      BY <1>4, <3>1
  <2>2. ASSUME NEW D \in SUBSET (1 .. M), D # {}, chosen[D \ {Max(D)}] \in V
        PROVE  chosen[D] = step[<<Max(D), chosen[D \ {Max(D)}]>>]
    <3>1. Max(D) \in 1 .. M
      BY <1>1, <2>2, MaxOfPart
    <3> QED
      BY <1>2, <1>4, <2>2, <3>1
  <2> QED
    BY <2>1, <2>2 DEF Follows
<1>6. Reaches(V, base, step, M, chosen[1 .. M])
  BY <1>1, <1>2, <1>5, FoldRun
<1> QED
  BY <1>3, <1>6 DEF M, V, base, step

LEMMA FillAppend ==
    ASSUME NEW pattern \in Texts, NEW ch \in Char, NEW values, TextValues(values)
    PROVE  /\ Filled(pattern, values) \in Fillings
           /\ Filled(Append(pattern, ch), values) = FillOne(values, Filled(pattern, values), ch)
<1>1. /\ Append(pattern, ch) \in Texts /\ Len(Append(pattern, ch)) = Len(pattern) + 1
      /\ Len(pattern) \in Nat
      /\ \A i \in 1 .. Len(pattern) : Append(pattern, ch)[i] = pattern[i]
      /\ Append(pattern, ch)[Len(pattern) + 1] = ch
  BY AppendProperties, LenProperties DEF Texts
<1> DEFINE one == FillStep(pattern, values)
           two == FillStep(Append(pattern, ch), values)
<1>2. Reaches(Fillings, NotFilled, one, Len(pattern), Filled(pattern, values))
  BY FillUnfolds
<1>3. Reaches(Fillings, NotFilled, two, Len(pattern) + 1, Filled(Append(pattern, ch), values))
  <2> DEFINE t == Append(pattern, ch)
  <2>1. t \in Texts /\ Len(t) = Len(pattern) + 1
    BY <1>1
  <2> HIDE DEF t
  <2>2. Reaches(Fillings, NotFilled, FillStep(t, values), Len(pattern) + 1, Filled(t, values))
    BY <2>1, FillUnfolds
  <2> QED
    BY <2>2 DEF t
<1>4. SameSteps(one, two, Fillings, Len(pattern))
  <2> HIDE DEF Fillings
  <2> QED
    BY <1>1 DEF SameSteps, FillStep
<1>5. \A v \in Fillings : two[<<Len(pattern) + 1, v>>] = FillOne(values, v, ch)
  <2> HIDE DEF Fillings
  <2> QED
    BY <1>1 DEF FillStep
<1> HIDE DEF one, two
<1>6. /\ Filled(pattern, values) \in Fillings
      /\ Filled(Append(pattern, ch), values) = two[<<Len(pattern) + 1, Filled(pattern, values)>>]
  BY <1>1, <1>2, <1>3, <1>4, ReachesNext
<1> QED
  BY <1>5, <1>6

LEMMA FillEmpty ==
    ASSUME NEW values, TextValues(values)
    PROVE  Filled(<<>>, values) = NotFilled
<1> DEFINE empty == <<>>
<1>1. empty \in Texts /\ Len(empty) = 0
  BY EmptyTexts DEF Texts
<1>2. Reaches(Fillings, NotFilled, FillStep(empty, values), Len(empty), Filled(empty, values))
  <2> HIDE DEF empty
  <2> QED
    BY <1>1, FillUnfolds
<1> QED
  BY <1>1, <1>2, ReachesStart

Spellings == [text : Texts, n : Nat]

NotSpelled == [text |-> <<>>, n |-> 0]

SpellOne(values, st, piece) ==
    IF piece.kind = "literal" THEN [text |-> st.text \o piece.text, n |-> st.n]
    ELSE [text |-> st.text \o Given(values, st.n + 1), n |-> st.n + 1]

\* The text of a regex with a value for each parameter, and their number.
Spell(regex, values) ==
    FoldLeft(LAMBDA st, piece : SpellOne(values, st, piece), NotSpelled, regex)

LEMMA SpellOneTyped ==
    ASSUME NEW values, TextValues(values), NEW st \in Spellings, NEW piece \in Pieces
    PROVE  SpellOne(values, st, piece) \in Spellings
<1>1. st.text \in Texts /\ st.n \in Nat /\ piece.text \in Texts
  BY PieceTyped DEF Spellings
<1>2. st.text \o Given(values, st.n + 1) \in Texts /\ st.text \o piece.text \in Texts
  BY <1>1, GivenTyped, ConcatProperties DEF Texts
<1>3. st.n + 1 \in Nat
  BY <1>1
<1> QED
  BY <1>1, <1>2, <1>3 DEF SpellOne, Spellings

SpellStep(regex, values) ==
    [p \in (1 .. Len(regex)) \X Spellings |-> SpellOne(values, p[2], regex[p[1]])]

LEMMA SpellUnfolds ==
    ASSUME NEW regex \in Seq(Pieces), NEW values, TextValues(values)
    PROVE  Reaches(Spellings, NotSpelled, SpellStep(regex, values), Len(regex), Spell(regex, values))
<1> DEFINE M == Len(regex)
           V == Spellings
           base == NotSpelled
           step == SpellStep(regex, values)
           next(n, v) == SpellOne(values, v, regex[n])
           Body(iter) == [D \in SUBSET (1 .. M) |->
                            IF D = {} THEN base ELSE next(Max(D), iter[D \ {Max(D)}])]
           chosen == CHOOSE iter : iter = Body(iter)
<1>1. M \in Nat /\ DOMAIN regex = 1 .. M /\ base \in V
  <2>1. NotSpelled \in Spellings
    BY EmptyTexts DEF Spellings, Texts, NotSpelled
  <2> HIDE DEF Pieces, Spellings
  <2> QED
    BY <2>1, LenProperties
<1>2. step \in [(1 .. M) \X V -> V] /\ \A n \in 1 .. M, v \in V : step[<<n, v>>] = next(n, v)
  <2>1. ASSUME NEW n \in 1 .. M, NEW v \in V PROVE next(n, v) \in V
    <3> HIDE DEF Pieces
    <3>1. regex[n] \in Pieces
      BY ElementOfSeq
    <3> QED
      BY <3>1, SpellOneTyped
  <2>2. step = [p \in (1 .. M) \X V |-> next(p[1], p[2])]
    BY DEF SpellStep
  <2> HIDE DEF V, M, step, next
  <2> QED
    BY <2>1, <2>2
<1>3. Spell(regex, values) = chosen[1 .. M]
  BY <1>1 DEF Spell, FoldLeft, MapThenFoldSet
<1> HIDE DEF M, V, base, step, next
<1>4. chosen = Body(chosen)
  <2>1. PICK iter \in [SUBSET (1 .. M) -> V] : Folded(iter, M, base, step)
    BY <1>1, <1>2, FoldExists
  <2>2. ASSUME NEW D \in SUBSET (1 .. M), D # {}
        PROVE  iter[D] = next(Max(D), iter[D \ {Max(D)}])
    <3>1. Max(D) \in 1 .. M
      BY <1>1, <2>2, MaxOfPart
    <3>2. iter[D] = step[<<Max(D), iter[D \ {Max(D)}]>>]
      BY <2>1, <2>2 DEF Folded
    <3> QED
      BY <1>2, <2>1, <3>1, <3>2
  <2>3. iter[{}] = base
    BY <2>1 DEF Folded
  <2>4. iter = Body(iter)
    BY <2>1, <2>2, <2>3
  <2> HIDE DEF Body
  <2> QED
    BY <2>4
<1> HIDE DEF chosen
<1>5. Follows(chosen, V, base, step, M)
  <2>1. chosen[{}] = base
    <3>1. {} \in SUBSET (1 .. M)
      OBVIOUS
    <3> QED
      BY <1>4, <3>1
  <2>2. ASSUME NEW D \in SUBSET (1 .. M), D # {}, chosen[D \ {Max(D)}] \in V
        PROVE  chosen[D] = step[<<Max(D), chosen[D \ {Max(D)}]>>]
    <3>1. Max(D) \in 1 .. M
      BY <1>1, <2>2, MaxOfPart
    <3> QED
      BY <1>2, <1>4, <2>2, <3>1
  <2> QED
    BY <2>1, <2>2 DEF Follows
<1>6. Reaches(V, base, step, M, chosen[1 .. M])
  BY <1>1, <1>2, <1>5, FoldRun
<1> QED
  BY <1>3, <1>6 DEF M, V, base, step

LEMMA SpellAppend ==
    ASSUME NEW regex \in Seq(Pieces), NEW piece \in Pieces, NEW values, TextValues(values)
    PROVE  /\ Spell(regex, values) \in Spellings
           /\ Spell(Append(regex, piece), values) = SpellOne(values, Spell(regex, values), piece)
<1> HIDE DEF Pieces
<1>1. /\ Append(regex, piece) \in Seq(Pieces) /\ Len(Append(regex, piece)) = Len(regex) + 1
      /\ Len(regex) \in Nat
      /\ \A i \in 1 .. Len(regex) : Append(regex, piece)[i] = regex[i]
      /\ Append(regex, piece)[Len(regex) + 1] = piece
  BY AppendProperties, LenProperties
<1> DEFINE one == SpellStep(regex, values)
           two == SpellStep(Append(regex, piece), values)
<1>2. Reaches(Spellings, NotSpelled, one, Len(regex), Spell(regex, values))
  BY SpellUnfolds
<1>3. Reaches(Spellings, NotSpelled, two, Len(regex) + 1, Spell(Append(regex, piece), values))
  <2> DEFINE t == Append(regex, piece)
  <2>1. t \in Seq(Pieces) /\ Len(t) = Len(regex) + 1
    BY <1>1
  <2> HIDE DEF t
  <2>2. Reaches(Spellings, NotSpelled, SpellStep(t, values), Len(regex) + 1, Spell(t, values))
    BY <2>1, SpellUnfolds
  <2> QED
    BY <2>2 DEF t
<1>4. SameSteps(one, two, Spellings, Len(regex))
  <2> HIDE DEF Spellings
  <2> QED
    BY <1>1 DEF SameSteps, SpellStep
<1>5. \A v \in Spellings : two[<<Len(regex) + 1, v>>] = SpellOne(values, v, piece)
  <2> HIDE DEF Spellings
  <2> QED
    BY <1>1 DEF SpellStep
<1> HIDE DEF one, two
<1>6. /\ Spell(regex, values) \in Spellings
      /\ Spell(Append(regex, piece), values) = two[<<Len(regex) + 1, Spell(regex, values)>>]
  BY <1>1, <1>2, <1>3, <1>4, ReachesNext
<1> QED
  BY <1>5, <1>6

LEMMA SpellEmpty ==
    ASSUME NEW values, TextValues(values)
    PROVE  Spell(<<>>, values) = NotSpelled
<1> DEFINE empty == <<>>
<1>1. empty \in Seq(Pieces) /\ Len(empty) = 0
  BY EmptyTexts
<1>2. Reaches(Spellings, NotSpelled, SpellStep(empty, values), Len(empty), Spell(empty, values))
  <2> HIDE DEF empty
  <2> QED
    BY <1>1, SpellUnfolds
<1> QED
  BY <1>1, <1>2, ReachesStart

-----------------------------------------------------------------------------
(***************************************************************************)
(* A pattern filled is its regex spelled out.                              *)
(***************************************************************************)
Slash == <<Literal("/")>>

Regexes(parts) == [i \in DOMAIN parts |-> ScanSegment(parts[i]).regex]

Scanned(parts) == Join(Regexes(parts), Slash)

\* No brace without a partner, but perhaps one in the last segment.
Closed(parts) ==
    /\ \A i \in 1 .. Len(parts) - 1 : /\ ~ScanSegment(parts[i]).panic
                                      /\ ~ScanSegment(parts[i]).inParam
    /\ ~ScanSegment(Last(parts)).panic

LEMMA SlashTyped == Literal("/") \in Pieces /\ Slash \in Seq(Pieces)
<1>1. "/" \in Char
  BY CharAssumption, Zenon
<1>2. Literal("/") \in Pieces
  BY <1>1 DEF Pieces
<1> QED
  BY <1>2 DEF Slash

LEMMA ScanIsTyped ==
    ASSUME NEW text \in Texts
    PROVE  /\ ScanSegment(text) \in Scans
           /\ ScanSegment(text).inParam \in BOOLEAN /\ ScanSegment(text).panic \in BOOLEAN
           /\ ScanSegment(text).name \in Texts /\ ScanSegment(text).regex \in Seq(Pieces)
BY ScanSegmentTyped DEF Scans

LEMMA AppendIs ==
    ASSUME NEW S, NEW s \in Seq(S), NEW x \in S
    PROVE  /\ Append(s, x) \in Seq(S) /\ Append(s, x) # <<>>
           /\ Len(s) \in Nat /\ Len(Append(s, x)) = Len(s) + 1
           /\ DOMAIN s = 1 .. Len(s) /\ DOMAIN Append(s, x) = 1 .. Len(s) + 1
           /\ \A i \in 1 .. Len(s) : Append(s, x)[i] = s[i]
           /\ Append(s, x)[Len(s) + 1] = x
           /\ Last(Append(s, x)) = x
           /\ Append(s, x) = s \o <<x>>
BY AppendProperties, LenProperties DEF Last

LEMMA RegexesTyped ==
    ASSUME NEW parts \in Seq(Texts)
    PROVE  /\ Regexes(parts) \in Seq(Seq(Pieces))
           /\ Len(Regexes(parts)) = Len(parts)
           /\ \A i \in 1 .. Len(parts) : Regexes(parts)[i] = ScanSegment(parts[i]).regex
           /\ parts # <<>> => Regexes(parts) # <<>>
<1>1. DOMAIN parts = 1 .. Len(parts) /\ Len(parts) \in Nat
  BY LenProperties
<1>2. \A i \in 1 .. Len(parts) : ScanSegment(parts[i]).regex \in Seq(Pieces)
  BY ElementOfSeq, ScanIsTyped
<1>3. /\ Regexes(parts) \in [1 .. Len(parts) -> Seq(Pieces)]
      /\ \A i \in 1 .. Len(parts) : Regexes(parts)[i] = ScanSegment(parts[i]).regex
  BY <1>1, <1>2 DEF Regexes
<1>4. Regexes(parts) \in Seq(Seq(Pieces)) /\ Len(Regexes(parts)) = Len(parts)
  BY <1>1, <1>3
<1>5. parts # <<>> => Len(parts) # 0
  BY EmptySeq
<1> QED
  BY <1>1, <1>3, <1>4, <1>5, EmptySeq

LEMMA RegexesAppend ==
    ASSUME NEW parts \in Seq(Texts), NEW part \in Texts
    PROVE  Regexes(Append(parts, part)) = Append(Regexes(parts), ScanSegment(part).regex)
<1> DEFINE more == Append(parts, part)
           R == Seq(Pieces)
           last == ScanSegment(part).regex
<1>1. /\ more \in Seq(Texts) /\ Len(parts) \in Nat /\ Len(more) = Len(parts) + 1
      /\ \A i \in 1 .. Len(parts) : more[i] = parts[i]
      /\ more[Len(parts) + 1] = part
  BY AppendIs
<1>2. last \in R
  BY ScanIsTyped
<1> HIDE DEF more, last, R
<1>3. /\ Regexes(parts) \in Seq(R) /\ Len(Regexes(parts)) = Len(parts)
      /\ \A i \in 1 .. Len(parts) : Regexes(parts)[i] = ScanSegment(parts[i]).regex
  BY RegexesTyped DEF R
<1>4. /\ Regexes(more) \in Seq(R) /\ Len(Regexes(more)) = Len(more)
      /\ \A i \in 1 .. Len(more) : Regexes(more)[i] = ScanSegment(more[i]).regex
  BY <1>1, RegexesTyped DEF R
<1>5. PICK rs : rs = Regexes(parts)
  OBVIOUS
<1>6. PICK ls : ls = Append(rs, last)
  OBVIOUS
<1>7. /\ ls \in Seq(R) /\ Len(ls) = Len(rs) + 1
      /\ \A i \in 1 .. Len(rs) : ls[i] = rs[i]
      /\ ls[Len(rs) + 1] = last
  BY <1>2, <1>3, <1>5, <1>6, AppendIs
<1>8. \A i \in 1 .. Len(ls) : ls[i] = Regexes(more)[i]
  <2> SUFFICES ASSUME NEW i \in 1 .. Len(ls) PROVE ls[i] = Regexes(more)[i]
    OBVIOUS
  <2>1. i \in 1 .. Len(parts) \/ i = Len(parts) + 1
    BY <1>1, <1>3, <1>5, <1>7
  <2>2. CASE i \in 1 .. Len(parts)
    BY <1>1, <1>3, <1>4, <1>5, <1>7, <2>2
  <2>3. CASE i = Len(parts) + 1
    BY <1>1, <1>3, <1>4, <1>5, <1>7, <2>3 DEF last
  <2> QED
    BY <2>1, <2>2, <2>3
<1>9. ls = Regexes(more)
  <2>1. Len(ls) = Len(Regexes(more))
    BY <1>1, <1>3, <1>4, <1>5, <1>7
  <2> QED
    BY <1>4, <1>7, <1>8, <2>1, SeqEqual
<1> QED
  BY <1>5, <1>6, <1>9 DEF more, last

LEMMA ScannedAppend ==
    ASSUME NEW parts \in Seq(Texts), parts # <<>>, NEW part \in Texts
    PROVE  /\ Scanned(parts) \in Seq(Pieces)
           /\ Scanned(Append(parts, part)) = Scanned(parts) \o Slash \o ScanSegment(part).regex
<1>1. Regexes(parts) \in Seq(Seq(Pieces)) /\ Regexes(parts) # <<>>
  BY RegexesTyped
<1>2. ScanSegment(part).regex \in Seq(Pieces) /\ Slash \in Seq(Pieces)
  BY ScanIsTyped, SlashTyped
<1>3. PICK rs : rs = Regexes(parts)
  OBVIOUS
<1>4. PICK r : r = ScanSegment(part).regex
  OBVIOUS
<1>5. /\ Join(rs, Slash) \in Seq(Pieces)
      /\ Join(Append(rs, r), Slash) = Join(rs, Slash) \o Slash \o r
  BY <1>1, <1>2, <1>3, <1>4, JoinAppend
<1> QED
  BY <1>3, <1>4, <1>5, RegexesAppend DEF Scanned

LEMMA ScannedOne ==
    ASSUME NEW part \in Texts
    PROVE  Scanned(<<part>>) = ScanSegment(part).regex
<1>1. PICK r : r = ScanSegment(part).regex
  OBVIOUS
<1>2. r \in Seq(Pieces) /\ Slash \in Seq(Pieces)
  BY <1>1, ScanIsTyped, SlashTyped
<1>3. Regexes(<<part>>) = <<r>>
  BY <1>1 DEF Regexes
<1>4. Join(<<r>>, Slash) = r
  BY <1>2, JoinOne
<1> QED
  BY <1>1, <1>3, <1>4 DEF Scanned

\* Another last segment, whose regex goes on from that of the one it replaces.
LEMMA ScannedMore ==
    ASSUME NEW front \in Seq(Texts), NEW one \in Texts, NEW two \in Texts
    PROVE  /\ ScanSegment(two).regex = ScanSegment(one).regex =>
                Scanned(Append(front, two)) = Scanned(Append(front, one))
           /\ \A piece \in Pieces :
                ScanSegment(two).regex = Append(ScanSegment(one).regex, piece) =>
                  Scanned(Append(front, two)) = Append(Scanned(Append(front, one)), piece)
<1>1. PICK r : r = ScanSegment(one).regex
  OBVIOUS
<1>2. PICK s : s = ScanSegment(two).regex
  OBVIOUS
<1>3. r \in Seq(Pieces) /\ s \in Seq(Pieces) /\ Slash \in Seq(Pieces)
  BY <1>1, <1>2, ScanIsTyped, SlashTyped
<1>4. CASE front = <<>>
  <2>1. Append(front, one) = <<one>> /\ Append(front, two) = <<two>>
    BY <1>4
  <2>2. Scanned(Append(front, one)) = r /\ Scanned(Append(front, two)) = s
    BY <1>1, <1>2, <2>1, ScannedOne
  <2> QED
    BY <1>1, <1>2, <2>2
<1>5. CASE front # <<>>
  <2>1. PICK f : f = Scanned(front)
    OBVIOUS
  <2>2. /\ f \in Seq(Pieces)
        /\ Scanned(Append(front, one)) = f \o Slash \o r
        /\ Scanned(Append(front, two)) = f \o Slash \o s
    BY <1>1, <1>2, <1>5, <2>1, ScannedAppend
  <2>3. ASSUME NEW piece \in Pieces, s = Append(r, piece)
        PROVE  f \o Slash \o s = Append(f \o Slash \o r, piece)
    <3>1. PICK g : g = f \o Slash
      OBVIOUS
    <3>2. g \in Seq(Pieces)
      BY <1>3, <2>2, <3>1, ConcatProperties
    <3>3. g \o Append(r, piece) = Append(g \o r, piece)
      BY <1>3, <3>2
    <3> QED
      BY <2>3, <3>1, <3>3
  <2> QED
    BY <1>1, <1>2, <2>2, <2>3
<1> QED
  BY <1>4, <1>5

FilledAsSpelled(pattern, parts, values) ==
    Closed(parts) =>
      /\ Filled(pattern, values).skip = ScanSegment(Last(parts)).inParam
      /\ Filled(pattern, values).text = Spell(Scanned(parts), values).text
      /\ Filled(pattern, values).n =
           Spell(Scanned(parts), values).n + (IF ScanSegment(Last(parts)).inParam THEN 1 ELSE 0)

LEMMA ClosedSlash ==
    ASSUME NEW parts \in Seq(Texts), parts # <<>>, Closed(Append(parts, <<>>))
    PROVE  Closed(parts) /\ ~ScanSegment(Last(parts)).inParam
<1> DEFINE more == Append(parts, <<>>)
<1>1. <<>> \in Texts
  BY EmptyTexts DEF Texts
<1>2. /\ Len(parts) \in Nat /\ Len(more) = Len(parts) + 1
      /\ \A i \in 1 .. Len(parts) : more[i] = parts[i]
  BY <1>1, AppendIs
<1>3. Len(parts) # 0 /\ Last(parts) = parts[Len(parts)]
  BY EmptySeq DEF Last
<1>4. \A i \in 1 .. Len(more) - 1 : ~ScanSegment(more[i]).panic /\ ~ScanSegment(more[i]).inParam
  BY DEF Closed
<1> HIDE DEF more
<1>5. \A i \in 1 .. Len(parts) : ~ScanSegment(parts[i]).panic /\ ~ScanSegment(parts[i]).inParam
  <2> SUFFICES ASSUME NEW i \in 1 .. Len(parts)
               PROVE  ~ScanSegment(parts[i]).panic /\ ~ScanSegment(parts[i]).inParam
    OBVIOUS
  <2>1. i \in 1 .. Len(more) - 1 /\ more[i] = parts[i]
    BY <1>2
  <2> QED
    BY <1>4, <2>1
<1>6. Len(parts) \in 1 .. Len(parts) /\ \A i \in 1 .. Len(parts) - 1 : i \in 1 .. Len(parts)
  BY <1>2, <1>3
<1> QED
  BY <1>3, <1>5, <1>6 DEF Closed

LEMMA PanicStays ==
    ASSUME NEW st \in Scans, NEW ch \in Char, ~Scan(st, ch).panic
    PROVE  ~st.panic
BY Zenon DEF Scan, Scans

LEMMA LastAppended ==
    ASSUME NEW S, NEW s \in Seq(S), NEW x \in S
    PROVE  Last(Append(s, x)) = x
BY AppendProperties, LenProperties DEF Last

LEMMA ClosedMore ==
    ASSUME NEW front \in Seq(Texts), NEW last \in Texts, NEW ch \in Char,
           Closed(Append(front, Append(last, ch)))
    PROVE  Closed(Append(front, last)) /\ ~Scan(ScanSegment(last), ch).panic
<1> DEFINE two == Append(last, ch)
           parts == Append(front, last)
           more  == Append(front, two)
<1>1. two \in Texts
  BY AppendProperties DEF Texts
<1> HIDE DEF two
<1>2. /\ Len(front) \in Nat /\ Len(parts) = Len(front) + 1
      /\ \A i \in 1 .. Len(front) : parts[i] = front[i]
  BY AppendIs
<1>3. /\ Len(more) = Len(front) + 1
      /\ \A i \in 1 .. Len(front) : more[i] = front[i]
  BY <1>1, AppendIs
<1>9. Last(parts) = last /\ Last(more) = two
  BY <1>1, LastAppended, Zenon
<1>4. /\ \A i \in 1 .. Len(more) - 1 : ~ScanSegment(more[i]).panic /\ ~ScanSegment(more[i]).inParam
      /\ ~ScanSegment(Last(more)).panic
  BY DEF Closed, two
<1> HIDE DEF parts, more
<1>5. \A i \in 1 .. Len(parts) - 1 : ~ScanSegment(parts[i]).panic /\ ~ScanSegment(parts[i]).inParam
  <2> SUFFICES ASSUME NEW i \in 1 .. Len(parts) - 1
               PROVE  ~ScanSegment(parts[i]).panic /\ ~ScanSegment(parts[i]).inParam
    OBVIOUS
  <2>1. i \in 1 .. Len(more) - 1 /\ more[i] = parts[i]
    BY <1>2, <1>3
  <2> QED
    BY <1>4, <2>1
<1>6. ~Scan(ScanSegment(last), ch).panic
  <2>1. ScanSegment(two) = Scan(ScanSegment(last), ch)
    BY ScanAppend DEF two
  <2> QED
    BY <1>9, <1>4, <2>1
<1>7. ~ScanSegment(last).panic
  BY <1>6, ScanAppend, PanicStays
<1>8. Closed(parts)
  BY <1>2, <1>9, <1>5, <1>7 DEF Closed
<1> QED
  BY <1>6, <1>8 DEF parts

LEMMA FilledSlash ==
    ASSUME NEW pattern \in Texts, NEW parts \in Seq(Texts), parts # <<>>,
           NEW values, TextValues(values), FilledAsSpelled(pattern, parts, values)
    PROVE  FilledAsSpelled(Append(pattern, "/"), Append(parts, <<>>), values)
<1> SUFFICES ASSUME Closed(Append(parts, <<>>))
             PROVE  /\ Filled(Append(pattern, "/"), values).skip =
                         ScanSegment(Last(Append(parts, <<>>))).inParam
                    /\ Filled(Append(pattern, "/"), values).text =
                         Spell(Scanned(Append(parts, <<>>)), values).text
                    /\ Filled(Append(pattern, "/"), values).n =
                         Spell(Scanned(Append(parts, <<>>)), values).n +
                           (IF ScanSegment(Last(Append(parts, <<>>))).inParam THEN 1 ELSE 0)
  BY DEF FilledAsSpelled
<1>1. "/" \in Char /\ <<>> \in Texts
  BY CharAssumption, EmptyTexts, Zenon DEF Texts
<1>2. PICK f : f = Filled(pattern, values)
  OBVIOUS
<1>3. PICK r : r = Scanned(parts)
  OBVIOUS
<1>4. PICK s : s = Spell(r, values)
  OBVIOUS
<1>5. r \in Seq(Pieces)
  BY <1>1, <1>3, ScannedAppend
<1>6. f \in Fillings /\ Filled(Append(pattern, "/"), values) = FillOne(values, f, "/")
  BY <1>1, <1>2, FillAppend
<1>7. /\ s \in Spellings
      /\ Spell(Append(r, Literal("/")), values) = SpellOne(values, s, Literal("/"))
  BY <1>4, <1>5, SlashTyped, SpellAppend
<1>8. /\ ScanSegment(Last(Append(parts, <<>>))) = NotScanned
      /\ Scanned(Append(parts, <<>>)) = Append(r, Literal("/"))
  <2>1. Last(Append(parts, <<>>)) = <<>>
    BY <1>1, LastAppended
  <2>2. ScanSegment(<<>>).regex = <<>>
    BY ScanEmpty DEF NotScanned
  <2>3. Scanned(Append(parts, <<>>)) = r \o Slash \o <<>>
    BY <1>1, <1>3, <2>2, ScannedAppend
  <2>4. r \o Slash \o <<>> = Append(r, Literal("/"))
    <3>1. PICK p : p = Literal("/")
      OBVIOUS
    <3>2. p \in Pieces
      BY <3>1, SlashTyped
    <3>3. r \o <<p>> \o <<>> = Append(r, p)
      <4> HIDE DEF Pieces
      <4> QED
        BY <1>5, <3>2
    <3> QED
      BY <3>1, <3>3 DEF Slash
  <2> QED
    BY <2>1, <2>3, <2>4, ScanEmpty
<1>9. Closed(parts) /\ ~ScanSegment(Last(parts)).inParam
  BY ClosedSlash
<1>10. f.skip = ScanSegment(Last(parts)).inParam /\ f.text = s.text
  BY <1>2, <1>3, <1>4, <1>9 DEF FilledAsSpelled
<1>11. f.n = s.n
  <2>1. f.n = s.n + 0
    BY <1>2, <1>3, <1>4, <1>9 DEF FilledAsSpelled
  <2>2. s.n \in Nat
    BY <1>7 DEF Spellings
  <2> QED
    BY <2>1, <2>2
<1>12. ~f.skip
  BY <1>9, <1>10
<1>13. /\ FillOne(values, f, "/").text = Append(f.text, "/")
       /\ FillOne(values, f, "/").n = f.n
       /\ FillOne(values, f, "/").skip = f.skip
  BY <1>12 DEF FillOne
<1>14. SpellOne(values, s, Literal("/")) = [text |-> s.text \o <<"/">>, n |-> s.n]
  BY DEF SpellOne, Literal
<1>15. Append(f.text, "/") = s.text \o <<"/">>
  <2>1. PICK t : t = f.text
    OBVIOUS
  <2>2. t \in Seq(Char)
    BY <1>6, <2>1 DEF Fillings, Texts
  <2>3. Append(t, "/") = t \o <<"/">>
    BY <1>1, <2>2, AppendIs
  <2> QED
    BY <1>10, <2>1, <2>3
<1>16. NotScanned.inParam = FALSE
  BY DEF NotScanned
<1>17. s.n \in Nat
  BY <1>7 DEF Spellings
<1>18. /\ FillOne(values, f, "/").skip = FALSE
       /\ FillOne(values, f, "/").text = SpellOne(values, s, Literal("/")).text
       /\ FillOne(values, f, "/").n = SpellOne(values, s, Literal("/")).n + 0
  <2>1. f.skip = FALSE
    BY <1>6, <1>12 DEF Fillings
  <2>2. f.n = s.n + 0
    BY <1>11, <1>17
  <2>3. /\ SpellOne(values, s, Literal("/")).text = s.text \o <<"/">>
        /\ SpellOne(values, s, Literal("/")).n = s.n
    BY <1>14
  <2> QED
    BY <1>13, <1>15, <2>1, <2>2, <2>3, Zenon
<1> QED
  BY <1>6, <1>7, <1>8, <1>16, <1>18, Zenon

LEMMA FilledMore ==
    ASSUME NEW pattern \in Texts, NEW front \in Seq(Texts), NEW last \in Texts,
           NEW ch \in Char, ch # "/", NEW values, TextValues(values),
           FilledAsSpelled(pattern, Append(front, last), values)
    PROVE  FilledAsSpelled(Append(pattern, ch), Append(front, Append(last, ch)), values)
<1>1. PICK two : two = Append(last, ch)
  OBVIOUS
<1>2. PICK parts : parts = Append(front, last)
  OBVIOUS
<1>3. PICK more : more = Append(front, two)
  OBVIOUS
<1> SUFFICES ASSUME Closed(more)
             PROVE  /\ Filled(Append(pattern, ch), values).skip = ScanSegment(Last(more)).inParam
                    /\ Filled(Append(pattern, ch), values).text = Spell(Scanned(more), values).text
                    /\ Filled(Append(pattern, ch), values).n =
                         Spell(Scanned(more), values).n +
                           (IF ScanSegment(Last(more)).inParam THEN 1 ELSE 0)
  BY <1>1, <1>3 DEF FilledAsSpelled
<1>4. two \in Texts
  BY <1>1, AppendProperties DEF Texts
<1>5. parts \in Seq(Texts) /\ parts # <<>> /\ Last(parts) = last /\ Last(more) = two
  BY <1>2, <1>3, <1>4, AppendIs, LastAppended
<1>6. PICK f : f = Filled(pattern, values)
  OBVIOUS
<1>7. PICK r : r = Scanned(parts)
  OBVIOUS
<1>8. PICK s : s = Spell(r, values)
  OBVIOUS
<1>9. PICK st : st = ScanSegment(last)
  OBVIOUS
<1>10. Closed(parts) /\ ~Scan(st, ch).panic
  BY <1>1, <1>2, <1>3, <1>9, ClosedMore
<1>11. r \in Seq(Pieces)
  <2>1. "/" \in Char /\ <<>> \in Texts
    BY CharAssumption, EmptyTexts, Zenon DEF Texts
  <2> QED
    BY <1>5, <1>7, <2>1, ScannedAppend
<1>12. f \in Fillings /\ Filled(Append(pattern, ch), values) = FillOne(values, f, ch)
  BY <1>6, FillAppend
<1>13. s \in Spellings
  BY <1>8, <1>11, SlashTyped, SpellAppend
<1>14. \A piece \in Pieces : Spell(Append(r, piece), values) = SpellOne(values, s, piece)
  BY <1>8, <1>11, SpellAppend
<1>15. st \in Scans /\ ScanSegment(two) = Scan(st, ch)
  BY <1>1, <1>9, ScanAppend
<1>16. /\ f.skip = st.inParam /\ f.text = s.text
       /\ f.n = s.n + (IF st.inParam THEN 1 ELSE 0)
  BY <1>2, <1>5, <1>6, <1>7, <1>8, <1>9, <1>10 DEF FilledAsSpelled
<1>17. /\ f.text \in Texts /\ f.skip \in BOOLEAN /\ f.n \in Nat
       /\ s.text \in Texts /\ s.n \in Nat
       /\ st.inParam \in BOOLEAN /\ st.name \in Texts /\ st.regex \in Seq(Pieces)
  BY <1>12, <1>13, <1>15 DEF Fillings, Spellings, Scans
<1>18. /\ Scan(st, ch).regex = st.regex => Scanned(more) = r
       /\ \A piece \in Pieces :
            Scan(st, ch).regex = Append(st.regex, piece) => Scanned(more) = Append(r, piece)
  BY <1>2, <1>3, <1>4, <1>7, <1>9, <1>15, ScannedMore
<1>19. CASE ch = "{"
  <2>1. /\ ~st.inParam /\ Scan(st, ch).regex = st.regex /\ Scan(st, ch).inParam = TRUE
    BY <1>10, <1>15, <1>19, Zenon DEF Scan, Scans
  <2>2. /\ FillOne(values, f, ch).text = f.text /\ FillOne(values, f, ch).skip = TRUE
        /\ FillOne(values, f, ch).n = f.n + 1
    BY <1>19, Zenon DEF FillOne
  <2>3. Spell(Scanned(more), values) = s
    BY <1>8, <1>18, <2>1
  <2>4. f.n + 1 = s.n + 1
    BY <1>16, <1>17, <2>1
  <2> QED
    BY <1>5, <1>12, <1>15, <1>16, <2>1, <2>2, <2>3, <2>4
<1>20. CASE ch = "}"
  <2>1. PICK piece : piece = Param(st.name)
    OBVIOUS
  <2>2. /\ piece \in Pieces /\ piece.kind = "param"
    BY <1>17, <2>1 DEF Pieces, Param
  <2>3. st.inParam /\ Scan(st, ch).inParam = FALSE /\ Scan(st, ch).regex = Append(st.regex, piece)
    BY <1>10, <1>15, <1>20, <2>1, Zenon DEF Scan, Scans
  <2>4. Spell(Scanned(more), values) = SpellOne(values, s, piece)
    BY <1>14, <1>18, <2>2, <2>3
  <2>5. /\ SpellOne(values, s, piece).text = s.text \o Given(values, s.n + 1)
        /\ SpellOne(values, s, piece).n = s.n + 1
    BY <2>2 DEF SpellOne
  <2>6. /\ FillOne(values, f, ch).text = f.text \o Given(values, f.n)
        /\ FillOne(values, f, ch).skip = FALSE /\ FillOne(values, f, ch).n = f.n
    BY <1>20, Zenon DEF FillOne
  <2>7. f.n = s.n + 1 /\ s.n + 1 = s.n + 1 + 0
    BY <1>16, <1>17, <2>3
  <2> QED
    BY <1>5, <1>12, <1>15, <1>16, <2>3, <2>4, <2>5, <2>6, <2>7
<1>21. CASE ch \notin {"{", "}"} /\ st.inParam
  <2>1. Scan(st, ch).inParam = st.inParam /\ Scan(st, ch).regex = st.regex
    BY <1>15, <1>21, Zenon DEF Scan, Scans
  <2>2. FillOne(values, f, ch) = f
    BY <1>16, <1>21, Zenon DEF FillOne
  <2>3. Spell(Scanned(more), values) = s
    BY <1>8, <1>18, <2>1
  <2> QED
    BY <1>5, <1>12, <1>15, <1>16, <2>1, <2>2, <2>3
<1>22. CASE ch \notin {"{", "}"} /\ ~st.inParam
  <2>1. PICK piece : piece = Literal(ch)
    OBVIOUS
  <2>2. /\ piece \in Pieces /\ piece.kind = "literal" /\ piece.text = <<ch>>
    BY <2>1 DEF Pieces, Literal
  <2>3. Scan(st, ch).inParam = st.inParam /\ Scan(st, ch).regex = Append(st.regex, piece)
    BY <1>15, <1>22, <2>1, Zenon DEF Scan, Scans
  <2>4. Spell(Scanned(more), values) = SpellOne(values, s, piece)
    BY <1>14, <1>18, <2>2, <2>3
  <2>5. /\ SpellOne(values, s, piece).text = s.text \o <<ch>>
        /\ SpellOne(values, s, piece).n = s.n
    BY <2>2 DEF SpellOne
  <2>6. /\ FillOne(values, f, ch).text = Append(f.text, ch)
        /\ FillOne(values, f, ch).skip = f.skip /\ FillOne(values, f, ch).n = f.n
    BY <1>16, <1>22, Zenon DEF FillOne
  <2>7. Append(f.text, ch) = s.text \o <<ch>>
    <3>1. PICK t : t = s.text
      OBVIOUS
    <3>2. t \in Seq(Char)
      BY <1>17, <3>1 DEF Texts
    <3>3. Append(t, ch) = t \o <<ch>>
      BY <3>2, AppendIs
    <3> QED
      BY <1>16, <3>1, <3>3
  <2> QED
    BY <1>5, <1>12, <1>15, <1>16, <2>3, <2>4, <2>5, <2>6, <2>7
<1> QED
  BY <1>19, <1>20, <1>21, <1>22, Zenon

LEMMA FilledIsSpelled ==
    ASSUME NEW pattern \in Texts, NEW values, TextValues(values)
    PROVE  FilledAsSpelled(pattern, Split(pattern, "/"), values)
<1> DEFINE Good == {n \in Nat : \A q \in Texts :
                      Len(q) = n => FilledAsSpelled(q, Split(q, "/"), values)}
<1>1. 0 \in Good
  <2> SUFFICES ASSUME NEW q \in Texts, Len(q) = 0
               PROVE  FilledAsSpelled(q, Split(q, "/"), values)
    OBVIOUS
  <2>1. q = <<>>
    BY EmptySeq DEF Texts
  <2>2. Split(q, "/") = << <<>> >> /\ Filled(q, values) = NotFilled
    BY <2>1, SplitEmpty, FillEmpty
  <2>3. Last(<< <<>> >>) = <<>> /\ <<>> \in Texts
    BY EmptyTexts DEF Last, Texts
  <2>4. ScanSegment(<<>>).regex = <<>> /\ ScanSegment(<<>>).inParam = FALSE
    BY ScanEmpty DEF NotScanned
  <2>5. Spell(Scanned(<< <<>> >>), values) = NotSpelled
    BY <2>3, <2>4, ScannedOne, SpellEmpty
  <2>6. /\ NotFilled.skip = FALSE /\ NotFilled.text = NotSpelled.text
        /\ NotFilled.n = NotSpelled.n + 0
    BY DEF NotFilled, NotSpelled
  <2>7. FilledAsSpelled(q, << <<>> >>, values)
    BY <2>1, <2>2, <2>3, <2>4, <2>5, <2>6, Zenon DEF FilledAsSpelled
  <2> QED
    BY <2>2, <2>7
<1>2. ASSUME NEW n \in Good PROVE n + 1 \in Good
  <2> SUFFICES ASSUME NEW q \in Texts, Len(q) = n + 1
               PROVE  FilledAsSpelled(q, Split(q, "/"), values)
    OBVIOUS
  <2>1. PICK p : p = Front(q)
    OBVIOUS
  <2>2. PICK ch : ch = Last(q)
    OBVIOUS
  <2>3. p \in Texts /\ ch \in Char /\ q = Append(p, ch) /\ Len(p) = n
    <3>1. q # <<>>
      BY EmptySeq
    <3> QED
      BY <2>1, <2>2, <3>1, AppendOf DEF Texts
  <2>4. PICK parts : parts = Split(p, "/")
    OBVIOUS
  <2>5. /\ parts \in Seq(Texts) /\ parts # <<>>
        /\ Split(q, "/") = IF ch = "/" THEN Append(parts, <<>>)
                           ELSE Append(Front(parts), Append(Last(parts), ch))
    BY <2>3, <2>4, SplitAppend DEF Texts
  <2>6. FilledAsSpelled(p, parts, values)
    BY <2>3, <2>4
  <2>7. CASE ch = "/"
    BY <2>3, <2>5, <2>6, <2>7, FilledSlash
  <2>8. CASE ch # "/"
    <3>1. Front(parts) \in Seq(Texts) /\ Last(parts) \in Texts /\ parts = Append(Front(parts), Last(parts))
      BY <2>5, AppendOf
    <3> QED
      BY <2>3, <2>5, <2>6, <2>8, <3>1, FilledMore
  <2> QED
    BY <2>7, <2>8
<1>3. Good = Nat
  <2>1. Good \in SUBSET Nat
    OBVIOUS
  <2> HIDE DEF Good
  <2> QED
    BY <1>1, <1>2, <2>1, SetInduction
<1>4. Len(pattern) \in Nat
  BY LenProperties DEF Texts
<1> QED
  BY <1>3, <1>4

LEMMA OpeningAppend ==
    ASSUME NEW text \in Texts, NEW ch \in Char
    PROVE  /\ Opening(Append(text, ch)) =
                IF ch = "{" THEN Opening(text) \cup {Len(text) + 1} ELSE Opening(text)
           /\ Len(text) + 1 \notin Opening(text)
<1>1. PICK q : q = Append(text, ch)
  OBVIOUS
<1>2. PICK n : n = Len(text)
  OBVIOUS
<1>3. /\ n \in Nat /\ DOMAIN text = 1 .. n /\ DOMAIN q = 1 .. n + 1
      /\ (\A i \in 1 .. n : q[i] = text[i])
      /\ q[n + 1] = ch
  BY <1>1, <1>2, AppendIs DEF Texts
<1>4. \A i : i \in Opening(q) <=> i \in Opening(text) \/ (i = n + 1 /\ ch = "{")
  <2> SUFFICES ASSUME NEW i
               PROVE  i \in Opening(q) <=> i \in Opening(text) \/ (i = n + 1 /\ ch = "{")
    BY Zenon
  <2>1. i \in Opening(q) <=> i \in 1 .. n + 1 /\ q[i] = "{"
    BY <1>3 DEF Opening
  <2>2. i \in Opening(text) <=> i \in 1 .. n /\ text[i] = "{"
    BY <1>3 DEF Opening
  <2>3. /\ i \in 1 .. n + 1 <=> i \in 1 .. n \/ i = n + 1
        /\ i = n + 1 => i \notin 1 .. n
    BY <1>3
  <2> QED
    BY <1>3, <2>1, <2>2, <2>3, Zenon
<1>5. n + 1 \notin Opening(text)
  <2>1. n + 1 \notin 1 .. n
    BY <1>3
  <2> QED
    BY <1>3, <2>1, Zenon DEF Opening
<1>6. Opening(q) = IF ch = "{" THEN Opening(text) \cup {n + 1} ELSE Opening(text)
  BY <1>4, Zenon
<1> QED
  BY <1>1, <1>2, <1>5, <1>6, Zenon

\* What is filled in are as many values as there are opening braces.
LEMMA OpeningCounted ==
    ASSUME NEW pattern \in Texts, NEW values, TextValues(values)
    PROVE  /\ IsFiniteSet(Opening(pattern))
           /\ Cardinality(Opening(pattern)) = Filled(pattern, values).n
<1> DEFINE Counted(q) == /\ IsFiniteSet(Opening(q))
                         /\ Cardinality(Opening(q)) = Filled(q, values).n
           Good == {n \in Nat : \A q \in Texts : Len(q) = n => Counted(q)}
<1>1. 0 \in Good
  <2> SUFFICES ASSUME NEW q \in Texts, Len(q) = 0 PROVE Counted(q)
    OBVIOUS
  <2>1. q = <<>>
    BY EmptySeq DEF Texts
  <2>2. Filled(q, values).n = 0
    BY <2>1, FillEmpty DEF NotFilled
  <2>3. Opening(q) = {}
    BY <2>1 DEF Opening
  <2> QED
    BY <2>2, <2>3, FS_EmptySet
<1>2. ASSUME NEW n \in Good PROVE n + 1 \in Good
  <2> SUFFICES ASSUME NEW q \in Texts, Len(q) = n + 1 PROVE Counted(q)
    OBVIOUS
  <2>1. PICK p : p = Front(q)
    OBVIOUS
  <2>2. PICK ch : ch = Last(q)
    OBVIOUS
  <2>3. p \in Texts /\ ch \in Char /\ q = Append(p, ch) /\ Len(p) = n
    <3>1. q # <<>>
      BY EmptySeq
    <3> QED
      BY <2>1, <2>2, <3>1, AppendOf DEF Texts
  <2>4. Counted(p)
    BY <2>3
  <2>5. /\ Filled(p, values) \in Fillings
        /\ Filled(q, values) = FillOne(values, Filled(p, values), ch)
    BY <2>3, FillAppend
  <2>6. PICK f : f = Filled(p, values)
    OBVIOUS
  <2>7. f.n \in Nat /\ Filled(q, values) = FillOne(values, f, ch)
    BY <2>5, <2>6 DEF Fillings
  <2>9. CASE ch = "{"
    <3>1. Opening(q) = Opening(p) \cup {n + 1} /\ n + 1 \notin Opening(p)
      BY <2>3, <2>9, OpeningAppend, Zenon
    <3>2. Cardinality(Opening(q)) = Cardinality(Opening(p)) + 1 /\ IsFiniteSet(Opening(q))
      BY <2>4, <3>1, FS_AddElement
    <3>3. Filled(q, values).n = f.n + 1
      <4>1. FillOne(values, f, ch).n = f.n + 1
        BY <2>9, Zenon DEF FillOne
      <4> QED
        BY <2>7, <4>1
    <3> QED
      BY <2>4, <2>6, <3>2, <3>3
  <2>10. CASE ch # "{"
    <3>1. Opening(q) = Opening(p)
      BY <2>3, <2>10, OpeningAppend, Zenon
    <3>2. Filled(q, values).n = f.n
      <4>1. FillOne(values, f, ch).n = f.n
        BY <2>10, Zenon DEF FillOne
      <4> QED
        BY <2>7, <4>1
    <3> QED
      BY <2>4, <2>6, <3>1, <3>2
  <2> QED
    BY <2>9, <2>10, Zenon
<1>3. Good = Nat
  <2>1. Good \in SUBSET Nat
    OBVIOUS
  <2> HIDE DEF Good
  <2> QED
    BY <1>1, <1>2, <2>1, SetInduction
<1>4. Len(pattern) \in Nat
  BY LenProperties DEF Texts
<1> QED
  BY <1>3, <1>4

PatternParts(pattern) == Split(TrimSlashes(pattern), "/")

\* The regex of a pattern, and when there is none.
LEMMA RegexOfPattern ==
    ASSUME NEW pattern \in Texts
    PROVE  /\ TrimSlashes(pattern) \in Texts
           /\ PatternParts(pattern) \in Seq(Texts) /\ PatternParts(pattern) # <<>>
           /\ BuildRegex(pattern).regex = Scanned(PatternParts(pattern))
           /\ ~BuildRegex(pattern).panics =>
                /\ Closed(PatternParts(pattern))
                /\ ~ScanSegment(Last(PatternParts(pattern))).inParam
<1> DEFINE parts == PatternParts(pattern)
           scanned == [i \in DOMAIN parts |-> ScanSegment(parts[i])]
<1>1. TrimSlashes(pattern) \in Texts
  BY TrimTyped DEF Texts
<1>2. parts \in Seq(Texts) /\ parts # <<>>
  BY <1>1, SplitTyped DEF PatternParts, Texts
<1>3. DOMAIN parts = 1 .. Len(parts) /\ Len(parts) \in Nat \ {0} /\ Last(parts) = parts[Len(parts)]
  <2> HIDE DEF parts
  <2> QED
    BY <1>2, LenProperties, EmptySeq DEF Last
<1>4. BuildRegex(pattern).regex =
        Join([i \in DOMAIN scanned |-> scanned[i].regex], <<Literal("/")>>)
  BY DEF BuildRegex, PatternParts
<1>5. BuildRegex(pattern).panics =
        \E i \in DOMAIN scanned : scanned[i].panic \/ scanned[i].inParam
  BY DEF BuildRegex, PatternParts
<1> HIDE DEF parts
<1>6. [i \in DOMAIN scanned |-> scanned[i].regex] = Regexes(parts)
  BY DEF Regexes
<1>7. BuildRegex(pattern).regex = Scanned(parts)
  BY <1>4, <1>6 DEF Scanned, Slash
<1>8. ASSUME ~BuildRegex(pattern).panics
      PROVE  Closed(parts) /\ ~ScanSegment(Last(parts)).inParam
  <2>1. \A i \in 1 .. Len(parts) : ~ScanSegment(parts[i]).panic /\ ~ScanSegment(parts[i]).inParam
    BY <1>3, <1>5, <1>8
  <2>2. Len(parts) \in 1 .. Len(parts) /\ \A i \in 1 .. Len(parts) - 1 : i \in 1 .. Len(parts)
    BY <1>3
  <2> QED
    BY <1>3, <2>1, <2>2 DEF Closed
<1> QED
  BY <1>1, <1>2, <1>7, <1>8 DEF parts

\* Values for the parameters of a pattern fill it to what they make of its regex.
LEMMA FillIsSpell ==
    ASSUME NEW pattern \in Texts, ~BuildRegex(pattern).panics, NEW values, TextValues(values)
    PROVE  /\ Fill(TrimSlashes(pattern), values) = Spell(BuildRegex(pattern).regex, values).text
           /\ IsFiniteSet(Opening(TrimSlashes(pattern)))
           /\ Cardinality(Opening(TrimSlashes(pattern))) = Spell(BuildRegex(pattern).regex, values).n
<1>1. PICK q : q = TrimSlashes(pattern)
  OBVIOUS
<1>2. PICK parts : parts = PatternParts(pattern)
  OBVIOUS
<1>3. /\ q \in Texts /\ parts = Split(q, "/")
      /\ BuildRegex(pattern).regex = Scanned(parts)
      /\ Closed(parts) /\ ~ScanSegment(Last(parts)).inParam
      /\ Scanned(parts) \in Seq(Pieces)
  <2>1. BuildRegex(pattern).regex \in Seq(Pieces)
    BY RegexTyped
  <2> QED
    BY <1>1, <1>2, <2>1, RegexOfPattern DEF PatternParts
<1>4. /\ Filled(q, values).text = Spell(Scanned(parts), values).text
      /\ Filled(q, values).n = Spell(Scanned(parts), values).n + 0
  BY <1>3, FilledIsSpelled DEF FilledAsSpelled
<1>5. Spell(Scanned(parts), values).n \in Nat
  BY <1>3, SlashTyped, SpellAppend DEF Spellings
<1> QED
  BY <1>1, <1>3, <1>4, <1>5, OpeningCounted, FillIsText

-----------------------------------------------------------------------------
(***************************************************************************)
(* The captures of a match, row by row: the row of a piece says of every   *)
(* place in the text what the pieces from this one on capture from there.  *)
(***************************************************************************)
Fits(text, piece, j) ==
    IF piece.kind = "literal"
    THEN {n \in {1} : IsPrefix(piece.text, SubSeq(text, j + 1, Len(text)))}
    ELSE {n \in 1..(Len(text) - j) : ~Contains(SubSeq(text, j + 1, j + n), "/")}

Ends(text, piece, j, next) == {n \in Fits(text, piece, j) : next[j + n] # {}}

Entry(text, piece, j, next) ==
    IF Ends(text, piece, j, next) = {} THEN {}
    ELSE IF piece.kind = "literal" THEN next[j + 1]
    ELSE {<<SubSeq(text, j + 1, j + Max(Ends(text, piece, j, next)))>> \o c :
            c \in next[j + Max(Ends(text, piece, j, next))]}

Row(text, piece, next) == [j \in 0..Len(text) |-> Entry(text, piece, j, next)]

LastRow(text) == [j \in 0..Len(text) |-> IF j = Len(text) THEN {<<>>} ELSE {}]

\* The rows from the i-th on.
Rows(f, i, regex, text) ==
    /\ f[Len(regex) + 1] = LastRow(text)
    /\ \A m \in i .. Len(regex) : f[m] = Row(text, regex[m], f[m + 1])

LEMMA RowsExist ==
    ASSUME NEW regex, Len(regex) \in Nat, NEW text
    PROVE  \E f : f = [i \in 1 .. Len(regex) + 1 |-> f[i]] /\ Rows(f, 1, regex, text)
<1>1. PICK N : N = Len(regex)
  OBVIOUS
<1> DEFINE Good == {k \in Nat : k <= N => \E f : Rows(f, N + 1 - k, regex, text)}
<1>2. 0 \in Good
  <2> DEFINE f == [i \in {N + 1} |-> LastRow(text)]
  <2>1. f[Len(regex) + 1] = LastRow(text)
    BY <1>1
  <2>2. N + 1 - 0 .. Len(regex) = {}
    BY <1>1
  <2>3. Rows(f, N + 1 - 0, regex, text)
    <3> HIDE DEF f
    <3> QED
      BY <2>1, <2>2 DEF Rows
  <2> QED
    BY <2>3
<1>3. ASSUME NEW k \in Good PROVE k + 1 \in Good
  <2> SUFFICES ASSUME k + 1 <= N PROVE \E f : Rows(f, N + 1 - (k + 1), regex, text)
    OBVIOUS
  <2>1. PICK g : Rows(g, N + 1 - k, regex, text)
    BY <1>1
  <2>2. PICK i : i = N - k
    OBVIOUS
  <2>3. /\ i \in 1 .. N /\ N + 1 - k = i + 1 /\ N + 1 - (k + 1) = i /\ N + 1 # i
        /\ i + 1 \in i .. N + 1 /\ N + 1 \in i .. N + 1 /\ i \in i .. N + 1
        /\ \A m \in i .. N : m = i \/ m \in i + 1 .. N
        /\ \A m \in i + 1 .. N : m # i /\ m + 1 # i /\ m \in i .. N + 1 /\ m + 1 \in i .. N + 1
        /\ i + 1 # i
    BY <1>1, <2>2
  <2> DEFINE f == [m \in i .. N + 1 |-> IF m = i THEN Row(text, regex[i], g[i + 1]) ELSE g[m]]
  <2>4. /\ f[i] = Row(text, regex[i], g[i + 1])
        /\ \A m \in i .. N + 1 : m # i => f[m] = g[m]
    BY <2>3
  <2> HIDE DEF f
  <2>5. f[N + 1] = LastRow(text)
    BY <1>1, <2>1, <2>3, <2>4 DEF Rows
  <2>6. ASSUME NEW m \in i .. N PROVE f[m] = Row(text, regex[m], f[m + 1])
    <3>1. CASE m = i
      <4>1. f[i + 1] = g[i + 1]
        BY <2>3, <2>4
      <4> QED
        BY <2>4, <3>1, <4>1
    <3>2. CASE m \in i + 1 .. N
      <4>1. f[m] = g[m] /\ f[m + 1] = g[m + 1]
        BY <2>3, <2>4, <3>2
      <4>2. g[m] = Row(text, regex[m], g[m + 1])
        BY <1>1, <2>1, <2>3, <3>2 DEF Rows
      <4> QED
        BY <4>1, <4>2
    <3> QED
      BY <2>3, <3>1, <3>2
  <2>7. Rows(f, i, regex, text)
    BY <1>1, <2>5, <2>6 DEF Rows
  <2> QED
    BY <2>3, <2>7
<1>4. Good = Nat
  <2>1. Good \in SUBSET Nat
    OBVIOUS
  <2> HIDE DEF Good
  <2> QED
    BY <1>2, <1>3, <2>1, SetInduction
<1>5. PICK g : Rows(g, 1, regex, text)
  <2>1. N \in Good /\ N + 1 - N = 1
    BY <1>1, <1>4
  <2> QED
    BY <1>1, <2>1
<1> DEFINE f == [i \in 1 .. Len(regex) + 1 |-> g[i]]
<1>6. \A i \in 1 .. Len(regex) + 1 : f[i] = g[i]
  OBVIOUS
<1>7. f = [i \in 1 .. Len(regex) + 1 |-> f[i]]
  OBVIOUS
<1> HIDE DEF f
<1>8. /\ Len(regex) + 1 \in 1 .. Len(regex) + 1
      /\ \A m \in 1 .. Len(regex) : m \in 1 .. Len(regex) + 1 /\ m + 1 \in 1 .. Len(regex) + 1
  OBVIOUS
<1>9. Rows(f, 1, regex, text)
  BY <1>5, <1>6, <1>8 DEF Rows
<1> QED
  BY <1>7, <1>9

LEMMA CapturesUnfold ==
    ASSUME NEW regex, Len(regex) \in Nat, NEW text
    PROVE  \E f : Rows(f, 1, regex, text) /\ Captures(regex, text) = f[1][0]
<1> DEFINE rest(j) == SubSeq(text, j + 1, Len(text))
           fits(piece, j) ==
             IF piece.kind = "literal" THEN {n \in {1} : IsPrefix(piece.text, rest(j))}
             ELSE {n \in 1..(Len(text) - j) : ~Contains(SubSeq(text, j + 1, j + n), "/")}
           Body(from) ==
             [i \in 1..(Len(regex) + 1) |->
               [j \in 0..Len(text) |->
                  IF i > Len(regex) THEN IF j = Len(text) THEN {<<>>} ELSE {}
                  ELSE LET ends == {n \in fits(regex[i], j) : from[i + 1][j + n] # {}}
                       IN  IF ends = {} THEN {}
                           ELSE IF regex[i].kind = "literal" THEN from[i + 1][j + 1]
                           ELSE {<<SubSeq(text, j + 1, j + Max(ends))>> \o c :
                                   c \in from[i + 1][j + Max(ends)]}]]
           chosen == CHOOSE from : from = Body(from)
<1>1. Captures(regex, text) = chosen[1][0]
  BY DEF Captures
<1>2. \A from : Body(from) = [i \in 1..(Len(regex) + 1) |->
                    [j \in 0..Len(text) |->
                       IF i > Len(regex) THEN IF j = Len(text) THEN {<<>>} ELSE {}
                       ELSE Entry(text, regex[i], j, from[i + 1])]]
  BY DEF Entry, Ends, Fits
<1> HIDE DEF Body
<1>3. \A from : \A i \in 1 .. Len(regex) :
         Body(from)[i] = Row(text, regex[i], from[i + 1])
  <2> SUFFICES ASSUME NEW from, NEW i \in 1 .. Len(regex)
               PROVE  Body(from)[i] = Row(text, regex[i], from[i + 1])
    OBVIOUS
  <2>1. i \in 1 .. Len(regex) + 1 /\ ~(i > Len(regex))
    OBVIOUS
  <2>2. Body(from)[i] = [j \in 0..Len(text) |-> Entry(text, regex[i], j, from[i + 1])]
    BY <1>2, <2>1
  <2> QED
    BY <2>2 DEF Row
<1>4. \A from : Body(from)[Len(regex) + 1] = LastRow(text)
  <2> SUFFICES ASSUME NEW from PROVE Body(from)[Len(regex) + 1] = LastRow(text)
    OBVIOUS
  <2>1. Len(regex) + 1 \in 1 .. Len(regex) + 1 /\ Len(regex) + 1 > Len(regex)
    OBVIOUS
  <2> QED
    BY <1>2, <2>1 DEF LastRow
<1>5. \A from : Body(from) = [i \in 1 .. Len(regex) + 1 |-> Body(from)[i]]
  BY <1>2
<1>6. \E from : from = Body(from)
  <2>1. PICK f : f = [i \in 1 .. Len(regex) + 1 |-> f[i]] /\ Rows(f, 1, regex, text)
    BY RowsExist
  <2>2. ASSUME NEW i \in 1 .. Len(regex) + 1 PROVE f[i] = Body(f)[i]
    <3>1. i \in 1 .. Len(regex) \/ i = Len(regex) + 1
      OBVIOUS
    <3> QED
      BY <1>3, <1>4, <2>1, <3>1 DEF Rows
  <2>3. f = Body(f)
    BY <1>5, <2>1, <2>2
  <2> QED
    BY <2>3
<1>7. chosen = Body(chosen)
  BY <1>6
<1> HIDE DEF chosen
<1>8. Rows(chosen, 1, regex, text)
  BY <1>3, <1>4, <1>7 DEF Rows
<1> QED
  BY <1>1, <1>8

-----------------------------------------------------------------------------
(***************************************************************************)
(* Prefixes of a text.                                                     *)
(***************************************************************************)
PrefixOf(s, t) == Len(s) <= Len(t) /\ \A i \in 1 .. Len(s) : t[i] = s[i]

LEMMA PrefixAll ==
    ASSUME NEW s \in Texts, NEW t \in Texts, PrefixOf(s, t), Len(s) = Len(t)
    PROVE  s = t
<1>1. \A i \in 1 .. Len(s) : s[i] = t[i]
  BY DEF PrefixOf
<1> QED
  BY <1>1, SeqEqual DEF Texts

LEMMA PrefixOfConcat ==
    ASSUME NEW s \in Texts, NEW u \in Texts
    PROVE  PrefixOf(s, s \o u) /\ s \o u \in Texts /\ Len(s \o u) = Len(s) + Len(u)
BY ConcatProperties, LenProperties DEF PrefixOf, Texts

LEMMA PrefixTransitive ==
    ASSUME NEW s \in Texts, NEW t \in Texts, NEW u \in Texts, PrefixOf(s, t), PrefixOf(t, u)
    PROVE  PrefixOf(s, u)
<1>1. Len(s) \in Nat /\ Len(t) \in Nat /\ Len(u) \in Nat
  BY LenProperties DEF Texts
<1> QED
  BY <1>1 DEF PrefixOf

\* Going on with what follows in the text.
LEMMA PrefixGoesOn ==
    ASSUME NEW s \in Texts, NEW u \in Texts, NEW text \in Texts, PrefixOf(s, text),
           Len(s) + Len(u) <= Len(text),
           \A i \in 1 .. Len(u) : u[i] = text[Len(s) + i]
    PROVE  PrefixOf(s \o u, text)
<1>1. PICK t : t = s \o u
  OBVIOUS
<1>2. /\ Len(t) = Len(s) + Len(u) /\ Len(s) \in Nat /\ Len(u) \in Nat
      /\ \A i \in 1 .. Len(s) : t[i] = s[i]
      /\ \A i \in Len(s) + 1 .. Len(s) + Len(u) : t[i] = u[i - Len(s)]
  BY <1>1, ConcatProperties, LenProperties DEF Texts
<1>3. ASSUME NEW i \in 1 .. Len(t) PROVE text[i] = t[i]
  <2>1. CASE i \in 1 .. Len(s)
    BY <1>2, <2>1 DEF PrefixOf
  <2>2. CASE i \in Len(s) + 1 .. Len(s) + Len(u)
    <3>1. PICK m \in 1 .. Len(u) : m = i - Len(s) /\ Len(s) + m = i
      BY <1>2, <2>2
    <3>2. t[i] = u[m] /\ u[m] = text[Len(s) + m]
      BY <1>2, <2>2, <3>1
    <3> QED
      BY <3>1, <3>2
  <2> QED
    BY <1>2, <2>1, <2>2
<1> QED
  BY <1>1, <1>2, <1>3 DEF PrefixOf

\* What was gone on with.
LEMMA PrefixWentOn ==
    ASSUME NEW s \in Texts, NEW u \in Texts, NEW text \in Texts, PrefixOf(s \o u, text)
    PROVE  /\ Len(s) + Len(u) <= Len(text) /\ Len(s) \in Nat /\ Len(u) \in Nat
           /\ \A i \in 1 .. Len(u) : u[i] = text[Len(s) + i]
<1>1. PICK t : t = s \o u
  OBVIOUS
<1>2. /\ Len(t) = Len(s) + Len(u) /\ Len(s) \in Nat /\ Len(u) \in Nat
      /\ \A i \in Len(s) + 1 .. Len(s) + Len(u) : t[i] = u[i - Len(s)]
  BY <1>1, ConcatProperties, LenProperties DEF Texts
<1>3. Len(t) <= Len(text) /\ \A i \in 1 .. Len(t) : text[i] = t[i]
  BY <1>1 DEF PrefixOf
<1>4. ASSUME NEW m \in 1 .. Len(u) PROVE u[m] = text[Len(s) + m]
  <2>1. PICK i : i = Len(s) + m
    OBVIOUS
  <2>2. i \in Len(s) + 1 .. Len(s) + Len(u) /\ i - Len(s) = m /\ i \in 1 .. Len(t)
    BY <1>2, <2>1
  <2> QED
    BY <1>2, <1>3, <2>1, <2>2
<1> QED
  BY <1>2, <1>3, <1>4

LEMMA RestOfText ==
    ASSUME NEW text \in Texts, NEW j \in 0 .. Len(text), NEW n \in 0 .. Len(text) - j
    PROVE  /\ SubSeq(text, j + 1, j + n) \in Texts
           /\ Len(SubSeq(text, j + 1, j + n)) = n
           /\ \A i \in 1 .. n : SubSeq(text, j + 1, j + n)[i] = text[j + i]
<1>1. Len(text) \in Nat
  BY LenProperties DEF Texts
<1>2. PICK l, h : l = j + 1 /\ h = j + n
  OBVIOUS
<1>3. l \in 1 .. Len(text) + 1 /\ h \in 0 .. Len(text) /\ h - l + 1 = n
      /\ (IF l <= h THEN h - l + 1 ELSE 0) = n
      /\ \A i \in 1 .. n : l + i - 1 = j + i
  BY <1>1, <1>2
<1>4. /\ SubSeq(text, l, h) \in Seq(Char)
      /\ Len(SubSeq(text, l, h)) = n
      /\ \A i \in 1 .. h - l + 1 : SubSeq(text, l, h)[i] = text[l + i - 1]
  BY <1>3, SubSeqTyped DEF Texts
<1> QED
  BY <1>2, <1>3, <1>4 DEF Texts

LEMMA FirstOnly ==
    ASSUME NEW S, NEW s \in Seq(S), 1 <= Len(s)
    PROVE  SubSeq(s, 1, 1) = <<s[1]>>
<1>1. PICK t : t = SubSeq(s, 1, 1)
  OBVIOUS
<1>2. 1 \in 1 .. Len(s) + 1 /\ 1 \in 0 .. Len(s)
  BY LenProperties
<1>3. t \in Seq(S) /\ Len(t) = 1 /\ t[1] = s[1]
  <2>1. \A i \in 1 .. 1 - 1 + 1 : t[i] = s[1 + i - 1]
    BY <1>1, <1>2, SubSeqTyped
  <2>2. 1 \in 1 .. 1 - 1 + 1 /\ 1 + 1 - 1 = 1
    OBVIOUS
  <2>3. t[1] = s[1]
    BY <2>1, <2>2
  <2> QED
    BY <1>1, <1>2, <2>3, SubSeqTyped
<1>4. t = <<s[1]>>
  BY <1>3
<1> QED
  BY <1>1, <1>4

LEMMA LiteralFits ==
    ASSUME NEW text \in Texts, NEW j \in 0 .. Len(text), NEW ch
    PROVE  IsPrefix(<<ch>>, SubSeq(text, j + 1, Len(text))) <=> j < Len(text) /\ text[j + 1] = ch
<1>1. Len(text) \in Nat
  BY LenProperties DEF Texts
<1>2. PICK n : n = Len(text) - j
  OBVIOUS
<1>3. n \in Nat /\ n \in 0 .. Len(text) - j /\ Len(text) = j + n /\ j \in Nat
  BY <1>1, <1>2
<1>4. PICK rest : rest = SubSeq(text, j + 1, j + n)
  OBVIOUS
<1>5. rest \in Texts /\ Len(rest) = n /\ \A i \in 1 .. n : rest[i] = text[j + i]
  BY <1>3, <1>4, RestOfText
<1>6. IsPrefix(<<ch>>, rest) <=> 1 <= n /\ SubSeq(<<ch>>, 1, 1) = SubSeq(rest, 1, 1)
  BY <1>5 DEF IsPrefix
<1>7. SubSeq(<<ch>>, 1, 1) = <<ch>>
  <2>1. PICK one : one = <<ch>>
    OBVIOUS
  <2>2. one \in Seq({ch}) /\ 1 <= Len(one) /\ one[1] = ch
    BY <2>1
  <2>3. SubSeq(one, 1, 1) = <<one[1]>>
    BY <2>2, FirstOnly
  <2> QED
    BY <2>1, <2>2, <2>3
<1>8. 1 <= n => SubSeq(rest, 1, 1) = <<text[j + 1]>>
  <2> SUFFICES ASSUME 1 <= n PROVE SubSeq(rest, 1, 1) = <<text[j + 1]>>
    OBVIOUS
  <2>1. rest[1] = text[j + 1]
    BY <1>3, <1>5
  <2> QED
    BY <1>3, <1>5, <2>1, FirstOnly DEF Texts
<1>9. 1 <= n <=> j < Len(text)
  BY <1>3
<1>10. <<ch>> = <<text[j + 1]>> <=> text[j + 1] = ch
  OBVIOUS
<1> QED
  BY <1>3, <1>4, <1>6, <1>7, <1>8, <1>9, <1>10

-----------------------------------------------------------------------------
(***************************************************************************)
(* A regex spelled out piece by piece.                                     *)
(***************************************************************************)
Upto(regex, k, values) == Spell(SubSeq(regex, 1, k), values)

LEMMA OneMore ==
    ASSUME NEW S, NEW s \in Seq(S), NEW k \in 0 .. Len(s) - 1
    PROVE  /\ SubSeq(s, 1, k) \in Seq(S) /\ s[k + 1] \in S
           /\ SubSeq(s, 1, k + 1) = Append(SubSeq(s, 1, k), s[k + 1])
<1>1. Len(s) \in Nat /\ k \in 0 .. Len(s) /\ k + 1 \in 0 .. Len(s) /\ k + 1 \in 1 .. Len(s)
      /\ 1 \in 1 .. Len(s) + 1 /\ k \in Nat
  BY LenProperties
<1>2. PICK t : t = SubSeq(s, 1, k)
  OBVIOUS
<1>3. PICK u : u = SubSeq(s, 1, k + 1)
  OBVIOUS
<1>4. /\ t \in Seq(S) /\ Len(t) = k /\ \A i \in 1 .. k : t[i] = s[i]
  <2>1. /\ t \in Seq(S) /\ Len(t) = IF 1 <= k THEN k - 1 + 1 ELSE 0
        /\ \A i \in 1 .. k - 1 + 1 : t[i] = s[1 + i - 1]
    BY <1>1, <1>2, SubSeqTyped
  <2> QED
    BY <1>1, <2>1
<1>5. /\ u \in Seq(S) /\ Len(u) = k + 1 /\ \A i \in 1 .. k + 1 : u[i] = s[i]
  <2>1. /\ u \in Seq(S) /\ Len(u) = IF 1 <= k + 1 THEN k + 1 - 1 + 1 ELSE 0
        /\ \A i \in 1 .. k + 1 - 1 + 1 : u[i] = s[1 + i - 1]
    BY <1>1, <1>3, SubSeqTyped
  <2> QED
    BY <1>1, <2>1
<1>6. s[k + 1] \in S
  BY <1>1, ElementOfSeq
<1>7. PICK w : w = Append(t, s[k + 1])
  OBVIOUS
<1>8. w \in Seq(S) /\ Len(w) = k + 1 /\ w[k + 1] = s[k + 1] /\ \A i \in 1 .. k : w[i] = t[i]
  BY <1>4, <1>6, <1>7, AppendIs
<1>9. \A i \in 1 .. Len(u) : u[i] = w[i]
  <2> SUFFICES ASSUME NEW i \in 1 .. k + 1 PROVE u[i] = w[i]
    BY <1>5
  <2>1. i \in 1 .. k \/ i = k + 1
    BY <1>1
  <2> QED
    BY <1>4, <1>5, <1>8, <2>1
<1>10. u = w
  BY <1>5, <1>8, <1>9, SeqEqual
<1> QED
  BY <1>2, <1>3, <1>4, <1>6, <1>7, <1>10

LEMMA UptoSteps ==
    ASSUME NEW regex \in Seq(Pieces), NEW values, TextValues(values)
    PROVE  /\ Upto(regex, 0, values) = NotSpelled
           /\ Upto(regex, Len(regex), values) = Spell(regex, values)
           /\ \A k \in 0 .. Len(regex) : Upto(regex, k, values) \in Spellings
           /\ \A k \in 0 .. Len(regex) - 1 :
                Upto(regex, k + 1, values) = SpellOne(values, Upto(regex, k, values), regex[k + 1])
<1> HIDE DEF Pieces, Spellings
<1>1. Len(regex) \in Nat
  BY LenProperties
<1>2. SubSeq(regex, 1, 0) = <<>>
  OBVIOUS
<1>3. SubSeq(regex, 1, Len(regex)) = regex
  BY SubSeqFull
<1>4. ASSUME NEW k \in 0 .. Len(regex) PROVE Upto(regex, k, values) \in Spellings
  <2>1. SubSeq(regex, 1, k) \in Seq(Pieces)
    BY <1>1, SubSeqTyped
  <2>2. Literal("/") \in Pieces
    BY SlashTyped
  <2> QED
    BY <2>1, <2>2, SpellAppend DEF Upto
<1>5. ASSUME NEW k \in 0 .. Len(regex) - 1
      PROVE  Upto(regex, k + 1, values) = SpellOne(values, Upto(regex, k, values), regex[k + 1])
  <2>1. PICK t : t = SubSeq(regex, 1, k)
    OBVIOUS
  <2>2. PICK piece : piece = regex[k + 1]
    OBVIOUS
  <2>3. t \in Seq(Pieces) /\ piece \in Pieces /\ SubSeq(regex, 1, k + 1) = Append(t, piece)
    BY <2>1, <2>2, OneMore
  <2>4. Spell(Append(t, piece), values) = SpellOne(values, Spell(t, values), piece)
    BY <2>3, SpellAppend
  <2> QED
    BY <2>1, <2>2, <2>3, <2>4 DEF Upto
<1> QED
  BY <1>2, <1>3, <1>4, <1>5, SpellEmpty DEF Upto

\* How many parameters there are among the first pieces of a regex.
Before(regex, k) == Upto(regex, k, <<>>).n

LEMMA NoValues == TextValues(<<>>)
BY DEF TextValues

LEMMA BeforeSteps ==
    ASSUME NEW regex \in Seq(Pieces)
    PROVE  /\ Before(regex, 0) = 0
           /\ \A k \in 0 .. Len(regex) : Before(regex, k) \in Nat
           /\ \A k \in 0 .. Len(regex) - 1 :
                Before(regex, k + 1) =
                  Before(regex, k) + (IF regex[k + 1].kind = "literal" THEN 0 ELSE 1)
<1>1. Before(regex, 0) = 0
  BY NoValues, UptoSteps DEF Before, NotSpelled
<1>2. \A k \in 0 .. Len(regex) : Before(regex, k) \in Nat
  BY NoValues, UptoSteps DEF Before, Spellings
<1>3. ASSUME NEW k \in 0 .. Len(regex) - 1
      PROVE  Before(regex, k + 1) =
               Before(regex, k) + (IF regex[k + 1].kind = "literal" THEN 0 ELSE 1)
  <2>1. PICK s : s = Upto(regex, k, <<>>)
    OBVIOUS
  <2>2. Upto(regex, k + 1, <<>>) = SpellOne(<<>>, s, regex[k + 1])
    BY <2>1, NoValues, UptoSteps
  <2>3. k \in 0 .. Len(regex)
    BY LenProperties
  <2>4. s \in Spellings
    BY <2>1, <2>3, NoValues, UptoSteps
  <2>5. s.n \in Nat
    BY <2>4 DEF Spellings
  <2>6. SpellOne(<<>>, s, regex[k + 1]).n =
          s.n + (IF regex[k + 1].kind = "literal" THEN 0 ELSE 1)
    BY <2>5 DEF SpellOne
  <2> QED
    BY <2>1, <2>2, <2>6 DEF Before
<1> QED
  BY <1>1, <1>2, <1>3

\* ... whatever their values are.
LEMMA UptoCounts ==
    ASSUME NEW regex \in Seq(Pieces), NEW values, TextValues(values), NEW k \in 0 .. Len(regex)
    PROVE  Upto(regex, k, values).n = Before(regex, k)
<1> DEFINE Good == {m \in Nat : m <= Len(regex) => Upto(regex, m, values).n = Before(regex, m)}
<1>1. 0 \in Good
  BY UptoSteps, BeforeSteps DEF NotSpelled
<1>2. ASSUME NEW m \in Good PROVE m + 1 \in Good
  <2> SUFFICES ASSUME m + 1 <= Len(regex)
               PROVE  Upto(regex, m + 1, values).n = Before(regex, m + 1)
    OBVIOUS
  <2>1. Len(regex) \in Nat
    BY LenProperties
  <2>2. m <= Len(regex) /\ m \in 0 .. Len(regex) - 1 /\ m \in 0 .. Len(regex)
    BY <2>1
  <2>3. PICK s : s = Upto(regex, m, values)
    OBVIOUS
  <2>4. s.n = Before(regex, m) /\ Before(regex, m) \in Nat
    BY <2>2, <2>3, BeforeSteps
  <2>5. Upto(regex, m + 1, values) = SpellOne(values, s, regex[m + 1])
    BY <2>2, <2>3, UptoSteps
  <2>6. SpellOne(values, s, regex[m + 1]).n =
          s.n + (IF regex[m + 1].kind = "literal" THEN 0 ELSE 1)
    BY <2>4 DEF SpellOne
  <2> QED
    BY <2>2, <2>4, <2>5, <2>6, BeforeSteps
<1>3. Good = Nat
  <2>1. Good \in SUBSET Nat
    OBVIOUS
  <2> HIDE DEF Good
  <2> QED
    BY <1>1, <1>2, <2>1, SetInduction
<1>4. k \in Nat /\ k <= Len(regex)
  BY LenProperties
<1> QED
  BY <1>3, <1>4

\* What is spelled out first stays.
LEMMA UptoGrows ==
    ASSUME NEW regex \in Seq(Pieces), NEW values, TextValues(values), NEW k \in 0 .. Len(regex)
    PROVE  PrefixOf(Upto(regex, k, values).text, Spell(regex, values).text)
<1> DEFINE at(m) == Upto(regex, m, values).text
           Good == {m \in Nat : k <= m /\ m <= Len(regex) => PrefixOf(at(k), at(m))}
<1>1. Len(regex) \in Nat /\ k \in Nat
  BY LenProperties
<1>2. \A m \in 0 .. Len(regex) : at(m) \in Texts
  BY UptoSteps DEF Spellings
<1>3. PrefixOf(at(k), at(k))
  BY <1>2, LenProperties DEF PrefixOf, Texts
<1>4. ASSUME NEW m \in 0 .. Len(regex) - 1 PROVE PrefixOf(at(m), at(m + 1))
  <2>1. m \in 0 .. Len(regex)
    BY <1>1
  <2>2. PICK s : s = Upto(regex, m, values)
    OBVIOUS
  <2>3. PICK piece : piece = regex[m + 1]
    OBVIOUS
  <2>4. piece \in Pieces
    BY <2>3, OneMore
  <2>5. s \in Spellings
    BY <2>1, <2>2, UptoSteps
  <2>6. Upto(regex, m + 1, values) = SpellOne(values, s, piece)
    BY <2>2, <2>3, UptoSteps
  <2>7. s.text \in Texts /\ piece.text \in Texts /\ Given(values, s.n + 1) \in Texts
    BY <2>4, <2>5, PieceTyped, GivenTyped DEF Spellings
  <2>8. \/ SpellOne(values, s, piece).text = s.text \o piece.text
        \/ SpellOne(values, s, piece).text = s.text \o Given(values, s.n + 1)
    BY DEF SpellOne
  <2>9. PrefixOf(s.text, SpellOne(values, s, piece).text)
    BY <2>7, <2>8, PrefixOfConcat
  <2> QED
    BY <2>2, <2>6, <2>9
<1> HIDE DEF at
<1>5. 0 \in Good
  BY <1>1, <1>3
<1>6. ASSUME NEW m \in Good PROVE m + 1 \in Good
  <2> SUFFICES ASSUME k <= m + 1, m + 1 <= Len(regex) PROVE PrefixOf(at(k), at(m + 1))
    OBVIOUS
  <2>1. CASE k = m + 1
    BY <1>3, <2>1
  <2>2. CASE k # m + 1
    <3>1. /\ k <= m /\ m <= Len(regex) /\ m \in 0 .. Len(regex) - 1 /\ m \in 0 .. Len(regex)
          /\ m + 1 \in 0 .. Len(regex)
      BY <1>1, <2>2
    <3>2. PrefixOf(at(k), at(m)) /\ PrefixOf(at(m), at(m + 1))
      BY <1>4, <3>1
    <3> QED
      BY <1>2, <3>1, <3>2, PrefixTransitive
  <2> QED
    BY <2>1, <2>2
<1>7. Good = Nat
  <2>1. Good \in SUBSET Nat
    OBVIOUS
  <2> HIDE DEF Good
  <2> QED
    BY <1>5, <1>6, <2>1, SetInduction
<1>8. PrefixOf(at(k), at(Len(regex)))
  BY <1>1, <1>7
<1> QED
  BY <1>8, UptoSteps DEF at

-----------------------------------------------------------------------------
(***************************************************************************)
(* What is captured fills the regex to the text.                           *)
(***************************************************************************)
Sub(text, j, k) == SubSeq(text, j, k)
LEMMA PartOf ==
    ASSUME NEW text, NEW l \in DOMAIN text, NEW h \in DOMAIN text,
           SubSeq(text, l, h) # <<>>, ~Contains(SubSeq(text, l, h), "/")
    PROVE  SubSeq(text, l, h) \in Capturable(text)
<1> DEFINE S == {Sub(text, j, k) : j, k \in DOMAIN text}
<1>1. Sub(text, l, h) \in S
  OBVIOUS
<1>2. Sub(text, l, h) # <<>> /\ ~Contains(Sub(text, l, h), "/")
  BY DEF Sub
<1>3. Capturable(text) = {t \in S : t # <<>> /\ ~Contains(t, "/")}
  BY DEF Capturable, Sub
<1> HIDE DEF S
<1>4. Sub(text, l, h) \in Capturable(text)
  BY <1>1, <1>2, <1>3
<1> QED
  BY <1>4 DEF Sub

\* The captures c of the pieces after the k-th, from the j-th place on.
Sound(c, k, j, regex, text) ==
    /\ c \in Seq(Capturable(text))
    /\ Before(regex, k) + Len(c) = Before(regex, Len(regex))
    /\ \A v : /\ TextValues(v)
              /\ \A m \in 1 .. Len(c) : Given(v, Before(regex, k) + m) = c[m]
              /\ PrefixOf(Upto(regex, k, v).text, text)
              /\ Len(Upto(regex, k, v).text) = j
         => Spell(regex, v).text = text

LEMMA UptoText ==
    ASSUME NEW regex \in Seq(Pieces), NEW values, TextValues(values), NEW k \in 0 .. Len(regex)
    PROVE  Upto(regex, k, values).text \in Texts
BY UptoSteps DEF Spellings

LEMMA SoundLast ==
    ASSUME NEW regex \in Seq(Pieces), NEW text \in Texts
    PROVE  Sound(<<>>, Len(regex), Len(text), regex, text)
<1>1. <<>> \in Seq(Capturable(text)) /\ Len(<<>>) = 0
  BY EmptyTexts
<1>2. Len(regex) \in Nat /\ Len(regex) \in 0 .. Len(regex)
  BY LenProperties
<1>3. Before(regex, Len(regex)) + 0 = Before(regex, Len(regex))
  BY <1>2, BeforeSteps
<1>4. ASSUME NEW v, TextValues(v), PrefixOf(Upto(regex, Len(regex), v).text, text),
             Len(Upto(regex, Len(regex), v).text) = Len(text)
      PROVE  Spell(regex, v).text = text
  <2>1. PICK s : s = Upto(regex, Len(regex), v).text
    OBVIOUS
  <2>2. s \in Texts
    BY <1>2, <1>4, <2>1, UptoText
  <2>3. s = text
    BY <1>4, <2>1, <2>2, PrefixAll
  <2> QED
    BY <1>4, <2>1, <2>3, UptoSteps
<1> QED
  BY <1>1, <1>3, <1>4 DEF Sound

LEMMA SoundLiteral ==
    ASSUME NEW regex \in Seq(Pieces), NEW text \in Texts, NEW k \in 0 .. Len(regex) - 1,
           NEW j \in 0 .. Len(text), NEW c,
           regex[k + 1].kind = "literal", 1 \in Fits(text, regex[k + 1], j),
           Sound(c, k + 1, j + 1, regex, text)
    PROVE  Sound(c, k, j, regex, text)
<1>1. /\ Len(regex) \in Nat /\ k \in 0 .. Len(regex) /\ k + 1 \in 0 .. Len(regex)
      /\ Len(text) \in Nat
  BY LenProperties DEF Texts
<1>2. PICK piece : piece = regex[k + 1]
  OBVIOUS
<1>3. piece \in Pieces
  BY <1>2, OneMore
<1>4. PICK ch \in Char : piece.text = <<ch>>
  <2>1. piece.kind # "param"
    BY <1>2
  <2> QED
    BY <1>3, <2>1, PieceTyped
<1>5. j < Len(text) /\ text[j + 1] = ch
  BY <1>2, <1>4, LiteralFits DEF Fits
<1>6. Before(regex, k + 1) = Before(regex, k)
  <2>1. Before(regex, k) \in Nat /\ Before(regex, k + 1) = Before(regex, k) + 0
    BY <1>1, BeforeSteps
  <2> QED
    BY <2>1
<1>7. ASSUME NEW v, TextValues(v), PrefixOf(Upto(regex, k, v).text, text),
             Len(Upto(regex, k, v).text) = j
      PROVE  /\ PrefixOf(Upto(regex, k + 1, v).text, text)
             /\ Len(Upto(regex, k + 1, v).text) = j + 1
  <2>1. PICK s : s = Upto(regex, k, v)
    OBVIOUS
  <2>2. PICK t : t = s.text
    OBVIOUS
  <2>3. t \in Texts /\ <<ch>> \in Texts /\ Len(<<ch>>) = 1 /\ <<ch>>[1] = ch
    BY <1>1, <1>7, <2>1, <2>2, UptoText DEF Texts
  <2>4. Upto(regex, k + 1, v) = SpellOne(v, s, piece)
    BY <1>2, <1>7, <2>1, UptoSteps
  <2>5. SpellOne(v, s, piece).text = t \o <<ch>>
    BY <1>2, <1>4, <2>2 DEF SpellOne
  <2>6. PICK u : u = <<ch>>
    OBVIOUS
  <2>7. /\ Len(t) + Len(u) <= Len(text) /\ Len(t) + Len(u) = j + 1
        /\ \A i \in 1 .. Len(u) : u[i] = text[Len(t) + i]
    BY <1>1, <1>5, <1>7, <2>1, <2>2, <2>3, <2>6
  <2>8. PrefixOf(t, text) /\ u \in Texts
    BY <1>7, <2>1, <2>2, <2>3, <2>6
  <2>9. PrefixOf(t \o u, text) /\ Len(t \o u) = j + 1
    BY <2>3, <2>7, <2>8, PrefixGoesOn, PrefixOfConcat
  <2> QED
    BY <2>4, <2>5, <2>6, <2>9
<1> QED
  BY <1>6, <1>7 DEF Sound

LEMMA SoundParam ==
    ASSUME NEW regex \in Seq(Pieces), NEW text \in Texts, NEW k \in 0 .. Len(regex) - 1,
           NEW j \in 0 .. Len(text), NEW n \in Fits(text, regex[k + 1], j), NEW d,
           regex[k + 1].kind # "literal", Sound(d, k + 1, j + n, regex, text)
    PROVE  Sound(<<SubSeq(text, j + 1, j + n)>> \o d, k, j, regex, text)
<1>1. /\ Len(regex) \in Nat /\ k \in 0 .. Len(regex) /\ k + 1 \in 0 .. Len(regex)
      /\ Len(text) \in Nat
  BY LenProperties DEF Texts
<1>2. PICK piece : piece = regex[k + 1]
  OBVIOUS
<1>3. n \in 1 .. Len(text) - j /\ ~Contains(SubSeq(text, j + 1, j + n), "/")
  BY DEF Fits
<1>4. PICK u : u = SubSeq(text, j + 1, j + n)
  OBVIOUS
<1>5. u \in Texts /\ Len(u) = n /\ \A i \in 1 .. n : u[i] = text[j + i]
  <2>1. n \in 0 .. Len(text) - j
    BY <1>3
  <2> QED
    BY <1>4, <2>1, RestOfText
<1>6. u \in Capturable(text)
  <2>1. DOMAIN text = 1 .. Len(text)
    BY LenProperties DEF Texts
  <2>2. j + 1 \in 1 .. Len(text) /\ j + n \in 1 .. Len(text)
    BY <1>1, <1>3
  <2>3. u # <<>>
    BY <1>3, <1>5
  <2>4. j + 1 \in DOMAIN text /\ j + n \in DOMAIN text
    BY <2>1, <2>2
  <2>5. ~Contains(u, "/")
    BY <1>3, <1>4
  <2> QED
    BY <1>4, <2>3, <2>4, <2>5, PartOf
<1>7. Before(regex, k + 1) = Before(regex, k) + 1 /\ Before(regex, k) \in Nat
  BY <1>1, BeforeSteps
<1>8. d \in Seq(Capturable(text)) /\ Before(regex, k + 1) + Len(d) = Before(regex, Len(regex))
  BY DEF Sound
<1>9. PICK c : c = <<u>> \o d
  OBVIOUS
<1>10. /\ c \in Seq(Capturable(text)) /\ Len(c) = Len(d) + 1 /\ Len(d) \in Nat
       /\ c[1] = u /\ \A m \in 1 .. Len(d) : c[m + 1] = d[m]
  <2>1. PICK one : one = <<u>>
    OBVIOUS
  <2>2. one \in Seq(Capturable(text)) /\ Len(one) = 1 /\ one[1] = u
    BY <1>6, <2>1
  <2>3. /\ c \in Seq(Capturable(text)) /\ Len(c) = 1 + Len(d) /\ Len(d) \in Nat
        /\ \A i \in 1 .. 1 : c[i] = one[i]
        /\ \A i \in 1 + 1 .. 1 + Len(d) : c[i] = d[i - 1]
    BY <1>8, <1>9, <2>1, <2>2, ConcatProperties, LenProperties
  <2>4. \A m \in 1 .. Len(d) : m + 1 \in 1 + 1 .. 1 + Len(d) /\ (m + 1) - 1 = m
    BY <2>3
  <2>5. c[1] = u /\ Len(c) = Len(d) + 1
    BY <2>2, <2>3
  <2>6. \A m \in 1 .. Len(d) : c[m + 1] = d[m]
    BY <2>3, <2>4
  <2> QED
    BY <2>3, <2>5, <2>6
<1>11. Before(regex, k) + Len(c) = Before(regex, Len(regex))
  BY <1>7, <1>8, <1>10
<1>12. ASSUME NEW v, TextValues(v), PrefixOf(Upto(regex, k, v).text, text),
              Len(Upto(regex, k, v).text) = j,
              \A m \in 1 .. Len(c) : Given(v, Before(regex, k) + m) = c[m]
       PROVE  Spell(regex, v).text = text
  <2>1. PICK s : s = Upto(regex, k, v)
    OBVIOUS
  <2>2. PICK t : t = s.text
    OBVIOUS
  <2>3. t \in Texts /\ s.n = Before(regex, k)
    BY <1>1, <1>12, <2>1, <2>2, UptoText, UptoCounts
  <2>4. Upto(regex, k + 1, v) = SpellOne(v, s, piece)
    BY <1>2, <1>12, <2>1, UptoSteps
  <2>5. Given(v, s.n + 1) = u
    <3>1. 1 \in 1 .. Len(c)
      BY <1>10
    <3> QED
      BY <1>10, <1>12, <2>3, <3>1
  <2>6. SpellOne(v, s, piece).text = t \o u
    BY <1>2, <2>2, <2>5 DEF SpellOne
  <2>7. /\ Len(t) + Len(u) <= Len(text) /\ Len(t) + Len(u) = j + n
        /\ \A i \in 1 .. Len(u) : u[i] = text[Len(t) + i]
    <3>1. Len(t) = j
      BY <1>12, <2>1, <2>2
    <3>2. Len(t) + Len(u) = j + n /\ j + n <= Len(text)
      BY <1>1, <1>3, <1>5, <3>1
    <3> QED
      BY <1>5, <3>1, <3>2
  <2>8. PrefixOf(t, text)
    BY <1>12, <2>1, <2>2
  <2>9. PrefixOf(t \o u, text) /\ Len(t \o u) = j + n
    BY <1>5, <2>3, <2>7, <2>8, PrefixGoesOn, PrefixOfConcat
  <2>10. PrefixOf(Upto(regex, k + 1, v).text, text) /\ Len(Upto(regex, k + 1, v).text) = j + n
    BY <2>4, <2>6, <2>9
  <2>11. ASSUME NEW m \in 1 .. Len(d) PROVE Given(v, Before(regex, k + 1) + m) = d[m]
    <3>1. m + 1 \in 1 .. Len(c) /\ Before(regex, k) + (m + 1) = Before(regex, k + 1) + m
      BY <1>7, <1>10
    <3> QED
      BY <1>10, <1>12, <3>1
  <2> QED
    BY <1>12, <2>10, <2>11 DEF Sound
<1>13. Sound(c, k, j, regex, text)
  BY <1>10, <1>11, <1>12 DEF Sound
<1> QED
  BY <1>4, <1>9, <1>13

LEMMA FitsIn ==
    ASSUME NEW text \in Texts, NEW j \in 0 .. Len(text), NEW piece \in Pieces,
           NEW n \in Fits(text, piece, j)
    PROVE  n \in 1 .. Len(text) - j /\ j + n \in 0 .. Len(text)
<1>1. Len(text) \in Nat
  BY LenProperties DEF Texts
<1>2. CASE piece.kind = "literal"
  <2>1. PICK ch \in Char : piece.text = <<ch>>
    BY <1>2, PieceTyped
  <2>2. n = 1 /\ IsPrefix(<<ch>>, SubSeq(text, j + 1, Len(text)))
    BY <1>2, <2>1 DEF Fits
  <2>3. j < Len(text)
    BY <2>2, LiteralFits
  <2> QED
    BY <1>1, <2>2, <2>3
<1>3. CASE piece.kind # "literal"
  <2>1. n \in 1 .. Len(text) - j
    BY <1>3 DEF Fits
  <2> QED
    BY <1>1, <2>1
<1> QED
  BY <1>2, <1>3

LEMMA LongestFits ==
    ASSUME NEW text \in Texts, NEW j \in 0 .. Len(text), NEW piece \in Pieces, NEW next,
           Ends(text, piece, j, next) # {}
    PROVE  Max(Ends(text, piece, j, next)) \in Ends(text, piece, j, next)
<1>1. PICK M : M = Len(text) - j
  OBVIOUS
<1>2. M \in Nat
  BY <1>1, LenProperties DEF Texts
<1>3. Ends(text, piece, j, next) \in SUBSET (1 .. M)
  BY <1>1, FitsIn DEF Ends
<1> QED
  BY <1>2, <1>3, MaxOfPart

LEMMA CapturesSound ==
    ASSUME NEW regex \in Seq(Pieces), NEW text \in Texts, NEW c \in Captures(regex, text)
    PROVE  Sound(c, 0, 0, regex, text)
<1>1. PICK N : N = Len(regex)
  OBVIOUS
<1>2. N \in Nat /\ Len(regex) \in Nat /\ Len(text) \in Nat
  BY <1>1, LenProperties DEF Texts
<1>3. PICK f : Rows(f, 1, regex, text) /\ Captures(regex, text) = f[1][0]
  BY <1>2, CapturesUnfold
<1> DEFINE SoundRow(k) == \A j \in 0 .. Len(text) : \A d \in f[k + 1][j] : Sound(d, k, j, regex, text)
           Good == {m \in Nat : m <= N => SoundRow(N - m)}
<1>4. SoundRow(N)
  <2> SUFFICES ASSUME NEW j \in 0 .. Len(text), NEW d \in f[N + 1][j]
               PROVE  Sound(d, N, j, regex, text)
    OBVIOUS
  <2>1. f[N + 1][j] = IF j = Len(text) THEN {<<>>} ELSE {}
    BY <1>1, <1>3 DEF Rows, LastRow
  <2>2. j = Len(text) /\ d = <<>>
    BY <2>1
  <2> QED
    BY <1>1, <2>2, SoundLast
<1>5. ASSUME NEW k \in 0 .. N - 1, SoundRow(k + 1) PROVE SoundRow(k)
  <2> SUFFICES ASSUME NEW j \in 0 .. Len(text), NEW d \in f[k + 1][j]
               PROVE  Sound(d, k, j, regex, text)
    OBVIOUS
  <2>1. PICK piece : piece = regex[k + 1]
    OBVIOUS
  <2>2. PICK next : next = f[k + 2]
    OBVIOUS
  <2>3. k + 1 \in 1 .. Len(regex) /\ (k + 1) + 1 = k + 2 /\ k \in 0 .. Len(regex) - 1
    BY <1>1, <1>2
  <2>4. piece \in Pieces
    BY <2>1, <2>3, OneMore
  <2>5. f[k + 1][j] = Entry(text, piece, j, next)
    <3>1. f[k + 1] = Row(text, regex[k + 1], f[(k + 1) + 1])
      BY <1>3, <2>3 DEF Rows
    <3>2. f[k + 1] = Row(text, piece, next)
      BY <2>1, <2>2, <2>3, <3>1
    <3>3. Row(text, piece, next)[j] = Entry(text, piece, j, next)
      BY DEF Row
    <3> QED
      BY <3>2, <3>3
  <2>6. Ends(text, piece, j, next) # {}
    BY <2>5 DEF Entry
  <2>7. ASSUME NEW n \in Fits(text, piece, j), NEW e \in next[j + n]
        PROVE  Sound(e, k + 1, j + n, regex, text)
    <3>1. j + n \in 0 .. Len(text)
      BY <2>4, FitsIn
    <3> QED
      BY <1>5, <2>2, <2>3, <2>7, <3>1
  <2>8. CASE piece.kind = "literal"
    <3>1. d \in next[j + 1]
      BY <2>5, <2>6, <2>8 DEF Entry
    <3>2. 1 \in Fits(text, piece, j)
      BY <2>6, <2>8 DEF Ends, Fits
    <3>3. Sound(d, k + 1, j + 1, regex, text)
      BY <2>7, <3>1, <3>2
    <3> QED
      BY <2>1, <2>3, <2>8, <3>2, <3>3, SoundLiteral
  <2>9. CASE piece.kind # "literal"
    <3>1. PICK n : n = Max(Ends(text, piece, j, next))
      OBVIOUS
    <3>2. n \in Fits(text, piece, j)
      BY <2>4, <2>6, <3>1, LongestFits DEF Ends
    <3>3. PICK e \in next[j + n] : d = <<SubSeq(text, j + 1, j + n)>> \o e
      BY <2>5, <2>6, <2>9, <3>1 DEF Entry
    <3>4. Sound(e, k + 1, j + n, regex, text)
      BY <2>7, <3>2, <3>3
    <3> QED
      BY <2>1, <2>3, <2>9, <3>2, <3>3, <3>4, SoundParam
  <2> QED
    BY <2>8, <2>9
<1> HIDE DEF SoundRow
<1>6. 0 \in Good
  BY <1>2, <1>4
<1>7. ASSUME NEW m \in Good PROVE m + 1 \in Good
  <2> SUFFICES ASSUME m + 1 <= N PROVE SoundRow(N - (m + 1))
    OBVIOUS
  <2>1. PICK k : k = N - (m + 1)
    OBVIOUS
  <2>2. k \in 0 .. N - 1 /\ k + 1 = N - m /\ m <= N
    BY <1>2, <2>1
  <2>3. SoundRow(k + 1)
    BY <2>2
  <2> QED
    BY <1>5, <2>1, <2>2, <2>3
<1>8. Good = Nat
  <2>1. Good \in SUBSET Nat
    OBVIOUS
  <2> HIDE DEF Good
  <2> QED
    BY <1>6, <1>7, <2>1, SetInduction
<1>9. SoundRow(0)
  <2>1. N \in Good /\ N - N = 0
    <3> HIDE DEF Good
    <3> QED
      BY <1>2, <1>8
  <2> QED
    BY <1>2, <2>1
<1>10. 0 \in 0 .. Len(text) /\ 0 + 1 = 1
  BY <1>2
<1> QED
  BY <1>3, <1>9, <1>10 DEF SoundRow

-----------------------------------------------------------------------------
(***************************************************************************)
(* Where no values fill the regex to the text, nothing is captured.        *)
(***************************************************************************)
Fillers(values, from, to) ==
    \A m \in from + 1 .. to : Given(values, m) # <<>> /\ ~Contains(Given(values, m), "/")

LEMMA RowFilled ==
    ASSUME NEW regex \in Seq(Pieces), NEW text \in Texts, NEW k \in 0 .. Len(regex) - 1,
           NEW j \in 0 .. Len(text), NEW next, NEW values, TextValues(values),
           Fillers(values, Before(regex, k), Before(regex, k + 1)),
           Len(Upto(regex, k, values).text) = j,
           PrefixOf(Upto(regex, k + 1, values).text, text),
           next[Len(Upto(regex, k + 1, values).text)] # {}
    PROVE  Entry(text, regex[k + 1], j, next) # {}
<1>1. /\ Len(regex) \in Nat /\ k \in 0 .. Len(regex) /\ k + 1 \in 0 .. Len(regex)
      /\ Len(text) \in Nat
  BY LenProperties DEF Texts
<1>2. PICK piece : piece = regex[k + 1]
  OBVIOUS
<1>3. piece \in Pieces
  BY <1>2, OneMore
<1>4. PICK s : s = Upto(regex, k, values)
  OBVIOUS
<1>5. PICK t : t = s.text
  OBVIOUS
<1>6. /\ t \in Texts /\ Len(t) = j /\ s.n = Before(regex, k)
      /\ Before(regex, k) \in Nat
  BY <1>1, <1>4, <1>5, UptoText, UptoCounts, BeforeSteps
<1>7. Upto(regex, k + 1, values) = SpellOne(values, s, piece)
  BY <1>2, <1>4, UptoSteps
<1>8. CASE piece.kind = "literal"
  <2>1. PICK ch \in Char : piece.text = <<ch>>
    BY <1>3, <1>8, PieceTyped
  <2>2. PICK u : u = <<ch>>
    OBVIOUS
  <2>3. u \in Texts /\ Len(u) = 1 /\ u[1] = ch
    BY <2>2 DEF Texts
  <2>4. Upto(regex, k + 1, values).text = t \o u
    BY <1>5, <1>7, <1>8, <2>1, <2>2 DEF SpellOne
  <2>5. /\ Len(t) + Len(u) <= Len(text)
        /\ \A i \in 1 .. Len(u) : u[i] = text[Len(t) + i]
    BY <1>6, <2>3, <2>4, PrefixWentOn
  <2>6. j < Len(text) /\ text[j + 1] = ch
    BY <1>1, <1>6, <2>3, <2>5
  <2>7. 1 \in Fits(text, piece, j)
    BY <1>8, <2>1, <2>6, LiteralFits DEF Fits
  <2>8. next[j + 1] # {}
    BY <1>6, <2>3, <2>4, PrefixOfConcat, ZenonT(40)
  <2>9. 1 \in Ends(text, piece, j, next)
    BY <2>7, <2>8 DEF Ends
  <2> QED
    BY <1>2, <1>8, <2>8, <2>9 DEF Entry
<1>9. CASE piece.kind # "literal"
  <2>1. PICK u : u = Given(values, s.n + 1)
    OBVIOUS
  <2>2. u \in Texts
    BY <2>1, GivenTyped
  <2>3. u # <<>> /\ ~Contains(u, "/")
    <3>1. Before(regex, k + 1) = Before(regex, k) + 1
      BY <1>2, <1>9, BeforeSteps
    <3>2. s.n + 1 \in Before(regex, k) + 1 .. Before(regex, k + 1)
      BY <1>6, <3>1
    <3> QED
      BY <2>1, <3>2 DEF Fillers
  <2>4. Upto(regex, k + 1, values).text = t \o u
    <3>1. SpellOne(values, s, piece).text = t \o u
      BY <1>5, <1>9, <2>1 DEF SpellOne
    <3> QED
      BY <1>7, <3>1
  <2>5. /\ Len(t) + Len(u) <= Len(text) /\ Len(u) \in Nat
        /\ \A i \in 1 .. Len(u) : u[i] = text[Len(t) + i]
    BY <1>6, <2>2, <2>4, PrefixWentOn
  <2>6. PICK n : n = Len(u)
    OBVIOUS
  <2>7. n \in 1 .. Len(text) - j /\ n \in 0 .. Len(text) - j
    <3>1. n # 0
      BY <2>2, <2>3, <2>6, EmptySeq DEF Texts
    <3> QED
      BY <1>1, <1>6, <2>5, <2>6, <3>1
  <2>8. SubSeq(text, j + 1, j + n) = u
    <3>1. PICK w : w = SubSeq(text, j + 1, j + n)
      OBVIOUS
    <3>2. w \in Texts /\ Len(w) = n /\ \A i \in 1 .. n : w[i] = text[j + i]
      BY <2>7, <3>1, RestOfText, ZenonT(40)
    <3>3. \A i \in 1 .. Len(w) : w[i] = u[i]
      BY <1>6, <2>5, <2>6, <3>2
    <3>4. w = u
      BY <2>2, <2>6, <3>2, <3>3, SeqEqual DEF Texts
    <3> QED
      BY <3>1, <3>4
  <2>9. n \in Fits(text, piece, j)
    BY <1>9, <2>3, <2>7, <2>8 DEF Fits
  <2>10. next[j + n] # {}
    BY <1>6, <2>2, <2>4, <2>6, PrefixOfConcat
  <2>11. n \in Ends(text, piece, j, next)
    BY <2>9, <2>10 DEF Ends
  <2>12. PICK m : m = Max(Ends(text, piece, j, next))
    OBVIOUS
  <2>13. m \in Ends(text, piece, j, next)
    BY <1>3, <2>11, <2>12, LongestFits
  <2>14. PICK d : d \in next[j + m]
    BY <2>13 DEF Ends
  <2>15. Entry(text, piece, j, next) =
           {<<SubSeq(text, j + 1, j + m)>> \o c : c \in next[j + m]}
    BY <1>9, <2>11, <2>12 DEF Entry
  <2> QED
    BY <1>2, <2>14, <2>15
<1> QED
  BY <1>8, <1>9

LEMMA CapturesComplete ==
    ASSUME NEW regex \in Seq(Pieces), NEW text \in Texts, NEW values, TextValues(values),
           Fillers(values, 0, Before(regex, Len(regex))),
           Spell(regex, values).text = text
    PROVE  Captures(regex, text) # {}
<1>1. PICK N : N = Len(regex)
  OBVIOUS
<1>2. N \in Nat /\ Len(regex) \in Nat /\ Len(text) \in Nat
  BY <1>1, LenProperties DEF Texts
<1>3. PICK f : Rows(f, 1, regex, text) /\ Captures(regex, text) = f[1][0]
  BY <1>2, CapturesUnfold
<1> DEFINE at(k) == Upto(regex, k, values).text
           Row_k(k) == f[k + 1][Len(at(k))] # {} /\ Before(regex, k) <= Before(regex, N)
           Good == {m \in Nat : m <= N => Row_k(N - m)}
<1>4. \A k \in 0 .. N : at(k) \in Texts /\ PrefixOf(at(k), text) /\ Len(at(k)) \in 0 .. Len(text)
  <2> SUFFICES ASSUME NEW k \in 0 .. N
               PROVE  /\ at(k) \in Texts /\ PrefixOf(at(k), text)
                      /\ Len(at(k)) \in 0 .. Len(text)
    OBVIOUS
  <2>1. at(k) \in Texts /\ PrefixOf(at(k), text)
    BY <1>1, UptoText, UptoGrows
  <2>2. Len(at(k)) \in Nat
    BY <2>1, LenProperties DEF Texts
  <2> QED
    BY <1>2, <2>1, <2>2 DEF PrefixOf
<1>5. Row_k(N)
  <2>1. at(N) = text
    BY <1>1, UptoSteps
  <2>2. f[N + 1] = LastRow(text)
    BY <1>1, <1>3 DEF Rows
  <2>3. LastRow(text)[Len(text)] = {<<>>}
    BY <1>2 DEF LastRow
  <2>4. Before(regex, N) \in Nat
    BY <1>1, <1>2, BeforeSteps
  <2> HIDE DEF at
  <2> QED
    BY <2>1, <2>2, <2>3, <2>4
<1>6. ASSUME NEW k \in 0 .. N - 1, Row_k(k + 1) PROVE Row_k(k)
  <2>1. /\ k \in 0 .. Len(regex) - 1 /\ k + 1 \in 1 .. Len(regex) /\ k \in 0 .. N
        /\ k + 1 \in 0 .. N
    BY <1>1, <1>2
  <2>2. PICK next : next = f[(k + 1) + 1]
    OBVIOUS
  <2>3. PICK j : j = Len(at(k))
    OBVIOUS
  <2>4. j \in 0 .. Len(text) /\ PrefixOf(at(k + 1), text) /\ next[Len(at(k + 1))] # {}
    BY <1>4, <1>6, <2>1, <2>2, <2>3
  <2>5. /\ Before(regex, k) \in Nat /\ Before(regex, k + 1) \in Nat /\ Before(regex, N) \in Nat
        /\ Before(regex, k) <= Before(regex, k + 1)
        /\ Before(regex, k + 1) <= Before(regex, N)
    <3>1. N \in 0 .. Len(regex)
      BY <1>1, <1>2
    <3>2. /\ Before(regex, k) \in Nat /\ Before(regex, k + 1) \in Nat /\ Before(regex, N) \in Nat
          /\ Before(regex, k + 1) =
               Before(regex, k) + (IF regex[k + 1].kind = "literal" THEN 0 ELSE 1)
      BY <1>1, <2>1, <3>1, BeforeSteps
    <3> QED
      BY <1>6, <3>2
  <2>6. Fillers(values, Before(regex, k), Before(regex, k + 1))
    <3>1. \A m \in Before(regex, k) + 1 .. Before(regex, k + 1) :
             m \in 0 + 1 .. Before(regex, Len(regex))
      BY <1>1, <2>5
    <3> QED
      BY <3>1 DEF Fillers
  <2>7. Entry(text, regex[k + 1], j, next) # {}
    BY <2>1, <2>3, <2>4, <2>6, RowFilled
  <2>8. f[k + 1][j] = Entry(text, regex[k + 1], j, next)
    <3>1. f[k + 1] = Row(text, regex[k + 1], next)
      BY <1>3, <2>1, <2>2 DEF Rows
    <3>2. Row(text, regex[k + 1], next)[j] = Entry(text, regex[k + 1], j, next)
      BY <2>4 DEF Row
    <3> QED
      BY <3>1, <3>2
  <2>9. Before(regex, k) <= Before(regex, N)
    BY <2>5
  <2> QED
    BY <2>3, <2>7, <2>8, <2>9
<1> HIDE DEF Row_k
<1>7. 0 \in Good
  BY <1>2, <1>5
<1>8. ASSUME NEW m \in Good PROVE m + 1 \in Good
  <2> SUFFICES ASSUME m + 1 <= N PROVE Row_k(N - (m + 1))
    OBVIOUS
  <2>1. PICK k : k = N - (m + 1)
    OBVIOUS
  <2>2. k \in 0 .. N - 1 /\ k + 1 = N - m /\ m <= N
    BY <1>2, <2>1
  <2>3. Row_k(k + 1)
    BY <2>2
  <2> QED
    BY <1>6, <2>1, <2>2, <2>3
<1>9. Good = Nat
  <2>1. Good \in SUBSET Nat
    OBVIOUS
  <2> HIDE DEF Good
  <2> QED
    BY <1>7, <1>8, <2>1, SetInduction
<1>10. Row_k(0)
  <2>1. N \in Good /\ N - N = 0
    <3> HIDE DEF Good
    <3> QED
      BY <1>2, <1>9
  <2> QED
    BY <1>2, <2>1
<1>11. Len(at(0)) = 0 /\ 0 + 1 = 1
  <2>1. at(0) = <<>>
    BY UptoSteps DEF NotSpelled
  <2> HIDE DEF at
  <2> QED
    BY <2>1, EmptyTexts
<1> HIDE DEF at
<1> QED
  BY <1>3, <1>10, <1>11 DEF Row_k

-----------------------------------------------------------------------------
(***************************************************************************)
(* A route and the paths it matches.                                       *)
(***************************************************************************)
LEMMA CapturableIsText ==
    ASSUME NEW text \in Texts, NEW t \in Capturable(text)
    PROVE  t \in Texts /\ t # <<>> /\ ~Contains(t, "/")
<1>1. DOMAIN text = 1 .. Len(text) /\ Len(text) \in Nat
  BY LenProperties DEF Texts
<1>2. \A j, k \in DOMAIN text : Sub(text, j, k) \in Texts
  <2> SUFFICES ASSUME NEW j \in 1 .. Len(text), NEW k \in 1 .. Len(text)
               PROVE  SubSeq(text, j, k) \in Texts
    BY <1>1 DEF Sub
  <2>1. j \in 1 .. Len(text) + 1 /\ k \in 0 .. Len(text)
    BY <1>1
  <2> QED
    BY <2>1, SubSeqTyped DEF Texts
<1> DEFINE S == {Sub(text, j, k) : j, k \in DOMAIN text}
<1>3. \A u \in S : u \in Texts
  BY <1>2
<1>4. Capturable(text) = {u \in S : u # <<>> /\ ~Contains(u, "/")}
  BY DEF Capturable, Sub
<1> HIDE DEF S
<1> QED
  BY <1>3, <1>4

LEMMA CapturesAreValues ==
    ASSUME NEW pattern \in Texts, ~BuildRegex(pattern).panics, NEW path \in Texts
    PROVE  LET found  == Captures(BuildRegex(pattern).regex, path)
               values == PatternValues(TrimSlashes(pattern), path)
           IN  found \subseteq values /\ (found = {} => values = {})
<1>1. PICK regex : regex = BuildRegex(pattern).regex
  OBVIOUS
<1>2. PICK q : q = TrimSlashes(pattern)
  OBVIOUS
<1>3. PICK n : n = Before(regex, Len(regex))
  OBVIOUS
<1>4. regex \in Seq(Pieces) /\ Len(regex) \in Nat /\ Len(regex) \in 0 .. Len(regex) /\ n \in Nat
      /\ 0 \in 0 .. Len(regex)
  <2>1. regex \in Seq(Pieces)
    BY <1>1, RegexTyped
  <2>2. Len(regex) \in Nat
    BY <2>1, LenProperties
  <2> QED
    BY <1>3, <2>1, <2>2, BeforeSteps
<1>5. ASSUME NEW v, TextValues(v)
      PROVE  Fill(q, v) = Spell(regex, v).text /\ Cardinality(Opening(q)) = n
  <2>1. Upto(regex, Len(regex), v).n = n
    BY <1>3, <1>4, <1>5, UptoCounts
  <2>2. Spell(regex, v).n = n
    BY <1>4, <1>5, <2>1, UptoSteps
  <2> QED
    BY <1>1, <1>2, <1>5, <2>2, FillIsSpell
<1>6. Cardinality(Opening(q)) = n
  BY <1>5, NoValues
<1>7. ASSUME NEW c \in Captures(regex, path) PROVE c \in PatternValues(q, path)
  <2>1. Sound(c, 0, 0, regex, path)
    BY <1>4, <1>7, CapturesSound
  <2>2. c \in Seq(Capturable(path)) /\ 0 + Len(c) = n
    BY <1>3, <1>4, <2>1, BeforeSteps DEF Sound
  <2>3. DOMAIN c = 1 .. Len(c) /\ Len(c) \in Nat /\ \A m \in 1 .. Len(c) : c[m] \in Capturable(path)
    BY <2>2, LenProperties, ElementOfSeq
  <2>4. TextValues(c)
    BY <2>3, CapturableIsText DEF TextValues
  <2>5. \A m \in 1 .. Len(c) : Given(c, 0 + m) = c[m]
    BY <2>3 DEF Given
  <2>6. Upto(regex, 0, c).text = <<>>
    BY <1>4, <2>4, UptoSteps DEF NotSpelled
  <2>7. PrefixOf(<<>>, path) /\ Len(<<>>) = 0
    <3>1. Len(path) \in Nat
      BY LenProperties DEF Texts
    <3> QED
      BY <3>1 DEF PrefixOf
  <2>8. Spell(regex, c).text = path
    <3>1. Before(regex, 0) = 0
      BY <1>4, BeforeSteps
    <3> QED
      BY <2>1, <2>4, <2>5, <2>6, <2>7, <3>1 DEF Sound
  <2>9. Len(c) = n
    BY <2>2, <2>3
  <2>10. c \in [1 .. n -> Capturable(path)]
    BY <2>2, <2>3, <2>9
  <2> QED
    BY <1>5, <1>6, <2>4, <2>8, <2>10 DEF PatternValues
<1>8. ASSUME NEW v \in PatternValues(q, path) PROVE Captures(regex, path) # {}
  <2>1. v \in [1 .. n -> Capturable(path)] /\ Fill(q, v) = path
    BY <1>6 DEF PatternValues
  <2>2. TextValues(v)
    BY <2>1, CapturableIsText DEF TextValues
  <2>3. Fillers(v, 0, n)
    <3>1. \A m \in 0 + 1 .. n : Given(v, m) \in Capturable(path)
      BY <1>4, <2>1 DEF Given
    <3> QED
      BY <3>1, CapturableIsText DEF Fillers
  <2>4. Spell(regex, v).text = path
    BY <1>5, <2>1, <2>2
  <2> QED
    BY <1>3, <1>4, <2>2, <2>3, <2>4, CapturesComplete
<1> QED
  BY <1>1, <1>2, <1>7, <1>8

LEMMA PathTyped ==
    ASSUME NEW req, Received(req)
    PROVE  RequestPath(req) \in Texts
<1>1. req.path \in Seq(Texts)
  BY DEF Received
<1>2. <<"/">> \in Texts /\ <<>> \in Texts
  <2>1. "/" \in Char
    BY CharAssumption, Zenon
  <2> QED
    BY <2>1, EmptyTexts DEF Texts
<1>3. req.path # <<>> => Join(req.path, <<"/">>) \in Texts
  BY <1>1, <1>2, JoinTyped DEF Texts
<1> QED
  BY <1>2, <1>3 DEF RequestPath

\* For every program and request: a route matches exactly the paths its pattern
\* describes, and what it captures fills the pattern to the path
\* (route.rs:85-188).
THEOREM RoutedByPatternCorrect == Spec => []RoutedByPattern
<1>1. ASSUME TableTyped, Answered, answer # None, NEW i \in DOMAIN table.routes
      PROVE  LET path   == TrimSlashes(RequestPath(request))
                 values == PatternValues(TrimSlashes(table.routes[i].pattern), path)
                 found  == Captures(table.routes[i].regex, path)
             IN  found \subseteq values /\ (found = {} => values = {})
  <2>1. /\ table.routes[i].pattern \in Texts
        /\ ~BuildRegex(table.routes[i].pattern).panics
        /\ table.routes[i].regex = BuildRegex(table.routes[i].pattern).regex
    BY <1>1, RouteTyped DEF TableTyped
  <2>2. TrimSlashes(RequestPath(request)) \in Texts
    BY <1>1, PathTyped, TrimTyped DEF Answered, Texts
  <2> QED
    BY <2>1, <2>2, CapturesAreValues
<1>2. TableTyped /\ Answered => RoutedByPattern
  BY <1>1 DEF RoutedByPattern
<1> QED
  BY <1>2, AnsweredCorrect, PTL

-----------------------------------------------------------------------------
(***************************************************************************)
(* Decoding, character by character.                                       *)
(***************************************************************************)
DecodeChar(ch) == IF ch \in DOMAIN EscapeOf THEN EscapeOf[ch] ELSE ch

LEMMA DecodedCharTyped ==
    ASSUME NEW ch \in Char
    PROVE  DecodeChar(ch) \in Char
BY CharAssumption, Zenon DEF DecodeChar, EscapeOf

\* Escapes stand for none of these.
LEMMA DecodedCharIs ==
    ASSUME NEW ch, NEW mark \in {"{", "}", "/", "="}
    PROVE  DecodeChar(ch) = mark <=> ch = mark
BY Zenon DEF DecodeChar, EscapeOf

LEMMA DecodedIs ==
    ASSUME NEW text \in Texts
    PROVE  /\ PercentDecode(text) \in Texts /\ Len(PercentDecode(text)) = Len(text)
           /\ DOMAIN PercentDecode(text) = DOMAIN text
           /\ DOMAIN text = 1 .. Len(text) /\ Len(text) \in Nat
           /\ \A i \in 1 .. Len(text) : PercentDecode(text)[i] = DecodeChar(text[i])
<1>1. DOMAIN text = 1 .. Len(text) /\ Len(text) \in Nat
  BY LenProperties DEF Texts
<1>2. PercentDecode(text) = [i \in DOMAIN text |-> DecodeChar(text[i])]
  BY DEF PercentDecode, DecodeChar
<1>3. \A i \in 1 .. Len(text) : text[i] \in Char
  BY ElementOfSeq DEF Texts
<1>4. PercentDecode(text) \in [1 .. Len(text) -> Char]
  BY <1>1, <1>2, <1>3, DecodedCharTyped
<1>5. PercentDecode(text) \in Texts /\ Len(PercentDecode(text)) = Len(text)
  BY <1>1, <1>4 DEF Texts
<1> QED
  BY <1>1, <1>2, <1>5

LEMMA DecodedSame ==
    ASSUME NEW text \in Texts, NEW other \in Texts, Len(other) = Len(text),
           \A i \in 1 .. Len(text) : other[i] = DecodeChar(text[i])
    PROVE  other = PercentDecode(text)
<1>1. PICK d : d = PercentDecode(text)
  OBVIOUS
<1>2. d \in Texts /\ Len(d) = Len(text) /\ \A i \in 1 .. Len(text) : d[i] = DecodeChar(text[i])
  BY <1>1, DecodedIs
<1>3. \A i \in 1 .. Len(other) : other[i] = d[i]
  BY <1>2
<1>4. other = d
  BY <1>2, <1>3, SeqEqual DEF Texts
<1> QED
  BY <1>1, <1>4

LEMMA DecodedEmpty ==
    ASSUME NEW text \in Texts
    PROVE  PercentDecode(text) = <<>> <=> text = <<>>
<1>1. Len(PercentDecode(text)) = Len(text) /\ PercentDecode(text) \in Texts
  BY DecodedIs
<1> QED
  BY <1>1, EmptySeq DEF Texts

LEMMA DecodedConcat ==
    ASSUME NEW s \in Texts, NEW t \in Texts
    PROVE  PercentDecode(s \o t) = PercentDecode(s) \o PercentDecode(t)
<1>1. PICK u : u = s \o t
  OBVIOUS
<1>2. PICK ds : ds = PercentDecode(s)
  OBVIOUS
<1>3. PICK dt : dt = PercentDecode(t)
  OBVIOUS
<1>4. /\ u \in Texts /\ Len(u) = Len(s) + Len(t) /\ Len(s) \in Nat /\ Len(t) \in Nat
      /\ \A i \in 1 .. Len(s) : u[i] = s[i]
      /\ \A i \in Len(s) + 1 .. Len(s) + Len(t) : u[i] = t[i - Len(s)]
  BY <1>1, ConcatProperties, LenProperties DEF Texts
<1>5. /\ ds \in Texts /\ Len(ds) = Len(s) /\ \A i \in 1 .. Len(s) : ds[i] = DecodeChar(s[i])
      /\ dt \in Texts /\ Len(dt) = Len(t) /\ \A i \in 1 .. Len(t) : dt[i] = DecodeChar(t[i])
  BY <1>2, <1>3, DecodedIs
<1>6. PICK du : du = ds \o dt
  OBVIOUS
<1>7. /\ du \in Texts /\ Len(du) = Len(s) + Len(t)
      /\ \A i \in 1 .. Len(s) : du[i] = ds[i]
      /\ \A i \in Len(s) + 1 .. Len(s) + Len(t) : du[i] = dt[i - Len(s)]
  BY <1>5, <1>6, ConcatProperties DEF Texts
<1>8. ASSUME NEW i \in 1 .. Len(u) PROVE du[i] = DecodeChar(u[i])
  <2>1. CASE i \in 1 .. Len(s)
    BY <1>4, <1>5, <1>7, <2>1
  <2>2. CASE i \in Len(s) + 1 .. Len(s) + Len(t)
    <3>1. i - Len(s) \in 1 .. Len(t)
      BY <1>4, <2>2
    <3> QED
      BY <1>4, <1>5, <1>7, <2>2, <3>1
  <2> QED
    BY <1>4, <2>1, <2>2
<1>9. du = PercentDecode(u)
  BY <1>4, <1>7, <1>8, DecodedSame
<1> QED
  BY <1>1, <1>2, <1>3, <1>6, <1>9

LEMMA DecodedAppend ==
    ASSUME NEW text \in Texts, NEW ch \in Char
    PROVE  PercentDecode(Append(text, ch)) = Append(PercentDecode(text), DecodeChar(ch))
<1>1. PICK one : one = <<ch>>
  OBVIOUS
<1>2. PICK d : d = DecodeChar(ch)
  OBVIOUS
<1>3. one \in Texts /\ Len(one) = 1 /\ one[1] = ch /\ d \in Char
  BY <1>1, <1>2, DecodedCharTyped DEF Texts
<1>4. <<d>> = PercentDecode(one)
  <2>1. <<d>> \in Texts /\ Len(<<d>>) = 1 /\ <<d>>[1] = d
    BY <1>3 DEF Texts
  <2>2. \A i \in 1 .. Len(one) : <<d>>[i] = DecodeChar(one[i])
    BY <1>2, <1>3
  <2> QED
    BY <1>3, <2>1, <2>2, DecodedSame
<1>5. PICK dt : dt = PercentDecode(text)
  OBVIOUS
<1>6. dt \in Texts
  BY <1>5, DecodedIs
<1>7. Append(text, ch) = text \o one /\ Append(dt, d) = dt \o <<d>>
  BY <1>1, <1>3, <1>6, AppendIs DEF Texts
<1> QED
  BY <1>2, <1>3, <1>4, <1>5, <1>7, DecodedConcat

LEMMA NoTextDecoded == PercentDecode(<<>>) = <<>>
<1>1. <<>> \in Texts
  BY EmptyTexts DEF Texts
<1> QED
  BY <1>1, DecodedEmpty

\* A pattern decoded and filled with decoded values is what it was filled to,
\* decoded.
LEMMA FilledDecoded ==
    ASSUME NEW pattern \in Texts, NEW values, TextValues(values),
           NEW decoded, DOMAIN decoded = DOMAIN values,
           \A m \in DOMAIN values : decoded[m] = PercentDecode(values[m])
    PROVE  Filled(PercentDecode(pattern), decoded).text = PercentDecode(Filled(pattern, values).text)
<1>1. TextValues(decoded) /\ \A m : Given(decoded, m) = PercentDecode(Given(values, m))
  BY DecodedTyped, NoTextDecoded DEF TextValues, Given
<1> DEFINE Same(q) ==
             /\ Filled(PercentDecode(q), decoded).text = PercentDecode(Filled(q, values).text)
             /\ Filled(PercentDecode(q), decoded).skip = Filled(q, values).skip
             /\ Filled(PercentDecode(q), decoded).n = Filled(q, values).n
           Good == {n \in Nat : \A q \in Texts : Len(q) = n => Same(q)}
<1>2. 0 \in Good
  <2> SUFFICES ASSUME NEW q \in Texts, Len(q) = 0 PROVE Same(q)
    OBVIOUS
  <2>1. q = <<>>
    BY EmptySeq DEF Texts
  <2>2. Filled(q, values) = NotFilled /\ Filled(PercentDecode(q), decoded) = NotFilled
    BY <1>1, <2>1, FillEmpty, NoTextDecoded
  <2>3. NotFilled.text = <<>>
    BY DEF NotFilled
  <2> QED
    BY <2>2, <2>3, NoTextDecoded
<1>3. ASSUME NEW n \in Good PROVE n + 1 \in Good
  <2> SUFFICES ASSUME NEW q \in Texts, Len(q) = n + 1 PROVE Same(q)
    OBVIOUS
  <2>1. PICK p : p = Front(q)
    OBVIOUS
  <2>2. PICK ch : ch = Last(q)
    OBVIOUS
  <2>3. p \in Texts /\ ch \in Char /\ q = Append(p, ch) /\ Len(p) = n
    <3>1. q # <<>>
      BY EmptySeq
    <3> QED
      BY <2>1, <2>2, <3>1, AppendOf DEF Texts
  <2>4. PICK f : f = Filled(p, values)
    OBVIOUS
  <2>5. PICK g : g = Filled(PercentDecode(p), decoded)
    OBVIOUS
  <2>6. PICK d : d = DecodeChar(ch)
    OBVIOUS
  <2>7. g.text = PercentDecode(f.text) /\ g.skip = f.skip /\ g.n = f.n
    BY <2>3, <2>4, <2>5
  <2>8. f \in Fillings /\ Filled(q, values) = FillOne(values, f, ch)
    BY <2>3, <2>4, FillAppend
  <2>9. d \in Char /\ g \in Fillings /\ Filled(PercentDecode(q), decoded) = FillOne(decoded, g, d)
    <3>1. d \in Char
      BY <2>3, <2>6, DecodedCharTyped
    <3>2. PercentDecode(p) \in Texts /\ PercentDecode(q) = Append(PercentDecode(p), d)
      BY <2>3, <2>6, DecodedIs, DecodedAppend
    <3> QED
      BY <1>1, <2>5, <3>1, <3>2, FillAppend
  <2>10. f.text \in Texts /\ f.skip \in BOOLEAN /\ f.n \in Nat
    BY <2>8 DEF Fillings
  <2>11. (d = "{" <=> ch = "{") /\ (d = "}" <=> ch = "}")
    BY <2>6, DecodedCharIs, Zenon
  <2>12. CASE ch = "{"
    <3>1. /\ FillOne(values, f, ch).text = f.text /\ FillOne(values, f, ch).skip = TRUE
          /\ FillOne(values, f, ch).n = f.n + 1
      BY <2>12, Zenon DEF FillOne
    <3>2. /\ FillOne(decoded, g, d).text = g.text /\ FillOne(decoded, g, d).skip = TRUE
          /\ FillOne(decoded, g, d).n = g.n + 1
      BY <2>11, <2>12, Zenon DEF FillOne
    <3> QED
      BY <2>7, <2>8, <2>9, <3>1, <3>2
  <2>13. CASE ch = "}"
    <3>1. /\ FillOne(values, f, ch).text = f.text \o Given(values, f.n)
          /\ FillOne(values, f, ch).skip = FALSE /\ FillOne(values, f, ch).n = f.n
      BY <2>13, Zenon DEF FillOne
    <3>2. /\ FillOne(decoded, g, d).text = g.text \o Given(decoded, g.n)
          /\ FillOne(decoded, g, d).skip = FALSE /\ FillOne(decoded, g, d).n = g.n
      BY <2>11, <2>13, Zenon DEF FillOne
    <3>3. PercentDecode(f.text \o Given(values, f.n)) =
            PercentDecode(f.text) \o PercentDecode(Given(values, f.n))
      BY <2>10, GivenTyped, DecodedConcat
    <3>4. PercentDecode(Given(values, f.n)) = Given(decoded, g.n)
      BY <1>1, <2>7
    <3> QED
      BY <2>7, <2>8, <2>9, <3>1, <3>2, <3>3, <3>4
  <2>14. CASE ch \notin {"{", "}"} /\ f.skip
    <3>1. FillOne(values, f, ch) = f
      BY <2>14, Zenon DEF FillOne
    <3>2. FillOne(decoded, g, d) = g
      BY <2>7, <2>11, <2>14, Zenon DEF FillOne
    <3> QED
      BY <2>7, <2>8, <2>9, <3>1, <3>2
  <2>15. CASE ch \notin {"{", "}"} /\ ~f.skip
    <3>1. /\ FillOne(values, f, ch).text = Append(f.text, ch)
          /\ FillOne(values, f, ch).skip = f.skip /\ FillOne(values, f, ch).n = f.n
      BY <2>15, Zenon DEF FillOne
    <3>2. /\ FillOne(decoded, g, d).text = Append(g.text, d)
          /\ FillOne(decoded, g, d).skip = g.skip /\ FillOne(decoded, g, d).n = g.n
      BY <2>7, <2>11, <2>15, Zenon DEF FillOne
    <3>3. PercentDecode(Append(f.text, ch)) = Append(PercentDecode(f.text), d)
      BY <2>3, <2>6, <2>10, DecodedAppend
    <3> QED
      BY <2>7, <2>8, <2>9, <3>1, <3>2, <3>3
  <2> QED
    BY <2>12, <2>13, <2>14, <2>15, Zenon
<1>4. Good = Nat
  <2>1. Good \in SUBSET Nat
    OBVIOUS
  <2> HIDE DEF Good
  <2> QED
    BY <1>2, <1>3, <2>1, SetInduction
<1>5. Len(pattern) \in Nat
  BY LenProperties DEF Texts
<1> QED
  BY <1>4, <1>5

-----------------------------------------------------------------------------
(***************************************************************************)
(* A text cut and put together again.                                      *)
(***************************************************************************)
\* A text of one character more, and how it is split.
OneLonger(q, p, ch) == q = Append(p, ch)

SplitsTo(q, p, ch, separator, front, last) ==
  /\ front \in Seq(Texts) /\ last \in Texts
  /\ Split(p, separator) = Append(front, last)
  /\ Split(q, separator) = IF ch = separator THEN Append(Append(front, last), <<>>)
                           ELSE Append(front, Append(last, ch))

LEMMA EmptyAppend == \A x : Append(<<>>, x) = <<x>>
OBVIOUS

LEMMA JoinTexts ==
    ASSUME NEW parts \in Seq(Texts), parts # <<>>, NEW part \in Texts, NEW sep \in Texts
    PROVE  /\ Join(parts, sep) \in Texts
           /\ Join(Append(parts, part), sep) = Join(parts, sep) \o sep \o part
           /\ Join(<<part>>, sep) = part
<1>1. parts \in Seq(Seq(Char)) /\ part \in Seq(Char) /\ sep \in Seq(Char)
  BY DEF Texts
<1>2. /\ Join(parts, sep) \in Seq(Char)
      /\ Join(Append(parts, part), sep) = Join(parts, sep) \o sep \o part
  BY <1>1, JoinAppend
<1>3. Join(<<part>>, sep) = part
  BY <1>1, JoinOne
<1> QED
  BY <1>2, <1>3 DEF Texts

LEMMA JoinMore ==
    ASSUME NEW front \in Seq(Texts), NEW last \in Texts, NEW ch \in Char, NEW sep \in Texts
    PROVE  Join(Append(front, Append(last, ch)), sep) =
             Append(Join(Append(front, last), sep), ch)
<1>1. PICK more : more = Append(last, ch)
  OBVIOUS
<1>2. more \in Texts
  BY <1>1, AppendIs DEF Texts
<1>3. CASE front = <<>>
  <2>1. Join(<<more>>, sep) = more /\ Join(<<last>>, sep) = last
    BY <1>2, JoinOne DEF Texts
  <2> QED
    BY <1>1, <1>3, <2>1, EmptyAppend
<1>4. CASE front # <<>>
  <2>1. PICK j : j = Join(front, sep)
    OBVIOUS
  <2>2. /\ j \in Texts /\ Join(Append(front, more), sep) = j \o sep \o more
        /\ Join(Append(front, last), sep) = j \o sep \o last
    BY <1>2, <1>4, <2>1, JoinTexts
  <2>3. PICK u : u = j \o sep
    OBVIOUS
  <2>4. PICK w : w = u \o last
    OBVIOUS
  <2>5. PICK one : one = <<ch>>
    OBVIOUS
  <2>6. u \in Seq(Char) /\ last \in Seq(Char) /\ w \in Seq(Char) /\ one \in Seq(Char)
    BY <2>2, <2>3, <2>4, <2>5, ConcatProperties DEF Texts
  <2>7. Append(w, ch) = w \o one /\ more = last \o one
    BY <1>1, <2>5, <2>6, AppendIs
  <2>8. (u \o last) \o one = u \o (last \o one)
    BY <2>6, ConcatAssociative, SMTT(30)
  <2> QED
    BY <1>1, <2>2, <2>3, <2>4, <2>7, <2>8
<1> QED
  BY <1>3, <1>4

LEMMA SplitSteps ==
    ASSUME NEW text \in Texts, NEW ch \in Char, NEW separator,
           NEW more, OneLonger(more, text, ch)
    PROVE  \E front, last : SplitsTo(more, text, ch, separator, front, last)
<1>1. PICK parts : parts = Split(text, separator)
  OBVIOUS
<1>2. /\ parts \in Seq(Texts) /\ parts # <<>>
      /\ Split(more, separator) =
           IF ch = separator THEN Append(parts, <<>>)
           ELSE Append(Front(parts), Append(Last(parts), ch))
  BY <1>1, SplitAppend DEF Texts, OneLonger
<1>3. PICK front : front = Front(parts)
  OBVIOUS
<1>4. PICK last : last = Last(parts)
  OBVIOUS
<1>5. front \in Seq(Texts) /\ last \in Texts /\ parts = Append(front, last)
  BY <1>2, <1>3, <1>4, AppendOf
<1> QED
  BY <1>1, <1>2, <1>3, <1>4, <1>5 DEF SplitsTo

LEMMA TextSnoc ==
    ASSUME NEW q \in Texts, NEW n \in Nat, Len(q) = n + 1
    PROVE  \E p \in Texts, ch \in Char : OneLonger(q, p, ch) /\ Len(p) = n
<1>1. q # <<>>
  BY EmptySeq
<1>2. PICK p : p = Front(q)
  OBVIOUS
<1>3. PICK ch : ch = Last(q)
  OBVIOUS
<1>4. p \in Texts /\ ch \in Char /\ q = Append(p, ch) /\ Len(p) = Len(q) - 1
  BY <1>1, <1>2, <1>3, AppendOf DEF Texts
<1> QED
  BY <1>4 DEF OneLonger

LEMMA JoinSplit ==
    ASSUME NEW text \in Texts, NEW sep \in Char
    PROVE  Join(Split(text, sep), <<sep>>) = text
<1>1. PICK mark : mark = <<sep>>
  OBVIOUS
<1>2. mark \in Texts
  BY <1>1 DEF Texts
<1> DEFINE Whole(q) == Join(Split(q, sep), mark) = q
           Good == {n \in Nat : \A q \in Texts : Len(q) = n => Whole(q)}
<1>3. 0 \in Good
  <2> SUFFICES ASSUME NEW q \in Texts, Len(q) = 0 PROVE Whole(q)
    OBVIOUS
  <2>1. q = <<>>
    BY EmptySeq DEF Texts
  <2>2. Join(<<q>>, mark) = q
    BY <1>2, JoinOne DEF Texts
  <2> QED
    BY <2>1, <2>2, SplitEmpty
<1>4. ASSUME NEW n \in Good PROVE n + 1 \in Good
  <2> SUFFICES ASSUME NEW q \in Texts, Len(q) = n + 1 PROVE Whole(q)
    OBVIOUS
  <2>1. PICK p \in Texts, ch \in Char : OneLonger(q, p, ch) /\ Len(p) = n
    BY TextSnoc
  <2>2. PICK front, last : SplitsTo(q, p, ch, sep, front, last)
    BY <2>1, SplitSteps
  <2>3. /\ front \in Seq(Texts) /\ last \in Texts
        /\ Split(p, sep) = Append(front, last)
        /\ Split(q, sep) = IF ch = sep THEN Append(Append(front, last), <<>>)
                          ELSE Append(front, Append(last, ch))
    BY <2>2 DEF SplitsTo
  <2>4. PICK parts : parts = Append(front, last)
    OBVIOUS
  <2>5. <<>> \in Texts
    BY EmptyTexts DEF Texts
  <2>6. parts \in Seq(Texts) /\ parts # <<>>
    BY <2>3, <2>4, AppendIs
  <2>7. Join(parts, mark) = p
    BY <2>1, <2>3, <2>4
  <2>8. CASE ch = sep
    <3>1. PICK none : none = <<>>
      OBVIOUS
    <3>2. Join(Append(parts, none), mark) = p \o mark \o none
      <4>1. parts \in Seq(Seq(Char)) /\ none \in Seq(Char) /\ mark \in Seq(Char)
        BY <1>2, <2>5, <2>6, <3>1 DEF Texts
      <4> HIDE DEF Good, Whole
      <4>2. Join(Append(parts, none), mark) = Join(parts, mark) \o mark \o none
        BY <2>6, <4>1, JoinAppend, SMTT(30)
      <4> QED
        BY <2>7, <4>2
    <3>3. PICK u : u = p \o mark
      OBVIOUS
    <3>4. u \in Seq(Char) /\ u \o <<>> = u
      BY <1>2, <3>3, ConcatProperties, ConcatEmptySeq DEF Texts
    <3>5. Append(p, ch) = p \o mark
      BY <1>1, <2>8, AppendIs DEF Texts
    <3> QED
      BY <2>1, <2>3, <2>4, <2>8, <3>1, <3>2, <3>3, <3>4, <3>5 DEF OneLonger
  <2>9. CASE ch # sep
    <3>1. Join(Append(front, Append(last, ch)), mark) = Append(Join(parts, mark), ch)
      BY <1>2, <2>3, <2>4, JoinMore
    <3> QED
      BY <2>1, <2>3, <2>7, <2>9, <3>1 DEF OneLonger
  <2> QED
    BY <2>8, <2>9
<1>5. Good = Nat
  <2>1. Good \in SUBSET Nat
    OBVIOUS
  <2> HIDE DEF Good
  <2> QED
    BY <1>3, <1>4, <2>1, SetInduction
<1>6. Len(text) \in Nat
  BY LenProperties DEF Texts
<1> QED
  BY <1>1, <1>5, <1>6

\* The parts have no characters but the text's, and no separator.
LEMMA SplitElements ==
    ASSUME NEW text \in Texts, NEW separator
    PROVE  \A k \in DOMAIN Split(text, separator) :
             ToSet(Split(text, separator)[k]) \subseteq ToSet(text) \ {separator}
<1> DEFINE Inside(q) == \A k \in DOMAIN Split(q, separator) :
                          ToSet(Split(q, separator)[k]) \subseteq ToSet(q) \ {separator}
           Good == {n \in Nat : \A q \in Texts : Len(q) = n => Inside(q)}
<1>1. ToSet(<<>>) = {}
  BY DEF ToSet
<1>2. 0 \in Good
  <2> SUFFICES ASSUME NEW q \in Texts, Len(q) = 0 PROVE Inside(q)
    OBVIOUS
  <2>1. q = <<>>
    BY EmptySeq DEF Texts
  <2>2. Split(q, separator) = << <<>> >>
    BY <2>1, SplitEmpty
  <2> QED
    BY <1>1, <2>2
<1>3. ASSUME NEW n \in Good PROVE n + 1 \in Good
  <2> SUFFICES ASSUME NEW q \in Texts, Len(q) = n + 1 PROVE Inside(q)
    OBVIOUS
  <2>1. PICK p \in Texts, ch \in Char : OneLonger(q, p, ch) /\ Len(p) = n
    BY TextSnoc
  <2>2. PICK front, last : SplitsTo(q, p, ch, separator, front, last)
    BY <2>1, SplitSteps
  <2>3. /\ front \in Seq(Texts) /\ last \in Texts
        /\ Split(p, separator) = Append(front, last)
        /\ Split(q, separator) = IF ch = separator THEN Append(Append(front, last), <<>>)
                          ELSE Append(front, Append(last, ch))
    BY <2>2 DEF SplitsTo
  <2>4. PICK parts : parts = Append(front, last)
    OBVIOUS
  <2>5. PICK set : set = ToSet(p) \ {separator}
    OBVIOUS
  <2>6. /\ parts \in Seq(Texts) /\ Len(front) \in Nat
        /\ DOMAIN parts = 1 .. Len(front) + 1 /\ Len(parts) = Len(front) + 1
        /\ \A i \in 1 .. Len(front) : parts[i] = front[i]
        /\ parts[Len(front) + 1] = last
    BY <2>3, <2>4, AppendIs
  <2>7. \A k \in 1 .. Len(front) + 1 : ToSet(parts[k]) \subseteq set
    BY <2>1, <2>3, <2>4, <2>5, <2>6
  <2>8. ToSet(q) = ToSet(p) \cup {ch}
    BY <2>1, ToSetOfAppend DEF Texts, OneLonger
  <2>9. CASE ch = separator
    <3>1. PICK more : more = Append(parts, <<>>)
      OBVIOUS
    <3>2. /\ DOMAIN more = 1 .. Len(front) + 2 /\ more[Len(front) + 2] = <<>>
          /\ \A i \in 1 .. Len(front) + 1 : more[i] = parts[i]
      <4>1. <<>> \in Texts
        BY EmptyTexts DEF Texts
      <4> QED
        BY <2>6, <3>1, <4>1, AppendIs
    <3>3. \A k \in 1 .. Len(front) + 2 : ToSet(more[k]) \subseteq set
      <4> TAKE k \in 1 .. Len(front) + 2
      <4>1. CASE k = Len(front) + 2
        BY <1>1, <3>2, <4>1
      <4>2. CASE k # Len(front) + 2
        BY <2>6, <2>7, <3>2, <4>2
      <4> QED
        BY <4>1, <4>2
    <3>4. Split(q, separator) = more
      BY <2>1, <2>3, <2>4, <2>9, <3>1
    <3> QED
      BY <2>5, <2>8, <3>2, <3>3, <3>4
  <2>10. CASE ch # separator
    <3>1. PICK end : end = Append(last, ch)
      OBVIOUS
    <3>2. PICK more : more = Append(front, end)
      OBVIOUS
    <3>3. end \in Texts /\ ToSet(end) = ToSet(last) \cup {ch}
      BY <2>3, <3>1, AppendIs, ToSetOfAppend DEF Texts
    <3>4. /\ DOMAIN more = 1 .. Len(front) + 1 /\ more[Len(front) + 1] = end
          /\ \A i \in 1 .. Len(front) : more[i] = front[i]
      BY <2>3, <3>2, <3>3, AppendIs
    <3>5. \A k \in 1 .. Len(front) + 1 : ToSet(more[k]) \subseteq set \cup {ch}
      <4> TAKE k \in 1 .. Len(front) + 1
      <4>1. CASE k = Len(front) + 1
        BY <2>6, <2>7, <3>3, <3>4, <4>1
      <4>2. CASE k # Len(front) + 1
        BY <2>6, <2>7, <3>4, <4>2
      <4> QED
        BY <4>1, <4>2
    <3>6. Split(q, separator) = more
      BY <2>1, <2>3, <2>10, <3>1, <3>2
    <3> QED
      BY <2>5, <2>8, <2>10, <3>4, <3>5, <3>6
  <2> QED
    BY <2>9, <2>10
<1>4. Good = Nat
  <2>1. Good \in SUBSET Nat
    OBVIOUS
  <2> HIDE DEF Good
  <2> QED
    BY <1>2, <1>3, <2>1, SetInduction
<1>5. Len(text) \in Nat
  BY LenProperties DEF Texts
<1> QED
  BY <1>4, <1>5

LEMMA SlashTrimmed ==
    ASSUME NEW s \in Texts, NEW longer \in Texts, Len(longer) = Len(s) + 1,
           longer[1] = "/", \A i \in 1 .. Len(s) : longer[i + 1] = s[i]
    PROVE  TrimSlashes(longer) = TrimSlashes(s)
<1> DEFINE kept(t) == {i \in DOMAIN t : t[i] # "/"}
<1>1. /\ Len(s) \in Nat /\ DOMAIN s = 1 .. Len(s) /\ DOMAIN longer = 1 .. Len(s) + 1
      /\ s \in Seq(Char) /\ longer \in Seq(Char)
  BY LenProperties DEF Texts
<1>2. PICK K : K = kept(s)
  OBVIOUS
<1>3. PICK L : L = kept(longer)
  OBVIOUS
<1>4. /\ K \in SUBSET (1 .. Len(s)) /\ L \in SUBSET (1 .. Len(s) + 1)
      /\ \A i \in 1 .. Len(s) + 1 : i \in L <=> i - 1 \in K
  <2>1. ASSUME NEW i \in 1 .. Len(s) + 1 PROVE i \in L <=> i - 1 \in K
    <3>1. CASE i = 1
      BY <1>1, <1>2, <1>3, <3>1
    <3>2. CASE i # 1
      <4>1. PICK j \in 1 .. Len(s) : i = j + 1
        <5>1. i - 1 \in 1 .. Len(s) /\ i = (i - 1) + 1
          BY <1>1, <3>2
        <5> QED
          BY <5>1
      <4>2. longer[i] = s[j] /\ i - 1 = j
        BY <1>1, <4>1
      <4> QED
        BY <1>1, <1>2, <1>3, <4>2
    <3> QED
      BY <3>1, <3>2
  <2> QED
    BY <1>1, <1>2, <1>3, <2>1
<1>5. /\ TrimSlashes(s) = IF K = {} THEN <<>> ELSE SubSeq(s, Min(K), Max(K))
      /\ TrimSlashes(longer) = IF L = {} THEN <<>> ELSE SubSeq(longer, Min(L), Max(L))
  BY <1>2, <1>3 DEF TrimSlashes
<1> HIDE DEF kept
<1>6. CASE K = {}
  <2>1. L = {}
    BY <1>1, <1>4, <1>6
  <2> QED
    BY <1>5, <1>6, <2>1
<1>7. CASE K # {}
  <2>1. PICK m : m = Min(K)
    OBVIOUS
  <2>2. PICK M : M = Max(K)
    OBVIOUS
  <2>3. /\ m \in K /\ M \in K /\ \A n \in K : m <= n /\ n <= M
    BY <1>1, <1>4, <1>7, <2>1, <2>2, MinOfPart, MaxOfPart
  <2>4. m \in 1 .. Len(s) /\ M \in 1 .. Len(s) /\ m <= M
    BY <1>4, <2>3
  <2>5. L \in SUBSET Nat /\ m + 1 \in L /\ M + 1 \in L /\ \A n \in L : m + 1 <= n /\ n <= M + 1
    <3>1. ASSUME NEW n \in L PROVE m + 1 <= n /\ n <= M + 1
      <4>1. n - 1 \in K /\ n \in Nat
        BY <1>1, <1>4
      <4>2. m <= n - 1 /\ n - 1 <= M
        BY <2>3, <4>1
      <4> QED
        BY <2>4, <4>1, <4>2
    <3>2. m + 1 \in 1 .. Len(s) + 1 /\ M + 1 \in 1 .. Len(s) + 1
          /\ (m + 1) - 1 = m /\ (M + 1) - 1 = M
      BY <1>1, <2>4
    <3> QED
      BY <1>1, <1>4, <2>3, <3>1, <3>2
  <2>6. Min(L) = m + 1 /\ Max(L) = M + 1
    BY <2>4, <2>5, LeastIsMin, GreatestIsMax
  <2>7. PICK one : one = SubSeq(s, m, M)
    OBVIOUS
  <2>8. PICK two : two = SubSeq(longer, m + 1, M + 1)
    OBVIOUS
  <2>9. /\ one \in Seq(Char) /\ Len(one) = M - m + 1
        /\ \A i \in 1 .. M - m + 1 : one[i] = s[m + i - 1]
    BY <1>1, <2>4, <2>7, SubSeqTyped
  <2>10. /\ two \in Seq(Char) /\ Len(two) = M - m + 1
         /\ \A i \in 1 .. M - m + 1 : two[i] = longer[m + i]
    <3>1. m + 1 \in 1 .. Len(longer) + 1 /\ M + 1 \in 0 .. Len(longer) /\ m + 1 <= M + 1
      BY <1>1, <2>4
    <3>2. /\ two \in Seq(Char) /\ Len(two) = (M + 1) - (m + 1) + 1
          /\ \A i \in 1 .. (M + 1) - (m + 1) + 1 : two[i] = longer[(m + 1) + i - 1]
      BY <1>1, <2>8, <3>1, SubSeqTyped, SMTT(30)
    <3> QED
      BY <1>1, <2>4, <3>2
  <2>11. ASSUME NEW i \in 1 .. M - m + 1 PROVE one[i] = two[i]
    <3>1. PICK k \in 1 .. Len(s) : k = m + i - 1
      BY <1>1, <2>4
    <3>2. m + i = k + 1
      BY <1>1, <2>4, <3>1
    <3> QED
      BY <2>9, <2>10, <3>1, <3>2
  <2>12. one = two
    BY <2>9, <2>10, <2>11, SeqEqual
  <2>13. L # {}
    BY <2>5
  <2> QED
    BY <1>5, <1>7, <2>1, <2>2, <2>6, <2>7, <2>8, <2>12, <2>13
<1> QED
  BY <1>6, <1>7

\* What the parts after an empty first one are joined to.
JoinsTail(parts, sep) == Join(parts, sep) = sep \o Join(Tail(parts), sep)

LEMMA JoinTailMore ==
    ASSUME NEW sep \in Texts, NEW f \in Seq(Texts), f # <<>>, Head(f) = <<>>,
           NEW x \in Texts, Tail(f) # <<>> => JoinsTail(f, sep)
    PROVE  JoinsTail(Append(f, x), sep)
<1>1. PICK t : t = Tail(f)
  OBVIOUS
<1>2. t \in Seq(Texts) /\ Len(t) = Len(f) - 1 /\ Len(f) \in Nat
  BY <1>1, HeadTailProperties, LenProperties
<1>3. Tail(Append(f, x)) = Append(t, x)
  BY <1>1, HeadTailAppend
<1>4. PICK j : j = Join(f, sep)
  OBVIOUS
<1>5. j \in Texts /\ Join(Append(f, x), sep) = j \o sep \o x /\ Join(<<x>>, sep) = x
  BY <1>4, JoinTexts
<1>6. CASE t = <<>>
  <2>1. PICK none : none = <<>>
    OBVIOUS
  <2>2. none \in Texts
    BY <2>1, EmptyTexts DEF Texts
  <2>3. f = <<none>>
    <3>1. Len(f) = 1
      BY <1>2, <1>6
    <3>2. f[1] = none
      BY <2>1, <3>1
    <3>3. <<none>> \in Seq(Texts) /\ Len(<<none>>) = 1 /\ <<none>>[1] = none
      BY <2>2
    <3> QED
      BY <3>1, <3>2, <3>3, SeqEqual
  <2>4. Join(<<none>>, sep) = none
    BY <2>2, JoinOne DEF Texts
  <2>5. j = none
    BY <1>4, <2>3, <2>4
  <2>6. none \o sep = sep
    BY <2>1, ConcatEmptySeq DEF Texts
  <2>7. Append(t, x) = <<x>>
    BY <1>6, EmptyAppend
  <2> QED
    BY <1>3, <1>5, <2>5, <2>6, <2>7 DEF JoinsTail
<1>7. CASE t # <<>>
  <2>1. PICK k : k = Join(t, sep)
    OBVIOUS
  <2>2. k \in Texts /\ Join(Append(t, x), sep) = k \o sep \o x
    BY <1>2, <1>7, <2>1, JoinTexts
  <2>3. j = sep \o k
    BY <1>1, <1>4, <1>7, <2>1 DEF JoinsTail
  <2>4. PICK l : l = k \o sep
    OBVIOUS
  <2>5. /\ l \in Seq(Char) /\ sep \in Seq(Char) /\ k \in Seq(Char) /\ x \in Seq(Char)
    BY <2>2, <2>4, ConcatProperties DEF Texts
  <2>6. (sep \o k) \o sep = sep \o (k \o sep)
    BY <2>5, ConcatAssociative, SMTT(30)
  <2>7. (sep \o l) \o x = sep \o (l \o x)
    BY <2>5, ConcatAssociative, SMTT(30)
  <2> QED
    BY <1>3, <1>5, <2>2, <2>3, <2>4, <2>6, <2>7 DEF JoinsTail
<1> QED
  BY <1>6, <1>7

LEMMA JoinTail ==
    ASSUME NEW sep \in Texts, NEW parts \in Seq(Texts), parts # <<>>, Head(parts) = <<>>,
           Tail(parts) # <<>>
    PROVE  JoinsTail(parts, sep)
<1> DEFINE Starts(q) == q # <<>> /\ Head(q) = <<>> /\ Tail(q) # <<>>
           Good == {n \in Nat : \A q \in Seq(Texts) :
                                  Len(q) = n + 1 /\ Starts(q) => JoinsTail(q, sep)}
<1>1. 0 \in Good
  <2> SUFFICES ASSUME NEW q \in Seq(Texts), Len(q) = 1, Starts(q) PROVE FALSE
    OBVIOUS
  <2>1. Tail(q) \in Seq(Texts) /\ Len(Tail(q)) = 0
    BY HeadTailProperties
  <2> QED
    BY <2>1, EmptySeq
<1>2. ASSUME NEW n \in Good PROVE n + 1 \in Good
  <2> SUFFICES ASSUME NEW q \in Seq(Texts), Len(q) = n + 2, Starts(q) PROVE JoinsTail(q, sep)
    OBVIOUS
  <2>1. PICK f : f = Front(q)
    OBVIOUS
  <2>2. PICK x : x = Last(q)
    OBVIOUS
  <2>3. f \in Seq(Texts) /\ x \in Texts /\ q = Append(f, x) /\ Len(f) = n + 1
    <3>1. f \in Seq(Texts) /\ x \in Texts /\ q = Append(f, x) /\ Len(f) = Len(q) - 1
      BY <2>1, <2>2, AppendOf
    <3> QED
      BY <3>1
  <2>4. f # <<>> /\ Head(f) = <<>>
    <3>1. f # <<>>
      BY <2>3
    <3>2. Head(Append(f, x)) = Head(f)
      BY <2>3, <3>1, HeadTailAppend
    <3> QED
      BY <2>3, <3>1, <3>2
  <2>5. Tail(f) # <<>> => JoinsTail(f, sep)
    BY <2>3, <2>4
  <2> HIDE DEF Good
  <2> QED
    BY <2>3, <2>4, <2>5, JoinTailMore
<1>3. Good = Nat
  <2>1. Good \in SUBSET Nat
    BY SMTT(30)
  <2> HIDE DEF Good
  <2> QED
    BY <1>1, <1>2, <2>1, SetInduction
<1>4. PICK n \in Nat : Len(parts) = n + 1
  <2>1. Len(parts) \in Nat /\ Len(parts) # 0
    BY LenProperties, EmptySeq
  <2>2. Len(parts) - 1 \in Nat /\ Len(parts) = (Len(parts) - 1) + 1
    BY <2>1
  <2> QED
    BY <2>2, Zenon
<1> QED
  BY <1>3, <1>4

LEMMA Utf8Set ==
    ASSUME NEW text \in Texts
    PROVE  Utf8(text) <=> "\\xFF" \notin ToSet(text)
BY LenProperties DEF Utf8, Contains, ToSet, Texts

\* The path of a URL reaches the router, but for slashes at its ends.
LEMMA PathSent ==
    ASSUME NEW path \in Texts, Utf8(path), NEW req, req.path = SetPath(path)
    PROVE  TrimSlashes(RequestPath(req)) = TrimSlashes(path)
<1>1. PICK parts : parts = Split(path, "/")
  OBVIOUS
<1>2. PICK mark : mark = <<"/">>
  OBVIOUS
<1>3. parts \in Seq(Texts) /\ parts # <<>> /\ mark \in Texts
  <2>1. mark \in Texts
    <3>1. "/" \in Char
      BY CharAssumption, Zenon
    <3> QED
      BY <1>2, <3>1 DEF Texts
  <2>2. parts \in Seq(Texts) /\ parts # <<>>
    BY <1>1, SplitTyped DEF Texts
  <2> QED
    BY <2>1, <2>2
<1>4. Join(parts, mark) = path
  BY <1>1, <1>2, CharAssumption, JoinSplit, Zenon
<1>5. PICK tail : tail = Tail(parts)
  OBVIOUS
<1>6. /\ tail \in Seq(Texts) /\ Len(tail) = Len(parts) - 1 /\ Len(parts) \in Nat \ {0}
      /\ \A i \in 1 .. Len(tail) : tail[i] = parts[i + 1]
  BY <1>3, <1>5, HeadTailProperties, LenProperties, EmptySeq
<1>7. DOMAIN parts = 1 .. Len(parts) /\ DOMAIN tail = 1 .. Len(tail)
  BY <1>3, <1>6, LenProperties
<1>8. \A k \in DOMAIN parts : Utf8(parts[k])
  <2> SUFFICES ASSUME NEW k \in DOMAIN parts PROVE Utf8(parts[k])
    OBVIOUS
  <2>1. parts[k] \in Texts
    BY <1>3, <1>7, ElementOfSeq
  <2>2. ToSet(parts[k]) \subseteq ToSet(path) \ {"/"}
    BY <1>1, SplitElements
  <2>3. "\\xFF" \notin ToSet(path)
    BY Utf8Set
  <2> QED
    BY <2>1, <2>2, <2>3, Utf8Set
<1>9. \A k \in DOMAIN tail : Utf8(tail[k])
  <2> SUFFICES ASSUME NEW k \in DOMAIN tail PROVE Utf8(tail[k])
    OBVIOUS
  <2>1. tail[k] = parts[k + 1] /\ k + 1 \in DOMAIN parts
    BY <1>6, <1>7
  <2> QED
    BY <1>8, <2>1
<1>10. req.path = IF Head(parts) = <<>> THEN tail ELSE parts
  BY <1>1, <1>5 DEF SetPath
<1>11. CASE Head(parts) # <<>>
  <2>1. req.path = parts
    BY <1>10, <1>11
  <2>2. RequestPath(req) = path
    BY <1>2, <1>3, <1>4, <1>8, <2>1 DEF RequestPath
  <2> QED
    BY <2>2
<1>12. CASE Head(parts) = <<>> /\ tail = <<>>
  <2>1. PICK none : none = <<>>
    OBVIOUS
  <2>2. none \in Texts
    BY <2>1, EmptyTexts DEF Texts
  <2>3. parts = <<none>>
    <3>1. Len(parts) = 1
      BY <1>6, <1>12
    <3>2. parts[1] = none
      BY <1>12, <2>1, <3>1
    <3>3. <<none>> \in Seq(Texts) /\ Len(<<none>>) = 1 /\ <<none>>[1] = none
      BY <2>2
    <3> QED
      BY <1>3, <3>1, <3>2, <3>3, SeqEqual
  <2>4. path = none
    BY <1>3, <1>4, <2>2, <2>3, JoinOne DEF Texts
  <2>5. RequestPath(req) = <<>>
    BY <1>10, <1>12 DEF RequestPath
  <2> QED
    BY <2>1, <2>4, <2>5
<1>13. CASE Head(parts) = <<>> /\ tail # <<>>
  <2>1. PICK rest : rest = Join(tail, mark)
    OBVIOUS
  <2>2. rest \in Texts
    BY <1>3, <1>6, <1>13, <2>1, JoinTyped DEF Texts
  <2>3. path = mark \o rest
    BY <1>3, <1>4, <1>5, <1>13, <2>1, JoinTail DEF JoinsTail
  <2>4. RequestPath(req) = rest
    BY <1>2, <1>9, <1>10, <1>13, <2>1 DEF RequestPath
  <2>5. /\ Len(path) = Len(rest) + 1 /\ path[1] = "/"
        /\ \A i \in 1 .. Len(rest) : path[i + 1] = rest[i]
    <3>1. mark \in Seq(Char) /\ rest \in Seq(Char) /\ Len(mark) = 1 /\ mark[1] = "/"
          /\ Len(rest) \in Nat
      BY <1>2, <1>3, <2>2, LenProperties DEF Texts
    <3>2. /\ Len(mark \o rest) = Len(mark) + Len(rest)
          /\ \A i \in 1 .. Len(mark) + Len(rest) :
               (mark \o rest)[i] = IF i <= Len(mark) THEN mark[i] ELSE rest[i - Len(mark)]
      BY <3>1, ConcatProperties
    <3> QED
      BY <2>3, <3>1, <3>2
  <2> QED
    BY <2>2, <2>4, <2>5, SlashTrimmed
<1> QED
  BY <1>11, <1>12, <1>13

-----------------------------------------------------------------------------
(***************************************************************************)
(* The parameters of a route fill its pattern.                             *)
(***************************************************************************)
Params(regex) == {piece \in ToSet(regex) : piece.kind = "param"}

LEMMA ThoseSnoc ==
    ASSUME NEW S, NEW s \in Seq(S), NEW x \in S, NEW T, NEW more, OneLonger(more, s, x)
    PROVE  /\ Those(s, T) \in Seq(S)
           /\ x \in T => Those(more, T) = Append(Those(s, T), x)
           /\ x \notin T => Those(more, T) = Those(s, T)
<1>1. Those(s, T) \in Seq(S)
  BY ThoseKept
<1>2. more = Append(s, x)
  BY DEF OneLonger
<1>3. Those(Append(s, x), T) = IF x \in T THEN Append(Those(s, T), x) ELSE Those(s, T)
  BY ThoseAppend
<1> QED
  BY <1>1, <1>2, <1>3

LEMMA ParamCount ==
    ASSUME NEW regex \in Seq(Pieces)
    PROVE  Len(Those(regex, Params(regex))) = Before(regex, Len(regex))
<1>1. PICK T : T = Params(regex)
  OBVIOUS
<1>2. Len(regex) \in Nat /\ DOMAIN regex = 1 .. Len(regex)
  BY LenProperties
<1>3. \A i \in 1 .. Len(regex) : regex[i] \in Pieces /\ (regex[i] \in T <=> regex[i].kind # "literal")
  <2> SUFFICES ASSUME NEW i \in 1 .. Len(regex)
               PROVE  regex[i] \in Pieces /\ (regex[i] \in T <=> regex[i].kind # "literal")
    OBVIOUS
  <2>1. regex[i] \in Pieces
    BY ElementOfSeq
  <2>2. regex[i] \in ToSet(regex)
    BY <1>2 DEF ToSet
  <2>3. regex[i].kind = "literal" \/ regex[i].kind = "param"
    BY <2>1, PieceTyped
  <2> QED
    BY <1>1, <2>1, <2>2, <2>3 DEF Params
<1> DEFINE first(k) == SubSeq(regex, 1, k)
           Good == {k \in Nat : k <= Len(regex) => Len(Those(first(k), T)) = Before(regex, k)}
<1>4. 0 \in Good
  <2>1. first(0) = <<>>
    OBVIOUS
  <2>2. Those(first(0), T) = <<>>
    BY <2>1, ThoseEmpty
  <2> QED
    BY <2>2, BeforeSteps
<1>5. ASSUME NEW k \in Good PROVE k + 1 \in Good
  <2> SUFFICES ASSUME k + 1 <= Len(regex)
               PROVE  Len(Those(first(k + 1), T)) = Before(regex, k + 1)
    OBVIOUS
  <2>1. k \in 0 .. Len(regex) - 1 /\ k \in 0 .. Len(regex) /\ k + 1 \in 1 .. Len(regex)
    BY <1>2
  <2>2. PICK s : s = first(k)
    OBVIOUS
  <2>3. PICK x : x = regex[k + 1]
    OBVIOUS
  <2>4. PICK more : more = first(k + 1)
    OBVIOUS
  <2>5. s \in Seq(Pieces) /\ x \in Pieces /\ OneLonger(more, s, x)
    BY <2>1, <2>2, <2>3, <2>4, OneMore DEF OneLonger
  <2>6. PICK kept : kept = Those(s, T)
    OBVIOUS
  <2>7. Len(kept) = Before(regex, k)
    BY <2>1, <2>2, <2>6
  <2> HIDE DEF Good, first
  <2>8. /\ kept \in Seq(Pieces)
        /\ x \in T => Those(more, T) = Append(kept, x)
        /\ x \notin T => Those(more, T) = kept
    BY <2>5, <2>6, ThoseSnoc
  <2>9. Len(kept) = Before(regex, k) /\ Before(regex, k) \in Nat
    BY <2>1, <2>7, BeforeSteps
  <2>10. Len(Append(kept, x)) = Len(kept) + 1
    BY <2>5, <2>8, AppendIs
  <2>11. x \in T <=> x.kind # "literal"
    BY <1>3, <2>1, <2>3
  <2>12. Before(regex, k + 1) = Before(regex, k) + (IF x.kind = "literal" THEN 0 ELSE 1)
    BY <2>1, <2>3, BeforeSteps
  <2> QED
    BY <2>4, <2>8, <2>9, <2>10, <2>11, <2>12
<1>6. Good = Nat
  <2>1. Good \in SUBSET Nat
    OBVIOUS
  <2> HIDE DEF Good
  <2> QED
    BY <1>4, <1>5, <2>1, SetInduction
<1>7. first(Len(regex)) = regex
  BY SubSeqFull
<1>8. Len(Those(first(Len(regex)), T)) = Before(regex, Len(regex))
  BY <1>2, <1>6
<1> QED
  BY <1>1, <1>7, <1>8

LEMMA OpeningsCounted ==
    ASSUME NEW pattern \in Texts, ~BuildRegex(pattern).panics
    PROVE  Cardinality(Opening(TrimSlashes(pattern))) =
             Before(BuildRegex(pattern).regex, Len(BuildRegex(pattern).regex))
<1>1. PICK regex : regex = BuildRegex(pattern).regex
  OBVIOUS
<1>2. regex \in Seq(Pieces) /\ Len(regex) \in Nat /\ Len(regex) \in 0 .. Len(regex)
  <2>1. regex \in Seq(Pieces)
    BY <1>1, RegexTyped
  <2>2. Len(regex) \in Nat
    BY <2>1, LenProperties
  <2> QED
    BY <2>1, <2>2
<1>3. PICK none : none = <<>>
  OBVIOUS
<1>4. TextValues(none)
  BY <1>3, NoValues
<1>5. Upto(regex, Len(regex), none).n = Before(regex, Len(regex))
  BY <1>2, <1>4, UptoCounts
<1>6. Spell(regex, none).n = Before(regex, Len(regex))
  BY <1>2, <1>4, <1>5, UptoSteps
<1> QED
  BY <1>1, <1>4, <1>6, FillIsSpell

LEMMA FilledAgain ==
    ASSUME NEW pattern \in Texts, ~BuildRegex(pattern).panics, NEW path,
           TrimSlashes(path) \in Texts,
           NEW params \in MatchPath(BuildRegex(pattern).regex, path)
    PROVE  Fill(PercentDecode(TrimSlashes(pattern)), [i \in DOMAIN params |-> params[i].value])
             = PercentDecode(TrimSlashes(path))
<1>1. PICK regex : regex = BuildRegex(pattern).regex
  OBVIOUS
<1>2. PICK q : q = TrimSlashes(pattern)
  OBVIOUS
<1>3. PICK text : text = TrimSlashes(path)
  OBVIOUS
<1>4. PICK names : names = Those(regex, Params(regex))
  OBVIOUS
<1>5. PICK n : n = Before(regex, Len(regex))
  OBVIOUS
<1>6. PICK c \in Captures(regex, text) :
        params = [i \in DOMAIN names |-> [name |-> names[i].text, value |-> PercentDecode(c[i])]]
  BY <1>1, <1>3, <1>4 DEF MatchPath, Params
<1>7. regex \in Seq(Pieces) /\ q \in Texts /\ text \in Texts
  BY <1>1, <1>2, <1>3, RegexTyped, TrimTyped DEF Texts
<1>8. DOMAIN names = 1 .. n
  <2>1. names \in Seq(Pieces)
    BY <1>4, <1>7, ThoseKept
  <2>2. Len(names) = n
    BY <1>4, <1>5, <1>7, ParamCount
  <2> QED
    BY <2>1, <2>2, LenProperties
<1>9. Cardinality(Opening(q)) = n
  BY <1>1, <1>2, <1>5, OpeningsCounted
<1>10. c \in PatternValues(q, text)
  BY <1>1, <1>2, <1>3, <1>6, <1>7, CapturesAreValues
<1>11. c \in [1 .. n -> Capturable(text)] /\ Fill(q, c) = text
  BY <1>9, <1>10 DEF PatternValues
<1>12. TextValues(c)
  BY <1>7, <1>11, CapturableIsText DEF TextValues
<1>13. PICK decoded : decoded = [i \in DOMAIN params |-> params[i].value]
  OBVIOUS
<1>14. DOMAIN decoded = DOMAIN c /\ \A m \in DOMAIN c : decoded[m] = PercentDecode(c[m])
  BY <1>6, <1>8, <1>11, <1>13
<1>15. Filled(PercentDecode(q), decoded).text = PercentDecode(Filled(q, c).text)
  BY <1>7, <1>12, <1>14, FilledDecoded
<1>16. Fill(PercentDecode(q), decoded) = PercentDecode(Fill(q, c))
  BY <1>15, FillIsText
<1> QED
  BY <1>2, <1>3, <1>11, <1>13, <1>16

-----------------------------------------------------------------------------
(***************************************************************************)
(* The query of a URL, decoded part by part.                               *)
(***************************************************************************)
EachDecoded(s) == [i \in DOMAIN s |-> PercentDecode(s[i])]

LEMMA EachDecodedIs ==
    ASSUME NEW s \in Seq(Texts)
    PROVE  /\ EachDecoded(s) \in Seq(Texts) /\ Len(EachDecoded(s)) = Len(s)
           /\ DOMAIN EachDecoded(s) = 1 .. Len(s) /\ DOMAIN s = 1 .. Len(s) /\ Len(s) \in Nat
           /\ \A i \in 1 .. Len(s) : EachDecoded(s)[i] = PercentDecode(s[i])
<1>1. DOMAIN s = 1 .. Len(s) /\ Len(s) \in Nat /\ \A i \in 1 .. Len(s) : s[i] \in Texts
  BY LenProperties, ElementOfSeq
<1>2. \A i \in 1 .. Len(s) : PercentDecode(s[i]) \in Texts
  BY <1>1, DecodedTyped
<1>3. EachDecoded(s) \in [1 .. Len(s) -> Texts]
  BY <1>1, <1>2 DEF EachDecoded
<1>4. \A i \in 1 .. Len(s) : EachDecoded(s)[i] = PercentDecode(s[i])
  BY <1>1 DEF EachDecoded
<1>5. EachDecoded(s) \in Seq(Texts) /\ Len(EachDecoded(s)) = Len(s)
  BY <1>1, <1>3
<1> QED
  BY <1>1, <1>3, <1>4, <1>5

LEMMA EachDecodedSnoc ==
    ASSUME NEW s \in Seq(Texts), NEW x \in Texts
    PROVE  EachDecoded(Append(s, x)) = Append(EachDecoded(s), PercentDecode(x))
<1>1. PICK more : more = Append(s, x)
  OBVIOUS
<1>2. PICK d : d = EachDecoded(s)
  OBVIOUS
<1>3. PICK y : y = PercentDecode(x)
  OBVIOUS
<1>4. PICK one : one = Append(d, y)
  OBVIOUS
<1>5. PICK two : two = EachDecoded(more)
  OBVIOUS
<1>6. /\ more \in Seq(Texts) /\ Len(more) = Len(s) + 1 /\ Len(s) \in Nat
      /\ \A i \in 1 .. Len(s) : more[i] = s[i]
      /\ more[Len(s) + 1] = x
  BY <1>1, AppendIs
<1>7. /\ d \in Seq(Texts) /\ Len(d) = Len(s)
      /\ \A i \in 1 .. Len(s) : d[i] = PercentDecode(s[i])
      /\ y \in Texts
  BY <1>2, <1>3, EachDecodedIs, DecodedTyped
<1>8. /\ one \in Seq(Texts) /\ Len(one) = Len(s) + 1
      /\ \A i \in 1 .. Len(s) : one[i] = d[i]
      /\ one[Len(s) + 1] = y
  BY <1>4, <1>7, AppendIs
<1>9. /\ two \in Seq(Texts) /\ Len(two) = Len(s) + 1
      /\ \A i \in 1 .. Len(s) + 1 : two[i] = PercentDecode(more[i])
  BY <1>5, <1>6, EachDecodedIs
<1>10. ASSUME NEW i \in 1 .. Len(s) + 1 PROVE one[i] = two[i]
  <2>1. CASE i = Len(s) + 1
    BY <1>3, <1>6, <1>8, <1>9, <2>1
  <2>2. CASE i # Len(s) + 1
    <3>1. i \in 1 .. Len(s)
      BY <1>6, <2>2
    <3> QED
      BY <1>6, <1>7, <1>8, <1>9, <3>1
  <2> QED
    BY <2>1, <2>2
<1>11. one = two
  BY <1>8, <1>9, <1>10, SeqEqual
<1> QED
  BY <1>1, <1>2, <1>3, <1>4, <1>5, <1>11

LEMMA AmpersandDecoded ==
    ASSUME NEW ch, ch # "%26"
    PROVE  DecodeChar(ch) = "&" <=> ch = "&"
BY Zenon DEF DecodeChar, EscapeOf

\* Decoding a query does not change where it is cut.
DecodedSplit(q) == Split(PercentDecode(q), "&") = EachDecoded(Split(q, "&"))

LEMMA SplitDecodedMore ==
    ASSUME NEW q \in Texts, NEW p \in Texts, NEW ch \in Char, OneLonger(q, p, ch), ch # "%26",
           DecodedSplit(p)
    PROVE  DecodedSplit(q)
<1>1. PICK dp : dp = PercentDecode(p)
  OBVIOUS
<1>2. PICK d : d = DecodeChar(ch)
  OBVIOUS
<1>3. PICK dq : dq = PercentDecode(q)
  OBVIOUS
<1>4. dp \in Texts /\ d \in Char /\ dq \in Texts /\ OneLonger(dq, dp, d)
  BY <1>1, <1>2, <1>3, DecodedTyped, DecodedCharTyped, DecodedAppend DEF OneLonger
<1>5. PICK front, last : SplitsTo(q, p, ch, "&", front, last)
  BY SplitSteps
<1>6. PICK f, l : SplitsTo(dq, dp, d, "&", f, l)
  BY <1>4, SplitSteps
<1>7. d = "&" <=> ch = "&"
  BY <1>2, AmpersandDecoded
<1>8. PICK parts : parts = Append(front, last)
  OBVIOUS
<1>9. PICK dparts : dparts = Append(f, l)
  OBVIOUS
<1>10. /\ front \in Seq(Texts) /\ last \in Texts /\ f \in Seq(Texts) /\ l \in Texts
       /\ Split(p, "&") = parts /\ Split(dp, "&") = dparts
  BY <1>5, <1>6, <1>8, <1>9 DEF SplitsTo
<1>11. dparts = EachDecoded(parts)
  BY <1>1, <1>10 DEF DecodedSplit
<1>12. PICK df : df = EachDecoded(front)
  OBVIOUS
<1>13. PICK dl : dl = PercentDecode(last)
  OBVIOUS
<1>14. df \in Seq(Texts) /\ dl \in Texts /\ EachDecoded(parts) = Append(df, dl)
  BY <1>8, <1>10, <1>12, <1>13, EachDecodedIs, DecodedTyped, EachDecodedSnoc
<1>15. f = df /\ l = dl
  <2>1. Append(f, l) = Append(df, dl)
    BY <1>9, <1>11, <1>14
  <2>2. /\ Len(f) = Len(df) /\ Len(f) \in Nat /\ Len(df) \in Nat
        /\ \A i \in 1 .. Len(f) : Append(f, l)[i] = f[i]
        /\ \A i \in 1 .. Len(df) : Append(df, dl)[i] = df[i]
        /\ Append(f, l)[Len(f) + 1] = l /\ Append(df, dl)[Len(df) + 1] = dl
    <3>1. /\ Len(Append(f, l)) = Len(f) + 1 /\ Len(f) \in Nat
          /\ Append(f, l)[Len(f) + 1] = l
          /\ \A i \in 1 .. Len(f) : Append(f, l)[i] = f[i]
      BY <1>10, AppendIs
    <3>2. /\ Len(Append(df, dl)) = Len(df) + 1 /\ Len(df) \in Nat
          /\ Append(df, dl)[Len(df) + 1] = dl
          /\ \A i \in 1 .. Len(df) : Append(df, dl)[i] = df[i]
      BY <1>14, AppendIs
    <3> QED
      BY <2>1, <3>1, <3>2
  <2>3. f = df
    BY <1>10, <1>14, <2>1, <2>2, SeqEqual
  <2> QED
    BY <2>1, <2>2, <2>3
<1>16. parts \in Seq(Texts)
  BY <1>8, <1>10, AppendIs
<1>17. CASE ch = "&"
  <2>1. Split(q, "&") = Append(parts, <<>>) /\ Split(dq, "&") = Append(dparts, <<>>)
    BY <1>5, <1>6, <1>7, <1>8, <1>9, <1>17 DEF SplitsTo
  <2>2. PICK none : none = <<>>
    OBVIOUS
  <2>3. none \in Texts /\ PercentDecode(none) = none
    BY <2>2, EmptyTexts, NoTextDecoded DEF Texts
  <2>4. EachDecoded(Append(parts, none)) = Append(EachDecoded(parts), none)
    BY <1>16, <2>3, EachDecodedSnoc
  <2> QED
    BY <1>3, <1>11, <2>1, <2>2, <2>4 DEF DecodedSplit
<1>18. CASE ch # "&"
  <2>1. PICK end : end = Append(last, ch)
    OBVIOUS
  <2>2. Split(q, "&") = Append(front, end) /\ Split(dq, "&") = Append(f, Append(l, d))
    BY <1>5, <1>6, <1>7, <1>18, <2>1 DEF SplitsTo
  <2>3. end \in Texts /\ PercentDecode(end) = Append(dl, d)
    BY <1>2, <1>10, <1>13, <2>1, AppendIs, DecodedAppend DEF Texts
  <2>4. EachDecoded(Append(front, end)) = Append(df, Append(dl, d))
    BY <1>10, <1>12, <2>3, EachDecodedSnoc
  <2> QED
    BY <1>3, <1>15, <2>2, <2>4 DEF DecodedSplit
<1> QED
  BY <1>17, <1>18

LEMMA SplitDecoded ==
    ASSUME NEW text \in Texts, "%26" \notin ToSet(text)
    PROVE  DecodedSplit(text)
<1> DEFINE Good == {n \in Nat : \A q \in Texts :
                      Len(q) = n /\ "%26" \notin ToSet(q) => DecodedSplit(q)}
<1>1. 0 \in Good
  <2> SUFFICES ASSUME NEW q \in Texts, Len(q) = 0 PROVE DecodedSplit(q)
    OBVIOUS
  <2>1. q = <<>>
    BY EmptySeq DEF Texts
  <2>2. EachDecoded(<< <<>> >>) = << <<>> >>
    <3>1. PICK none : none = <<>>
      OBVIOUS
    <3>2. PercentDecode(none) = none
      BY <3>1, NoTextDecoded
    <3>3. EachDecoded(<<none>>) = <<none>>
      BY <3>2 DEF EachDecoded
    <3> QED
      BY <3>1, <3>3
  <2> QED
    BY <2>1, <2>2, SplitEmpty, NoTextDecoded DEF DecodedSplit
<1>2. ASSUME NEW n \in Good PROVE n + 1 \in Good
  <2> SUFFICES ASSUME NEW q \in Texts, Len(q) = n + 1, "%26" \notin ToSet(q)
               PROVE  DecodedSplit(q)
    OBVIOUS
  <2>1. PICK p \in Texts, ch \in Char : OneLonger(q, p, ch) /\ Len(p) = n
    BY TextSnoc
  <2>2. ToSet(q) = ToSet(p) \cup {ch}
    BY <2>1, ToSetOfAppend DEF Texts, OneLonger
  <2>3. ch # "%26" /\ "%26" \notin ToSet(p)
    BY <2>2
  <2>4. DecodedSplit(p)
    BY <2>1, <2>3
  <2> HIDE DEF Good
  <2> QED
    BY <2>1, <2>3, <2>4, SplitDecodedMore
<1>3. Good = Nat
  <2>1. Good \in SUBSET Nat
    OBVIOUS
  <2> HIDE DEF Good
  <2> QED
    BY <1>1, <1>2, <2>1, SetInduction
<1>4. Len(text) \in Nat
  BY LenProperties DEF Texts
<1> QED
  BY <1>3, <1>4

LEMMA ThoseDecodedMore ==
    ASSUME NEW T, NEW U, NEW s \in Seq(Texts), NEW x \in Texts, x \in T <=> PercentDecode(x) \in U,
           NEW more, OneLonger(more, s, x),
           Those(EachDecoded(s), U) = EachDecoded(Those(s, T))
    PROVE  Those(EachDecoded(more), U) = EachDecoded(Those(more, T))
<1>1. PICK d : d = EachDecoded(s)
  OBVIOUS
<1>2. PICK y : y = PercentDecode(x)
  OBVIOUS
<1>3. PICK dm : dm = EachDecoded(more)
  OBVIOUS
<1>4. d \in Seq(Texts) /\ y \in Texts /\ OneLonger(dm, d, y)
  BY <1>1, <1>2, <1>3, EachDecodedIs, DecodedTyped, EachDecodedSnoc DEF OneLonger
<1>5. PICK kept : kept = Those(s, T)
  OBVIOUS
<1>6. /\ kept \in Seq(Texts) /\ x \in T => Those(more, T) = Append(kept, x)
      /\ x \notin T => Those(more, T) = kept
  BY <1>5, ThoseSnoc
<1>7. /\ y \in U => Those(dm, U) = Append(Those(d, U), y)
      /\ y \notin U => Those(dm, U) = Those(d, U)
  BY <1>4, ThoseSnoc
<1>8. kept \in Seq(Texts)
  BY <1>5, ThoseKept
<1>9. EachDecoded(Append(kept, x)) = Append(EachDecoded(kept), y)
  BY <1>2, <1>8, EachDecodedSnoc
<1>10. CASE x \in T
  BY <1>1, <1>2, <1>3, <1>5, <1>6, <1>7, <1>8, <1>9, <1>10
<1>11. CASE x \notin T
  BY <1>1, <1>2, <1>3, <1>5, <1>6, <1>7, <1>8, <1>11
<1> QED
  BY <1>10, <1>11

LEMMA NonEmptyDecoded ==
    ASSUME NEW parts \in Seq(Texts)
    PROVE  NonEmpty(EachDecoded(parts)) = EachDecoded(NonEmpty(parts))
<1>1. PICK A : A = ToSet(parts)
  OBVIOUS
<1>2. PICK T : T = A \ {<<>>}
  OBVIOUS
<1>3. PICK U : U = ToSet(EachDecoded(parts)) \ {<<>>}
  OBVIOUS
<1>4. Len(parts) \in Nat /\ DOMAIN parts = 1 .. Len(parts)
  BY LenProperties
<1>5. \A i \in 1 .. Len(parts) :
        parts[i] \in Texts /\ (parts[i] \in T <=> PercentDecode(parts[i]) \in U)
  <2> SUFFICES ASSUME NEW i \in 1 .. Len(parts)
               PROVE  parts[i] \in Texts /\ (parts[i] \in T <=> PercentDecode(parts[i]) \in U)
    OBVIOUS
  <2>1. parts[i] \in Texts
    BY ElementOfSeq
  <2>2. parts[i] \in A
    BY <1>1, <1>4 DEF ToSet
  <2>3. PercentDecode(parts[i]) \in ToSet(EachDecoded(parts))
    <3>1. PICK d : d = EachDecoded(parts)
      OBVIOUS
    <3>2. DOMAIN d = 1 .. Len(parts) /\ d[i] = PercentDecode(parts[i])
      BY <3>1, EachDecodedIs
    <3>3. d[i] \in ToSet(d)
      BY <3>2 DEF ToSet
    <3> QED
      BY <3>1, <3>2, <3>3
  <2>4. PercentDecode(parts[i]) = <<>> <=> parts[i] = <<>>
    BY <2>1, DecodedEmpty
  <2> QED
    BY <1>2, <1>3, <2>1, <2>2, <2>3, <2>4
<1> DEFINE first(k) == SubSeq(parts, 1, k)
           Good == {k \in Nat : k <= Len(parts) =>
                      Those(EachDecoded(first(k)), U) = EachDecoded(Those(first(k), T))}
<1>6. 0 \in Good
  <2>1. first(0) = <<>>
    OBVIOUS
  <2>2. EachDecoded(<<>>) = <<>>
    BY DEF EachDecoded
  <2> QED
    BY <2>1, <2>2, ThoseEmpty
<1>7. ASSUME NEW k \in Good PROVE k + 1 \in Good
  <2> SUFFICES ASSUME k + 1 <= Len(parts)
               PROVE  Those(EachDecoded(first(k + 1)), U) = EachDecoded(Those(first(k + 1), T))
    OBVIOUS
  <2>1. k \in 0 .. Len(parts) - 1 /\ k + 1 \in 1 .. Len(parts) /\ k <= Len(parts)
    BY <1>4
  <2>2. PICK s : s = first(k)
    OBVIOUS
  <2>3. PICK x : x = parts[k + 1]
    OBVIOUS
  <2>4. PICK more : more = first(k + 1)
    OBVIOUS
  <2>5. s \in Seq(Texts) /\ x \in Texts /\ OneLonger(more, s, x)
    BY <2>1, <2>2, <2>3, <2>4, OneMore DEF OneLonger
  <2>6. Those(EachDecoded(s), U) = EachDecoded(Those(s, T))
    BY <2>1, <2>2
  <2>7. x \in T <=> PercentDecode(x) \in U
    BY <1>5, <2>1, <2>3
  <2> HIDE DEF Good, first
  <2>8. Those(EachDecoded(more), U) = EachDecoded(Those(more, T))
    BY <2>5, <2>6, <2>7, ThoseDecodedMore
  <2> QED
    BY <2>4, <2>8
<1>8. Good = Nat
  <2>1. Good \in SUBSET Nat
    OBVIOUS
  <2> HIDE DEF Good
  <2> QED
    BY <1>6, <1>7, <2>1, SetInduction
<1>9. first(Len(parts)) = parts
  BY SubSeqFull
<1>10. Those(EachDecoded(first(Len(parts))), U) = EachDecoded(Those(first(Len(parts)), T))
  BY <1>4, <1>8
<1> QED
  BY <1>1, <1>2, <1>3, <1>9, <1>10 DEF NonEmpty

LEMMA SubDecoded ==
    ASSUME NEW text \in Texts, NEW m \in 1 .. Len(text) + 1, NEW n \in 0 .. Len(text)
    PROVE  /\ SubSeq(text, m, n) \in Texts
           /\ SubSeq(PercentDecode(text), m, n) = PercentDecode(SubSeq(text, m, n))
<1>1. PICK d : d = PercentDecode(text)
  OBVIOUS
<1>2. PICK one : one = SubSeq(text, m, n)
  OBVIOUS
<1>3. PICK two : two = SubSeq(d, m, n)
  OBVIOUS
<1>4. /\ d \in Seq(Char) /\ Len(d) = Len(text) /\ Len(text) \in Nat /\ text \in Seq(Char)
      /\ \A i \in 1 .. Len(text) : d[i] = DecodeChar(text[i])
  BY <1>1, DecodedIs DEF Texts
<1>5. /\ one \in Texts /\ Len(one) = IF m <= n THEN n - m + 1 ELSE 0
      /\ \A i \in 1 .. n - m + 1 : one[i] = text[m + i - 1]
  BY <1>2, <1>4, SubSeqTyped DEF Texts
<1>6. /\ two \in Texts /\ Len(two) = IF m <= n THEN n - m + 1 ELSE 0
      /\ \A i \in 1 .. n - m + 1 : two[i] = d[m + i - 1]
  BY <1>3, <1>4, SubSeqTyped DEF Texts
<1>7. ASSUME NEW i \in 1 .. Len(one) PROVE two[i] = DecodeChar(one[i])
  <2>1. i \in 1 .. n - m + 1
    BY <1>4, <1>5
  <2>2. PICK k \in 1 .. Len(text) : k = m + i - 1
    BY <1>4, <2>1
  <2> QED
    BY <1>4, <1>5, <1>6, <2>1, <2>2
<1>8. two = PercentDecode(one)
  BY <1>5, <1>6, <1>7, DecodedSame
<1> QED
  BY <1>1, <1>2, <1>3, <1>5, <1>8

LEMMA SubElements ==
    ASSUME NEW text \in Texts, NEW m \in 1 .. Len(text) + 1, NEW n \in 0 .. Len(text)
    PROVE  ToSet(SubSeq(text, m, n)) \subseteq ToSet(text)
<1>1. PICK one : one = SubSeq(text, m, n)
  OBVIOUS
<1>2. Len(text) \in Nat /\ text \in Seq(Char) /\ DOMAIN text = 1 .. Len(text)
  BY LenProperties DEF Texts
<1>3. /\ one \in Seq(Char) /\ Len(one) = IF m <= n THEN n - m + 1 ELSE 0
      /\ \A i \in 1 .. n - m + 1 : one[i] = text[m + i - 1]
  BY <1>1, <1>2, SubSeqTyped
<1>4. ASSUME NEW i \in DOMAIN one PROVE one[i] \in ToSet(text)
  <2>1. i \in 1 .. n - m + 1
    BY <1>2, <1>3, LenProperties
  <2>2. PICK k \in 1 .. Len(text) : k = m + i - 1
    BY <1>2, <2>1
  <2>3. one[i] = text[k]
    BY <1>3, <2>1, <2>2
  <2> QED
    BY <1>2, <2>3 DEF ToSet
<1> QED
  BY <1>1, <1>4 DEF ToSet

LEMMA QueryDecoded ==
    ASSUME NEW part \in Texts
    PROVE  /\ SplitQuery(part).name \in Texts /\ SplitQuery(part).pattern \in Texts
           /\ SplitQuery(PercentDecode(part)).name = PercentDecode(SplitQuery(part).name)
           /\ SplitQuery(PercentDecode(part)).pattern = PercentDecode(SplitQuery(part).pattern)
           /\ ToSet(SplitQuery(part).name) \subseteq ToSet(part)
           /\ ToSet(SplitQuery(part).pattern) \subseteq ToSet(part)
<1>1. PICK d : d = PercentDecode(part)
  OBVIOUS
<1>2. PICK at : at = {i \in DOMAIN part : part[i] = "="}
  OBVIOUS
<1>3. /\ Len(part) \in Nat /\ DOMAIN part = 1 .. Len(part) /\ DOMAIN d = 1 .. Len(part)
      /\ Len(d) = Len(part)
      /\ \A i \in 1 .. Len(part) : d[i] = DecodeChar(part[i])
  BY <1>1, DecodedIs
<1>4. at = {i \in DOMAIN d : d[i] = "="}
  <2>1. \A i \in 1 .. Len(part) : d[i] = "=" <=> part[i] = "="
    <3> SUFFICES ASSUME NEW i \in 1 .. Len(part) PROVE d[i] = "=" <=> part[i] = "="
      OBVIOUS
    <3>1. PICK ch : ch = part[i]
      OBVIOUS
    <3>2. DecodeChar(ch) = "=" <=> ch = "="
      BY DecodedCharIs, Zenon
    <3>3. d[i] = DecodeChar(ch)
      BY <1>3, <3>1
    <3> QED
      BY <3>1, <3>2, <3>3
  <2> QED
    BY <1>2, <1>3, <2>1
<1>5. CASE at = {}
  <2>1. SplitQuery(part).name = part /\ SplitQuery(part).pattern = <<>>
    BY <1>2, <1>5 DEF SplitQuery
  <2>2. SplitQuery(d).name = d /\ SplitQuery(d).pattern = <<>>
    BY <1>4, <1>5 DEF SplitQuery
  <2>3. <<>> \in Texts
    BY EmptyTexts DEF Texts
  <2>4. ToSet(<<>>) = {}
    BY DEF ToSet
  <2> QED
    BY <1>1, <2>1, <2>2, <2>3, <2>4, NoTextDecoded
<1>6. CASE at # {}
  <2>1. PICK m : m = Min(at)
    OBVIOUS
  <2>2. m \in 1 .. Len(part)
    BY <1>2, <1>3, <1>6, <2>1, MinOfPart
  <2>3. /\ SplitQuery(part).name = SubSeq(part, 1, m - 1)
        /\ SplitQuery(part).pattern = SubSeq(part, m + 1, Len(part))
    BY <1>2, <1>6, <2>1 DEF SplitQuery
  <2>4. /\ SplitQuery(d).name = SubSeq(d, 1, m - 1)
        /\ SplitQuery(d).pattern = SubSeq(d, m + 1, Len(part))
    BY <1>3, <1>4, <1>6, <2>1 DEF SplitQuery
  <2>5. /\ 1 \in 1 .. Len(part) + 1 /\ m - 1 \in 0 .. Len(part)
        /\ m + 1 \in 1 .. Len(part) + 1 /\ Len(part) \in 0 .. Len(part)
    BY <1>3, <2>2
  <2>6. /\ SubSeq(part, 1, m - 1) \in Texts /\ SubSeq(part, m + 1, Len(part)) \in Texts
        /\ SubSeq(d, 1, m - 1) = PercentDecode(SubSeq(part, 1, m - 1))
        /\ SubSeq(d, m + 1, Len(part)) = PercentDecode(SubSeq(part, m + 1, Len(part)))
    BY <1>1, <2>5, SubDecoded
  <2>7. /\ ToSet(SubSeq(part, 1, m - 1)) \subseteq ToSet(part)
        /\ ToSet(SubSeq(part, m + 1, Len(part))) \subseteq ToSet(part)
    BY <2>5, SubElements
  <2> QED
    BY <1>1, <2>3, <2>4, <2>6, <2>7
<1> QED
  BY <1>5, <1>6

\* What a form deserializer reads in a part.
Plain(part) == PercentDecode([i \in DOMAIN part |-> IF part[i] = "+" THEN " " ELSE part[i]])

LEMMA DecodedOnce ==
    ASSUME NEW ch, ch \notin {"+", "%2B"}
    PROVE  DecodeChar(ch) # "+" /\ DecodeChar(DecodeChar(ch)) = DecodeChar(ch)
<1>1. CASE ch \in DOMAIN EscapeOf
  <2>1. ch \in {"%20", "%26", "%FF"}
    BY <1>1 DEF EscapeOf
  <2>2. DecodeChar(ch) \in {" ", "&", "\\xFF"}
    BY <2>1, Zenon DEF DecodeChar, EscapeOf
  <2>3. DecodeChar(ch) \notin {"%20", "%26", "%2B", "%FF", "+"}
    BY <2>2, Zenon
  <2>4. DecodeChar(ch) \notin DOMAIN EscapeOf
    BY <2>3 DEF EscapeOf
  <2>5. \A other : other \notin DOMAIN EscapeOf => DecodeChar(other) = other
    BY DEF DecodeChar
  <2> QED
    BY <2>3, <2>4, <2>5
<1>2. CASE ch \notin DOMAIN EscapeOf
  <2>1. DecodeChar(ch) = ch
    BY <1>2 DEF DecodeChar
  <2> QED
    BY <2>1
<1> QED
  BY <1>1, <1>2

LEMMA PlainDecoded ==
    ASSUME NEW text \in Texts, "+" \notin ToSet(text), "%2B" \notin ToSet(text)
    PROVE  Plain(PercentDecode(text)) = PercentDecode(text)
<1>1. PICK d : d = PercentDecode(text)
  OBVIOUS
<1>2. /\ d \in Texts /\ Len(d) = Len(text) /\ DOMAIN d = 1 .. Len(text)
      /\ DOMAIN text = 1 .. Len(text) /\ Len(text) \in Nat
      /\ \A i \in 1 .. Len(text) : d[i] = DecodeChar(text[i])
  BY <1>1, DecodedIs
<1>3. \A i \in 1 .. Len(text) : d[i] # "+" /\ d[i] = DecodeChar(d[i])
  <2> SUFFICES ASSUME NEW i \in 1 .. Len(text) PROVE d[i] # "+" /\ d[i] = DecodeChar(d[i])
    OBVIOUS
  <2>1. PICK ch : ch = text[i]
    OBVIOUS
  <2>2. ch \in ToSet(text)
    BY <1>2, <2>1 DEF ToSet
  <2>3. DecodeChar(ch) # "+" /\ DecodeChar(DecodeChar(ch)) = DecodeChar(ch)
    BY <2>2, DecodedOnce
  <2>4. d[i] = DecodeChar(ch)
    BY <1>2, <2>1
  <2> QED
    BY <2>3, <2>4
<1>4. [i \in DOMAIN d |-> IF d[i] = "+" THEN " " ELSE d[i]] = d
  <2>1. d \in [1 .. Len(text) -> Char]
    <3>1. \A i \in 1 .. Len(d) : d[i] \in Char
      BY <1>2, ElementOfSeq DEF Texts
    <3>2. d = [i \in 1 .. Len(d) |-> d[i]]
      BY <1>2 DEF Texts
    <3> QED
      BY <1>2, <3>1, <3>2
  <2>2. \A i \in 1 .. Len(text) : (IF d[i] = "+" THEN " " ELSE d[i]) = d[i]
    BY <1>3, Zenon
  <2> QED
    BY <1>2, <2>1, <2>2, Zenon
<1>5. PercentDecode(d) = d
  <2>1. d = PercentDecode(d)
    BY <1>2, <1>3, DecodedSame
  <2> QED
    BY <2>1
<1> QED
  BY <1>1, <1>4, <1>5, Zenon DEF Plain

\* The pairs of a query, as they stand in the URL, decoded.
Pairs(query) ==
  LET pairs == NonEmpty(Split(query, "&"))
  IN  [i \in DOMAIN pairs |-> [name  |-> PercentDecode(SplitQuery(pairs[i]).name),
                               value |-> PercentDecode(SplitQuery(pairs[i]).pattern)]]

LEMMA QueryArrives ==
    ASSUME NEW query \in Texts, ToSet(query) \cap {"%26", "%2B", "+", "%FF"} = {},
           NEW req,
           \/ req.queries = EachDecoded(Split(query, "&"))
           \/ req.queries = <<>> /\ query = <<>>
    PROVE  QueryPairs(req) = Pairs(query)
<1>1. "%26" \notin ToSet(query) /\ "%2B" \notin ToSet(query) /\ "+" \notin ToSet(query)
  OBVIOUS
<1>2. PICK parts : parts = Split(query, "&")
  OBVIOUS
<1>3. parts \in Seq(Texts) /\ parts # <<>>
  BY <1>2, SplitTyped DEF Texts
<1>4. PICK d : d = PercentDecode(query)
  OBVIOUS
<1>5. d \in Texts /\ Split(d, "&") = EachDecoded(parts)
  BY <1>1, <1>2, <1>4, DecodedTyped, SplitDecoded DEF DecodedSplit
<1>6. (IF req.queries = <<>> THEN <<>> ELSE Join(req.queries, <<"&">>)) = d
  <2>1. CASE req.queries = EachDecoded(Split(query, "&"))
    <3>1. "&" \in Char
      BY CharAssumption, Zenon
    <3>2. Join(Split(d, "&"), <<"&">>) = d
      BY <1>5, <3>1, JoinSplit
    <3>3. Split(d, "&") # <<>>
      BY <1>5, SplitTyped DEF Texts
    <3> QED
      BY <1>2, <1>5, <2>1, <3>2, <3>3
  <2>2. CASE req.queries = <<>> /\ query = <<>>
    BY <1>4, <2>2, NoTextDecoded
  <2> QED
    BY <2>1, <2>2
<1>7. PICK pairs : pairs = NonEmpty(parts)
  OBVIOUS
<1>8. PICK read : read = EachDecoded(pairs)
  OBVIOUS
<1>9. pairs \in Seq(Texts) /\ ToSet(pairs) \subseteq ToSet(parts)
  BY <1>3, <1>7, ThoseKept DEF NonEmpty
<1>10. NonEmpty(Split(d, "&")) = read
  BY <1>3, <1>5, <1>7, <1>8, NonEmptyDecoded
<1>11. /\ DOMAIN read = 1 .. Len(pairs) /\ DOMAIN pairs = 1 .. Len(pairs)
       /\ \A i \in 1 .. Len(pairs) : read[i] = PercentDecode(pairs[i])
  BY <1>8, <1>9, EachDecodedIs
<1>12. QueryPairs(req) = [i \in DOMAIN read |-> [name  |-> Plain(SplitQuery(read[i]).name),
                                                 value |-> Plain(SplitQuery(read[i]).pattern)]]
  BY <1>6, <1>10, Zenon DEF QueryPairs, Plain
<1>13. ASSUME NEW i \in 1 .. Len(pairs)
       PROVE  /\ Plain(SplitQuery(read[i]).name) = PercentDecode(SplitQuery(pairs[i]).name)
              /\ Plain(SplitQuery(read[i]).pattern) = PercentDecode(SplitQuery(pairs[i]).pattern)
  <2>1. PICK part : part = pairs[i]
    OBVIOUS
  <2>2. part \in Texts /\ part \in ToSet(parts)
    <3>1. part \in ToSet(pairs)
      BY <1>11, <2>1 DEF ToSet
    <3>2. part \in Texts
      BY <1>9, <2>1, ElementOfSeq
    <3> QED
      BY <1>9, <3>1, <3>2
  <2>3. ToSet(part) \subseteq ToSet(query)
    <3>1. PICK k \in DOMAIN parts : part = parts[k]
      BY <2>2 DEF ToSet
    <3>2. ToSet(parts[k]) \subseteq ToSet(query) \ {"&"}
      BY <1>2, SplitElements
    <3> QED
      BY <3>1, <3>2
  <2>4. PICK name : name = SplitQuery(part).name
    OBVIOUS
  <2>5. PICK value : value = SplitQuery(part).pattern
    OBVIOUS
  <2>6. PICK dpart : dpart = PercentDecode(part)
    OBVIOUS
  <2>7. /\ name \in Texts /\ value \in Texts
        /\ SplitQuery(dpart).name = PercentDecode(name)
        /\ SplitQuery(dpart).pattern = PercentDecode(value)
        /\ ToSet(name) \subseteq ToSet(part) /\ ToSet(value) \subseteq ToSet(part)
    BY <2>2, <2>4, <2>5, <2>6, QueryDecoded
  <2>8. /\ "+" \notin ToSet(name) /\ "%2B" \notin ToSet(name)
        /\ "+" \notin ToSet(value) /\ "%2B" \notin ToSet(value)
    BY <1>1, <2>3, <2>7
  <2>9. Plain(PercentDecode(name)) = PercentDecode(name) /\ Plain(PercentDecode(value)) = PercentDecode(value)
    BY <2>7, <2>8, PlainDecoded
  <2>10. read[i] = dpart
    BY <1>11, <2>1, <2>6
  <2> QED
    BY <2>1, <2>4, <2>5, <2>7, <2>9, <2>10
<1>14. QueryPairs(req) = [i \in 1 .. Len(pairs) |->
                            [name  |-> PercentDecode(SplitQuery(pairs[i]).name),
                             value |-> PercentDecode(SplitQuery(pairs[i]).pattern)]]
  BY <1>11, <1>12, <1>13
<1>15. Pairs(query) = [i \in 1 .. Len(pairs) |->
                            [name  |-> PercentDecode(SplitQuery(pairs[i]).name),
                             value |-> PercentDecode(SplitQuery(pairs[i]).pattern)]]
  BY <1>2, <1>7, <1>11 DEF Pairs
<1> QED
  BY <1>14, <1>15

-----------------------------------------------------------------------------
(***************************************************************************)
(* The request the client sends for a URL.                                 *)
(***************************************************************************)
Sent(u, req) ==
  /\ u.path \in Texts /\ u.query \in Texts /\ Utf8(u.path)
  /\ req.path = SetPath(u.path)
  /\ \/ req.queries = EachDecoded(Split(u.query, "&"))
     \/ req.queries = <<>> /\ u.query = <<>>

LEMMA ClientSends ==
    ASSUME NEW u, u.path \in Texts, u.query \in Texts, Utf8(u.path),
           ~u.hasQuery => u.query = <<>>, NEW method,
           "error" \notin DOMAIN ParseCoapUrl(u)
    PROVE  Sent(u, SentByClient(UrlRequest(u, method, "text")))
<1> DEFINE parts == ParseCoapUrl(u)
           built == UrlRequest(u, method, "text")
           sent  == SentByClient(built)
<1>1. /\ parts.path = u.path
      /\ parts.queries = IF ~u.hasQuery THEN <<>> ELSE EachDecoded(Split(u.query, "&"))
  BY Zenon DEF ParseCoapUrl, EachDecoded
<1> HIDE DEF parts
<1>2. /\ built.path = SetPath(u.path) /\ built.queries = parts.queries
      /\ DOMAIN built = {"panics", "method", "path", "queries", "options", "body", "kind",
                         "params"}
  BY <1>1 DEF UrlRequest, Build, parts
<1> HIDE DEF built
<1>3. sent.path = built.path /\ sent.queries = built.queries
  BY <1>2 DEF SentByClient
<1> HIDE DEF sent
<1>4. Sent(u, sent)
  BY <1>1, <1>2, <1>3 DEF Sent
<1> QED
  BY <1>4 DEF sent, built

LEMMA DiscoveryUrlIs ==
    ASSUME NEW u \in Urls
    PROVE  /\ Utf8(DiscoveryUrl(u).path)
           /\ DiscoveryUrl(u).query = u.query
           /\ DiscoveryUrl(u).hasQuery = u.hasQuery
<1>1. PICK core : core = <<"/">> \o WellKnownCore
  OBVIOUS
<1>2. DiscoveryUrl(u) = [u EXCEPT !.path = core]
  BY <1>1 DEF DiscoveryUrl
<1>3. Utf8(core)
  <2>1. "/" \in Char /\ ".well-known" \in Char /\ "core" \in Char
    BY CharAssumption, Zenon
  <2>2. PICK one : one = <<"/">>
    OBVIOUS
  <2>3. PICK two : two = WellKnownCore
    OBVIOUS
  <2>4. one \in Seq(Char) /\ two \in Seq(Char)
    BY <2>1, <2>2, <2>3 DEF WellKnownCore
  <2>5. ToSet(one) = {"/"} /\ ToSet(two) = {".well-known", "/", "core"}
    BY <2>2, <2>3 DEF ToSet, WellKnownCore
  <2>6. core \in Texts /\ ToSet(core) = ToSet(one) \cup ToSet(two)
    BY <1>1, <2>2, <2>3, <2>4, ConcatElements, ConcatProperties, ZenonT(40) DEF Texts
  <2> QED
    BY <2>5, <2>6, Utf8Set
<1>4. DiscoveryUrl(u).path = core
  BY <1>2, UrlTyped
<1>5. DiscoveryUrl(u).query = u.query /\ DiscoveryUrl(u).hasQuery = u.hasQuery
  BY <1>2
<1> QED
  BY <1>3, <1>4, <1>5

FromUrl == url # None => Sent(url, request) /\ answer = Handle(table, request)

LEMMA FromUrlCorrect == Spec => []FromUrl
<1>1. Init => FromUrl
  BY DEF Init, Unasked, FromUrl
<1>2. FromUrl /\ [Next]_vars => FromUrl'
  <2> SUFFICES ASSUME FromUrl, [Next]_vars PROVE FromUrl'
    OBVIOUS
  <2>1. CASE AddRoute \/ (\E h \in Fallbacks : SetFallback(h))
               \/ (\E v \in BOOLEAN : EnableDiscovery(v))
    BY <2>1 DEF AddRoute, SetFallback, EnableDiscovery, Unasked, FromUrl
  <2>2. CASE \E req \in Requests : Serve(req)
    BY <2>2 DEF Serve, FromUrl
  <2>3. ASSUME NEW u, NEW m, Fetch(u, m), u.path \in Texts, u.query \in Texts, Utf8(u.path),
               ~u.hasQuery => u.query = <<>>
        PROVE  FromUrl'
    <3>1. /\ request' = SentByClient(UrlRequest(u, m, "text")) /\ url' = u
          /\ answer' = Handle(table, request') /\ table' = table
          /\ "error" \notin DOMAIN ParseCoapUrl(u)
      BY <2>3 DEF Fetch
    <3>2. Sent(u, SentByClient(UrlRequest(u, m, "text")))
      BY <2>3, <3>1, ClientSends
    <3> QED
      BY <3>1, <3>2 DEF FromUrl
  <2>4. CASE \E u \in Urls, m \in {"GET", "POST", "PUT", "DELETE"} : Fetch(u, m)
    BY <2>3, <2>4, RequestsAssumption
  <2>5. CASE \E u \in Urls : Discover(u)
    <3>1. PICK u \in Urls : Fetch(DiscoveryUrl(u), "GET")
      BY <2>5 DEF Discover
    <3>2. PICK v : v = DiscoveryUrl(u)
      OBVIOUS
    <3>3. /\ v.path \in Texts /\ v.query \in Texts /\ Utf8(v.path)
          /\ v.query = u.query /\ v.hasQuery = u.hasQuery
      BY <3>2, DiscoveryUrlTyped, DiscoveryUrlIs
    <3>4. ~u.hasQuery => u.query = <<>>
      BY RequestsAssumption
    <3> QED
      BY <2>3, <3>1, <3>2, <3>3, <3>4
  <2>6. CASE UNCHANGED vars
    BY <2>6 DEF vars, FromUrl
  <2> QED
    BY <2>1, <2>2, <2>4, <2>5, <2>6 DEF Next
<1> QED
  BY <1>1, <1>2, PTL DEF Spec

\* For every program and URL the parameters fill the decoded pattern to the
\* decoded path; and for every URL whose query has no escape of a character that
\* the form encoding reserves, the query's pairs are those of the URL
\* (client.rs:1140, route.rs:167, extract/query.rs:49).  A query with such an
\* escape is decoded twice, and nothing is said of it.
THEOREM UrlArrivesCorrect == Spec => []UrlArrives
<1>1. ASSUME TableTyped, FromUrl, url # None, answer.by = "route"
      PROVE  LET route  == table.routes[answer.route]
                 params == CHOOSE p \in MatchPath(route.regex, RequestPath(request)) : TRUE
             IN  Fill(PercentDecode(TrimSlashes(route.pattern)),
                      [i \in DOMAIN params |-> params[i].value])
                   = PercentDecode(TrimSlashes(url.path))
  <2>1. answer.route = FirstHit(table, request) /\ Hits(table, request) # {}
    BY <1>1, AnsweredBy DEF FromUrl
  <2>2. PICK i : i = answer.route /\ i \in Hits(table, request)
    BY <1>1, <2>1, FirstIsFirst DEF TableTyped, Tables
  <2>3. i \in DOMAIN table.routes
        /\ MatchPath(table.routes[i].regex, RequestPath(request)) # {}
    BY <2>2 DEF Hits
  <2>4. PICK route : route = table.routes[i]
    OBVIOUS
  <2>5. route.pattern \in Texts /\ ~BuildRegex(route.pattern).panics
        /\ route.regex = BuildRegex(route.pattern).regex
    BY <1>1, <2>3, <2>4, RouteTyped DEF TableTyped
  <2>6. PICK path : path = RequestPath(request)
    OBVIOUS
  <2>7. /\ url.path \in Texts /\ TrimSlashes(path) = TrimSlashes(url.path)
        /\ TrimSlashes(path) \in Texts
    <3>1. url.path \in Texts /\ Utf8(url.path) /\ request.path = SetPath(url.path)
      BY <1>1 DEF FromUrl, Sent
    <3>2. TrimSlashes(path) = TrimSlashes(url.path)
      BY <2>6, <3>1, PathSent
    <3>3. TrimSlashes(url.path) \in Texts
      BY <3>1, TrimTyped DEF Texts
    <3> QED
      BY <3>1, <3>2, <3>3
  <2>8. PICK params : params = CHOOSE p \in MatchPath(route.regex, path) : TRUE
    OBVIOUS
  <2>9. params \in MatchPath(route.regex, path)
    BY <2>3, <2>4, <2>6, <2>8
  <2>10. Fill(PercentDecode(TrimSlashes(route.pattern)), [j \in DOMAIN params |-> params[j].value])
           = PercentDecode(TrimSlashes(path))
    BY <2>5, <2>7, <2>9, FilledAgain
  <2> QED
    BY <2>2, <2>4, <2>6, <2>7, <2>8, <2>10
<1>2. ASSUME FromUrl, url # None, ToSet(url.query) \cap {"%26", "%2B", "+", "%FF"} = {}
      PROVE  QueryPairs(request) = Pairs(url.query)
  BY <1>2, QueryArrives DEF FromUrl, Sent
<1>3. TableTyped /\ FromUrl => UrlArrives
  BY <1>1, <1>2 DEF UrlArrives, Pairs
<1> QED
  BY <1>3, TableTypedCorrect, FromUrlCorrect, PTL
=============================================================================
