--------------------------- MODULE ExchangeProofs ---------------------------
(***************************************************************************)
(* Theorems about Exchange: for every set of decoded configurations, what  *)
(* a client may ask, and every number of requests.                         *)
(***************************************************************************)
EXTENDS Exchange, SequenceLemmas

(* The first of the positions found is one of them. *)
LEMMA MinFound ==
  ASSUME NEW T \in SUBSET Nat, T # {}
  PROVE  Min(T) \in T /\ \A m \in T : Min(T) <= m
<1>1. PICK x \in T : \A y \in T : x <= y
  BY Least
<1>. QED  BY <1>1 DEF Min

LEMMA FirstOfFound ==
  ASSUME NEW s, Listed(s), NEW found, found \subseteq DOMAIN s, found # {}
  PROVE  /\ Min(found) \in found
         /\ FirstOf(s, found) = s[Min(found)]
         /\ FirstOf(s, found) \in ToSet(s)
         /\ FirstOf(s, found) # None
<1>1. found \in SUBSET Nat
  BY DEF Listed
<1>2. Min(found) \in found
  BY <1>1, MinFound
<1>. QED  BY <1>2 DEF FirstOf, ToSet, Listed

(* A valid list of responses numbers no two of them alike, and has a       *)
(* default.                                                                *)
LEMMA ValidNumbers ==
  ASSUME NEW responses, Listed(responses), ValidSequence(responses)
  PROVE  /\ Defaults(responses) # {}
         /\ \A i, j \in DOMAIN responses :
              /\ responses[i].sequence # Default
              /\ responses[i].sequence = responses[j].sequence
              => i = j
<1> DEFINE n == Len(responses)
           N == {i \in DOMAIN responses : responses[i].sequence # Default}
           f == [i \in N |-> responses[i].sequence]
           c == Cardinality(N)
<1>1. n \in Nat /\ DOMAIN responses = 1..n
  BY DEF Listed
<1>2. n - c = 1 /\ {responses[i].sequence : i \in N} = 1..c
  BY DEF ValidSequence
<1>3. IsFiniteSet(1..n) /\ Cardinality(1..n) = n
  <2> HIDE DEF n
  <2>. QED  BY <1>1, FS_Interval
<1>4. IsFiniteSet(N) /\ c \in Nat
  BY <1>1, <1>3, FS_Subset, FS_CardinalityType
<1>5. Defaults(responses) # {}
  <2>1. CASE Defaults(responses) = {}
    <3>1. N = 1..n
      BY <1>1, <2>1 DEF Defaults
    <3> HIDE DEF n, N
    <3>. QED  BY <1>1, <1>2, <1>3, <3>1
  <2>. QED  BY <2>1
<1>6. f \in Surjection(N, 1..c)
  <2>1. f \in [N -> 1..c]
    BY <1>2
  <2>2. \A t \in 1..c : \E i \in N : f[i] = t
    BY <1>2
  <2> HIDE DEF f, N, c
  <2>. QED  BY <2>1, <2>2 DEF Surjection
<1>7. Cardinality(1..c) = c
  <2> HIDE DEF c
  <2>. QED  BY <1>4, FS_Interval
<1>8. f \in Injection(N, 1..c)
  <2> DEFINE T == 1..c
  <2>1. f \in Surjection(N, T) /\ Cardinality(N) = Cardinality(T)
    BY <1>6, <1>7
  <2> HIDE DEF f, N, T
  <2>2. f \in Injection(N, T)
    BY <1>4, <2>1, FS_SurjSameCardinalityImpliesInj
  <2>. QED  BY <2>2 DEF T
<1>9. \A i, j \in N : f[i] = f[j] => i = j
  <2> HIDE DEF f, N, c
  <2>. QED  BY <1>8 DEF Injection, IsInjective
<1>. QED  BY <1>5, <1>9

(* What is chosen is the response that has the number, and the default one *)
(* when none has it.                                                       *)
LEMMA ChosenAnswers ==
  ASSUME NEW route, Listed(route.responses), ValidSequence(route.responses),
         NEW ordinal \in Nat \ {0}
  PROVE  LET given == ToSet(route.responses)
             due   == {x \in given : x.sequence = ordinal}
             x     == Chosen(route, ordinal)
         IN  /\ x # None
             /\ IF due # {} THEN due = {x} ELSE x \in given /\ x.sequence = Default
<1> DEFINE R == route.responses
           given == ToSet(R)
           due == {x \in given : x.sequence = ordinal}
           x == Chosen(route, ordinal)
           numbered == Numbered(R, ordinal)
           default == Defaults(R)
<1>1. numbered \subseteq DOMAIN R /\ default \subseteq DOMAIN R
  BY DEF Numbered, Defaults
<1>2. ordinal # Default
  BY DEF Default
<1>3. CASE numbered # {}
  <2>1. /\ Min(numbered) \in numbered /\ FirstOf(R, numbered) = R[Min(numbered)]
        /\ FirstOf(R, numbered) # None /\ FirstOf(R, numbered) \in given
    BY <1>1, <1>3, FirstOfFound
  <2>2. x = R[Min(numbered)] /\ x # None
    BY <2>1 DEF Chosen
  <2>3. x \in due
    BY <2>1, <2>2 DEF Numbered
  <2>4. ASSUME NEW y \in due PROVE y = x
    <3>1. PICK j \in DOMAIN R : y = R[j]
      BY DEF ToSet
    <3>2. R[j].sequence = ordinal /\ R[Min(numbered)].sequence = ordinal
      BY <2>1, <3>1 DEF Numbered
    <3>3. Min(numbered) \in DOMAIN R
      BY <1>1, <2>1
    <3> HIDE DEF R, numbered
    <3>4. j = Min(numbered)
      BY <1>2, <3>2, <3>3, ValidNumbers DEF R
    <3>. QED  BY <2>2, <3>1, <3>4
  <2>5. due # {} /\ due = {x}
    BY <2>3, <2>4
  <2> HIDE DEF x, due
  <2>. QED  BY <2>2, <2>5 DEF x, due
<1>4. CASE numbered = {}
  <2>1. due = {}
    BY <1>2, <1>4 DEF ToSet, Numbered
  <2>2. default # {}
    BY ValidNumbers
  <2>3. /\ Min(default) \in default /\ FirstOf(R, default) = R[Min(default)]
        /\ FirstOf(R, default) # None /\ FirstOf(R, default) \in given
    BY <1>1, <2>2, FirstOfFound
  <2>4. x = R[Min(default)] /\ x # None /\ x \in given
    BY <1>4, <2>3 DEF Chosen, FirstOf
  <2>5. x.sequence = Default
    BY <2>3, <2>4 DEF Defaults
  <2> HIDE DEF x, due
  <2>. QED  BY <2>1, <2>4, <2>5 DEF x, due
<1>. QED  BY <1>3, <1>4

-----------------------------------------------------------------------------
(* Listeners.                                                              *)

LEMMA EnabledType ==
  ASSUME NEW c, Listed(c.services)
  PROVE  Enabled(c) \in Seq({s \in ToSet(c.services) : s.enabled})
<1> DEFINE S == {s \in ToSet(c.services) : s.enabled}
           each == [i \in DOMAIN c.services |->
                      IF c.services[i].enabled THEN <<c.services[i]>> ELSE << >>]
           n == Len(c.services)
<1>1. n \in Nat /\ DOMAIN c.services = 1..n
  BY DEF Listed
<1>2. \A i \in 1..n : each[i] \in Seq(S)
  <2> SUFFICES ASSUME NEW i \in 1..n PROVE each[i] \in Seq(S)
    OBVIOUS
  <2>1. CASE c.services[i].enabled
    <3>1. c.services[i] \in S
      BY <1>1, <2>1 DEF ToSet
    <3> HIDE DEF S
    <3>. QED  BY <1>1, <2>1, <3>1
  <2>2. CASE ~c.services[i].enabled
    BY <1>1, <2>2
  <2>. QED  BY <2>1, <2>2
<1>3. each \in Seq(Seq(S))
  <2>1. each = [i \in 1..n |-> each[i]]
    BY <1>1
  <2> HIDE DEF S, each, n
  <2>. QED  BY <1>1, <1>2, <2>1
<1>4. FlattenSeq(each) \in Seq(S)
  <2> HIDE DEF S, each
  <2>1. << >> \in Seq(S)
    OBVIOUS
  <2>. QED  BY <1>3, <2>1, FlattenAppend
<1>. QED  BY <1>4 DEF Enabled

(* Two addresses conflict exactly when the kernel would not let both be    *)
(* bound.                                                                  *)
LEMMA ConflictIsOverlap ==
  ASSUME NEW a, NEW b, IsUnspecified(a) \/ Form(a) \in Local,
         IsUnspecified(b) \/ Form(b) \in Local
  PROVE  IpsConflict(a, b) <=> Covers(a) \cap Covers(b) # {}
BY DEF IpsConflict, Covers, Local

(* What a valid configuration enables: every service has a listener, on an *)
(* address of the host, its own fallback, and routes with valid responses. *)
LEMMA EnabledServices ==
  ASSUME cfg \in Candidates
  PROVE  /\ Len(Enabled(cfg)) \in Nat /\ DOMAIN Enabled(cfg) = 1..Len(Enabled(cfg))
         /\ \A i \in DOMAIN Enabled(cfg) :
              LET s == Enabled(cfg)[i]
              IN  /\ s \in ToSet(cfg.services) /\ s.enabled
                  /\ s.listener # None =>
                       IsUnspecified(s.listener.address) \/ Form(s.listener.address) \in Local
<1>1. Listed(cfg.services)
  BY ExchangeAssumption DEF Decoded
<1> DEFINE S == {s \in ToSet(cfg.services) : s.enabled}
           e == Enabled(cfg)
<1>2. e \in Seq(S)
  BY <1>1, EnabledType
<1>3. /\ Len(e) \in Nat /\ DOMAIN e = 1..Len(e) /\ \A i \in DOMAIN e : e[i] \in S
  <2> HIDE DEF S, e
  <2>. QED  BY <1>2
<1>4. \A s \in ToSet(cfg.services) : s.listener # None =>
        IsUnspecified(s.listener.address) \/ Form(s.listener.address) \in Local
  BY ExchangeAssumption DEF Decoded
<1> HIDE DEF e
<1>. QED  BY <1>3, <1>4 DEF e

LEMMA ValidServices ==
  ASSUME cfg \in Candidates, Validate(cfg), NEW i \in DOMAIN Enabled(cfg)
  PROVE  LET s == Enabled(cfg)[i]
         IN  /\ s.listener # None /\ s.fallback # None /\ Listed(s.routes)
             /\ IsUnspecified(s.listener.address) \/ Form(s.listener.address) \in Local
             /\ \A j \in DOMAIN s.routes :
                  /\ Listed(s.routes[j].responses) /\ ValidSequence(s.routes[j].responses)
             /\ \A j, k \in DOMAIN s.routes :
                  s.routes[j].method = s.routes[k].method /\ s.routes[j].path = s.routes[k].path
                  => j = k
<1> DEFINE s == Enabled(cfg)[i]
<1>1. s \in ToSet(cfg.services) /\ s.enabled
  BY EnabledServices
<1>2. s.listener # None => IsUnspecified(s.listener.address) \/ Form(s.listener.address) \in Local
  BY EnabledServices
<1>3. Listed(s.routes) /\ \A route \in ToSet(s.routes) : Listed(route.responses)
  BY <1>1, ExchangeAssumption DEF Decoded
<1>4. PICK n \in DOMAIN cfg.services : s = cfg.services[n]
  BY <1>1 DEF ToSet
<1>5. ValidSupplied(s, cfg.limits.max_response_bytes) /\ ValidEnabled(s)
  BY <1>4 DEF Validate
<1>6. s.listener # None /\ s.fallback # None
  BY <1>1, <1>5 DEF ValidEnabled
<1>7. \A j \in DOMAIN s.routes : ValidSequence(s.routes[j].responses)
  BY <1>5 DEF ValidSupplied, ValidRoute
<1>8. \A j \in DOMAIN s.routes : Listed(s.routes[j].responses)
  BY <1>3 DEF ToSet
<1>9. \A j, k \in DOMAIN s.routes :
        s.routes[j].method = s.routes[k].method /\ s.routes[j].path = s.routes[k].path => j = k
  BY <1>5 DEF ValidSupplied
<1> HIDE DEF s
<1>. QED  BY <1>2, <1>3, <1>6, <1>7, <1>8, <1>9 DEF s

-----------------------------------------------------------------------------
(* Binding in the order of the services, the process has bound a front of  *)
(* what the packet filter is told, and all of it from then on; no phase    *)
(* that stands for a failure is reached.                                   *)
InOrder ==
  /\ bound \in Seq({s.listener : s \in ToSet(Enabled(cfg))})
  /\ Len(bound) <= Len(Enabled(cfg))
  /\ \A i \in DOMAIN bound : bound[i] = Enabled(cfg)[i].listener
Refused == {"load", "rejected"}
Serving == {"connected", "closed"}
Bound ==
  /\ cfg \in Candidates
  /\ phase \in Refused \cup {"bind", "listening"} \cup Serving
  /\ phase \in Refused => bound = << >>
  /\ phase \notin Refused => Validate(cfg)
  /\ InOrder
  /\ phase \notin Refused \cup {"bind"} => Len(bound) = Len(Enabled(cfg))
  /\ phase \in Serving => service \in ToSet(Enabled(cfg))

(* The next listener is free: a valid configuration has no conflict with   *)
(* the listeners before it.                                                *)
LEMMA NextIsFree ==
  ASSUME Bound, phase = "bind", Len(bound) < Len(Enabled(cfg))
  PROVE  ~InUse(Enabled(cfg)[Len(bound) + 1].listener)
<1> DEFINE e == Enabled(cfg)
           n == Len(bound) + 1
           S == {s.listener : s \in ToSet(Enabled(cfg))}
<1>1. Validate(cfg) /\ cfg \in Candidates
  BY DEF Bound, Refused
<1>2. bound \in Seq(S) /\ \A i \in DOMAIN bound : bound[i] = e[i].listener
  BY DEF Bound, InOrder
<1>3. Len(bound) \in Nat /\ DOMAIN bound = 1..Len(bound)
  <2> HIDE DEF S, e
  <2>. QED  BY <1>2
<1>4. Len(e) \in Nat /\ DOMAIN e = 1..Len(e)
  BY <1>1, EnabledServices
<1>5. n \in DOMAIN e
  <2> HIDE DEF e
  <2>. QED  BY <1>3, <1>4 DEF e
<1>6. SUFFICES ASSUME NEW i \in DOMAIN bound, bound[i].port = e[n].listener.port,
                      Covers(bound[i].address) \cap Covers(e[n].listener.address) # {}
               PROVE  FALSE
  BY DEF InUse
<1>7. i \in DOMAIN e /\ i < n /\ bound[i] = e[i].listener
  <2> HIDE DEF e
  <2>. QED  BY <1>2, <1>3, <1>4, <1>5
<1>8. ~IpsConflict(e[i].listener.address, e[n].listener.address)
  <2>1. NoListenerConflict(cfg)
    BY <1>1 DEF Validate
  <2>. QED  BY <1>5, <1>6, <1>7, <2>1 DEF NoListenerConflict
<1>9. /\ IsUnspecified(e[i].listener.address) \/ Form(e[i].listener.address) \in Local
      /\ IsUnspecified(e[n].listener.address) \/ Form(e[n].listener.address) \in Local
  BY <1>1, <1>5, <1>7, ValidServices
<1>. QED  BY <1>6, <1>7, <1>8, <1>9, ConflictIsOverlap

LEMMA BindNextStep ==
  ASSUME Bound, BindNext
  PROVE  Bound'
<1> DEFINE e == Enabled(cfg)
           S == {s.listener : s \in ToSet(Enabled(cfg))}
           n == Len(bound) + 1
           l == e[n].listener
<1>1. phase = "bind" /\ Len(bound) < Len(e) /\ UNCHANGED <<cfg, service>>
  BY DEF BindNext, connection
<1>2. bound' = Append(bound, l) /\ phase' = phase
  BY <1>1, NextIsFree DEF BindNext
<1>3. cfg \in Candidates /\ Validate(cfg)
  BY <1>1 DEF Bound, Refused
<1>4. bound \in Seq(S) /\ \A i \in DOMAIN bound : bound[i] = e[i].listener
  BY DEF Bound, InOrder
<1>5. Len(e) \in Nat /\ DOMAIN e = 1..Len(e)
  BY <1>3, EnabledServices
<1>6. Len(bound) \in Nat /\ n \in DOMAIN e
  <2> HIDE DEF S, e
  <2>. QED  BY <1>1, <1>4, <1>5
<1>7. l \in S
  BY <1>6 DEF ToSet
<1>8. /\ bound' \in Seq(S) /\ Len(bound') <= Len(e)
      /\ \A i \in DOMAIN bound' : bound'[i] = e[i].listener
  <2> HIDE DEF S, l, e
  <2>1. /\ bound' \in Seq(S) /\ Len(bound') = n /\ DOMAIN bound' = 1..n
        /\ bound'[n] = l /\ \A i \in DOMAIN bound : bound'[i] = bound[i]
    BY <1>2, <1>4, <1>7
  <2>2. n <= Len(e) /\ \A i \in 1..n : i = n \/ i \in DOMAIN bound
    BY <1>1, <1>4, <1>5, <1>6
  <2>3. \A i \in DOMAIN bound' : bound'[i] = e[i].listener
    BY <1>4, <2>1, <2>2 DEF l
  <2>. QED  BY <2>1, <2>2, <2>3
<1>9. InOrder'
  BY <1>1, <1>8 DEF InOrder
<1>. QED  BY <1>1, <1>2, <1>3, <1>9 DEF Bound, Refused, Serving

-----------------------------------------------------------------------------
(* The requests of a connection.                                           *)

IsList(s) == s \in Seq(ToSet(s))

LEMMA ListAppend ==
  ASSUME NEW s, IsList(s), NEW x
  PROVE  /\ IsList(Append(s, x)) /\ ToSet(Append(s, x)) = ToSet(s) \cup {x}
         /\ Len(s) \in Nat /\ DOMAIN s = 1..Len(s) /\ DOMAIN Append(s, x) = 1..(Len(s) + 1)
         /\ Append(s, x)[Len(s) + 1] = x /\ \A k \in 1..Len(s) : Append(s, x)[k] = s[k]
<1> DEFINE S == ToSet(s)
           T == S \cup {x}
           t == Append(s, x)
           n == Len(s)
<1>1. s \in Seq(S)
  BY DEF IsList
<1>2. s \in Seq(T) /\ n \in Nat /\ DOMAIN s = 1..n
  <2> HIDE DEF S
  <2>. QED  BY <1>1
<1>3. t \in Seq(T) /\ DOMAIN t = 1..(n + 1) /\ t[n + 1] = x /\ \A k \in 1..n : t[k] = s[k]
  <2> HIDE DEF T, S
  <2>1. x \in T
    BY DEF T
  <2>. QED  BY <1>2, <2>1
<1> HIDE DEF t, n
<1>4. ToSet(t) = T
  BY <1>2, <1>3 DEF ToSet
<1>. QED  BY <1>2, <1>3, <1>4 DEF IsList, t, n

(* How often a connection has asked for a route. *)
Asking(list, key) == {k \in DOMAIN list : Key(list[k].request) = key}

LEMMA AskOnce ==
  ASSUME NEW list, IsList(list), NEW x, NEW key
  PROVE  /\ Cardinality(Asking(list, key)) \in Nat
         /\ Cardinality(Asking(Append(list, x), key)) =
              Cardinality(Asking(list, key)) + IF Key(x.request) = key THEN 1 ELSE 0
<1> DEFINE E == ToSet(list) \cup {x}
           T == {y \in E : Key(y.request) = key}
           t == Append(list, x)
<1>1. list \in Seq(E) /\ x \in E
  <2> DEFINE S == ToSet(list)
  <2>1. list \in Seq(S)
    BY DEF IsList
  <2> HIDE DEF S
  <2>2. list \in Seq(S \cup {x})
    BY <2>1
  <2>. QED  BY <2>2 DEF S
<1>2. Positions(list, T) = Asking(list, key)
  <2>1. \A k \in DOMAIN list : list[k] \in E
    BY DEF ToSet
  <2>. QED  BY <2>1 DEF Positions, Asking
<1>3. Positions(t, T) = Asking(t, key)
  <2>1. \A k \in DOMAIN t : t[k] \in E
    BY ListAppend DEF ToSet
  <2> HIDE DEF t
  <2>. QED  BY <2>1 DEF Positions, Asking
<1>4. x \in T <=> Key(x.request) = key
  OBVIOUS
<1> HIDE DEF E, T
<1>5. /\ Cardinality(Positions(list, T)) \in Nat
      /\ Cardinality(Positions(t, T)) = Cardinality(Positions(list, T)) + IF x \in T THEN 1 ELSE 0
  BY <1>1, CountAppend
<1>. QED  BY <1>2, <1>3, <1>4, <1>5

(* What a valid service has: a fallback, and routes, no two of them alike, *)
(* with valid lists of responses.                                          *)
Ready(s) ==
  /\ s.fallback # None /\ Listed(s.routes)
  /\ \A j \in DOMAIN s.routes :
       Listed(s.routes[j].responses) /\ ValidSequence(s.routes[j].responses)
  /\ \A j, k \in DOMAIN s.routes :
       s.routes[j].method = s.routes[k].method /\ s.routes[j].path = s.routes[k].path => j = k

(* The route counts of the connection are what it has asked for. *)
Tallied ==
  \A j \in DOMAIN service.routes :
    Count(counts, Key(service.routes[j])) =
      Cardinality(Asking(asked, Key(service.routes[j])))

(* The answer that is due when a route is asked for once more.             *)
Due(routes, j, ordinal, source) ==
  LET given == ToSet(routes[j].responses)
      due   == {x \in given : x.sequence = ordinal}
  IN  IF due # {} THEN due = {source} ELSE source \in given /\ source.sequence = Default

LEMMA Selects ==
  ASSUME Ready(service), IsList(asked), Tallied, NEW request, NEW close
  PROVE  LET sel      == SelectResponse(service, request.method, request.path, counts, close)
             matching == Matching(service.routes, request.method, request.path)
         IN  /\ sel.source # None
             /\ matching = {} => sel.source = service.fallback
             /\ matching # {} =>
                  \E j \in DOMAIN service.routes :
                    /\ matching = {j}
                    /\ Due(service.routes, j, Cardinality(Asking(asked, Key(request))) + 1,
                           sel.source)
             /\ \A j \in DOMAIN service.routes :
                  Count(sel.counts, Key(service.routes[j])) =
                    Cardinality(Asking(asked, Key(service.routes[j])))
                    + IF Key(request) = Key(service.routes[j]) THEN 1 ELSE 0
<1> DEFINE routes == service.routes
           matching == Matching(routes, request.method, request.path)
           route == FirstOf(routes, matching)
           now == Counted(counts, Key(route))
           sel == SelectResponse(service, request.method, request.path, counts, close)
<1>1. \A j \in DOMAIN routes : j \in matching <=> Key(request) = Key(routes[j])
  BY DEF Matching, Key
<1>2. \A key : Cardinality(Asking(asked, key)) \in Nat
  BY AskOnce
<1>3. CASE matching = {}
  <2>1. route = None
    BY <1>3 DEF FirstOf
  <2>2. sel.source = service.fallback /\ sel.counts = counts
    BY <2>1 DEF SelectResponse
  <2>3. \A j \in DOMAIN routes : Key(request) # Key(routes[j])
    BY <1>1, <1>3
  <2>4. \A j \in DOMAIN routes : Count(counts, Key(routes[j])) = Cardinality(Asking(asked, Key(routes[j])))
    BY DEF Tallied
  <2> HIDE DEF sel, routes, matching
  <2>5. \A j \in DOMAIN routes :
          Count(sel.counts, Key(routes[j])) =
            Cardinality(Asking(asked, Key(routes[j])))
            + IF Key(request) = Key(routes[j]) THEN 1 ELSE 0
    BY <1>2, <2>2, <2>3, <2>4
  <2>6. sel.source # None
    BY <2>2 DEF Ready
  <2>. QED  BY <1>3, <2>2, <2>5, <2>6 DEF sel, routes, matching
<1>4. CASE matching # {}
  <2>1. matching \subseteq DOMAIN routes /\ Listed(routes)
    BY DEF Matching, Ready
  <2>2. Min(matching) \in matching /\ route = routes[Min(matching)] /\ route # None
    BY <1>4, <2>1, FirstOfFound
  <2> DEFINE j == Min(matching)
  <2>3. j \in DOMAIN routes /\ matching = {j} /\ route = routes[j] /\ Key(route) = Key(request)
    <3>1. j \in DOMAIN routes /\ j \in matching /\ route = routes[j]
      BY <2>1, <2>2
    <3>2. \A i \in matching : i = j
      <4> SUFFICES ASSUME NEW i \in matching PROVE i = j
        OBVIOUS
      <4>1. routes[i].method = routes[j].method /\ routes[i].path = routes[j].path
        BY <3>1 DEF Matching
      <4>2. i \in DOMAIN routes /\ j \in DOMAIN routes
        BY <2>1, <3>1
      <4> HIDE DEF j, matching
      <4>. QED  BY <4>1, <4>2 DEF Ready
    <3>3. Key(route) = Key(request)
      BY <1>1, <3>1
    <3> HIDE DEF j, route, routes, matching
    <3>. QED  BY <3>1, <3>2, <3>3
  <2> HIDE DEF j
  <2>4. now[Key(route)] = Count(counts, Key(request)) + 1
    BY <2>3 DEF Counted
  <2>5. sel.source = Chosen(route, now[Key(route)]) /\ sel.counts = now
    BY <2>2 DEF SelectResponse
  <2>6. now[Key(route)] = Cardinality(Asking(asked, Key(request))) + 1
    BY <2>3, <2>4 DEF Tallied
  <2> DEFINE ordinal == Cardinality(Asking(asked, Key(request))) + 1
  <2>7. ordinal \in Nat \ {0}
    BY <1>2
  <2>8. Listed(route.responses) /\ ValidSequence(route.responses)
    BY <2>3 DEF Ready
  <2>9. sel.source = Chosen(route, ordinal)
    BY <2>5, <2>6
  <2>10. sel.source # None /\ Due(routes, j, ordinal, sel.source)
    <3> HIDE DEF ordinal, sel, route, routes
    <3>1. LET given == ToSet(route.responses)
              due   == {x \in given : x.sequence = ordinal}
              x     == Chosen(route, ordinal)
          IN  /\ x # None
              /\ IF due # {} THEN due = {x} ELSE x \in given /\ x.sequence = Default
      BY <2>7, <2>8, ChosenAnswers
    <3>. QED  BY <2>3, <2>9, <3>1 DEF Due
  <2>11. \A i \in DOMAIN routes :
           Count(sel.counts, Key(routes[i])) =
             Cardinality(Asking(asked, Key(routes[i])))
             + IF Key(request) = Key(routes[i]) THEN 1 ELSE 0
    <3> SUFFICES ASSUME NEW i \in DOMAIN routes
                 PROVE  Count(sel.counts, Key(routes[i])) =
                          Cardinality(Asking(asked, Key(routes[i])))
                          + IF Key(request) = Key(routes[i]) THEN 1 ELSE 0
      OBVIOUS
    <3>1. Count(counts, Key(routes[i])) = Cardinality(Asking(asked, Key(routes[i])))
      BY DEF Tallied
    <3>2. Count(now, Key(routes[i])) =
            Count(counts, Key(routes[i])) + IF Key(request) = Key(routes[i]) THEN 1 ELSE 0
      <4> DEFINE key == Key(routes[i])
                 mine == Key(route)
      <4>1. mine = Key(request) /\ Count(counts, key) \in Nat
        BY <1>2, <2>3, <3>1
      <4> HIDE DEF key, mine, route
      <4>2. CASE key = mine
        BY <4>1, <4>2 DEF Count, Counted, key, mine
      <4>3. CASE key # mine
        BY <4>1, <4>3 DEF Count, Counted, key, mine
      <4>. QED  BY <4>2, <4>3
    <3> HIDE DEF sel, now, routes
    <3>. QED  BY <2>5, <3>1, <3>2
  <2> HIDE DEF sel, routes, matching, route, now
  <2>12. \E i \in DOMAIN routes : matching = {i} /\ Due(routes, i, ordinal, sel.source)
    BY <2>3, <2>10
  <2>. QED  BY <1>4, <2>10, <2>11, <2>12 DEF sel, routes, matching
<1>. QED  BY <1>3, <1>4

(* The k-th request of a list has the answer that is due.                  *)
Answered(list, s, k) ==
  LET r     == list[k].request
      same  == {i \in 1..k : list[i].request.method = r.method /\ list[i].request.path = r.path}
      route == {i \in DOMAIN s.routes : s.routes[i].method = r.method /\ s.routes[i].path = r.path}
      given == UNION {ToSet(s.routes[i].responses) : i \in route}
      due   == {x \in given : x.sequence = Cardinality(same)}
  IN  IF route = {} THEN list[k].source = s.fallback
      ELSE IF due # {} THEN due = {list[k].source}
      ELSE list[k].source \in given /\ list[k].source.sequence = Default

Answering ==
  /\ phase \notin Serving => asked = << >>
  /\ phase \in Serving =>
       /\ IsList(asked)
       /\ Tallied
       /\ \A k \in DOMAIN asked : Answered(asked, service, k)

(* An answer is not changed by the requests that come after it.            *)
LEMMA AnswersStay ==
  ASSUME NEW list, IsList(list), NEW x, NEW s, NEW k \in DOMAIN list, Answered(list, s, k)
  PROVE  Answered(Append(list, x), s, k)
<1> DEFINE t == Append(list, x)
<1>1. k \in 1..Len(list) /\ Len(list) \in Nat /\ \A i \in 1..Len(list) : t[i] = list[i]
  BY ListAppend
<1> HIDE DEF t
<1>2. t[k] = list[k] /\ \A i \in 1..k : t[i] = list[i]
  BY <1>1
<1> DEFINE r == list[k].request
           same == {i \in 1..k : list[i].request.method = r.method
                                 /\ list[i].request.path = r.path}
           route == {i \in DOMAIN s.routes : s.routes[i].method = r.method
                                             /\ s.routes[i].path = r.path}
           given == UNION {ToSet(s.routes[i].responses) : i \in route}
           due == {y \in given : y.sequence = Cardinality(same)}
<1>3. same = {i \in 1..k : t[i].request.method = r.method /\ t[i].request.path = r.path}
  BY <1>2
<1>4. IF route = {} THEN list[k].source = s.fallback
      ELSE IF due # {} THEN due = {list[k].source}
      ELSE list[k].source \in given /\ list[k].source.sequence = Default
  BY Zenon DEF Answered
<1>5. t[k].request = r /\ t[k].source = list[k].source
  BY <1>2
<1> HIDE DEF due, given, same, r
<1>6. Answered(t, s, k)
  BY <1>3, <1>4, <1>5 DEF Answered, due, given
<1>. QED  BY <1>6 DEF t

(* The answer to the request that comes last.                              *)
LEMMA LastAnswer ==
  ASSUME IsList(asked), NEW x,
         LET matching == Matching(service.routes, x.request.method, x.request.path)
         IN  /\ matching = {} => x.source = service.fallback
             /\ matching # {} =>
                  \E j \in DOMAIN service.routes :
                    /\ matching = {j}
                    /\ Due(service.routes, j, Cardinality(Asking(asked, Key(x.request))) + 1,
                           x.source)
  PROVE  Answered(Append(asked, x), service, Len(asked) + 1)
<1> DEFINE t == Append(asked, x)
           n == Len(asked) + 1
           r == x.request
           routes == service.routes
           matching == Matching(routes, r.method, r.path)
           same == {i \in 1..n : t[i].request.method = t[n].request.method
                                 /\ t[i].request.path = t[n].request.path}
           route == {i \in DOMAIN routes : routes[i].method = t[n].request.method
                                           /\ routes[i].path = t[n].request.path}
           ordinal == Cardinality(Asking(asked, Key(r))) + 1
<1>1. t[n] = x /\ DOMAIN t = 1..n
  BY ListAppend
<1>2. route = matching
  BY <1>1 DEF Matching
<1>3. same = Asking(t, Key(r))
  <2> HIDE DEF t, n
  <2>. QED  BY <1>1 DEF Asking, Key
<1>4. Cardinality(same) = ordinal
  BY <1>3, AskOnce
<1>5. CASE matching = {}
  <2>1. t[n].source = service.fallback
    BY <1>1, <1>5
  <2> HIDE DEF t, n
  <2>. QED  BY <1>2, <1>5, <2>1 DEF Answered, t, n
<1>6. CASE matching # {}
  <2>1. PICK j \in DOMAIN routes : matching = {j} /\ Due(routes, j, ordinal, x.source)
    BY <1>6
  <2> DEFINE given == UNION {ToSet(routes[i].responses) : i \in route}
             due == {y \in given : y.sequence = Cardinality(same)}
  <2>2. given = ToSet(routes[j].responses)
    BY <1>2, <2>1
  <2> HIDE DEF t, n, same, ordinal, routes, given, route, matching
  <2>3. IF due # {} THEN due = {t[n].source}
        ELSE t[n].source \in given /\ t[n].source.sequence = Default
    BY <1>1, <1>4, <2>1, <2>2 DEF Due
  <2>4. route # {}
    BY <1>2, <1>6
  <2>. QED  BY <2>3, <2>4 DEF Answered, t, n, same, route, routes, given
<1>. QED  BY <1>5, <1>6

LEMMA ServeStep ==
  ASSUME Bound, Answering, NEW request, Serve(request)
  PROVE  /\ UNCHANGED <<cfg, bound, service>> /\ phase \in Serving /\ phase' \in Serving
         /\ Answering'
<1> DEFINE close == CloseAfter(request)
           sel == SelectResponse(service, request.method, request.path, counts, close)
           x(outcome) == [request |-> request, source |-> sel.source, plan |-> sel.plan,
                          outcome |-> outcome, line |-> Line(request, outcome)]
<1>1. /\ UNCHANGED <<cfg, bound, service>> /\ phase \in Serving
      /\ counts' = sel.counts /\ Respond(request, sel)
  BY DEF Serve, Serving
<1>2. Ready(service)
  <2>1. cfg \in Candidates /\ Validate(cfg) /\ service \in ToSet(Enabled(cfg))
    BY <1>1 DEF Bound, Serving, Refused
  <2>. QED  BY <2>1, ValidServices DEF Ready, ToSet
<1>3. IsList(asked) /\ Tallied /\ \A k \in DOMAIN asked : Answered(asked, service, k)
  BY <1>1 DEF Answering
<1>4. /\ sel.source # None
      /\ LET matching == Matching(service.routes, request.method, request.path)
         IN  /\ matching = {} => sel.source = service.fallback
             /\ matching # {} =>
                  \E j \in DOMAIN service.routes :
                    /\ matching = {j}
                    /\ Due(service.routes, j, Cardinality(Asking(asked, Key(request))) + 1,
                           sel.source)
      /\ \A j \in DOMAIN service.routes :
           Count(sel.counts, Key(service.routes[j])) =
             Cardinality(Asking(asked, Key(service.routes[j])))
             + IF Key(request) = Key(service.routes[j]) THEN 1 ELSE 0
  BY <1>2, <1>3, Selects
<1> HIDE DEF sel
<1>5. \E outcome \in {"tunnel", "limit", "sent", "cut"} :
        Ask(request, sel, outcome) /\ phase' \in Serving
  BY <1>1, <1>4 DEF Respond, Serving
<1>6. PICK outcome \in {"tunnel", "limit", "sent", "cut"} : asked' = Append(asked, x(outcome))
  BY <1>5 DEF Ask
<1> DEFINE y == x(outcome)
<1>7. y.request = request /\ y.source = sel.source
  OBVIOUS
<1> HIDE DEF x
<1>8. Tallied'
  <2>1. \A j \in DOMAIN service.routes :
          Cardinality(Asking(asked', Key(service.routes[j]))) =
            Cardinality(Asking(asked, Key(service.routes[j])))
            + IF Key(request) = Key(service.routes[j]) THEN 1 ELSE 0
    BY <1>3, <1>6, <1>7, AskOnce
  <2>. QED  BY <1>1, <1>4, <2>1 DEF Tallied
<1> HIDE DEF y
<1>9. Answered(asked', service, Len(asked) + 1)
  <2>1. Answered(Append(asked, y), service, Len(asked) + 1)
    BY <1>3, <1>4, <1>7, LastAnswer
  <2>. QED  BY <1>6, <2>1 DEF y
<1>10. \A k \in DOMAIN asked : Answered(asked', service, k)
  <2>1. \A k \in DOMAIN asked : Answered(Append(asked, y), service, k)
    BY <1>3, AnswersStay
  <2>. QED  BY <1>6, <2>1 DEF y
<1>11. \A k \in DOMAIN asked' : k \in DOMAIN asked \/ k = Len(asked) + 1
  <2>1. /\ DOMAIN Append(asked, y) = 1..(Len(asked) + 1) /\ DOMAIN asked = 1..Len(asked)
        /\ Len(asked) \in Nat
    BY <1>3, ListAppend
  <2>. QED  BY <1>6, <2>1 DEF y
<1>12. IsList(asked')
  <2>1. IsList(Append(asked, y))
    BY <1>3, ListAppend
  <2>. QED  BY <1>6, <2>1 DEF y
<1>13. Answering'
  BY <1>1, <1>5, <1>8, <1>9, <1>10, <1>11, <1>12 DEF Answering
<1>. QED  BY <1>1, <1>5, <1>13

EInv == Bound /\ Answering

LEMMA InitEInv == Init => EInv
<1> SUFFICES ASSUME Init PROVE EInv
  OBVIOUS
<1>1. << >> \in Seq({s.listener : s \in ToSet(Enabled(cfg))}) /\ Len(<< >>) = 0
  OBVIOUS
<1>2. cfg \in Candidates
  BY DEF Init
<1>3. Len(Enabled(cfg)) \in Nat
  BY <1>2, EnabledServices
<1>4. InOrder
  BY <1>1, <1>3 DEF Init, InOrder
<1>. QED  BY <1>4 DEF Init, EInv, Bound, Answering, Refused, Serving

LEMMA NextEInv ==
  ASSUME EInv, [Next]_vars
  PROVE  EInv'
<1>1. CASE Load
  BY <1>1 DEF EInv, Load, connection, Bound, Answering, InOrder, Refused, Serving
<1>2. CASE BindNext
  <2>1. phase' \notin Serving
    <3>1. phase = "bind" /\ (phase' = phase \/ phase' = "bindFailed")
      BY <1>2 DEF BindNext
    <3>. QED  BY <3>1 DEF Serving
  <2>2. asked' = << >>
    <3>1. phase = "bind" /\ asked' = asked
      BY <1>2 DEF BindNext, connection
    <3>. QED  BY <3>1 DEF EInv, Answering, Serving
  <2>. QED  BY <1>2, <2>1, <2>2, BindNextStep DEF EInv, Answering
<1>3. CASE BindDone
  BY <1>3 DEF EInv, BindDone, connection, Bound, Answering, InOrder, Refused, Serving
<1>4. CASE Connect
  <2>1. /\ phase \in {"listening", "closed"} /\ phase' = "connected"
        /\ UNCHANGED <<cfg, bound>> /\ asked' = << >> /\ counts' = << >>
        /\ \E i \in DOMAIN bound : service' = Enabled(cfg)[i]
    BY <1>4 DEF Connect
  <2>2. InOrder /\ Len(bound) = Len(Enabled(cfg)) /\ Validate(cfg) /\ cfg \in Candidates
    BY <2>1 DEF EInv, Bound, Refused
  <2>3. DOMAIN bound = DOMAIN Enabled(cfg)
    <3> DEFINE S == {s.listener : s \in ToSet(Enabled(cfg))}
    <3>1. bound \in Seq(S)
      BY <2>2 DEF InOrder
    <3> HIDE DEF S
    <3>2. DOMAIN bound = 1..Len(bound)
      BY <3>1
    <3>3. DOMAIN Enabled(cfg) = 1..Len(Enabled(cfg))
      BY <2>2, EnabledServices
    <3>. QED  BY <2>2, <3>2, <3>3
  <2>4. service' \in ToSet(Enabled(cfg))
    BY <2>1, <2>3 DEF ToSet
  <2>5. Bound'
    BY <2>1, <2>2, <2>4 DEF Bound, InOrder, Refused, Serving
  <2>6. IsList(<< >>) /\ DOMAIN << >> = {}
    BY DEF IsList
  <2>7. \A key : Count(<< >>, key) = 0 /\ Cardinality(Asking(<< >>, key)) = 0
    <3>1. \A key : Asking(<< >>, key) = {}
      BY DEF Asking
    <3>. QED  BY <3>1, FS_EmptySet DEF Count
  <2>8. Tallied'
    BY <2>1, <2>7 DEF Tallied
  <2>9. Answering'
    BY <2>1, <2>6, <2>8 DEF Answering, Serving
  <2>. QED  BY <2>5, <2>9 DEF EInv
<1>5. ASSUME NEW request \in Requests(cfg), Serve(request) PROVE EInv'
  <2>1. /\ UNCHANGED <<cfg, bound, service>> /\ phase \in Serving /\ phase' \in Serving
        /\ Answering'
    BY <1>5, ServeStep DEF EInv
  <2>2. Bound'
    BY <2>1 DEF EInv, Bound, InOrder, Refused, Serving
  <2>. QED  BY <2>1, <2>2 DEF EInv
<1>6. CASE UNCHANGED vars
  BY <1>6 DEF EInv, vars, Bound, Answering, Tallied, InOrder, Refused, Serving
<1>. QED  BY <1>1, <1>2, <1>3, <1>4, <1>5, <1>6 DEF Next

LEMMA SpecEInv == Spec => []EInv
  BY InitEInv, NextEInv, PTL DEF Spec

(* Every configuration that is accepted is bound whole, in any order, and  *)
(* serves every request without a missing response; what is refused for    *)
(* its listeners could not have been bound (validate.go:163-180, 306-314,  *)
(* 438-457; router.go:29-72).                                              *)
THEOREM AcceptedCanAlwaysServe == Spec => []AcceptedCanServe
<1>1. EInv => AcceptedCanServe
  <2> SUFFICES ASSUME EInv PROVE AcceptedCanServe
    OBVIOUS
  <2> DEFINE e == Enabled(cfg)
             S == {s.listener : s \in ToSet(e)}
  <2>1. cfg \in Candidates /\ Len(e) \in Nat /\ DOMAIN e = 1..Len(e)
    BY EnabledServices DEF EInv, Bound
  <2>2. phase \notin {"bindFailed", "panic"}
    BY DEF EInv, Bound, Refused, Serving
  <2>3. ASSUME phase = "listening" PROVE bound = Exported
    <3>1. bound \in Seq(S) /\ Len(bound) = Len(e) /\ \A i \in DOMAIN bound : bound[i] = e[i].listener
      BY <2>3 DEF EInv, Bound, InOrder, Refused
    <3> HIDE DEF S, e
    <3>2. bound = [i \in 1..Len(e) |-> e[i].listener]
      BY <2>1, <3>1
    <3>. QED  BY <2>1, <3>2 DEF Exported, e
  <2>4. ASSUME ~NoListenerConflict(cfg), \A i \in DOMAIN e : e[i].listener # None
        PROVE  \E i, j \in DOMAIN e :
                 /\ i # j
                 /\ Exported[i].port = Exported[j].port
                 /\ Covers(Exported[i].address) \cap Covers(Exported[j].address) # {}
    <3>1. PICK i \in DOMAIN e, j \in DOMAIN e :
            /\ i < j /\ e[i].listener.port = e[j].listener.port
            /\ IpsConflict(e[i].listener.address, e[j].listener.address)
      BY <2>4 DEF NoListenerConflict
    <3>2. /\ IsUnspecified(e[i].listener.address) \/ Form(e[i].listener.address) \in Local
          /\ IsUnspecified(e[j].listener.address) \/ Form(e[j].listener.address) \in Local
      BY <2>1, <2>4, EnabledServices
    <3>3. Covers(e[i].listener.address) \cap Covers(e[j].listener.address) # {}
      BY <3>1, <3>2, ConflictIsOverlap
    <3>4. Exported[i] = e[i].listener /\ Exported[j] = e[j].listener
      BY DEF Exported
    <3>5. i # j
      <4> HIDE DEF e
      <4>. QED  BY <2>1, <3>1
    <3>. QED  BY <3>1, <3>3, <3>4, <3>5
  <2>. QED  BY <2>2, <2>3, <2>4 DEF AcceptedCanServe
<1>. QED  BY <1>1, SpecEInv, PTL

(* Every request for a route gets the response with its number, and the    *)
(* default after the last, whatever was asked in between                   *)
(* (router.go:29-72).                                                      *)
THEOREM RoutesAlwaysAnswerInOrder == Spec => []RouteAnswersInOrder
<1>1. EInv => RouteAnswersInOrder
  <2> SUFFICES ASSUME EInv, NEW k \in DOMAIN asked PROVE Answered(asked, service, k)
    BY DEF RouteAnswersInOrder, Answered
  <2>1. CASE phase \in Serving
    BY <2>1 DEF EInv, Answering
  <2>2. CASE phase \notin Serving
    <3>1. asked = << >> /\ DOMAIN << >> = {}
      BY <2>2 DEF EInv, Answering
    <3>. QED  BY <3>1
  <2>. QED  BY <2>1, <2>2
<1>. QED  BY <1>1, SpecEInv, PTL

-----------------------------------------------------------------------------
(* The event of an exchange.                                               *)

Event(e) ==
  e \in [mandatory : Nat, other : Nat, text : Nat, writeError : Nat,
         headers : Seq(Nat), query : Seq(Nat), truncated : BOOLEAN]

LEMMA MinOfTwo ==
  ASSUME NEW a \in Int, NEW b \in Int
  PROVE  Min({a, b}) = IF a <= b THEN a ELSE b
<1> DEFINE m == IF a <= b THEN a ELSE b
<1>1. m \in {a, b} /\ \A y \in {a, b} : m <= y
  OBVIOUS
<1>2. \A x \in {a, b} : (\A y \in {a, b} : x <= y) => x = m
  OBVIOUS
<1> HIDE DEF m
<1>3. Min({a, b}) = m
  BY <1>1, <1>2 DEF Min
<1>. QED  BY <1>3 DEF m

LEMMA MaxOfTwo ==
  ASSUME NEW a \in Int, NEW b \in Int
  PROVE  Max({a, b}) = IF a >= b THEN a ELSE b
<1> DEFINE m == IF a >= b THEN a ELSE b
<1>1. m \in {a, b} /\ \A y \in {a, b} : m >= y
  OBVIOUS
<1>2. \A x \in {a, b} : (\A y \in {a, b} : x >= y) => x = m
  OBVIOUS
<1> HIDE DEF m
<1>3. Max({a, b}) = m
  BY <1>1, <1>2 DEF Max
<1>. QED  BY <1>3 DEF m

(* How many headers are kept of h headers and q query fields when n are.   *)
Share(h, q, n) ==
  IF (IF h <= n \div 2 THEN h ELSE n \div 2) >= n - q
    THEN (IF h <= n \div 2 THEN h ELSE n \div 2) ELSE n - q

LEMMA BalancedIs ==
  ASSUME NEW e, Event(e), NEW n \in Nat
  PROVE  Balanced(e, n) = <<Share(Len(e.headers), Len(e.query), n),
                            n - Share(Len(e.headers), Len(e.query), n)>>
<1> DEFINE h == Len(e.headers)
           q == Len(e.query)
           m == n \div 2
           s == IF h <= m THEN h ELSE m
<1>1. h \in Nat /\ q \in Nat /\ m \in Int
  BY DEF Event
<1>2. s \in Int /\ n - q \in Int
  <2> HIDE DEF h, q, m
  <2>. QED  BY <1>1
<1>3. Min({h, m}) = s
  <2> HIDE DEF h, m
  <2>. QED  BY <1>1, MinOfTwo
<1> HIDE DEF s
<1>4. Max({s, n - q}) = IF s >= n - q THEN s ELSE n - q
  BY <1>2, MaxOfTwo
<1>5. Max({Min({h, m}), n - q}) = Share(h, q, n)
  BY <1>3, <1>4 DEF Share, s
<1>. QED  BY <1>5 DEF Balanced

LEMMA ShareBounds ==
  ASSUME NEW h \in Nat, NEW q \in Nat, NEW n \in 0..(h + q)
  PROVE  Share(h, q, n) \in 0..h /\ n - Share(h, q, n) \in 0..q
<1> DEFINE m == n \div 2
<1>1. m \in Nat /\ m <= n
  OBVIOUS
<1> HIDE DEF m
<1>. QED  BY <1>1 DEF Share, m

LEMMA ShareStep ==
  ASSUME NEW h \in Nat, NEW q \in Nat, NEW n \in 1..(h + q)
  PROVE  <<Share(h, q, n - 1), (n - 1) - Share(h, q, n - 1)>> =
           DropOne(<<Share(h, q, n), n - Share(h, q, n)>>)
<1> DEFINE m == n \div 2
           l == (n - 1) \div 2
<1>1. m \in Int /\ 2 * m <= n /\ n <= 2 * m + 1
  OBVIOUS
<1>2. l \in Int /\ 2 * l <= n - 1 /\ n - 1 <= 2 * l + 1
  OBVIOUS
<1> DEFINE a == Share(h, q, n)
           b == Share(h, q, n - 1)
<1> HIDE DEF m, l
<1>3. a = IF (IF h <= m THEN h ELSE m) >= n - q THEN (IF h <= m THEN h ELSE m) ELSE n - q
  BY DEF Share, m
<1>4. b = IF (IF h <= l THEN h ELSE l) >= (n - 1) - q
            THEN (IF h <= l THEN h ELSE l) ELSE (n - 1) - q
  BY DEF Share, l
<1> HIDE DEF a, b
<1>5. a \in Int /\ b \in Int
  BY <1>1, <1>2, <1>3, <1>4
<1>6. CASE a >= n - a
  <2>1. b = a - 1
    BY <1>1, <1>2, <1>3, <1>4, <1>6
  <2>. QED  BY <1>5, <1>6, <2>1 DEF DropOne, a, b
<1>7. CASE ~(a >= n - a)
  <2>1. b = a
    BY <1>1, <1>2, <1>3, <1>4, <1>7
  <2>. QED  BY <1>5, <1>7, <2>1 DEF DropOne, a, b
<1>. QED  BY <1>6, <1>7

(* The passes of the loop leave the lists balanced.                        *)
LEMMA LengthsAreBalanced ==
  ASSUME NEW e, Event(e), NEW k \in 0..Entries(e)
  PROVE  Lengths(e)[k] = Balanced(e, Entries(e) - k)
<1> DEFINE h == Len(e.headers)
           q == Len(e.query)
           all == Entries(e)
           pair(n) == <<Share(h, q, n), n - Share(h, q, n)>>
           F(f) == [i \in 0..all |-> IF i = 0 THEN <<h, q>> ELSE DropOne(f[i - 1])]
           good == [i \in 0..all |-> pair(all - i)]
           after == CHOOSE f : f = F(f)
<1>1. h \in Nat /\ q \in Nat /\ all = h + q
  BY DEF Event, Entries
<1> HIDE DEF h, q, all
<1>2. pair(all) = <<h, q>>
  <2> DEFINE m == all \div 2
  <2>1. m \in Int /\ 2 * m <= all /\ all <= 2 * m + 1
    BY <1>1
  <2>2. Share(h, q, all) = IF (IF h <= m THEN h ELSE m) >= all - q
                             THEN (IF h <= m THEN h ELSE m) ELSE all - q
    BY DEF Share
  <2> HIDE DEF m
  <2>3. Share(h, q, all) = h
    BY <1>1, <2>1, <2>2
  <2>. QED  BY <1>1, <2>3
<1>3. ASSUME NEW n \in 1..all PROVE pair(n - 1) = DropOne(pair(n))
  BY <1>1, <1>3, ShareStep
<1> HIDE DEF pair
<1>4. good = F(good)
  <2>1. good[0] = pair(all)
    BY <1>1
  <2>2. ASSUME NEW i \in 1..all PROVE good[i] = DropOne(good[i - 1])
    <3>1. good[i] = pair(all - i) /\ good[i - 1] = pair(all - (i - 1))
      BY <1>1, <2>2
    <3>2. all - (i - 1) \in 1..all /\ (all - (i - 1)) - 1 = all - i
      BY <1>1, <2>2
    <3> HIDE DEF good
    <3>. QED  BY <1>3, <3>1, <3>2
  <2>3. good = [i \in 0..all |-> good[i]]
    OBVIOUS
  <2>4. \A i \in 0..all : good[i] = IF i = 0 THEN <<h, q>> ELSE DropOne(good[i - 1])
    <3> HIDE DEF good
    <3>. QED  BY <1>1, <1>2, <2>1, <2>2
  <2> HIDE DEF good
  <2>. QED  BY <2>3, <2>4
<1>5. after = F(after)
  <2> HIDE DEF F, good
  <2>. QED  BY <1>4
<1>6. Lengths(e) = after
  BY DEF Lengths, h, q, all
<1> HIDE DEF after
<1>7. ASSUME NEW f, f = F(f)
      PROVE  f[0] = <<h, q>> /\ \A i \in 1..all : f[i] = DropOne(f[i - 1])
  <2> DEFINE g == F(f)
  <2>1. g[0] = <<h, q>>
    BY <1>1
  <2>2. \A i \in 1..all : g[i] = DropOne(f[i - 1])
    BY <1>1
  <2>3. f = g
    BY <1>7
  <2> HIDE DEF g
  <2>. QED  BY <2>1, <2>2, <2>3
<1> HIDE DEF F, good
<1>8. /\ after[0] = <<h, q>> /\ \A i \in 1..all : after[i] = DropOne(after[i - 1])
      /\ good[0] = <<h, q>> /\ \A i \in 1..all : good[i] = DropOne(good[i - 1])
  BY <1>4, <1>5, <1>7
<1> DEFINE T == {n \in Nat : n <= all => after[n] = good[n]}
<1>9. Nat \subseteq T
  <2>1. 0 \in T
    BY <1>8
  <2>2. \A n \in Nat : n \in T => n + 1 \in T
    <3> SUFFICES ASSUME NEW n \in Nat, n \in T, n + 1 <= all PROVE after[n + 1] = good[n + 1]
      OBVIOUS
    <3>1. n + 1 \in 1..all /\ (n + 1) - 1 = n /\ after[n] = good[n]
      BY <1>1
    <3>. QED  BY <1>8, <3>1
  <2> HIDE DEF T
  <2>. QED  BY <2>1, <2>2, Induction
<1>10. after[k] = good[k]
  <2>1. k \in Nat /\ k <= all
    BY DEF all
  <2>. QED  BY <1>9, <2>1
<1>11. good[k] = pair(all - k)
  BY DEF all, good
<1>12. all - k \in Nat
  BY <1>1 DEF all
<1>13. Balanced(e, all - k) = pair(all - k)
  BY <1>12, BalancedIs DEF pair, h, q
<1> HIDE DEF good
<1>. QED  BY <1>6, <1>10, <1>11, <1>13 DEF all

LEMMA TotalType == ASSUME NEW s \in Seq(Nat) PROVE Total(s) \in Nat
BY TotalAppend

LEMMA FrontOf ==
  ASSUME NEW s \in Seq(Nat), NEW n \in 0..Len(s)
  PROVE  /\ SubSeq(s, 1, n) \in Seq(Nat) /\ Len(SubSeq(s, 1, n)) = n
         /\ n = Len(s) => SubSeq(s, 1, n) = s
         /\ n = 0 => SubSeq(s, 1, n) = << >>
<1>1. SubSeq(s, 1, n) \in Seq(Nat) /\ Len(SubSeq(s, 1, n)) = n
  OBVIOUS
<1>2. \A i \in 1..n : SubSeq(s, 1, n)[i] = s[i]
  OBVIOUS
<1> DEFINE f == SubSeq(s, 1, n)
<1> HIDE DEF f
<1>3. n = Len(s) => f = s
  BY <1>1, <1>2, SeqEqual DEF f
<1>4. n = 0 => f = << >>
  BY <1>1 DEF f
<1>. QED  BY <1>1, <1>3, <1>4 DEF f

LEMMA SizeType ==
  ASSUME NEW e, Event(e)
  PROVE  /\ Size(e) \in Nat
         /\ Event(Marked(e)) /\ Size(Marked(e)) \in Nat /\ Size(e) <= Size(Marked(e))
         /\ Marked(e).headers = e.headers /\ Marked(e).query = e.query
         /\ Entries(Marked(e)) = Entries(e) /\ Entries(e) = Len(e.headers) + Len(e.query)
         /\ Marked(e).text = e.text /\ Marked(e).other = e.other
         /\ Marked(e).writeError = e.writeError /\ Marked(e).mandatory = e.mandatory
         /\ Marked(e).truncated = TRUE
<1>1. Event(Marked(e))
  BY DEF Event, Marked
<1>2. /\ Marked(e).headers = e.headers /\ Marked(e).query = e.query
      /\ Marked(e).text = e.text /\ Marked(e).other = e.other
      /\ Marked(e).writeError = e.writeError /\ Marked(e).mandatory = e.mandatory
      /\ Marked(e).truncated = TRUE
  BY DEF Event, Marked
<1>3. /\ e.mandatory \in Nat /\ e.other \in Nat /\ e.text \in Nat /\ e.writeError \in Nat
      /\ e.truncated \in BOOLEAN
      /\ Total(e.headers) \in Nat /\ Total(e.query) \in Nat
  BY TotalType DEF Event
<1>. QED  BY <1>1, <1>2, <1>3, BoundsAssumption DEF Size, Entries

(* The front of both lists of an event. *)
LEMMA CutOf ==
  ASSUME NEW e, Event(e), NEW a \in 0..Len(e.headers), NEW b \in 0..Len(e.query)
  PROVE  LET c == Cut(e, <<a, b>>)
         IN  /\ Event(c) /\ Entries(c) = a + b
             /\ Len(c.headers) = a /\ Len(c.query) = b
             /\ c.mandatory = e.mandatory /\ c.other = e.other /\ c.text = e.text
             /\ c.writeError = e.writeError /\ c.truncated = e.truncated
             /\ a = Len(e.headers) => c.headers = e.headers
             /\ b = Len(e.query) => c.query = e.query
             /\ a = 0 => c.headers = << >>
             /\ b = 0 => c.query = << >>
<1> DEFINE h == SubSeq(e.headers, 1, a)
           q == SubSeq(e.query, 1, b)
           c == Cut(e, <<a, b>>)
<1>1. e.headers \in Seq(Nat) /\ e.query \in Seq(Nat)
  BY DEF Event
<1>2. /\ h \in Seq(Nat) /\ Len(h) = a /\ (a = Len(e.headers) => h = e.headers)
      /\ (a = 0 => h = << >>)
  BY <1>1, FrontOf
<1>3. /\ q \in Seq(Nat) /\ Len(q) = b /\ (b = Len(e.query) => q = e.query)
      /\ (b = 0 => q = << >>)
  BY <1>1, FrontOf
<1>4. c = [e EXCEPT !.headers = h, !.query = q]
  BY DEF Cut, Event
<1> HIDE DEF h, q, c
<1>5. /\ Event(c) /\ c.headers = h /\ c.query = q
      /\ c.mandatory = e.mandatory /\ c.other = e.other /\ c.text = e.text
      /\ c.writeError = e.writeError /\ c.truncated = e.truncated
  BY <1>2, <1>3, <1>4 DEF Event
<1>6. Entries(c) = a + b
  BY <1>2, <1>3, <1>5 DEF Entries
<1>. QED  BY <1>2, <1>3, <1>5, <1>6 DEF c

(* An event cut to n entries. *)
LEMMA BalancedCut ==
  ASSUME NEW e, Event(e), NEW n \in 0..Entries(e)
  PROVE  LET c == Cut(e, Balanced(e, n))
         IN  /\ Event(c) /\ Entries(c) = n
             /\ c.mandatory = e.mandatory /\ c.other = e.other /\ c.text = e.text
             /\ c.writeError = e.writeError /\ c.truncated = e.truncated
             /\ n = Entries(e) => c.headers = e.headers /\ c.query = e.query
             /\ n = 0 => c.headers = << >> /\ c.query = << >>
<1> DEFINE h == Len(e.headers)
           q == Len(e.query)
           a == Share(h, q, n)
           b == n - a
<1>1. h \in Nat /\ q \in Nat /\ Entries(e) = h + q
  BY DEF Event, Entries
<1> HIDE DEF h, q
<1>2. n \in Nat /\ n \in 0..(h + q)
  BY <1>1
<1>3. a \in 0..h /\ b \in 0..q
  BY <1>1, <1>2, ShareBounds
<1>4. Balanced(e, n) = <<a, b>>
  BY <1>2, BalancedIs DEF h, q
<1> HIDE DEF a
<1>5. n = h + q => a = h /\ b = q
  BY <1>1, <1>3
<1>6. n = 0 => a = 0 /\ b = 0
  BY <1>1, <1>3
<1> DEFINE c == Cut(e, <<a, b>>)
<1>7. /\ Event(c) /\ Entries(c) = a + b
      /\ c.mandatory = e.mandatory /\ c.other = e.other /\ c.text = e.text
      /\ c.writeError = e.writeError /\ c.truncated = e.truncated
      /\ a = Len(e.headers) => c.headers = e.headers
      /\ b = Len(e.query) => c.query = e.query
      /\ a = 0 => c.headers = << >>
      /\ b = 0 => c.query = << >>
  BY <1>3, CutOf DEF h, q
<1>8. a + b = n
  BY <1>1, <1>3
<1> HIDE DEF c, b
<1>. QED  BY <1>1, <1>4, <1>5, <1>6, <1>7, <1>8 DEF c, h, q

(* The event that is written: the whole one, or what the first pass that   *)
(* is enough leaves of it, or, when none is, one without any entries.      *)
Uncut(e, most, line) == Size(e) < most /\ line = e
Passed(e, most, line) ==
  /\ Size(e) >= most
  /\ \E n \in 0..(Entries(e) - 1) :
       /\ line = Cut(Marked(e), Balanced(e, n)) /\ Size(line) < most
       /\ \A more \in (n + 1)..(Entries(e) - 1) :
            Size(Cut(Marked(e), Balanced(e, more))) >= most
Bare(e, most, line) ==
  /\ Size(e) >= most /\ Size(line) <= most - 1
  /\ \A more \in 0..(Entries(e) - 1) : Size(Cut(Marked(e), Balanced(e, more))) >= most
  /\ LET bare == TextsCut(Cut(Marked(e), Balanced(e, 0)))
     IN  line = bare \/ line = Minimal(bare)

LEMMA LineKinds ==
  ASSUME NEW e, Event(e), NEW limits, limits.max_structured_event_bytes \in Nat,
         NEW i \in DOMAIN EventLine(e, limits)
  PROVE  LET line == EventLine(e, limits)[i]
             most == limits.max_structured_event_bytes
         IN  Uncut(e, most, line) \/ Passed(e, most, line) \/ Bare(e, most, line)
<1> DEFINE most == limits.max_structured_event_bytes
           m == Marked(e)
           all == Entries(e)
           Fits(x) == Size(x) <= most - 1
           after(k) == AfterPasses(m, k)
           passes == {k \in 1..Entries(e) : Fits(AfterPasses(m, k))}
           bare == TextsCut(after(all))
           line == EventLine(e, limits)[i]
<1>1. /\ Event(m) /\ Entries(m) = all /\ Size(e) \in Nat /\ all \in Nat
      /\ m.headers = e.headers /\ m.query = e.query
  <2>1. Len(e.headers) \in Nat /\ Len(e.query) \in Nat
    BY DEF Event
  <2>2. /\ Event(m) /\ Entries(m) = all /\ Size(e) \in Nat
        /\ m.headers = e.headers /\ m.query = e.query
        /\ all = Len(e.headers) + Len(e.query)
    BY SizeType
  <2>3. all \in Nat
    BY DEF Event, Entries
  <2>. QED  BY <2>2, <2>3, Zenon
<1>2. most > 1 /\ EventLine(e, limits) = BoundedEventJSON(e, most - 1)
  BY DEF EventLine
<1>3. ASSUME NEW k \in 0..all
      PROVE  after(k) = Cut(m, Balanced(e, all - k)) /\ Size(after(k)) \in Nat
  <2>1. Balanced(m, all - k) = Balanced(e, all - k)
    BY <1>1 DEF Balanced
  <2>2. k \in 0..Entries(m)
    BY <1>1, <1>3
  <2>3. after(k) = Cut(m, Balanced(m, Entries(m) - k))
    BY <1>1, <2>2, LengthsAreBalanced DEF AfterPasses
  <2>4. Entries(m) - k \in 0..Entries(m)
    BY <1>1, <1>3
  <2>5. Event(Cut(m, Balanced(m, Entries(m) - k)))
    BY <1>1, <2>4, BalancedCut
  <2>. QED  BY <1>1, <2>1, <2>3, <2>5, SizeType
<1>4. CASE Fits(e)
  <2>1. EventLine(e, limits) = <<e>>
    BY <1>2, <1>4 DEF BoundedEventJSON
  <2>2. line = e
    BY <2>1
  <2>. QED  BY <1>1, <1>4, <2>2 DEF Uncut
<1>5. CASE ~Fits(e) /\ passes # {}
  <2>1. EventLine(e, limits) = <<after(Min(passes))>>
    BY <1>1, <1>2, <1>5 DEF BoundedEventJSON
  <2>2. line = after(Min(passes))
    BY <2>1
  <2> DEFINE k == Min(passes)
             n == all - k
  <2>3. k \in passes /\ \A j \in passes : k <= j
    <3>1. passes \in SUBSET Nat
      OBVIOUS
    <3> HIDE DEF passes
    <3>. QED  BY <1>5, <3>1, MinFound
  <2> HIDE DEF k
  <2>4. k \in 1..all /\ Fits(after(k)) /\ line = after(k)
    BY <2>2, <2>3 DEF k
  <2>5. \A j \in 1..all : j < k => ~Fits(after(j))
    BY <2>3, <2>4
  <2> HIDE DEF after, line, all, m, most
  <2>6. n \in 0..(all - 1) /\ all - n = k
    BY <1>1, <2>4
  <2>7. line = Cut(m, Balanced(e, n)) /\ Size(line) \in Nat /\ Size(line) < most
    <3>1. k \in 0..all
      BY <1>1, <2>4
    <3>2. line = Cut(m, Balanced(e, n)) /\ Size(line) \in Nat
      BY <1>3, <2>4, <3>1
    <3>. QED  BY <2>4, <3>2 DEF most
  <2>8. ASSUME NEW more \in (n + 1)..(all - 1)
        PROVE  Size(Cut(m, Balanced(e, more))) >= most
    <3> DEFINE j == all - more
    <3>1. j \in 1..all /\ j < k /\ all - j = more /\ j \in 0..all
      BY <1>1, <2>4, <2>6, <2>8
    <3> HIDE DEF j
    <3>2. ~Fits(after(j)) /\ after(j) = Cut(m, Balanced(e, more)) /\ Size(after(j)) \in Nat
      BY <1>3, <2>5, <3>1
    <3>. QED  BY <3>2 DEF most
  <2>9. Size(e) >= most
    BY <1>1, <1>5 DEF most
  <2>10. Passed(e, most, line)
    BY <2>6, <2>7, <2>8, <2>9 DEF Passed, all, m
  <2>. QED  BY <2>10 DEF line, most
<1>6. CASE ~Fits(e) /\ passes = {}
  <2>1. line \in {bare, Minimal(bare)} /\ Fits(line)
    <3>1. EventLine(e, limits) = IF Fits(bare) THEN <<bare>>
                                 ELSE IF Fits(Minimal(bare)) THEN <<Minimal(bare)>> ELSE << >>
      BY <1>1, <1>2, <1>6, Zenon DEF BoundedEventJSON
    <3> HIDE DEF bare, Fits
    <3>2. CASE Fits(bare)
      BY <3>1, <3>2
    <3>3. CASE ~Fits(bare) /\ Fits(Minimal(bare))
      BY <3>1, <3>3
    <3>4. CASE ~Fits(bare) /\ ~Fits(Minimal(bare))
      BY <3>1, <3>4
    <3>. QED  BY <3>2, <3>3, <3>4
  <2>2. \A j \in 1..all : ~Fits(after(j))
    BY <1>6
  <2>3. bare = TextsCut(Cut(m, Balanced(e, 0)))
    <3>1. all \in 0..all /\ all - all = 0
      BY <1>1
    <3> HIDE DEF all, after, m
    <3>. QED  BY <1>3, <3>1
  <2>4. ASSUME NEW more \in 0..(all - 1)
        PROVE  Size(Cut(m, Balanced(e, more))) >= most
    <3> DEFINE j == all - more
    <3>1. j \in 1..all /\ all - j = more /\ j \in 0..all
      <4> HIDE DEF all
      <4>. QED  BY <1>1, <2>4
    <3> HIDE DEF j, all, after, m, most
    <3>2. ~Fits(after(j)) /\ after(j) = Cut(m, Balanced(e, more)) /\ Size(after(j)) \in Nat
      BY <1>3, <2>2, <3>1
    <3>. QED  BY <3>2 DEF most
  <2> HIDE DEF bare, line, m, all
  <2>5. Size(e) >= most
    BY <1>1, <1>6
  <2>6. Bare(e, most, line)
    <3>. QED  BY <2>1, <2>3, <2>4, <2>5 DEF Bare, all, m, bare
  <2>. QED  BY <2>6 DEF line
<1>. QED  BY <1>4, <1>5, <1>6

LEMMA ExchangeEventType ==
  ASSUME NEW request, Described(request), NEW w \in Nat, NEW limits,
         limits.max_structured_headers \in Nat, limits.max_query_fields \in Nat
  PROVE  LET e == ExchangeEvent(request, w, limits)
         IN  /\ Event(e) /\ e.text = request.text /\ e.other = request.other
             /\ e.mandatory = request.mandatory /\ e.writeError = w
             /\ Len(e.headers) <= Len(request.headers) /\ Len(e.query) <= Len(request.query)
             /\ e.truncated <=> request.odd \/ e.headers # request.headers
                                            \/ e.query # request.query
<1> DEFINE h == FirstEntries(request.headers, limits.max_structured_headers)
           q == FirstEntries(request.query, limits.max_query_fields)
           t == request.odd \/ h # request.headers \/ q # request.query
           e == ExchangeEvent(request, w, limits)
<1>1. ASSUME NEW s \in Seq(Nat), NEW n \in Nat
      PROVE  FirstEntries(s, n) \in Seq(Nat) /\ Len(FirstEntries(s, n)) <= Len(s)
  <2> DEFINE l == Len(s)
             k == Min({l, n})
  <2>1. l \in Nat
    OBVIOUS
  <2> HIDE DEF l
  <2>2. k \in 0..l
    BY <2>1, MinOfTwo
  <2> HIDE DEF k
  <2>3. SubSeq(s, 1, k) \in Seq(Nat) /\ Len(SubSeq(s, 1, k)) = k
    BY <2>2, FrontOf DEF l
  <2>4. FirstEntries(s, n) = SubSeq(s, 1, k)
    BY DEF FirstEntries, k, l
  <2>. QED  BY <2>1, <2>2, <2>3, <2>4 DEF l
<1>2. /\ request.headers \in Seq(Nat) /\ request.query \in Seq(Nat)
      /\ request.mandatory \in Nat /\ request.other \in Nat /\ request.text \in Nat
      /\ request.odd \in BOOLEAN
  BY DEF Described
<1>3. h \in Seq(Nat) /\ Len(h) <= Len(request.headers)
  BY <1>1, <1>2
<1>4. q \in Seq(Nat) /\ Len(q) <= Len(request.query)
  BY <1>1, <1>2
<1>5. e = [mandatory |-> request.mandatory, other |-> request.other, text |-> request.text,
           writeError |-> w, headers |-> h, query |-> q, truncated |-> t]
  BY DEF ExchangeEvent
<1> HIDE DEF h, q, e
<1>6. t \in BOOLEAN
  BY <1>2
<1>7. /\ Event(e) /\ e.text = request.text /\ e.other = request.other
      /\ e.mandatory = request.mandatory /\ e.writeError = w
      /\ e.headers = h /\ e.query = q /\ e.truncated = t
  <2> HIDE DEF t
  <2>. QED  BY <1>2, <1>3, <1>4, <1>5, <1>6 DEF Event
<1>8. e.truncated <=> request.odd \/ e.headers # request.headers \/ e.query # request.query
  BY <1>7, Zenon
<1>. QED  BY <1>3, <1>4, <1>7, <1>8 DEF e

LEMMA MarkedCut ==
  ASSUME NEW e, Event(e), NEW n \in 0..Entries(e)
  PROVE  LET c == Cut(Marked(e), Balanced(e, n))
         IN  /\ Event(c) /\ Entries(c) = n
             /\ c.mandatory = e.mandatory /\ c.other = e.other /\ c.text = e.text
             /\ c.writeError = e.writeError /\ c.truncated = TRUE
             /\ n = Entries(e) => Size(c) >= Size(e)
             /\ n = 0 => c.headers = << >> /\ c.query = << >>
<1> DEFINE m == Marked(e)
           c == Cut(m, Balanced(e, n))
<1>1. /\ Event(m) /\ Entries(m) = Entries(e) /\ m.headers = e.headers /\ m.query = e.query
      /\ m.text = e.text /\ m.other = e.other /\ m.writeError = e.writeError
      /\ m.mandatory = e.mandatory /\ m.truncated = TRUE
      /\ Size(e) \in Nat /\ Size(m) \in Nat /\ Size(e) <= Size(m)
  BY SizeType
<1>2. Balanced(e, n) = Balanced(m, n)
  BY <1>1 DEF Balanced
<1> HIDE DEF m
<1>3. LET d == Cut(m, Balanced(m, n))
      IN  /\ Event(d) /\ Entries(d) = n
          /\ d.mandatory = m.mandatory /\ d.other = m.other /\ d.text = m.text
          /\ d.writeError = m.writeError /\ d.truncated = m.truncated
          /\ n = Entries(m) => d.headers = m.headers /\ d.query = m.query
          /\ n = 0 => d.headers = << >> /\ d.query = << >>
  BY <1>1, BalancedCut
<1>4. c = Cut(m, Balanced(m, n))
  BY <1>2
<1> HIDE DEF c
<1>5. n = Entries(e) => Size(c) = Size(m)
  BY <1>1, <1>3, <1>4 DEF Size
<1>. QED  BY <1>1, <1>3, <1>4, <1>5 DEF c, m

(* What the line of an event keeps, whichever kind it is of.               *)
Keeps(request, whole, most, line) ==
  LET n == Entries(line)
  IN  /\ Size(line) + 1 <= most
      /\ line.truncated <=>
           \/ request.odd \/ line.text # request.text \/ line.other # request.other
           \/ line.headers # request.headers \/ line.query # request.query
           \/ line.writeError # whole.writeError
      /\ line # whole /\ n > 0 => line = Cut(Marked(whole), Balanced(whole, n))
      /\ line # whole =>
           \A more \in (n + 1)..Entries(whole) :
             Size(Cut(Marked(whole), Balanced(whole, more))) >= most

Told(request, e) ==
  /\ Event(e) /\ e.text = request.text /\ e.other = request.other
  /\ e.mandatory = request.mandatory
  /\ Len(e.headers) <= Len(request.headers) /\ Len(e.query) <= Len(request.query)
  /\ e.truncated <=> request.odd \/ e.headers # request.headers \/ e.query # request.query

LEMMA UncutKeeps ==
  ASSUME NEW request, NEW e, Told(request, e), NEW most \in Nat, NEW line, Uncut(e, most, line)
  PROVE  Keeps(request, e, most, line)
<1>1. line = e /\ Size(e) < most /\ Size(e) \in Nat
  BY SizeType DEF Uncut, Told
<1>2. Size(line) + 1 <= most
  BY <1>1
<1>. QED  BY <1>1, <1>2, Zenon DEF Keeps, Told

LEMMA PassedKeeps ==
  ASSUME NEW request, Described(request), NEW e, Told(request, e), NEW most \in Nat, NEW line,
         Passed(e, most, line)
  PROVE  Keeps(request, e, most, line)
<1> DEFINE all == Entries(e)
           cut(n) == Cut(Marked(e), Balanced(e, n))
           h == Len(e.headers)
           q == Len(e.query)
<1>1. Event(e) /\ Size(e) \in Nat /\ Size(e) >= most
  <2>1. Event(e) /\ Size(e) >= most
    BY DEF Told, Passed
  <2>. QED  BY <2>1, SizeType
<1>2. all \in Nat /\ all = h + q /\ h \in Nat /\ q \in Nat
  BY <1>1 DEF Event, Entries
<1>3. PICK n \in 0..(all - 1) :
        /\ line = cut(n) /\ Size(line) < most
        /\ \A more \in (n + 1)..(all - 1) : Size(cut(more)) >= most
  BY DEF Passed
<1> HIDE DEF h, q
<1>4. n \in 0..all /\ n < all /\ n \in Nat
  <2> HIDE DEF all
  <2>. QED  BY <1>2
<1>5. Event(line) /\ Entries(line) = n /\ line.truncated = TRUE
  BY <1>1, <1>3, <1>4, MarkedCut
<1>6. Size(line) + 1 <= most
  <2>1. Size(line) \in Nat
    BY <1>5, SizeType
  <2>. QED  BY <1>3, <2>1
<1>7. line.headers # request.headers \/ line.query # request.query
  <2> SUFFICES ASSUME line.headers = request.headers, line.query = request.query PROVE FALSE
    OBVIOUS
  <2> DEFINE rh == Len(request.headers)
             rq == Len(request.query)
  <2>1. n = rh + rq
    BY <1>5 DEF Entries
  <2>2. rh \in Nat /\ rq \in Nat
    BY DEF Described
  <2>3. h <= rh /\ q <= rq
    BY DEF Told, h, q
  <2> HIDE DEF all, rh, rq
  <2>. QED  BY <1>2, <1>4, <2>1, <2>2, <2>3
<1>8. ASSUME NEW more \in (n + 1)..all PROVE Size(cut(more)) >= most
  <2>1. CASE more = all
    <3>1. all \in 0..all
      <4> HIDE DEF all
      <4>. QED  BY <1>2
    <3>2. Size(cut(all)) >= Size(e) /\ Event(cut(all))
      BY <1>1, <3>1, MarkedCut
    <3> HIDE DEF cut, all
    <3>3. Size(cut(all)) \in Nat
      BY <3>2, SizeType
    <3>. QED  BY <1>1, <2>1, <3>2, <3>3
  <2>2. CASE more # all
    <3>1. more \in (n + 1)..(all - 1)
      <4> HIDE DEF all
      <4>. QED  BY <1>2, <1>4, <1>8, <2>2
    <3>. QED  BY <1>3, <3>1
  <2>. QED  BY <2>1, <2>2
<1> HIDE DEF cut, all
<1>9. line.truncated <=>
        \/ request.odd \/ line.text # request.text \/ line.other # request.other
        \/ line.headers # request.headers \/ line.query # request.query
        \/ line.writeError # e.writeError
  BY <1>5, <1>7, Zenon
<1>10. line # e /\ Entries(line) > 0 => line = cut(Entries(line))
  BY <1>3, <1>5
<1>11. \A more \in (Entries(line) + 1)..all : Size(cut(more)) >= most
  BY <1>5, <1>8
<1>. QED  BY <1>6, <1>9, <1>10, <1>11, Zenon DEF Keeps, cut, all

LEMMA BareType ==
  ASSUME NEW e, Event(e), NEW most \in Nat, NEW line, Bare(e, most, line)
  PROVE  /\ Event(line) /\ line.headers = << >> /\ line.query = << >> /\ line.truncated = TRUE
         /\ line.mandatory = e.mandatory
<1> DEFINE z == Cut(Marked(e), Balanced(e, 0))
           bare == TextsCut(z)
<1>1. 0 \in 0..Entries(e)
  <2>1. Entries(e) \in Nat
    BY DEF Event, Entries
  <2>. QED  BY <2>1
<1>2. /\ Event(z) /\ z.headers = << >> /\ z.query = << >> /\ z.truncated = TRUE
      /\ z.mandatory = e.mandatory
  BY <1>1, MarkedCut
<1> HIDE DEF z
<1>3. Min({z.text, TextCap}) \in Nat /\ Min({z.writeError, TextCap}) \in Nat
  <2>1. z.text \in Nat /\ z.writeError \in Nat /\ TextCap \in Nat
    BY <1>2, BoundsAssumption DEF Event
  <2>2. Min({z.text, TextCap}) \in 0..z.text /\ Min({z.writeError, TextCap}) \in 0..z.writeError
    BY <2>1, MinOfTwo
  <2>. QED  BY <2>1, <2>2
<1>4. /\ Event(bare) /\ bare.headers = << >> /\ bare.query = << >> /\ bare.truncated = TRUE
      /\ bare.mandatory = e.mandatory
  BY <1>2, <1>3 DEF TextsCut, Event
<1> HIDE DEF bare
<1>5. LET b == Minimal(bare)
      IN  /\ Event(b) /\ b.headers = << >> /\ b.query = << >> /\ b.truncated = TRUE
          /\ b.mandatory = e.mandatory
  BY <1>4 DEF Minimal, Event
<1>6. line = bare \/ line = Minimal(bare)
  BY DEF Bare, bare, z
<1>. QED  BY <1>4, <1>5, <1>6

LEMMA BareKeeps ==
  ASSUME NEW request, Described(request), NEW e, Told(request, e), NEW most \in Nat, NEW line,
         Bare(e, most, line)
  PROVE  Keeps(request, e, most, line)
<1> DEFINE all == Entries(e)
           cut(n) == Cut(Marked(e), Balanced(e, n))
<1>1. Event(e) /\ Size(e) \in Nat /\ Size(e) >= most
  <2>1. Event(e) /\ Size(e) >= most
    BY DEF Told, Bare
  <2>. QED  BY <2>1, SizeType
<1>2. all \in Nat
  BY <1>1 DEF Event, Entries
<1>3. /\ Event(line) /\ line.headers = << >> /\ line.query = << >> /\ line.truncated = TRUE
      /\ line.mandatory = e.mandatory
  BY <1>1, BareType
<1>4. Entries(line) = 0
  BY <1>3 DEF Entries
<1>5. Size(line) \in Nat /\ Size(line) < most /\ Size(line) + 1 <= most
  <2>1. Size(line) \in Nat
    BY <1>3, SizeType
  <2>2. Size(line) <= most - 1
    BY DEF Bare
  <2>. QED  BY <2>1, <2>2
<1>6. \/ line.text # request.text \/ line.other # request.other
      \/ line.headers # request.headers \/ line.query # request.query
      \/ line.writeError # e.writeError
  <2> SUFFICES ASSUME line.text = request.text, line.other = request.other,
                      line.headers = request.headers, line.query = request.query,
                      line.writeError = e.writeError
               PROVE  FALSE
    OBVIOUS
  <2>1. e.headers = << >> /\ e.query = << >>
    <3>1. Len(request.headers) = 0 /\ Len(request.query) = 0
      BY <1>3
    <3>2. Len(e.headers) <= 0 /\ Len(e.query) <= 0
      BY <3>1 DEF Told
    <3>3. e.headers \in Seq(Nat) /\ e.query \in Seq(Nat)
      BY <1>1 DEF Event
    <3>4. Len(e.headers) \in Nat /\ Len(e.query) \in Nat
      BY <3>3
    <3>5. Len(e.headers) = 0 /\ Len(e.query) = 0
      BY <3>2, <3>4
    <3>. QED  BY <3>3, <3>5
  <2>2. e.text = line.text /\ e.other = line.other
    BY DEF Told
  <2>3. /\ e.mandatory \in Nat /\ e.other \in Nat /\ e.text \in Nat /\ e.writeError \in Nat
        /\ MarkSize \in Nat /\ Total(<< >>) = 0
    BY <1>1, BoundsAssumption, TotalEmpty DEF Event
  <2>4. Size(e) <= e.mandatory + e.other + e.text + e.writeError + MarkSize
    BY <2>1, <2>3 DEF Size
  <2>5. Size(line) = e.mandatory + e.other + e.text + e.writeError + MarkSize
    BY <1>3, <2>2, <2>3 DEF Size
  <2>6. Size(e) <= Size(line)
    BY <2>4, <2>5
  <2>. QED  BY <1>1, <1>5, <2>6
<1>7. ASSUME NEW more \in 1..all PROVE Size(cut(more)) >= most
  <2>1. CASE more = all
    <3>1. all \in 0..all
      <4> HIDE DEF all
      <4>. QED  BY <1>2
    <3>2. Size(cut(all)) >= Size(e) /\ Event(cut(all))
      BY <1>1, <3>1, MarkedCut
    <3> HIDE DEF cut, all
    <3>3. Size(cut(all)) \in Nat
      BY <3>2, SizeType
    <3>. QED  BY <1>1, <2>1, <3>2, <3>3
  <2>2. CASE more # all
    <3>1. more \in 0..(all - 1)
      <4> HIDE DEF all
      <4>. QED  BY <1>2, <1>7, <2>2
    <3>. QED  BY <3>1 DEF Bare
  <2>. QED  BY <2>1, <2>2
<1> HIDE DEF cut, all
<1>8. line.truncated <=>
        \/ request.odd \/ line.text # request.text \/ line.other # request.other
        \/ line.headers # request.headers \/ line.query # request.query
        \/ line.writeError # e.writeError
  BY <1>3, <1>6, Zenon
<1>9. \A more \in (Entries(line) + 1)..all : Size(cut(more)) >= most
  BY <1>4, <1>7
<1>10. ~(Entries(line) > 0)
  BY <1>4
<1>. QED  BY <1>5, <1>8, <1>9, <1>10, Zenon DEF Keeps, cut, all

(* The line of an exchange, if there is one. *)
LEMMA LineKeeps ==
  ASSUME NEW request, Described(request), NEW w \in Nat, NEW limits,
         limits.max_structured_headers \in Nat, limits.max_query_fields \in Nat,
         limits.max_structured_event_bytes \in Nat,
         NEW i \in DOMAIN EventLine(ExchangeEvent(request, w, limits), limits)
  PROVE  LET e == ExchangeEvent(request, w, limits)
         IN  Keeps(request, e, limits.max_structured_event_bytes, EventLine(e, limits)[i])
<1> DEFINE e == ExchangeEvent(request, w, limits)
           most == limits.max_structured_event_bytes
           line == EventLine(e, limits)[i]
<1>1. Event(e) /\ Told(request, e)
  <2> HIDE DEF e
  <2>1. /\ Event(e) /\ e.text = request.text /\ e.other = request.other
        /\ e.mandatory = request.mandatory
        /\ Len(e.headers) <= Len(request.headers) /\ Len(e.query) <= Len(request.query)
        /\ e.truncated <=> request.odd \/ e.headers # request.headers \/ e.query # request.query
    BY ExchangeEventType DEF e
  <2>. QED  BY <2>1, Zenon DEF Told
<1> HIDE DEF e
<1>2. Uncut(e, most, line) \/ Passed(e, most, line) \/ Bare(e, most, line)
  BY <1>1, LineKinds DEF e
<1> HIDE DEF line, most
<1>3. most \in Nat
  BY DEF most
<1>. QED  BY <1>1, <1>2, <1>3, UncutKeeps, PassedKeeps, BareKeeps DEF e, most, line

Telling ==
  \A k \in DOMAIN asked :
    Described(asked[k].request) /\ asked[k].line = Line(asked[k].request, asked[k].outcome)

LEMMA NextTelling ==
  ASSUME EInv, Telling, [Next]_vars
  PROVE  Telling'
<1>1. CASE UNCHANGED <<cfg, asked>>
  BY <1>1 DEF Telling, Line, EventOf
<1>2. CASE asked' = << >>
  <2>1. DOMAIN << >> = {}
    OBVIOUS
  <2>. QED  BY <1>2, <2>1 DEF Telling
<1>3. ASSUME NEW request \in Requests(cfg), Serve(request)
      PROVE  Telling'
  <2> DEFINE sel == SelectResponse(service, request.method, request.path, counts,
                                   CloseAfter(request))
             x(outcome) == [request |-> request, source |-> sel.source, plan |-> sel.plan,
                            outcome |-> outcome, line |-> Line(request, outcome)]
  <2>1. UNCHANGED cfg /\ phase = "connected" /\ Respond(request, sel)
    BY <1>3 DEF Serve
  <2>2. Described(request)
    BY ExchangeAssumption, <1>3 DEF EInv, Bound
  <2>3. IsList(asked)
    BY <2>1 DEF EInv, Answering, Serving
  <2> HIDE DEF sel
  <2>4. asked' = asked \/ \E outcome : Ask(request, sel, outcome)
    BY <2>1 DEF Respond
  <2>5. CASE asked' = asked
    BY <1>1, <2>1, <2>5
  <2>6. ASSUME NEW outcome, Ask(request, sel, outcome) PROVE Telling'
    <3> DEFINE y == x(outcome)
    <3>1. asked' = Append(asked, y)
      BY <2>6 DEF Ask
    <3>2. y.request = request /\ y.line = Line(request, outcome) /\ y.outcome = outcome
      OBVIOUS
    <3> HIDE DEF y, x
    <3>3. /\ DOMAIN asked = 1..Len(asked) /\ DOMAIN asked' = 1..(Len(asked) + 1)
          /\ Len(asked) \in Nat
          /\ asked'[Len(asked) + 1] = y /\ \A k \in 1..Len(asked) : asked'[k] = asked[k]
      BY <2>3, <3>1, ListAppend
    <3>4. ASSUME NEW k \in DOMAIN asked'
          PROVE  /\ Described(asked'[k].request)
                 /\ asked'[k].line = Line(asked'[k].request, asked'[k].outcome)
      <4>1. CASE k = Len(asked) + 1
        BY <2>2, <3>2, <3>3, <4>1
      <4>2. CASE k # Len(asked) + 1
        <5>1. k \in DOMAIN asked /\ asked'[k] = asked[k]
          BY <3>3, <3>4, <4>2
        <5>. QED  BY <5>1 DEF Telling
      <4>. QED  BY <4>1, <4>2
    <3>. QED  BY <2>1, <3>4, Zenon DEF Telling, Line, EventOf
  <2>. QED  BY <2>4, <2>5, <2>6
<1>4. CASE UNCHANGED vars
  BY <1>1, <1>4 DEF vars
<1>. QED  BY <1>1, <1>2, <1>3, <1>4 DEF Next, Load, BindNext, BindDone, Connect, connection

(* Every exchange is told within the configured size, whole or marked as   *)
(* cut, with as many of its headers and query fields as that size allows   *)
(* (jsonl.go:206, 229-254, 375-440).                                       *)
THEOREM EventAlwaysKeepsTheMost == Spec => []EventKeepsTheMost
<1>1. Init => Telling
  <2>1. DOMAIN << >> = {}
    OBVIOUS
  <2>. QED  BY <2>1 DEF Init, Telling
<1>2. EInv /\ Telling => EventKeepsTheMost
  <2> SUFFICES ASSUME EInv, Telling, NEW k \in DOMAIN asked, NEW i \in DOMAIN asked[k].line
               PROVE  Keeps(asked[k].request, EventOf(asked[k].request, asked[k].outcome),
                            cfg.limits.max_structured_event_bytes, asked[k].line[i])
    BY Zenon DEF EventKeepsTheMost, Keeps
  <2> DEFINE request == asked[k].request
             outcome == asked[k].outcome
             w == IF outcome = "sent" THEN 0 ELSE ErrorSize
             limits == cfg.limits
             e == ExchangeEvent(request, w, limits)
  <2>1. Described(request) /\ asked[k].line = Line(request, outcome)
    BY DEF Telling
  <2>2. asked[k].line = EventLine(e, limits) /\ EventOf(request, outcome) = e
    <3>1. asked[k].line # << >>
      OBVIOUS
    <3>. QED  BY <2>1, <3>1 DEF Line, EventOf
  <2>3. Validate(cfg)
    <3>1. asked # << >>
      OBVIOUS
    <3>2. phase \in Serving
      BY <3>1 DEF EInv, Answering
    <3>. QED  BY <3>2 DEF EInv, Bound, Serving, Refused
  <2>4. /\ limits.max_structured_headers \in Nat /\ limits.max_query_fields \in Nat
        /\ limits.max_structured_event_bytes \in Nat
    BY <2>3 DEF Validate, ValidLimits, Ceiling
  <2>5. w \in Nat
    BY ExchangeAssumption
  <2>6. i \in DOMAIN EventLine(e, limits)
    BY <2>2
  <2> HIDE DEF request, w, limits
  <2>7. Keeps(request, e, limits.max_structured_event_bytes, EventLine(e, limits)[i])
    BY <2>1, <2>4, <2>5, <2>6, LineKeeps
  <2> HIDE DEF e
  <2>. QED  BY <2>2, <2>7 DEF limits, request
<1>3. EInv /\ Telling /\ [Next]_vars => Telling'
  BY NextTelling
<1>. QED  BY <1>1, <1>2, <1>3, SpecEInv, PTL DEF Spec

-----------------------------------------------------------------------------
(* A client that reads on: nothing read changes nothing, and a piece more  *)
(* is one step more.                                                       *)
ReadsOn(f, list, c, w, n) == f[0] = c /\ \A k \in 1..n : f[k] = ReadPiece(list, f[k - 1], w[k])

LEMMA ReadOnIs ==
  ASSUME NEW list, NEW c, NEW S, NEW w \in Seq(S)
  PROVE  \E f : ReadsOn(f, list, c, w, Len(w)) /\ ReadOn(list, c, w) = f[Len(w)]
<1> DEFINE n == Len(w)
           F(u) == [k \in 0..n |-> IF k = 0 THEN c ELSE ReadPiece(list, u[k - 1], w[k])]
           after == CHOOSE u : u = F(u)
           T == {m \in Nat : m <= n => \E f : DOMAIN f = 0..m /\ ReadsOn(f, list, c, w, m)}
<1>1. n \in Nat
  OBVIOUS
<1>2. 0 \in T
  <2>1. DOMAIN [k \in 0..0 |-> c] = 0..0 /\ ReadsOn([k \in 0..0 |-> c], list, c, w, 0)
    BY DEF ReadsOn
  <2>. QED  BY <2>1
<1>3. ASSUME NEW m \in Nat, m \in T PROVE m + 1 \in T
  <2> SUFFICES ASSUME m + 1 <= n
               PROVE  \E f : DOMAIN f = 0..(m + 1) /\ ReadsOn(f, list, c, w, m + 1)
    OBVIOUS
  <2>1. PICK f : DOMAIN f = 0..m /\ ReadsOn(f, list, c, w, m)
    BY <1>1, <1>3
  <2> DEFINE next == ReadPiece(list, f[m], w[m + 1])
             g == [k \in 0..(m + 1) |-> IF k <= m THEN f[k] ELSE next]
  <2>2. \A k \in 0..m : g[k] = f[k]
    OBVIOUS
  <2>3. g[m + 1] = next /\ DOMAIN g = 0..(m + 1)
    OBVIOUS
  <2> HIDE DEF g
  <2>4. g[0] = c
    BY <2>1, <2>2 DEF ReadsOn
  <2>5. ASSUME NEW k \in 1..(m + 1) PROVE g[k] = ReadPiece(list, g[k - 1], w[k])
    <3>1. CASE k \in 1..m
      <4>1. g[k] = f[k] /\ g[k - 1] = f[k - 1]
        BY <2>2, <3>1
      <4>. QED  BY <2>1, <3>1, <4>1 DEF ReadsOn
    <3>2. CASE k = m + 1
      <4>1. g[k - 1] = f[m]
        BY <2>2, <3>2
      <4>. QED  BY <2>3, <3>2, <4>1
    <3>. QED  BY <3>1, <3>2
  <2>6. ReadsOn(g, list, c, w, m + 1)
    BY <2>4, <2>5 DEF ReadsOn
  <2>. QED  BY <2>3, <2>6
<1>4. n \in T
  <2> HIDE DEF T
  <2>1. Nat \subseteq T
    BY <1>2, <1>3, Induction
  <2>. QED  BY <1>1, <2>1
<1>5. PICK f : DOMAIN f = 0..n /\ ReadsOn(f, list, c, w, n)
  BY <1>1, <1>4
<1> DEFINE u == [k \in 0..n |-> f[k]]
<1>6. u = F(u)
  <2>1. \A k \in 0..n : u[k] = IF k = 0 THEN c ELSE ReadPiece(list, u[k - 1], w[k])
    <3> SUFFICES ASSUME NEW k \in 0..n
                 PROVE  u[k] = IF k = 0 THEN c ELSE ReadPiece(list, u[k - 1], w[k])
      OBVIOUS
    <3>1. u[k] = f[k] /\ f[0] = c
      BY <1>5 DEF ReadsOn
    <3>2. CASE k = 0
      BY <3>1, <3>2
    <3>3. CASE k # 0
      <4>1. k \in 1..n /\ u[k - 1] = f[k - 1]
        BY <3>3
      <4>. QED  BY <1>5, <3>1, <3>3, <4>1 DEF ReadsOn
    <3>. QED  BY <3>2, <3>3
  <2>2. u = [k \in 0..n |-> u[k]]
    OBVIOUS
  <2> HIDE DEF u
  <2>. QED  BY <2>1, <2>2
<1>7. after = F(after)
  <2> HIDE DEF u, F
  <2>. QED  BY <1>6
<1>8. ReadOn(list, c, w) = after[n]
  BY DEF ReadOn
<1>9. ReadsOn(after, list, c, w, n)
  <2> HIDE DEF after
  <2>. QED  BY <1>1, <1>7 DEF ReadsOn
<1>. QED  BY <1>8, <1>9

LEMMA ReadOnEmpty == \A list, c : ReadOn(list, c, << >>) = c
<1> DEFINE w == << >>
<1>1. w \in Seq({}) /\ Len(w) = 0
  OBVIOUS
<1> HIDE DEF w
<1>2. ASSUME NEW list, NEW c PROVE ReadOn(list, c, w) = c
  <2>1. PICK f : ReadsOn(f, list, c, w, Len(w)) /\ ReadOn(list, c, w) = f[Len(w)]
    BY <1>1, ReadOnIs
  <2>. QED  BY <1>1, <2>1 DEF ReadsOn
<1>. QED  BY <1>2 DEF w

LEMMA ReadOnAppend ==
  ASSUME NEW list, NEW c, NEW S, NEW w \in Seq(S), NEW p \in S
  PROVE  ReadOn(list, c, Append(w, p)) = ReadPiece(list, ReadOn(list, c, w), p)
<1> DEFINE n == Len(w)
           v == Append(w, p)
<1>1. n \in Nat /\ v \in Seq(S) /\ Len(v) = n + 1 /\ v[n + 1] = p /\ \A k \in 1..n : v[k] = w[k]
  OBVIOUS
<1> HIDE DEF v
<1>2. PICK f : ReadsOn(f, list, c, w, n) /\ ReadOn(list, c, w) = f[n]
  BY ReadOnIs
<1>3. PICK g : ReadsOn(g, list, c, v, n + 1) /\ ReadOn(list, c, v) = g[n + 1]
  BY <1>1, ReadOnIs
<1> DEFINE T == {k \in Nat : k <= n => f[k] = g[k]}
<1>4. 0 \in T
  BY <1>2, <1>3 DEF ReadsOn
<1>5. ASSUME NEW k \in Nat, k \in T PROVE k + 1 \in T
  <2>1. CASE k + 1 <= n
    <3>1. k + 1 \in 1..n /\ k + 1 \in 1..(n + 1) /\ (k + 1) - 1 = k /\ k <= n
      BY <1>1, <2>1
    <3>2. /\ f[k + 1] = ReadPiece(list, f[k], w[k + 1])
          /\ g[k + 1] = ReadPiece(list, g[k], v[k + 1])
      BY <1>2, <1>3, <3>1 DEF ReadsOn
    <3>3. f[k] = g[k] /\ v[k + 1] = w[k + 1]
      BY <1>1, <1>5, <3>1
    <3>. QED  BY <3>2, <3>3
  <2>2. CASE ~(k + 1 <= n)
    BY <2>2
  <2>. QED  BY <2>1, <2>2
<1>6. Nat \subseteq T
  <2> HIDE DEF T
  <2>. QED  BY <1>4, <1>5, Induction
<1>7. f[n] = g[n]
  BY <1>1, <1>6
<1>8. g[n + 1] = ReadPiece(list, g[n], v[n + 1])
  <2>1. n + 1 \in 1..(n + 1) /\ (n + 1) - 1 = n
    BY <1>1
  <2>. QED  BY <1>3, <2>1 DEF ReadsOn
<1>. QED  BY <1>1, <1>2, <1>3, <1>7, <1>8 DEF v

LEMMA ReadOnConcat ==
  ASSUME NEW list, NEW c, NEW S, NEW w \in Seq(S), NEW v \in Seq(S)
  PROVE  ReadOn(list, c, w \o v) = ReadOn(list, ReadOn(list, c, w), v)
<1> DEFINE d == ReadOn(list, c, w)
           P == {s \in Seq(S) : ReadOn(list, c, w \o s) = ReadOn(list, d, s)}
<1>1. << >> \in P
  <2>1. w \o << >> = w /\ << >> \in Seq(S)
    OBVIOUS
  <2>2. ReadOn(list, d, << >>) = d
    BY ReadOnEmpty
  <2>. QED  BY <2>1, <2>2
<1>2. ASSUME NEW s \in Seq(S), NEW p \in S, s \in P PROVE Append(s, p) \in P
  <2>1. w \o Append(s, p) = Append(w \o s, p) /\ w \o s \in Seq(S) /\ Append(s, p) \in Seq(S)
    OBVIOUS
  <2>2. ReadOn(list, c, Append(w \o s, p)) = ReadPiece(list, ReadOn(list, c, w \o s), p)
    <3> DEFINE u == w \o s
    <3> HIDE DEF u
    <3>1. u \in Seq(S)
      BY <2>1 DEF u
    <3>2. ReadOn(list, c, Append(u, p)) = ReadPiece(list, ReadOn(list, c, u), p)
      BY <3>1, ReadOnAppend
    <3>. QED  BY <3>2 DEF u
  <2>3. ReadOn(list, d, Append(s, p)) = ReadPiece(list, ReadOn(list, d, s), p)
    BY ReadOnAppend
  <2>. QED  BY <1>2, <2>1, <2>2, <2>3
<1>3. Seq(S) \subseteq P
  <2> HIDE DEF P
  <2>. QED  BY <1>1, <1>2, Grown
<1>. QED  BY <1>3

(* Where a client is, and what it has read to its end.                     *)
At(state, head, left, body, done) ==
  [state |-> state, head |-> head, left |-> left, body |-> body, done |-> done]
Whole(head, body) == [head |-> head, body |-> body]
Reader(c) ==
  /\ c = At(c.state, c.head, c.left, c.body, c.done)
  /\ IsList(c.done) /\ c.left \in Nat

LEMMA AtIs ==
  ASSUME NEW state, NEW head, NEW left, NEW body, NEW done
  PROVE  LET c == At(state, head, left, body, done)
         IN  /\ c.state = state /\ c.head = head /\ c.left = left /\ c.body = body /\ c.done = done
             /\ IsList(done) /\ left \in Nat => Reader(c)
<1> DEFINE c == At(state, head, left, body, done)
<1>1. c.state = state /\ c.head = head /\ c.left = left /\ c.body = body /\ c.done = done
  BY DEF At
<1> HIDE DEF c
<1>2. c = At(c.state, c.head, c.left, c.body, c.done)
  BY <1>1 DEF c
<1>. QED  BY <1>1, <1>2 DEF Reader, c

(* Some of its fields changed. *)
Moved(c, state, left) == [c EXCEPT !.state = state, !.left = left]
Took(c, left, body) == [c EXCEPT !.left = left, !.body = body]
Ended(c, done) == [c EXCEPT !.state = "idle", !.left = 0, !.body = 0, !.done = done]

LEMMA AtExcept ==
  ASSUME NEW state, NEW head, NEW left, NEW body, NEW done, NEW x, NEW y
  PROVE  /\ Moved(At(state, head, left, body, done), x, y) = At(x, head, y, body, done)
         /\ Took(At(state, head, left, body, done), x, y) = At(state, head, x, y, done)
<1> DEFINE c == At(state, head, left, body, done)
<1>1. DOMAIN c = {"state", "head", "left", "body", "done"}
  BY DEF At
<1>2. c.state = state /\ c.head = head /\ c.left = left /\ c.body = body /\ c.done = done
  BY DEF At
<1> HIDE DEF c
<1>3. Moved(c, x, y) = At(x, head, y, body, done)
  <2>1. Moved(c, x, y) =
          [f \in DOMAIN c |-> IF f = "left" THEN y ELSE IF f = "state" THEN x ELSE c[f]]
    BY <1>1 DEF Moved, Took
  <2>. QED  BY <1>1, <1>2, <2>1 DEF At
<1>4. Took(c, x, y) = At(state, head, x, y, done)
  <2>1. Took(c, x, y) =
          [f \in DOMAIN c |-> IF f = "body" THEN y ELSE IF f = "left" THEN x ELSE c[f]]
    BY <1>1 DEF Moved, Took
  <2>. QED  BY <1>1, <1>2, <2>1 DEF At
<1>. QED  BY <1>3, <1>4 DEF c

LEMMA EndedAt ==
  ASSUME NEW state, NEW head, NEW left, NEW body, NEW done, NEW x
  PROVE  Ended(At(state, head, left, body, done), x) = At("idle", head, 0, 0, x)
<1> DEFINE c == At(state, head, left, body, done)
<1>1. DOMAIN c = {"state", "head", "left", "body", "done"}
  BY DEF At
<1>2. c.head = head
  BY DEF At
<1> HIDE DEF c
<1>3. Ended(c, x) = At("idle", head, 0, 0, x)
  <2>1. Ended(c, x) =
          [f \in DOMAIN c |-> IF f = "done" THEN x ELSE IF f = "body" THEN 0
                              ELSE IF f = "left" THEN 0 ELSE IF f = "state" THEN "idle" ELSE c[f]]
    BY <1>1 DEF Ended
  <2>. QED  BY <1>1, <1>2, <2>1 DEF At
<1>. QED  BY <1>3 DEF c

LEMMA FinishAt ==
  ASSUME NEW state, NEW head, NEW left, NEW body, NEW done
  PROVE  Finish(At(state, head, left, body, done)) =
           At("idle", head, 0, 0, Append(done, Whole(head, body)))
<1> DEFINE c == At(state, head, left, body, done)
           more == Append(done, Whole(head, body))
<1>1. c.head = head /\ c.body = body /\ c.done = done
  BY AtIs
<1> HIDE DEF more
<1>2. Ended(c, more) = At("idle", head, 0, 0, more)
  BY EndedAt
<1> HIDE DEF c
<1>3. Finish(c) = Ended(c, more)
  BY <1>1 DEF Finish, Whole, Ended, more
<1>. QED  BY <1>2, <1>3 DEF c, more

(* What each piece makes of a client. *)
LEMMA ConfusedAt ==
  ASSUME NEW list, NEW p, NEW head, NEW left, NEW body, NEW done
  PROVE  ReadPiece(list, At("confused", head, left, body, done), p) =
           At("confused", head, left, body, done)
BY DEF At, ReadPiece

LEMMA HeadAt ==
  ASSUME NEW list, NEW p, p.piece = "head", NEW head, NEW left, NEW body, NEW done,
         IsList(done), Len(done) < Len(list)
  PROVE  LET c == At("idle", head, left, body, done)
             begun == At("idle", p, left, body, done)
             length == p.headers["content-length"]
         IN  ReadPiece(list, c, p) =
               IF list[Len(done) + 1].request.method = "HEAD" \/ Bodiless(p.status)
                 THEN Finish(begun)
               ELSE IF "transfer-encoding" \in DOMAIN p.headers
                 THEN At("size", p, left, body, done)
               ELSE IF length = 0 THEN Finish(begun)
               ELSE At("bytes", p, length, body, done)
<1> DEFINE c == At("idle", head, left, body, done)
           begun == At("idle", p, left, body, done)
           length == p.headers["content-length"]
<1>1. c.state = "idle" /\ c.done = done
  BY AtIs
<1>2. ReadPiece(list, c, p) = ReadHead(list, c, p)
  BY <1>1 DEF ReadPiece
<1>3. [c EXCEPT !.head = p] = begun
  BY DEF At
<1>4. [begun EXCEPT !.state = "size"] = At("size", p, left, body, done)
  BY DEF At
<1>5. Moved(begun, "bytes", length) = At("bytes", p, length, body, done)
  BY AtExcept
<1> HIDE DEF c, begun, length
<1>6. ReadHead(list, c, p) =
        IF list[Len(done) + 1].request.method = "HEAD" \/ Bodiless(p.status) THEN Finish(begun)
        ELSE IF "transfer-encoding" \in DOMAIN p.headers THEN At("size", p, left, body, done)
        ELSE IF length = 0 THEN Finish(begun)
        ELSE At("bytes", p, length, body, done)
  BY <1>1, <1>3, <1>4, <1>5 DEF ReadHead, length, Moved
<1>. QED  BY <1>2, <1>6 DEF c, begun, length

LEMMA DataAt ==
  ASSUME NEW list, NEW p, p.piece = "data", NEW state \in {"bytes", "chunk"},
         NEW head, NEW left \in Nat, NEW body \in Nat, NEW done,
         p.bytes \in Nat, p.bytes <= left
  PROVE  ReadPiece(list, At(state, head, left, body, done), p) =
           IF p.bytes < left THEN At(state, head, left - p.bytes, body + p.bytes, done)
           ELSE IF state = "bytes" THEN Finish(At(state, head, 0, body + p.bytes, done))
           ELSE At("chunkEnd", head, 0, body + p.bytes, done)
<1> DEFINE c == At(state, head, left, body, done)
           n == p.bytes
           some == At(state, head, left - n, body + n, done)
<1>1. c.state = state /\ c.left = left
  BY AtIs
<1>2. ReadPiece(list, c, p) = ReadData(c, n)
  <2> HIDE DEF c
  <2>. QED  BY <1>1 DEF ReadPiece
<1>3. Took(c, left - n, body + n) = some /\ c.body = body
  BY AtExcept, AtIs
<1>4. [some EXCEPT !.state = "chunkEnd"] = At("chunkEnd", head, left - n, body + n, done)
  BY DEF At
<1> HIDE DEF c, some
<1>5. ReadData(c, n) =
        IF n < left THEN some
        ELSE IF state = "bytes" THEN Finish(some)
        ELSE At("chunkEnd", head, left - n, body + n, done)
  BY <1>1, <1>3, <1>4 DEF ReadData, Took
<1>6. ~(n < left) => left - n = 0
  OBVIOUS
<1> HIDE DEF n
<1>. QED  BY <1>2, <1>5, <1>6 DEF c, some, n

LEMMA SizeAt ==
  ASSUME NEW list, NEW head, NEW left, NEW body, NEW done, NEW n \in Nat \ {0}
  PROVE  ReadPiece(list, At("size", head, left, body, done), SizeLine(n)) =
           At("chunk", head, n, body, done)
<1> DEFINE c == At("size", head, left, body, done)
           p == SizeLine(n)
<1>1. c.state = "size" /\ p.piece = "size" /\ p.chunk = n
  BY AtIs DEF SizeLine
<1>2. Moved(c, "chunk", n) = At("chunk", head, n, body, done)
  BY AtExcept
<1> HIDE DEF c, p
<1>3. ReadPiece(list, c, p) = At("chunk", head, n, body, done)
  BY <1>1, <1>2 DEF ReadPiece, Moved
<1>. QED  BY <1>3 DEF c, p

LEMMA ZeroAt ==
  ASSUME NEW list, NEW head, NEW left, NEW body, NEW done
  PROVE  ReadPiece(list, At("size", head, left, body, done), SizeLine(0)) =
           At("lastChunk", head, left, body, done)
BY DEF At, ReadPiece, SizeLine

LEMMA EndAt ==
  ASSUME NEW list, NEW head, NEW left, NEW body, NEW done
  PROVE  ReadPiece(list, At("chunkEnd", head, left, body, done), LineEnd) =
           At("size", head, left, body, done)
BY DEF At, ReadPiece, LineEnd

LEMMA LastAt ==
  ASSUME NEW list, NEW head, NEW left, NEW body, NEW done
  PROVE  ReadPiece(list, At("lastChunk", head, left, body, done), LineEnd) =
           Finish(At("lastChunk", head, left, body, done))
BY DEF At, ReadPiece, LineEnd

(* What the pieces of a response are like, for any client. *)
Proper(p) ==
  /\ p.piece = "head" /\ "transfer-encoding" \notin DOMAIN p.headers =>
       p.headers["content-length"] \in Nat
  /\ p.piece = "size" => p.chunk \in Nat
  /\ p.piece = "data" => p.bytes \in Nat \ {0}

LEMMA FinishReader ==
  ASSUME NEW c, Reader(c)
  PROVE  Reader(Finish(c)) /\ Finish(c).state = "idle"
<1> DEFINE x == Whole(c.head, c.body)
           d == At("idle", c.head, 0, 0, Append(c.done, x))
<1>1. c = At(c.state, c.head, c.left, c.body, c.done) /\ IsList(c.done)
  BY DEF Reader
<1>2. Finish(At(c.state, c.head, c.left, c.body, c.done)) = d
  BY FinishAt
<1>3. Finish(c) = d
  BY <1>1, <1>2
<1>4. IsList(Append(c.done, x))
  BY <1>1, ListAppend
<1> DEFINE done == Append(c.done, x)
<1> HIDE DEF done
<1>5. Reader(At("idle", c.head, 0, 0, done)) /\ At("idle", c.head, 0, 0, done).state = "idle"
  BY <1>4, AtIs DEF done
<1>. QED  BY <1>3, <1>5 DEF done

LEMMA PieceRead ==
  ASSUME NEW list, NEW c, Reader(c), NEW p, Proper(p)
  PROVE  LET d == ReadPiece(list, c, p)
         IN  /\ Reader(d)
             /\ d.done = c.done \/ d.state = "idle"
             /\ c.state = "confused" => d.state = "confused"
             /\ c.state = "idle" /\ p.piece # "head" => d.state = "confused"
<1> DEFINE d == ReadPiece(list, c, p)
           like(e) == Reader(e) /\ e.done = c.done
<1>1. c = At(c.state, c.head, c.left, c.body, c.done) /\ IsList(c.done) /\ c.left \in Nat
  BY DEF Reader
<1>2. \A state, head, body : \A left \in Nat : like(At(state, head, left, body, c.done))
  BY <1>1, AtIs
<1>3. \A state : [c EXCEPT !.state = state] = At(state, c.head, c.left, c.body, c.done)
  <2>1. ASSUME NEW state, NEW s, NEW head, NEW left, NEW body, NEW done
        PROVE  [At(s, head, left, body, done) EXCEPT !.state = state] = At(state, head, left, body, done)
    BY DEF At
  <2>. QED  BY <1>1, <2>1
<1>4. CASE c.state = "idle" /\ p.piece = "head" /\ Len(c.done) < Len(list)
  <2>1. ReadPiece(list, At("idle", c.head, c.left, c.body, c.done), p) =
          IF list[Len(c.done) + 1].request.method = "HEAD" \/ Bodiless(p.status)
            THEN Finish(At("idle", p, c.left, c.body, c.done))
          ELSE IF "transfer-encoding" \in DOMAIN p.headers
            THEN At("size", p, c.left, c.body, c.done)
          ELSE IF p.headers["content-length"] = 0 THEN Finish(At("idle", p, c.left, c.body, c.done))
          ELSE At("bytes", p, p.headers["content-length"], c.body, c.done)
    <3> DEFINE done == c.done
               head == c.head
               left == c.left
               body == c.body
    <3>1. IsList(done) /\ Len(done) < Len(list) /\ p.piece = "head"
      BY <1>1, <1>4
    <3> HIDE DEF done, head, left, body
    <3>2. LET e == At("idle", head, left, body, done)
              begun == At("idle", p, left, body, done)
              length == p.headers["content-length"]
          IN  ReadPiece(list, e, p) =
                IF list[Len(done) + 1].request.method = "HEAD" \/ Bodiless(p.status)
                  THEN Finish(begun)
                ELSE IF "transfer-encoding" \in DOMAIN p.headers
                  THEN At("size", p, left, body, done)
                ELSE IF length = 0 THEN Finish(begun)
                ELSE At("bytes", p, length, body, done)
      BY <3>1, HeadAt
    <3>. QED  BY <3>2 DEF done, head, left, body
  <2>2. \/ d = Finish(At("idle", p, c.left, c.body, c.done))
        \/ \E state : \E left \in Nat : d = At(state, p, left, c.body, c.done)
    BY <1>1, <1>4, <2>1 DEF Proper
  <2>3. Reader(At("idle", p, c.left, c.body, c.done))
    BY <1>1, <1>2
  <2> HIDE DEF d
  <2>. QED  BY <1>2, <1>4, <2>2, <2>3, FinishReader DEF d
<1>5. CASE c.state \in {"bytes", "chunk"} /\ p.piece = "data" /\ p.bytes <= c.left
  <2> DEFINE n == p.bytes
             some == Took(c, c.left - n, c.body + n)
  <2>1. d = ReadData(c, n)
    BY <1>5 DEF ReadPiece
  <2>2. Took(At(c.state, c.head, c.left, c.body, c.done), c.left - n, c.body + n)
          = At(c.state, c.head, c.left - n, c.body + n, c.done)
    BY AtExcept
  <2>3. some = At(c.state, c.head, c.left - n, c.body + n, c.done)
    BY <1>1, <2>2
  <2>4. c.left - n \in Nat
    BY <1>1, <1>5 DEF Proper
  <2>5. like(some)
    BY <1>2, <2>3, <2>4
  <2>6. d = some \/ d = Finish(some) \/ d = [some EXCEPT !.state = "chunkEnd"]
    BY <2>1 DEF ReadData, Took
  <2>7. [some EXCEPT !.state = "chunkEnd"] = At("chunkEnd", c.head, c.left - n, c.body + n, c.done)
    <3>1. ASSUME NEW state, NEW s, NEW head, NEW left, NEW body, NEW done
          PROVE  [At(s, head, left, body, done) EXCEPT !.state = state] = At(state, head, left, body, done)
      BY DEF At
    <3> HIDE DEF some
    <3>. QED  BY <2>3, <3>1
  <2> HIDE DEF some, n, d
  <2>8. like(d) \/ (Reader(d) /\ d.state = "idle")
    BY <1>2, <2>4, <2>5, <2>6, <2>7, FinishReader
  <2>. QED  BY <1>5, <2>8 DEF d
<1>6. CASE c.state = "size" /\ p.piece = "size"
  <2> DEFINE go == Moved(c, "chunk", p.chunk)
  <2>1. Moved(At(c.state, c.head, c.left, c.body, c.done), "chunk", p.chunk)
          = At("chunk", c.head, p.chunk, c.body, c.done)
    BY AtExcept
  <2>2. p.chunk \in Nat
    BY <1>6 DEF Proper
  <2>3. like(go)
    BY <1>1, <1>2, <2>1, <2>2
  <2>4. d = go \/ d = [c EXCEPT !.state = "lastChunk"]
    BY <1>6, <2>2 DEF ReadPiece, Moved
  <2> HIDE DEF go, d
  <2>5. like(d)
    BY <1>1, <1>2, <1>3, <2>3, <2>4
  <2>. QED  BY <1>6, <2>5 DEF d
<1>7. CASE c.state = "chunkEnd" /\ p.piece = "crlf"
  <2>1. d = [c EXCEPT !.state = "size"]
    BY <1>7 DEF ReadPiece
  <2> HIDE DEF d
  <2>2. like(d)
    BY <1>1, <1>2, <1>3, <2>1
  <2>. QED  BY <1>7, <2>2 DEF d
<1>8. CASE c.state = "lastChunk" /\ p.piece = "crlf"
  <2>1. d = Finish(c)
    BY <1>8 DEF ReadPiece
  <2>. QED  BY <1>8, <2>1, FinishReader
<1>9. CASE /\ ~(c.state = "idle" /\ p.piece = "head" /\ Len(c.done) < Len(list))
           /\ ~(c.state \in {"bytes", "chunk"} /\ p.piece = "data" /\ p.bytes <= c.left)
           /\ ~(c.state = "size" /\ p.piece = "size")
           /\ ~(c.state = "chunkEnd" /\ p.piece = "crlf")
           /\ ~(c.state = "lastChunk" /\ p.piece = "crlf")
  <2>1. d = [c EXCEPT !.state = "confused"]
    BY <1>9 DEF ReadPiece
  <2>2. like(At("confused", c.head, c.left, c.body, c.done))
        /\ At("confused", c.head, c.left, c.body, c.done).state = "confused"
    BY <1>1, <1>2, AtIs
  <2>. QED  BY <1>3, <2>1, <2>2
<1>. QED  BY <1>4, <1>5, <1>6, <1>7, <1>8, <1>9

(* What a client understood it understands as well when it asks for more.  *)
LEMMA AsksMore ==
  ASSUME NEW list, IsList(list), NEW x, NEW c, Reader(c), NEW p, Proper(p),
         ReadPiece(list, c, p).state # "confused"
  PROVE  ReadPiece(Append(list, x), c, p) = ReadPiece(list, c, p)
<1> DEFINE more == Append(list, x)
           n == Len(c.done)
<1>1. c = At(c.state, c.head, c.left, c.body, c.done) /\ IsList(c.done)
  BY DEF Reader
<1>2. /\ n \in Nat /\ Len(list) \in Nat /\ Len(more) = Len(list) + 1
      /\ \A k \in 1..Len(list) : more[k] = list[k]
  <2>1. n \in Nat
    BY <1>1, ListAppend
  <2> DEFINE S == ToSet(list) \cup {x}
  <2>2. list \in Seq(S) /\ x \in S
    <3> DEFINE U == ToSet(list)
    <3>1. list \in Seq(U)
      BY DEF IsList
    <3> HIDE DEF U
    <3>2. list \in Seq(U \cup {x})
      BY <3>1
    <3>. QED  BY <3>2 DEF U
  <2> HIDE DEF S, n
  <2>. QED  BY <2>1, <2>2
<1> HIDE DEF more
<1>3. CASE c.state = "idle" /\ p.piece = "head"
  <2>1. CASE n < Len(list)
    <3>1. more[n + 1] = list[n + 1] /\ n < Len(more)
      BY <1>2, <2>1
    <3>2. ReadHead(more, c, p) = ReadHead(list, c, p)
      BY <3>1 DEF ReadHead
    <3>3. ReadPiece(more, c, p) = ReadHead(more, c, p)
      BY <1>3, <3>1 DEF ReadPiece
    <3>4. ReadPiece(list, c, p) = ReadHead(list, c, p)
      BY <1>3, <2>1 DEF ReadPiece
    <3>. QED  BY <3>2, <3>3, <3>4 DEF more
  <2>2. CASE ~(n < Len(list))
    <3>1. ReadPiece(list, c, p) = [c EXCEPT !.state = "confused"]
      BY <1>3, <2>2 DEF ReadPiece
    <3>2. ASSUME NEW s, NEW head, NEW left, NEW body, NEW done
          PROVE  [At(s, head, left, body, done) EXCEPT !.state = "confused"].state = "confused"
      BY DEF At
    <3>. QED  BY <1>1, <3>1, <3>2
  <2>. QED  BY <2>1, <2>2
<1>4. CASE ~(c.state = "idle" /\ p.piece = "head")
  <2>1. ReadPiece(more, c, p) = ReadPiece(list, c, p)
    BY <1>4 DEF ReadPiece
  <2>. QED  BY <2>1 DEF more
<1>. QED  BY <1>3, <1>4

LEMMA PiecesRead ==
  ASSUME NEW list, NEW c, Reader(c), NEW S, \A p \in S : Proper(p), NEW w \in Seq(S)
  PROVE  LET d == ReadOn(list, c, w)
         IN  Reader(d) /\ (c.state = "confused" => d.state = "confused")
<1> DEFINE Good(d) == Reader(d) /\ (c.state = "confused" => d.state = "confused")
           P == {v \in Seq(S) : Good(ReadOn(list, c, v))}
<1>1. << >> \in P
  <2>1. << >> \in Seq(S) /\ ReadOn(list, c, << >>) = c
    BY ReadOnEmpty
  <2>. QED  BY <2>1
<1>2. ASSUME NEW v \in Seq(S), NEW p \in S, v \in P PROVE Append(v, p) \in P
  <2> DEFINE d == ReadOn(list, c, v)
  <2>1. ReadOn(list, c, Append(v, p)) = ReadPiece(list, d, p) /\ Append(v, p) \in Seq(S)
    BY ReadOnAppend
  <2>2. Good(d)
    BY <1>2
  <2> HIDE DEF d
  <2>3. LET e == ReadPiece(list, d, p)
        IN  Reader(e) /\ (d.state = "confused" => e.state = "confused")
    BY <2>2, PieceRead
  <2>. QED  BY <2>1, <2>2, <2>3
<1>3. Seq(S) \subseteq P
  <2> HIDE DEF P
  <2>. QED  BY <1>1, <1>2, Grown
<1>. QED  BY <1>3

LEMMA AsksMoreAndReads ==
  ASSUME NEW list, IsList(list), NEW x, NEW c, Reader(c),
         NEW S, \A p \in S : Proper(p), NEW w \in Seq(S),
         ReadOn(list, c, w).state # "confused"
  PROVE  ReadOn(Append(list, x), c, w) = ReadOn(list, c, w)
<1> DEFINE more == Append(list, x)
           P == {v \in Seq(S) : ReadOn(list, c, v).state # "confused" =>
                                  ReadOn(more, c, v) = ReadOn(list, c, v)}
<1>1. << >> \in P
  <2>1. << >> \in Seq(S) /\ ReadOn(list, c, << >>) = c /\ ReadOn(more, c, << >>) = c
    BY ReadOnEmpty
  <2>. QED  BY <2>1
<1>2. ASSUME NEW v \in Seq(S), NEW p \in S, v \in P PROVE Append(v, p) \in P
  <2> DEFINE d == ReadOn(list, c, v)
             e == ReadOn(more, c, v)
  <2>1. /\ ReadOn(list, c, Append(v, p)) = ReadPiece(list, d, p)
        /\ ReadOn(more, c, Append(v, p)) = ReadPiece(more, e, p)
        /\ Append(v, p) \in Seq(S)
    BY ReadOnAppend
  <2>2. Reader(d) /\ Proper(p)
    BY PiecesRead
  <2>3. d.state # "confused" => e = d
    BY <1>2
  <2> HIDE DEF d, e
  <2>4. SUFFICES ASSUME ReadPiece(list, d, p).state # "confused"
                 PROVE  ReadPiece(more, e, p) = ReadPiece(list, d, p)
    BY <2>1
  <2>5. d.state # "confused"
    BY <2>2, <2>4, PieceRead
  <2>6. ReadPiece(more, d, p) = ReadPiece(list, d, p)
    BY <2>2, <2>4, AsksMore
  <2>. QED  BY <2>3, <2>5, <2>6
<1>3. Seq(S) \subseteq P
  <2> HIDE DEF P
  <2>. QED  BY <1>1, <1>2, Grown
<1> HIDE DEF more
<1>. QED  BY <1>3 DEF more

(* A response that a client would understand is never taken for a whole    *)
(* one before its end: it has one head only, and a client that is not      *)
(* within a response takes nothing else.                                   *)
OneHead(pieces) == \A i \in 1..Len(pieces) : i > 1 => pieces[i].piece # "head"

LEMMA FrontRead ==
  ASSUME NEW list, NEW c, Reader(c), NEW S, \A p \in S : Proper(p), NEW pieces \in Seq(S),
         OneHead(pieces), ReadOn(list, c, pieces).state # "confused",
         NEW n \in 0..(Len(pieces) - 1)
  PROVE  LET d == ReadOn(list, c, SubSeq(pieces, 1, n))
         IN  /\ Reader(d) /\ d.state # "confused" /\ d.done = c.done
             /\ ReadPiece(list, d, pieces[n + 1]).state # "confused"
<1> DEFINE l == Len(pieces)
           f(k) == SubSeq(pieces, 1, k)
           d(k) == ReadOn(list, c, f(k))
<1>1. l \in Nat
  OBVIOUS
<1>2. \A k \in 0..l : f(k) \in Seq(S)
  OBVIOUS
<1>3. \A k \in 0..l : Reader(d(k)) /\ d(k).state # "confused"
  <2> TAKE k \in 0..l
  <2> DEFINE front == f(k)
             rest == SubSeq(pieces, k + 1, l)
  <2>1. front \in Seq(S) /\ rest \in Seq(S) /\ pieces = front \o rest
    BY FrontBegins
  <2> HIDE DEF front, rest
  <2> DEFINE e == ReadOn(list, c, front)
  <2>2. ReadOn(list, c, pieces) = ReadOn(list, e, rest)
    BY <2>1, ReadOnConcat
  <2>3. Reader(e)
    BY <2>1, PiecesRead
  <2> HIDE DEF e
  <2>4. e.state = "confused" => ReadOn(list, e, rest).state = "confused"
    BY <2>1, <2>3, PiecesRead
  <2>5. e.state # "confused"
    BY <2>2, <2>4
  <2>. QED  BY <2>3, <2>5 DEF e, front
<1>4. ASSUME NEW k \in Nat, k < l
      PROVE  d(k + 1) = ReadPiece(list, d(k), pieces[k + 1]) /\ pieces[k + 1] \in S
  <2> DEFINE v == f(k)
             p == pieces[k + 1]
  <2>1. v \in Seq(S) /\ p \in S /\ f(k + 1) = Append(v, p)
    BY <1>1, <1>4
  <2> HIDE DEF v, p
  <2>2. ReadOn(list, c, Append(v, p)) = ReadPiece(list, ReadOn(list, c, v), p)
    BY <2>1, ReadOnAppend
  <2>. QED  BY <2>1, <2>2 DEF v, p
<1>5. d(0) = c
  <2>1. f(0) = << >>
    OBVIOUS
  <2>. QED  BY <2>1, ReadOnEmpty
<1> HIDE DEF d
<1> DEFINE T == {k \in Nat : k < l => d(k).done = c.done}
<1>6. 0 \in T
  BY <1>5
<1>7. ASSUME NEW k \in Nat, k \in T PROVE k + 1 \in T
  <2> SUFFICES ASSUME k + 1 < l PROVE d(k + 1).done = c.done
    OBVIOUS
  <2>1. d(k).done = c.done /\ k \in 0..l /\ k < l
    BY <1>1, <1>7
  <2>2. d(k + 1) = ReadPiece(list, d(k), pieces[k + 1]) /\ Proper(pieces[k + 1]) /\ Reader(d(k))
    BY <1>3, <1>4, <2>1
  <2>3. d(k + 1).done = c.done \/ d(k + 1).state = "idle"
    BY <2>1, <2>2, PieceRead
  <2>4. CASE d(k + 1).state = "idle"
    <3>1. k + 1 \in Nat /\ k + 1 < l /\ k + 1 \in 0..l /\ (k + 1) + 1 \in 0..l
      BY <1>1
    <3>2. /\ d((k + 1) + 1) = ReadPiece(list, d(k + 1), pieces[(k + 1) + 1])
          /\ Proper(pieces[(k + 1) + 1]) /\ Reader(d(k + 1))
      BY <1>3, <1>4, <3>1
    <3>3. pieces[(k + 1) + 1].piece # "head"
      <4>1. (k + 1) + 1 \in 1..l /\ (k + 1) + 1 > 1
        BY <3>1
      <4>. QED  BY <4>1 DEF OneHead
    <3>4. d((k + 1) + 1).state = "confused"
      BY <2>4, <3>2, <3>3, PieceRead
    <3>. QED  BY <1>3, <3>1, <3>4
  <2>. QED  BY <2>3, <2>4
<1>8. Nat \subseteq T
  <2> HIDE DEF T
  <2>. QED  BY <1>6, <1>7, Induction
<1>9. n \in Nat /\ n < l /\ n \in 0..l /\ n + 1 \in 0..l
  BY <1>1
<1>10. d(n).done = c.done
  BY <1>8, <1>9
<1>11. ReadPiece(list, d(n), pieces[n + 1]).state # "confused"
  BY <1>3, <1>4, <1>9
<1>. QED  BY <1>3, <1>9, <1>10, <1>11 DEF d

(* Nor is it when a piece of data is written in part.                      *)
LEMMA CutRead ==
  ASSUME NEW list, NEW c, Reader(c), NEW S, \A p \in S : Proper(p), NEW pieces \in Seq(S),
         pieces # << >>, pieces[1].piece # "data",
         \A b \in Nat \ {0} : [piece |-> "data", bytes |-> b] \in S,
         OneHead(pieces), ReadOn(list, c, pieces).state # "confused",
         NEW sent \in Cuts(pieces)
  PROVE  /\ sent \in Seq(S)
         /\ ReadOn(list, c, sent).state # "confused"
         /\ ReadOn(list, c, sent).done = c.done
<1> DEFINE l == Len(pieces)
<1>1. l \in Nat /\ l # 0
  OBVIOUS
<1>2. CASE sent \in {SubSeq(pieces, 1, n) : n \in 0..(l - 1)}
  <2>1. PICK n \in 0..(l - 1) : sent = SubSeq(pieces, 1, n)
    BY <1>2
  <2>2. sent \in Seq(S)
    BY <2>1
  <2>. QED  BY <2>1, <2>2, FrontRead
<1>3. CASE sent \in {SubSeq(pieces, 1, n - 1) \o Data(pieces[n].bytes - 1) :
                       n \in {k \in DOMAIN pieces : pieces[k].piece = "data"}}
  <2>1. PICK n \in DOMAIN pieces : /\ pieces[n].piece = "data"
                                   /\ sent = SubSeq(pieces, 1, n - 1) \o Data(pieces[n].bytes - 1)
    BY <1>3
  <2> DEFINE m == n - 1
             front == SubSeq(pieces, 1, m)
             p == pieces[n]
             b == p.bytes - 1
             q == [piece |-> "data", bytes |-> b]
             d == ReadOn(list, c, front)
  <2>2. m \in 0..(l - 1) /\ n = m + 1 /\ n \in 1..l /\ n # 1
    BY <1>1, <2>1
  <2>3. front \in Seq(S) /\ p \in S /\ Proper(p)
    BY <2>2
  <2>4. /\ Reader(d) /\ d.state # "confused" /\ d.done = c.done
        /\ ReadPiece(list, d, pieces[m + 1]).state # "confused"
    <3> HIDE DEF m
    <3>. QED  BY <2>2, FrontRead
  <2>5. ReadPiece(list, d, p).state # "confused" /\ p.piece = "data"
    BY <2>1, <2>2, <2>4
  <2>6. p.bytes \in Nat \ {0}
    BY <2>3, <2>5 DEF Proper
  <2>7. sent = front \o Data(b)
    BY <2>1
  <2> HIDE DEF d, front, p
  <2>8. CASE b = 0
    <3>1. sent = front
      BY <2>3, <2>8, <2>7 DEF Data
    <3>. QED  BY <2>3, <2>4, <3>1 DEF d
  <2>9. CASE b # 0
    <3>1. b \in Nat \ {0}
      BY <2>6, <2>9
    <3>2. q \in S
      BY <3>1
    <3>3. sent = Append(front, q)
      <4> HIDE DEF q
      <4>1. Data(b) = <<q>>
        BY <2>9 DEF Data, q
      <4> HIDE DEF b
      <4>. QED  BY <2>3, <2>7, <3>2, <4>1
    <3>4. d = At(d.state, d.head, d.left, d.body, d.done) /\ d.left \in Nat
      BY <2>4 DEF Reader
    <3>5. d.state \in {"bytes", "chunk"} /\ p.bytes <= d.left
      <4>1. CASE ~(d.state \in {"bytes", "chunk"} /\ p.bytes <= d.left)
        <5>1. ReadPiece(list, d, p) = [d EXCEPT !.state = "confused"]
          BY <2>5, <4>1 DEF ReadPiece
        <5>2. ASSUME NEW s, NEW head, NEW left, NEW body, NEW done
              PROVE  [At(s, head, left, body, done) EXCEPT !.state = "confused"].state = "confused"
          BY DEF At
        <5>. QED  BY <2>5, <3>4, <5>1, <5>2
      <4>. QED  BY <4>1
    <3>6. q.piece = "data" /\ q.bytes = b /\ b < d.left
      BY <2>6, <3>1, <3>4, <3>5
    <3> HIDE DEF q, b
    <3>7. ReadPiece(list, d, q) = Took(d, d.left - b, d.body + b)
      BY <3>1, <3>4, <3>5, <3>6 DEF ReadPiece, ReadData, Took
    <3>8. Took(At(d.state, d.head, d.left, d.body, d.done), d.left - b, d.body + b)
            = At(d.state, d.head, d.left - b, d.body + b, d.done)
      BY AtExcept
    <3>9. ReadPiece(list, d, q).state = d.state /\ ReadPiece(list, d, q).done = d.done
      BY <3>4, <3>7, <3>8, AtIs
    <3>10. ReadOn(list, c, Append(front, q)) = ReadPiece(list, d, q) /\ Append(front, q) \in Seq(S)
      BY <2>3, <3>2, ReadOnAppend DEF d
    <3>. QED  BY <2>4, <3>3, <3>9, <3>10
  <2>. QED  BY <2>8, <2>9
<1>4. sent \in {SubSeq(pieces, 1, n) : n \in 0..(l - 1)}
        \cup {SubSeq(pieces, 1, n - 1) \o Data(pieces[n].bytes - 1) :
                n \in {k \in DOMAIN pieces : pieces[k].piece = "data"}}
  BY DEF Cuts
<1>. QED  BY <1>2, <1>3, <1>4

-----------------------------------------------------------------------------
(* The body of a response, chunk by chunk.                                 *)
DataPiece(n) == [piece |-> "data", bytes |-> n]
BodyPieces == {SizeLine(n) : n \in Nat} \cup {LineEnd} \cup {DataPiece(n) : n \in Nat \ {0}}
Framed(minor) == [n \in Nat |-> IF minor = 1 THEN Chunk(n) ELSE Data(n)]
Frames(minor, s) == FlattenSeq(Map(Framed(minor), s))

LEMMA BodyPiecesAre ==
  /\ \A n \in Nat : SizeLine(n) \in BodyPieces
  /\ LineEnd \in BodyPieces
  /\ \A n \in Nat \ {0} : DataPiece(n) \in BodyPieces
  /\ \A p \in BodyPieces : Proper(p) /\ p.piece # "head"
<1>1. \A n \in Nat : Proper(SizeLine(n)) /\ SizeLine(n).piece # "head"
  BY DEF Proper, SizeLine
<1>2. Proper(LineEnd) /\ LineEnd.piece # "head"
  BY DEF Proper, LineEnd
<1>3. \A n \in Nat \ {0} : Proper(DataPiece(n)) /\ DataPiece(n).piece # "head"
  BY DEF Proper, DataPiece
<1>. QED  BY <1>1, <1>2, <1>3 DEF BodyPieces

LEMMA FramedType ==
  ASSUME NEW minor
  PROVE  /\ Maps(Framed(minor), Nat, Seq(BodyPieces))
         /\ \A n \in Nat : /\ Data(n) \in Seq(BodyPieces) /\ Chunk(n) \in Seq(BodyPieces)
                           /\ n # 0 => Data(n) = <<DataPiece(n)>>
         /\ LastChunk \in Seq(BodyPieces)
<1>1. ASSUME NEW n \in Nat
      PROVE  /\ Data(n) \in Seq(BodyPieces) /\ Chunk(n) \in Seq(BodyPieces)
             /\ n # 0 => Data(n) = <<DataPiece(n)>>
  <2>1. n # 0 => Data(n) = <<DataPiece(n)>>
    BY DEF Data, DataPiece
  <2>2. n = 0 => Data(n) = << >>
    BY DEF Data
  <2>3. n # 0 => DataPiece(n) \in BodyPieces
    BY BodyPiecesAre
  <2>4. Data(n) \in Seq(BodyPieces)
    <3> DEFINE p == DataPiece(n)
               S == BodyPieces
    <3>1. CASE n = 0
      <4>1. << >> \in Seq(S)
        BY EmptySeq
      <4>. QED  BY <2>2, <3>1, <4>1
    <3>2. CASE n # 0
      <4>1. Data(n) = <<p>> /\ p \in S
        BY <2>1, <2>3, <3>2
      <4> HIDE DEF p, S
      <4>2. <<p>> \in Seq(S)
        BY <4>1
      <4>. QED  BY <4>1, <4>2 DEF S
    <3>. QED  BY <3>1, <3>2
  <2>5. SizeLine(n) \in BodyPieces /\ LineEnd \in BodyPieces
    BY BodyPiecesAre
  <2>6. Chunk(n) \in Seq(BodyPieces)
    BY <2>4, <2>5 DEF Chunk
  <2>. QED  BY <2>1, <2>4, <2>6
<1>2. LastChunk \in Seq(BodyPieces)
  <2>1. SizeLine(0) \in BodyPieces /\ LineEnd \in BodyPieces
    BY BodyPiecesAre
  <2>. QED  BY <2>1 DEF LastChunk
<1>3. \A n \in Nat : (IF minor = 1 THEN Chunk(n) ELSE Data(n)) \in Seq(BodyPieces)
  BY <1>1
<1>4. Maps(Framed(minor), Nat, Seq(BodyPieces))
  BY <1>3 DEF Maps, Framed
<1>. QED  BY <1>1, <1>2, <1>4

LEMMA FramesGrow ==
  ASSUME NEW minor, NEW s \in Seq(Nat), NEW n \in Nat
  PROVE  /\ Frames(minor, << >>) = << >>
         /\ Frames(minor, s) \in Seq(BodyPieces)
         /\ Framed(minor)[n] \in Seq(BodyPieces)
         /\ Framed(minor)[n] = IF minor = 1 THEN Chunk(n) ELSE Data(n)
         /\ Frames(minor, Append(s, n)) = Frames(minor, s) \o Framed(minor)[n]
<1> DEFINE m == Framed(minor)
           S == BodyPieces
           ss == Map(m, s)
           x == m[n]
<1>1. Maps(m, Nat, Seq(S))
  BY FramedType
<1>2. x = IF minor = 1 THEN Chunk(n) ELSE Data(n)
  BY DEF Framed
<1>3. ss \in Seq(Seq(S))
  <2> HIDE DEF m, S
  <2>. QED  BY <1>1, MapType
<1>4. Map(m, Append(s, n)) = Append(ss, x)
  <2> HIDE DEF m, S
  <2>. QED  BY <1>1, MapAppend
<1>5. x \in Seq(S)
  <2> HIDE DEF m, S
  <2>. QED  BY <1>1 DEF Maps
<1>6. FlattenSeq(ss) \in Seq(S) /\ FlattenSeq(Append(ss, x)) = FlattenSeq(ss) \o x
  <2> HIDE DEF ss, x, S
  <2>. QED  BY <1>3, <1>5, FlattenAppend
<1>7. Frames(minor, << >>) = << >>
  BY MapEmpty, FlattenEmpty DEF Frames
<1> HIDE DEF m, S, x, ss
<1>. QED  BY <1>2, <1>4, <1>5, <1>6, <1>7 DEF Frames, m, S, x, ss

LEMMA BodyIs ==
  ASSUME NEW minor, NEW plan, plan.chunks \in Seq(Nat)
  PROVE  Body(minor, plan) =
           IF plan.mode = "immediate" THEN Data(plan.body)
           ELSE Frames(minor, plan.chunks) \o (IF minor = 1 THEN LastChunk ELSE << >>)
<1> DEFINE c == plan.chunks
           pieces == [i \in DOMAIN c |-> IF minor = 1 THEN Chunk(c[i]) ELSE Data(c[i])]
<1>1. \A i \in DOMAIN c : c[i] \in Nat
  OBVIOUS
<1>2. \A i \in DOMAIN c : Framed(minor)[c[i]] = IF minor = 1 THEN Chunk(c[i]) ELSE Data(c[i])
  BY <1>1 DEF Framed
<1>3. pieces = Map(Framed(minor), c)
  BY <1>2 DEF Map
<1>4. Body(minor, plan) =
        IF plan.mode = "immediate" THEN Data(plan.body)
        ELSE FlattenSeq(pieces) \o (IF minor = 1 THEN LastChunk ELSE << >>)
  BY DEF Body
<1> HIDE DEF pieces
<1>. QED  BY <1>3, <1>4 DEF Frames

LEMMA ReadOne ==
  ASSUME NEW list, NEW c, NEW p
  PROVE  ReadOn(list, c, <<p>>) = ReadPiece(list, c, p)
<1> DEFINE S == {p}
           none == << >>
<1>1. none \in Seq(S) /\ p \in S
  OBVIOUS
<1>2. Append(none, p) = <<p>>
  BY Pair
<1>3. ReadOn(list, c, none) = c
  BY ReadOnEmpty
<1> HIDE DEF S, none
<1>4. ReadOn(list, c, Append(none, p)) = ReadPiece(list, ReadOn(list, c, none), p)
  BY <1>1, ReadOnAppend
<1>. QED  BY <1>2, <1>3, <1>4

LEMMA ReadTwo ==
  ASSUME NEW list, NEW c, NEW p, NEW q
  PROVE  ReadOn(list, c, <<p, q>>) = ReadPiece(list, ReadPiece(list, c, p), q)
<1> DEFINE S == {p, q}
           one == <<p>>
<1>1. one \in Seq(S) /\ q \in S
  OBVIOUS
<1>2. Append(one, q) = <<p, q>>
  BY Pair
<1>3. ReadOn(list, c, one) = ReadPiece(list, c, p)
  BY ReadOne
<1> HIDE DEF S, one
<1>4. ReadOn(list, c, Append(one, q)) = ReadPiece(list, ReadOn(list, c, one), q)
  BY <1>1, ReadOnAppend
<1>. QED  BY <1>2, <1>3, <1>4

(* A chunk is read as its bytes, and the last one ends the response. *)
LEMMA ChunkRead ==
  ASSUME NEW list, NEW head, NEW body \in Nat, NEW done, NEW n \in Nat \ {0}
  PROVE  ReadOn(list, At("size", head, 0, body, done), Chunk(n)) =
           At("size", head, 0, body + n, done)
<1> DEFINE p == SizeLine(n)
           q == DataPiece(n)
           r == LineEnd
           c == At("size", head, 0, body, done)
<1>1. Chunk(n) = <<p, q>> \o <<r>>
  <2>1. Data(n) = <<q>>
    BY FramedType
  <2> HIDE DEF q, p, r
  <2>2. Chunk(n) = <<p>> \o <<q>> \o <<r>>
    BY <2>1 DEF Chunk, p, r
  <2>3. <<p>> \o <<q>> = <<p, q>>
    BY Pair
  <2>. QED  BY <2>2, <2>3
<1>2. ReadPiece(list, c, p) = At("chunk", head, n, body, done)
  BY SizeAt
<1>3. ReadPiece(list, At("chunk", head, n, body, done), q) = At("chunkEnd", head, 0, body + n, done)
  <2>1. q.piece = "data" /\ q.bytes = n
    BY DEF DataPiece
  <2> HIDE DEF q
  <2>. QED  BY <2>1, DataAt
<1>4. ReadPiece(list, At("chunkEnd", head, 0, body + n, done), r) = At("size", head, 0, body + n, done)
  BY EndAt
<1> HIDE DEF p, q, r, c
<1> DEFINE v == <<p, q>>
           w == <<r>>
<1>5. ReadOn(list, c, v) = At("chunkEnd", head, 0, body + n, done)
  BY <1>2, <1>3, ReadTwo
<1>6. ReadOn(list, At("chunkEnd", head, 0, body + n, done), w) = At("size", head, 0, body + n, done)
  BY <1>4, ReadOne
<1> DEFINE S == {p, q, r}
<1>7. v \in Seq(S) /\ w \in Seq(S)
  OBVIOUS
<1> HIDE DEF S, v, w
<1>8. ReadOn(list, c, v \o w) = ReadOn(list, ReadOn(list, c, v), w)
  BY <1>7, ReadOnConcat
<1>. QED  BY <1>1, <1>5, <1>6, <1>8 DEF c, v, w

LEMMA ChunksRead ==
  ASSUME NEW list, NEW head, NEW done, NEW chunks \in Seq(Nat \ {0})
  PROVE  ReadOn(list, At("size", head, 0, 0, done), Frames(1, chunks) \o LastChunk) =
           At("idle", head, 0, 0, Append(done, Whole(head, Total(chunks))))
<1> DEFINE N == Nat \ {0}
           c == At("size", head, 0, 0, done)
           P == {s \in Seq(N) : /\ s \in Seq(Nat) /\ Total(s) \in Nat
                                /\ ReadOn(list, c, Frames(1, s)) = At("size", head, 0, Total(s), done)}
<1>1. << >> \in P
  <2>1. Frames(1, << >>) = << >>
    BY MapEmpty, FlattenEmpty DEF Frames
  <2>2. << >> \in Seq(N) /\ << >> \in Seq(Nat) /\ Total(<< >>) = 0
    BY TotalEmpty
  <2>3. ReadOn(list, c, << >>) = c
    BY ReadOnEmpty
  <2> HIDE DEF N
  <2>. QED  BY <2>1, <2>2, <2>3
<1>2. ASSUME NEW s \in Seq(N), NEW n \in N, s \in P PROVE Append(s, n) \in P
  <2>1. /\ s \in Seq(Nat) /\ Total(s) \in Nat
        /\ ReadOn(list, c, Frames(1, s)) = At("size", head, 0, Total(s), done)
    BY <1>2
  <2>2. Append(s, n) \in Seq(N) /\ Append(s, n) \in Seq(Nat) /\ n \in Nat
    BY <2>1
  <2>3. Total(Append(s, n)) = Total(s) + n
    BY <2>1, <2>2, TotalAppend
  <2>4. /\ Frames(1, Append(s, n)) = Frames(1, s) \o Chunk(n)
        /\ Frames(1, s) \in Seq(BodyPieces) /\ Chunk(n) \in Seq(BodyPieces)
    <3> DEFINE minor == 1
    <3>0. minor = 1
      OBVIOUS
    <3> HIDE DEF minor
    <3>1. /\ Frames(minor, s) \in Seq(BodyPieces)
          /\ Framed(minor)[n] \in Seq(BodyPieces)
          /\ Framed(minor)[n] = IF minor = 1 THEN Chunk(n) ELSE Data(n)
          /\ Frames(minor, Append(s, n)) = Frames(minor, s) \o Framed(minor)[n]
      BY <2>1, <2>2, FramesGrow
    <3>2. Framed(minor)[n] = Chunk(n)
      BY <3>0, <3>1
    <3>. QED  BY <3>1, <3>2 DEF minor
  <2>5. ReadOn(list, c, Frames(1, s) \o Chunk(n)) = ReadOn(list, ReadOn(list, c, Frames(1, s)), Chunk(n))
    BY <2>4, ReadOnConcat
  <2> DEFINE t == Total(s)
  <2> HIDE DEF t
  <2>6. ReadOn(list, At("size", head, 0, t, done), Chunk(n)) = At("size", head, 0, t + n, done)
    BY <2>1, ChunkRead DEF t
  <2>7. Total(Append(s, n)) \in Nat
    BY <2>1, <2>2, <2>3
  <2>8. ReadOn(list, c, Frames(1, Append(s, n))) = At("size", head, 0, Total(Append(s, n)), done)
    BY <2>1, <2>3, <2>4, <2>5, <2>6 DEF t
  <2>. QED  BY <2>2, <2>7, <2>8
<1>3. chunks \in P
  <2>1. Seq(N) \subseteq P
    <3> HIDE DEF P, N
    <3>. QED  BY <1>1, <1>2, Grown
  <2>. QED  BY <2>1
<1> DEFINE T == Total(chunks)
           w == Frames(1, chunks)
<1>4. chunks \in Seq(Nat) /\ ReadOn(list, c, w) = At("size", head, 0, T, done)
  BY <1>3
<1>5. w \in Seq(BodyPieces) /\ LastChunk \in Seq(BodyPieces)
  <2>1. 0 \in Nat
    OBVIOUS
  <2>. QED  BY <1>4, <2>1, FramesGrow, FramedType
<1> HIDE DEF T, w, c
<1>6. ReadOn(list, c, w \o LastChunk) = ReadOn(list, At("size", head, 0, T, done), LastChunk)
  BY <1>4, <1>5, ReadOnConcat
<1>7. ReadPiece(list, At("size", head, 0, T, done), SizeLine(0)) = At("lastChunk", head, 0, T, done)
  BY ZeroAt
<1>8. ReadPiece(list, At("lastChunk", head, 0, T, done), LineEnd) =
        At("idle", head, 0, 0, Append(done, Whole(head, T)))
  BY LastAt, FinishAt
<1> DEFINE at == At("size", head, 0, T, done)
           p == SizeLine(0)
           q == LineEnd
<1> HIDE DEF at, p, q
<1>9. ReadOn(list, at, <<p, q>>) = ReadPiece(list, ReadPiece(list, at, p), q)
  BY ReadTwo
<1>. QED  BY <1>6, <1>7, <1>8, <1>9 DEF LastChunk, c, T, w, at, p, q

LEMMA DataWithin ==
  ASSUME NEW list, NEW head, NEW left \in Nat, NEW body \in Nat, NEW done, NEW n \in Nat, n < left
  PROVE  ReadPiece(list, At("bytes", head, left, body, done), DataPiece(n)) =
           At("bytes", head, left - n, body + n, done)
<1> DEFINE c == At("bytes", head, left, body, done)
           p == DataPiece(n)
<1>1. c.state = "bytes" /\ c.left = left /\ c.body = body
  BY AtIs
<1>2. p.piece = "data" /\ p.bytes = n
  BY DEF DataPiece
<1>3. Took(c, left - n, body + n) = At("bytes", head, left - n, body + n, done)
  BY AtExcept
<1> HIDE DEF c, p
<1>4. ReadPiece(list, c, p) = ReadData(c, n)
  BY <1>1, <1>2 DEF ReadPiece
<1>5. ReadData(c, n) = Took(c, left - n, body + n)
  BY <1>1 DEF ReadData, Took
<1>. QED  BY <1>3, <1>4, <1>5 DEF c, p

LEMMA DataWhole ==
  ASSUME NEW list, NEW head, NEW body \in Nat, NEW done, NEW n \in Nat
  PROVE  ReadPiece(list, At("bytes", head, n, body, done), DataPiece(n)) =
           At("idle", head, 0, 0, Append(done, Whole(head, body + n)))
<1> DEFINE p == DataPiece(n)
<1>1. p.piece = "data" /\ p.bytes = n
  BY DEF DataPiece
<1> HIDE DEF p
<1>2. ReadPiece(list, At("bytes", head, n, body, done), p) =
        Finish(At("bytes", head, 0, body + p.bytes, done))
  BY <1>1, DataAt
<1>. QED  BY <1>1, <1>2, FinishAt DEF p

(* Bytes that are told beforehand are read until all are there. *)
LEMMA BytesRead ==
  ASSUME NEW list, NEW head, NEW done, NEW length \in Nat,
         NEW chunks \in Seq(Nat), Total(chunks) <= length
  PROVE  LET sofar(t) == IF t < length THEN At("bytes", head, length - t, t, done)
                         ELSE At("idle", head, 0, 0, Append(done, Whole(head, length)))
         IN  ReadOn(list, sofar(0), Frames(0, chunks)) = sofar(Total(chunks))
<1> DEFINE ended == At("idle", head, 0, 0, Append(done, Whole(head, length)))
           sofar(t) == IF t < length THEN At("bytes", head, length - t, t, done) ELSE ended
           c == sofar(0)
           P == {s \in Seq(Nat) : Total(s) <= length =>
                                    ReadOn(list, c, Frames(0, s)) = sofar(Total(s))}
<1>1. << >> \in P
  <2>1. Frames(0, << >>) = << >>
    BY MapEmpty, FlattenEmpty DEF Frames
  <2>2. << >> \in Seq(Nat) /\ Total(<< >>) = 0
    BY TotalEmpty
  <2>3. ReadOn(list, c, << >>) = c
    BY ReadOnEmpty
  <2> HIDE DEF sofar
  <2>. QED  BY <2>1, <2>2, <2>3
<1>2. ASSUME NEW s \in Seq(Nat), NEW n \in Nat, s \in P PROVE Append(s, n) \in P
  <2> DEFINE t == Total(s)
  <2>1. t \in Nat /\ Total(Append(s, n)) = t + n /\ Append(s, n) \in Seq(Nat)
    BY TotalAppend
  <2>2. SUFFICES ASSUME t + n <= length
                 PROVE  ReadOn(list, c, Frames(0, Append(s, n))) = sofar(t + n)
    BY <2>1
  <2>3. ReadOn(list, c, Frames(0, s)) = sofar(t)
    BY <1>2, <2>1, <2>2
  <2>4. /\ Frames(0, Append(s, n)) = Frames(0, s) \o Data(n)
        /\ Frames(0, s) \in Seq(BodyPieces) /\ Data(n) \in Seq(BodyPieces)
    <3> DEFINE minor == 0
    <3>0. minor # 1
      OBVIOUS
    <3> HIDE DEF minor
    <3>1. /\ Frames(minor, s) \in Seq(BodyPieces)
          /\ Framed(minor)[n] \in Seq(BodyPieces)
          /\ Framed(minor)[n] = IF minor = 1 THEN Chunk(n) ELSE Data(n)
          /\ Frames(minor, Append(s, n)) = Frames(minor, s) \o Framed(minor)[n]
      BY FramesGrow
    <3>2. Framed(minor)[n] = Data(n)
      BY <3>0, <3>1
    <3>. QED  BY <3>1, <3>2 DEF minor
  <2> DEFINE w == Frames(0, s)
  <2> HIDE DEF c, w, t
  <2>5. ReadOn(list, c, w \o Data(n)) = ReadOn(list, sofar(t), Data(n))
    BY <2>3, <2>4, ReadOnConcat DEF w
  <2>6. ReadOn(list, sofar(t), Data(n)) = sofar(t + n)
    <3>1. CASE n = 0
      <4>1. Data(n) = << >> /\ t + n = t
        BY <2>1, <3>1 DEF Data
      <4> HIDE DEF sofar
      <4>. QED  BY <4>1, ReadOnEmpty
    <3>2. CASE n # 0
      <4>1. Data(n) = <<DataPiece(n)>>
        BY <3>2, FramedType
      <4>2. DataPiece(n).piece = "data" /\ DataPiece(n).bytes = n
        BY DEF DataPiece
      <4> DEFINE p == DataPiece(n)
                 left == length - t
      <4>3. left \in Nat /\ n <= left /\ sofar(t) = At("bytes", head, left, t, done)
        BY <2>1, <2>2, <3>2
      <4>4. ReadOn(list, sofar(t), <<p>>) = ReadPiece(list, sofar(t), p)
        <5> DEFINE d == sofar(t)
        <5> HIDE DEF d, p
        <5>1. ReadOn(list, d, <<p>>) = ReadPiece(list, d, p)
          BY ReadOne
        <5>. QED  BY <5>1 DEF d
      <4> HIDE DEF p, left, sofar
      <4>5. CASE n < left
        <5>1. ReadPiece(list, At("bytes", head, left, t, done), p) =
                At("bytes", head, left - n, t + n, done)
          BY <2>1, <4>3, <4>5, DataWithin DEF p
        <5>2. t + n < length /\ left - n = length - (t + n)
          BY <2>1, <4>5 DEF left
        <5>. QED  BY <4>1, <4>3, <4>4, <5>1, <5>2 DEF p, sofar
      <4>6. CASE n = left
        <5>1. ReadPiece(list, At("bytes", head, n, t, done), p) =
                At("idle", head, 0, 0, Append(done, Whole(head, t + n)))
          BY <2>1, DataWhole DEF p
        <5>2. t + n = length /\ ~(t + n < length)
          BY <2>1, <4>6 DEF left
        <5>3. sofar(t + n) = ended
          <6> HIDE DEF ended
          <6>. QED  BY <5>2 DEF sofar
        <5>. QED  BY <4>1, <4>3, <4>4, <4>6, <5>1, <5>2, <5>3 DEF p
      <4>. QED  BY <4>3, <4>5, <4>6
    <3>. QED  BY <3>1, <3>2
  <2>. QED  BY <2>4, <2>5, <2>6 DEF w
<1>3. Seq(Nat) \subseteq P
  <2> HIDE DEF P
  <2>. QED  BY <1>1, <1>2, Grown
<1>. QED  BY <1>3

-----------------------------------------------------------------------------
(* Sizes.                                                                  *)
LEMMA TotalConcat ==
  ASSUME NEW s \in Seq(Nat), NEW t \in Seq(Nat)
  PROVE  Total(s \o t) = Total(s) + Total(t)
<1> DEFINE P == {r \in Seq(Nat) : Total(s \o r) = Total(s) + Total(r)}
<1>1. << >> \in P
  <2>1. s \o << >> = s /\ << >> \in Seq(Nat)
    OBVIOUS
  <2>2. Total(<< >>) = 0 /\ Total(s) \in Nat
    BY TotalEmpty, TotalType
  <2>. QED  BY <2>1, <2>2
<1>2. ASSUME NEW r \in Seq(Nat), NEW n \in Nat, r \in P PROVE Append(r, n) \in P
  <2> DEFINE u == s \o r
  <2>1. s \o Append(r, n) = Append(u, n) /\ u \in Seq(Nat) /\ Append(r, n) \in Seq(Nat)
    OBVIOUS
  <2>2. Total(u) = Total(s) + Total(r)
    BY <1>2
  <2> HIDE DEF u
  <2>3. Total(Append(u, n)) = Total(u) + n /\ Total(Append(r, n)) = Total(r) + n
    BY <2>1, TotalAppend
  <2>4. Total(s) \in Nat /\ Total(r) \in Nat
    BY TotalType
  <2>5. Total(s \o Append(r, n)) = Total(s) + Total(Append(r, n))
    BY <2>1, <2>2, <2>3, <2>4
  <2>. QED  BY <2>1, <2>5
<1>3. Seq(Nat) \subseteq P
  <2> HIDE DEF P
  <2>. QED  BY <1>1, <1>2, Grown
<1>. QED  BY <1>3

LEMMA DigitsType == \A n \in Nat : HexDigits(n) \in Nat
<1> SUFFICES ASSUME NEW n \in Nat PROVE HexDigits(n) \in Nat
  OBVIOUS
<1> DEFINE D == {d \in 1..7 : 16^d <= n}
<1>1. D \subseteq 1..7
  OBVIOUS
<1> HIDE DEF D
<1>2. IsFiniteSet(1..7)
  BY 1 \in Int, 7 \in Int, FS_Interval
<1>3. IsFiniteSet(D)
  BY <1>1, <1>2, FS_Subset
<1>4. Cardinality(D) \in Nat
  BY <1>3, FS_CardinalityType
<1>. QED  BY <1>4 DEF HexDigits, D

LEMMA DigitsOfZero == HexDigits(0) = 1
<1> DEFINE p(d) == 16^d
<1>1. /\ p(1) \in Nat \ {0} /\ p(2) \in Nat \ {0} /\ p(3) \in Nat \ {0} /\ p(4) \in Nat \ {0}
      /\ p(5) \in Nat \ {0} /\ p(6) \in Nat \ {0} /\ p(7) \in Nat \ {0}
  OBVIOUS
<1>2. \A d \in 1..7 : d = 1 \/ d = 2 \/ d = 3 \/ d = 4 \/ d = 5 \/ d = 6 \/ d = 7
  OBVIOUS
<1> HIDE DEF p
<1>3. \A d \in 1..7 : p(d) \in Nat \ {0}
  BY <1>1, <1>2
<1>4. {d \in 1..7 : p(d) <= 0} = {}
  BY <1>3
<1>5. HexDigits(0) = 1 + Cardinality({d \in 1..7 : p(d) <= 0})
  BY DEF HexDigits, p
<1>. QED  BY <1>4, <1>5, FS_EmptySet

(* The bytes of pieces. *)
Sized(S) == \A p \in S : p.bytes \in Nat
BytesOf(S) == [p \in S |-> p.bytes]

LEMMA WireSizeConcat ==
  ASSUME NEW S, Sized(S), NEW v \in Seq(S), NEW w \in Seq(S)
  PROVE  WireSize(v) \in Nat /\ WireSize(v \o w) = WireSize(v) + WireSize(w)
<1> DEFINE m == BytesOf(S)
<1>1. Maps(m, S, Nat)
  BY DEF Maps, Sized, BytesOf
<1>2. ASSUME NEW u \in Seq(S) PROVE WireSize(u) = Total(Map(m, u)) /\ Map(m, u) \in Seq(Nat)
  <2>1. \A i \in DOMAIN u : u[i] \in S
    OBVIOUS
  <2>2. Map(m, u) = [i \in DOMAIN u |-> u[i].bytes]
    BY <2>1 DEF Map, BytesOf
  <2> HIDE DEF m
  <2>3. Map(m, u) \in Seq(Nat)
    BY <1>1, MapType
  <2>. QED  BY <2>2, <2>3 DEF WireSize
<1> HIDE DEF m
<1>3. Map(m, v \o w) = Map(m, v) \o Map(m, w)
  BY <1>1, MapConcat
<1> DEFINE u == v \o w
<1>4. u \in Seq(S)
  OBVIOUS
<1> HIDE DEF u
<1>5. WireSize(u) = Total(Map(m, u))
  BY <1>2, <1>4
<1> DEFINE a == Map(m, v)
           b == Map(m, w)
<1>6. a \in Seq(Nat) /\ b \in Seq(Nat) /\ WireSize(v) = Total(a) /\ WireSize(w) = Total(b)
  BY <1>2
<1> HIDE DEF a, b
<1>7. Total(a \o b) = Total(a) + Total(b) /\ Total(a) \in Nat
  BY <1>6, TotalConcat, TotalType
<1>. QED  BY <1>3, <1>5, <1>6, <1>7 DEF u, a, b

LEMMA WireSizeFew ==
  ASSUME NEW p, p.bytes \in Nat
  PROVE  WireSize(<<p>>) = p.bytes /\ WireSize(<< >>) = 0
<1>1. [i \in DOMAIN << >> |-> << >>[i].bytes] = << >>
  OBVIOUS
<1>2. WireSize(<< >>) = 0
  <2>1. DOMAIN << >> = {}
    OBVIOUS
  <2>2. [i \in DOMAIN << >> |-> << >>[i].bytes] = [i \in {} |-> << >>[i].bytes]
    BY <2>1
  <2>. QED  BY <1>1, TotalEmpty DEF WireSize
<1> DEFINE n == p.bytes
           s == <<p>>
<1>3. [i \in DOMAIN s |-> s[i].bytes] = Append(<< >>, n)
  <2>1. DOMAIN s = 1..1 /\ s[1].bytes = n
    OBVIOUS
  <2>2. Append(<< >>, n) = <<n>>
    BY Pair
  <2> HIDE DEF n, s
  <2>3. [i \in 1..1 |-> s[i].bytes] = <<n>>
    BY <2>1
  <2>. QED  BY <2>1, <2>2, <2>3
<1> HIDE DEF n, s
<1>4. n \in Nat /\ << >> \in Seq(Nat)
  BY DEF n
<1>5. Total(Append(<< >>, n)) = Total(<< >>) + n
  BY <1>4, TotalAppend
<1>6. WireSize(s) = n
  BY <1>3, <1>4, <1>5, TotalEmpty DEF WireSize
<1>. QED  BY <1>2, <1>6 DEF n, s

LEMMA BodyPiecesSized ==
  /\ Sized(BodyPieces)
  /\ \A n \in Nat : SizeLine(n).bytes = HexDigits(n) + 2
  /\ LineEnd.bytes = 2
  /\ \A n \in Nat : DataPiece(n).bytes = n
<1>1. \A n \in Nat : SizeLine(n).bytes = HexDigits(n) + 2 /\ HexDigits(n) + 2 \in Nat
  <2>1. \A n \in Nat : SizeLine(n).bytes = HexDigits(n) + 2
    BY DEF SizeLine
  <2>2. \A n \in Nat : HexDigits(n) + 2 \in Nat
    BY DigitsType
  <2>. QED  BY <2>1, <2>2
<1>2. LineEnd.bytes = 2
  BY DEF LineEnd
<1>3. \A n \in Nat : DataPiece(n).bytes = n
  BY DEF DataPiece
<1>4. Sized(BodyPieces)
  <2> SUFFICES ASSUME NEW p \in BodyPieces PROVE p.bytes \in Nat
    BY DEF Sized
  <2>1. \/ \E n \in Nat : p = SizeLine(n)
        \/ p = LineEnd
        \/ \E n \in Nat : p = DataPiece(n)
    BY DEF BodyPieces
  <2>. QED  BY <1>1, <1>2, <1>3, <2>1
<1>. QED  BY <1>1, <1>2, <1>3, <1>4

(* What the response writer counts is what it then sends. *)
FrameSize(minor) == [n \in Nat |-> IF minor = 1 THEN HexDigits(n) + 2 + n + 2 ELSE n]

LEMMA FrameSizeIs ==
  ASSUME NEW minor
  PROVE  /\ Maps(FrameSize(minor), Nat, Nat)
         /\ \A n \in Nat : /\ FrameSize(minor)[n] \in Nat
                           /\ WireSize(Framed(minor)[n]) = FrameSize(minor)[n]
<1>1. \A n \in Nat : (IF minor = 1 THEN HexDigits(n) + 2 + n + 2 ELSE n) \in Nat
  <2> SUFFICES ASSUME NEW n \in Nat PROVE (IF minor = 1 THEN HexDigits(n) + 2 + n + 2 ELSE n) \in Nat
    OBVIOUS
  <2>1. HexDigits(n) \in Nat
    BY DigitsType
  <2>. QED  BY <2>1
<1>2. Maps(FrameSize(minor), Nat, Nat)
  BY <1>1 DEF Maps, FrameSize
<1>3. ASSUME NEW n \in Nat PROVE WireSize(Framed(minor)[n]) = FrameSize(minor)[n]
  <2> DEFINE p == SizeLine(n)
             q == DataPiece(n)
             r == LineEnd
             d == Data(n)
  <2>1. p.bytes = HexDigits(n) + 2 /\ p.bytes \in Nat /\ q.bytes = n /\ r.bytes = 2
    <3>1. HexDigits(n) \in Nat
      BY DigitsType
    <3>. QED  BY <3>1, BodyPiecesSized
  <2>2. d \in Seq(BodyPieces) /\ WireSize(d) = n
    <3>1. CASE n = 0
      <4>1. d = << >>
        BY <3>1 DEF Data
      <4> HIDE DEF p
      <4>2. WireSize(<< >>) = 0
        BY <2>1, WireSizeFew
      <4>. QED  BY <3>1, <4>1, <4>2, FramedType
    <3>2. CASE n # 0
      <4>1. d = <<q>>
        BY <3>2, FramedType
      <4> HIDE DEF q
      <4>2. WireSize(<<q>>) = n
        BY <2>1, WireSizeFew
      <4>. QED  BY <4>1, <4>2, FramedType
    <3>. QED  BY <3>1, <3>2
  <2>3. p \in BodyPieces /\ r \in BodyPieces /\ Sized(BodyPieces)
    BY BodyPiecesAre, BodyPiecesSized
  <2> DEFINE v == <<p>>
             w == <<r>>
             S == BodyPieces
  <2> HIDE DEF p, q, r, d, S
  <2>4. v \in Seq(S) /\ w \in Seq(S) /\ d \in Seq(S) /\ Sized(S)
    BY <2>2, <2>3 DEF S
  <2>5. WireSize(v) = HexDigits(n) + 2 /\ WireSize(w) = 2
    BY <2>1, WireSizeFew
  <2> HIDE DEF v, w
  <2> DEFINE vd == v \o d
  <2>6. vd \in Seq(S)
    BY <2>4
  <2>7. WireSize(vd) = HexDigits(n) + 2 + n
    BY <2>2, <2>4, <2>5, WireSizeConcat
  <2> HIDE DEF vd
  <2>8. WireSize(vd \o w) = WireSize(vd) + 2
    BY <2>4, <2>5, <2>6, WireSizeConcat
  <2>9. Chunk(n) = vd \o w
    BY DEF Chunk, vd, v, w, p, d, r
  <2>10. Framed(minor)[n] = IF minor = 1 THEN Chunk(n) ELSE Data(n)
    BY DEF Framed
  <2>11. FrameSize(minor)[n] = IF minor = 1 THEN HexDigits(n) + 2 + n + 2 ELSE n
    BY DEF FrameSize
  <2>. QED  BY <2>2, <2>7, <2>8, <2>9, <2>10, <2>11 DEF d
<1>. QED  BY <1>1, <1>2, <1>3 DEF FrameSize

LEMMA FramesSize ==
  ASSUME NEW minor, NEW s \in Seq(Nat)
  PROVE  WireSize(Frames(minor, s)) = Total(Map(FrameSize(minor), s))
<1> DEFINE m == FrameSize(minor)
           S == BodyPieces
           P == {t \in Seq(Nat) : WireSize(Frames(minor, t)) = Total(Map(m, t))}
<1>1. << >> \in P
  <2>1. Frames(minor, << >>) = << >>
    BY MapEmpty, FlattenEmpty DEF Frames
  <2>2. Map(m, << >>) = << >>
    BY MapEmpty
  <2>3. WireSize(<< >>) = 0
    <3> DEFINE p == LineEnd
    <3>1. p.bytes \in Nat
      BY BodyPiecesSized
    <3> HIDE DEF p
    <3>. QED  BY <3>1, WireSizeFew
  <2> HIDE DEF m
  <2>. QED  BY <2>1, <2>2, <2>3, TotalEmpty
<1>2. ASSUME NEW t \in Seq(Nat), NEW n \in Nat, t \in P PROVE Append(t, n) \in P
  <2> DEFINE v == Frames(minor, t)
             w == Framed(minor)[n]
             k == m[n]
             u == Map(m, t)
  <2>1. v \in Seq(S) /\ w \in Seq(S) /\ Frames(minor, Append(t, n)) = v \o w
    BY FramesGrow
  <2>2. WireSize(v) = Total(u)
    BY <1>2
  <2>3. WireSize(w) = k /\ k \in Nat /\ Maps(m, Nat, Nat)
    BY FrameSizeIs
  <2>4. Sized(S)
    BY BodyPiecesSized
  <2> HIDE DEF m, v, w, S
  <2>5. Map(m, Append(t, n)) = Append(u, k) /\ u \in Seq(Nat)
    <3>1. Map(m, Append(t, n)) = Append(u, k)
      BY <2>3, MapAppend
    <3>2. u \in Seq(Nat)
      BY <2>3, MapType
    <3>. QED  BY <3>1, <3>2
  <2>6. WireSize(v \o w) = WireSize(v) + WireSize(w)
    BY <2>1, <2>4, WireSizeConcat
  <2> HIDE DEF k, u
  <2>7. Total(Append(u, k)) = Total(u) + k
    BY <2>3, <2>5, TotalAppend
  <2>8. WireSize(Frames(minor, Append(t, n))) = Total(Map(m, Append(t, n)))
    BY <2>1, <2>2, <2>3, <2>5, <2>6, <2>7
  <2>9. Append(t, n) \in Seq(Nat)
    OBVIOUS
  <2>. QED  BY <2>8, <2>9
<1>3. Seq(Nat) \subseteq P
  <2> HIDE DEF P
  <2>. QED  BY <1>1, <1>2, Grown
<1>. QED  BY <1>3

(* A plan that the writer can frame, and the headers it then has. *)
BodyLength(plan) == IF plan.mode = "immediate" THEN plan.body ELSE Total(plan.chunks)
Chunked(minor, plan) == plan.mode = "ndjson" /\ minor = 1
Fit(plan) ==
  /\ plan.body \in Nat /\ plan.chunks \in Seq(Nat)
  /\ IsFiniteSet(DOMAIN plan.headers) /\ DOMAIN plan.headers \cap Prohibited = {}
  /\ plan.mode \in {"immediate", "ndjson"}
  /\ Bodiless(plan.status) => plan.mode = "immediate" /\ plan.body = 0
  /\ plan.mode = "ndjson" => plan.chunks # << >>

LEMMA FramingIs ==
  ASSUME NEW minor \in {0, 1}, NEW plan, Fit(plan)
  PROVE  /\ Chunked(minor, plan) => Framing(minor, plan) = [x \in {"transfer-encoding"} |-> "chunked"]
         /\ ~Chunked(minor, plan) => Framing(minor, plan) = [x \in {"content-length"} |-> BodyLength(plan)]
<1>1. plan.mode \in {"immediate", "ndjson"}
  BY DEF Fit
<1>2. CASE plan.mode = "immediate"
  BY <1>2 DEF Framing, Chunked, BodyLength
<1>3. CASE plan.mode = "ndjson" /\ minor = 1
  BY <1>3 DEF Framing, Chunked
<1>4. CASE plan.mode = "ndjson" /\ minor = 0
  BY <1>4 DEF Framing, Chunked, BodyLength
<1>. QED  BY <1>1, <1>2, <1>3, <1>4

LEMMA HeadersAre ==
  ASSUME NEW minor \in {0, 1}, NEW plan, Fit(plan)
  PROVE  LET H == ResponseHeaders(minor, plan)
         IN  /\ IsFiniteSet(DOMAIN H)
             /\ Chunked(minor, plan) <=> "transfer-encoding" \in DOMAIN H
             /\ ~Chunked(minor, plan) => H["content-length"] = BodyLength(plan)
             /\ plan.close => "connection" \in DOMAIN H /\ H["connection"] = "close"
             /\ ~plan.close => IF minor = 0 THEN "connection" \in DOMAIN H /\ H["connection"] = "keep-alive"
                               ELSE "connection" \notin DOMAIN H
             /\ \A n \in {"x", "y"} \cap DOMAIN H : n \in DOMAIN plan.headers /\ H[n] = plan.headers[n]
<1> DEFINE P == Persistence(minor, plan)
           F == Framing(minor, plan)
           G == plan.headers
           H == ResponseHeaders(minor, plan)
<1>1. /\ DOMAIN H = DOMAIN P \cup DOMAIN F \cup DOMAIN G
      /\ \A n \in DOMAIN H : H[n] = IF n \in DOMAIN P THEN P[n] ELSE IF n \in DOMAIN F THEN F[n] ELSE G[n]
  BY DEF ResponseHeaders
<1>2. /\ IF plan.close \/ minor = 0 THEN DOMAIN P = {"connection"} ELSE DOMAIN P = {}
      /\ plan.close => P["connection"] = "close"
      /\ ~plan.close /\ minor = 0 => P["connection"] = "keep-alive"
  BY DEF Persistence
<1>3. /\ Chunked(minor, plan) => DOMAIN F = {"transfer-encoding"}
      /\ ~Chunked(minor, plan) => DOMAIN F = {"content-length"} /\ F["content-length"] = BodyLength(plan)
  <2>1. ASSUME NEW a, NEW v, F = [x \in {a} |-> v]
        PROVE  DOMAIN F = {a} /\ F[a] = v
    BY <2>1
  <2> HIDE DEF F
  <2>2. CASE Chunked(minor, plan)
    BY <2>1, <2>2, FramingIs DEF F
  <2>3. CASE ~Chunked(minor, plan)
    BY <2>1, <2>3, FramingIs DEF F
  <2>. QED  BY <2>2, <2>3
<1>4. IsFiniteSet(DOMAIN G) /\ \A n \in DOMAIN G : n \notin Prohibited
  BY DEF Fit
<1> HIDE DEF P, F, G, H
<1>5. IsFiniteSet(DOMAIN H)
  <2>1. IsFiniteSet({}) /\ \A a : IsFiniteSet({a})
    BY FS_EmptySet, FS_Singleton
  <2>2. IsFiniteSet(DOMAIN P) /\ IsFiniteSet(DOMAIN F)
    BY <1>2, <1>3, <2>1
  <2> DEFINE p == DOMAIN P
             f == DOMAIN F
             g == DOMAIN G
  <2> HIDE DEF p, f, g
  <2>3. IsFiniteSet(p \cup f)
    BY <2>2, FS_Union DEF p, f
  <2>4. IsFiniteSet((p \cup f) \cup g)
    BY <1>4, <2>3, FS_Union DEF g
  <2>. QED  BY <1>1, <2>4 DEF p, f, g
<1>6. Chunked(minor, plan) <=> "transfer-encoding" \in DOMAIN H
  BY <1>1, <1>2, <1>3, <1>4 DEF Prohibited
<1>7. ~Chunked(minor, plan) => H["content-length"] = BodyLength(plan)
  BY <1>1, <1>2, <1>3
<1>8. plan.close => "connection" \in DOMAIN H /\ H["connection"] = "close"
  BY <1>1, <1>2
<1>9. ~plan.close => IF minor = 0 THEN "connection" \in DOMAIN H /\ H["connection"] = "keep-alive"
                     ELSE "connection" \notin DOMAIN H
  <2>1. "connection" \notin DOMAIN F /\ "connection" \notin DOMAIN G
    BY <1>3, <1>4 DEF Prohibited
  <2>. QED  BY <1>1, <1>2, <2>1
<1>10. \A n \in {"x", "y"} \cap DOMAIN H : n \in DOMAIN G /\ H[n] = G[n]
  <2>1. \A n \in {"x", "y"} : n \notin DOMAIN P /\ n \notin DOMAIN F
    BY <1>2, <1>3
  <2>. QED  BY <1>1, <2>1
<1>. QED  BY <1>5, <1>6, <1>7, <1>8, <1>9, <1>10 DEF G, H

LEMMA HeadIs ==
  ASSUME NEW minor \in {0, 1}, NEW plan, Fit(plan)
  PROVE  LET h == HeadPiece(minor, plan)
         IN  /\ h.piece = "head" /\ h.status = plan.status
             /\ h.headers = ResponseHeaders(minor, plan)
             /\ h.bytes = HeadSize(ResponseHeaders(minor, plan)) /\ h.bytes \in Nat
             /\ Proper(h)
             /\ StaysOpen(h) <=> ~plan.close
<1> DEFINE h == HeadPiece(minor, plan)
           H == ResponseHeaders(minor, plan)
<1>1. /\ h.piece = "head" /\ h.status = plan.status /\ h.headers = H /\ h.minor = minor
      /\ h.bytes = HeadSize(H)
  BY DEF HeadPiece
<1>2. /\ IsFiniteSet(DOMAIN H)
      /\ Chunked(minor, plan) <=> "transfer-encoding" \in DOMAIN H
      /\ ~Chunked(minor, plan) => H["content-length"] = BodyLength(plan)
      /\ plan.close => "connection" \in DOMAIN H /\ H["connection"] = "close"
      /\ ~plan.close => IF minor = 0 THEN "connection" \in DOMAIN H /\ H["connection"] = "keep-alive"
                        ELSE "connection" \notin DOMAIN H
  BY HeadersAre
<1> HIDE DEF h, H
<1>3. HeadSize(H) \in Nat
  <2>1. Cardinality(DOMAIN H) \in Nat
    BY <1>2, FS_CardinalityType
  <2> DEFINE k == 1 + Cardinality(DOMAIN H)
  <2>2. k \in Nat /\ LineSize \in Nat
    BY <2>1, ResponseAssumption
  <2> HIDE DEF k
  <2>3. LineSize * k + 2 \in Nat
    BY <2>2
  <2>. QED  BY <2>3 DEF HeadSize, k
<1>4. BodyLength(plan) \in Nat
  BY TotalType DEF Fit, BodyLength
<1>5. Proper(h)
  BY <1>1, <1>2, <1>4 DEF Proper
<1>6. StaysOpen(h) <=> ~plan.close
  BY <1>1, <1>2 DEF StaysOpen
<1>. QED  BY <1>1, <1>3, <1>5, <1>6 DEF h, H

(* What follows the head of a response, and its size.                      *)
Rest(minor, method, plan) == IF NoBody(method, plan) THEN << >> ELSE Body(minor, plan)
RestSize(minor, method, plan) ==
  IF NoBody(method, plan) THEN 0
  ELSE IF plan.mode = "immediate" THEN plan.body
  ELSE IF minor = 0 THEN Total(plan.chunks)
  ELSE Total(Map(FrameSize(minor), plan.chunks)) + 5

LEMMA LastChunkSize == WireSize(LastChunk) = 5
<1> DEFINE p == SizeLine(0)
           q == LineEnd
           S == BodyPieces
           v == <<p>>
           w == <<q>>
<1>1. p.bytes = 3 /\ q.bytes = 2
  BY BodyPiecesSized, DigitsOfZero
<1>2. p \in S /\ q \in S /\ Sized(S)
  BY BodyPiecesAre, BodyPiecesSized
<1> HIDE DEF p, q, S
<1>3. v \o w = <<p, q>>
  BY Pair
<1>4. WireSize(v) = 3 /\ WireSize(w) = 2
  BY <1>1, WireSizeFew
<1>5. v \in Seq(S) /\ w \in Seq(S)
  BY <1>2
<1> HIDE DEF v, w
<1>6. WireSize(v \o w) = WireSize(v) + WireSize(w)
  BY <1>2, <1>5, WireSizeConcat
<1>7. WireSize(<<p, q>>) = 5
  BY <1>3, <1>4, <1>6
<1>. QED  BY <1>7 DEF LastChunk, p, q

LEMMA RestIs ==
  ASSUME NEW minor \in {0, 1}, NEW method, NEW plan, Fit(plan)
  PROVE  /\ Rest(minor, method, plan) \in Seq(BodyPieces)
         /\ WireSize(Rest(minor, method, plan)) = RestSize(minor, method, plan)
<1> DEFINE S == BodyPieces
           none == << >>
           c == plan.chunks
           f == Frames(minor, c)
           d == Data(plan.body)
           rest == Rest(minor, method, plan)
<1>1. c \in Seq(Nat) /\ plan.body \in Nat
  BY DEF Fit
<1>2. none \in Seq(S) /\ WireSize(none) = 0
  <2> DEFINE p == LineEnd
  <2>1. p.bytes \in Nat
    BY BodyPiecesSized
  <2> HIDE DEF p
  <2>2. WireSize(<< >>) = 0
    BY <2>1, WireSizeFew
  <2>. QED  BY <2>2, EmptySeq
<1>3. f \in Seq(S) /\ WireSize(f) = Total(Map(FrameSize(minor), c))
  <2>1. f \in Seq(S)
    <3>1. 0 \in Nat
      OBVIOUS
    <3>. QED  BY <1>1, <3>1, FramesGrow
  <2>. QED  BY <1>1, <2>1, FramesSize
<1>4. d \in Seq(S) /\ WireSize(d) = plan.body
  <2> DEFINE n == plan.body
             zero == 0
  <2>1. n \in Nat
    BY <1>1
  <2> HIDE DEF n
  <2>2. Framed(zero)[n] = Data(n) /\ FrameSize(zero)[n] = n
    BY <2>1 DEF Framed, FrameSize
  <2> HIDE DEF zero
  <2>3. WireSize(Framed(zero)[n]) = FrameSize(zero)[n] /\ Data(n) \in Seq(S)
    BY <2>1, FrameSizeIs, FramedType
  <2>. QED  BY <2>2, <2>3 DEF n
<1>5. minor = 0 => Map(FrameSize(minor), c) = c
  <2>1. ASSUME minor = 0 PROVE Map(FrameSize(minor), c) = c
    <3>1. \A i \in DOMAIN c : c[i] \in Nat
      BY <1>1
    <3>2. \A i \in DOMAIN c : FrameSize(minor)[c[i]] = c[i]
      BY <2>1, <3>1 DEF FrameSize
    <3>3. c = [i \in DOMAIN c |-> c[i]]
      BY <1>1
    <3> HIDE DEF c
    <3>. QED  BY <3>2, <3>3 DEF Map
  <2>. QED  BY <2>1
<1>6. LastChunk \in Seq(S) /\ WireSize(LastChunk) = 5 /\ Sized(S)
  BY FramedType, LastChunkSize, BodyPiecesSized
<1>7. Body(minor, plan) = IF plan.mode = "immediate" THEN d
                          ELSE f \o (IF minor = 1 THEN LastChunk ELSE none)
  BY <1>1, BodyIs
<1>8. rest = IF NoBody(method, plan) THEN none ELSE Body(minor, plan)
  BY DEF Rest
<1> DEFINE last == LastChunk
<1> HIDE DEF S, none, f, d, rest, last
<1>9. f \o last \in Seq(S) /\ WireSize(f \o last) = WireSize(f) + 5
  <2>1. f \o last \in Seq(S)
    BY <1>3, <1>6 DEF last
  <2>2. WireSize(f \o last) = WireSize(f) + WireSize(last)
    BY <1>3, <1>6, WireSizeConcat DEF last
  <2>. QED  BY <1>6, <2>1, <2>2 DEF last
<1>10. f \o none = f
  BY <1>3 DEF none
<1>11. CASE NoBody(method, plan)
  BY <1>2, <1>8, <1>11 DEF RestSize, rest, S
<1>12. CASE ~NoBody(method, plan) /\ plan.mode = "immediate"
  BY <1>4, <1>7, <1>8, <1>12 DEF RestSize, rest, S
<1>13. CASE ~NoBody(method, plan) /\ plan.mode # "immediate" /\ minor = 0
  <2>1. rest = f
    BY <1>7, <1>8, <1>10, <1>13
  <2>. QED  BY <1>3, <1>5, <1>13, <2>1 DEF RestSize, rest, S
<1>14. CASE ~NoBody(method, plan) /\ plan.mode # "immediate" /\ minor = 1
  <2>1. rest = f \o last
    BY <1>7, <1>8, <1>14 DEF last
  <2>2. RestSize(minor, method, plan) = Total(Map(FrameSize(minor), c)) + 5
    BY <1>14 DEF RestSize
  <2>. QED  BY <1>3, <1>9, <2>1, <2>2 DEF rest, S
<1>. QED  BY <1>11, <1>12, <1>13, <1>14

LEMMA PiecesAre ==
  ASSUME NEW minor \in {0, 1}, NEW method, NEW plan, Fit(plan)
  PROVE  LET pieces == Pieces(minor, method, plan)
             h      == HeadPiece(minor, plan)
         IN  /\ pieces = <<h>> \o Rest(minor, method, plan)
             /\ pieces \in Seq({h} \cup BodyPieces) /\ pieces # << >> /\ pieces[1] = h
             /\ OneHead(pieces)
             /\ WireSize(pieces) = IntendedWireSize(minor, method, plan)
<1> DEFINE pieces == Pieces(minor, method, plan)
           h == HeadPiece(minor, plan)
           rest == Rest(minor, method, plan)
           S == {h} \cup BodyPieces
           hs == <<h>>
<1>1. pieces = hs \o rest
  BY DEF Pieces, Rest
<1>2. rest \in Seq(BodyPieces) /\ WireSize(rest) = RestSize(minor, method, plan)
  BY RestIs
<1>3. h.bytes = HeadSize(ResponseHeaders(minor, plan)) /\ h.bytes \in Nat
  BY HeadIs
<1>4. Sized(BodyPieces) /\ \A p \in BodyPieces : p.piece # "head"
  BY BodyPiecesSized, BodyPiecesAre
<1>5. Sized(S)
  BY <1>3, <1>4 DEF Sized
<1> DEFINE B == BodyPieces
<1> HIDE DEF h, rest, B
<1>6. /\ pieces \in Seq(S) /\ pieces # << >> /\ pieces[1] = h
      /\ hs \in Seq(S) /\ rest \in Seq(S)
      /\ \A i \in 1..Len(pieces) : i > 1 => pieces[i] \in B
  <2>1. rest \in Seq(B) /\ h \in S /\ B \subseteq S
    BY <1>2 DEF B
  <2> HIDE DEF S
  <2>2. rest \in Seq(S) /\ hs \in Seq(S) /\ Len(hs) = 1 /\ hs[1] = h
    BY <2>1
  <2>3. /\ Len(hs \o rest) = 1 + Len(rest) /\ hs \o rest \in Seq(S)
        /\ \A i \in 1..(1 + Len(rest)) : (hs \o rest)[i] = IF i <= 1 THEN hs[i] ELSE rest[i - 1]
    <3> HIDE DEF hs
    <3>1. /\ hs \o rest \in Seq(S) /\ Len(hs \o rest) = Len(hs) + Len(rest)
          /\ \A i \in 1..(Len(hs) + Len(rest)) :
               (hs \o rest)[i] = IF i <= Len(hs) THEN hs[i] ELSE rest[i - Len(hs)]
      BY <2>2, ConcatProperties
    <3>. QED  BY <2>2, <3>1
  <2> DEFINE u == hs \o rest
  <2> HIDE DEF hs, u
  <2>4. Len(rest) \in Nat /\ \A i \in 1..Len(rest) : rest[i] \in B
    BY <2>1
  <2>5. u \in Seq(S) /\ Len(u) = 1 + Len(rest) /\ u[1] = h
    BY <2>2, <2>3, <2>4 DEF u
  <2>6. \A i \in 1..Len(u) : i > 1 => u[i] \in B
    BY <2>3, <2>4, <2>5 DEF u
  <2>7. u # << >>
    BY <2>4, <2>5
  <2>. QED  BY <1>1, <2>2, <2>5, <2>6, <2>7 DEF u
<1>7. OneHead(pieces)
  BY <1>4, <1>6 DEF OneHead, B
<1>8. WireSize(hs) = h.bytes
  <2> HIDE DEF hs
  <2>. QED  BY <1>3, WireSizeFew DEF hs
<1> HIDE DEF hs, S
<1>9. WireSize(hs \o rest) = WireSize(hs) + WireSize(rest)
  BY <1>5, <1>6, WireSizeConcat
<1>10. IntendedWireSize(minor, method, plan) =
         HeadSize(ResponseHeaders(minor, plan)) + RestSize(minor, method, plan)
  <2> DEFINE c == plan.chunks
             s == [i \in DOMAIN c |-> HexDigits(c[i]) + 2 + c[i] + 2]
  <2>1. c \in Seq(Nat)
    BY DEF Fit
  <2>2. minor # 0 => Map(FrameSize(minor), c) = s
    <3>1. ASSUME minor # 0 PROVE Map(FrameSize(minor), c) = s
      <4>1. \A i \in DOMAIN c : c[i] \in Nat
        BY <2>1
      <4>2. \A i \in DOMAIN c : FrameSize(minor)[c[i]] = HexDigits(c[i]) + 2 + c[i] + 2
        BY <3>1, <4>1 DEF FrameSize
      <4> HIDE DEF c
      <4>. QED  BY <4>2 DEF Map
    <3>. QED  BY <3>1
  <2> HIDE DEF s
  <2>3. IntendedWireSize(minor, method, plan) =
          HeadSize(ResponseHeaders(minor, plan))
          + IF NoBody(method, plan) THEN 0
            ELSE IF plan.mode = "immediate" THEN plan.body
            ELSE IF minor = 0 THEN Total(c) ELSE Total(s) + 5
    BY DEF IntendedWireSize, s
  <2>. QED  BY <2>2, <2>3 DEF RestSize
<1>11. WireSize(pieces) = IntendedWireSize(minor, method, plan)
  BY <1>1, <1>2, <1>3, <1>8, <1>9, <1>10
<1>. QED  BY <1>1, <1>6, <1>7, <1>11 DEF S, h, rest, hs

(* A whole response, read by a client that is between two responses, is a  *)
(* response more to it, and leaves it between two responses.               *)
LEMMA TotalPositive ==
  ASSUME NEW s \in Seq(Nat \ {0}), s # << >>
  PROVE  Total(s) # 0
<1> DEFINE f == SubSeq(s, 1, Len(s) - 1)
           e == s[Len(s)]
<1>1. f \in Seq(Nat) /\ e \in Nat \ {0} /\ s = Append(f, e)
  OBVIOUS
<1> HIDE DEF f, e
<1>2. Total(Append(f, e)) = Total(f) + e /\ Total(f) \in Nat
  <2>1. e \in Nat
    BY <1>1
  <2>2. Total(Append(f, e)) = Total(f) + e
    BY <1>1, <2>1, TotalAppend
  <2>3. Total(f) \in Nat
    BY <1>1, TotalType
  <2>. QED  BY <2>2, <2>3
<1>. QED  BY <1>1, <1>2

LEMMA NoEmptyChunk ==
  ASSUME NEW s \in Seq(Nat), 0 \notin ToSet(s)
  PROVE  s \in Seq(Nat \ {0})
<1>1. \A i \in DOMAIN s : s[i] \in Nat \ {0}
  BY DEF ToSet
<1> DEFINE N == Nat \ {0}
<1>2. DOMAIN s = 1..Len(s) /\ Len(s) \in Nat /\ s = [i \in 1..Len(s) |-> s[i]]
  OBVIOUS
<1> HIDE DEF N
<1>3. [i \in 1..Len(s) |-> s[i]] \in Seq(N)
  BY <1>1, <1>2 DEF N
<1>. QED  BY <1>2, <1>3 DEF N

(* The state in which the head leaves the client. *)
Begun(minor, method, plan, head, done) ==
  IF method = "HEAD" \/ Bodiless(plan.status)
    THEN At("idle", head, 0, 0, Append(done, Whole(head, 0)))
  ELSE IF Chunked(minor, plan) THEN At("size", head, 0, 0, done)
  ELSE IF BodyLength(plan) = 0 THEN At("idle", head, 0, 0, Append(done, Whole(head, 0)))
  ELSE At("bytes", head, BodyLength(plan), 0, done)

LEMMA HeadRead ==
  ASSUME NEW minor \in {0, 1}, NEW method, NEW plan, Fit(plan), NEW list, NEW before, NEW done,
         IsList(done), Len(done) < Len(list), list[Len(done) + 1].request.method = method
  PROVE  ReadPiece(list, At("idle", before, 0, 0, done), HeadPiece(minor, plan)) =
           Begun(minor, method, plan, HeadPiece(minor, plan), done)
<1> DEFINE h == HeadPiece(minor, plan)
           H == ResponseHeaders(minor, plan)
           c == At("idle", before, 0, 0, done)
           begun == At("idle", h, 0, 0, done)
           length == h.headers["content-length"]
<1>1. h.piece = "head" /\ h.status = plan.status /\ h.headers = H
  BY HeadIs
<1>2. /\ Chunked(minor, plan) <=> "transfer-encoding" \in DOMAIN H
      /\ ~Chunked(minor, plan) => H["content-length"] = BodyLength(plan)
  BY HeadersAre
<1>3. Finish(begun) = At("idle", h, 0, 0, Append(done, Whole(h, 0)))
  BY FinishAt
<1> HIDE DEF h, H
<1>4. ReadPiece(list, c, h) =
        IF list[Len(done) + 1].request.method = "HEAD" \/ Bodiless(h.status) THEN Finish(begun)
        ELSE IF "transfer-encoding" \in DOMAIN h.headers THEN At("size", h, 0, 0, done)
        ELSE IF length = 0 THEN Finish(begun)
        ELSE At("bytes", h, length, 0, done)
  <2> DEFINE zero == 0
  <2> HIDE DEF zero
  <2>1. ReadPiece(list, At("idle", before, zero, zero, done), h) =
          IF list[Len(done) + 1].request.method = "HEAD" \/ Bodiless(h.status)
            THEN Finish(At("idle", h, zero, zero, done))
          ELSE IF "transfer-encoding" \in DOMAIN h.headers THEN At("size", h, zero, zero, done)
          ELSE IF h.headers["content-length"] = 0 THEN Finish(At("idle", h, zero, zero, done))
          ELSE At("bytes", h, h.headers["content-length"], zero, done)
    BY <1>1, HeadAt
  <2>. QED  BY <2>1 DEF zero
<1> HIDE DEF c, begun
<1>5. ReadPiece(list, c, h) = Begun(minor, method, plan, h, done)
  BY <1>1, <1>2, <1>3, <1>4 DEF Begun
<1>. QED  BY <1>5 DEF c, h

LEMMA RestRead ==
  ASSUME NEW minor \in {0, 1}, NEW method, NEW plan, Fit(plan), NEW list, NEW head, NEW done,
         ~(Chunked(minor, plan) /\ 0 \in ToSet(plan.chunks)),
         method = "head" => BodyLength(plan) = 0
  PROVE  ReadOn(list, Begun(minor, method, plan, head, done), Rest(minor, method, plan)) =
           At("idle", head, 0, 0,
              Append(done, Whole(head, IF method = "HEAD" THEN 0 ELSE BodyLength(plan))))
<1> DEFINE begun == Begun(minor, method, plan, head, done)
           rest == Rest(minor, method, plan)
           length == BodyLength(plan)
           chunks == plan.chunks
           ended(n) == At("idle", head, 0, 0, Append(done, Whole(head, n)))
<1>1. /\ plan.body \in Nat /\ chunks \in Seq(Nat) /\ plan.mode \in {"immediate", "ndjson"}
      /\ plan.mode = "ndjson" => chunks # << >>
      /\ Bodiless(plan.status) => plan.mode = "immediate" /\ plan.body = 0
  BY DEF Fit
<1>2. /\ length = IF plan.mode = "immediate" THEN plan.body ELSE Total(chunks)
      /\ length \in Nat
  BY <1>1, TotalType DEF BodyLength
<1>3. Chunked(minor, plan) => chunks \in Seq(Nat \ {0}) /\ length # 0
  <2>1. ASSUME Chunked(minor, plan) PROVE chunks \in Seq(Nat \ {0}) /\ length # 0
    <3>1. chunks \in Seq(Nat \ {0})
      BY <1>1, <2>1, NoEmptyChunk
    <3>2. Total(chunks) # 0
      BY <1>1, <2>1, <3>1, TotalPositive DEF Chunked
    <3>. QED  BY <1>2, <2>1, <3>1, <3>2 DEF Chunked
  <2>. QED  BY <2>1
<1>4. rest = IF NoBody(method, plan) THEN << >>
             ELSE IF plan.mode = "immediate" THEN Data(plan.body)
             ELSE Frames(minor, chunks) \o (IF minor = 1 THEN LastChunk ELSE << >>)
  BY <1>1, BodyIs DEF Rest
<1>5. begun = IF method = "HEAD" \/ Bodiless(plan.status) THEN ended(0)
              ELSE IF Chunked(minor, plan) THEN At("size", head, 0, 0, done)
              ELSE IF length = 0 THEN ended(0)
              ELSE At("bytes", head, length, 0, done)
  BY DEF Begun
<1> HIDE DEF begun, rest, length, chunks, ended
<1>6. SUFFICES ReadOn(list, begun, rest) = ended(IF method = "HEAD" THEN 0 ELSE length)
  BY DEF begun, rest, length, ended
<1>7. \A c : ReadOn(list, c, << >>) = c
  BY ReadOnEmpty
<1>8. CASE NoBody(method, plan)
  <2>1. rest = << >>
    BY <1>4, <1>8
  <2>2. begun = ended(IF method = "HEAD" THEN 0 ELSE length)
    <3>1. CASE method = "HEAD"
      BY <1>5, <3>1
    <3>2. CASE method # "HEAD" /\ Bodiless(plan.status)
      BY <1>1, <1>2, <1>5, <3>2
    <3>3. CASE method = "head" /\ ~Bodiless(plan.status)
      <4>1. length = 0
        BY <3>3 DEF length
      <4>2. method # "HEAD"
        BY <3>3
      <4>. QED  BY <1>3, <1>5, <3>3, <4>1, <4>2
    <3>. QED  BY <1>8, <3>1, <3>2, <3>3 DEF NoBody
  <2>. QED  BY <1>7, <2>1, <2>2
<1>9. ASSUME ~NoBody(method, plan), plan.mode = "immediate"
      PROVE  ReadOn(list, begun, rest) = ended(length)
  <2>1. rest = Data(length) /\ ~Chunked(minor, plan)
    BY <1>2, <1>4, <1>9 DEF Chunked
  <2>2. method # "HEAD" /\ ~Bodiless(plan.status)
    BY <1>9 DEF NoBody
  <2>3. CASE length = 0
    <3>1. rest = << >>
      BY <2>1, <2>3 DEF Data
    <3>2. begun = ended(length)
      BY <1>5, <2>1, <2>2, <2>3
    <3>. QED  BY <1>7, <3>1, <3>2
  <2>4. CASE length # 0
    <3> DEFINE p == DataPiece(length)
    <3>1. rest = <<p>>
      BY <1>2, <2>1, <2>4, FramedType
    <3>2. begun = At("bytes", head, length, 0, done)
      BY <1>5, <2>1, <2>2, <2>4
    <3> DEFINE c == At("bytes", head, length, 0, done)
               zero == 0
    <3>3. zero \in Nat /\ zero + length = length
      BY <1>2
    <3>4. c = At("bytes", head, length, zero, done)
      OBVIOUS
    <3> HIDE DEF zero
    <3>5. ReadPiece(list, At("bytes", head, length, zero, done), p) =
            At("idle", head, 0, 0, Append(done, Whole(head, zero + length)))
      BY <1>2, <3>3, DataWhole
    <3> HIDE DEF p, c
    <3>6. ReadOn(list, c, <<p>>) = ReadPiece(list, c, p)
      BY ReadOne
    <3>. QED  BY <3>1, <3>2, <3>3, <3>4, <3>5, <3>6 DEF c, ended
  <2>. QED  BY <2>3, <2>4
<1>10. ASSUME ~NoBody(method, plan), plan.mode = "ndjson", minor = 0
       PROVE  ReadOn(list, begun, rest) = ended(length)
  <2>1. length = Total(chunks) /\ ~Chunked(minor, plan)
    BY <1>2, <1>10 DEF Chunked
  <2>2. method # "HEAD" /\ ~Bodiless(plan.status)
    BY <1>10 DEF NoBody
  <2>3. rest = Frames(0, chunks)
    <3>1. Frames(minor, chunks) \in Seq(BodyPieces)
      <4>1. 0 \in Nat
        OBVIOUS
      <4>. QED  BY <1>1, <4>1, FramesGrow DEF chunks
    <3>2. rest = Frames(minor, chunks) \o << >>
      BY <1>4, <1>10
    <3> DEFINE v == Frames(minor, chunks)
               S == BodyPieces
    <3> HIDE DEF v, S
    <3>3. v \o << >> = v
      BY <3>1 DEF v, S
    <3>. QED  BY <1>10, <3>2, <3>3 DEF v
  <2> DEFINE sofar(t) == IF t < length THEN At("bytes", head, length - t, t, done)
                         ELSE At("idle", head, 0, 0, Append(done, Whole(head, length)))
  <2>4. ReadOn(list, sofar(0), Frames(0, chunks)) = sofar(Total(chunks))
    <3>1. chunks \in Seq(Nat) /\ Total(chunks) <= length /\ length \in Nat
      BY <1>1, <1>2, <2>1 DEF chunks
    <3>. QED  BY <3>1, BytesRead
  <2>5. sofar(Total(chunks)) = ended(length)
    BY <1>2, <2>1 DEF ended
  <2>6. sofar(0) = begun
    <3>1. CASE length = 0
      BY <1>5, <2>1, <2>2, <3>1 DEF ended
    <3>2. CASE length # 0
      BY <1>2, <1>5, <2>1, <2>2, <3>2
    <3>. QED  BY <3>1, <3>2
  <2>. QED  BY <2>3, <2>4, <2>5, <2>6
<1>11. ASSUME ~NoBody(method, plan), plan.mode = "ndjson", minor = 1
       PROVE  ReadOn(list, begun, rest) = ended(length)
  <2>1. length = Total(chunks) /\ Chunked(minor, plan)
    BY <1>2, <1>11 DEF Chunked
  <2>2. method # "HEAD" /\ ~Bodiless(plan.status)
    BY <1>11 DEF NoBody
  <2>3. rest = Frames(1, chunks) \o LastChunk /\ begun = At("size", head, 0, 0, done)
    BY <1>4, <1>5, <1>11, <2>1, <2>2
  <2>4. chunks \in Seq(Nat \ {0})
    BY <1>3, <2>1
  <2>5. ReadOn(list, At("size", head, 0, 0, done), Frames(1, chunks) \o LastChunk) =
          At("idle", head, 0, 0, Append(done, Whole(head, Total(chunks))))
    BY <2>4, ChunksRead
  <2>. QED  BY <2>1, <2>3, <2>5 DEF ended
<1>12. ~NoBody(method, plan) => method # "HEAD"
  BY DEF NoBody
<1>13. CASE ~NoBody(method, plan)
  <2>1. ReadOn(list, begun, rest) = ended(length)
    BY <1>1, <1>9, <1>10, <1>11, <1>13
  <2>. QED  BY <1>12, <1>13, <2>1
<1>. QED  BY <1>8, <1>13

LEMMA ResponseRead ==
  ASSUME NEW minor \in {0, 1}, NEW method, NEW plan, Fit(plan), NEW list, NEW before, NEW done,
         IsList(done), Len(done) < Len(list), list[Len(done) + 1].request.method = method,
         ~(Chunked(minor, plan) /\ 0 \in ToSet(plan.chunks)),
         method = "head" => BodyLength(plan) = 0
  PROVE  LET h == HeadPiece(minor, plan)
         IN  ReadOn(list, At("idle", before, 0, 0, done), Pieces(minor, method, plan)) =
               At("idle", h, 0, 0,
                  Append(done, Whole(h, IF method = "HEAD" THEN 0 ELSE BodyLength(plan))))
<1> DEFINE h == HeadPiece(minor, plan)
           hs == <<h>>
           rest == Rest(minor, method, plan)
           c == At("idle", before, 0, 0, done)
           S == {h} \cup BodyPieces
<1>1. Pieces(minor, method, plan) = hs \o rest
  BY PiecesAre
<1>2. rest \in Seq(S) /\ hs \in Seq(S)
  <2>1. rest \in Seq(BodyPieces)
    BY RestIs
  <2> DEFINE B == BodyPieces
  <2> HIDE DEF B, rest, h
  <2>. QED  BY <2>1 DEF B
<1>3. ReadPiece(list, c, h) = Begun(minor, method, plan, h, done)
  BY HeadRead
<1>4. ReadOn(list, Begun(minor, method, plan, h, done), rest) =
        At("idle", h, 0, 0,
           Append(done, Whole(h, IF method = "HEAD" THEN 0 ELSE BodyLength(plan))))
  BY RestRead
<1> HIDE DEF h, rest, c, S
<1>5. ReadOn(list, c, hs) = ReadPiece(list, c, h)
  BY ReadOne
<1> HIDE DEF hs
<1>6. ReadOn(list, c, hs \o rest) = ReadOn(list, ReadOn(list, c, hs), rest)
  BY <1>2, ReadOnConcat
<1>. QED  BY <1>1, <1>3, <1>4, <1>5, <1>6 DEF h, c

-----------------------------------------------------------------------------
(* A response that Validate accepted, and the plan the router makes of it. *)
Accepted(r, limit) ==
  r # None /\ Written(r) /\ ValidHeaders(r.headers) /\ ValidBody(r, limit)

MeantFor(s, r, n) ==
  LET own      == {k \in DOMAIN r.headers : Lower(k) = n}
      defaults == {k \in DOMAIN s.headers : Lower(k) = n}
  IN  IF own # {} THEN {r.headers[k] : k \in own} ELSE {s.headers[k] : k \in defaults}

LEMMA OneSpelling ==
  ASSUME NEW headers, ValidHeaders(headers), NEW n,
         n \in {Lower(k) : k \in DOMAIN headers}
  PROVE  LET spelled == {k \in DOMAIN headers : Lower(k) = n}
         IN  /\ spelled # {}
             /\ {headers[k] : k \in spelled} =
                  {headers[CHOOSE k \in DOMAIN headers : Lower(k) = n]}
<1> DEFINE spelled == {k \in DOMAIN headers : Lower(k) = n}
           j == CHOOSE k \in DOMAIN headers : Lower(k) = n
<1>1. PICK i \in DOMAIN headers : Lower(i) = n
  OBVIOUS
<1>2. j \in DOMAIN headers /\ Lower(j) = n
  BY <1>1
<1> HIDE DEF j
<1>3. \A k \in spelled : k = j
  BY <1>2 DEF ValidHeaders
<1>4. spelled = {j}
  BY <1>2, <1>3
<1> HIDE DEF spelled
<1>5. {headers[k] : k \in spelled} = {headers[j]}
  BY <1>4
<1>. QED  BY <1>4, <1>5 DEF spelled, j

LEMMA Merged ==
  ASSUME NEW s, NEW r, ValidHeaders(s.headers), ValidHeaders(r.headers),
         IsFiniteSet(DOMAIN s.headers), IsFiniteSet(DOMAIN r.headers)
  PROVE  LET merged == MergeHeaders(s.headers, r.headers)
         IN  /\ IsFiniteSet(DOMAIN merged) /\ DOMAIN merged \cap Prohibited = {}
             /\ \A n \in DOMAIN merged : MeantFor(s, r, n) = {merged[n]}
<1> DEFINE a == s.headers
           b == r.headers
           names(h) == {Lower(k) : k \in DOMAIN h}
           value(h, n) == h[CHOOSE k \in DOMAIN h : Lower(k) = n]
           merged == MergeHeaders(a, b)
<1>1. /\ DOMAIN merged = names(a) \cup names(b)
      /\ \A n \in DOMAIN merged : merged[n] = IF n \in names(b) THEN value(b, n) ELSE value(a, n)
  BY DEF MergeHeaders
<1>2. IsFiniteSet(DOMAIN merged)
  <2>1. ASSUME NEW h, IsFiniteSet(DOMAIN h) PROVE IsFiniteSet(names(h))
    <3> DEFINE d == DOMAIN h
    <3> HIDE DEF d
    <3> DEFINE F == [k \in d |-> Lower(k)]
               T == {Lower(k) : k \in d}
    <3>1. F \in Surjection(d, T)
      BY DEF Surjection
    <3> HIDE DEF F, T
    <3>2. IsFiniteSet(T)
      BY <2>1, <3>1, FS_Surjection DEF d
    <3>. QED  BY <3>2 DEF d, T
  <2>2. IsFiniteSet(names(a)) /\ IsFiniteSet(names(b))
    BY <2>1
  <2> DEFINE x == names(a)
             y == names(b)
  <2> HIDE DEF x, y
  <2>3. IsFiniteSet(x \cup y)
    BY <2>2, FS_Union DEF x, y
  <2>. QED  BY <1>1, <2>3 DEF x, y
<1>3. \A n \in DOMAIN merged : n \notin Prohibited
  BY <1>1 DEF ValidHeaders
<1>4. ASSUME NEW n \in DOMAIN merged PROVE MeantFor(s, r, n) = {merged[n]}
  <2> DEFINE own == {k \in DOMAIN b : Lower(k) = n}
             defaults == {k \in DOMAIN a : Lower(k) = n}
  <2>1. n \in names(b) => own # {} /\ {b[k] : k \in own} = {value(b, n)}
    <3> DEFINE h == b
    <3> HIDE DEF h
    <3>1. n \in names(h) => {k \in DOMAIN h : Lower(k) = n} # {}
                            /\ {h[k] : k \in {i \in DOMAIN h : Lower(i) = n}} = {value(h, n)}
      BY OneSpelling DEF h
    <3>. QED  BY <3>1 DEF h
  <2>2. n \in names(a) => {a[k] : k \in defaults} = {value(a, n)}
    <3> DEFINE h == a
    <3> HIDE DEF h
    <3>1. n \in names(h) => {h[k] : k \in {i \in DOMAIN h : Lower(i) = n}} = {value(h, n)}
      BY OneSpelling DEF h
    <3>. QED  BY <3>1 DEF h
  <2>3. n \notin names(b) => own = {}
    OBVIOUS
  <2>4. MeantFor(s, r, n) = IF own # {} THEN {b[k] : k \in own} ELSE {a[k] : k \in defaults}
    BY DEF MeantFor
  <2>5. merged[n] = IF n \in names(b) THEN value(b, n) ELSE value(a, n)
    BY <1>1
  <2>6. n \in names(a) \/ n \in names(b)
    BY <1>1
  <2> HIDE DEF own, defaults, names, value, merged
  <2>. QED  BY <2>1, <2>2, <2>3, <2>4, <2>5, <2>6
<1>. QED  BY <1>2, <1>3, <1>4

LEMMA PlanFits ==
  ASSUME NEW s, NEW r, NEW limit, NEW close, Accepted(r, limit),
         ValidHeaders(s.headers), IsFiniteSet(DOMAIN s.headers)
  PROVE  LET plan == PlanFrom(s, r, close)
         IN  /\ Fit(plan) /\ plan.status = r.status /\ plan.close = close
             /\ BodyLength(plan) = Static(r)
             /\ \A n \in DOMAIN plan.headers : MeantFor(s, r, n) = {plan.headers[n]}
<1> DEFINE plan == PlanFrom(s, r, close)
           merged == MergeHeaders(s.headers, r.headers)
           plain == [i \in DOMAIN r.chunks |-> IF r.chunks[i] = None THEN 0 ELSE r.chunks[i]]
<1>1. /\ r # None /\ ValidHeaders(r.headers) /\ ValidBody(r, limit)
      /\ r.body \in Nat \cup {None} /\ r.chunks \in Seq(Nat \cup {None})
      /\ IsFiniteSet(DOMAIN r.headers)
  BY DEF Accepted, Written
<1>2. /\ IsFiniteSet(DOMAIN merged) /\ DOMAIN merged \cap Prohibited = {}
      /\ \A n \in DOMAIN merged : MeantFor(s, r, n) = {merged[n]}
  BY <1>1, Merged
<1>3. /\ plan.status = r.status /\ plan.close = close /\ plan.mode = r.mode
      /\ plan.body = (IF r.body = None THEN 0 ELSE r.body)
  BY <1>1 DEF PlanFrom
<1>4. plan.headers = merged /\ plan.chunks = plain
  BY <1>1 DEF PlanFrom
<1> HIDE DEF plan, merged
<1>5. plain \in Seq(Nat)
  <2> DEFINE N == Nat \cup {None}
             c == r.chunks
             n == Len(c)
  <2>1. c \in Seq(N)
    BY <1>1
  <2> HIDE DEF c, N
  <2>2. n \in Nat /\ DOMAIN c = 1..n /\ \A i \in 1..n : c[i] \in N
    BY <2>1
  <2> HIDE DEF n
  <2>3. \A i \in 1..n : (IF c[i] = None THEN 0 ELSE c[i]) \in Nat
    BY <2>2 DEF N
  <2> DEFINE e(i) == IF c[i] = None THEN 0 ELSE c[i]
  <2> HIDE DEF e
  <2>4. [i \in 1..n |-> e(i)] \in Seq(Nat)
    BY <2>2, <2>3 DEF e
  <2>. QED  BY <2>2, <2>4 DEF c, e
<1>6. plan.body \in Nat
  BY <1>1, <1>3
<1>7. /\ plan.body \in Nat /\ plan.chunks \in Seq(Nat)
      /\ IsFiniteSet(DOMAIN plan.headers) /\ DOMAIN plan.headers \cap Prohibited = {}
  BY <1>2, <1>4, <1>5, <1>6
<1> HIDE DEF plain
<1>8. ASSUME Bodiless(r.status), r.mode = "immediate", r.body = None
      PROVE  Fit(plan) /\ BodyLength(plan) = Static(r)
  BY <1>3, <1>7, <1>8 DEF Fit, BodyLength, Static
<1>9. ASSUME ~Bodiless(r.status), r.mode = "immediate", r.body # None
      PROVE  Fit(plan) /\ BodyLength(plan) = Static(r)
  BY <1>3, <1>7, <1>9 DEF Fit, BodyLength, Static
<1>10. ASSUME ~Bodiless(r.status), r.mode = "ndjson", r.chunks # << >>,
              \A i \in DOMAIN r.chunks : r.chunks[i] # None
       PROVE  Fit(plan) /\ BodyLength(plan) = Static(r)
  <2>1. plain = r.chunks
    <3> DEFINE N == Nat \cup {None}
    <3>1. r.chunks \in Seq(N)
      BY <1>1
    <3> HIDE DEF N
    <3>2. r.chunks = [i \in DOMAIN r.chunks |-> r.chunks[i]]
      BY <3>1
    <3>3. plain = [i \in DOMAIN r.chunks |-> r.chunks[i]]
      BY <1>10 DEF plain
    <3>. QED  BY <3>2, <3>3
  <2>. QED  BY <1>3, <1>4, <1>7, <1>10, <2>1 DEF Fit, BodyLength, Static
<1>11. Fit(plan) /\ BodyLength(plan) = Static(r)
  BY <1>1, <1>8, <1>9, <1>10 DEF ValidBody
<1>. QED  BY <1>2, <1>3, <1>4, <1>11 DEF plan, merged

(* What the services that are served have. *)
Offers(s, limit) ==
  /\ ValidHeaders(s.headers) /\ IsFiniteSet(DOMAIN s.headers)
  /\ Accepted(s.fallback, limit)
  /\ \A j \in DOMAIN s.routes : \A r \in ToSet(s.routes[j].responses) : Accepted(r, limit)

LEMMA ServicesOffer ==
  ASSUME cfg \in Candidates, Validate(cfg), NEW s \in ToSet(Enabled(cfg))
  PROVE  Offers(s, cfg.limits.max_response_bytes)
<1> DEFINE limit == cfg.limits.max_response_bytes
<1>1. PICK i \in DOMAIN Enabled(cfg) : s = Enabled(cfg)[i]
  BY DEF ToSet
<1>2. s \in ToSet(cfg.services) /\ s.enabled
  BY <1>1, EnabledServices
<1>3. /\ IsFiniteSet(DOMAIN s.headers) /\ (s.fallback # None => Written(s.fallback))
      /\ \A route \in ToSet(s.routes) :
           Listed(route.responses) /\ \A r \in ToSet(route.responses) : Written(r)
  BY <1>2, ExchangeAssumption DEF Decoded
<1>4. PICK n \in DOMAIN cfg.services : s = cfg.services[n]
  BY <1>2 DEF ToSet
<1>5. ValidSupplied(s, limit) /\ ValidEnabled(s)
  BY <1>4 DEF Validate
<1>6. s.fallback # None /\ ValidFallback(s.fallback, limit) /\ ValidHeaders(s.headers)
  BY <1>2, <1>5 DEF ValidEnabled, ValidSupplied
<1>7. Accepted(s.fallback, limit)
  BY <1>3, <1>6 DEF ValidFallback, ValidResponse, Accepted
<1>8. ASSUME NEW j \in DOMAIN s.routes, NEW r \in ToSet(s.routes[j].responses)
      PROVE  Accepted(r, limit)
  <2>1. s.routes[j] \in ToSet(s.routes)
    BY DEF ToSet
  <2>2. Written(r) /\ r # None
    BY <1>3, <2>1 DEF Listed
  <2>3. PICK k \in DOMAIN s.routes[j].responses : r = s.routes[j].responses[k]
    BY DEF ToSet
  <2>4. ValidResponse(s.routes[j].method, r, limit)
    BY <1>5, <2>3 DEF ValidSupplied, ValidRoute
  <2>. QED  BY <2>2, <2>4 DEF ValidResponse, Accepted
<1>. QED  BY <1>3, <1>6, <1>7, <1>8 DEF Offers

LEMMA SelectedIs ==
  ASSUME Ready(service), IsList(asked), Tallied, NEW limit, Offers(service, limit),
         NEW request, NEW close
  PROVE  LET sel == SelectResponse(service, request.method, request.path, counts, close)
         IN  Accepted(sel.source, limit) /\ sel.plan = PlanFrom(service, sel.source, close)
<1> DEFINE sel == SelectResponse(service, request.method, request.path, counts, close)
           matching == Matching(service.routes, request.method, request.path)
           n == Cardinality(Asking(asked, Key(request))) + 1
<1>1. sel.plan = PlanFrom(service, sel.source, close)
  BY DEF SelectResponse
<1>2. /\ matching = {} => sel.source = service.fallback
      /\ matching # {} => \E j \in DOMAIN service.routes : Due(service.routes, j, n, sel.source)
  BY Selects
<1> HIDE DEF sel, matching, n
<1>3. ASSUME matching = {} PROVE Accepted(sel.source, limit)
  BY <1>2, <1>3 DEF Offers
<1>4. ASSUME matching # {} PROVE Accepted(sel.source, limit)
  <2>1. PICK j \in DOMAIN service.routes : Due(service.routes, j, n, sel.source)
    BY <1>2, <1>4
  <2>2. sel.source \in ToSet(service.routes[j].responses)
    BY <2>1 DEF Due
  <2>. QED  BY <2>2 DEF Offers
<1>5. Accepted(sel.source, limit)
  BY <1>3, <1>4
<1>. QED  BY <1>1, <1>5 DEF sel

-----------------------------------------------------------------------------
(* What a client has understood of a connection. *)
SentOf(list) ==
  FlattenSeq([k \in DOMAIN list |-> IF list[k].outcome = "sent" THEN <<list[k]>> ELSE << >>])

LEMMA ListOf ==
  ASSUME NEW S, NEW s \in Seq(S)
  PROVE  IsList(s)
<1> DEFINE T == ToSet(s)
<1>1. Len(s) \in Nat /\ DOMAIN s = 1..Len(s) /\ s = [i \in 1..Len(s) |-> s[i]]
  OBVIOUS
<1>2. \A i \in 1..Len(s) : s[i] \in T
  BY <1>1 DEF ToSet
<1> HIDE DEF T
<1>3. [i \in 1..Len(s) |-> s[i]] \in Seq(T)
  BY <1>1, <1>2
<1>. QED  BY <1>1, <1>3 DEF IsList, T

LEMMA SentGrows ==
  ASSUME NEW list, IsList(list), NEW x
  PROVE  /\ IsList(SentOf(list))
         /\ SentOf(Append(list, x)) =
              IF x.outcome = "sent" THEN Append(SentOf(list), x) ELSE SentOf(list)
<1> DEFINE E == ToSet(list) \cup {x}
           T == {y \in E : y.outcome = "sent"}
           t == Append(list, x)
<1>1. list \in Seq(E) /\ x \in E
  <2> DEFINE S == ToSet(list)
  <2>1. list \in Seq(S)
    BY DEF IsList
  <2> HIDE DEF S
  <2>2. list \in Seq(S \cup {x})
    BY <2>1
  <2>. QED  BY <2>2 DEF S
<1>2. ASSUME NEW l, \A k \in DOMAIN l : l[k] \in E
      PROVE  SentOf(l) = Kept(l, T)
  <2>1. \A k \in DOMAIN l : Single(l[k], T) = IF l[k].outcome = "sent" THEN <<l[k]>> ELSE << >>
    BY <1>2 DEF Single
  <2>2. [k \in DOMAIN l |-> Single(l[k], T)] =
          [k \in DOMAIN l |-> IF l[k].outcome = "sent" THEN <<l[k]>> ELSE << >>]
    BY <2>1
  <2>. QED  BY <2>2 DEF SentOf, Kept
<1>3. SentOf(list) = Kept(list, T)
  <2>1. \A k \in DOMAIN list : list[k] \in E
    BY DEF ToSet
  <2>. QED  BY <1>2, <2>1
<1>4. SentOf(t) = Kept(t, T)
  <2>1. \A k \in DOMAIN t : t[k] \in E
    BY ListAppend DEF ToSet
  <2> HIDE DEF t
  <2>. QED  BY <1>2, <2>1
<1>5. x \in T <=> x.outcome = "sent"
  OBVIOUS
<1> HIDE DEF E, T
<1>6. Kept(t, T) = Kept(list, T) \o Single(x, T)
  BY <1>1, KeptAppend
<1>7. Kept(list, T) \in Seq(E)
  BY <1>1, KeptType
<1> DEFINE u == Kept(list, T)
<1> HIDE DEF u
<1>8. u \o <<x>> = Append(u, x) /\ u \o << >> = u
  BY <1>1, <1>7 DEF u
<1>9. Kept(t, T) = IF x.outcome = "sent" THEN Append(u, x) ELSE u
  BY <1>5, <1>6, <1>8 DEF Single, u
<1>10. IsList(u)
  BY <1>7, ListOf DEF u
<1>. QED  BY <1>3, <1>4, <1>9, <1>10 DEF u

Clear(list) == \A k \in DOMAIN list : ~EmptyChunk(list[k]) /\ ~MissingBody(list[k])

Right(s, d, x) ==
  /\ d.head.status = x.source.status
  /\ d.body = BodyMeant(x)
  /\ \A n \in {"x", "y"} \cap DOMAIN d.head.headers :
       MeantFor(s, x.source, n) = {d.head.headers[n]}

Follows(list, s, c) ==
  /\ Reader(c) /\ c.state # "confused"
  /\ Len(c.done) = Len(SentOf(list))
  /\ \A k \in 1..Len(SentOf(list)) : Right(s, c.done[k], SentOf(list)[k])

Between(list, c) == c = At("idle", c.head, 0, 0, c.done) /\ Len(SentOf(list)) = Len(list)

AllProper(w) == IsList(w) /\ \A p \in ToSet(w) : Proper(p)

Understands(list, w, s, open) ==
  LET c == ReadOn(list, Silent, w)
  IN  Clear(list) =>
        /\ Follows(list, s, c)
        /\ open => Between(list, c)
        /\ list # << >> /\ list[Len(list)].outcome = "sent" => (StaysOpen(c.head) <=> open)

(* A request of the list and what the configuration has for it. *)
Planned(x, s, limit, close) ==
  /\ x.request.minor \in {0, 1} /\ Accepted(x.source, limit)
  /\ x.plan = PlanFrom(s, x.source, close)

LEMMA SilentIs == Reader(Silent) /\ Silent = At("idle", None, 0, 0, << >>)
<1>1. Silent = At("idle", None, 0, 0, << >>)
  BY DEF Silent, At
<1> DEFINE none == << >>
           zero == 0
<1>2. IsList(none) /\ zero \in Nat
  BY DEF IsList
<1> HIDE DEF none, zero
<1>3. Reader(At("idle", None, zero, zero, none))
  BY <1>2, AtIs
<1>. QED  BY <1>1, <1>3 DEF none, zero

LEMMA NothingAsked ==
  ASSUME NEW s, NEW open
  PROVE  Understands(<< >>, << >>, s, open)
<1> DEFINE none == << >>
           c == ReadOn(none, Silent, none)
<1>1. c = Silent
  BY ReadOnEmpty
<1>2. Reader(Silent) /\ Silent = At("idle", None, 0, 0, none)
  BY SilentIs
<1>3. SentOf(none) = none
  <2>1. [k \in DOMAIN none |-> IF none[k].outcome = "sent" THEN <<none[k]>> ELSE << >>] = none
    OBVIOUS
  <2> HIDE DEF none
  <2>2. SentOf(none) = FlattenSeq(none)
    BY <2>1 DEF SentOf, none
  <2>. QED  BY <2>2, FlattenEmpty DEF none
<1>4. Len(none) = 0
  OBVIOUS
<1> HIDE DEF none, c
<1>5. Silent.head = None /\ Silent.done = none /\ Silent.state = "idle"
  BY <1>2, AtIs
<1>6. Follows(none, s, c)
  <2>1. \A k \in 1..0 : Right(s, c.done[k], SentOf(none)[k])
    OBVIOUS
  <2>. QED  BY <1>1, <1>2, <1>3, <1>4, <1>5, <2>1 DEF Follows
<1>7. Between(none, c)
  BY <1>1, <1>2, <1>3, <1>5 DEF Between
<1>8. Understands(none, none, s, open)
  BY <1>6, <1>7 DEF Understands, c, none
<1>. QED  BY <1>8 DEF none

(* What it has understood stays, whatever is asked next.                   *)
LEMMA ClientStays ==
  ASSUME NEW list, IsList(list), NEW w, AllProper(w), NEW s, Understands(list, w, s, TRUE),
         NEW x, Clear(Append(list, x))
  PROVE  LET c == ReadOn(Append(list, x), Silent, w)
         IN  /\ Clear(list) /\ ~EmptyChunk(x) /\ ~MissingBody(x)
             /\ Follows(list, s, c) /\ Between(list, c)
<1> DEFINE more == Append(list, x)
           c == ReadOn(list, Silent, w)
<1>1. /\ DOMAIN list = 1..Len(list) /\ DOMAIN more = 1..(Len(list) + 1) /\ Len(list) \in Nat
      /\ more[Len(list) + 1] = x /\ \A k \in 1..Len(list) : more[k] = list[k]
  BY ListAppend
<1> HIDE DEF more
<1>2. Clear(list) /\ ~EmptyChunk(x) /\ ~MissingBody(x)
  <2>1. \A k \in DOMAIN list : k \in DOMAIN more /\ more[k] = list[k]
    BY <1>1
  <2>2. Len(list) + 1 \in DOMAIN more
    BY <1>1
  <2>3. \A k \in DOMAIN more : ~EmptyChunk(more[k]) /\ ~MissingBody(more[k])
    BY DEF Clear, more
  <2>. QED  BY <1>1, <2>1, <2>2, <2>3 DEF Clear
<1>3. Follows(list, s, c) /\ Between(list, c)
  BY <1>2 DEF Understands
<1> DEFINE S == ToSet(w)
<1>4. w \in Seq(S) /\ \A p \in S : Proper(p)
  BY DEF AllProper, IsList
<1>5. c.state # "confused" /\ Reader(Silent)
  BY <1>3, SilentIs DEF Follows
<1> HIDE DEF S
<1>6. ReadOn(Append(list, x), Silent, w) = c
  BY <1>4, <1>5, AsksMoreAndReads
<1>. QED  BY <1>2, <1>3, <1>6

LEMMA MoreLen ==
  ASSUME NEW list, IsList(list), NEW x
  PROVE  Len(Append(list, x)) = Len(list) + 1
<1> DEFINE S == ToSet(list)
<1>1. list \in Seq(S)
  BY DEF IsList
<1> HIDE DEF S
<1>. QED  BY <1>1

LEMMA NoneSent ==
  ASSUME NEW list, IsList(list), NEW w, AllProper(w), NEW s, Understands(list, w, s, TRUE),
         NEW x, x.outcome # "sent"
  PROVE  Understands(Append(list, x), w, s, FALSE)
<1> DEFINE more == Append(list, x)
           c == ReadOn(more, Silent, w)
<1> SUFFICES ASSUME Clear(more)
             PROVE  /\ Follows(more, s, c)
                    /\ more[Len(more)].outcome # "sent"
  BY DEF Understands
<1>1. Follows(list, s, c)
  BY ClientStays
<1>2. SentOf(more) = SentOf(list)
  BY SentGrows
<1>3. more[Len(list) + 1] = x /\ Len(more) = Len(list) + 1
  BY ListAppend, MoreLen
<1>. QED  BY <1>1, <1>2, <1>3 DEF Follows

(* The pieces of a response that is planned, whole or cut. *)
LEMMA PlannedFits ==
  ASSUME NEW s, ValidHeaders(s.headers), IsFiniteSet(DOMAIN s.headers),
         NEW x, NEW limit, NEW close, Planned(x, s, limit, close)
  PROVE  /\ Fit(x.plan) /\ x.plan.status = x.source.status /\ x.plan.close = close
         /\ BodyLength(x.plan) = Static(x.source) /\ BodyLength(x.plan) \in Nat
         /\ \A n \in DOMAIN x.plan.headers : MeantFor(s, x.source, n) = {x.plan.headers[n]}
<1> DEFINE r == x.source
           plan == PlanFrom(s, r, close)
<1>1. Accepted(r, limit) /\ x.plan = plan
  BY DEF Planned
<1> HIDE DEF r
<1>2. /\ Fit(plan) /\ plan.status = r.status /\ plan.close = close
      /\ BodyLength(plan) = Static(r)
      /\ \A n \in DOMAIN plan.headers : MeantFor(s, r, n) = {plan.headers[n]}
  BY <1>1, PlanFits
<1> HIDE DEF plan
<1>3. BodyLength(plan) \in Nat
  BY <1>2, TotalType DEF BodyLength, Fit
<1>. QED  BY <1>1, <1>2, <1>3 DEF r

PiecesOf(x) == Pieces(x.request.minor, x.request.method, x.plan)

LEMMA PiecesProper ==
  ASSUME NEW s, ValidHeaders(s.headers), IsFiniteSet(DOMAIN s.headers),
         NEW x, NEW limit, NEW close, Planned(x, s, limit, close), NEW w, AllProper(w)
  PROVE  \E S : /\ \A p \in S : Proper(p)
                /\ \A n \in Nat \ {0} : DataPiece(n) \in S
                /\ w \in Seq(S) /\ PiecesOf(x) \in Seq(S)
<1> DEFINE h == HeadPiece(x.request.minor, x.plan)
           pieces == PiecesOf(x)
           T == ToSet(w)
           B == BodyPieces
           S == (T \cup {h}) \cup B
<1>1. x.request.minor \in {0, 1} /\ Fit(x.plan)
  BY PlannedFits DEF Planned
<1>2. Proper(h) /\ pieces \in Seq({h} \cup B)
  <2> DEFINE minor == x.request.minor
             method == x.request.method
             plan == x.plan
  <2> HIDE DEF minor, method, plan
  <2>1. Proper(HeadPiece(minor, plan))
    BY <1>1, HeadIs DEF minor, plan
  <2>2. Pieces(minor, method, plan) \in Seq({HeadPiece(minor, plan)} \cup BodyPieces)
    BY <1>1, PiecesAre DEF minor, plan
  <2>. QED  BY <2>1, <2>2 DEF minor, method, plan, PiecesOf
<1>3. (\A p \in B : Proper(p)) /\ \A n \in Nat \ {0} : DataPiece(n) \in B
  BY BodyPiecesAre
<1>4. w \in Seq(T) /\ \A p \in T : Proper(p)
  BY DEF AllProper, IsList
<1> HIDE DEF h, pieces, T, B
<1>5. \A p \in S : Proper(p)
  BY <1>2, <1>3, <1>4
<1>6. w \in Seq(S) /\ pieces \in Seq(S)
  BY <1>2, <1>4
<1>7. \A n \in Nat \ {0} : DataPiece(n) \in S
  BY <1>3
<1> HIDE DEF S
<1>. QED  BY <1>5, <1>6, <1>7 DEF pieces

LEMMA MoreProper ==
  ASSUME NEW S, \A p \in S : Proper(p), NEW w \in Seq(S), NEW v \in Seq(S)
  PROVE  AllProper(w \o v)
<1> DEFINE u == w \o v
<1>1. u \in Seq(S)
  OBVIOUS
<1> HIDE DEF u
<1>2. IsList(u)
  BY <1>1, ListOf
<1>3. \A i \in DOMAIN u : u[i] \in S
  BY <1>1
<1>4. \A p \in ToSet(u) : Proper(p)
  BY <1>3 DEF ToSet
<1>. QED  BY <1>2, <1>4 DEF AllProper, u

LEMMA CutsType ==
  ASSUME NEW S, \A p \in S : Proper(p), \A n \in Nat \ {0} : DataPiece(n) \in S,
         NEW pieces \in Seq(S), NEW sent \in Cuts(pieces)
  PROVE  sent \in Seq(S)
<1> DEFINE l == Len(pieces)
<1>1. l \in Nat /\ DOMAIN pieces = 1..l
  OBVIOUS
<1>2. CASE sent \in {SubSeq(pieces, 1, n) : n \in 0..(l - 1)}
  BY <1>2
<1>3. CASE sent \in {SubSeq(pieces, 1, n - 1) \o Data(pieces[n].bytes - 1) :
                       n \in {k \in DOMAIN pieces : pieces[k].piece = "data"}}
  <2>1. PICK n \in DOMAIN pieces : /\ pieces[n].piece = "data"
                                   /\ sent = SubSeq(pieces, 1, n - 1) \o Data(pieces[n].bytes - 1)
    BY <1>3
  <2> DEFINE front == SubSeq(pieces, 1, n - 1)
             b == pieces[n].bytes - 1
             d == Data(b)
  <2>2. front \in Seq(S) /\ pieces[n] \in S
    BY <1>1
  <2>3. b \in Nat
    BY <2>1, <2>2 DEF Proper
  <2> HIDE DEF front, b
  <2>4. d \in Seq(S)
    <3>1. CASE b = 0
      <4>1. d = << >>
        BY <3>1 DEF Data
      <4>. QED  BY <4>1, EmptySeq
    <3>2. CASE b # 0
      <4> DEFINE q == DataPiece(b)
      <4>1. d = <<q>> /\ q \in S
        BY <2>3, <3>2, FramedType
      <4> HIDE DEF q, d
      <4>. QED  BY <4>1
    <3>. QED  BY <3>1, <3>2
  <2>5. sent = front \o d
    BY <2>1 DEF front, b
  <2> HIDE DEF d
  <2>. QED  BY <2>2, <2>4, <2>5
<1>4. sent \in {SubSeq(pieces, 1, n) : n \in 0..(l - 1)}
        \cup {SubSeq(pieces, 1, n - 1) \o Data(pieces[n].bytes - 1) :
                n \in {k \in DOMAIN pieces : pieces[k].piece = "data"}}
  BY DEF Cuts
<1>. QED  BY <1>2, <1>3, <1>4

(* What a whole response makes of a client that has understood all before. *)
Answers(s, x, close, c, d) ==
  \E h : /\ d = At("idle", h, 0, 0, Append(c.done, Whole(h, BodyMeant(x))))
         /\ h.status = x.source.status /\ (StaysOpen(h) <=> ~close)
         /\ \A n \in {"x", "y"} \cap DOMAIN h.headers :
              MeantFor(s, x.source, n) = {h.headers[n]}

LEMMA PiecesUnderstood ==
  ASSUME NEW s, ValidHeaders(s.headers), IsFiniteSet(DOMAIN s.headers),
         NEW x, NEW limit, NEW close \in BOOLEAN, Planned(x, s, limit, close),
         ~EmptyChunk(x), ~MissingBody(x),
         NEW list, IsList(list), NEW c, Reader(c), Between(list, c),
         Len(c.done) = Len(SentOf(list))
  PROVE  Answers(s, x, close, c, ReadOn(Append(list, x), c, PiecesOf(x)))
<1> DEFINE minor == x.request.minor
           method == x.request.method
           plan == x.plan
           more == Append(list, x)
           h == HeadPiece(minor, plan)
           done == c.done
           before == c.head
<1>1. /\ minor \in {0, 1} /\ Fit(plan) /\ plan.status = x.source.status /\ plan.close = close
      /\ BodyLength(plan) = Static(x.source) /\ BodyLength(plan) \in Nat
      /\ \A n \in DOMAIN plan.headers : MeantFor(s, x.source, n) = {plan.headers[n]}
  <2>1. minor \in {0, 1}
    BY DEF Planned
  <2>2. /\ Fit(x.plan) /\ x.plan.status = x.source.status /\ x.plan.close = close
        /\ BodyLength(x.plan) = Static(x.source) /\ BodyLength(x.plan) \in Nat
        /\ \A n \in DOMAIN x.plan.headers : MeantFor(s, x.source, n) = {x.plan.headers[n]}
    BY PlannedFits
  <2>. QED  BY <2>1, <2>2
<1>2. ~(Chunked(minor, plan) /\ 0 \in ToSet(plan.chunks))
  BY DEF EmptyChunk, Chunked
<1>3. method = "head" => BodyLength(plan) = 0
  BY <1>1 DEF MissingBody
<1>4. BodyMeant(x) = IF method = "HEAD" THEN 0 ELSE BodyLength(plan)
  BY <1>1 DEF BodyMeant
<1>5. /\ Len(more) = Len(list) + 1 /\ more[Len(list) + 1] = x /\ Len(list) \in Nat
      /\ Len(done) = Len(list) /\ IsList(done) /\ c = At("idle", before, 0, 0, done)
  BY ListAppend, MoreLen DEF Between, Reader
<1>6. Len(done) < Len(more) /\ more[Len(done) + 1].request.method = method
  BY <1>5
<1>7. PiecesOf(x) = Pieces(minor, method, plan)
  BY DEF PiecesOf
<1> HIDE DEF minor, method, plan, more, done, before
<1>8. ReadOn(more, At("idle", before, 0, 0, done), Pieces(minor, method, plan)) =
        At("idle", h, 0, 0, Append(done, Whole(h, IF method = "HEAD" THEN 0 ELSE BodyLength(plan))))
  BY <1>1, <1>2, <1>3, <1>5, <1>6, ResponseRead
<1>9. h.status = plan.status /\ h.headers = ResponseHeaders(minor, plan) /\ (StaysOpen(h) <=> ~plan.close)
  BY <1>1, HeadIs
<1>10. \A n \in {"x", "y"} \cap DOMAIN h.headers : n \in DOMAIN plan.headers /\ h.headers[n] = plan.headers[n]
  <2>1. LET H == ResponseHeaders(minor, plan)
        IN  \A n \in {"x", "y"} \cap DOMAIN H : n \in DOMAIN plan.headers /\ H[n] = plan.headers[n]
    BY <1>1, HeadersAre
  <2> HIDE DEF h
  <2>. QED  BY <1>9, <2>1
<1> HIDE DEF h
<1>11. \A n \in {"x", "y"} \cap DOMAIN h.headers : MeantFor(s, x.source, n) = {h.headers[n]}
  BY <1>1, <1>10
<1>12. ReadOn(more, c, PiecesOf(x)) = At("idle", h, 0, 0, Append(done, Whole(h, BodyMeant(x))))
  BY <1>4, <1>5, <1>7, <1>8
<1> DEFINE d == ReadOn(more, c, PiecesOf(x))
<1> HIDE DEF d
<1>13. Answers(s, x, close, c, d)
  BY <1>1, <1>9, <1>11, <1>12 DEF Answers, done, d
<1>. QED  BY <1>13 DEF d, more

LEMMA WholeSent ==
  ASSUME NEW s, ValidHeaders(s.headers), IsFiniteSet(DOMAIN s.headers),
         NEW x, NEW limit, NEW close \in BOOLEAN, Planned(x, s, limit, close), x.outcome = "sent",
         NEW list, IsList(list), NEW w, AllProper(w), Understands(list, w, s, TRUE)
  PROVE  Understands(Append(list, x), w \o PiecesOf(x), s, ~close)
<1> DEFINE more == Append(list, x)
           pieces == PiecesOf(x)
           d == ReadOn(more, Silent, w \o pieces)
           c == ReadOn(more, Silent, w)
           n == Len(SentOf(list))
<1> SUFFICES ASSUME Clear(more)
             PROVE  /\ Follows(more, s, d) /\ (~close => Between(more, d))
                    /\ StaysOpen(d.head) <=> ~close
  BY DEF Understands
<1>1. /\ ~EmptyChunk(x) /\ ~MissingBody(x) /\ Follows(list, s, c) /\ Between(list, c)
  BY ClientStays
<1>2. PICK S : (\A p \in S : Proper(p)) /\ w \in Seq(S) /\ pieces \in Seq(S)
  BY PiecesProper
<1>3. Reader(c) /\ Len(c.done) = n
  BY <1>1 DEF Follows
<1>4. d = ReadOn(more, c, pieces)
  <2> HIDE DEF more, pieces
  <2>. QED  BY <1>2, ReadOnConcat
<1> HIDE DEF c, d
<1>5. Answers(s, x, close, c, ReadOn(more, c, pieces))
  BY <1>1, <1>3, PiecesUnderstood
<1> HIDE DEF more, pieces
<1>6. PICK h : /\ d = At("idle", h, 0, 0, Append(c.done, Whole(h, BodyMeant(x))))
               /\ h.status = x.source.status /\ (StaysOpen(h) <=> ~close)
               /\ \A k \in {"x", "y"} \cap DOMAIN h.headers :
                    MeantFor(s, x.source, k) = {h.headers[k]}
  BY <1>4, <1>5 DEF Answers
<1> DEFINE y == Whole(h, BodyMeant(x))
           done == Append(c.done, y)
<1>7. /\ IsList(done) /\ Len(done) = n + 1 /\ done[n + 1] = y /\ n \in Nat
      /\ \A k \in 1..n : done[k] = c.done[k]
  <2>1. IsList(c.done)
    BY <1>3 DEF Reader
  <2> DEFINE e == c.done
  <2> HIDE DEF e, y
  <2>2. /\ IsList(Append(e, y)) /\ Len(Append(e, y)) = Len(e) + 1 /\ Len(e) \in Nat
        /\ Append(e, y)[Len(e) + 1] = y /\ \A k \in 1..Len(e) : Append(e, y)[k] = e[k]
    BY <2>1, ListAppend, MoreLen DEF e
  <2>. QED  BY <1>3, <2>2 DEF e
<1>8. Right(s, y, x)
  <2>1. y.head = h /\ y.body = BodyMeant(x)
    BY DEF Whole
  <2> HIDE DEF y
  <2>. QED  BY <1>6, <2>1 DEF Right
<1> HIDE DEF y
<1>9. d = At("idle", h, 0, 0, done)
  BY <1>6 DEF y
<1> HIDE DEF done
<1>10. d.state = "idle" /\ d.head = h /\ d.done = done /\ Reader(d)
  <2> DEFINE zero == 0
  <2>1. zero \in Nat /\ d = At("idle", h, zero, zero, done)
    BY <1>9
  <2> HIDE DEF zero
  <2>. QED  BY <1>7, <2>1, AtIs
<1>11. /\ SentOf(more) = Append(SentOf(list), x) /\ Len(SentOf(more)) = n + 1
       /\ SentOf(more)[n + 1] = x /\ \A k \in 1..n : SentOf(more)[k] = SentOf(list)[k]
  <2>1. SentOf(more) = Append(SentOf(list), x) /\ IsList(SentOf(list))
    BY SentGrows DEF more
  <2> DEFINE e == SentOf(list)
  <2> HIDE DEF e
  <2>2. /\ Len(Append(e, x)) = Len(e) + 1
        /\ Append(e, x)[Len(e) + 1] = x /\ \A k \in 1..Len(e) : Append(e, x)[k] = e[k]
    BY <2>1, ListAppend, MoreLen DEF e
  <2>. QED  BY <2>1, <2>2 DEF e
<1>12. Follows(more, s, d)
  <2> SUFFICES ASSUME NEW k \in 1..(n + 1) PROVE Right(s, d.done[k], SentOf(more)[k])
    BY <1>7, <1>10, <1>11 DEF Follows
  <2>1. CASE k = n + 1
    BY <1>7, <1>8, <1>10, <1>11, <2>1
  <2>2. CASE k # n + 1
    <3>1. k \in 1..n
      BY <1>7, <2>2
    <3>2. Right(s, c.done[k], SentOf(list)[k])
      BY <1>1, <3>1 DEF Follows
    <3>. QED  BY <1>7, <1>10, <1>11, <3>1, <3>2
  <2>. QED  BY <2>1, <2>2
<1>13. Between(more, d)
  <2>1. n = Len(list) /\ Len(more) = Len(list) + 1
    BY <1>1, MoreLen DEF Between, more
  <2>. QED  BY <1>9, <1>10, <1>11, <2>1 DEF Between
<1>. QED  BY <1>6, <1>10, <1>12, <1>13

LEMMA PartSent ==
  ASSUME NEW s, ValidHeaders(s.headers), IsFiniteSet(DOMAIN s.headers),
         NEW x, NEW limit, NEW close \in BOOLEAN, Planned(x, s, limit, close), x.outcome = "cut",
         NEW list, IsList(list), NEW w, AllProper(w), Understands(list, w, s, TRUE),
         NEW sent \in Cuts(PiecesOf(x))
  PROVE  Understands(Append(list, x), w \o sent, s, FALSE)
<1> DEFINE more == Append(list, x)
           pieces == PiecesOf(x)
           d == ReadOn(more, Silent, w \o sent)
           c == ReadOn(more, Silent, w)
<1> SUFFICES ASSUME Clear(more)
             PROVE  Follows(more, s, d) /\ more[Len(more)].outcome # "sent"
  BY DEF Understands
<1>1. /\ ~EmptyChunk(x) /\ ~MissingBody(x) /\ Follows(list, s, c) /\ Between(list, c)
  BY ClientStays
<1>2. PICK S : /\ \A p \in S : Proper(p)
               /\ \A n \in Nat \ {0} : DataPiece(n) \in S
               /\ w \in Seq(S) /\ pieces \in Seq(S)
  BY PiecesProper
<1>3. Reader(c) /\ Len(c.done) = Len(SentOf(list))
  BY <1>1 DEF Follows
<1>4. \A n \in Nat \ {0} : [piece |-> "data", bytes |-> n] \in S
  BY <1>2 DEF DataPiece
<1>5. pieces # << >> /\ pieces[1].piece # "data" /\ OneHead(pieces)
  <2> DEFINE minor == x.request.minor
             method == x.request.method
             plan == x.plan
  <2>1. minor \in {0, 1} /\ Fit(plan)
    BY PlannedFits DEF Planned
  <2> HIDE DEF minor, method, plan
  <2>2. /\ Pieces(minor, method, plan) # << >> /\ OneHead(Pieces(minor, method, plan))
        /\ Pieces(minor, method, plan)[1] = HeadPiece(minor, plan)
    BY <2>1, PiecesAre
  <2>3. HeadPiece(minor, plan).piece = "head"
    BY <2>1, HeadIs
  <2>4. PiecesOf(x) = Pieces(minor, method, plan)
    BY DEF PiecesOf, minor, method, plan
  <2>. QED  BY <2>2, <2>3, <2>4
<1> HIDE DEF c
<1>6. ReadOn(more, c, pieces).state # "confused"
  <2>0. Answers(s, x, close, c, ReadOn(more, c, pieces))
    BY <1>1, <1>3, PiecesUnderstood
  <2>1. PICK h : ReadOn(more, c, pieces) =
                   At("idle", h, 0, 0, Append(c.done, Whole(h, BodyMeant(x))))
    BY <2>0 DEF Answers
  <2> DEFINE zero == 0
             done == Append(c.done, Whole(h, BodyMeant(x)))
  <2> HIDE DEF zero, done
  <2>2. At("idle", h, zero, zero, done).state = "idle"
    BY AtIs
  <2>. QED  BY <2>1, <2>2 DEF zero, done
<1>7. sent \in Cuts(pieces)
  OBVIOUS
<1> HIDE DEF more, pieces
<1>8. /\ sent \in Seq(S) /\ ReadOn(more, c, sent).state # "confused"
      /\ ReadOn(more, c, sent).done = c.done
  BY <1>2, <1>3, <1>4, <1>5, <1>6, <1>7, CutRead
<1>9. d = ReadOn(more, c, sent)
  BY <1>2, <1>8, ReadOnConcat DEF c
<1>10. Reader(ReadOn(more, c, sent))
  BY <1>2, <1>3, <1>8, PiecesRead
<1>11. SentOf(more) = SentOf(list)
  BY SentGrows DEF more
<1> HIDE DEF d
<1>12. Follows(more, s, d)
  BY <1>1, <1>8, <1>9, <1>10, <1>11 DEF Follows
<1>13. more[Len(list) + 1] = x /\ Len(more) = Len(list) + 1
  BY ListAppend, MoreLen DEF more
<1>. QED  BY <1>12, <1>13 DEF d, more

LEMMA PlannedSize ==
  ASSUME NEW s, ValidHeaders(s.headers), IsFiniteSet(DOMAIN s.headers),
         NEW x, NEW limit, NEW close, Planned(x, s, limit, close)
  PROVE  /\ WireSize(PiecesOf(x)) = IntendedWireSize(x.request.minor, x.request.method, x.plan)
         /\ WireSize(PiecesOf(x)) \in Nat
<1> DEFINE minor == x.request.minor
           method == x.request.method
           plan == x.plan
           h == HeadPiece(minor, plan)
           pieces == Pieces(minor, method, plan)
           S == {h} \cup BodyPieces
<1>1. minor \in {0, 1}
  BY DEF Planned
<1>2. Fit(plan)
  BY PlannedFits
<1> HIDE DEF minor, method, plan
<1>3. pieces \in Seq(S) /\ WireSize(pieces) = IntendedWireSize(minor, method, plan)
  BY <1>1, <1>2, PiecesAre
<1>4. h.bytes \in Nat
  BY <1>1, <1>2, HeadIs
<1>5. Sized(S)
  BY <1>4, BodyPiecesSized DEF Sized
<1> HIDE DEF S, pieces
<1>6. WireSize(pieces) \in Nat
  BY <1>3, <1>5, WireSizeConcat
<1>. QED  BY <1>3, <1>6 DEF pieces, minor, method, plan, PiecesOf

-----------------------------------------------------------------------------
(* Every client of the sensor has understood what was sent to it.          *)
Understood ==
  /\ phase \notin Serving => wire = << >>
  /\ phase \in Serving => AllProper(wire) /\ Understands(asked, wire, service, phase = "connected")
  /\ RefusedOnlyForSize

(* One request more, and one outcome. *)
WithinLimit(x, limit) ==
  LET size == WireSize(PiecesOf(x))
  IN  /\ x.outcome \in {"sent", "cut"} => size <= limit
      /\ x.outcome = "limit" => size > limit

Happens(x, w, v, close, now) ==
  \/ x.outcome \in {"limit", "tunnel"} /\ v = w /\ now = "closed"
  \/ x.outcome = "sent" /\ v = w \o PiecesOf(x) /\ now = IF close THEN "closed" ELSE "connected"
  \/ /\ x.outcome = "cut" /\ now = "closed"
     /\ \E sent \in Cuts(PiecesOf(x)) : v = w \o sent

LEMMA OutcomeUnderstood ==
  ASSUME NEW s, ValidHeaders(s.headers), IsFiniteSet(DOMAIN s.headers),
         NEW x, NEW limit, NEW close \in BOOLEAN, Planned(x, s, limit, close),
         NEW list, IsList(list), NEW w, AllProper(w), Understands(list, w, s, TRUE),
         NEW v, NEW now, Happens(x, w, v, close, now)
  PROVE  AllProper(v) /\ Understands(Append(list, x), v, s, now = "connected")
<1> DEFINE pieces == PiecesOf(x)
           more == Append(list, x)
<1>1. PICK S : /\ \A p \in S : Proper(p)
               /\ \A n \in Nat \ {0} : DataPiece(n) \in S
               /\ w \in Seq(S) /\ pieces \in Seq(S)
  BY PiecesProper
<1>2. CASE x.outcome \in {"limit", "tunnel"} /\ v = w /\ now = "closed"
  <2>0. x.outcome # "sent"
    BY <1>2
  <2>1. Understands(more, w, s, FALSE)
    BY <2>0, NoneSent
  <2>. QED  BY <1>2, <2>1
<1>3. CASE x.outcome = "sent" /\ v = w \o pieces /\ now = IF close THEN "closed" ELSE "connected"
  <2>1. Understands(more, w \o pieces, s, ~close)
    BY <1>3, WholeSent
  <2>2. AllProper(w \o pieces)
    <3> HIDE DEF pieces
    <3>. QED  BY <1>1, MoreProper
  <2>3. now = "connected" <=> ~close
    BY <1>3
  <2> HIDE DEF more, pieces
  <2>4. Understands(more, v, s, now = "connected")
    BY <1>3, <2>1, <2>3 DEF Understands
  <2>. QED  BY <1>3, <2>2, <2>4 DEF more
<1>4. CASE /\ x.outcome = "cut" /\ now = "closed"
           /\ \E sent \in Cuts(pieces) : v = w \o sent
  <2>1. PICK sent \in Cuts(pieces) : v = w \o sent
    BY <1>4
  <2>2. Understands(more, w \o sent, s, FALSE)
    BY <1>4, PartSent
  <2>3. AllProper(w \o sent)
    <3> HIDE DEF pieces
    <3>1. sent \in Seq(S)
      BY <1>1, CutsType
    <3>. QED  BY <1>1, <3>1, MoreProper
  <2>. QED  BY <1>4, <2>1, <2>2, <2>3
<1>. QED  BY <1>2, <1>3, <1>4 DEF Happens

LEMMA ServeUnderstood ==
  ASSUME EInv, Understood, NEW request \in Requests(cfg), Serve(request)
  PROVE  Understood'
<1> DEFINE close == CloseAfter(request)
           limit == cfg.limits.max_response_bytes
           sel == SelectResponse(service, request.method, request.path, counts, close)
           x(outcome) == [request |-> request, source |-> sel.source, plan |-> sel.plan,
                          outcome |-> outcome, line |-> Line(request, outcome)]
<1>1. UNCHANGED <<cfg, bound, service>> /\ phase = "connected" /\ Respond(request, sel)
  BY DEF Serve
<1>2. /\ IsList(asked) /\ Tallied /\ AllProper(wire) /\ Understands(asked, wire, service, TRUE)
      /\ RefusedOnlyForSize
  <2>1. phase = "connected" /\ phase \in Serving
    BY <1>1 DEF Serving
  <2>2. IsList(asked) /\ Tallied /\ AllProper(wire) /\ Understands(asked, wire, service, phase = "connected")
    BY <2>1 DEF EInv, Answering, Understood
  <2>3. Understands(asked, wire, service, TRUE)
    BY <2>1, <2>2 DEF Understands
  <2>. QED  BY <2>2, <2>3 DEF Understood
<1>3. cfg \in Candidates /\ Validate(cfg) /\ service \in ToSet(Enabled(cfg)) /\ Ready(service)
  <2>1. cfg \in Candidates /\ Validate(cfg) /\ service \in ToSet(Enabled(cfg))
    BY <1>1 DEF EInv, Bound, Serving, Refused
  <2>. QED  BY <2>1, ValidServices DEF Ready, ToSet
<1>4. Offers(service, limit) /\ limit \in Nat
  <2>1. limit \in Nat
    BY <1>3 DEF Validate, ValidLimits, Ceiling
  <2>. QED  BY <1>3, <2>1, ServicesOffer
<1>5. request.minor \in {0, 1}
  BY <1>3, ExchangeAssumption DEF Described
<1>6. close \in BOOLEAN
  BY DEF CloseAfter
<1> HIDE DEF close, limit
<1>7. Accepted(sel.source, limit) /\ sel.plan = PlanFrom(service, sel.source, close)
  BY <1>2, <1>3, <1>4, SelectedIs
<1> HIDE DEF sel
<1>8. ASSUME NEW outcome
      PROVE  /\ Planned(x(outcome), service, limit, close)
             /\ x(outcome).outcome = outcome
             /\ PiecesOf(x(outcome)) = Pieces(request.minor, request.method, sel.plan)
             /\ WireSize(PiecesOf(x(outcome))) = IntendedWireSize(request.minor, request.method, sel.plan)
             /\ WireSize(PiecesOf(x(outcome))) \in Nat
  <2> DEFINE y == x(outcome)
  <2>1. y.request = request /\ y.source = sel.source /\ y.plan = sel.plan /\ y.outcome = outcome
    OBVIOUS
  <2> HIDE DEF y, x
  <2>2. Planned(y, service, limit, close)
    BY <1>5, <1>7, <2>1 DEF Planned
  <2>3. ValidHeaders(service.headers) /\ IsFiniteSet(DOMAIN service.headers)
    BY <1>4 DEF Offers
  <2>4. /\ WireSize(PiecesOf(y)) = IntendedWireSize(y.request.minor, y.request.method, y.plan)
        /\ WireSize(PiecesOf(y)) \in Nat
    BY <2>2, <2>3, PlannedSize
  <2>. QED  BY <2>1, <2>2, <2>4 DEF y, PiecesOf
<1>9. sel.source # None /\ sel.plan.close = close
  <2>1. sel.source # None
    BY <1>7 DEF Accepted
  <2>. QED  BY <1>7, <2>1 DEF PlanFrom
<1>10. \E outcome \in {"tunnel", "limit", "sent", "cut"} :
         /\ asked' = Append(asked, x(outcome))
         /\ Happens(x(outcome), wire, wire', close, phase')
         /\ WithinLimit(x(outcome), limit)
  <2> DEFINE plan == sel.plan
             pieces == Pieces(request.minor, request.method, plan)
             size == IntendedWireSize(request.minor, request.method, plan)
  <2>1. \A outcome : Ask(request, sel, outcome) => asked' = Append(asked, x(outcome))
    BY DEF Ask
  <2>2. size \in Nat
    BY <1>8
  <2>3. \/ Ask(request, sel, "tunnel") /\ phase' = "closed" /\ wire' = wire
        \/ Ask(request, sel, "limit") /\ phase' = "closed" /\ wire' = wire /\ size > limit
        \/ /\ ~(size > limit) /\ Ask(request, sel, "sent") /\ wire' = wire \o pieces
           /\ phase' = IF close THEN "closed" ELSE "connected"
        \/ /\ ~(size > limit) /\ Ask(request, sel, "cut") /\ phase' = "closed"
           /\ \E sent \in Cuts(pieces) : wire' = wire \o sent
    <3> DEFINE tunnel == request.method = "CONNECT" /\ plan.status \in 200..299
    <3>1. IF tunnel THEN phase' = "closed" /\ Ask(request, sel, "tunnel") /\ UNCHANGED wire
          ELSE IF size > limit
            THEN phase' = "closed" /\ Ask(request, sel, "limit") /\ UNCHANGED wire
          ELSE \/ /\ wire' = wire \o pieces /\ Ask(request, sel, "sent")
                  /\ phase' = IF plan.close THEN "closed" ELSE "connected"
               \/ \E sent \in Cuts(pieces) :
                    wire' = wire \o sent /\ Ask(request, sel, "cut") /\ phase' = "closed"
      BY <1>1, <1>9, Zenon DEF Respond, limit
    <3> HIDE DEF tunnel, pieces, size, x
    <3>. QED  BY <1>9, <3>1
  <2> HIDE DEF x, pieces, size
  <2>4. \A outcome : /\ x(outcome).outcome = outcome /\ PiecesOf(x(outcome)) = pieces
                     /\ WireSize(PiecesOf(x(outcome))) = size
    BY <1>8 DEF pieces, size
  <2>5. CASE Ask(request, sel, "tunnel") /\ phase' = "closed" /\ wire' = wire
    BY <2>1, <2>4, <2>5 DEF Happens, WithinLimit
  <2>6. CASE Ask(request, sel, "limit") /\ phase' = "closed" /\ wire' = wire /\ size > limit
    BY <2>1, <2>4, <2>6 DEF Happens, WithinLimit
  <2>7. CASE /\ ~(size > limit) /\ Ask(request, sel, "sent") /\ wire' = wire \o pieces
             /\ phase' = IF close THEN "closed" ELSE "connected"
    BY <1>4, <2>1, <2>2, <2>4, <2>7 DEF Happens, WithinLimit
  <2>8. CASE /\ ~(size > limit) /\ Ask(request, sel, "cut") /\ phase' = "closed"
             /\ \E sent \in Cuts(pieces) : wire' = wire \o sent
    <3> DEFINE y == x("cut")
    <3>1. y.outcome = "cut" /\ PiecesOf(y) = pieces /\ WireSize(PiecesOf(y)) = size
      BY <2>4
    <3>2. asked' = Append(asked, y)
      BY <2>1, <2>8
    <3> HIDE DEF y
    <3>3. Happens(y, wire, wire', close, phase')
      BY <2>8, <3>1 DEF Happens
    <3>4. WithinLimit(y, limit)
      BY <1>4, <2>2, <2>8, <3>1 DEF WithinLimit
    <3>. QED  BY <3>2, <3>3, <3>4 DEF y
  <2>. QED  BY <2>3, <2>5, <2>6, <2>7, <2>8
<1>11. PICK outcome : /\ asked' = Append(asked, x(outcome))
                      /\ Happens(x(outcome), wire, wire', close, phase')
                      /\ WithinLimit(x(outcome), limit)
  BY <1>10
<1> DEFINE y == x(outcome)
<1>12. Planned(y, service, limit, close)
  BY <1>8
<1> HIDE DEF x, y
<1>13. AllProper(wire') /\ Understands(asked', wire', service, phase' = "connected")
  <2>1. ValidHeaders(service.headers) /\ IsFiniteSet(DOMAIN service.headers)
    BY <1>4 DEF Offers
  <2> DEFINE v == wire'
             now == phase'
  <2>2. Happens(y, wire, v, close, now)
    BY <1>11 DEF y
  <2> HIDE DEF v, now
  <2>3. AllProper(v) /\ Understands(Append(asked, y), v, service, now = "connected")
    BY <1>2, <1>6, <1>12, <2>1, <2>2, OutcomeUnderstood
  <2>. QED  BY <1>11, <2>3 DEF v, now, y
<1>14. RefusedOnlyForSize'
  <2>1. /\ DOMAIN asked = 1..Len(asked) /\ DOMAIN asked' = 1..(Len(asked) + 1)
        /\ Len(asked) \in Nat
        /\ asked'[Len(asked) + 1] = y /\ \A k \in 1..Len(asked) : asked'[k] = asked[k]
    <3>1. asked' = Append(asked, y)
      BY <1>11 DEF y
    <3>. QED  BY <1>2, <3>1, ListAppend
  <2>2. \A k \in DOMAIN asked : WithinLimit(asked[k], limit)
    BY <1>2 DEF RefusedOnlyForSize, WithinLimit, PiecesOf, limit
  <2>3. WithinLimit(y, limit)
    BY <1>11 DEF y
  <2>4. \A k \in DOMAIN asked' : WithinLimit(asked'[k], limit)
    BY <2>1, <2>2, <2>3
  <2>5. cfg' = cfg
    BY <1>1
  <2>. QED  BY <2>4, <2>5 DEF RefusedOnlyForSize, WithinLimit, PiecesOf, limit
<1>15. phase' \in Serving /\ service' = service
  BY <1>1, <1>11 DEF Happens, Serving
<1>. QED  BY <1>13, <1>14, <1>15 DEF Understood

LEMMA NextUnderstood ==
  ASSUME EInv, Understood, [Next]_vars
  PROVE  Understood'
<1>1. CASE UNCHANGED <<cfg, wire, asked>> /\ phase \notin Serving /\ phase' \notin Serving
  BY <1>1 DEF Understood, RefusedOnlyForSize
<1>2. CASE Load
  <2>1. phase \notin Serving /\ phase' \notin Serving /\ UNCHANGED <<cfg, wire, asked>>
    BY <1>2 DEF Load, connection, Serving
  <2>. QED  BY <1>1, <2>1
<1>3. CASE BindNext
  <2>1. UNCHANGED <<cfg, wire, asked>> /\ phase = "bind" /\ (phase' = phase \/ phase' = "bindFailed")
    BY <1>3 DEF BindNext, connection
  <2>. QED  BY <1>1, <2>1 DEF Serving
<1>4. CASE BindDone
  <2>1. phase \notin Serving /\ phase' \notin Serving /\ UNCHANGED <<cfg, wire, asked>>
    BY <1>4 DEF BindDone, connection, Serving
  <2>. QED  BY <1>1, <2>1
<1>5. CASE Connect
  <2>1. phase' = "connected" /\ wire' = << >> /\ asked' = << >>
    BY <1>5 DEF Connect
  <2> DEFINE none == << >>
             s == service'
             open == phase' = "connected"
  <2>2. IsList(none) /\ ToSet(none) = {} /\ DOMAIN none = {}
    BY DEF IsList, ToSet
  <2> HIDE DEF none, s, open
  <2>3. AllProper(none)
    BY <2>2 DEF AllProper
  <2>4. Understands(none, none, s, open)
    BY NothingAsked DEF none
  <2>5. RefusedOnlyForSize'
    BY <2>1, <2>2 DEF RefusedOnlyForSize, none
  <2>. QED  BY <2>1, <2>3, <2>4, <2>5 DEF Understood, Serving, none, s, open
<1>6. ASSUME NEW request \in Requests(cfg), Serve(request) PROVE Understood'
  BY <1>6, ServeUnderstood
<1>7. CASE UNCHANGED vars
  BY <1>7 DEF vars, Understood, RefusedOnlyForSize
<1>. QED  BY <1>2, <1>3, <1>4, <1>5, <1>6, <1>7 DEF Next

LEMMA UnderstoodReads ==
  ASSUME EInv, Understood
  PROVE  ClientReadsTheResponse
<1> DEFINE open == phase = "connected"
<1>1. Understands(asked, wire, service, open)
  <2>1. CASE phase \in Serving
    BY <2>1 DEF Understood
  <2>2. CASE phase \notin Serving
    <3>1. asked = << >> /\ wire = << >>
      BY <2>2 DEF EInv, Answering, Understood
    <3> HIDE DEF open
    <3>2. Understands(<< >>, << >>, service, open)
      BY NothingAsked
    <3>. QED  BY <3>1, <3>2
  <2>. QED  BY <2>1, <2>2
<1>2. RefusedOnlyForSize
  BY DEF Understood
<1>3. Sent = SentOf(asked) /\ Client = ReadOn(asked, Silent, wire)
  BY DEF Sent, SentOf, Client
<1> DEFINE c == Client
           l == SentOf(asked)
<1> SUFFICES ASSUME Clear(asked)
             PROVE  /\ c.state # "confused" /\ Len(c.done) = Len(l)
                    /\ \A k \in DOMAIN l :
                         /\ c.done[k].head.status = l[k].source.status
                         /\ c.done[k].body = BodyMeant(l[k])
                         /\ \A n \in {"x", "y"} \cap DOMAIN c.done[k].head.headers :
                              Meant(l[k].source, n) = {c.done[k].head.headers[n]}
                    /\ open => c.state = "idle"
                    /\ asked # << >> /\ asked[Len(asked)].outcome = "sent" =>
                         (StaysOpen(c.head) <=> open)
  BY <1>2, <1>3 DEF ClientReadsTheResponse, Clear
<1> HIDE DEF c, l
<1>4. /\ Follows(asked, service, c) /\ (open => Between(asked, c))
      /\ asked # << >> /\ asked[Len(asked)].outcome = "sent" => (StaysOpen(c.head) <=> open)
  BY <1>1, <1>3 DEF Understands, c
<1>5. DOMAIN l = 1..Len(l)
  <2>1. IsList(asked)
    <3>1. IsList(<< >>)
      BY DEF IsList
    <3>. QED  BY <3>1 DEF EInv, Answering
  <2>2. IsList(l)
    BY <2>1, SentGrows DEF l
  <2>. QED  BY <2>2, ListAppend
<1>6. \A k \in DOMAIN l : Right(service, c.done[k], l[k])
  BY <1>4, <1>5 DEF Follows, l
<1>7. \A x, n : Meant(x, n) = MeantFor(service, x, n)
  BY DEF Meant, MeantFor
<1>8. open => c.state = "idle"
  <2>1. ASSUME open PROVE c.state = "idle"
    <3> DEFINE h == c.head
               done == c.done
               zero == 0
    <3>1. c = At("idle", h, zero, zero, done)
      BY <1>4, <2>1 DEF Between
    <3> HIDE DEF h, done, zero
    <3>. QED  BY <3>1, AtIs
  <2>. QED  BY <2>1
<1>9. c.state # "confused" /\ Len(c.done) = Len(l)
  BY <1>4 DEF Follows, l
<1> HIDE DEF open
<1>. QED  BY <1>4, <1>6, <1>7, <1>8, <1>9 DEF Right

(* In every protocol version, whatever the configuration has and whatever  *)
(* was asked before, a client reads the responses that were sent, each     *)
(* with its status, its headers and its body, knows whether the connection *)
(* stays open, and takes no response that was cut for a whole one; and a   *)
(* response is refused only for its size (response.go:61-222).             *)
THEOREM ClientAlwaysReadsTheResponse == Spec => []ClientReadsTheResponse
<1>1. Init => Understood
  <2> SUFFICES ASSUME Init PROVE Understood
    OBVIOUS
  <2>1. phase = "load" /\ wire = << >> /\ asked = << >> /\ DOMAIN << >> = {}
    BY DEF Init
  <2>. QED  BY <2>1 DEF Understood, Serving, RefusedOnlyForSize
<1>2. EInv /\ Understood => ClientReadsTheResponse
  BY UnderstoodReads
<1>3. EInv /\ Understood /\ [Next]_vars => Understood'
  BY NextUnderstood
<1>. QED  BY <1>1, <1>2, <1>3, SpecEInv, PTL DEF Spec
=============================================================================
