------------------------------- MODULE Router -------------------------------
(***************************************************************************)
(* How the response to a request is chosen (internal/engine/router.go).    *)
(* The route counts of a connection are a function on the routes it has    *)
(* asked for.  The plan is None where the code would follow a nil pointer. *)
(***************************************************************************)
EXTENDS Config

(* Mutant: the requests of a path are counted whatever their method. *)
KeyOfPath(route) == <<route.path>>
Key(route) == <<route.method, route.path>>

(* state.counts[key], 0 when absent *)
Count(counts, key) == IF key \in DOMAIN counts THEN counts[key] ELSE 0

Counted(counts, key) ==
  [k \in DOMAIN counts \cup {key} |-> IF k = key THEN Count(counts, key) + 1 ELSE counts[k]]

(* Where the routes of a request, and the responses for an ordinal, are.   *)
Matching(routes, method, path) ==
  {i \in DOMAIN routes : routes[i].method = method /\ routes[i].path = path}
Numbered(responses, ordinal) ==
  {i \in DOMAIN responses : responses[i].sequence # Default /\ responses[i].sequence = ordinal}
Defaults(responses) == {i \in DOMAIN responses : responses[i].sequence = Default}

FirstOf(s, found) == IF found = {} THEN None ELSE s[Min(found)]

(* Mutant: the default response is looked for first. *)
ChosenDefaultFirst(route, ordinal) ==
  LET default  == FirstOf(route.responses, Defaults(route.responses))
      numbered == FirstOf(route.responses, Numbered(route.responses, ordinal))
  IN  IF default # None THEN default ELSE numbered

Chosen(route, ordinal) ==
  LET numbered == FirstOf(route.responses, Numbered(route.responses, ordinal))
      default  == FirstOf(route.responses, Defaults(route.responses))
  IN  IF numbered # None THEN numbered ELSE default

(* Canonical names; a header of the response replaces the service's. *)
MergeHeaders(defaults, overrides) ==
  LET names(h)  == {Lower(k) : k \in DOMAIN h}
      value(h, n) == h[CHOOSE k \in DOMAIN h : Lower(k) = n]
  IN  [n \in names(defaults) \cup names(overrides) |->
         IF n \in names(overrides) THEN value(overrides, n) ELSE value(defaults, n)]

PlanFrom(service, r, closeConnection) ==
  IF r = None THEN None
  ELSE [status  |-> r.status,
        headers |-> MergeHeaders(service.headers, r.headers),
        mode    |-> r.mode,
        body    |-> IF r.body = None THEN 0 ELSE r.body,
        chunks  |-> [i \in DOMAIN r.chunks |-> IF r.chunks[i] = None THEN 0 ELSE r.chunks[i]],
        close   |-> closeConnection]

SelectResponse(service, method, path, counts, closeConnection) ==
  LET route == FirstOf(service.routes, Matching(service.routes, method, path))
      now   == Counted(counts, Key(route))
  IN  IF route = None
        THEN [source |-> service.fallback, counts |-> counts,
              plan   |-> PlanFrom(service, service.fallback, closeConnection)]
        ELSE LET chosen == Chosen(route, now[Key(route)])
             IN  [source |-> chosen, counts |-> now,
                  plan   |-> PlanFrom(service, chosen, closeConnection)]
=============================================================================
