------------------------------- MODULE Config -------------------------------
(***************************************************************************)
(* What config.Validate accepts (internal/config/validate.go).             *)
(*                                                                         *)
(* A configuration is the decoded one, a record with the fields of the     *)
(* YAML file.  A body or a chunk is its length, None when it is absent; a  *)
(* header name is a pair <<lower case name, spelling>>; the services are a *)
(* sequence in the order of their ids.  Texts and counts that only have to *)
(* respect a fixed length, count or alphabet (ids, products, methods and   *)
(* paths as strings, header values, delays, numbers of routes and chunks)  *)
(* are one Boolean, "spelled", of the record they belong to.               *)
(***************************************************************************)
EXTENDS Integers, Sequences, FiniteSets, SequencesExt, Totals

CONSTANTS
  None,               \* an absent listener, body, chunk or default response
  MaxStatic           \* maxStaticFixtureBytes

Default == 0          \* sequence: default; the numbered ones are positive

Ceiling ==
  [max_connections_total |-> 8192, max_connections_per_service |-> 8192,
   max_requests_per_connection |-> 100000, max_connection_lifetime_seconds |-> 86400,
   max_connection_bytes |-> 2^30, max_header_bytes |-> 2^20, max_body_bytes |-> 2^26,
   max_response_bytes |-> 2^26, max_structured_event_bytes |-> 2^20,
   max_structured_headers |-> 256, max_query_fields |-> 1024,
   max_post_failure_capture_bytes |-> 2^26, tls_handshake_timeout_seconds |-> 30,
   header_timeout_seconds |-> 86400, body_timeout_seconds |-> 86400,
   write_timeout_seconds |-> 86400, idle_timeout_seconds |-> 86400,
   max_stream_seconds |-> 86400, post_failure_capture_timeout_seconds |-> 86400]

ValidLimits(l) ==
  /\ \A field \in DOMAIN Ceiling : l[field] \in 1..Ceiling[field]
  /\ l.max_connections_per_service <= l.max_connections_total

ValidRotation(r) == r.rotate_size_bytes > 0 /\ r.rotate_seconds \in 1..86400

ValidEvidence(e) ==
  /\ e.min_free_bytes > 0 /\ e.spelled
  /\ \A store \in {"pcap", "wire_journal", "jsonl"} : ValidRotation(e[store])

-----------------------------------------------------------------------------
(* Responses.                                                              *)

Lower(key) == key[1]

Prohibited == {"content-length", "transfer-encoding", "connection", "upgrade", "trailer"}

(* Mutant: framing headers may be configured. *)
ValidHeadersAnyName(headers) ==
  \A k, j \in DOMAIN headers : Lower(k) = Lower(j) => k = j

ValidHeaders(headers) ==
  /\ \A k, j \in DOMAIN headers : Lower(k) = Lower(j) => k = j
  /\ \A k \in DOMAIN headers : Lower(k) \notin Prohibited

Bodiless(status) == status \in {204, 304}

(* Redirecting a tunnel is possible, opening one is not. *)
ValidStatus(method, status) ==
  /\ status \in 200..599
  /\ method = "CONNECT" => status \notin 200..299

ValidBody(r, limit) ==
  \/ /\ Bodiless(r.status) /\ r.mode = "immediate"
     /\ r.body = None /\ r.chunks = << >>
  \/ /\ ~Bodiless(r.status) /\ r.mode = "immediate"
     /\ r.chunks = << >> /\ r.body # None /\ r.body <= limit
  \/ /\ ~Bodiless(r.status) /\ r.mode = "ndjson"
     /\ r.body = None /\ r.chunks # << >>
     /\ \A i \in DOMAIN r.chunks : r.chunks[i] # None
     /\ Total(r.chunks) <= limit

ValidResponse(method, r, limit) ==
  /\ r.spelled
  /\ ValidStatus(method, r.status)
  /\ ValidHeaders(r.headers)
  /\ ValidBody(r, limit)

(* Mutant: a route without a default response is accepted. *)
ValidSequenceNoDefault(responses) ==
  LET numbered == {i \in DOMAIN responses : responses[i].sequence # Default}
  IN  /\ Len(responses) - Cardinality(numbered) <= 1
      /\ {responses[i].sequence : i \in numbered} = 1..Cardinality(numbered)

(* Exactly one default; the others, sorted, are 1, 2, .., N.  The numbers  *)
(* of N responses are that when they cover 1..N.                           *)
ValidSequence(responses) ==
  LET numbered == {i \in DOMAIN responses : responses[i].sequence # Default}
  IN  /\ Len(responses) - Cardinality(numbered) = 1
      /\ {responses[i].sequence : i \in numbered} = 1..Cardinality(numbered)

ValidRoute(route, limit) ==
  /\ route.spelled /\ route.responses # << >>
  /\ \A i \in DOMAIN route.responses : ValidResponse(route.method, route.responses[i], limit)
  /\ ValidSequence(route.responses)

(* The default response has no sequence and no chunks, and its status is   *)
(* checked for no method.                                                  *)
ValidFallback(r, limit) ==
  /\ r.mode = "immediate" /\ r.chunks = << >>
  /\ ValidResponse("", r, limit)

Static(r) ==
  IF Bodiless(r.status) THEN 0 ELSE IF r.mode = "immediate" THEN r.body ELSE Total(r.chunks)

-----------------------------------------------------------------------------
(* Services and their listeners.                                           *)

ValidListener(l) == l.port \in 1..65535 /\ l.protocol \in {"http", "https"}

(* What is supplied must be valid, also for a service that is disabled.    *)
ValidSupplied(s, limit) ==
  /\ s.spelled
  /\ s.listener # None => ValidListener(s.listener)
  /\ ValidHeaders(s.headers)
  /\ \A i, j \in DOMAIN s.routes :
       s.routes[i].method = s.routes[j].method /\ s.routes[i].path = s.routes[j].path => i = j
  /\ \A i \in DOMAIN s.routes : ValidRoute(s.routes[i], limit)
  /\ s.fallback # None => ValidFallback(s.fallback, limit)

(* Mutant: the fallback of a service may be missing. *)
ValidEnabledNoFallback(s) ==
  s.enabled => s.listener # None /\ s.identity /\ s.routes # << >>

ValidEnabled(s) ==
  s.enabled => s.listener # None /\ s.identity /\ s.routes # << >> /\ s.fallback # None

ServiceStatic(s) ==
  Total([i \in DOMAIN s.routes |->
          Total([j \in DOMAIN s.routes[i].responses |-> Static(s.routes[i].responses[j])])])
  + IF s.fallback = None THEN 0 ELSE Static(s.fallback)

(* net.IP: an IPv4 address and its mapped form are the same address.       *)
Form(address) == IF address = "::ffff:127.0.0.1" THEN "127.0.0.1" ELSE address
IsUnspecified(address) == address \in {"0.0.0.0", "::"}

(* Mutant: addresses are compared as they are written. *)
IpsConflictAsWritten(a, b) == IsUnspecified(a) \/ IsUnspecified(b) \/ a = b

IpsConflict(a, b) == IsUnspecified(a) \/ IsUnspecified(b) \/ Form(a) = Form(b)

(* The enabled services, in their order. *)
Enabled(c) ==
  FlattenSeq([i \in DOMAIN c.services |->
                IF c.services[i].enabled THEN <<c.services[i]>> ELSE << >>])

NoListenerConflict(c) ==
  LET l == Enabled(c)
  IN  \A i, j \in DOMAIN l :
        i < j /\ l[i].listener.port = l[j].listener.port =>
          ~IpsConflict(l[i].listener.address, l[j].listener.address)

HasHTTPS(c) == \E i \in DOMAIN Enabled(c) : Enabled(c)[i].listener.protocol = "https"

(* global.tls.directory: "given", "blank", or the whole section "none". *)
ValidTLS(c) == IF HasHTTPS(c) THEN c.tls = "given" ELSE c.tls # "blank"

Validate(c) ==
  /\ c.spelled /\ c.services # << >>
  /\ ValidEvidence(c.evidence)
  /\ ValidLimits(c.limits)
  /\ \A i \in DOMAIN c.services :
       /\ ValidSupplied(c.services[i], c.limits.max_response_bytes)
       /\ ValidEnabled(c.services[i])
  /\ Total([i \in DOMAIN c.services |-> ServiceStatic(c.services[i])]) <= MaxStatic
  /\ NoListenerConflict(c)
  /\ ValidTLS(c)
=============================================================================
