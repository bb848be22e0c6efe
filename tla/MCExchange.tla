----------------------------- MODULE MCExchange -----------------------------
(* Three families of configurations: every choice of listeners for three   *)
(* plain services; every small choice of responses for one service, asked  *)
(* by plain requests; and every limit on events, with requests that have   *)
(* up to three headers and three query fields.                             *)
EXTENDS Exchange

Limits == [f \in DOMAIN Ceiling |-> IF f = "max_response_bytes" THEN 60
                                    ELSE IF f = "max_structured_event_bytes" THEN 10 ELSE 2]
Rotation == [rotate_size_bytes |-> 1, rotate_seconds |-> 1]
Evidence == [min_free_bytes |-> 1, spelled |-> TRUE,
             pcap |-> Rotation, wire_journal |-> Rotation, jsonl |-> Rotation]

Plain(sequence) ==
  [sequence |-> sequence, status |-> 200, headers |-> << >>, mode |-> "immediate",
   body |-> 2, chunks |-> << >>, spelled |-> TRUE]
Missing == [Plain(Default) EXCEPT !.status = 404, !.body = 1]
Route(method, path, responses) ==
  [method |-> method, path |-> path, responses |-> responses, spelled |-> TRUE]
PlainListener == [address |-> "127.0.0.1", port |-> 80, protocol |-> "http"]
PlainService ==
  [enabled |-> TRUE, identity |-> TRUE, spelled |-> TRUE, listener |-> PlainListener,
   headers |-> << >>, routes |-> <<Route("GET", "a", <<Plain(Default)>>)>>, fallback |-> Missing]
Base(services) ==
  [services |-> services, limits |-> Limits, evidence |-> Evidence, tls |-> "given",
   spelled |-> TRUE]

Listeners ==
  [address : {"0.0.0.0", "::", "127.0.0.1", "::ffff:127.0.0.1", "10.0.0.1"},
   port : {80, 81}, protocol : {"http"}]
ListenerServices ==
  {[PlainService EXCEPT !.listener = l] : l \in Listeners}
  \cup {[PlainService EXCEPT !.enabled = FALSE, !.listener = None, !.fallback = None]}
ByListener == {Base(s) : s \in [1..3 -> ListenerServices]}

Header(name, spelling) == [k \in {<<name, spelling>>} |-> "own"]
ServiceHeaders == [k \in {<<"x", "X">>, <<"y", "y">>} |-> "service"]

Responses ==
  {[Plain(n) EXCEPT !.headers = h] : n \in 0..2, h \in {<< >>, Header("x", "x")}}
  \cup {[Plain(n) EXCEPT !.mode = "ndjson", !.body = None, !.chunks = c] :
          n \in 0..1, c \in {<<1, 16>>, <<16, 15>>, <<0, 1>>}}
Odd ==
  {[Plain(0) EXCEPT !.headers = Header("transfer-encoding", "Transfer-Encoding")],
   [Plain(0) EXCEPT !.status = 204], [Plain(0) EXCEPT !.status = 204, !.body = None],
   [Plain(0) EXCEPT !.body = 0], [Plain(0) EXCEPT !.body = 61], [Plain(0) EXCEPT !.body = 45]}
Lists == {<<r>> : r \in Responses \cup Odd}
         \cup {<<r, q>> : r, q \in Responses}
         \cup {<<Plain(2), Plain(0), Plain(1)>>}
Fallbacks == {None, Missing, [Missing EXCEPT !.status = 204, !.body = None]}
ByResponse ==
  {Base(<<[PlainService EXCEPT !.routes = <<Route("GET", "a", list),
                                            Route("HEAD", "a", <<Plain(1), Plain(0)>>)>>,
                               !.headers = ServiceHeaders, !.fallback = fallback,
                               !.listener.protocol = protocol]>>) :
     list \in Lists, fallback \in Fallbacks, protocol \in {"http", "https"}}

EventLimits(n) ==
  [Limits EXCEPT !.max_structured_event_bytes = n, !.max_structured_headers = 3,
                 !.max_query_fields = 2, !.max_requests_per_connection = 1]
Bodyless == [Plain(Default) EXCEPT !.status = 204, !.body = None]
ByEvent ==
  {[Base(<<[PlainService EXCEPT !.routes = <<Route("GET", "e", <<Bodyless>>)>>]>>)
    EXCEPT !.limits = EventLimits(n)] : n \in 1..24}

MCCandidates == ByListener \cup ByResponse \cup ByEvent

Asked(methods, paths, minors, closes, lists, texts, odds) ==
  [method : methods, path : paths, minor : minors, close : closes,
   headers : lists, query : lists, text : texts, odd : odds, mandatory : {3}, other : {1}]
SeqsUpTo(n) == UNION {[1..k -> {1, 2}] : k \in 0..n}
PlainRequests ==
  Asked({"GET", "HEAD", "head", "CONNECT"}, {"a", "b"}, {0, 1}, BOOLEAN, {<< >>}, {1}, {FALSE})
EventRequests == Asked({"GET"}, {"e"}, {1}, {FALSE}, SeqsUpTo(3), {1, 3}, BOOLEAN)
MCRequests(c) == IF c \in ByEvent THEN EventRequests ELSE PlainRequests
=============================================================================
