------------------------------ MODULE Exchange ------------------------------
(***************************************************************************)
(* From a configuration to what a client reads: Validate accepts it,       *)
(* bindConfiguredListeners binds it, SelectResponse chooses for each       *)
(* request of a connection, response.Write frames what was chosen, and the *)
(* event writer bounds what is told of the exchange.  Composes Config,     *)
(* Router, Response and EventBounds; Connection has the concurrency, the   *)
(* timing and the request side of the same handler.                        *)
(***************************************************************************)
EXTENDS Router, Response, EventBounds

CONSTANTS
  Candidates,         \* the decoded configurations
  Requests(_),        \* what a client may ask of a sensor with a configuration
  ErrorSize,          \* the size of "write_error" and its code in an event
  MaxAsked            \* bound on the requests of a connection

(* A decoded list has no absent entries. *)
Listed(list) == list \in Seq(ToSet(list)) /\ None \notin ToSet(list)

(* The addresses of the host. *)
Local == {"127.0.0.1", "10.0.0.1", "::1"}

(* What a decoder makes of a response, its mode filled in. *)
Written(r) ==
  /\ r.body \in Nat \cup {None} /\ r.chunks \in Seq(Nat \cup {None})
  /\ IsFiniteSet(DOMAIN r.headers)

Decoded(c) ==
  /\ Listed(c.services)
  /\ \A s \in ToSet(c.services) :
       /\ s.listener # None =>
            IsUnspecified(s.listener.address) \/ Form(s.listener.address) \in Local
       /\ IsFiniteSet(DOMAIN s.headers)
       /\ s.fallback # None => Written(s.fallback)
       /\ Listed(s.routes)
       /\ \A route \in ToSet(s.routes) :
            Listed(route.responses) /\ \A r \in ToSet(route.responses) : Written(r)

Described(request) ==
  /\ {request.mandatory, request.other, request.text} \subseteq Nat
  /\ request.headers \in Seq(Nat) /\ request.query \in Seq(Nat)
  /\ request.odd \in BOOLEAN /\ request.minor \in {0, 1}

ASSUME ExchangeAssumption ==
  /\ \A c \in Candidates : Decoded(c) /\ \A request \in Requests(c) : Described(request)
  /\ ErrorSize \in Nat

VARIABLES
  cfg,
  phase,              \* what the process, then the connection, is doing
  bound,              \* addresses and ports of the open listeners
  service,            \* the service of the connection
  counts,             \* its RouteState
  wire,               \* the pieces sent on it
  asked               \* its requests, what was chosen, and the outcome

vars == <<cfg, phase, bound, service, counts, wire, asked>>
connection == <<service, counts, wire, asked>>

Init ==
  /\ cfg \in Candidates
  /\ phase = "load"
  /\ bound = << >>
  /\ service = None /\ counts = << >> /\ wire = << >> /\ asked = << >>

(* config.Load *)
Load ==
  /\ phase = "load"
  /\ phase' = IF Validate(cfg) THEN "bind" ELSE "rejected"
  /\ UNCHANGED <<cfg, bound, connection>>

(* The kernel and package net: a wildcard socket takes every address of    *)
(* both families.                                                          *)
Covers(address) ==
  IF IsUnspecified(address) THEN Local ELSE {Form(address)}

InUse(l) ==
  \E i \in DOMAIN bound :
    bound[i].port = l.port /\ Covers(bound[i].address) \cap Covers(l.address) # {}

BindNext ==
  /\ phase = "bind" /\ Len(bound) < Len(Enabled(cfg))
  /\ LET l == Enabled(cfg)[Len(bound) + 1].listener
     IN  IF InUse(l) THEN phase' = "bindFailed" /\ bound' = << >>
                     ELSE bound' = Append(bound, l) /\ UNCHANGED phase
  /\ UNCHANGED <<cfg, connection>>

BindDone ==
  /\ phase = "bind" /\ Len(bound) = Len(Enabled(cfg))
  /\ phase' = "listening"
  /\ UNCHANGED <<cfg, bound, connection>>

(* emitListenerJSON: what check --emit-listeners tells the packet filter. *)
Exported == [i \in DOMAIN Enabled(cfg) |-> Enabled(cfg)[i].listener]

(* A connection, the first or after another one: its route state is new. *)
Connect ==
  /\ phase \in {"listening", "closed"}
  /\ \E i \in DOMAIN bound : service' = Enabled(cfg)[i]
  /\ phase' = "connected"
  /\ counts' = << >> /\ wire' = << >> /\ asked' = << >>
  /\ UNCHANGED <<cfg, bound>>

(* The exchange event of a request; a refused tunnel has none.             *)
EventOf(request, outcome) ==
  ExchangeEvent(request, IF outcome = "sent" THEN 0 ELSE ErrorSize, cfg.limits)
Line(request, outcome) ==
  IF outcome = "tunnel" THEN << >> ELSE EventLine(EventOf(request, outcome), cfg.limits)

Ask(request, selection, outcome) ==
  asked' = Append(asked, [request |-> request, source |-> selection.source,
                          plan |-> selection.plan, outcome |-> outcome,
                          line |-> Line(request, outcome)])

CloseAfter(request) ==
  request.close \/ Len(asked) + 1 >= cfg.limits.max_requests_per_connection

(* Where writes may stop: between two pieces, or inside the data of one.   *)
Cuts(pieces) ==
  {SubSeq(pieces, 1, n) : n \in 0..(Len(pieces) - 1)}
  \cup {SubSeq(pieces, 1, n - 1) \o Data(pieces[n].bytes - 1) :
          n \in {k \in DOMAIN pieces : pieces[k].piece = "data"}}

Respond(request, selection) ==
  LET plan   == selection.plan
      pieces == Pieces(request.minor, request.method, plan)
  IN  IF selection.source = None
        THEN phase' = "panic" /\ UNCHANGED <<wire, asked>>
      ELSE IF request.method = "CONNECT" /\ plan.status \in 200..299
        THEN phase' = "closed" /\ Ask(request, selection, "tunnel") /\ UNCHANGED wire
      ELSE IF IntendedWireSize(request.minor, request.method, plan) > cfg.limits.max_response_bytes
        THEN phase' = "closed" /\ Ask(request, selection, "limit") /\ UNCHANGED wire
      ELSE \/ /\ wire' = wire \o pieces
              /\ Ask(request, selection, "sent")
              /\ phase' = IF plan.close THEN "closed" ELSE "connected"
           \/ \E sent \in Cuts(pieces) :
                /\ wire' = wire \o sent
                /\ Ask(request, selection, "cut")
                /\ phase' = "closed"

(* One turn of handleConnection's loop, the request read. *)
Serve(request) ==
  /\ phase = "connected" /\ Len(asked) < MaxAsked
  /\ service.listener.protocol = "https" => request.minor = 1
  /\ LET selection == SelectResponse(service, request.method, request.path, counts,
                                     CloseAfter(request))
     IN  counts' = selection.counts /\ Respond(request, selection)
  /\ UNCHANGED <<cfg, bound, service>>

Next == Load \/ BindNext \/ BindDone \/ Connect \/ \E request \in Requests(cfg) : Serve(request)

Spec == Init /\ [][Next]_vars

-----------------------------------------------------------------------------
(* A client of HTTP/1.x, which knows what it asked, and reads the pieces   *)
(* in order (RFC 9112).                                                    *)

Silent == [state |-> "idle", head |-> None, left |-> 0, body |-> 0, done |-> << >>]

Finish(c) ==
  [c EXCEPT !.state = "idle", !.left = 0, !.body = 0,
            !.done = Append(@, [head |-> c.head, body |-> c.body])]

ReadHead(list, c, head) ==
  LET n      == Len(c.done) + 1
      method == list[n].request.method
      begun  == [c EXCEPT !.head = head]
  IN  IF method = "HEAD" \/ Bodiless(head.status) THEN Finish(begun)
      ELSE IF "transfer-encoding" \in DOMAIN head.headers THEN [begun EXCEPT !.state = "size"]
      ELSE IF head.headers["content-length"] = 0 THEN Finish(begun)
      ELSE [begun EXCEPT !.state = "bytes", !.left = head.headers["content-length"]]

ReadData(c, n) ==
  LET some == [c EXCEPT !.left = @ - n, !.body = @ + n]
  IN  IF n < c.left THEN some
      ELSE IF c.state = "bytes" THEN Finish(some) ELSE [some EXCEPT !.state = "chunkEnd"]

(* A size of zero is the last chunk, and an empty line ends it. *)
ReadPiece(list, c, p) ==
  CASE c.state = "idle" /\ p.piece = "head" /\ Len(c.done) < Len(list) -> ReadHead(list, c, p)
    [] c.state \in {"bytes", "chunk"} /\ p.piece = "data" /\ p.bytes <= c.left ->
         ReadData(c, p.bytes)
    [] c.state = "size" /\ p.piece = "size" /\ p.chunk > 0 ->
         [c EXCEPT !.state = "chunk", !.left = p.chunk]
    [] c.state = "size" /\ p.piece = "size" /\ p.chunk = 0 -> [c EXCEPT !.state = "lastChunk"]
    [] c.state = "chunkEnd" /\ p.piece = "crlf" -> [c EXCEPT !.state = "size"]
    [] c.state = "lastChunk" /\ p.piece = "crlf" -> Finish(c)
    [] OTHER -> [c EXCEPT !.state = "confused"]

ReadOn(list, c, pieces) ==
  LET after[n \in 0..Len(pieces)] ==
        IF n = 0 THEN c ELSE ReadPiece(list, after[n - 1], pieces[n])
  IN  after[Len(pieces)]

Client == ReadOn(asked, Silent, wire)

StaysOpen(head) ==
  LET says == IF "connection" \in DOMAIN head.headers THEN head.headers["connection"] ELSE "nothing"
  IN  IF head.minor = 1 THEN says # "close" ELSE says = "keep-alive"

-----------------------------------------------------------------------------
(* Properties.                                                             *)

(* What Validate accepts can be served: every enabled listener is bound,   *)
(* in whatever order the service ids have, exactly those the packet filter *)
(* is told of; and no request makes the router use a response that is not  *)
(* there (validate.go:163-180, 306-314, 438-457; router.go:29-72).  What   *)
(* is refused for its listeners could not have been bound.                 *)
AcceptedCanServe ==
  /\ phase \notin {"bindFailed", "panic"}
  /\ phase = "listening" => bound = Exported
  /\ /\ phase = "rejected" /\ ~NoListenerConflict(cfg)
     /\ \A i \in DOMAIN Enabled(cfg) : Enabled(cfg)[i].listener # None
     => \E i, j \in DOMAIN Enabled(cfg) :
         /\ i # j
         /\ Exported[i].port = Exported[j].port
         /\ Covers(Exported[i].address) \cap Covers(Exported[j].address) # {}

(* The k-th request of a connection for a route, its method included, gets *)
(* the response numbered k and only it, or the default beyond the last     *)
(* number, in whatever order the file lists them and whatever else was     *)
(* asked in between or on an earlier connection (router.go:29-72).         *)
RouteAnswersInOrder ==
  \A k \in DOMAIN asked :
    LET r     == asked[k].request
        same  == {i \in 1..k : asked[i].request.method = r.method /\ asked[i].request.path = r.path}
        route == {i \in DOMAIN service.routes :
                    service.routes[i].method = r.method /\ service.routes[i].path = r.path}
        given == UNION {ToSet(service.routes[i].responses) : i \in route}
        due   == {x \in given : x.sequence = Cardinality(same)}
    IN  IF route = {} THEN asked[k].source = service.fallback
        ELSE IF due # {} THEN due = {asked[k].source}
        ELSE asked[k].source \in given /\ asked[k].source.sequence = Default

(* Known limits of the code.  A chunk without bytes is accepted by         *)
(* Validate (validate.go:367-374) and framed as the last chunk of its      *)
(* response.  A method "head", which is another method than HEAD, gets the *)
(* header of a body and no body (response.go:92).                          *)
EmptyChunk(x) ==
  x.plan.mode = "ndjson" /\ x.request.minor = 1 /\ 0 \in ToSet(x.plan.chunks)
MissingBody(x) == x.request.method = "head" /\ Static(x.source) > 0

Meant(source, n) ==
  LET own      == {k \in DOMAIN source.headers : Lower(k) = n}
      defaults == {k \in DOMAIN service.headers : Lower(k) = n}
  IN  IF own # {} THEN {source.headers[k] : k \in own} ELSE {service.headers[k] : k \in defaults}

BodyMeant(x) ==
  IF x.request.method = "HEAD" THEN 0 ELSE Static(x.source)

Sent ==
  FlattenSeq([k \in DOMAIN asked |-> IF asked[k].outcome = "sent" THEN <<asked[k]>> ELSE << >>])

(* The limit is compared with exactly the bytes the response would have:   *)
(* what is sent is within max_response_bytes, and a response is refused,   *)
(* before its first byte, only when it is not (response.go:66-72,188-222). *)
RefusedOnlyForSize ==
  \A k \in DOMAIN asked :
    LET x    == asked[k]
        size == WireSize(Pieces(x.request.minor, x.request.method, x.plan))
    IN  /\ x.outcome \in {"sent", "cut"} => size <= cfg.limits.max_response_bytes
        /\ x.outcome = "limit" => size > cfg.limits.max_response_bytes

(* A client reads, response by response on the one connection, the status, *)
(* the headers and as many body bytes as the configuration has, in both    *)
(* protocol versions and with HEAD; it is told when the connection ends;   *)
(* nothing is left over between two responses; and it never takes a        *)
(* response that was cut for a whole one (response.go:61-186).  A response *)
(* is withheld only for its size.                                          *)
ClientReadsTheResponse ==
  /\ RefusedOnlyForSize
  /\ (\A k \in DOMAIN asked : ~EmptyChunk(asked[k]) /\ ~MissingBody(asked[k])) =>
       /\ Client.state # "confused"
       /\ Len(Client.done) = Len(Sent)
       /\ \A k \in DOMAIN Sent :
            /\ Client.done[k].head.status = Sent[k].source.status
            /\ Client.done[k].body = BodyMeant(Sent[k])
            /\ \A n \in {"x", "y"} \cap DOMAIN Client.done[k].head.headers :
                 Meant(Sent[k].source, n) = {Client.done[k].head.headers[n]}
       /\ phase = "connected" => Client.state = "idle"
       /\ asked # << >> /\ asked[Len(asked)].outcome = "sent" =>
            (StaysOpen(Client.head) <=> phase = "connected")

(* The lengths the lists have when n entries are kept and the longer list  *)
(* is always the one to shrink, without reference to how they got there.   *)
Balanced(e, n) ==
  LET headers == Max({Min({Len(e.headers), n \div 2}), n - Len(e.query)})
  IN <<headers, n - headers>>

(* What the event of an exchange tells of the request is within the        *)
(* configured size, its line feed included, and nothing of the request is  *)
(* missing from it without its saying so; metadata is given up only as far *)
(* as it must be: what is kept is the front of both lists, balanced, and   *)
(* with one entry more the event would not have fitted (jsonl.go:206,      *)
(* 229-254, 375-440).                                                      *)
EventKeepsTheMost ==
  \A k \in DOMAIN asked : \A i \in DOMAIN asked[k].line :
    LET line    == asked[k].line[i]
        request == asked[k].request
        whole   == EventOf(request, asked[k].outcome)
        n       == Entries(line)
        most    == cfg.limits.max_structured_event_bytes
    IN  /\ Size(line) + 1 <= most
        /\ line.truncated <=>
             \/ request.odd \/ line.text # request.text \/ line.other # request.other
             \/ line.headers # request.headers \/ line.query # request.query
             \/ line.writeError # whole.writeError
        /\ line # whole /\ n > 0 => line = Cut(Marked(whole), Balanced(whole, n))
        /\ line # whole =>
             \A more \in (n + 1)..Entries(whole) :
               Size(Cut(Marked(whole), Balanced(whole, more))) >= most

(* "Mandatory correlation fields are retained even under an unusually      *)
(* small operator bound" (jsonl.go:267-268).                               *)
MandatoryRetained == \A k \in DOMAIN asked : asked[k].outcome # "tunnel" => asked[k].line # << >>
=============================================================================
