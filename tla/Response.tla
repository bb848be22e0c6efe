------------------------------ MODULE Response ------------------------------
(***************************************************************************)
(* What response.Write puts on the wire (internal/response/response.go):   *)
(* a sequence of pieces, each with its size in bytes.  The status line and *)
(* the header lines are one piece, the head; the last chunk is the two     *)
(* pieces a client reads it as.                                            *)
(***************************************************************************)
EXTENDS Config

CONSTANT LineSize     \* bytes of the status line and of each header line

ASSUME ResponseAssumption == LineSize \in Nat

(* strings.EqualFold: the writer takes a HEAD however it is spelled, while  *)
(* the router and the client do not.                                       *)
NoBody(method, plan) == method \in {"HEAD", "head"} \/ Bodiless(plan.status)

(* strconv.FormatInt(n, 16) *)
HexDigits(n) == 1 + Cardinality({d \in 1..7 : 16^d <= n})

(* HTTP/1.1 streams in chunks; HTTP/1.0 has the length of the whole.       *)
Framing(minor, plan) ==
  CASE plan.mode = "immediate" -> [x \in {"content-length"} |-> plan.body]
    [] plan.mode = "ndjson" /\ minor = 1 -> [x \in {"transfer-encoding"} |-> "chunked"]
    [] plan.mode = "ndjson" /\ minor = 0 -> [x \in {"content-length"} |-> Total(plan.chunks)]

(* Mutant: HTTP/1.0 clients are not told that the connection stays open. *)
PersistenceSilent(minor, plan) ==
  IF plan.close THEN [x \in {"connection"} |-> "close"] ELSE << >>

Persistence(minor, plan) ==
  IF plan.close THEN [x \in {"connection"} |-> "close"]
  ELSE IF minor = 0 THEN [x \in {"connection"} |-> "keep-alive"] ELSE << >>

(* The writer's own headers replace configured ones of the same name.      *)
ResponseHeaders(minor, plan) ==
  LET persistence == Persistence(minor, plan)
      framing     == Framing(minor, plan)
  IN  [n \in DOMAIN persistence \cup DOMAIN framing \cup DOMAIN plan.headers |->
         IF n \in DOMAIN persistence THEN persistence[n]
         ELSE IF n \in DOMAIN framing THEN framing[n] ELSE plan.headers[n]]

HeadSize(headers) == LineSize * (1 + Cardinality(DOMAIN headers)) + 2

(* Mutant: the lines around a chunk are not counted. *)
IntendedWireSizeOfBody(minor, method, plan) ==
  HeadSize(ResponseHeaders(minor, plan))
  + IF NoBody(method, plan) THEN 0
    ELSE IF plan.mode = "immediate" THEN plan.body ELSE Total(plan.chunks)

(* The size the limit is checked against, before anything is written. *)
IntendedWireSize(minor, method, plan) ==
  HeadSize(ResponseHeaders(minor, plan))
  + IF NoBody(method, plan) THEN 0
    ELSE IF plan.mode = "immediate" THEN plan.body
    ELSE IF minor = 0 THEN Total(plan.chunks)
    ELSE Total([i \in DOMAIN plan.chunks |->
               HexDigits(plan.chunks[i]) + 2 + plan.chunks[i] + 2]) + 5

HeadPiece(minor, plan) ==
  [piece |-> "head", minor |-> minor, status |-> plan.status,
   headers |-> ResponseHeaders(minor, plan), bytes |-> HeadSize(ResponseHeaders(minor, plan))]
SizeLine(n) == [piece |-> "size", chunk |-> n, bytes |-> HexDigits(n) + 2]
LineEnd == [piece |-> "crlf", bytes |-> 2]
(* writeAll of no bytes writes nothing. *)
Data(n) == IF n = 0 THEN << >> ELSE << [piece |-> "data", bytes |-> n] >>

Chunk(n) == <<SizeLine(n)>> \o Data(n) \o <<LineEnd>>
LastChunk == <<SizeLine(0), LineEnd>>

Body(minor, plan) ==
  IF plan.mode = "immediate" THEN Data(plan.body)
  ELSE LET pieces == [i \in DOMAIN plan.chunks |->
                        IF minor = 1 THEN Chunk(plan.chunks[i]) ELSE Data(plan.chunks[i])]
       IN  FlattenSeq(pieces) \o IF minor = 1 THEN LastChunk ELSE << >>

(* Everything Write sends when no write fails. *)
Pieces(minor, method, plan) ==
  <<HeadPiece(minor, plan)>> \o IF NoBody(method, plan) THEN << >> ELSE Body(minor, plan)

WireSize(pieces) == Total([i \in DOMAIN pieces |-> pieces[i].bytes])
=============================================================================
