---------------------------- MODULE EventBounds ----------------------------
(***************************************************************************)
(* The structured event of an exchange: what is taken from the request     *)
(* (SanitizeHeaders, QueryMetadataFromURL) and how the event is made to    *)
(* fit in max_structured_event_bytes (boundedEventJSON), all of            *)
(* src/internal/evidence/jsonl.go.  Header and query metadata are given up *)
(* one entry at a time, then long texts are cut, then everything but the   *)
(* mandatory fields goes.  An event is the sizes its parts have in JSON.   *)
(***************************************************************************)
EXTENDS Config

CONSTANTS
  TextCap,            \* 256: where long texts are cut
  MarkSize            \* the size of "metadata_truncated":true

ASSUME BoundsAssumption == TextCap \in Nat /\ MarkSize \in Nat

(* The first entries, up to the configured number of them, and whether     *)
(* some were left out.                                                     *)
FirstEntries(entries, max) == SubSeq(entries, 1, Min({Len(entries), max}))

(* request.odd: a value was too long or badly encoded, and was cut.        *)
ExchangeEvent(request, writeError, limits) ==
  LET headers == FirstEntries(request.headers, limits.max_structured_headers)
      query   == FirstEntries(request.query, limits.max_query_fields)
  IN  [mandatory |-> request.mandatory, other |-> request.other, text |-> request.text,
       writeError |-> writeError,
       headers |-> headers, query |-> query,
       truncated |-> request.odd \/ headers # request.headers \/ query # request.query]

Size(e) == e.mandatory + e.other + e.text + e.writeError + Total(e.headers) + Total(e.query)
           + (IF e.truncated THEN MarkSize ELSE 0)

(* Mutant: the event does not say that it was cut. *)
Unmarked(e) == e
Marked(e) == [e EXCEPT !.truncated = TRUE]

(* Mutant: the shorter list is cut. *)
DropOther(n) == IF n[1] <= n[2] /\ n[1] > 0 THEN <<n[1] - 1, n[2]>>
                ELSE IF n[2] > 0 THEN <<n[1], n[2] - 1>> ELSE <<n[1] - 1, n[2]>>

(* One pass of the loop, on the lengths of headers and query fields: the   *)
(* longer list loses its last entry, headers before query fields.          *)
DropOne(n) == IF n[1] >= n[2] THEN <<n[1] - 1, n[2]>> ELSE <<n[1], n[2] - 1>>

Entries(e) == Len(e.headers) + Len(e.query)

(* The lengths after k passes, and the event cut to them.                  *)
Lengths(e) ==
  LET after[k \in 0..Entries(e)] ==
        IF k = 0 THEN <<Len(e.headers), Len(e.query)>> ELSE DropOne(after[k - 1])
  IN after
Cut(e, n) == [e EXCEPT !.headers = SubSeq(@, 1, n[1]), !.query = SubSeq(@, 1, n[2])]
AfterPasses(e, k) == Cut(e, Lengths(e)[k])

TextsCut(e) ==
  [e EXCEPT !.text = Min({@, TextCap}), !.writeError = Min({@, TextCap})]

(* The texts go; the write error stays.                                    *)
Minimal(e) ==
  [e EXCEPT !.other = 0, !.text = 0, !.headers = << >>, !.query = << >>,
            !.truncated = TRUE]

(* The event that is written, as a sequence: empty for an error.           *)
BoundedEventJSON(e, maximum) ==
  LET Fits(x) == Size(x) <= maximum
      passes  == {k \in 1..Entries(e) : Fits(AfterPasses(Marked(e), k))}
      bare    == TextsCut(AfterPasses(Marked(e), Entries(e)))
  IN IF Fits(e) THEN <<e>>
     ELSE IF passes # {} THEN <<AfterPasses(Marked(e), Min(passes))>>
     ELSE IF Fits(bare) THEN <<bare>>
     ELSE IF Fits(Minimal(bare)) THEN <<Minimal(bare)>>
     ELSE << >>

(* WriteEvent, up to the line it writes; one byte is for the line feed.    *)
EventLine(e, limits) ==
  IF limits.max_structured_event_bytes <= 1 THEN << >>
  ELSE BoundedEventJSON(e, limits.max_structured_event_bytes - 1)
=============================================================================
