-------------------------- MODULE ConnectionProofs --------------------------
(***************************************************************************)
(* Theorems about Connection, for every value of the limits.               *)
(***************************************************************************)
EXTENDS Connection, TLAPS

Numbers ==
  /\ now \in Nat /\ deadline \in Nat /\ streamStart \in Nat
  /\ bytesIn \in Nat /\ bytesOut \in Nat /\ journalIn \in Nat
  /\ headerBytesRead \in Nat /\ buffered \in Nat /\ consumed \in Nat /\ captured \in Nat
  /\ piece \in Nat /\ toSend \in Nat
  /\ req \in [start : Int, buffered : BOOLEAN, headerEnd : Int, out : Int, wire : Int]

(* A write under way was cut to what is left of the byte limit.            *)
WithinBytes ==
  /\ bytesIn + bytesOut <= MaxConnectionBytes
  /\ pc = "writing" => piece <= Remaining /\ piece <= toSend

(* What bufio holds and what the parser took were counted and journaled.   *)
ReadIsJournaled == journalIn = bytesIn /\ consumed + buffered <= bytesIn

(* What was sent for the current request, and what is still to be sent.    *)
WithinResponse ==
  /\ pc \in {"header", "accept"} => bytesOut = req.out
  /\ pc \in {"continued", "body", "count", "exchange"} => bytesOut - req.out <= MaxResponseBytes
  /\ pc \in {"respond", "waiting", "send", "writing"} =>
       bytesOut - req.out + toSend <= MaxResponseBytes

WithinCapture ==
  /\ captured <= MaxPostFailureCaptureBytes
  /\ "post_failure_capture_bytes" \in limits => captured = MaxPostFailureCaptureBytes

(* Until a failure is captured, what was read is what the parser took and  *)
(* what bufio holds, and the current request begins where the events end.  *)
LastEnd == RangesEnd(Len(exchanges))
BetweenRequests == {"open", "handshake", "loop"}
InRequest == {"accept", "continued", "body", "count", "respond", "waiting", "send", "writing",
              "exchange"}
WithinRanges ==
  /\ pc \in BetweenRequests \cup {"header"} \cup InRequest => bytesIn = consumed + buffered
  /\ pc \in BetweenRequests => consumed = LastEnd
  /\ pc \in {"header"} \cup InRequest => req.start = LastEnd /\ consumed >= LastEnd
  /\ pc \in InRequest => consumed > LastEnd

EventsFit ==
  /\ exchanges \in Seq([requestStart : Int, requestLength : Int, responseStart : Int,
                        responseLength : Int, wire : Int, complete : BOOLEAN])
  /\ \A i \in DOMAIN exchanges :
       /\ exchanges[i].requestStart + exchanges[i].requestLength <= journalIn
       /\ exchanges[i].responseLength <= MaxResponseBytes
       /\ exchanges[i].requestStart = RangesEnd(i - 1) /\ exchanges[i].requestLength > 0

IInv ==
  /\ Numbers
  /\ WithinBytes
  /\ ReadIsJournaled
  /\ NeverPastLifetime
  /\ WithinResponse
  /\ WithinCapture
  /\ WithinRanges
  /\ EventsFit

Quiet ==
  /\ Numbers /\ WithinBytes /\ ReadIsJournaled /\ NeverPastLifetime
  /\ WithinResponse /\ WithinCapture /\ WithinRanges

USE DEF clockVars, recordVars, inVars, outVars,
        readerVars, requestVars, responseVars

(* The last event ends at some offset of the stream.                       *)
LEMMA EventsEnd ==
  ASSUME EventsFit
  PROVE  LastEnd \in Int
<1>. DEFINE Event == [requestStart : Int, requestLength : Int, responseStart : Int,
                      responseLength : Int, wire : Int, complete : BOOLEAN]
<1>1. exchanges \in Seq(Event)
  BY DEF EventsFit
<1>2. CASE Len(exchanges) = 0
  BY <1>2 DEF LastEnd, RangesEnd
<1>3. CASE Len(exchanges) # 0
  <2>. HIDE DEF Event
  <2>1. exchanges[Len(exchanges)] \in Event
    BY <1>1, <1>3
  <2>2. /\ exchanges[Len(exchanges)].requestStart \in Int
        /\ exchanges[Len(exchanges)].requestLength \in Int
    BY <2>1 DEF Event
  <2>. QED
    BY <1>3, <2>2 DEF LastEnd, RangesEnd
<1>. QED
  BY <1>2, <1>3

(* Events stay readable as long as nothing leaves the journal.             *)
LEMMA EventsKept ==
  ASSUME IInv, UNCHANGED exchanges, journalIn' \in Nat, journalIn' >= journalIn
  PROVE  EventsFit' /\ LastEnd' = LastEnd /\ LastEnd \in Int
<1>. DEFINE Event == [requestStart : Int, requestLength : Int, responseStart : Int,
                      responseLength : Int, wire : Int, complete : BOOLEAN]
<1>1. exchanges' \in Seq(Event)
  BY DEF IInv, EventsFit
<1>2. ASSUME NEW i \in DOMAIN exchanges
      PROVE  /\ exchanges[i].requestStart + exchanges[i].requestLength <= journalIn'
             /\ exchanges[i].responseLength <= MaxResponseBytes
  <2>0. exchanges \in Seq(Event)
    BY DEF IInv, EventsFit
  <2>1. exchanges[i] \in Event
    <3>. HIDE DEF Event
    <3>. QED
      BY <1>2, <2>0
  <2>2. /\ exchanges[i].requestStart + exchanges[i].requestLength <= journalIn
        /\ exchanges[i].responseLength <= MaxResponseBytes
    BY <1>2 DEF IInv, EventsFit
  <2>. HIDE DEF Event
  <2>3. exchanges[i].requestStart \in Int /\ exchanges[i].requestLength \in Int
    BY <2>1 DEF Event
  <2>. QED
    BY <2>2, <2>3 DEF IInv, Numbers
<1>3. \A i \in DOMAIN exchanges :
        exchanges[i].requestStart = RangesEnd(i - 1) /\ exchanges[i].requestLength > 0
  BY DEF IInv, EventsFit
<1>4. LastEnd' = LastEnd
  BY DEF LastEnd, RangesEnd
<1>5. LastEnd \in Int
  BY EventsEnd DEF IInv
<1>. QED
  BY <1>1, <1>2, <1>3, <1>4, <1>5 DEF EventsFit, RangesEnd

LEMMA WriteConnectionOpenStep ==
  ASSUME IInv, WriteConnectionOpen
  PROVE  IInv'
<1>1. UNCHANGED exchanges /\ journalIn' \in Nat /\ journalIn' >= journalIn
  BY LimitsAssumption DEF IInv, Numbers, WriteConnectionOpen, Return, Continue, Record,
     LimitReasons, ParserReasons, CodeOf, Least, openUnchanged
<1>2. Quiet'
  BY <1>1, EventsKept, LimitsAssumption DEF IInv, Quiet, Numbers, WithinBytes,
     ReadIsJournaled, NeverPastLifetime, WithinResponse, WithinCapture, WithinRanges,
     BetweenRequests, InRequest, WriteConnectionOpen, Return, Continue, Record,
     LimitReasons, ParserReasons, CodeOf, Least, Remaining, Blocked, openUnchanged
<1>. QED
  BY <1>1, <1>2, EventsKept DEF IInv, Quiet

LEMMA HandshakenStep ==
  ASSUME IInv, Handshaken
  PROVE  IInv'
<1>1. UNCHANGED exchanges /\ journalIn' \in Nat /\ journalIn' >= journalIn
  BY LimitsAssumption DEF IInv, Numbers, Handshaken, Continue, NoDeadline, openUnchanged
<1>2. Quiet'
  BY <1>1, EventsKept, LimitsAssumption DEF IInv, Quiet, Numbers, WithinBytes,
     ReadIsJournaled, NeverPastLifetime, WithinResponse, WithinCapture, WithinRanges,
     BetweenRequests, InRequest, Handshaken, Continue, Remaining, Blocked, NoDeadline,
     openUnchanged
<1>. QED
  BY <1>1, <1>2, EventsKept DEF IInv, Quiet

LEMMA HandshakeFailsStep ==
  ASSUME IInv, HandshakeFails
  PROVE  IInv'
<1>1. UNCHANGED exchanges /\ journalIn' \in Nat /\ journalIn' >= journalIn
  BY LimitsAssumption DEF IInv, Numbers, HandshakeFails, Return, Record, LimitReasons,
     ParserReasons, CodeOf, NoDeadline, openUnchanged
<1>2. Quiet'
  BY <1>1, EventsKept, LimitsAssumption DEF IInv, Quiet, Numbers, WithinBytes,
     ReadIsJournaled, NeverPastLifetime, WithinResponse, WithinCapture, WithinRanges,
     BetweenRequests, InRequest, HandshakeFails, Return, Record, LimitReasons,
     ParserReasons, CodeOf, Remaining, Blocked, NoDeadline, openUnchanged
<1>. QED
  BY <1>1, <1>2, EventsKept DEF IInv, Quiet

LEMMA LeaveLoopStep ==
  ASSUME IInv, LeaveLoop
  PROVE  IInv'
<1>1. UNCHANGED exchanges /\ journalIn' \in Nat /\ journalIn' >= journalIn
  BY LimitsAssumption DEF IInv, Numbers, LeaveLoop, Return, Record, LimitReasons,
     ParserReasons, CodeOf, loopUnchanged
<1>2. Quiet'
  BY <1>1, EventsKept, LimitsAssumption DEF IInv, Quiet, Numbers, WithinBytes,
     ReadIsJournaled, NeverPastLifetime, WithinResponse, WithinCapture, WithinRanges,
     BetweenRequests, InRequest, LeaveLoop, Return, Record, LimitReasons, ParserReasons,
     CodeOf, Remaining, Blocked, loopUnchanged
<1>. QED
  BY <1>1, <1>2, EventsKept DEF IInv, Quiet

LEMMA BeginHeaderStep ==
  ASSUME IInv, BeginHeader
  PROVE  IInv'
<1>1. UNCHANGED exchanges /\ journalIn' \in Nat /\ journalIn' >= journalIn
  BY LimitsAssumption DEF IInv, Numbers, BeginHeader, Continue, LimitDeadline, Least,
     loopUnchanged, LogicalConsumed
<1>2. Quiet'
  BY <1>1, EventsKept, LimitsAssumption DEF IInv, Quiet, Numbers, WithinBytes,
     ReadIsJournaled, NeverPastLifetime, WithinResponse, WithinCapture, WithinRanges,
     BetweenRequests, InRequest, BeginHeader, Continue, LimitDeadline, Least, Remaining,
     Blocked, loopUnchanged, LogicalConsumed
<1>. QED
  BY <1>1, <1>2, EventsKept DEF IInv, Quiet

LEMMA FillStep ==
  ASSUME IInv, Fill
  PROVE  IInv'
<1>1. UNCHANGED exchanges /\ journalIn' \in Nat /\ journalIn' >= journalIn
  BY LimitsAssumption DEF IInv, Numbers, Fill, LimitDeadline, Least, Remaining,
     readUnchanged, ReadData, ReadLimit, HeaderRemaining
<1>2. Quiet'
  BY <1>1, EventsKept, LimitsAssumption DEF IInv, Quiet, Numbers, WithinBytes,
     ReadIsJournaled, NeverPastLifetime, WithinResponse, WithinCapture, WithinRanges,
     BetweenRequests, InRequest, Fill, LimitDeadline, Least, Remaining, Blocked,
     readUnchanged, ReadData, ReadLimit, HeaderRemaining
<1>. QED
  BY <1>1, <1>2, EventsKept DEF IInv, Quiet

LEMMA ReadRequestErrorStep ==
  ASSUME IInv, ReadRequestError
  PROVE  IInv'
<1>1. UNCHANGED exchanges /\ journalIn' \in Nat /\ journalIn' >= journalIn
  BY LimitsAssumption DEF IInv, Numbers, ReadRequestError, Record, LimitReasons,
     ParserReasons, CodeOf, Remaining, Expired, headerUnchanged, RequestFailed,
     RequestFailure
<1>2. Quiet'
  BY <1>1, EventsKept, LimitsAssumption DEF IInv, Quiet, Numbers, WithinBytes,
     ReadIsJournaled, NeverPastLifetime, WithinResponse, WithinCapture, WithinRanges,
     BetweenRequests, InRequest, ReadRequestError, Record, LimitReasons, ParserReasons,
     CodeOf, Remaining, Expired, Blocked, headerUnchanged, RequestFailed, RequestFailure
<1>. QED
  BY <1>1, <1>2, EventsKept DEF IInv, Quiet

LEMMA ReadRequestMalformedStep ==
  ASSUME IInv, ReadRequestMalformed
  PROVE  IInv'
<1>1. UNCHANGED exchanges /\ journalIn' \in Nat /\ journalIn' >= journalIn
  BY LimitsAssumption DEF IInv, Numbers, ReadRequestMalformed, Record, LimitReasons,
     ParserReasons, CodeOf, Remaining, headerUnchanged, RequestFailed, RequestFailure
<1>2. Quiet'
  BY <1>1, EventsKept, LimitsAssumption DEF IInv, Quiet, Numbers, WithinBytes,
     ReadIsJournaled, NeverPastLifetime, WithinResponse, WithinCapture, WithinRanges,
     BetweenRequests, InRequest, ReadRequestMalformed, Record, LimitReasons, ParserReasons,
     CodeOf, Remaining, Blocked, headerUnchanged, RequestFailed, RequestFailure
<1>. QED
  BY <1>1, <1>2, EventsKept DEF IInv, Quiet

LEMMA ReadRequestStep ==
  ASSUME IInv, ReadRequest
  PROVE  IInv'
<1>1. UNCHANGED exchanges /\ journalIn' \in Nat /\ journalIn' >= journalIn
  BY LimitsAssumption DEF IInv, Numbers, ReadRequest, Continue, headerUnchanged, HeaderEnd
<1>2. Quiet'
  BY <1>1, EventsKept, LimitsAssumption DEF IInv, Quiet, Numbers, WithinBytes,
     ReadIsJournaled, NeverPastLifetime, WithinResponse, WithinCapture, WithinRanges,
     BetweenRequests, InRequest, ReadRequest, Continue, Remaining, Blocked, headerUnchanged,
     HeaderEnd
<1>. QED
  BY <1>1, <1>2, EventsKept DEF IInv, Quiet

LEMMA RejectRequestStep ==
  ASSUME IInv, RejectRequest
  PROVE  IInv'
<1>1. UNCHANGED exchanges /\ journalIn' \in Nat /\ journalIn' >= journalIn
  BY LimitsAssumption DEF IInv, Numbers, RejectRequest, Return, ReturnCapturing, Record,
     LimitReasons, ParserReasons, CodeOf, acceptUnchanged
<1>2. Quiet'
  BY <1>1, EventsKept, LimitsAssumption DEF IInv, Quiet, Numbers, WithinBytes,
     ReadIsJournaled, NeverPastLifetime, WithinResponse, WithinCapture, WithinRanges,
     BetweenRequests, InRequest, RejectRequest, Return, ReturnCapturing, Record,
     LimitReasons, ParserReasons, CodeOf, Remaining, Blocked, acceptUnchanged
<1>. QED
  BY <1>1, <1>2, EventsKept DEF IInv, Quiet

LEMMA AcceptRequestStep ==
  ASSUME IInv, AcceptRequest
  PROVE  IInv'
<1>1. UNCHANGED exchanges /\ journalIn' \in Nat /\ journalIn' >= journalIn
  BY LimitsAssumption DEF IInv, Numbers, AcceptRequest, Return, Continue, Record,
     LimitReasons, ParserReasons, CodeOf, LimitDeadline, Least, acceptUnchanged,
     BeginBodyPhase, BodyDeadline
<1>2. Quiet'
  BY <1>1, EventsKept, LimitsAssumption DEF IInv, Quiet, Numbers, WithinBytes,
     ReadIsJournaled, NeverPastLifetime, WithinResponse, WithinCapture, WithinRanges,
     BetweenRequests, InRequest, AcceptRequest, Return, Continue, Record, LimitReasons,
     ParserReasons, CodeOf, LimitDeadline, Least, Remaining, Blocked, acceptUnchanged,
     BeginBodyPhase, BodyDeadline
<1>. QED
  BY <1>1, <1>2, EventsKept DEF IInv, Quiet

LEMMA BeginBodyStep ==
  ASSUME IInv, BeginBody
  PROVE  IInv'
<1>1. UNCHANGED exchanges /\ journalIn' \in Nat /\ journalIn' >= journalIn
  BY LimitsAssumption DEF IInv, Numbers, BeginBody, Return, Continue, Record, LimitReasons,
     ParserReasons, CodeOf, LimitDeadline, Least, acceptUnchanged, BeginBodyPhase, BodyDeadline
<1>2. Quiet'
  BY <1>1, EventsKept, LimitsAssumption DEF IInv, Quiet, Numbers, WithinBytes,
     ReadIsJournaled, NeverPastLifetime, WithinResponse, WithinCapture, WithinRanges,
     BetweenRequests, InRequest, BeginBody, Return, Continue, Record, LimitReasons,
     ParserReasons, CodeOf, LimitDeadline, Least, Remaining, Blocked, acceptUnchanged,
     BeginBodyPhase, BodyDeadline
<1>. QED
  BY <1>1, <1>2, EventsKept DEF IInv, Quiet

LEMMA TakeBodyStep ==
  ASSUME IInv, TakeBody
  PROVE  IInv'
<1>1. UNCHANGED exchanges /\ journalIn' \in Nat /\ journalIn' >= journalIn
  BY LimitsAssumption DEF IInv, Numbers, TakeBody, bodyUnchanged
<1>2. Quiet'
  BY <1>1, EventsKept, LimitsAssumption DEF IInv, Quiet, Numbers, WithinBytes,
     ReadIsJournaled, NeverPastLifetime, WithinResponse, WithinCapture, WithinRanges,
     BetweenRequests, InRequest, TakeBody, Remaining, Blocked, bodyUnchanged
<1>. QED
  BY <1>1, <1>2, EventsKept DEF IInv, Quiet

LEMMA EndBodyStep ==
  ASSUME IInv, EndBody
  PROVE  IInv'
<1>1. UNCHANGED exchanges /\ journalIn' \in Nat /\ journalIn' >= journalIn
  BY LimitsAssumption DEF IInv, Numbers, EndBody, ReturnCapturing, Continue, Record,
     LimitReasons, ParserReasons, CodeOf, NoDeadline, bodyUnchanged
<1>2. Quiet'
  BY <1>1, EventsKept, LimitsAssumption DEF IInv, Quiet, Numbers, WithinBytes,
     ReadIsJournaled, NeverPastLifetime, WithinResponse, WithinCapture, WithinRanges,
     BetweenRequests, InRequest, EndBody, ReturnCapturing, Continue, Record, LimitReasons,
     ParserReasons, CodeOf, Remaining, Blocked, NoDeadline, bodyUnchanged
<1>. QED
  BY <1>1, <1>2, EventsKept DEF IInv, Quiet

LEMMA BodyErrorStep ==
  ASSUME IInv, BodyError
  PROVE  IInv'
<1>1. UNCHANGED exchanges /\ journalIn' \in Nat /\ journalIn' >= journalIn
  BY LimitsAssumption DEF IInv, Numbers, BodyError, ReturnCapturing, Record, LimitReasons,
     ParserReasons, CodeOf, Remaining, Expired, NoDeadline, bodyUnchanged, BodyFailure
<1>2. Quiet'
  BY <1>1, EventsKept, LimitsAssumption DEF IInv, Quiet, Numbers, WithinBytes,
     ReadIsJournaled, NeverPastLifetime, WithinResponse, WithinCapture, WithinRanges,
     BetweenRequests, InRequest, BodyError, ReturnCapturing, Record, LimitReasons,
     ParserReasons, CodeOf, Remaining, Expired, Blocked, NoDeadline, bodyUnchanged,
     BodyFailure
<1>. QED
  BY <1>1, <1>2, EventsKept DEF IInv, Quiet

LEMMA CountRequestStep ==
  ASSUME IInv, CountRequest
  PROVE  IInv'
<1>1. UNCHANGED exchanges /\ journalIn' \in Nat /\ journalIn' >= journalIn
  BY LimitsAssumption DEF IInv, Numbers, CountRequest, LimitReasons, ParserReasons,
     RecordLast, ResponseBudget, Most
<1>2. Quiet'
  BY <1>1, EventsKept, LimitsAssumption DEF IInv, Quiet, Numbers, WithinBytes,
     ReadIsJournaled, NeverPastLifetime, WithinResponse, WithinCapture, WithinRanges,
     BetweenRequests, InRequest, CountRequest, LimitReasons, ParserReasons, Remaining,
     Blocked, RecordLast, ResponseBudget, Most
<1>. QED
  BY <1>1, <1>2, EventsKept DEF IInv, Quiet

LEMMA WaitDelayStep ==
  ASSUME IInv, WaitDelay
  PROVE  IInv'
<1>1. UNCHANGED exchanges /\ journalIn' \in Nat /\ journalIn' >= journalIn
  BY LimitsAssumption DEF IInv, Numbers, WaitDelay, Continue, LimitDeadline, Least,
     sendUnchanged, StreamDeadline
<1>2. Quiet'
  BY <1>1, EventsKept, LimitsAssumption DEF IInv, Quiet, Numbers, WithinBytes,
     ReadIsJournaled, NeverPastLifetime, WithinResponse, WithinCapture, WithinRanges,
     BetweenRequests, InRequest, WaitDelay, Continue, LimitDeadline, Least, Remaining,
     Blocked, sendUnchanged, StreamDeadline
<1>. QED
  BY <1>1, <1>2, EventsKept DEF IInv, Quiet

LEMMA DelayOverStep ==
  ASSUME IInv, DelayOver
  PROVE  IInv'
<1>1. UNCHANGED exchanges /\ journalIn' \in Nat /\ journalIn' >= journalIn
  BY LimitsAssumption DEF IInv, Numbers, DelayOver, Continue, Expired, NoDeadline,
     sendUnchanged
<1>2. Quiet'
  BY <1>1, EventsKept, LimitsAssumption DEF IInv, Quiet, Numbers, WithinBytes,
     ReadIsJournaled, NeverPastLifetime, WithinResponse, WithinCapture, WithinRanges,
     BetweenRequests, InRequest, DelayOver, Continue, Remaining, Expired, Blocked,
     NoDeadline, sendUnchanged
<1>. QED
  BY <1>1, <1>2, EventsKept DEF IInv, Quiet

LEMMA StartWriteStep ==
  ASSUME IInv, StartWrite
  PROVE  IInv'
<1>1. UNCHANGED exchanges /\ journalIn' \in Nat /\ journalIn' >= journalIn
  BY LimitsAssumption DEF IInv, Numbers, StartWrite, Continue, LimitDeadline, Least,
     Remaining, sendUnchanged, WriteFails, WriteCut, WriteErrorCode
<1>2. Quiet'
  BY <1>1, EventsKept, LimitsAssumption DEF IInv, Quiet, Numbers, WithinBytes,
     ReadIsJournaled, NeverPastLifetime, WithinResponse, WithinCapture, WithinRanges,
     BetweenRequests, InRequest, StartWrite, Continue, LimitDeadline, Least, Remaining,
     Blocked, sendUnchanged, WriteFails, WriteCut, WriteErrorCode
<1>. QED
  BY <1>1, <1>2, EventsKept DEF IInv, Quiet

LEMMA FinishWriteStep ==
  ASSUME IInv, FinishWrite
  PROVE  IInv'
<1>1. UNCHANGED exchanges /\ journalIn' \in Nat /\ journalIn' >= journalIn
  BY LimitsAssumption DEF IInv, Numbers, FinishWrite, Continue, Expired, sendUnchanged,
     WriteResult, WriteFails, Written, WriteErrorCode
<1>2. Quiet'
  BY <1>1, EventsKept, LimitsAssumption DEF IInv, Quiet, Numbers, WithinBytes,
     ReadIsJournaled, NeverPastLifetime, WithinResponse, WithinCapture, WithinRanges,
     BetweenRequests, InRequest, FinishWrite, Continue, Remaining, Expired, Blocked,
     sendUnchanged, WriteResult, WriteFails, Written, WriteErrorCode
<1>. QED
  BY <1>1, <1>2, EventsKept DEF IInv, Quiet

LEMMA BeginPostFailureStep ==
  ASSUME IInv, BeginPostFailure
  PROVE  IInv'
<1>1. UNCHANGED exchanges /\ journalIn' \in Nat /\ journalIn' >= journalIn
  BY LimitsAssumption DEF IInv, Numbers, BeginPostFailure, CaptureDeadline, LimitDeadline, Least,
     captureUnchanged
<1>2. Quiet'
  BY <1>1, EventsKept, LimitsAssumption DEF IInv, Quiet, Numbers, WithinBytes,
     ReadIsJournaled, NeverPastLifetime, WithinResponse, WithinCapture, WithinRanges,
     BetweenRequests, InRequest, BeginPostFailure, CaptureDeadline, LimitDeadline, Least, Remaining, Blocked,
     captureUnchanged
<1>. QED
  BY <1>1, <1>2, EventsKept DEF IInv, Quiet

LEMMA CaptureStep ==
  ASSUME IInv, Capture
  PROVE  IInv'
<1>1. UNCHANGED exchanges /\ journalIn' \in Nat /\ journalIn' >= journalIn
  BY LimitsAssumption DEF IInv, Numbers, Capture, LimitDeadline, Least, Remaining, ReadData,
     ReadLimit, HeaderRemaining, CaptureNext
<1>2. Quiet'
  BY <1>1, EventsKept, LimitsAssumption DEF IInv, Quiet, Numbers, WithinBytes,
     ReadIsJournaled, NeverPastLifetime, WithinResponse, WithinCapture, WithinRanges,
     BetweenRequests, InRequest, Capture, LimitDeadline, Least, Remaining, Blocked,
     ReadData, ReadLimit, HeaderRemaining, CaptureNext
<1>. QED
  BY <1>1, <1>2, EventsKept DEF IInv, Quiet

LEMMA CaptureEndsStep ==
  ASSUME IInv, CaptureEnds
  PROVE  IInv'
<1>1. UNCHANGED exchanges /\ journalIn' \in Nat /\ journalIn' >= journalIn
  BY LimitsAssumption DEF IInv, Numbers, CaptureEnds, Remaining, Expired, NoDeadline,
     captureUnchanged
<1>2. Quiet'
  BY <1>1, EventsKept, LimitsAssumption DEF IInv, Quiet, Numbers, WithinBytes,
     ReadIsJournaled, NeverPastLifetime, WithinResponse, WithinCapture, WithinRanges,
     BetweenRequests, InRequest, CaptureEnds, Remaining, Expired, Blocked, NoDeadline,
     captureUnchanged
<1>. QED
  BY <1>1, <1>2, EventsKept DEF IInv, Quiet

LEMMA WriteConnectionCloseStep ==
  ASSUME IInv, WriteConnectionClose
  PROVE  IInv'
<1>1. UNCHANGED exchanges /\ journalIn' \in Nat /\ journalIn' >= journalIn
  BY LimitsAssumption DEF IInv, Numbers, WriteConnectionClose
<1>2. Quiet'
  BY <1>1, EventsKept, LimitsAssumption DEF IInv, Quiet, Numbers, WithinBytes,
     ReadIsJournaled, NeverPastLifetime, WithinResponse, WithinCapture, WithinRanges,
     BetweenRequests, InRequest, WriteConnectionClose, Remaining, Blocked
<1>. QED
  BY <1>1, <1>2, EventsKept DEF IInv, Quiet

LEMMA TickStep ==
  ASSUME IInv, Tick
  PROVE  IInv'
<1>1. UNCHANGED exchanges /\ journalIn' \in Nat /\ journalIn' >= journalIn
  BY LimitsAssumption DEF IInv, Numbers, Tick, Blocked
<1>2. Quiet'
  BY <1>1, EventsKept, LimitsAssumption DEF IInv, Quiet, Numbers, WithinBytes,
     ReadIsJournaled, NeverPastLifetime, WithinResponse, WithinCapture, WithinRanges,
     BetweenRequests, InRequest, Tick, Remaining, Blocked
<1>. QED
  BY <1>1, <1>2, EventsKept DEF IInv, Quiet

LEMMA JournalBreaksStep ==
  ASSUME IInv, JournalBreaks
  PROVE  IInv'
<1>1. UNCHANGED exchanges /\ journalIn' \in Nat /\ journalIn' >= journalIn
  BY LimitsAssumption DEF IInv, Numbers, JournalBreaks
<1>2. Quiet'
  BY <1>1, EventsKept, LimitsAssumption DEF IInv, Quiet, Numbers, WithinBytes,
     ReadIsJournaled, NeverPastLifetime, WithinResponse, WithinCapture, WithinRanges,
     BetweenRequests, InRequest, JournalBreaks, Remaining, Blocked
<1>. QED
  BY <1>1, <1>2, EventsKept DEF IInv, Quiet

LEMMA CancelContextStep ==
  ASSUME IInv, CancelContext
  PROVE  IInv'
<1>1. UNCHANGED exchanges /\ journalIn' \in Nat /\ journalIn' >= journalIn
  BY LimitsAssumption DEF IInv, Numbers, CancelContext
<1>2. Quiet'
  BY <1>1, EventsKept, LimitsAssumption DEF IInv, Quiet, Numbers, WithinBytes,
     ReadIsJournaled, NeverPastLifetime, WithinResponse, WithinCapture, WithinRanges,
     BetweenRequests, InRequest, CancelContext, Remaining, Blocked
<1>. QED
  BY <1>1, <1>2, EventsKept DEF IInv, Quiet

LEMMA CloseActiveStep ==
  ASSUME IInv, CloseActive
  PROVE  IInv'
<1>1. UNCHANGED exchanges /\ journalIn' \in Nat /\ journalIn' >= journalIn
  BY LimitsAssumption DEF IInv, Numbers, CloseActive
<1>2. Quiet'
  BY <1>1, EventsKept, LimitsAssumption DEF IInv, Quiet, Numbers, WithinBytes,
     ReadIsJournaled, NeverPastLifetime, WithinResponse, WithinCapture, WithinRanges,
     BetweenRequests, InRequest, CloseActive, Remaining, Blocked
<1>. QED
  BY <1>1, <1>2, EventsKept DEF IInv, Quiet

(* The event of this exchange ends where the parser stopped reading.       *)
LEMMA EmitExchangeStep ==
  ASSUME IInv, EmitExchange
  PROVE  IInv'
<1>. DEFINE Event == [requestStart : Int, requestLength : Int, responseStart : Int,
                      responseLength : Int, wire : Int, complete : BOOLEAN]
            x == [requestStart |-> req.start, requestLength |-> LogicalConsumed - req.start,
                  responseStart |-> req.out, responseLength |-> bytesOut - req.out,
                  wire |-> req.wire, complete |-> err = "none"]
<1>1. x \in Event
  BY DEF IInv, Numbers, LogicalConsumed
<1>2. /\ x.requestStart + x.requestLength <= journalIn
      /\ x.responseLength <= MaxResponseBytes
      /\ x.requestStart = LastEnd /\ x.requestLength > 0
      /\ x.requestStart + x.requestLength = consumed
  <2>1. req.start \in Int /\ req.out \in Int /\ pc = "exchange"
    BY DEF IInv, Numbers, EmitExchange
  <2>2. /\ req.start + (LogicalConsumed - req.start) <= journalIn
        /\ bytesOut - req.out <= MaxResponseBytes
        /\ req.start = LastEnd /\ LogicalConsumed - req.start > 0
        /\ req.start + (LogicalConsumed - req.start) = consumed
    BY <2>1 DEF IInv, Numbers, LogicalConsumed, ReadIsJournaled, WithinResponse,
       WithinRanges, InRequest
  <2>. QED
    BY <2>2
<1>3. exchanges \in Seq(Event) /\ exchanges' = Append(exchanges, x) /\ journalIn' = journalIn
  BY DEF IInv, EventsFit, EmitExchange
<1>4. exchanges' \in Seq(Event)
  BY <1>1, <1>3
<1>5. ASSUME NEW i \in DOMAIN exchanges'
      PROVE  /\ exchanges'[i].requestStart + exchanges'[i].requestLength <= journalIn
             /\ exchanges'[i].responseLength <= MaxResponseBytes
             /\ exchanges'[i].requestStart = RangesEnd(i - 1)'
             /\ exchanges'[i].requestLength > 0
  <2>. HIDE DEF Event, x
  <2>1. i \in 1..(Len(exchanges) + 1)
    BY <1>1, <1>3
  <2>2. \A j \in 1..Len(exchanges) : exchanges'[j] = exchanges[j]
    BY <1>1, <1>3
  <2>3. RangesEnd(i - 1)' = RangesEnd(i - 1)
    BY <1>3, <2>1, <2>2 DEF RangesEnd
  <2>4. CASE i = Len(exchanges) + 1
    BY <1>2, <1>3, <2>3, <2>4 DEF LastEnd
  <2>5. CASE i # Len(exchanges) + 1
    <3>1. i \in DOMAIN exchanges /\ exchanges'[i] = exchanges[i]
      BY <1>3, <2>1, <2>2, <2>5
    <3>. QED
      BY <2>3, <3>1 DEF IInv, EventsFit
  <2>. QED
    BY <2>1, <2>4, <2>5
<1>6. EventsFit'
  BY <1>3, <1>4, <1>5 DEF EventsFit
<1>7. /\ UNCHANGED <<clockVars, inVars, outVars, readerVars, captured, requestVars,
                       responseVars>>
      /\ pc' \in {"close", "loop"} /\ deadline' = NoDeadline
  BY DEF EmitExchange, Return, Continue
<1>8. "post_failure_capture_bytes" \in limits' => "post_failure_capture_bytes" \in limits
  <2>1. ASSUME NEW why, Record(why)
        PROVE  limits' \subseteq limits \cup LimitReasons
    BY <2>1 DEF Record, CodeOf, LimitReasons
  <2>2. limits' \subseteq limits \cup LimitReasons
    <3>. HIDE DEF x
    <3>. QED
      BY <2>1 DEF EmitExchange, Return, Continue
  <2>. QED
    BY <2>2 DEF LimitReasons
<1>9. LastEnd' = consumed
  <2>. HIDE DEF Event, x
  <2>1. exchanges'[Len(exchanges) + 1] = x /\ Len(exchanges') = Len(exchanges) + 1
    BY <1>1, <1>3
  <2>. QED
    BY <1>2, <1>3, <2>1 DEF LastEnd, RangesEnd
<1>10. pc = "exchange"
  BY DEF EmitExchange
<1>11. Quiet'
  BY <1>7, <1>8, <1>9, <1>10, LimitsAssumption DEF IInv, Quiet, Numbers, WithinBytes,
     ReadIsJournaled, NeverPastLifetime, WithinResponse, WithinCapture, WithinRanges,
     BetweenRequests, InRequest, Blocked, Remaining, NoDeadline
<1>. QED
  BY <1>6, <1>11 DEF IInv, Quiet

-----------------------------------------------------------------------------
LEMMA InitInv == Init => IInv
<1>. SUFFICES ASSUME Init PROVE IInv
  OBVIOUS
<1>1. exchanges = <<>>
  BY DEF Init
<1>2. EventsFit
  BY <1>1 DEF EventsFit
<1>3. LastEnd = 0
  BY <1>1 DEF LastEnd, RangesEnd
<1>4. Quiet
  BY <1>3, LimitsAssumption DEF Init, Quiet, Numbers, WithinBytes, ReadIsJournaled,
     NeverPastLifetime, WithinResponse, WithinCapture, WithinRanges, BetweenRequests,
     InRequest, Blocked, NoDeadline
<1>. QED
  BY <1>2, <1>4 DEF IInv, Quiet

LEMMA StutterInv ==
  ASSUME IInv, UNCHANGED vars
  PROVE  IInv'
<1>1. UNCHANGED exchanges /\ journalIn' \in Nat /\ journalIn' >= journalIn
  BY DEF IInv, Numbers, vars
<1>2. Quiet'
  BY <1>1, EventsKept DEF IInv, Quiet, Numbers, WithinBytes, ReadIsJournaled,
     NeverPastLifetime, WithinResponse, WithinCapture, WithinRanges, Blocked, Remaining,
     vars
<1>. QED
  BY <1>1, <1>2, EventsKept DEF IInv, Quiet

LEMMA NextInv == IInv /\ [Next]_vars => IInv'
<1>. SUFFICES ASSUME IInv, [Next]_vars PROVE IInv'
  OBVIOUS
<1>1. CASE WriteConnectionOpen
  BY <1>1, WriteConnectionOpenStep
<1>2. CASE Handshaken
  BY <1>2, HandshakenStep
<1>3. CASE HandshakeFails
  BY <1>3, HandshakeFailsStep
<1>4. CASE LeaveLoop
  BY <1>4, LeaveLoopStep
<1>5. CASE BeginHeader
  BY <1>5, BeginHeaderStep
<1>6. CASE Fill
  BY <1>6, FillStep
<1>7. CASE ReadRequestError
  BY <1>7, ReadRequestErrorStep
<1>8. CASE ReadRequestMalformed
  BY <1>8, ReadRequestMalformedStep
<1>9. CASE ReadRequest
  BY <1>9, ReadRequestStep
<1>10. CASE RejectRequest
  BY <1>10, RejectRequestStep
<1>11. CASE AcceptRequest
  BY <1>11, AcceptRequestStep
<1>12. CASE BeginBody
  BY <1>12, BeginBodyStep
<1>13. CASE TakeBody
  BY <1>13, TakeBodyStep
<1>14. CASE EndBody
  BY <1>14, EndBodyStep
<1>15. CASE BodyError
  BY <1>15, BodyErrorStep
<1>16. CASE CountRequest
  BY <1>16, CountRequestStep
<1>17. CASE WaitDelay
  BY <1>17, WaitDelayStep
<1>18. CASE DelayOver
  BY <1>18, DelayOverStep
<1>19. CASE StartWrite
  BY <1>19, StartWriteStep
<1>20. CASE FinishWrite
  BY <1>20, FinishWriteStep
<1>21. CASE BeginPostFailure
  BY <1>21, BeginPostFailureStep
<1>22. CASE Capture
  BY <1>22, CaptureStep
<1>23. CASE CaptureEnds
  BY <1>23, CaptureEndsStep
<1>24. CASE WriteConnectionClose
  BY <1>24, WriteConnectionCloseStep
<1>25. CASE Tick
  BY <1>25, TickStep
<1>26. CASE JournalBreaks
  BY <1>26, JournalBreaksStep
<1>27. CASE CancelContext
  BY <1>27, CancelContextStep
<1>28. CASE CloseActive
  BY <1>28, CloseActiveStep
<1>29. CASE EmitExchange
  BY <1>29, EmitExchangeStep
<1>30. CASE UNCHANGED vars
  BY <1>30, StutterInv
<1>. QED
  BY <1>1, <1>2, <1>3, <1>4, <1>5, <1>6, <1>7, <1>8, <1>9, <1>10, <1>11, <1>12, <1>13, <1>14, <1>15, <1>16, <1>17, <1>18, <1>19, <1>20, <1>21, <1>22, <1>23, <1>24, <1>25, <1>26, <1>27, <1>28, <1>29, <1>30
  DEF Next, ReceiveData, Handler

LEMMA SpecInv == Spec => []IInv
<1>. QED
  BY InitInv, NextInv, PTL DEF Spec

(* No call of a handler waits past the end of its connection's life.       *)
THEOREM DeadlinesWithinLifetime == Spec => []NeverPastLifetime
<1>1. IInv => NeverPastLifetime
  BY DEF IInv
<1>. QED
  BY <1>1, SpecInv, PTL

(* What the parser took, and what the events say of the requests, can be   *)
(* read back from the journal.                                             *)
THEOREM RequestsStayJournaled == Spec => []RequestsAreJournaled
<1>1. IInv => RequestsAreJournaled
  BY DEF IInv, Numbers, ReadIsJournaled, EventsFit, RequestsAreJournaled
<1>. QED
  BY <1>1, SpecInv, PTL

(* The events cut the inbound stream exactly where the parser did.         *)
THEOREM RequestRangesAreExact == Spec => []RequestRangesExact
<1>1. IInv => RequestRangesExact
  BY DEF IInv, WithinRanges, BetweenRequests, InRequest, EventsFit, LastEnd,
     RequestRangesExact
<1>. QED
  BY <1>1, SpecInv, PTL

(* Requests: until the current one is counted there is room for it, and    *)
(* once the limit is reached the connection is to close.                   *)
BeforeCount == {"open", "handshake", "loop", "header", "accept", "continued", "body", "count"}
Answering == {"respond", "waiting", "send", "writing", "exchange"}
WithinRequests ==
  /\ requests \in Nat /\ requests <= MaxRequestsPerConnection
  /\ pc \in BeforeCount => requests < MaxRequestsPerConnection
  /\ pc \in Answering =>
       \/ requests < MaxRequestsPerConnection
       \/ closeAfter /\ sending = "response"

LEMMA RequestsStep == WithinRequests /\ [Next]_vars => WithinRequests'
<1>. SUFFICES ASSUME WithinRequests, [Next]_vars PROVE WithinRequests'
  OBVIOUS
<1>. USE LimitsAssumption DEF WithinRequests, BeforeCount, Answering
<1>1. CASE WriteConnectionOpen
  BY <1>1 DEF WriteConnectionOpen, Return, Continue, openUnchanged
<1>2. CASE Handshaken
  BY <1>2 DEF Handshaken, Continue, openUnchanged
<1>3. CASE HandshakeFails
  BY <1>3 DEF HandshakeFails, Return, openUnchanged
<1>4. CASE LeaveLoop
  BY <1>4 DEF LeaveLoop, Return, loopUnchanged
<1>5. CASE BeginHeader
  BY <1>5 DEF BeginHeader, Continue, loopUnchanged
<1>6. CASE Fill
  BY <1>6 DEF Fill, readUnchanged
<1>7. CASE ReadRequestError
  BY <1>7 DEF ReadRequestError, RequestFailed, headerUnchanged
<1>8. CASE ReadRequestMalformed
  BY <1>8 DEF ReadRequestMalformed, RequestFailed, headerUnchanged
<1>9. CASE ReadRequest
  BY <1>9 DEF ReadRequest, Continue, headerUnchanged
<1>10. CASE RejectRequest
  BY <1>10 DEF RejectRequest, Return, ReturnCapturing, acceptUnchanged
<1>11. CASE AcceptRequest
  BY <1>11 DEF AcceptRequest, BeginBodyPhase, Return, Continue, acceptUnchanged
<1>12. CASE BeginBody
  BY <1>12 DEF BeginBody, BeginBodyPhase, Return, Continue, acceptUnchanged
<1>13. CASE TakeBody
  BY <1>13 DEF TakeBody, bodyUnchanged
<1>14. CASE EndBody
  BY <1>14 DEF EndBody, Continue, ReturnCapturing, bodyUnchanged
<1>15. CASE BodyError
  BY <1>15 DEF BodyError, ReturnCapturing, bodyUnchanged
<1>16. CASE CountRequest
  <2>1. requests' = requests + 1 /\ requests < MaxRequestsPerConnection
    BY <1>16 DEF CountRequest
  <2>2. closeAfter' \/ requests + 1 < MaxRequestsPerConnection
    <3>1. PICK close \in BOOLEAN : closeAfter' = (close \/ LastRequest(requests + 1))
      BY <1>16 DEF CountRequest
    <3>2. CASE LastRequest(requests + 1)
      BY <3>1, <3>2, Zenon
    <3>3. CASE ~LastRequest(requests + 1)
      BY <3>3 DEF LastRequest
    <3>. QED
      BY <3>2, <3>3
  <2>3. \/ pc' = "close"
        \/ pc' \in {"exchange", "respond"} /\ sending' = "response"
    BY <1>16, Zenon DEF CountRequest
  <2>. QED
    BY <2>1, <2>2, <2>3
<1>17. CASE WaitDelay
  BY <1>17 DEF WaitDelay, Continue, sendUnchanged
<1>18. CASE DelayOver
  BY <1>18 DEF DelayOver, Continue, sendUnchanged
<1>19. CASE StartWrite
  BY <1>19 DEF StartWrite, WriteFails, Continue, sendUnchanged
<1>20. CASE FinishWrite
  BY <1>20 DEF FinishWrite, WriteResult, WriteFails, Written, Continue, sendUnchanged
<1>21. CASE EmitExchange
  BY <1>21 DEF EmitExchange, Return, Continue
<1>22. CASE BeginPostFailure
  BY <1>22 DEF BeginPostFailure, captureUnchanged
<1>23. CASE Capture
  BY <1>23 DEF Capture
<1>24. CASE CaptureEnds
  BY <1>24 DEF CaptureEnds, captureUnchanged
<1>25. CASE WriteConnectionClose
  BY <1>25 DEF WriteConnectionClose
<1>26. CASE Tick
  BY <1>26 DEF Tick
<1>27. CASE JournalBreaks
  BY <1>27 DEF JournalBreaks
<1>28. CASE CancelContext
  BY <1>28 DEF CancelContext
<1>29. CASE CloseActive
  BY <1>29 DEF CloseActive
<1>30. CASE UNCHANGED vars
  BY <1>30 DEF vars
<1>. HIDE DEF WithinRequests
<1>31. CASE ReceiveData
  BY <1>6, <1>23, <1>31 DEF ReceiveData
<1>32. CASE Handler
  BY <1>1, <1>3, <1>4, <1>5, <1>7, <1>8, <1>9, <1>10, <1>11, <1>12, <1>13, <1>14, <1>15,
     <1>16, <1>17, <1>18, <1>19, <1>20, <1>21, <1>22, <1>24, <1>25, <1>32 DEF Handler
<1>. QED
  BY <1>2, <1>26, <1>27, <1>28, <1>29, <1>30, <1>31, <1>32 DEF Next

LEMMA RequestsInv == Spec => []WithinRequests
<1>1. Init => WithinRequests
  <2>1. MaxRequestsPerConnection \in Nat \ {0}
    BY LimitsAssumption
  <2>2. ASSUME Init PROVE pc = "open" /\ requests = 0
    BY <2>2 DEF Init
  <2>. QED
    BY <2>1, <2>2 DEF WithinRequests, BeforeCount, Answering
<1>. QED
  BY <1>1, RequestsStep, PTL DEF Spec

(* max_connection_bytes, max_requests_per_connection, max_response_bytes   *)
(* and max_post_failure_capture_bytes all hold, for every value of the     *)
(* limits, every fragmentation, every partial write and every failure.     *)
THEOREM LimitsAlwaysHold == Spec => []LimitsHold
<1>1. IInv => BytesBounded
  BY DEF IInv, WithinBytes, BytesBounded
<1>2. IInv => ResponseBounded
  BY DEF IInv, EventsFit, ResponseBounded
<1>3. IInv => CaptureBounded
  BY DEF IInv, WithinCapture, CaptureBounded
<1>4. WithinRequests => RequestsBounded
  BY DEF WithinRequests, RequestsBounded
<1>5. IInv /\ WithinRequests => LimitsHold
  BY <1>1, <1>2, <1>3, <1>4 DEF LimitsHold
<1>. QED
  BY <1>5, SpecInv, RequestsInv, PTL

-----------------------------------------------------------------------------
(* The header of a request: as long as it is read, what was taken of it    *)
(* and what bufio holds is at least what the reader counted; once it is    *)
(* accepted its length is settled.                                         *)
AfterHeader == {"continued", "body", "count"} \cup Answering
Ended == {"post", "capture", "close", "done"}
WithinHeader ==
  /\ pc = "header" => consumed + buffered - req.start >= headerBytesRead
  /\ pc = "accept" => req.headerEnd = consumed
  /\ pc \in AfterHeader => req.headerEnd - req.start <= MaxHeaderBytes
  /\ reason = "header_bytes" => pc \in Ended /\ consumed - req.start > MaxHeaderBytes

LEMMA HeaderStep ==
  ASSUME IInv, WithinHeader, [Next]_vars
  PROVE  WithinHeader'
<1>. USE LimitsAssumption DEF IInv, Numbers, WithinHeader, AfterHeader, Answering, Ended, WithinRanges,
         BetweenRequests, InRequest
<1>1. CASE WriteConnectionOpen
  BY <1>1 DEF WriteConnectionOpen, Return, Continue, openUnchanged
<1>2. CASE Handshaken
  BY <1>2 DEF Handshaken, Continue, openUnchanged
<1>3. CASE HandshakeFails
  BY <1>3 DEF HandshakeFails, Return, openUnchanged
<1>4. CASE LeaveLoop
  BY <1>4 DEF LeaveLoop, Return, loopUnchanged
<1>5. CASE BeginHeader
  BY <1>5 DEF BeginHeader, Continue, loopUnchanged, LogicalConsumed
<1>6. CASE Fill
  BY <1>6 DEF Fill, ReadData, readUnchanged
<1>7. CASE ReadRequestError
  BY <1>7 DEF ReadRequestError, RequestFailed, RequestFailure, ReadErrors,
     HeaderRemaining, headerUnchanged
<1>8. CASE ReadRequestMalformed
  BY <1>8 DEF ReadRequestMalformed, RequestFailed, RequestFailure, headerUnchanged
<1>9. CASE ReadRequest
  BY <1>9 DEF ReadRequest, HeaderEnd, Continue, headerUnchanged
<1>10. CASE RejectRequest
  BY <1>10 DEF RejectRequest, HeaderTooLong, Return, ReturnCapturing, acceptUnchanged
<1>11. CASE AcceptRequest
  BY <1>11 DEF AcceptRequest, HeaderTooLong, BeginBodyPhase, Return, Continue,
     acceptUnchanged
<1>12. CASE BeginBody
  BY <1>12 DEF BeginBody, BeginBodyPhase, Return, Continue, acceptUnchanged
<1>13. CASE TakeBody
  BY <1>13 DEF TakeBody, bodyUnchanged
<1>14. CASE EndBody
  BY <1>14 DEF EndBody, Continue, ReturnCapturing, bodyUnchanged
<1>15. CASE BodyError
  BY <1>15 DEF BodyError, ReturnCapturing, BodyFailure, bodyUnchanged
<1>16. CASE CountRequest
  BY <1>16 DEF CountRequest
<1>17. CASE WaitDelay
  BY <1>17 DEF WaitDelay, Continue, sendUnchanged
<1>18. CASE DelayOver
  BY <1>18 DEF DelayOver, Continue, sendUnchanged
<1>19. CASE StartWrite
  BY <1>19 DEF StartWrite, WriteFails, WriteErrorCode, Continue, sendUnchanged
<1>20. CASE FinishWrite
  BY <1>20 DEF FinishWrite, WriteResult, WriteFails, WriteErrorCode, Written, Continue,
     sendUnchanged
<1>21. CASE EmitExchange
  BY <1>21 DEF EmitExchange, ResponseFailure, WriteErrorCode, Return, Continue
<1>22. CASE BeginPostFailure
  BY <1>22 DEF BeginPostFailure, captureUnchanged
<1>23. CASE Capture
  BY <1>23 DEF Capture, ReadData
<1>24. CASE CaptureEnds
  BY <1>24 DEF CaptureEnds, captureUnchanged
<1>25. CASE WriteConnectionClose
  BY <1>25 DEF WriteConnectionClose
<1>26. CASE Tick
  BY <1>26 DEF Tick
<1>27. CASE JournalBreaks
  BY <1>27 DEF JournalBreaks
<1>28. CASE CancelContext
  BY <1>28 DEF CancelContext
<1>29. CASE CloseActive
  BY <1>29 DEF CloseActive
<1>30. CASE UNCHANGED vars
  BY <1>30 DEF vars
<1>. HIDE DEF WithinHeader, IInv
<1>. QED
  BY <1>1, <1>2, <1>3, <1>4, <1>5, <1>6, <1>7, <1>8, <1>9, <1>10, <1>11, <1>12, <1>13,
     <1>14, <1>15, <1>16, <1>17, <1>18, <1>19, <1>20, <1>21, <1>22, <1>23, <1>24,
     <1>25, <1>26, <1>27, <1>28, <1>29, <1>30
  DEF Next, ReceiveData, Handler

LEMMA HeaderInv == Spec => [](IInv /\ WithinHeader)
<1>1. Init => WithinHeader
  BY LimitsAssumption DEF Init, WithinHeader, AfterHeader, Answering, Ended
<1>2. IInv /\ WithinHeader /\ [Next]_vars => (IInv /\ WithinHeader)'
  BY HeaderStep, NextInv
<1>. QED
  BY <1>1, <1>2, InitInv, PTL DEF Spec

(* A request is served only within max_header_bytes, and refused for them  *)
(* only when the client sent more (connection.go:114, 394).                *)
THEOREM HeaderLimitIsExact == Spec => []HeaderLimitExact
<1>1. IInv /\ WithinHeader => HeaderLimitExact
  BY DEF WithinHeader, AfterHeader, Answering, HeaderLimitExact
<1>. QED
  BY <1>1, HeaderInv, PTL

-----------------------------------------------------------------------------
(* The response: what the journal holds is what was sent until a write is  *)
(* refused, and what was sent and is still to be sent is one response with *)
(* or without an interim one.                                              *)
Sent == bytesOut - req.out
Whole == {0, InterimSize}
WithinJournal ==
  /\ journalOut \in Nat
  /\ pc \notin Ended \cup {"exchange"} => journalOut = bytesOut
  /\ pc = "exchange" /\ err = "none" => journalOut = bytesOut /\ Sent - req.wire \in Whole
  /\ pc \in {"header", "accept"} => Sent = 0
  /\ pc = "continued" => Sent = InterimSize
  /\ pc \in {"body", "count"} => Sent \in Whole
  /\ pc \in {"respond", "waiting", "send", "writing"} =>
       IF sending = "interim" THEN Sent + toSend = InterimSize
                              ELSE Sent + toSend - req.wire \in Whole
  /\ pc = "writing" => piece > 0
  /\ \A i \in DOMAIN exchanges :
       exchanges[i].complete =>
         /\ exchanges[i].responseLength - exchanges[i].wire \in Whole
         /\ exchanges[i].responseStart + exchanges[i].responseLength <= journalOut

LEMMA EventTypes ==
  ASSUME EventsFit, NEW i \in DOMAIN exchanges
  PROVE  exchanges[i].responseStart \in Int /\ exchanges[i].responseLength \in Int
<1>. DEFINE Event == [requestStart : Int, requestLength : Int, responseStart : Int,
                      responseLength : Int, wire : Int, complete : BOOLEAN]
<1>1. exchanges \in Seq(Event)
  BY DEF EventsFit
<1>2. exchanges[i] \in Event
  <2>. HIDE DEF Event
  <2>. QED
    BY <1>1
<1>. QED
  BY <1>2

(* A response that is over without an error was sent and journaled whole.  *)
LEMMA NoErrorMeansWhole ==
  ASSUME IInv, WithinJournal, pc = "exchange", err = "none"
  PROVE  /\ (bytesOut - req.out) - req.wire \in Whole
         /\ req.out + (bytesOut - req.out) <= journalOut
<1>1. req.out \in Int /\ bytesOut \in Int /\ journalOut = bytesOut
  BY DEF IInv, Numbers, WithinJournal
<1>2. (bytesOut - req.out) - req.wire \in Whole
  BY DEF WithinJournal, Sent
<1>. QED
  BY <1>1, <1>2

LEMMA EmitExchangeJournal ==
  ASSUME IInv, WithinJournal, EmitExchange
  PROVE  WithinJournal'
<1>. DEFINE Event == [requestStart : Int, requestLength : Int, responseStart : Int,
                      responseLength : Int, wire : Int, complete : BOOLEAN]
            x == [requestStart |-> req.start, requestLength |-> LogicalConsumed - req.start,
                  responseStart |-> req.out, responseLength |-> bytesOut - req.out,
                  wire |-> req.wire, complete |-> err = "none"]
<1>1. x \in Event
  BY DEF IInv, Numbers, LogicalConsumed
<1>2. exchanges' = Append(exchanges, x) /\ exchanges \in Seq(Event)
  BY DEF IInv, EmitExchange, EventsFit
<1>3. /\ UNCHANGED <<outVars, req, sending, piece, toSend>> /\ pc = "exchange"
      /\ pc' = "close" \/ (pc' = "loop" /\ err = "none")
  BY DEF EmitExchange, Return, Continue
<1>4. x.complete => /\ x.responseLength - x.wire \in Whole
                    /\ x.responseStart + x.responseLength <= journalOut
  <2>1. x.complete => err = "none"
    BY Zenon
  <2>. QED
    BY <1>3, <2>1, NoErrorMeansWhole
<1>5. ASSUME NEW i \in DOMAIN exchanges', exchanges'[i].complete
      PROVE  /\ exchanges'[i].responseLength - exchanges'[i].wire \in Whole
             /\ exchanges'[i].responseStart + exchanges'[i].responseLength <= journalOut
  <2>. HIDE DEF Event, x
  <2>1. i \in 1..(Len(exchanges) + 1)
    BY <1>1, <1>2
  <2>2. exchanges'[i] = x \/ (i \in DOMAIN exchanges /\ exchanges'[i] = exchanges[i])
    BY <1>1, <1>2, <2>1
  <2>. QED
    BY <1>4, <1>5, <2>2 DEF WithinJournal
<1>6. journalOut \in Nat /\ (pc' = "loop" => journalOut = bytesOut)
  BY <1>3 DEF WithinJournal
<1>. QED
  BY <1>3, <1>5, <1>6 DEF WithinJournal, Ended

LEMMA JournalStep ==
  ASSUME IInv, WithinJournal, [Next]_vars
  PROVE  WithinJournal'
<1>. USE LimitsAssumption DEF IInv, Numbers, WithinJournal, Sent, Whole, Ended, WithinBytes, Remaining, WithinResponse
<1>1. CASE WriteConnectionOpen
  BY <1>1 DEF WriteConnectionOpen, Return, Continue, openUnchanged
<1>2. CASE Handshaken
  BY <1>2 DEF Handshaken, Continue, openUnchanged
<1>3. CASE HandshakeFails
  BY <1>3 DEF HandshakeFails, Return, openUnchanged
<1>4. CASE LeaveLoop
  BY <1>4 DEF LeaveLoop, Return, loopUnchanged
<1>5. CASE BeginHeader
  BY <1>5 DEF BeginHeader, Continue, loopUnchanged, LogicalConsumed
<1>6. CASE Fill
  BY <1>6 DEF Fill, ReadData, readUnchanged
<1>7. CASE ReadRequestError
  BY <1>7 DEF ReadRequestError, RequestFailed, RequestFailure, ReadErrors,
     HeaderRemaining, headerUnchanged
<1>8. CASE ReadRequestMalformed
  BY <1>8 DEF ReadRequestMalformed, RequestFailed, RequestFailure, headerUnchanged
<1>9. CASE ReadRequest
  BY <1>9 DEF ReadRequest, HeaderEnd, Continue, headerUnchanged
<1>10. CASE RejectRequest
  BY <1>10 DEF RejectRequest, HeaderTooLong, Return, ReturnCapturing, acceptUnchanged
<1>11. CASE AcceptRequest
  BY <1>11 DEF AcceptRequest, HeaderTooLong, BeginBodyPhase, Return, Continue,
     acceptUnchanged
<1>12. CASE BeginBody
  BY <1>12 DEF BeginBody, BeginBodyPhase, Return, Continue, acceptUnchanged
<1>13. CASE TakeBody
  BY <1>13 DEF TakeBody, bodyUnchanged
<1>14. CASE EndBody
  BY <1>14 DEF EndBody, Continue, ReturnCapturing, bodyUnchanged
<1>15. CASE BodyError
  BY <1>15 DEF BodyError, ReturnCapturing, BodyFailure, bodyUnchanged
<1>16. CASE CountRequest
  BY <1>16 DEF CountRequest
<1>17. CASE WaitDelay
  BY <1>17 DEF WaitDelay, Continue, sendUnchanged
<1>18. CASE DelayOver
  BY <1>18 DEF DelayOver, Continue, sendUnchanged
<1>19. CASE StartWrite
  <2>1. CASE \E e \in {"connection_limit", "closed"} : WriteFails(e)
    <3>1. err' # "none" /\ pc' \in {"close", "exchange"}
      BY <2>1 DEF WriteFails, Continue
    <3>. QED
      BY <1>19, <3>1 DEF StartWrite, sendUnchanged
  <2>2. CASE /\ Remaining > 0 /\ Continue("writing") /\ UNCHANGED err
             /\ \E k \in 1..toSend : piece' = WriteCut(k)
    BY <1>19, <2>2 DEF StartWrite, WriteCut, Least, Continue, sendUnchanged
  <2>. QED
    BY <1>19, <2>1, <2>2 DEF StartWrite
<1>20. CASE FinishWrite
  <2>1. PICK n \in 0..piece :
          /\ bytesOut' = bytesOut + n
          /\ journalOut' = IF bwjFailed THEN journalOut ELSE journalOut + n
          /\ toSend' = toSend - n
          /\ WriteResult(n)
    BY <1>20 DEF FinishWrite
  <2>2. /\ pc = "writing" /\ piece > 0 /\ piece <= toSend /\ journalOut = bytesOut
        /\ UNCHANGED <<req, sending, exchanges, piece>>
    BY <1>20 DEF FinishWrite, sendUnchanged
  <2>3. journalOut' \in Nat /\ journalOut' >= journalOut
    BY <2>1, <2>2
  <2>6. ASSUME NEW i \in DOMAIN exchanges, exchanges[i].complete
        PROVE  /\ exchanges[i].responseLength - exchanges[i].wire \in Whole
               /\ exchanges[i].responseStart + exchanges[i].responseLength <= journalOut'
    <3>1. exchanges[i].responseStart \in Int /\ exchanges[i].responseLength \in Int
      BY <2>6, EventTypes
    <3>. QED
      BY <2>3, <2>6, <3>1
  <2>4. CASE \E e \in {"journal", "timeout", "closed", "connection_limit"} : WriteFails(e)
    <3>1. err' # "none" /\ pc' \in {"close", "exchange"}
      BY <2>4 DEF WriteFails, Continue
    <3>. QED
      BY <2>2, <2>3, <2>6, <3>1
  <2>5. CASE n = piece /\ ~bwjFailed /\ Written
    BY <2>1, <2>2, <2>3, <2>5, <2>6 DEF Written, Continue
  <2>. QED
    BY <2>1, <2>2, <2>4, <2>5 DEF WriteResult
<1>21. CASE EmitExchange
  BY <1>21, EmitExchangeJournal
<1>22. CASE BeginPostFailure
  BY <1>22 DEF BeginPostFailure, captureUnchanged
<1>23. CASE Capture
  BY <1>23 DEF Capture, ReadData
<1>24. CASE CaptureEnds
  BY <1>24 DEF CaptureEnds, captureUnchanged
<1>25. CASE WriteConnectionClose
  BY <1>25 DEF WriteConnectionClose
<1>26. CASE Tick
  BY <1>26 DEF Tick
<1>27. CASE JournalBreaks
  BY <1>27 DEF JournalBreaks
<1>28. CASE CancelContext
  BY <1>28 DEF CancelContext
<1>29. CASE CloseActive
  BY <1>29 DEF CloseActive
<1>30. CASE UNCHANGED vars
  BY <1>30 DEF vars
<1>. QED
  BY <1>1, <1>2, <1>3, <1>4, <1>5, <1>6, <1>7, <1>8, <1>9, <1>10, <1>11, <1>12, <1>13,
     <1>14, <1>15, <1>16, <1>17, <1>18, <1>19, <1>20, <1>21, <1>22, <1>23, <1>24,
     <1>25, <1>26, <1>27, <1>28, <1>29, <1>30
  DEF Next, ReceiveData, Handler

LEMMA JournalInv == Spec => [](IInv /\ WithinJournal)
<1>1. Init => WithinJournal
  BY LimitsAssumption DEF Init, WithinJournal, Ended, Sent, Whole
<1>2. IInv /\ WithinJournal /\ [Next]_vars => (IInv /\ WithinJournal)'
  BY JournalStep, NextInv
<1>. QED
  BY <1>1, <1>2, InitInv, PTL DEF Spec

(* A response reported complete was sent whole and is in the journal       *)
(* (connection.go:195-218, 541-620).                                       *)
THEOREM CompleteIsAlwaysJournaled == Spec => []CompleteIsJournaled
<1>1. IInv /\ WithinJournal => CompleteIsJournaled
  BY DEF WithinJournal, Whole, CompleteIsJournaled
<1>. QED
  BY <1>1, JournalInv, PTL

-----------------------------------------------------------------------------
(* As long as the journal works, a handler that has returned has recorded  *)
(* the limit or the parser error its reason names, and the request limit   *)
(* is recorded with the request that reaches it, before the response that  *)
(* is the last is sent and long before the connection is closed for it.    *)
Told ==
  /\ reason \in LimitReasons => \/ CodeOf(reason) \in limits
                                \/ sending = "interim" /\ err # "none"
  /\ reason \in ParserReasons => parserRecord
Explained ==
  ~bwjFailed =>
    /\ pc \in Ended => Told
    /\ LastRequest(requests) => "max_requests" \in limits

(* The three kinds of step: the handler returns and records its reason,    *)
(* it goes on, or it has returned and keeps what it recorded.              *)
Rest == UNCHANGED <<bwjFailed, requests>>
Returns == Record(reason') /\ Rest
GoesOn == pc' \notin Ended /\ UNCHANGED limits /\ Rest
Keeps ==
  /\ pc' \in Ended => pc \in Ended /\ UNCHANGED <<reason, sending, err>>
  /\ limits \subseteq limits' /\ UNCHANGED <<parserRecord, requests>>
  /\ bwjFailed => bwjFailed'

LEMMA ReturnIsExplained == Explained /\ Returns => Explained'
<1>. SUFFICES ASSUME Explained, Returns, ~bwjFailed' PROVE Explained'
  BY DEF Explained
<1>1. ~bwjFailed /\ limits \subseteq limits' /\ UNCHANGED requests
  BY DEF Returns, Rest, Record
<1>2. reason' \in LimitReasons => CodeOf(reason') \in limits'
  BY <1>1 DEF Returns, Record
<1>3. reason' \in ParserReasons => parserRecord'
  BY <1>1, Zenon DEF Returns, Record
<1>4. LastRequest(requests)' => "max_requests" \in limits'
  BY <1>1 DEF Explained, LastRequest
<1>. QED
  BY <1>2, <1>3, <1>4 DEF Explained, Told

LEMMA GoingOnIsExplained == Explained /\ GoesOn => Explained'
BY DEF Explained, GoesOn, Rest, LastRequest

LEMMA KeepingIsExplained == Explained /\ Keeps => Explained'
BY DEF Explained, Keeps, Told, LastRequest

LEMMA CountRequestExplained ==
  ASSUME Explained, CountRequest
  PROVE  Explained'
<1>1. requests' = requests + 1 /\ UNCHANGED bwjFailed
  BY DEF CountRequest
<1>2. CASE \E why \in {"connection_lifetime", "connect_tunnel_prohibited"} :
             reason' = why /\ RecordLast(why)
  BY <1>1, <1>2 DEF Explained, Told, RecordLast, LastRequest, LimitReasons, ParserReasons,
     CodeOf
<1>3. CASE pc' \notin Ended /\ RecordLast("none")
  BY <1>1, <1>3 DEF Explained, RecordLast, LastRequest
<1>. QED
  BY <1>2, <1>3, Zenon DEF CountRequest, Ended

LEMMA WriteFailsExplained ==
  ASSUME Explained, NEW e \in {"journal", "timeout", "closed", "connection_limit"},
         WriteFails(e), Rest, UNCHANGED sending
  PROVE  Explained'
<1>1. err' = e /\ e # "none" /\ UNCHANGED <<limits, parserRecord>>
  BY DEF WriteFails, Continue
<1>2. CASE sending = "interim" /\ reason' = WriteErrorCode(e)
  <2>1. reason' \in {"write_timeout", "connection_bytes", "write_failed"}
    BY <1>2 DEF WriteErrorCode
  <2>. QED
    BY <1>1, <1>2, <2>1 DEF Explained, Rest, Told, ParserReasons, LastRequest
<1>3. CASE pc' = "exchange"
  BY <1>1, <1>3, GoingOnIsExplained DEF GoesOn, Ended
<1>. QED
  BY <1>2, <1>3 DEF WriteFails, Continue

LEMMA ExplainedStep ==
  ASSUME Explained, [Next]_vars
  PROVE  Explained'
<1>1. CASE WriteConnectionOpen
  <2>1. Returns \/ GoesOn
    BY <1>1 DEF WriteConnectionOpen, Return, Continue, openUnchanged, Returns, GoesOn,
       Rest, Ended
  <2>. QED
    BY <2>1, ReturnIsExplained, GoingOnIsExplained
<1>2. CASE Handshaken
  BY <1>2, GoingOnIsExplained DEF Handshaken, Continue, openUnchanged, GoesOn, Rest, Ended
<1>3. CASE HandshakeFails
  BY <1>3, ReturnIsExplained DEF HandshakeFails, Return, openUnchanged, Returns, Rest
<1>4. CASE LeaveLoop
  BY <1>4, ReturnIsExplained DEF LeaveLoop, Return, loopUnchanged, Returns, Rest
<1>5. CASE BeginHeader
  BY <1>5, GoingOnIsExplained DEF BeginHeader, Continue, loopUnchanged, GoesOn, Rest, Ended
<1>6. CASE Fill
  BY <1>6, KeepingIsExplained DEF Fill, readUnchanged, Keeps
<1>7. CASE ReadRequestError
  BY <1>7, ReturnIsExplained DEF ReadRequestError, RequestFailed, headerUnchanged, Returns,
     Rest
<1>8. CASE ReadRequestMalformed
  BY <1>8, ReturnIsExplained DEF ReadRequestMalformed, RequestFailed, headerUnchanged,
     Returns, Rest
<1>9. CASE ReadRequest
  BY <1>9, GoingOnIsExplained DEF ReadRequest, Continue, headerUnchanged, GoesOn, Rest,
     Ended
<1>10. CASE RejectRequest
  BY <1>10, ReturnIsExplained DEF RejectRequest, Return, ReturnCapturing, acceptUnchanged,
     Returns, Rest
<1>11. CASE AcceptRequest
  <2>1. Returns \/ GoesOn
    BY <1>11 DEF AcceptRequest, BeginBodyPhase, Return, Continue, acceptUnchanged, Returns,
       GoesOn, Rest, Ended
  <2>. QED
    BY <2>1, ReturnIsExplained, GoingOnIsExplained
<1>12. CASE BeginBody
  <2>1. Returns \/ GoesOn
    BY <1>12 DEF BeginBody, BeginBodyPhase, Return, Continue, acceptUnchanged, Returns,
       GoesOn, Rest, Ended
  <2>. QED
    BY <2>1, ReturnIsExplained, GoingOnIsExplained
<1>13. CASE TakeBody
  BY <1>13, GoingOnIsExplained DEF TakeBody, bodyUnchanged, GoesOn, Rest, Ended
<1>14. CASE EndBody
  <2>1. Returns \/ GoesOn
    BY <1>14 DEF EndBody, Continue, ReturnCapturing, bodyUnchanged, Returns, GoesOn, Rest,
       Ended
  <2>. QED
    BY <2>1, ReturnIsExplained, GoingOnIsExplained
<1>15. CASE BodyError
  BY <1>15, ReturnIsExplained DEF BodyError, ReturnCapturing, bodyUnchanged, Returns, Rest
<1>16. CASE CountRequest
  BY <1>16, CountRequestExplained
<1>17. CASE WaitDelay
  BY <1>17, GoingOnIsExplained DEF WaitDelay, Continue, sendUnchanged, GoesOn, Rest, Ended
<1>18. CASE DelayOver
  BY <1>18, GoingOnIsExplained DEF DelayOver, Continue, sendUnchanged, GoesOn, Rest, Ended
<1>19. CASE StartWrite
  <2>1. Rest /\ UNCHANGED sending
    BY <1>19 DEF StartWrite, sendUnchanged, Rest
  <2>2. \/ WriteFails("connection_limit") \/ WriteFails("closed") \/ Continue("writing")
    BY <1>19 DEF StartWrite
  <2>. QED
    BY <2>1, <2>2, WriteFailsExplained, GoingOnIsExplained DEF Continue, GoesOn, Ended
<1>20. CASE FinishWrite
  <2>1. Rest /\ UNCHANGED sending
    BY <1>20 DEF FinishWrite, sendUnchanged, Rest
  <2>2. \/ WriteFails("journal") \/ WriteFails("timeout") \/ WriteFails("closed")
        \/ WriteFails("connection_limit") \/ Written
    BY <1>20 DEF FinishWrite, WriteResult
  <2>3. Written => GoesOn
    BY <2>1 DEF Written, Continue, GoesOn, Ended
  <2>. QED
    BY <2>1, <2>2, <2>3, WriteFailsExplained, GoingOnIsExplained
<1>21. CASE EmitExchange
  <2>1. Rest /\ UNCHANGED <<sending, err>>
    BY <1>21 DEF EmitExchange, Rest
  <2>2. CASE \E streamErr \in StreamErrors : Return(ResponseFailure(streamErr))
    <3>1. Record(reason')
      BY <2>2 DEF Return
    <3>. QED
      BY <2>1, <3>1, ReturnIsExplained DEF Returns
  <2>3. CASE /\ UNCHANGED recordVars
             /\ reason' = IF LastRequest(requests) THEN "max_requests" ELSE "connection_close"
    BY <2>1, <2>3 DEF Explained, Rest, Told, LimitReasons, ParserReasons, CodeOf, LastRequest
  <2>4. CASE Continue("loop")
    BY <2>1, <2>4, GoingOnIsExplained DEF Continue, GoesOn, Ended
  <2>. QED
    BY <1>21, <2>2, <2>3, <2>4 DEF EmitExchange
<1>22. CASE BeginPostFailure
  BY <1>22, KeepingIsExplained DEF BeginPostFailure, captureUnchanged, Keeps, Ended
<1>23. CASE Capture
  BY <1>23, KeepingIsExplained DEF Capture, Keeps, Ended
<1>24. CASE CaptureEnds
  BY <1>24, KeepingIsExplained DEF CaptureEnds, captureUnchanged, Keeps, Ended
<1>25. CASE WriteConnectionClose
  BY <1>25, KeepingIsExplained DEF WriteConnectionClose, Keeps, Ended
<1>26. CASE Tick
  BY <1>26, KeepingIsExplained DEF Tick, Keeps
<1>27. CASE JournalBreaks
  BY <1>27, KeepingIsExplained DEF JournalBreaks, Keeps
<1>28. CASE CancelContext
  BY <1>28, KeepingIsExplained DEF CancelContext, Keeps
<1>29. CASE CloseActive
  BY <1>29, KeepingIsExplained DEF CloseActive, Keeps
<1>30. CASE UNCHANGED vars
  BY <1>30, KeepingIsExplained DEF vars, Keeps
<1>. QED
  BY <1>1, <1>2, <1>3, <1>4, <1>5, <1>6, <1>7, <1>8, <1>9, <1>10, <1>11, <1>12, <1>13,
     <1>14, <1>15, <1>16, <1>17, <1>18, <1>19, <1>20, <1>21, <1>22, <1>23, <1>24,
     <1>25, <1>26, <1>27, <1>28, <1>29, <1>30
  DEF Next, ReceiveData, Handler

(* Every close for a limit or a parser failure is explained by a record of *)
(* the journal, the write of the interim response excepted                 *)
(* (connection.go:458-462).                                                *)
THEOREM CloseIsAlwaysExplained == Spec => []CloseIsExplained
<1>1. Init => Explained
  BY LimitsAssumption DEF Init, Explained, Ended, LastRequest
<1>2. Explained /\ [Next]_vars => Explained'
  BY ExplainedStep
<1>3. Explained => CloseIsExplained
  BY DEF Explained, Ended, Told, CloseIsExplained
<1>. QED
  BY <1>1, <1>2, <1>3, PTL DEF Spec
=============================================================================
