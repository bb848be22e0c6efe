---------------------------- MODULE Connection ----------------------------
(***************************************************************************)
(* One connection handler of the sensor (connection.go), from the open     *)
(* record to the close record: the recording reader under bufio, the       *)
(* journaling writer under response.Write, the byte, request and time      *)
(* limits, the stream ranges of the exchange events, and the reason a      *)
(* connection is closed with.                                              *)
(*                                                                         *)
(* Bytes are counted, never named.  What net/http does with them is        *)
(* external: it may find the end of a header or of a body, or an error, in *)
(* any byte.  The client, the clock, the disk (the journal fails at some   *)
(* moment, through this handler or another, and stays failed) and the rest *)
(* of the process (cancel, then close the socket) are the environment.     *)
(***************************************************************************)
EXTENDS Integers, Sequences

CONSTANTS
  TLS,                \* the listener's protocol is https
  MaxConnectionBytes, MaxHeaderBytes, MaxBodyBytes, MaxResponseBytes,
  MaxRequestsPerConnection, MaxPostFailureCaptureBytes,   \* limits.*
  HeaderReadSlack,    \* 4096: the reader's allowance over MaxHeaderBytes
  BufferSize,         \* 4096: the buffer of the bufio.Reader
  CaptureSize,        \* 32768: the buffer of postFailureCapture
  InterimSize,        \* bytes of the interim 100 Continue response
  HandshakeTimeout, IdleTimeout, HeaderTimeout, BodyTimeout, WriteTimeout,
  MaxStream, PostFailureTimeout, MaxLifetime,             \* limits.*_seconds
  MaxTime             \* bound on the clock

ASSUME LimitsAssumption ==
  /\ TLS \in BOOLEAN
  /\ {MaxConnectionBytes, MaxHeaderBytes, MaxBodyBytes, MaxResponseBytes,
      MaxRequestsPerConnection, MaxPostFailureCaptureBytes, HeaderReadSlack,
      BufferSize, CaptureSize, InterimSize, HandshakeTimeout, IdleTimeout,
      HeaderTimeout, BodyTimeout, WriteTimeout, MaxStream, PostFailureTimeout,
      MaxLifetime} \subseteq Nat \ {0}
  /\ MaxTime \in Nat /\ MaxTime > MaxLifetime

NoDeadline == MaxTime + 1
Chunked == -1         \* a body with transfer encoding chunked

VARIABLES
  pc,                 \* where the handler is
  now,                \* time since the connection was accepted
  deadline,           \* deadline of the call the handler is in, or is to make
  ctxDone, closed,    \* runCtx is cancelled; this process closed the socket
  eof,                \* the client has sent its last byte
  (* the journal and what it holds of this connection *)
  bwjFailed, journalIn, journalOut, limits, parserRecord,
  (* connectionCounters *)
  bytesIn, bytesOut, requests,
  (* recordingReader and the bufio.Reader above it *)
  headerPhase, headerStarted, headerBytesRead, buffered,
  consumed,           \* bytes net/http took out of the bufio.Reader
  captured,           \* bytes read by postFailureCapture
  (* the current request *)
  req,                \* its ranges and how it was framed
  declared, payload,  \* content length, and body bytes so far
  (* the current response *)
  sending,            \* what exchangeWriter.Write is used for
  piece, limited,     \* bytes of the write under way; it was cut to the limit
  toSend,             \* bytes of the response still to be written
  streamStart,        \* when the response began
  err,                \* result.Error
  closeAfter,
  exchanges,          \* the exchange events
  reason              \* closeReasonText

clockVars == <<now, ctxDone, closed, bwjFailed>>
recordVars == <<limits, parserRecord>>
inVars == <<journalIn, bytesIn>>
outVars == <<journalOut, bytesOut>>
readerVars == <<headerPhase, headerStarted, headerBytesRead, buffered, consumed>>
requestVars == <<req, declared, payload>>
responseVars == <<sending, piece, limited, toSend, streamStart, err, closeAfter>>
vars == <<pc, deadline, eof, clockVars, recordVars, inVars, outVars, requests, readerVars,
          captured, requestVars, responseVars, exchanges, reason>>

-----------------------------------------------------------------------------
Least(a, b) == IF a < b THEN a ELSE b
Most(a, b) == IF a < b THEN b ELSE a

(* No deadline is later than the end of the connection's life.             *)
LimitDeadline(t) == Least(t, MaxLifetime)

Expired == now >= deadline
Remaining == MaxConnectionBytes - bytesIn - bytesOut
HeaderRemaining == MaxHeaderBytes + HeaderReadSlack - headerBytesRead

LogicalConsumedOfReads == bytesIn
LogicalConsumed == bytesIn - buffered

(* The reader's budget for one read into a buffer of size bytes.           *)
ReadLimit(size) ==
  IF headerPhase THEN Least(size, Least(Remaining, HeaderRemaining)) ELSE Least(size, Remaining)

(* The meta records: a limit, under the code of the reason it is for, or a *)
(* parser error.  Other reasons have no record but the close record.       *)
LimitReasons == {"connection_lifetime", "header_timeout", "idle_timeout", "body_timeout",
                 "header_bytes", "connection_bytes", "body_bytes", "trailer_bytes",
                 "response_bytes", "stream_timeout", "write_timeout", "max_requests"}
ParserReasons == {"parser_failure", "unsupported_http_version", "unsupported_expectation",
                  "body_parse_error", "connect_tunnel_prohibited"}
CodeOf(why) == IF why = "trailer_bytes" THEN "header_bytes" ELSE why

RecordNoBodyTimeout(why) ==
  /\ limits' = IF why \in LimitReasons \ {"body_timeout"} /\ ~bwjFailed
                 THEN limits \cup {CodeOf(why)} ELSE limits
  /\ parserRecord' = (parserRecord \/ (why \in ParserReasons /\ ~bwjFailed))
Record(why) ==
  /\ limits' = IF why \in LimitReasons /\ ~bwjFailed THEN limits \cup {CodeOf(why)} ELSE limits
  /\ parserRecord' = (parserRecord \/ (why \in ParserReasons /\ ~bwjFailed))

(* The handler's return: what happened is recorded, and the deferred close *)
(* follows, or postFailureCapture before it.                               *)
Return(why) == pc' = "close" /\ reason' = why /\ Record(why)
ReturnCapturing(why) == pc' = "post" /\ reason' = why /\ Record(why)
Continue(where) == pc' = where /\ UNCHANGED <<reason, recordVars>>

Init ==
  /\ pc = "open" /\ now = 0 /\ deadline = NoDeadline
  /\ ctxDone = FALSE /\ closed = FALSE /\ eof = FALSE
  /\ bwjFailed \in BOOLEAN
  /\ journalIn = 0 /\ journalOut = 0 /\ limits = {} /\ parserRecord = FALSE
  /\ bytesIn = 0 /\ bytesOut = 0 /\ requests = 0
  /\ headerPhase = FALSE /\ headerStarted = FALSE /\ headerBytesRead = 0
  /\ buffered = 0 /\ consumed = 0 /\ captured = 0
  /\ req = [start |-> 0, buffered |-> FALSE, headerEnd |-> 0, out |-> 0, wire |-> 0]
  /\ declared = 0 /\ payload = 0
  /\ sending = "nothing" /\ piece = 0 /\ limited = FALSE /\ toSend = 0
  /\ streamStart = 0 /\ err = "none" /\ closeAfter = FALSE
  /\ exchanges = <<>> /\ reason = "unspecified"

-----------------------------------------------------------------------------
(* The environment.  A call blocked on the socket or a timer returns when  *)
(* its deadline comes: time does not pass a deadline it is waiting for.    *)
Blocked == pc \in {"handshake", "header", "body", "waiting", "writing", "capture"}

Tick ==
  /\ now < MaxTime /\ pc # "done"
  /\ Blocked => now < deadline
  /\ now' = now + 1
  /\ UNCHANGED <<pc, deadline, eof, ctxDone, closed, bwjFailed, recordVars, inVars, outVars,
                 requests, readerVars, captured, requestVars, responseVars, exchanges, reason>>

JournalBreaks ==
  /\ ~bwjFailed /\ pc # "done"
  /\ bwjFailed' = TRUE
  /\ UNCHANGED <<pc, deadline, eof, now, ctxDone, closed, recordVars, inVars, outVars,
                 requests, readerVars, captured, requestVars, responseVars, exchanges, reason>>

CancelContext ==
  /\ ~ctxDone /\ pc # "done"
  /\ ctxDone' = TRUE
  /\ UNCHANGED <<pc, deadline, eof, now, closed, bwjFailed, recordVars, inVars, outVars,
                 requests, readerVars, captured, requestVars, responseVars, exchanges, reason>>

CloseActive ==
  /\ ctxDone /\ ~closed /\ pc # "done"
  /\ closed' = TRUE
  /\ UNCHANGED <<pc, deadline, eof, now, ctxDone, bwjFailed, recordVars, inVars, outVars,
                 requests, readerVars, captured, requestVars, responseVars, exchanges, reason>>

-----------------------------------------------------------------------------
(* Opening, and the TLS handshake, whose bytes are not counted.            *)

openUnchanged == <<clockVars, eof, inVars, outVars, requests, readerVars, captured,
                   requestVars, responseVars, exchanges>>

WriteConnectionOpen ==
  /\ pc = "open"
  /\ \/ bwjFailed /\ Return("evidence_failure") /\ UNCHANGED deadline
     \/ /\ ~bwjFailed /\ TLS /\ now < MaxLifetime
        /\ deadline' = now + Least(HandshakeTimeout, MaxLifetime - now)
        /\ Continue("handshake")
     \/ /\ ~bwjFailed /\ TLS /\ now >= MaxLifetime
        /\ Return("connection_lifetime") /\ UNCHANGED deadline
     \/ ~bwjFailed /\ ~TLS /\ Continue("loop") /\ UNCHANGED deadline
  /\ UNCHANGED openUnchanged

Handshaken ==
  /\ pc = "handshake" /\ now <= deadline /\ ~closed
  /\ Continue("loop") /\ deadline' = NoDeadline
  /\ UNCHANGED openUnchanged

(* It fails on the client's bytes, on the deadline, on the context, or on  *)
(* a closed socket.                                                        *)
HandshakeFails ==
  /\ pc = "handshake"
  /\ Return(IF now >= MaxLifetime THEN "connection_lifetime" ELSE "tls_error")
  /\ deadline' = NoDeadline
  /\ UNCHANGED openUnchanged

-----------------------------------------------------------------------------
(* The request loop, up to the first read of a header.                     *)

loopUnchanged == <<clockVars, eof, inVars, outVars, requests, buffered, consumed, captured,
                   responseVars, exchanges>>

(* In the last case the socket was closed after the context was checked,   *)
(* and the deadline of the header cannot be set.                           *)
LeaveLoop ==
  /\ pc = "loop"
  /\ \/ ctxDone /\ Return("shutdown")
     \/ ~ctxDone /\ now > MaxLifetime /\ Return("connection_lifetime")
     \/ closed /\ Return("internal_error")
  /\ UNCHANGED <<deadline, headerPhase, headerStarted, headerBytesRead, requestVars,
                 loopUnchanged>>

BeginHeader ==
  /\ pc = "loop" /\ ~ctxDone /\ now <= MaxLifetime
  /\ req' = [start |-> LogicalConsumed, buffered |-> buffered > 0,
             headerEnd |-> LogicalConsumed, out |-> bytesOut, wire |-> 0]
  /\ declared' = 0 /\ payload' = 0
  /\ headerPhase' = TRUE /\ headerStarted' = (buffered > 0) /\ headerBytesRead' = 0
  /\ deadline' = LimitDeadline(now + IF buffered > 0 THEN HeaderTimeout ELSE IdleTimeout)
  /\ Continue("header")
  /\ UNCHANGED loopUnchanged

-----------------------------------------------------------------------------
(* recordingReader.Read.  What it returned is journaled before anyone uses *)
(* it; on a journal error the bytes are dropped and the error returned.    *)

readUnchanged == <<pc, clockVars, eof, recordVars, outVars, requests, headerPhase,
                   captured, declared, req, payload, responseVars, exchanges, reason>>

ReadDataCountedFirst(n) ==
  /\ ~closed /\ ~eof /\ now <= deadline
  /\ headerStarted' = (headerStarted \/ headerPhase)
  /\ deadline' = IF headerPhase /\ ~headerStarted
                   THEN LimitDeadline(now + HeaderTimeout) ELSE deadline
  /\ bytesIn' = bytesIn + n
  /\ journalIn' = IF bwjFailed THEN journalIn ELSE journalIn + n
  /\ headerBytesRead' = IF headerPhase THEN headerBytesRead + n ELSE headerBytesRead

ReadData(n) ==
  /\ ~closed /\ ~eof /\ now <= deadline
  /\ headerStarted' = (headerStarted \/ headerPhase)
  /\ deadline' = IF headerPhase /\ ~headerStarted
                   THEN LimitDeadline(now + HeaderTimeout) ELSE deadline
  /\ ~bwjFailed
  /\ bytesIn' = bytesIn + n
  /\ journalIn' = journalIn + n
  /\ headerBytesRead' = IF headerPhase THEN headerBytesRead + n ELSE headerBytesRead

(* The errors a read may return now.  An expired deadline or a socket this *)
(* process closed is noticed even when bytes are there.                    *)
ReadErrors ==
  IF Remaining <= 0 THEN {"connection_limit"}
  ELSE IF headerPhase /\ HeaderRemaining <= 0 THEN {"header_limit"}
  ELSE IF closed THEN {"closed"}
  ELSE (IF Expired THEN {"timeout"} ELSE {"eof", "reset"})
       \cup (IF bwjFailed /\ ~eof /\ now <= deadline THEN {"journal"} ELSE {})

(* consumeBody has still to read.                                          *)
BodyWanted == payload <= MaxBodyBytes /\ (declared = Chunked \/ payload < declared)

(* bufio fills its buffer when net/http has taken what was there.          *)
Fill ==
  /\ pc = "header" \/ (pc = "body" /\ BodyWanted /\ buffered = 0)
  /\ \E n \in 1..ReadLimit(BufferSize) : ReadData(n) /\ buffered' = n
  /\ consumed' = consumed + buffered
  /\ UNCHANGED readUnchanged

-----------------------------------------------------------------------------
(* http.ReadRequest ends: with an error, or with a request.                *)

headerUnchanged == <<clockVars, inVars, outVars, requests, headerPhase, headerStarted,
                     headerBytesRead, captured, payload, responseVars, exchanges>>

(* What an error of http.ReadRequest is taken for: the branches in order.  *)
RequestFailure(e) ==
  IF e = "eof" /\ ~headerStarted /\ ~req.buffered THEN "remote_close"
  ELSE IF e = "timeout" THEN (IF now >= MaxLifetime THEN "connection_lifetime"
                              ELSE IF headerStarted \/ req.buffered THEN "header_timeout"
                              ELSE "idle_timeout")
  ELSE IF e = "header_limit" THEN "header_bytes"
  ELSE IF e = "connection_limit" \/ Remaining <= 0 THEN "connection_bytes"
  ELSE "parser_failure"

RequestFailed(e) ==
  /\ Record(RequestFailure(e))
  /\ reason' = RequestFailure(e)
  /\ pc' = IF RequestFailure(e) \in {"remote_close", "connection_bytes"} THEN "close" ELSE "post"

(* headerEnd, when left bytes stay in the buffer.                          *)
HeaderEndOfReads(left) == bytesIn
HeaderEnd(left) == bytesIn - left

(* A read failed.  When a part of the request line had arrived, textproto  *)
(* takes that part for the whole line: the error is then a malformed line. *)
ReadRequestError ==
  /\ pc = "header"
  /\ consumed' = consumed + buffered /\ buffered' = 0
  /\ \E e \in ReadErrors :
       /\ eof' = (eof \/ e \in {"eof", "reset"})
       /\ \/ RequestFailed(e)
          \/ bytesIn > req.start /\ RequestFailed("malformed")
  /\ UNCHANGED <<deadline, req, declared, headerUnchanged>>

ReadRequestMalformed ==
  /\ pc = "header"
  /\ \E k \in 1..buffered :
       /\ consumed' = consumed + k /\ buffered' = buffered - k
       /\ RequestFailed("malformed")
  /\ UNCHANGED <<deadline, eof, req, declared, headerUnchanged>>

(* The header ends with the k-th byte in the buffer.                       *)
ReadRequest ==
  /\ pc = "header"
  /\ \E k \in 1..buffered :
       /\ consumed' = consumed + k /\ buffered' = buffered - k
       /\ req' = [req EXCEPT !.headerEnd = HeaderEnd(buffered - k)]
  /\ Continue("accept")
  /\ UNCHANGED <<deadline, eof, declared, headerUnchanged>>

HeaderTooLong == req.headerEnd - req.start > MaxHeaderBytes

acceptUnchanged == <<clockVars, eof, inVars, outVars, requests, headerStarted,
                     headerBytesRead, buffered, consumed, captured, payload, exchanges>>

(* The checks between the header and the body, and the last of them before *)
(* a request id is generated, which may fail.                              *)
RejectRequest ==
  /\ pc = "accept"
  /\ IF HeaderTooLong THEN ReturnCapturing("header_bytes")
     ELSE \/ ReturnCapturing("unsupported_http_version")
          \/ ReturnCapturing("unsupported_expectation")
          \/ Return("internal_error")
          \/ ReturnCapturing("body_bytes")
          \/ InterimSize > MaxResponseBytes /\ ReturnCapturing("response_bytes")
  /\ UNCHANGED <<deadline, headerPhase, req, declared, responseVars, acceptUnchanged>>

(* beginBodyPhase, where the reader's limits and deadline change.          *)
BodyDeadlineNone == NoDeadline
BodyDeadline == LimitDeadline(now + BodyTimeout)
BeginBodyPhase ==
  /\ headerPhase' = FALSE
  /\ \/ closed /\ Return("internal_error") /\ UNCHANGED deadline
     \/ ~closed /\ Continue("body") /\ deadline' = BodyDeadline

AcceptRequest ==
  /\ pc = "accept" /\ ~HeaderTooLong
  /\ \E length \in {Chunked} \cup 0..MaxBodyBytes :
       /\ declared' = length
       /\ \/ BeginBodyPhase /\ UNCHANGED responseVars
          \/ /\ length # 0 /\ InterimSize <= MaxResponseBytes
             /\ sending' = "interim" /\ toSend' = InterimSize
             /\ Continue("respond")
             /\ UNCHANGED <<headerPhase, deadline, piece, limited, streamStart, err, closeAfter>>
  /\ UNCHANGED <<req, acceptUnchanged>>

(* The interim response was sent.                                          *)
BeginBody ==
  /\ pc = "continued"
  /\ BeginBodyPhase
  /\ UNCHANGED <<declared, req, responseVars, acceptUnchanged>>

-----------------------------------------------------------------------------
(* consumeBody.  A chunked body is payload and framing in any mixture.     *)

bodyUnchanged == <<clockVars, inVars, outVars, requests, headerPhase, headerStarted,
                   headerBytesRead, captured, req, declared, responseVars, exchanges>>

TakeBody ==
  /\ pc = "body" /\ BodyWanted
  /\ \E k \in 1..buffered :
       /\ consumed' = consumed + k /\ buffered' = buffered - k
       /\ \E p \in IF declared = Chunked THEN 0..k ELSE {k} :
            /\ payload + p <= IF declared = Chunked THEN MaxBodyBytes + 1 ELSE declared
            /\ payload' = payload + p
  /\ UNCHANGED <<pc, deadline, eof, recordVars, reason, bodyUnchanged>>

(* A chunked body may end, or turn out malformed, after any framing.       *)
EndBody ==
  /\ pc = "body"
  /\ \/ payload = declared /\ Continue("count")
     \/ /\ declared = Chunked /\ payload <= MaxBodyBytes /\ consumed > req.headerEnd
        /\ Continue("count") \/ ReturnCapturing("trailer_bytes")
  /\ deadline' = NoDeadline
  /\ UNCHANGED <<eof, payload, buffered, consumed, bodyUnchanged>>

BodyFailure(e) ==
  CASE e = "timeout" /\ now >= MaxLifetime -> "connection_lifetime"
    [] e = "timeout" /\ now < MaxLifetime -> "body_timeout"
    [] e = "body_limit" -> "body_bytes"
    [] e = "connection_limit" -> "connection_bytes"
    [] OTHER -> "body_parse_error"

(* A read failed, a chunk is malformed (which is also what an error inside *)
(* the trailer becomes), or the payload is over the limit.                 *)
BodyError ==
  /\ pc = "body"
  /\ \/ /\ BodyWanted /\ buffered = 0
        /\ \E e \in ReadErrors :
             /\ eof' = (eof \/ e \in {"eof", "reset"})
             /\ \/ ReturnCapturing(BodyFailure(e))
                \/ declared = Chunked /\ ReturnCapturing("body_parse_error")
     \/ /\ declared = Chunked /\ consumed > req.headerEnd
        /\ ReturnCapturing("body_parse_error") /\ UNCHANGED eof
     \/ /\ payload > MaxBodyBytes
        /\ ReturnCapturing(BodyFailure("body_limit")) /\ UNCHANGED eof
  /\ deadline' = NoDeadline
  /\ UNCHANGED <<payload, buffered, consumed, bodyUnchanged>>

-----------------------------------------------------------------------------
(* The request is complete: count it, and choose and frame its response.   *)

ResponseBudgetWhole == MaxResponseBytes
ResponseBudget == Most(0, MaxResponseBytes - (bytesOut - req.out))

LastRequestLate(n) == n > MaxRequestsPerConnection
LastRequest(n) == n >= MaxRequestsPerConnection

(* Reaching the request limit is recorded here, closing for it later.      *)
RecordLast(why) ==
  /\ limits' = IF bwjFailed THEN limits
               ELSE limits \cup (IF LastRequest(requests + 1) THEN {"max_requests"} ELSE {})
                           \cup (IF why \in LimitReasons THEN {why} ELSE {})
  /\ parserRecord' = (parserRecord \/ (why \in ParserReasons /\ ~bwjFailed))

CountRequest ==
  /\ pc = "count"
  /\ requests' = requests + 1
  /\ \E close \in BOOLEAN : closeAfter' = (close \/ LastRequest(requests + 1))
  /\ \/ \E why \in {IF now > MaxLifetime THEN "connection_lifetime"
                    ELSE "connect_tunnel_prohibited"} :
          /\ pc' = "close" /\ reason' = why /\ RecordLast(why)
          /\ UNCHANGED <<req, sending, toSend, streamStart, err>>
     \/ /\ now <= MaxLifetime
        /\ \E size \in 1..(MaxResponseBytes + 1) :
             /\ req' = [req EXCEPT !.wire = size]
             /\ IF size > ResponseBudget
                  THEN pc' = "exchange" /\ err' = "response_limit" /\ toSend' = 0
                  ELSE pc' = "respond" /\ err' = "none" /\ toSend' = size
        /\ sending' = "response" /\ streamStart' = now
        /\ RecordLast("none") /\ UNCHANGED reason
  /\ UNCHANGED <<deadline, eof, clockVars, inVars, outVars, readerVars, captured, declared,
                 payload, piece, limited, exchanges>>

-----------------------------------------------------------------------------
(* response.Write above exchangeWriter.Write, and the interim response.    *)

StreamDeadline == LimitDeadline(streamStart + MaxStream)

sendUnchanged == <<clockVars, eof, inVars, requests, readerVars, captured, requestVars,
                   sending, streamStart, closeAfter, exchanges>>

(* A configured delay, before the response or a chunk of it.               *)
WaitDelay ==
  /\ pc = "respond" /\ sending = "response"
  /\ Continue("waiting") /\ deadline' = StreamDeadline
  /\ UNCHANGED <<outVars, piece, limited, toSend, err, sendUnchanged>>

DelayOver ==
  /\ pc = "waiting"
  /\ \/ now <= deadline /\ Continue("send") /\ UNCHANGED err
     \/ (Expired \/ ctxDone) /\ Continue("exchange") /\ err' = "context"
  /\ deadline' = NoDeadline
  /\ UNCHANGED <<outVars, piece, limited, toSend, sendUnchanged>>

WriteErrorCode(e) ==
  CASE e = "timeout" -> "write_timeout"
    [] e = "connection_limit" -> "connection_bytes"
    [] OTHER -> "write_failed"

(* A failed write ends the response, or, in the interim, the connection,   *)
(* and then without a record.                                              *)
WriteFails(e) ==
  /\ err' = e
  /\ \/ /\ sending = "interim"
        /\ pc' = "close" /\ reason' = WriteErrorCode(e) /\ UNCHANGED recordVars
     \/ sending = "response" /\ Continue("exchange")

Written ==
  /\ UNCHANGED err
  /\ Continue(IF toSend' > 0 THEN "respond"
              ELSE IF sending = "interim" THEN "continued" ELSE "exchange")

WriteUncut(k) == k
WriteCut(k) == Least(k, Remaining)

StartWrite ==
  /\ pc \in {"respond", "send"}
  /\ \/ /\ Remaining <= 0 /\ WriteFails("connection_limit")
        /\ UNCHANGED <<piece, limited, deadline>>
     \/ /\ Remaining > 0 /\ closed /\ WriteFails("closed")
        /\ UNCHANGED <<piece, limited, deadline>>
     \/ /\ Remaining > 0 /\ ~closed
        /\ \E k \in 1..toSend :       \* the interim response is one write
             /\ sending = "interim" => k = toSend
             /\ piece' = WriteCut(k) /\ limited' = (k > Remaining)
        /\ deadline' = LimitDeadline(now + WriteTimeout)
        /\ Continue("writing") /\ UNCHANGED err
  /\ UNCHANGED <<outVars, toSend, sendUnchanged>>

(* The socket took n bytes; what the caller of Write is told.              *)
WriteResultIgnoringJournal(n) ==
  \/ n < piece /\ Expired /\ WriteFails("timeout")
  \/ n < piece /\ WriteFails("closed")
  \/ n = piece /\ limited /\ WriteFails("connection_limit")
  \/ n = piece /\ ~limited /\ Written
WriteResult(n) ==
  IF n > 0 /\ bwjFailed THEN WriteFails("journal")
  ELSE \/ n < piece /\ Expired /\ WriteFails("timeout")
       \/ n < piece /\ WriteFails("closed")
       \/ n = piece /\ limited /\ WriteFails("connection_limit")
       \/ n = piece /\ ~limited /\ Written

(* The bytes are journaled after they were sent, and counted whether or    *)
(* not the journal took them.                                              *)
FinishWrite ==
  /\ pc = "writing"
  /\ \E n \in 0..piece :
       /\ n > 0 => now <= deadline
       /\ bytesOut' = bytesOut + n
       /\ journalOut' = IF bwjFailed THEN journalOut ELSE journalOut + n
       /\ toSend' = toSend - n
       /\ WriteResult(n)
  /\ UNCHANGED <<deadline, piece, limited, sendUnchanged>>

-----------------------------------------------------------------------------
(* The exchange event, and what the connection does after it.              *)

StreamErrors ==
  IF err = "none" THEN {"none"}
  ELSE LET fired == (IF now >= StreamDeadline THEN {"deadline"} ELSE {})
                    \cup (IF ctxDone THEN {"canceled"} ELSE {})
       IN IF fired = {} \/ (err # "context" /\ ~ctxDone /\ now = StreamDeadline)
            THEN fired \cup {"none"} ELSE fired

LifetimeBoundsResponse == streamStart + MaxStream >= MaxLifetime

(* The switch over the errors of a response, in its order.                 *)
ResponseFailure(streamErr) ==
  IF err = "response_limit" THEN "response_bytes"
  ELSE IF streamErr = "deadline"
    THEN (IF LifetimeBoundsResponse THEN "connection_lifetime" ELSE "stream_timeout")
  ELSE IF streamErr = "canceled" THEN "shutdown"
  ELSE IF err = "timeout" /\ now >= MaxLifetime THEN "connection_lifetime"
  ELSE WriteErrorCode(err)

EmitExchange ==
  /\ pc = "exchange"
  /\ exchanges' = Append(exchanges,
       [requestStart |-> req.start, requestLength |-> LogicalConsumed - req.start,
        responseStart |-> req.out, responseLength |-> bytesOut - req.out,
        wire |-> req.wire, complete |-> err = "none"])
  /\ deadline' = NoDeadline
  /\ \/ err # "none" /\ \E streamErr \in StreamErrors : Return(ResponseFailure(streamErr))
     \/ /\ err = "none" /\ closeAfter
        /\ pc' = "close" /\ UNCHANGED recordVars
        /\ reason' = IF LastRequest(requests) THEN "max_requests" ELSE "connection_close"
     \/ err = "none" /\ ~closeAfter /\ Continue("loop")
  /\ UNCHANGED <<clockVars, eof, inVars, outVars, requests, readerVars, captured,
                 requestVars, responseVars>>

-----------------------------------------------------------------------------
(* postFailureCapture, and the deferred close.                             *)

captureUnchanged == <<clockVars, parserRecord, outVars, requests, headerStarted, buffered,
                      consumed, requestVars, responseVars, exchanges, reason>>

CaptureDeadlineUnlimited == now + PostFailureTimeout
CaptureDeadline == LimitDeadline(now + PostFailureTimeout)

BeginPostFailure ==
  /\ pc = "post"
  /\ headerPhase' = FALSE
  /\ \/ closed /\ pc' = "close" /\ UNCHANGED deadline
     \/ ~closed /\ pc' = "capture" /\ deadline' = CaptureDeadline
  /\ UNCHANGED <<eof, limits, inVars, headerBytesRead, captured, captureUnchanged>>

CaptureWholeBuffer == CaptureSize
CaptureNext == Least(CaptureSize, MaxPostFailureCaptureBytes - captured)

Capture ==
  /\ pc = "capture" /\ captured < MaxPostFailureCaptureBytes
  /\ \E n \in 1..ReadLimit(CaptureNext) : ReadData(n) /\ captured' = captured + n
  /\ UNCHANGED <<pc, eof, limits, headerPhase, clockVars, parserRecord, outVars, requests,
                 buffered, consumed, requestVars, responseVars, exchanges, reason>>

CaptureEnds ==
  /\ pc = "capture"
  /\ \/ /\ captured < MaxPostFailureCaptureBytes
        /\ \E e \in ReadErrors : eof' = (eof \/ e \in {"eof", "reset"})
        /\ UNCHANGED limits
     \/ /\ captured >= MaxPostFailureCaptureBytes
        /\ limits' = IF bwjFailed THEN limits ELSE limits \cup {"post_failure_capture_bytes"}
        /\ UNCHANGED eof
  /\ pc' = "close" /\ deadline' = NoDeadline
  /\ UNCHANGED <<inVars, headerPhase, headerBytesRead, captured, captureUnchanged>>

WriteConnectionClose ==
  /\ pc = "close"
  /\ pc' = "done"
  /\ UNCHANGED <<deadline, eof, clockVars, recordVars, inVars, outVars, requests, readerVars,
                 captured, requestVars, responseVars, exchanges, reason>>

-----------------------------------------------------------------------------
ReceiveData == Fill \/ Capture
Handler ==
  \/ WriteConnectionOpen \/ HandshakeFails
  \/ LeaveLoop \/ BeginHeader
  \/ ReadRequestError \/ ReadRequestMalformed \/ ReadRequest
  \/ RejectRequest \/ AcceptRequest \/ BeginBody
  \/ TakeBody \/ EndBody \/ BodyError
  \/ CountRequest
  \/ WaitDelay \/ DelayOver \/ StartWrite \/ FinishWrite
  \/ EmitExchange
  \/ BeginPostFailure \/ CaptureEnds \/ WriteConnectionClose

Next ==
  \/ Tick \/ JournalBreaks \/ CancelContext \/ CloseActive
  \/ ReceiveData \/ Handshaken \/ Handler

Spec == Init /\ [][Next]_vars

(* Time passes and the handler runs: a call whose deadline has come        *)
(* returns.  Nothing is assumed of the client, which may send or take      *)
(* nothing, and nothing of the rest of the process.                        *)
Prompt == (Blocked => Expired) /\ Handler
Fairness == WF_vars(Tick) /\ WF_vars(Prompt)
FairSpec == Spec /\ Fairness

-----------------------------------------------------------------------------
(* Properties                                                              *)

(* Where the first i exchange events end in the inbound stream.            *)
RangesEnd(i) == IF i = 0 THEN 0 ELSE exchanges[i].requestStart + exchanges[i].requestLength

(* The exchange events cut the inbound stream into the bytes the parser    *)
(* took for each request, without gap or overlap, however the client       *)
(* pipelines and however bufio reads ahead (connection.go:345, 470, 652).  *)
RequestRangesExact ==
  /\ \A i \in DOMAIN exchanges :
       exchanges[i].requestStart = RangesEnd(i - 1) /\ exchanges[i].requestLength > 0
  /\ pc = "loop" => RangesEnd(Len(exchanges)) = consumed
  /\ pc \in {"header", "accept", "body", "continued", "count", "respond"} =>
       req.start = RangesEnd(Len(exchanges))

(* Every byte the parser saw is in the journal, and what an exchange event *)
(* says of a request can be read back from it, even when the journal has   *)
(* failed since (connection.go:128-140).                                   *)
RequestsAreJournaled ==
  /\ consumed <= journalIn
  /\ \A i \in DOMAIN exchanges :
       exchanges[i].requestStart + exchanges[i].requestLength <= journalIn

(* A response reported complete was sent to its last byte, after any       *)
(* interim response, and all of it is in the journal; one that was not     *)
(* complete is never reported so (connection.go:195-218, 541-620).         *)
CompleteIsJournaled ==
  \A i \in DOMAIN exchanges :
    LET x == exchanges[i]
    IN x.complete => /\ x.responseLength - x.wire \in {0, InterimSize}
                     /\ x.responseStart + x.responseLength <= journalOut

(* A request is served only if its header is within max_header_bytes, and  *)
(* only refused for the header when the client really sent more than that, *)
(* whatever was read ahead of it or behind it (connection.go:114, 394).    *)
HeaderLimitExact ==
  /\ pc \in {"body", "continued", "count", "respond", "waiting", "send", "writing", "exchange"}
       => req.headerEnd - req.start <= MaxHeaderBytes
  /\ reason = "header_bytes" => consumed - req.start > MaxHeaderBytes

(* A limit or a timeout given as the reason of a close is in the journal   *)
(* as a limit record, a parser failure as a parser error record, as long   *)
(* as the journal works.  A write of the interim response is the exception *)
(* the code makes (connection.go:458-462).                                 *)
CloseIsExplained ==
  pc = "done" /\ ~bwjFailed =>
    /\ reason \in LimitReasons => CodeOf(reason) \in limits
                                \/ (sending = "interim" /\ err # "none")
    /\ reason \in ParserReasons => parserRecord

(* The limits of one connection hold together: max_connection_bytes over   *)
(* what is read and sent, over header, body, capture, interim and final    *)
(* responses and partial writes (connection.go:108, 180); requests counted *)
(* and answered (connection.go:506); what one request is answered with,    *)
(* interim response included (connection.go:444, 534); and the bytes read  *)
(* after a failure, with the record that says the capture was full there   *)
(* only when it was (connection.go:708-732).                               *)
BytesBounded == bytesIn + bytesOut <= MaxConnectionBytes
RequestsBounded == requests <= MaxRequestsPerConnection
ResponseBounded ==
  \A i \in DOMAIN exchanges : exchanges[i].responseLength <= MaxResponseBytes
CaptureBounded ==
  /\ captured <= MaxPostFailureCaptureBytes
  /\ "post_failure_capture_bytes" \in limits => captured = MaxPostFailureCaptureBytes

LimitsHold == BytesBounded /\ RequestsBounded /\ ResponseBounded /\ CaptureBounded

(* No call ever waits past the end of the connection's life: each phase    *)
(* replaces the deadline of the one before, the reads of a capture after a *)
(* timeout included (connection.go:82-97, 121-124, 188, 816).              *)
NeverPastLifetime == Blocked => deadline <= MaxLifetime

(* A handler ends, whatever the client does and without help from the rest *)
(* of the process: its lifetime runs out.                                  *)
HandlerEnds == <>(pc = "done")

(* What the exchange events say can be read back from the journal: index   *)
(* mode fails as a whole on a range that is not there (index.go:137-146).  *)
ExchangesAreJournaled ==
  \A i \in DOMAIN exchanges :
    exchanges[i].responseStart + exchanges[i].responseLength <= journalOut
=============================================================================
