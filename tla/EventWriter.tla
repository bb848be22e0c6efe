---------------------------- MODULE EventWriter ----------------------------
(***************************************************************************)
(* The structured event log: JSONLWriter of src/internal/evidence/jsonl.go *)
(* and serverRuntime.emit of src/internal/engine/engine.go, which gives it *)
(* up for the rest of the process at its first error.                      *)
(*                                                                         *)
(* Unlike the wire journal the writer itself remembers no failure, except  *)
(* that its bufio.Writer returns a write error for ever: handlers that     *)
(* were past the check of jsonlHealthy when another one's event failed     *)
(* still come into WriteEvent.  Events are the sizes of their lines; how   *)
(* an event is cut to size is EventBounds.                                 *)
(***************************************************************************)
EXTENDS Integers, Sequences, FiniteSets, SequencesExt

CONSTANTS
  Conns,              \* connection handlers, the callers of emit
  Closer,             \* the goroutine of engine.Run, which calls Close
  NoOne,              \* the holder of a free mutex
  EventSizes,         \* sizes of the lines of events, cut as far as they can be
  MaxEventBytes,      \* max_structured_event_bytes
  RotateSize,         \* rotateSize, 0 for no rotation by size
  RotateAge,          \* whether rotateDuration > 0
  MaxEmits            \* bound on the events of one handler

ASSUME NamesAssumption == Closer \notin Conns /\ NoOne \notin Conns \cup {Closer}
ASSUME SizesAssumption ==
  /\ EventSizes \subseteq Nat \ {0} /\ MaxEventBytes \in Nat \ {0}
  /\ RotateSize \in Nat /\ RotateAge \in BOOLEAN /\ MaxEmits \in Nat

VARIABLES
  mu,                 \* w.mu: the goroutine that holds it, or NoOne
  file,               \* w.file: "open", "nil", or "shut" by a failed rotation
  bufferError,        \* the error the bufio.Writer keeps
  bytesWritten,       \* w.bytesWritten
  closed,             \* w.closed
  jsonlHealthy,       \* rt.jsonlHealthy
  disk,               \* the files of the run, in the order of their names
  pc,                 \* where each goroutine is
  event,              \* the size of the event a handler emits, or emitted last
  emitted,            \* emit calls each handler made
  closeResult,        \* what Close returned: "none", "nil", "error"
  host                \* "up", "killed" (process) or "nopower" (machine)

writer == <<file, bufferError, bytesWritten, closed>>
vars == <<mu, writer, jsonlHealthy, disk, pc, event, emitted, closeResult, host>>

Actors == Conns \cup {Closer}

(* A line is whole.  torn: part of one more line is there after them.      *)
(* synced counts the lines that survive a power loss.                      *)
Line == [conn : Conns, id : Nat \ {0}, bytes : 1..MaxEventBytes]
File == [lines : Seq(Line), torn : BOOLEAN, synced : Nat]
NewFile == [lines |-> << >>, torn |-> FALSE, synced |-> 0]

TypeOK ==
  /\ mu \in Actors \cup {NoOne}
  /\ file \in {"open", "nil", "shut"}
  /\ bytesWritten \in Nat
  /\ {bufferError, closed, jsonlHealthy} \subseteq BOOLEAN
  /\ disk \in Seq(File)
  /\ pc \in [Actors -> {"idle", "lock", "sync", "shut", "create", "write", "failed",
                        "closeShut", "done"}]
  /\ event \in [Conns -> Nat] /\ emitted \in [Conns -> Nat]
  /\ closeResult \in {"none", "nil", "error"}
  /\ host \in {"up", "killed", "nopower"}

(* NewJSONLWriter succeeded: the first file is there. *)
Init ==
  /\ mu = NoOne
  /\ file = "open" /\ bufferError = FALSE /\ bytesWritten = 0 /\ closed = FALSE
  /\ jsonlHealthy = TRUE
  /\ disk = <<NewFile>>
  /\ pc = [a \in Actors |-> "idle"]
  /\ event = [c \in Conns |-> 0] /\ emitted = [c \in Conns |-> 0]
  /\ closeResult = "none"
  /\ host = "up"

At(a, label) == host = "up" /\ pc[a] = label
Goto(a, label) == pc' = [pc EXCEPT ![a] = label]
Last1(changed) == disk' = [disk EXCEPT ![Len(disk)] = changed]
Current == disk[Len(disk)]

-----------------------------------------------------------------------------
(* rt.emit: the check is not under the mutex.  Run closes the writer when  *)
(* every handler has ended, so none emits after that.                      *)
Emit(c) ==
  /\ At(c, "idle")
  /\ emitted[c] < MaxEmits
  /\ pc[Closer] = "idle"
  /\ emitted' = [emitted EXCEPT ![c] = @ + 1]
  /\ IF jsonlHealthy
       THEN /\ \E size \in EventSizes : event' = [event EXCEPT ![c] = size]
            /\ Goto(c, "lock")
       ELSE UNCHANGED <<event, pc>>
  /\ UNCHANGED <<mu, writer, jsonlHealthy, disk, closeResult, host>>

(* Mutant: the compare-and-swap has its arguments swapped. *)
HealthyAfterForgets == jsonlHealthy
HealthyAfter == FALSE

(* WriteEvent returned an error; the mutex is free again by now. *)
Degrade(c) ==
  /\ At(c, "failed")
  /\ jsonlHealthy' = HealthyAfter
  /\ Goto(c, "idle")
  /\ UNCHANGED <<mu, writer, disk, event, emitted, closeResult, host>>

-----------------------------------------------------------------------------
(* WriteEvent.                                                             *)
Lock(c) == At(c, "lock") /\ mu = NoOne

TooLarge(size) == size > MaxEventBytes

ShouldRotate(next) ==
  file = "nil" \/ (RotateSize > 0 /\ bytesWritten > 0 /\ bytesWritten + next > RotateSize)

Refuse(c) ==
  /\ Lock(c)
  /\ closed \/ TooLarge(event[c])
  /\ Goto(c, "failed")
  /\ UNCHANGED <<mu, writer, jsonlHealthy, disk, event, emitted, closeResult, host>>

(* The age is not in the state: when rotation by age is configured it may  *)
(* be due at any moment.                                                   *)
Enter(c) ==
  /\ Lock(c)
  /\ ~closed /\ ~TooLarge(event[c])
  /\ mu' = c
  /\ \/ (ShouldRotate(event[c]) \/ RotateAge) /\ Goto(c, "sync")
     \/ ~ShouldRotate(event[c]) /\ Goto(c, "write")
  /\ UNCHANGED <<writer, jsonlHealthy, disk, event, emitted, closeResult, host>>

(* Mutant: the error the buffer keeps is not seen. *)
FlushedAlways == TRUE
Flushed == ~bufferError

Unlock == mu' = NoOne

Fail(c) ==
  /\ Unlock
  /\ Goto(c, "failed")
  /\ UNCHANGED <<bytesWritten, closed, jsonlHealthy, event, emitted, closeResult, host>>

(* rotateLocked: Flush, Sync, Close.  Any of them may fail; a Close that   *)
(* fails has given up the descriptor all the same.                         *)
Sync(c) ==
  /\ At(c, "sync")
  /\ Flushed /\ file # "shut"
  /\ Last1([Current EXCEPT !.synced = Len(Current.lines)])
  /\ Goto(c, "shut")
  /\ UNCHANGED <<mu, writer, jsonlHealthy, event, emitted, closeResult, host>>

SyncFails(c) == At(c, "sync") /\ Fail(c) /\ UNCHANGED <<file, bufferError, disk>>

Shut(c) ==
  /\ At(c, "shut")
  /\ file' = "shut"
  /\ Goto(c, "create")
  /\ UNCHANGED <<mu, bufferError, bytesWritten, closed, jsonlHealthy, disk, event, emitted,
                 closeResult, host>>

ShutFails(c) == At(c, "shut") /\ file' = "shut" /\ Fail(c) /\ UNCHANGED <<bufferError, disk>>

(* openNextLocked. *)
Create(c) ==
  /\ At(c, "create")
  /\ disk' = Append(disk, NewFile)
  /\ file' = "open" /\ bufferError' = FALSE /\ bytesWritten' = 0
  /\ Goto(c, "write")
  /\ UNCHANGED <<mu, closed, jsonlHealthy, event, emitted, closeResult, host>>

CreateFails(c) == At(c, "create") /\ Fail(c) /\ UNCHANGED <<file, bufferError, disk>>

(* buffer.Write and Flush: nothing is left in the buffer between events.   *)
Write(c) ==
  /\ At(c, "write")
  /\ Flushed /\ file = "open"
  /\ Last1([Current EXCEPT !.lines =
              Append(@, [conn |-> c, id |-> emitted[c], bytes |-> event[c]])])
  /\ bytesWritten' = bytesWritten + event[c]
  /\ Unlock
  /\ Goto(c, "idle")
  /\ UNCHANGED <<file, bufferError, closed, jsonlHealthy, event, emitted, closeResult, host>>

(* Mutant: the error of Flush is not returned. *)
WriteFailsQuietly(c) ==
  /\ At(c, "write")
  /\ bufferError' = TRUE
  /\ Unlock
  /\ Goto(c, "idle")
  /\ UNCHANGED <<file, bytesWritten, closed, jsonlHealthy, disk, event, emitted, closeResult,
                 host>>

(* None or part of the line is there; the buffer keeps the error. *)
WriteFails(c) ==
  /\ At(c, "write")
  /\ bufferError' = TRUE
  /\ \/ UNCHANGED disk
     \/ /\ file = "open" /\ ~bufferError
        /\ Last1([Current EXCEPT !.torn = TRUE])
  /\ Fail(c)
  /\ UNCHANGED file

-----------------------------------------------------------------------------
(* Close, after the last handler has ended.                                *)

(* Mutant: Close does not sync. *)
SafeAfterCloseOnly == Current.synced
SafeAfterSync == Len(Current.lines)

Quiet == \A c \in Conns : pc[c] = "idle"

CloseSync ==
  /\ At(Closer, "idle")
  /\ Quiet
  /\ closed' = TRUE
  /\ \/ /\ Flushed /\ file = "open"
        /\ Last1([Current EXCEPT !.synced = SafeAfterSync])
        /\ Goto(Closer, "closeShut")
        /\ UNCHANGED <<file, closeResult>>
     \/ /\ file' = "shut"
        /\ closeResult' = "error"
        /\ Goto(Closer, "done")
        /\ UNCHANGED disk
  /\ UNCHANGED <<mu, bufferError, bytesWritten, jsonlHealthy, event, emitted, host>>

CloseShut ==
  /\ At(Closer, "closeShut")
  /\ file' = "nil"
  /\ closeResult' \in {"nil", "error"}
  /\ Goto(Closer, "done")
  /\ UNCHANGED <<mu, bufferError, bytesWritten, closed, jsonlHealthy, disk, event, emitted, host>>

-----------------------------------------------------------------------------
(* The process is killed, or the machine loses power and with it a suffix  *)
(* of what no Sync covered in the newest file.                             *)
Crash ==
  /\ host = "up"
  /\ \/ host' = "killed" /\ UNCHANGED disk
     \/ /\ host' = "nopower"
        /\ \E n \in Current.synced..Len(Current.lines), torn \in BOOLEAN :
             /\ torn => n < Len(Current.lines) \/ Current.torn
             /\ Last1([Current EXCEPT !.lines = SubSeq(@, 1, n), !.torn = torn])
  /\ UNCHANGED <<mu, writer, jsonlHealthy, pc, event, emitted, closeResult>>

Finished == (host # "up" \/ pc[Closer] = "done") /\ UNCHANGED vars

WriteEvent(c) ==
  \/ Refuse(c) \/ Enter(c) \/ Sync(c) \/ SyncFails(c) \/ Shut(c) \/ ShutFails(c)
  \/ Create(c) \/ CreateFails(c) \/ Write(c) \/ WriteFails(c)

Next ==
  \/ \E c \in Conns : Emit(c) \/ WriteEvent(c) \/ Degrade(c)
  \/ CloseSync \/ CloseShut \/ Crash \/ Finished

Spec == Init /\ [][Next]_vars

-----------------------------------------------------------------------------
(* Properties                                                              *)

(* Every line but the last of the newest file parses: a reader, which      *)
(* gives up at a line it cannot parse, never stops before (jsonl.go:321,   *)
(* index.go:191).                                                          *)
EarlierFilesWhole ==
  \A i \in 1..Len(disk) - 1 : ~disk[i].torn /\ disk[i].synced = Len(disk[i].lines)

(* The lines of the run, files in the order of their names, and the places *)
(* of those of one handler.                                                *)
AllLines == FlattenSeq([i \in DOMAIN disk |-> disk[i].lines])
LinesOf(log, c) == {k \in DOMAIN log : log[k].conn = c}

(* What the log says of a connection has no hole: its events are there in  *)
(* order from the first to the last that is, whatever failed, whoever      *)
(* failed and whatever was cut off (engine.go:204-212).                    *)
EventsPrefix ==
  LET log == AllLines IN
  \A k \in DOMAIN log : log[k].id = Cardinality({j \in LinesOf(log, log[k].conn) : j <= k})

(* An event is missing only after the sensor has said, once and for all,   *)
(* that its log is no more: as long as it has not, every emit that came    *)
(* back left its line (engine.go:208-211).                                 *)
NothingLostSilently ==
  host = "up" /\ jsonlHealthy =>
    \A c \in Conns : pc[c] = "idle" => Cardinality(LinesOf(AllLines, c)) = emitted[c]

(* A nil from Close means that every line ever written is whole and safe   *)
(* from a power loss, also after an earlier write or rotation failed in a  *)
(* handler (jsonl.go:353-374).                                             *)
CloseNilIsDurable ==
  closeResult = "nil" =>
    \A i \in DOMAIN disk : ~disk[i].torn /\ disk[i].synced = Len(disk[i].lines)
=============================================================================
