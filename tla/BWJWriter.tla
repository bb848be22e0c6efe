----------------------------- MODULE BWJWriter -----------------------------
(***************************************************************************)
(* The raw evidence writer of src/internal/evidence/bwj.go: one BWJWriter  *)
(* shared by every connection handler, its mutex, the rotation of its      *)
(* files, the sticky failure, Close, and what is left on the disk when the *)
(* process is killed or the machine loses power between two steps.         *)
(*                                                                         *)
(* A handler's call is WriteConnectionOpen, WriteConnectionClose,          *)
(* WriteLimit or WriteParserError (one record of a fixed small payload) or *)
(* WriteData (one record per MaxDataPayload bytes).  Every file operation  *)
(* is a step of its own, so that a crash, or a reader of the directory,    *)
(* may come between any two.  Byte sizes are parameters; payloads are only *)
(* their sizes.                                                            *)
(***************************************************************************)
EXTENDS Integers, Sequences, FiniteSets, SequencesExt, Totals

CONSTANTS
  Conns,              \* connection handlers, the callers of the writer
  Closer,             \* the goroutine of engine.Run, which calls Close
  NoOne,              \* the holder of a free mutex
  FileHeaderSize,     \* BWJFileHeaderSize
  RecordHeaderSize,   \* BWJRecordHeaderSize
  MaxDataPayload,     \* BWJMaxDataPayload
  RotateSize,         \* rotateSize, 0 for no rotation by size
  RotateAge,          \* whether rotateDuration > 0
  MetaSizes,          \* payload sizes of the one-record calls
  DataSizes,          \* data sizes of the WriteData calls
  MaxCalls            \* bound on the calls of one handler

ASSUME ConnsAssumption == Closer \notin Conns /\ NoOne \notin Conns \cup {Closer}
ASSUME SizesAssumption ==
  /\ FileHeaderSize \in Nat \ {0}
  /\ RecordHeaderSize \in Nat \ {0}
  /\ MaxDataPayload \in Nat \ {0}
  /\ RotateSize \in Nat
  /\ RotateAge \in BOOLEAN
ASSUME CallsAssumption ==
  /\ MetaSizes \subseteq 0..MaxDataPayload
  /\ DataSizes \subseteq Nat
  /\ MaxCalls \in Nat

VARIABLES
  mu,                 \* w.mu: the goroutine that holds it, or NoOne
  file,               \* w.file: the file sequence it writes, 0 for nil
  fileSequence,       \* w.fileSequence
  recordSequence,     \* w.recordSequence
  bytesWritten,       \* w.bytesWritten
  closed,             \* w.closed
  failed,             \* w.failed # nil
  disk,               \* the files of the run, in the order of their names
  pc,                 \* where each goroutine is
  left,               \* bytes of its current call a handler has still to write
  calls,              \* calls each handler made
  recorded,           \* writeRecord calls of a handler that returned nil
  request,            \* the size of the call a handler is in, or made last
  handed,             \* bytes in the calls of a handler that returned nil
  result,             \* what the last call returned: "none", "nil", "error"
  host                \* "up", "killed" (process) or "nopower" (machine)

writer == <<file, fileSequence, recordSequence, bytesWritten, closed, failed>>
ghosts == <<calls, recorded, request, handed>>
vars == <<mu, writer, disk, pc, left, ghosts, result, host>>

Actors == Conns \cup {Closer}

(***************************************************************************)
(* The disk.  header says whether all of the file header is there; an      *)
(* entry is a record, whole once its payload is complete; synced counts    *)
(* the units (the header, then each entry) that survive a power loss.      *)
(***************************************************************************)
Entry == [conn : Conns, id : Nat \ {0}, seq : Nat \ {0}, bytes : Nat, whole : BOOLEAN]
File == [header : BOOLEAN, entries : Seq(Entry), synced : Nat]

NewFile == [header |-> FALSE, entries |-> << >>, synced |-> 0]
Units(f) == (IF f.header THEN 1 ELSE 0) + Len(f.entries)
Sealed(f) == [f EXCEPT !.synced = Units(f)]

TypeOK ==
  /\ mu \in Actors \cup {NoOne}
  /\ file \in Nat
  /\ fileSequence \in Nat
  /\ recordSequence \in Nat
  /\ bytesWritten \in Nat
  /\ closed \in BOOLEAN
  /\ failed \in BOOLEAN
  /\ disk \in Seq(File)
  /\ pc \in [Actors -> {"idle", "lock", "syncOld", "closeOld", "create", "fileHeader",
                        "header", "payload", "closeSync", "closeFile", "done"}]
  /\ left \in [Conns -> Nat]
  /\ calls \in [Conns -> Nat]
  /\ recorded \in [Conns -> Nat]
  /\ request \in [Conns -> Nat]
  /\ handed \in [Conns -> Nat]
  /\ result \in [Actors -> {"none", "nil", "error"}]
  /\ host \in {"up", "killed", "nopower"}

(* NewBWJWriter succeeded: the first file is there, with its header. *)
Init ==
  /\ mu = NoOne
  /\ file = 1
  /\ fileSequence = 1
  /\ recordSequence = 0
  /\ bytesWritten = FileHeaderSize
  /\ closed = FALSE
  /\ failed = FALSE
  /\ disk = << [NewFile EXCEPT !.header = TRUE] >>
  /\ pc = [a \in Actors |-> "idle"]
  /\ left = [c \in Conns |-> 0]
  /\ calls = [c \in Conns |-> 0]
  /\ recorded = [c \in Conns |-> 0]
  /\ request = [c \in Conns |-> 0]
  /\ handed = [c \in Conns |-> 0]
  /\ result = [a \in Actors |-> "none"]
  /\ host = "up"

Min2(a, b) == IF a < b THEN a ELSE b

(* Mutant: n is not clamped to the data that is left. *)
ChunkUnclamped(c) == MaxDataPayload

(* The payload of the record c writes next: data[:n] of WriteData. *)
Chunk(c) == Min2(left[c], MaxDataPayload)

Goto(a, label) == pc' = [pc EXCEPT ![a] = label]
Unlock == mu' = NoOne

-----------------------------------------------------------------------------
(* The calls of a handler. *)

StartCall(c, size) ==
  /\ host = "up"
  /\ pc[c] = "idle"
  /\ calls[c] < MaxCalls
  /\ calls' = [calls EXCEPT ![c] = @ + 1]
  /\ left' = [left EXCEPT ![c] = size]
  /\ request' = [request EXCEPT ![c] = size]
  /\ UNCHANGED <<mu, writer, disk, recorded, handed, host>>

(* One record whatever the payload: CONNECTION_OPEN's is empty. *)
WriteMeta(c) ==
  \E size \in MetaSizes :
    /\ StartCall(c, size)
    /\ Goto(c, "lock")
    /\ UNCHANGED result

(* No record at all when there is no data. *)
WriteData(c) ==
  \E size \in DataSizes :
    /\ StartCall(c, size)
    /\ IF size = 0
         THEN /\ result' = [result EXCEPT ![c] = "nil"]
              /\ UNCHANGED pc
         ELSE /\ Goto(c, "lock")
              /\ UNCHANGED result

-----------------------------------------------------------------------------
(* writeRecord: the mutex is taken once per record, the checks follow. *)

Lock(c) ==
  /\ host = "up"
  /\ pc[c] = "lock"
  /\ mu = NoOne

(* Mutants: an earlier failure is forgotten; closed is not looked at. *)
UsableForgetful == ~closed
UsableClosed == ~failed

Usable == ~closed /\ ~failed

(* ErrClosed, or the failure remembered: the call ends with an error. *)
Refuse(c) ==
  /\ Lock(c)
  /\ ~Usable
  /\ Goto(c, "idle")
  /\ result' = [result EXCEPT ![c] = "error"]
  /\ UNCHANGED <<mu, writer, disk, left, ghosts, host>>

(* Mutant: the record about to be written is not counted. *)
ShouldRotateLate(next) ==
  \/ file = 0
  \/ /\ RotateSize > 0
     /\ bytesWritten > FileHeaderSize
     /\ bytesWritten > RotateSize

ShouldRotate(next) ==
  \/ file = 0
  \/ /\ RotateSize > 0
     /\ bytesWritten > FileHeaderSize
     /\ bytesWritten + next > RotateSize

RotateFirst == IF file = 0 THEN "create" ELSE "syncOld"

(* The age of the file is not in the state: time.Since(createdAt) may say  *)
(* that it is due at any moment when rotation by age is configured.        *)
EnterRotate(c) ==
  /\ Lock(c)
  /\ Usable
  /\ ShouldRotate(RecordHeaderSize + Chunk(c)) \/ RotateAge
  /\ mu' = c
  /\ Goto(c, RotateFirst)
  /\ UNCHANGED <<writer, disk, left, ghosts, result, host>>

EnterWrite(c) ==
  /\ Lock(c)
  /\ Usable
  /\ ~ShouldRotate(RecordHeaderSize + Chunk(c))
  /\ mu' = c
  /\ Goto(c, "header")
  /\ UNCHANGED <<writer, disk, left, ghosts, result, host>>

(* Mutant: the error is returned and not remembered. *)
FailLockedForgets(c) ==
  /\ Unlock
  /\ Goto(c, "idle")
  /\ result' = [result EXCEPT ![c] = "error"]
  /\ UNCHANGED <<closed, failed, left, ghosts, host>>

(* failLocked, the deferred Unlock and the return of the error. *)
FailLocked(c) ==
  /\ failed' = TRUE
  /\ Unlock
  /\ Goto(c, "idle")
  /\ result' = [result EXCEPT ![c] = "error"]
  /\ UNCHANGED <<closed, left, ghosts, host>>

At(c, label) == host = "up" /\ pc[c] = label

-----------------------------------------------------------------------------
(* rotateLocked and openNextLocked. *)

SyncOld(c) ==
  /\ At(c, "syncOld")
  /\ disk' = [disk EXCEPT ![file] = Sealed(@)]
  /\ Goto(c, "closeOld")
  /\ UNCHANGED <<mu, writer, left, ghosts, result, host>>

CloseOld(c) ==
  /\ At(c, "closeOld")
  /\ file' = 0
  /\ Goto(c, "create")
  /\ UNCHANGED <<mu, fileSequence, recordSequence, bytesWritten, closed, failed,
                 disk, left, ghosts, result, host>>

(* Mutant: the error path of rotation keeps the mutex. *)
RotateFailsLocked(c) ==
  /\ At(c, "syncOld") \/ At(c, "closeOld")
  /\ failed' = TRUE
  /\ Goto(c, "idle")
  /\ result' = [result EXCEPT ![c] = "error"]
  /\ UNCHANGED <<mu, closed, left, ghosts, host>>
  /\ UNCHANGED <<file, fileSequence, recordSequence, bytesWritten, disk>>

(* The old file could not be synced or closed: w.file is still set. *)
RotateFails(c) ==
  /\ At(c, "syncOld") \/ At(c, "closeOld")
  /\ FailLocked(c)
  /\ UNCHANGED <<file, fileSequence, recordSequence, bytesWritten, disk>>

Create(c) ==
  /\ At(c, "create")
  /\ fileSequence' = fileSequence + 1
  /\ disk' = Append(disk, NewFile)
  /\ Goto(c, "fileHeader")
  /\ UNCHANGED <<mu, file, recordSequence, bytesWritten, closed, failed,
                 left, ghosts, result, host>>

CreateFails(c) ==
  /\ At(c, "create")
  /\ fileSequence' = fileSequence + 1
  /\ FailLocked(c)
  /\ UNCHANGED <<file, recordSequence, bytesWritten, disk>>

(* Mutant: the record sequence goes on across files. *)
SequenceGoesOn == recordSequence

FirstSequence == 0

WriteFileHeader(c) ==
  /\ At(c, "fileHeader")
  /\ disk' = [disk EXCEPT ![fileSequence].header = TRUE]
  /\ file' = fileSequence
  /\ recordSequence' = FirstSequence
  /\ bytesWritten' = FileHeaderSize
  /\ Goto(c, "header")
  /\ UNCHANGED <<mu, fileSequence, closed, failed, left, ghosts, result, host>>

(* Some of the header may be there; the new file is closed, w.file is nil. *)
WriteFileHeaderFails(c) ==
  /\ At(c, "fileHeader")
  /\ FailLocked(c)
  /\ UNCHANGED <<file, fileSequence, recordSequence, bytesWritten, disk>>

-----------------------------------------------------------------------------
(* The record: header, then payload. *)

NewEntry(c, whole) ==
  [conn |-> c, id |-> recorded[c] + 1, seq |-> recordSequence + 1,
   bytes |-> Chunk(c), whole |-> whole]

AppendEntry(e) == disk' = [disk EXCEPT ![file].entries = Append(@, e)]

(* Mutant: WriteData returns after its first record. *)
NothingMore(c) == FALSE

MoreToWrite(c) == left[c] > Chunk(c)

(* writeRecord returns nil; WriteData goes on to its next record, if any. *)
Acknowledge(c) ==
  /\ bytesWritten' = bytesWritten + RecordHeaderSize + Chunk(c)
  /\ recorded' = [recorded EXCEPT ![c] = @ + 1]
  /\ left' = [left EXCEPT ![c] = @ - Chunk(c)]
  /\ Unlock
  /\ IF MoreToWrite(c)
       THEN /\ Goto(c, "lock")
            /\ UNCHANGED <<handed, result>>
       ELSE /\ Goto(c, "idle")
            /\ handed' = [handed EXCEPT ![c] = @ + request[c]]
            /\ result' = [result EXCEPT ![c] = "nil"]
  /\ UNCHANGED <<file, fileSequence, closed, failed, calls, request, host>>

(* recordSequence moves before anything is written. *)
WriteHeader(c) ==
  /\ At(c, "header")
  /\ recordSequence' = recordSequence + 1
  /\ IF Chunk(c) = 0
       THEN /\ AppendEntry(NewEntry(c, TRUE))
            /\ Acknowledge(c)
       ELSE /\ AppendEntry(NewEntry(c, FALSE))
            /\ Goto(c, "payload")
            /\ UNCHANGED <<mu, file, fileSequence, bytesWritten, closed, failed,
                           left, ghosts, result, host>>

(* Nothing, or the first bytes of the header, reached the file. *)
WriteHeaderFails(c) ==
  /\ At(c, "header")
  /\ recordSequence' = recordSequence + 1
  /\ AppendEntry(NewEntry(c, FALSE)) \/ UNCHANGED disk
  /\ FailLocked(c)
  /\ UNCHANGED <<file, fileSequence, bytesWritten>>

WritePayload(c) ==
  /\ At(c, "payload")
  /\ disk' = [disk EXCEPT ![file].entries[Len(disk[file].entries)].whole = TRUE]
  /\ Acknowledge(c)
  /\ UNCHANGED recordSequence

(* Mutant: the error of the second write is dropped. *)
WritePayloadFailsQuietly(c) ==
  /\ At(c, "payload")
  /\ Acknowledge(c)
  /\ UNCHANGED <<recordSequence, disk>>

WritePayloadFails(c) ==
  /\ At(c, "payload")
  /\ FailLocked(c)
  /\ UNCHANGED <<file, fileSequence, recordSequence, bytesWritten, disk>>

-----------------------------------------------------------------------------
(* Close, called once by engine.Run. *)

Return(a, value) ==
  /\ Goto(a, "done")
  /\ result' = [result EXCEPT ![a] = value]
  /\ Unlock

CloseNoFile ==
  /\ host = "up"
  /\ pc[Closer] = "idle"
  /\ mu = NoOne
  /\ file = 0
  /\ closed' = TRUE
  /\ Return(Closer, IF failed THEN "error" ELSE "nil")
  /\ UNCHANGED <<file, fileSequence, recordSequence, bytesWritten, failed,
                 disk, left, ghosts, host>>

CloseStart ==
  /\ host = "up"
  /\ pc[Closer] = "idle"
  /\ mu = NoOne
  /\ file # 0
  /\ closed' = TRUE
  /\ mu' = Closer
  /\ Goto(Closer, "closeSync")
  /\ UNCHANGED <<file, fileSequence, recordSequence, bytesWritten, failed,
                 disk, left, ghosts, result, host>>

(* syncErr is kept: the file is closed all the same. *)
CloseSync ==
  /\ At(Closer, "closeSync")
  /\ Goto(Closer, "closeFile")
  /\ \/ /\ disk' = [disk EXCEPT ![file] = Sealed(@)]
        /\ UNCHANGED result
     \/ /\ result' = [result EXCEPT ![Closer] = "error"]
        /\ UNCHANGED disk
  /\ UNCHANGED <<mu, writer, left, ghosts, host>>

(* Mutant: only the errors of Close itself are returned. *)
CloseErrorForgets(closeErr) == closeErr \/ result[Closer] = "error"

CloseError(closeErr) == failed \/ closeErr \/ result[Closer] = "error"

(* errors.Join(w.failed, syncErr, closeErr) *)
CloseFile ==
  /\ At(Closer, "closeFile")
  /\ file' = 0
  /\ \E closeErr \in BOOLEAN :
       Return(Closer, IF CloseError(closeErr) THEN "error" ELSE "nil")
  /\ UNCHANGED <<fileSequence, recordSequence, bytesWritten, closed, failed,
                 disk, left, ghosts, host>>

-----------------------------------------------------------------------------
(* The process is killed, or the machine loses power, between two steps.   *)
(* What the kernel was given survives the first; what was never synced     *)
(* may be lost in the second, the newest unit of a file first.             *)

Crash ==
  /\ host = "up"
  /\ host' \in {"killed", "nopower"}
  /\ UNCHANGED <<mu, writer, disk, pc, left, ghosts, result>>

LoseUnit(f) ==
  IF f.entries = << >> THEN [f EXCEPT !.header = FALSE]
  ELSE [f EXCEPT !.entries = SubSeq(@, 1, Len(@) - 1)]

TearUnit(f) ==
  IF f.entries = << >> THEN [f EXCEPT !.header = FALSE]
  ELSE [f EXCEPT !.entries[Len(f.entries)].whole = FALSE]

LoseUnsynced ==
  /\ host = "nopower"
  /\ \E i \in DOMAIN disk :
       /\ Units(disk[i]) > disk[i].synced
       /\ disk' \in { [disk EXCEPT ![i] = LoseUnit(@)], [disk EXCEPT ![i] = TearUnit(@)] }
  /\ UNCHANGED <<mu, writer, pc, left, ghosts, result, host>>

(* Nothing more to do: every call of the bound is made, or the host is down. *)
Finished ==
  /\ \/ host # "up"
     \/ /\ pc[Closer] = "done"
        /\ \A c \in Conns : pc[c] = "idle" /\ calls[c] = MaxCalls
  /\ UNCHANGED vars

Step(c) ==
  \/ SyncOld(c) \/ CloseOld(c) \/ RotateFails(c)
  \/ Create(c) \/ CreateFails(c)
  \/ WriteFileHeader(c) \/ WriteFileHeaderFails(c)
  \/ WriteHeader(c) \/ WriteHeaderFails(c)
  \/ WritePayload(c) \/ WritePayloadFails(c)

Enter(c) == Refuse(c) \/ EnterRotate(c) \/ EnterWrite(c)

Close == CloseNoFile \/ CloseStart \/ CloseSync \/ CloseFile

Next ==
  \/ \E c \in Conns : WriteMeta(c) \/ WriteData(c) \/ Enter(c) \/ Step(c)
  \/ Close
  \/ Crash
  \/ LoseUnsynced
  \/ Finished

(* A system call returns, with or without an error; a goroutine that waits *)
(* for a sync.Mutex gets it (starvation mode hands it over in order).      *)
Fairness ==
  /\ \A c \in Conns : WF_vars(Step(c)) /\ SF_vars(Enter(c))
  /\ WF_vars(CloseSync \/ CloseFile)

Spec == Init /\ [][Next]_vars /\ Fairness

-----------------------------------------------------------------------------
(* What a reader gets from a file, ReadBWJFile: the records up to a torn    *)
(* tail.  A torn record followed by anything, or a sequence that does not   *)
(* grow, or a file header that is not whole, is an error.                   *)

ReadBWJFile(f) ==
  LET n     == Len(f.entries)
      error == \/ ~f.header
               \/ \E k \in 1..(n - 1) : ~f.entries[k].whole
               \/ \E k \in 2..n : f.entries[k].seq <= f.entries[k - 1].seq
      torn  == n > 0 /\ ~f.entries[n].whole
  IN  [error         |-> error,
       truncatedTail |-> ~error /\ torn,
       records       |-> IF error THEN << >>
                         ELSE IF torn THEN SubSeq(f.entries, 1, n - 1) ELSE f.entries]

(* The records of the run, files in the order of their sequence. *)
Log == FlattenSeq([i \in DOMAIN disk |-> ReadBWJFile(disk[i]).records])

(* Of the records of a log, the places of those of c, and their bytes. *)
OfConn(log, c) == {k \in DOMAIN log : log[k].conn = c}
BytesOf(log, c) == Total([k \in DOMAIN log |-> IF log[k].conn = c THEN log[k].bytes ELSE 0])

(* What records take up in a file, with their headers. *)
Size(records) == Total([k \in DOMAIN records |-> RecordHeaderSize + records[k].bytes])

(***************************************************************************)
(* Properties.                                                             *)
(***************************************************************************)

(* Only the newest file of the run may be unreadable or have a torn tail:  *)
(* whenever a reader looks, every earlier file parses with every record it *)
(* was given, none truncated, and numbered 1, 2, 3 without a gap.          *)
EarlierFilesParse ==
  \A i \in 1..(Len(disk) - 1) :
    LET r == ReadBWJFile(disk[i]) IN
    /\ ~r.error /\ ~r.truncatedTail
    /\ \A k \in DOMAIN r.records : r.records[k].seq = k

(* The newest file parses too unless its header is not complete, and a     *)
(* torn record hides no record written before it.                          *)
NewestFileParses ==
  LET r == ReadBWJFile(disk[Len(disk)]) IN
  disk[Len(disk)].header =>
    /\ ~r.error
    /\ \A k \in DOMAIN r.records : r.records[k].seq = k

(* "A record is acknowledged only after its complete header and payload    *)
(* have passed through this serialized file-descriptor write loop"         *)
(* (bwj.go:252), and WriteData loses and repeats no byte when it splits    *)
(* its data.  As long as the machine has power, the files hold exactly the *)
(* records that were acknowledged, and of each handler the bytes of its    *)
(* calls that returned nil; more only of a call going on or refused half   *)
(* way.                                                                    *)
WrittenExactly ==
  host # "nopower" =>
    LET log == Log IN
    \A c \in Conns :
      /\ Cardinality(OfConn(log, c)) = recorded[c]
      /\ BytesOf(log, c) >= handed[c]
      /\ pc[c] = "idle" /\ ~failed /\ ~closed => BytesOf(log, c) = handed[c]

(* A file exceeds rotateSize only when it holds a single record.           *)
FileSizeBounded ==
  RotateSize > 0 =>
    \A i \in DOMAIN disk :
      \/ Len(disk[i].entries) <= 1
      \/ FileHeaderSize + Size(ReadBWJFile(disk[i]).records) <= RotateSize

(* When Close returns nil every acknowledged record is safe, even from a   *)
(* power loss that follows.                                                *)
CloseNilIsDurable ==
  result[Closer] = "nil" =>
    /\ \A c \in Conns : Cardinality(OfConn(Log, c)) = recorded[c]
    /\ \A i \in DOMAIN disk : ~ReadBWJFile(disk[i]).error /\ ~ReadBWJFile(disk[i]).truncatedTail

(* A handler sees an error only from a journal that is failed or closed,   *)
(* and the first error is the last change of what the files hold.          *)
ErrorFreezes ==
  [][(\E c \in Conns : result[c] = "error") /\ host = "up" =>
       (failed \/ closed) /\ (failed => Log' = Log /\ Len(disk') = Len(disk))]_vars

(* The records a reader gets from a file, as the abstract journal knows    *)
(* them: the handler and the number of its record.                         *)
Identified(f) ==
  [k \in DOMAIN ReadBWJFile(f).records |-> [conn |-> f.entries[k].conn, id |-> f.entries[k].id]]

(* The writer implements the abstract journal.                             *)
Abstract == INSTANCE Journal WITH
  log   <- FlattenSeq([i \in DOMAIN disk |-> Identified(disk[i])]),
  phase <- IF host = "nopower" THEN "lost"
           ELSE IF failed \/ closed \/ host = "killed" THEN "frozen" ELSE "open"

ImplementsJournal == Abstract!Spec

(* Every call a handler makes returns, unless the host goes down.          *)
EveryCallReturns ==
  \A c \in Conns : pc[c] # "idle" ~> (pc[c] = "idle" \/ host # "up")
=============================================================================
