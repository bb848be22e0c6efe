------------------------------- MODULE Index -------------------------------
(***************************************************************************)
(* The offline index (internal/index/index.go) over the two evidence       *)
(* stores of a sensor that may be running, failing or restarted while they *)
(* are read, directly or through an archive made of them                   *)
(* (scripts/evidence_collect.sh).                                          *)
(*                                                                         *)
(* The sensor is the order in which handleConnection, recordingReader and  *)
(* exchangeWriter journal, count and emit; the stores keep the contracts   *)
(* that BWJWriter and EventWriter establish: only the newest file of a run *)
(* may be incomplete, a failed writer writes no more, and a power loss     *)
(* takes the end of what was not synced.  The bytes of a request, and of   *)
(* one write of a response, are a unit; units are numbered in each         *)
(* direction of a connection, so that order and gaps can be seen.          *)
(***************************************************************************)
EXTENDS Integers, Sequences, FiniteSets, SequencesExt

CONSTANTS
  Conns,              \* connections
  Home,               \* the run of the sensor each belongs to
  MaxRuns,            \* bound on the runs of the sensor
  MaxRequests,        \* bound on the requests of all connections
  MaxWrites,          \* bound on the writes of a response
  MaxFiles,           \* bound on the files of each store
  MaxFaults,          \* bound on the kinds of fault in a behaviour
  MaxReads            \* bound on the runs of the index and the archives

ASSUME IndexAssumption ==
  /\ MaxRuns \in Nat /\ Home \in [Conns -> 1..MaxRuns]
  /\ {MaxRequests, MaxWrites, MaxFiles, MaxFaults, MaxReads} \subseteq Nat

VARIABLES
  (* the sensor *)
  run, up,            \* its runs, and whether the last one is alive
  pc,                 \* where each handler is
  bytesIn, bytesOut,  \* connectionCounters
  requests,           \* requests of the connection
  responseStart,      \* bytesOut when the current response began
  journalOK,          \* the journal has not failed in this run
  jsonlHealthy,       \* rt.jsonlHealthy
  (* its evidence *)
  journal,            \* the BWJ files: [run, header, units, synced]
  events,             \* the JSONL files: [run, lines, cut, synced]
  faults,             \* what ever went wrong
  (* the index *)
  reads,              \* how often it has run
  reader,             \* the store it has read, and whether the sensor ran meanwhile
  db                  \* the SQLite file

connection == <<pc, bytesIn, bytesOut, requests, responseStart>>
evidence == <<journal, events>>
sensor == <<run, up, connection, journalOK, jsonlHealthy>>
index == <<reads, reader, db>>
vars == <<sensor, evidence, faults, index>>

-----------------------------------------------------------------------------
(* The sensor.                                                             *)

NewJournal(r) == [run |-> r, header |-> TRUE, units |-> << >>, synced |-> FALSE]
NewEvents(r) == [run |-> r, lines |-> << >>, cut |-> FALSE, synced |-> FALSE]
(* What a rotation and Close do to the newest file.                        *)
SyncNewest(files) == [files EXCEPT ![Len(files)].synced = TRUE]

Idle == [by |-> "none", first |-> "none", files |-> << >>, live |-> FALSE]

Init ==
  /\ run = 0 /\ up = FALSE
  /\ pc = [c \in Conns |-> "away"]
  /\ bytesIn = [c \in Conns |-> 0] /\ bytesOut = [c \in Conns |-> 0]
  /\ requests = [c \in Conns |-> 0] /\ responseStart = [c \in Conns |-> 0]
  /\ journalOK = FALSE /\ jsonlHealthy = FALSE
  /\ journal = << >> /\ events = << >> /\ faults = {}
  /\ reads = 0 /\ reader = Idle
  /\ db = [connections |-> << >>, exchanges |-> << >>]

StartRun ==
  /\ ~up /\ run < MaxRuns
  /\ run' = run + 1 /\ up' = TRUE
  /\ journalOK' = TRUE /\ jsonlHealthy' = TRUE
  /\ journal' = Append(journal, NewJournal(run'))
  /\ events' = Append(events, NewEvents(run'))
  /\ reader' = [reader EXCEPT !.live = reader.first # "none"]
  /\ UNCHANGED <<connection, faults, reads, db>>

Fault(kind) ==
  /\ faults' = faults \cup {kind}
  /\ Cardinality(faults') <= MaxFaults

At(c, label) == up /\ Home[c] = run /\ pc[c] = label
Goto(c, label) == pc' = [pc EXCEPT ![c] = label]

(* bwj.WriteData and WriteConnectionOpen, which fail once and for all,     *)
(* perhaps in the header of a new file.                                    *)
JournalTakes(unit) ==
  /\ journalOK
  /\ journal' = [journal EXCEPT ![Len(journal)].units = Append(@, unit)]
  /\ UNCHANGED <<journalOK, faults>>
JournalRefuses ==
  /\ journalOK' = FALSE
  /\ Fault("journal")
  /\ \/ UNCHANGED journal
     \/ /\ journalOK /\ Len(journal) < MaxFiles
        /\ journal' = Append(SyncNewest(journal), [NewJournal(run) EXCEPT !.header = FALSE])

(* rt.emit: an event is written, or the first failure ends the event log,  *)
(* perhaps with a part of its line in the file, or all but its line feed.  *)
Emit(line) ==
  \/ /\ ~jsonlHealthy
     /\ UNCHANGED <<events, jsonlHealthy, faults>>
  \/ /\ jsonlHealthy
     /\ events' = [events EXCEPT ![Len(events)].lines = Append(@, line)]
     /\ UNCHANGED <<jsonlHealthy, faults>>
  \/ /\ jsonlHealthy
     /\ jsonlHealthy' = FALSE
     /\ Fault("events")
     /\ \/ \E cut \in BOOLEAN : events' = [events EXCEPT ![Len(events)].cut = cut]
        \/ events' = [events EXCEPT ![Len(events)].lines = Append(@, line)]

Line(type, c) == [type |-> type, conn |-> c]

(* The open record is not data: all that counts is whether it was taken.   *)
Open(c) ==
  /\ At(c, "away")
  /\ \/ /\ journalOK /\ Goto(c, "read")
        /\ Emit(Line("connection_open", c))
        /\ UNCHANGED <<journal, journalOK>>
     \/ /\ JournalRefuses /\ Goto(c, "failed")
        /\ UNCHANGED <<events, jsonlHealthy>>
  /\ UNCHANGED <<run, up, bytesIn, bytesOut, requests, responseStart, index>>

(* recordingReader.Read: journaled, then counted and given to the parser.  *)
ReadRequest(c) ==
  /\ At(c, "read")
  /\ Cardinality({p \in Conns \X (1..MaxRequests) : p[2] <= requests[p[1]]}) < MaxRequests
  /\ \/ /\ JournalTakes([conn |-> c, dir |-> "in", at |-> bytesIn[c] + 1])
        /\ bytesIn' = [bytesIn EXCEPT ![c] = @ + 1]
        /\ requests' = [requests EXCEPT ![c] = @ + 1]
        /\ responseStart' = [responseStart EXCEPT ![c] = bytesOut[c]]
        /\ Goto(c, "write")
     \/ /\ JournalRefuses /\ Goto(c, "failed")
        /\ UNCHANGED <<bytesIn, requests, responseStart>>
  /\ UNCHANGED <<run, up, bytesOut, jsonlHealthy, events, index>>

(* exchangeWriter.Write: sent, then journaled, and counted whether or not  *)
(* the journal took it.                                                    *)
WriteResponse(c) ==
  /\ At(c, "write") /\ bytesOut[c] - responseStart[c] < MaxWrites
  /\ bytesOut' = [bytesOut EXCEPT ![c] = @ + 1]
  /\ \/ JournalTakes([conn |-> c, dir |-> "out", at |-> bytesOut[c] + 1]) /\ UNCHANGED pc
     \/ JournalRefuses /\ Goto(c, "writeFailed")
  /\ UNCHANGED <<run, up, bytesIn, requests, responseStart, jsonlHealthy, events, index>>

Exchange(c) ==
  [type |-> "exchange", conn |-> c, request |-> requests[c],
   inStart |-> bytesIn[c] - 1, inLength |-> 1,
   outStart |-> responseStart[c], outLength |-> bytesOut[c] - responseStart[c]]

(* The response is over, complete or not.                                  *)
EmitExchange(c) ==
  /\ \/ At(c, "write") /\ Goto(c, "read")
     \/ At(c, "writeFailed") /\ Goto(c, "failed")
  /\ Emit(Exchange(c))
  /\ UNCHANGED <<run, up, bytesIn, bytesOut, requests, responseStart, journalOK, journal, index>>

(* The deferred function, however the loop was left.                       *)
Close(c) ==
  /\ At(c, "read") \/ At(c, "failed")
  /\ Goto(c, "done")
  /\ Emit(Line("connection_close", c))
  /\ UNCHANGED <<run, up, bytesIn, bytesOut, requests, responseStart, journalOK, journal, index>>

RotateJournal ==
  /\ up /\ journalOK /\ Len(journal) < MaxFiles /\ Last(journal).units # << >>
  /\ journal' = Append(SyncNewest(journal), NewJournal(run))
  /\ UNCHANGED <<sensor, events, faults, index>>

RotateEvents ==
  /\ up /\ jsonlHealthy /\ Len(events) < MaxFiles /\ Last(events).lines # << >>
  /\ events' = Append(SyncNewest(events), NewEvents(run))
  /\ UNCHANGED <<sensor, journal, faults, index>>

(* Run returns when its handlers have ended, and closes both writers.      *)
Stop ==
  /\ up /\ \A c \in Conns : Home[c] = run => pc[c] \in {"away", "done"}
  /\ up' = FALSE
  /\ journal' = SyncNewest(journal) /\ events' = SyncNewest(events)
  /\ UNCHANGED <<run, connection, journalOK, jsonlHealthy, faults, index>>

(* The newest file as a write that has not finished leaves or shows it: a  *)
(* header or a line of which only a part is there.                         *)
Unfinished(f, store) ==
  CASE store = "journal" ->
         {f} \cup IF journalOK /\ f.units = << >> THEN {[f EXCEPT !.header = FALSE]} ELSE {}
    [] store = "events" ->
         {f} \cup IF jsonlHealthy THEN {[f EXCEPT !.cut = TRUE]} ELSE {}

Kill ==
  /\ up /\ up' = FALSE
  /\ Fault("kill")
  /\ \E f \in Unfinished(Last(journal), "journal"), g \in Unfinished(Last(events), "events") :
       /\ journal' = [journal EXCEPT ![Len(journal)] = f]
       /\ events' = [events EXCEPT ![Len(events)] = g]
  /\ UNCHANGED <<run, connection, journalOK, jsonlHealthy, index>>

(* What is left of a file that was not synced, whichever run wrote it.     *)
UnitsLeft(f, n) == [f EXCEPT !.units = SubSeq(@, 1, n), !.synced = TRUE]
NoHeaderLeft(f) == [f EXCEPT !.units = << >>, !.header = FALSE, !.synced = TRUE]
LinesLeft(f, n, cut) == [f EXCEPT !.lines = SubSeq(@, 1, n), !.cut = cut, !.synced = TRUE]
LeftOf(f, store) ==
  IF f.synced THEN {f}
  ELSE CASE store = "journal" -> {UnitsLeft(f, n) : n \in 0..Len(f.units)} \cup {NoHeaderLeft(f)}
         [] store = "events"  -> {LinesLeft(f, n, cut) : n \in 0..Len(f.lines), cut \in BOOLEAN}
AfterLoss(files, store) ==
  {left \in [DOMAIN files -> UNION {LeftOf(files[i], store) : i \in DOMAIN files}] :
     \A i \in DOMAIN files : left[i] \in LeftOf(files[i], store)}

PowerLoss ==
  /\ run > 0 /\ "power" \notin faults
  /\ up' = FALSE
  /\ Fault("power")
  /\ journal' \in AfterLoss(journal, "journal")
  /\ events' \in AfterLoss(events, "events")
  /\ reader' = Idle
  /\ UNCHANGED <<run, connection, journalOK, jsonlHealthy, reads, db>>

Handler(c) ==
  Open(c) \/ ReadRequest(c) \/ WriteResponse(c) \/ EmitExchange(c) \/ Close(c)

-----------------------------------------------------------------------------
(* Reading the stores.  Index mode reads the events, then the journal; tar *)
(* takes the two directories in the order the file system has them, which  *)
(* is either that of index mode or the other one.                          *)

(* The files of a store grow at the end of the newest one, and a file that *)
(* appears after the directory was listed is not read: what is read of a   *)
(* store is what it held at one moment of the reading.                     *)
Files(store) == IF store = "journal" THEN journal ELSE events

Read(store) ==
  IF up /\ Files(store) # << >>
    THEN {[Files(store) EXCEPT ![Len(Files(store))] = f] : f \in Unfinished(Last(Files(store)), store)}
    ELSE {Files(store)}

(* Mutant: index mode reads the journal first. *)
JournalFirst == "journal"
IndexFirst == "events"

ReadFirst(by, store) ==
  /\ reader.first = "none" /\ reads < MaxReads
  /\ reads' = reads + 1
  /\ \E files \in Read(store) : reader' = [by |-> by, first |-> store, files |-> files, live |-> up]
  /\ UNCHANGED <<sensor, evidence, faults, db>>

StartIndex == ReadFirst("index", IndexFirst)
StartArchive == ReadFirst("archive", "journal")

-----------------------------------------------------------------------------
(* What index.Run makes of the files it has read.                          *)

LinesOf(jsonl) == FlattenSeq([i \in DOMAIN jsonl |-> jsonl[i].lines])
ExchangesOf(jsonl) == {l \in ToSet(LinesOf(jsonl)) : l.type = "exchange"}

(* reconstructStreams, and the slices that are hashed.                     *)
UnitsOf(bwj) == FlattenSeq([i \in DOMAIN bwj |-> bwj[i].units])
Stream(bwj, c, dir) ==
  LET all == UnitsOf(bwj)
  IN  FlattenSeq([k \in DOMAIN all |->
        IF all[k].conn = c /\ all[k].dir = dir THEN <<all[k]>> ELSE << >>])
InRange(stream, start, length) == start + length <= Len(stream)
Slice(stream, start, length) == SubSeq(stream, start + 1, start + length)

Request(bwj, e) == Slice(Stream(bwj, e.conn, "in"), e.inStart, e.inLength)
Response(bwj, e) == Slice(Stream(bwj, e.conn, "out"), e.outStart, e.outLength)

(* The units a connection really had.                                      *)
Truly(c, dir, start, length) == [i \in 1..length |-> [conn |-> c, dir |-> dir, at |-> start + i]]

Result(jsonl, bwj) ==
  LET exchanges == ExchangesOf(jsonl)
  IN  IF \E i \in DOMAIN jsonl : jsonl[i].cut THEN "decode"
      ELSE IF \E i \in DOMAIN bwj : ~bwj[i].header THEN "header"
      ELSE IF \E e \in exchanges :
                \/ ~InRange(Stream(bwj, e.conn, "in"), e.inStart, e.inLength)
                \/ ~InRange(Stream(bwj, e.conn, "out"), e.outStart, e.outLength)
             THEN "range"
      ELSE IF \E e \in exchanges :
                Response(bwj, e) # Truly(e.conn, "out", e.outStart, e.outLength)
             THEN "hash"
      ELSE "ok"

(* Mutant: a close event makes a row of its own. *)
AddLineAnew(rows, l) ==
  IF l.type = "exchange" THEN rows
  ELSE [c \in DOMAIN rows \cup {l.conn} |->
          IF c = l.conn THEN [by |-> l.type, closed |-> l.type = "connection_close"] ELSE rows[c]]

(* An open event gives the row, a close event completes it or stands for   *)
(* it.                                                                     *)
AddLine(rows, l) ==
  LET put(row) == [c \in DOMAIN rows \cup {l.conn} |-> IF c = l.conn THEN row ELSE rows[c]]
      by       == IF l.conn \in DOMAIN rows THEN rows[l.conn].by ELSE l.type
  IN  CASE l.type = "connection_open"  -> put([by |-> l.type, closed |-> FALSE])
        [] l.type = "connection_close" -> put([by |-> by, closed |-> TRUE])
        [] l.type = "exchange"         -> rows
Rows(lines) ==
  LET after[n \in 0..Len(lines)] == IF n = 0 THEN << >> ELSE AddLine(after[n - 1], lines[n])
  IN  after[Len(lines)]

(* An exchange stands for a connection that has neither.                   *)
ConnectionRows(jsonl) ==
  LET rows == Rows(LinesOf(jsonl))
  IN  [c \in DOMAIN rows \cup {e.conn : e \in ExchangesOf(jsonl)} |->
         IF c \in DOMAIN rows THEN rows[c] ELSE [by |-> "exchange", closed |-> FALSE]]

ExchangeRows(jsonl, bwj) ==
  LET exchanges == ExchangesOf(jsonl)
      row(id)   == CHOOSE e \in exchanges : <<e.conn, e.request>> = id
  IN  [id \in {<<e.conn, e.request>> : e \in exchanges} |->
         [request |-> Request(bwj, row(id)), response |-> Response(bwj, row(id))]]

(* writeSQLite: INSERT .. ON CONFLICT DO UPDATE, in one transaction.       *)
(* Mutant: the tables are made anew.                                       *)
UpsertAnew(old, new) == new
Upsert(old, new) ==
  [key \in DOMAIN old \cup DOMAIN new |-> IF key \in DOMAIN new THEN new[key] ELSE old[key]]

(* What may have been read when the other store is.                        *)
Evidence ==
  CASE reader.first = "none"    -> {}
    [] reader.first = "events"  -> {[jsonl |-> reader.files, bwj |-> files] : files \in Read("journal")}
    [] reader.first = "journal" -> {[jsonl |-> files, bwj |-> reader.files] : files \in Read("events")}

(* The other store is read, then the index is made, live or from what an   *)
(* archive holds.  Errors, SQLite's included, leave the database as it was.*)
ReadSecond ==
  /\ \E e \in Evidence :
       \/ UNCHANGED db
       \/ /\ Result(e.jsonl, e.bwj) = "ok"
          /\ db' = [connections |-> Upsert(db.connections, ConnectionRows(e.jsonl)),
                    exchanges   |-> Upsert(db.exchanges, ExchangeRows(e.jsonl, e.bwj))]
  /\ reader' = Idle
  /\ UNCHANGED <<sensor, evidence, faults, reads>>

Next ==
  \/ StartRun \/ RotateJournal \/ RotateEvents \/ Stop \/ Kill \/ PowerLoss
  \/ \E c \in Conns : Handler(c)
  \/ StartIndex \/ StartArchive \/ ReadSecond

Spec == Init /\ [][Next]_vars

-----------------------------------------------------------------------------
(* Properties.                                                             *)

(* An index fails only for what happened to the evidence.  A response      *)
(* never has another content than its event says.  Bytes an event names    *)
(* are missing only if the journal failed or lost power, or if an archive  *)
(* took the journal of a running sensor before its events; a kill, a       *)
(* rotation or a failed event log never makes them so.  A file cannot be   *)
(* read only while it is being written or after its last write failed.     *)
(* (index.go:124-151, connection.go:128-142, 195-218)                      *)
IndexErrorsExplained ==
  \A e \in Evidence :
    LET result == Result(e.jsonl, e.bwj) IN
    /\ result # "hash"
    /\ result = "range" =>
         faults \cap {"journal", "power"} # {} \/ (reader.by = "archive" /\ reader.live)
    /\ result = "decode" => faults \cap {"events", "kill", "power"} # {} \/ reader.live
    /\ result = "header" => faults \cap {"journal", "kill", "power"} # {} \/ reader.live

(* What the database says is true, whenever it was made: the exchanges of  *)
(* a connection are its first ones, their requests and responses are those *)
(* that were received and sent, without a gap; every exchange has its      *)
(* connection, whose row is never one inferred from an exchange, and is    *)
(* one inferred from a close only if the journal refused the connection    *)
(* (index.go:132-163, 195-229, 266-281).                                   *)
IndexIsTrue ==
  /\ \A id \in DOMAIN db.exchanges :
       LET c == id[1]
           k == id[2]
           sent == FlattenSeq([i \in 1..k |-> db.exchanges[<<c, i>>].response])
       IN  /\ c \in DOMAIN db.connections
           /\ k > 1 => <<c, k - 1>> \in DOMAIN db.exchanges
           /\ db.exchanges[id].request = Truly(c, "in", k - 1, 1)
           /\ Len(sent) <= bytesOut[c] /\ sent = Truly(c, "out", 0, Len(sent))
  /\ \A c \in DOMAIN db.connections :
       /\ db.connections[c].by # "exchange"
       /\ db.connections[c].by = "connection_close" => bytesIn[c] = 0 /\ "journal" \in faults
       /\ db.connections[c].closed => pc[c] = "done"

(* A refresh never takes anything from the index, not even when a power    *)
(* loss took it from the evidence, except that a connection whose close    *)
(* event was lost is open again (index.go:307-326, 343-369).               *)
RefreshNeverForgets ==
  [][/\ \A id \in DOMAIN db.exchanges :
          id \in DOMAIN db'.exchanges /\ db'.exchanges[id] = db.exchanges[id]
     /\ \A c \in DOMAIN db.connections :
          /\ c \in DOMAIN db'.connections /\ db'.connections[c].by = db.connections[c].by
          /\ db.connections[c].closed => db'.connections[c].closed \/ "power" \in faults]_db
=============================================================================
