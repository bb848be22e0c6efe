------------------------------- MODULE Serve -------------------------------
(***************************************************************************)
(* The serve mode of notaihoney: engine.Run (engine.go), the accept loops  *)
(* and admission slots (listener.go), and the skeleton of every connection *)
(* handler (connection.go) as far as it shares state with them: what it    *)
(* registers, journals, blocks on and gives back.  The journal is used     *)
(* through its contract (Journal.tla): a write succeeds or fails, and the  *)
(* first failure is final.                                                 *)
(*                                                                         *)
(* One goroutine runs Run, one per service runs acceptLoop, one per        *)
(* admitted connection runs handleConnection; clients, the capture         *)
(* service, the operator and the disk are the environment.                 *)
(***************************************************************************)
EXTENDS Integers, FiniteSets

CONSTANTS
  Services,           \* the enabled services, one listener each
  TLSServices,        \* those whose listener protocol is https
  Conns,              \* the connections clients ever open
  Home,               \* the service a connection is for
  NoConn,             \* an accept loop has no connection in hand
  MaxTotal,           \* limits.max_connections_total
  MaxPerService,      \* limits.max_connections_per_service
  MaxRounds           \* bound on the requests of one connection

ASSUME ServicesAssumption ==
  /\ IsFiniteSet(Services) /\ IsFiniteSet(Conns)
  /\ TLSServices \subseteq Services
  /\ Home \in [Conns -> Services]
  /\ NoConn \notin Conns
ASSUME LimitsAssumption ==
  /\ MaxTotal \in Nat \ {0}
  /\ MaxPerService \in Nat \ {0}
  /\ MaxRounds \in Nat

VARIABLES
  (* Run *)
  main,               \* where Run is
  todo,               \* services its current loop has still to visit
  snapshot,           \* connections closeActiveConnections has still to close
  cancelled,          \* cancel() was called on runCtx
  terminal,           \* the terminal error, "none" for nil
  result,             \* what Run returned, "none" while it runs
  (* shared *)
  listener,           \* the listeners
  lease,              \* the capture lease
  bwj, bwjFailed,     \* the raw journal, and its sticky failure
  jsonl,              \* the event writer
  fatalOnce, fatalCh, \* rt.fail
  active,             \* rt.active
  wg,                 \* the WaitGroup
  globalSlots,        \* tokens in rt.globalSlots
  serviceSlots,       \* tokens in service.slots
  (* accept loops and handlers *)
  loop, inHand,       \* where each accept loop is, and what it accepted
  pc, rounds,         \* where each handler is, and the requests it served
  rawClosed,          \* connections this process has closed
  (* what the journal holds *)
  opened, ended,      \* connections with an open, a close record
  (* environment *)
  stop                \* the operator asked the process to stop: ctx is done

runVars == <<main, todo, snapshot, cancelled, terminal, result>>
sinks == <<bwj, bwjFailed, jsonl>>
fatal == <<fatalOnce, fatalCh>>
slots == <<globalSlots, serviceSlots>>
loops == <<loop, inHand>>
handlers == <<pc, rounds, rawClosed>>
journal == <<opened, ended>>
vars == <<runVars, listener, lease, sinks, fatal, active, wg, slots, loops, handlers,
          journal, stop>>

MainSteps == {"bwj", "jsonl", "startup", "lease", "bind", "spawn", "select",
              "closeListeners", "cancel", "scan", "closeActive", "wait",
              "closeLease", "closeJSONL", "closeBWJ", "returned"}
HandlerSteps == {"start", "open", "handshake", "check", "read", "journalIn", "respond",
                 "journalOut", "end", "rawClose", "unregister",
                 "freeService", "freeGlobal", "done"}
Causes == {"none", "CAPTURE_LOST", "EVIDENCE_STORAGE_LOW", "BWJ_WRITE_FAILED",
           "INTERNAL_FATAL"}

TypeOK ==
  /\ main \in MainSteps
  /\ todo \subseteq Services
  /\ snapshot \subseteq Conns
  /\ cancelled \in BOOLEAN
  /\ terminal \in Causes
  /\ result \in Causes \cup {"nil", "startup"}
  /\ listener \in [Services -> {"none", "open", "closed"}]
  /\ lease \in {"none", "held", "broken", "closed"}
  /\ bwj \in {"none", "open", "closed"} /\ bwjFailed \in BOOLEAN
  /\ jsonl \in {"none", "open", "closed"}
  /\ fatalOnce \in BOOLEAN /\ fatalCh \in Causes
  /\ active \subseteq Conns
  /\ wg \in Int
  /\ globalSlots \in 0..MaxTotal
  /\ serviceSlots \in [Services -> 0..MaxPerService]
  /\ loop \in [Services -> {"none", "accept", "admit", "admitService", "error", "done"}]
  /\ inHand \in [Services -> Conns \cup {NoConn}]
  /\ pc \in [Conns -> {"away", "queued", "accepted", "rejected"} \cup HandlerSteps]
  /\ rounds \in [Conns -> 0..MaxRounds]
  /\ rawClosed \subseteq Conns
  /\ opened \subseteq Conns /\ ended \subseteq Conns
  /\ stop \in BOOLEAN

Init ==
  /\ main = "bwj"
  /\ todo = {} /\ snapshot = {}
  /\ cancelled = FALSE /\ terminal = "none" /\ result = "none"
  /\ listener = [s \in Services |-> "none"]
  /\ lease = "none"
  /\ bwj = "none" /\ bwjFailed = FALSE /\ jsonl = "none"
  /\ fatalOnce = FALSE /\ fatalCh = "none"
  /\ active = {}
  /\ wg = 0
  /\ globalSlots = 0 /\ serviceSlots = [s \in Services |-> 0]
  /\ loop = [s \in Services |-> "none"] /\ inHand = [s \in Services |-> NoConn]
  /\ pc = [c \in Conns |-> "away"] /\ rounds = [c \in Conns |-> 0]
  /\ rawClosed = {}
  /\ opened = {} /\ ended = {}
  /\ stop = FALSE

(* runCtx is done when its parent is, or when Run cancels it. *)
CtxDone == stop \/ cancelled

(* rt.fail: only the first error ever is sent. *)
Fail(cause) ==
  /\ fatalOnce' = TRUE
  /\ fatalCh' = IF fatalOnce THEN fatalCh ELSE cause

-----------------------------------------------------------------------------
(* Run, up to the select loop.  Every early return gives back what was     *)
(* taken before it.                                                        *)

startupUnchanged == <<snapshot, cancelled, terminal, fatal, active, slots, inHand,
                      handlers, journal, stop>>

OpenBWJ ==
  /\ main = "bwj"
  /\ main' = "jsonl" /\ bwj' = "open"
  /\ UNCHANGED <<todo, result, listener, lease, bwjFailed, jsonl, wg, loop, startupUnchanged>>

OpenJSONL ==
  /\ main = "jsonl"
  /\ main' = "startup" /\ jsonl' = "open"
  /\ UNCHANGED <<todo, result, listener, lease, bwj, bwjFailed, wg, loop, startupUnchanged>>

WriteStartupEvent ==
  /\ main = "startup"
  /\ main' = "lease"
  /\ UNCHANGED <<todo, result, listener, lease, sinks, wg, loop, startupUnchanged>>

(* The capture service answered READY with the same configuration digest. *)
AcquireLease ==
  /\ main = "lease"
  /\ main' = "bind" /\ lease' = "held" /\ todo' = Services
  /\ UNCHANGED <<result, listener, sinks, wg, loop, startupUnchanged>>

BindOne ==
  /\ main = "bind"
  /\ \E s \in todo :
       /\ todo' = todo \ {s}
       /\ listener' = [listener EXCEPT ![s] = "open"]
  /\ UNCHANGED <<main, result, lease, sinks, wg, loop, startupUnchanged>>

BindDone ==
  /\ main = "bind" /\ todo = {}
  /\ main' = "spawn" /\ todo' = Services
  /\ UNCHANGED <<result, listener, lease, sinks, wg, loop, startupUnchanged>>

(* Mutant: the listeners bound before the failure stay open. *)
RollbackNothing == listener

Rollback == [s \in Services |-> IF listener[s] = "open" THEN "closed" ELSE listener[s]]

(* A step of the start fails: Run closes what it has and returns. *)
StartupFails ==
  /\ main \in {"bwj", "jsonl", "startup", "lease"} \/ (main = "bind" /\ todo # {})
  /\ main' = "returned" /\ result' = "startup"
  /\ listener' = Rollback
  /\ lease' = IF lease = "none" THEN "none" ELSE "closed"
  /\ bwj' = IF bwj = "open" THEN "closed" ELSE bwj
  /\ jsonl' = IF jsonl = "open" THEN "closed" ELSE jsonl
  /\ UNCHANGED <<todo, bwjFailed, wg, loop, startupUnchanged>>

(* wg.Add(1); go acceptLoop *)
SpawnOne ==
  /\ main = "spawn"
  /\ \E s \in todo :
       /\ todo' = todo \ {s}
       /\ loop' = [loop EXCEPT ![s] = "accept"]
  /\ wg' = wg + 1
  /\ UNCHANGED <<main, result, listener, lease, sinks, snapshot, cancelled, terminal, fatal,
                 active, slots, inHand, handlers, journal, stop>>

SpawnDone ==
  /\ main = "spawn" /\ todo = {}
  /\ main' = "select"
  /\ UNCHANGED <<todo, result, listener, lease, sinks, wg, loop, startupUnchanged>>

-----------------------------------------------------------------------------
(* The select loop: any branch that is ready may be taken. *)

othersUnchanged == <<lease, sinks, active, wg, slots, loops, handlers, journal, stop>>

LeaveSelect(cause) ==
  /\ main = "select"
  /\ main' = "closeListeners"
  /\ todo' = Services
  /\ terminal' = cause
  /\ UNCHANGED <<snapshot, cancelled, result, listener, othersUnchanged>>

SelectStop ==
  /\ stop
  /\ LeaveSelect("none")
  /\ UNCHANGED fatal

(* Mutant: a lost lease is noticed only when the process stops anyway. *)
LeaseLostAtStop == lease = "broken" /\ stop

LeaseLost == lease = "broken"

(* The lease is lost: an error, unless the process is stopping anyway. *)
SelectLost ==
  /\ LeaseLost
  /\ LeaveSelect(IF stop THEN "none" ELSE "CAPTURE_LOST")
  /\ UNCHANGED fatal

SelectFatal ==
  /\ fatalCh # "none"
  /\ LeaveSelect(fatalCh)
  /\ fatalCh' = "none"
  /\ UNCHANGED fatalOnce

(* The ticker found too few free bytes, or could not tell. *)
SelectStorage ==
  /\ LeaveSelect("EVIDENCE_STORAGE_LOW")
  /\ UNCHANGED fatal

-----------------------------------------------------------------------------
(* The shutdown: listeners, then the context, then the live connections,   *)
(* and only when every goroutine is gone the lease and the two writers.    *)

CloseOneListener ==
  /\ main = "closeListeners"
  /\ \E s \in todo :
       /\ todo' = todo \ {s}
       /\ listener' = [listener EXCEPT ![s] = "closed"]
  /\ UNCHANGED <<main, snapshot, cancelled, terminal, result, fatal, othersUnchanged>>

CloseListenersDone ==
  /\ main = "closeListeners" /\ todo = {}
  /\ main' = "cancel"
  /\ UNCHANGED <<todo, snapshot, cancelled, terminal, result, listener, fatal, othersUnchanged>>

(* Mutant: the context of the handlers is not cancelled here. *)
CancelForgotten ==
  /\ main = "cancel"
  /\ main' = "scan"
  /\ UNCHANGED <<todo, snapshot, cancelled, terminal, result, listener, fatal, othersUnchanged>>

Cancel ==
  /\ main = "cancel"
  /\ main' = "scan"
  /\ cancelled' = TRUE
  /\ UNCHANGED <<todo, snapshot, terminal, result, listener, fatal, othersUnchanged>>

(* Mutant: no connection is closed. *)
ScanNothing ==
  /\ main = "scan"
  /\ main' = "closeActive"
  /\ UNCHANGED <<todo, snapshot, cancelled, terminal, result, listener, fatal, othersUnchanged>>

(* closeActiveConnections copies rt.active under its mutex ... *)
Scan ==
  /\ main = "scan"
  /\ main' = "closeActive"
  /\ snapshot' = active
  /\ UNCHANGED <<todo, cancelled, terminal, result, listener, fatal, othersUnchanged>>

(* ... and closes the copies without it. *)
CloseOneActive ==
  /\ main = "closeActive"
  /\ \E c \in snapshot :
       /\ snapshot' = snapshot \ {c}
       /\ rawClosed' = rawClosed \cup {c}
  /\ UNCHANGED <<main, todo, cancelled, terminal, result, listener, fatal, lease, sinks,
                 active, wg, slots, loops, pc, rounds, journal, stop>>

CloseActiveDone ==
  /\ main = "closeActive" /\ snapshot = {}
  /\ main' = "wait"
  /\ UNCHANGED <<todo, snapshot, cancelled, terminal, result, listener, fatal, othersUnchanged>>

(* Mutant: Run does not wait for the handlers. *)
DrainedAlways == TRUE

Drained == wg = 0

Wait ==
  /\ main = "wait"
  /\ Drained
  /\ main' = "closeLease"
  /\ UNCHANGED <<todo, snapshot, cancelled, terminal, result, listener, fatal, othersUnchanged>>

CloseLease ==
  /\ main = "closeLease"
  /\ main' = "closeJSONL"
  /\ lease' = "closed"
  /\ UNCHANGED <<todo, snapshot, cancelled, terminal, result, listener, fatal, sinks,
                 active, wg, slots, loops, handlers, journal, stop>>

(* The operational_error event, when there is a terminal error, and Close; *)
(* an error of Close is only logged.                                       *)
CloseJSONL ==
  /\ main = "closeJSONL"
  /\ main' = "closeBWJ"
  /\ jsonl' = "closed"
  /\ UNCHANGED <<todo, snapshot, cancelled, terminal, result, listener, fatal, lease, bwj,
                 bwjFailed, active, wg, slots, loops, handlers, journal, stop>>

(* Mutant: the error of bwj.Close is ignored. *)
OutcomeOfTerminal(closeFailed) == IF terminal # "none" THEN terminal ELSE "nil"

Outcome(closeFailed) ==
  IF terminal # "none" THEN terminal
  ELSE IF closeFailed THEN "BWJ_WRITE_FAILED" ELSE "nil"

(* bwj.Close returns the failure remembered, or one of its own. *)
CloseBWJ ==
  /\ main = "closeBWJ"
  /\ main' = "returned"
  /\ bwj' = "closed"
  /\ bwjFailed' \in {bwjFailed, TRUE}
  /\ result' = Outcome(bwjFailed')
  /\ UNCHANGED <<todo, snapshot, cancelled, terminal, listener, fatal, lease, jsonl,
                 active, wg, slots, loops, handlers, journal, stop>>

Startup == OpenBWJ \/ OpenJSONL \/ WriteStartupEvent \/ AcquireLease \/ BindOne \/ BindDone
           \/ StartupFails \/ SpawnOne \/ SpawnDone
Select == SelectStop \/ SelectLost \/ SelectFatal
Shutdown == CloseOneListener \/ CloseListenersDone \/ Cancel \/ Scan \/ CloseOneActive
            \/ CloseActiveDone \/ Wait \/ CloseLease \/ CloseJSONL \/ CloseBWJ

-----------------------------------------------------------------------------
(* acceptLoop *)

envUnchanged == <<runVars, listener, lease, sinks, stop>>

Accept(s) ==
  /\ loop[s] = "accept"
  /\ listener[s] = "open"
  /\ \E c \in Conns :
       /\ pc[c] = "queued" /\ Home[c] = s
       /\ pc' = [pc EXCEPT ![c] = "accepted"]
       /\ inHand' = [inHand EXCEPT ![s] = c]
  /\ loop' = [loop EXCEPT ![s] = "admit"]
  /\ UNCHANGED <<envUnchanged, fatal, active, wg, slots, rounds, rawClosed, journal>>

(* Accept returns an error: the listener is closed, or a real error. *)
AcceptError(s) ==
  /\ loop[s] = "accept"
  /\ loop' = [loop EXCEPT ![s] = "error"]
  /\ UNCHANGED <<envUnchanged, fatal, active, wg, slots, inHand, handlers, journal>>

(* Run closes the listeners before it cancels the context, so the error of *)
(* its own Close may be taken for a failure here.                          *)
EndLoop(s) ==
  /\ loop[s] = "error"
  /\ loop' = [loop EXCEPT ![s] = "done"]
  /\ wg' = wg - 1
  /\ IF CtxDone THEN UNCHANGED fatal ELSE Fail("INTERNAL_FATAL")
  /\ UNCHANGED <<envUnchanged, active, slots, inHand, handlers, journal>>

(* conn.Close of a connection there is no slot for. *)
Reject(s) ==
  /\ pc' = [pc EXCEPT ![inHand[s]] = "rejected"]
  /\ rawClosed' = rawClosed \cup {inHand[s]}
  /\ inHand' = [inHand EXCEPT ![s] = NoConn]
  /\ loop' = [loop EXCEPT ![s] = "accept"]

GlobalSlotFree == globalSlots < MaxTotal

(* The first select of tryAcquireConnectionSlots. *)
TakeGlobalSlot(s) ==
  /\ loop[s] = "admit"
  /\ IF GlobalSlotFree
       THEN /\ globalSlots' = globalSlots + 1
            /\ loop' = [loop EXCEPT ![s] = "admitService"]
            /\ UNCHANGED <<inHand, pc, rawClosed>>
       ELSE /\ Reject(s)
            /\ UNCHANGED globalSlots
  /\ UNCHANGED <<envUnchanged, fatal, active, wg, serviceSlots, rounds, journal>>

(* Mutants: the global slot is not given back; wg.Add is left to the       *)
(* handler's own goroutine.                                                *)
KeepGlobalSlot == UNCHANGED globalSlots
AddLater == UNCHANGED wg

ReturnGlobalSlot == globalSlots' = globalSlots - 1
AddHandler == wg' = wg + 1

(* The second select, then wg.Add(1) and go handleConnection. *)
TakeServiceSlot(s) ==
  /\ loop[s] = "admitService"
  /\ IF serviceSlots[s] < MaxPerService
       THEN /\ serviceSlots' = [serviceSlots EXCEPT ![s] = @ + 1]
            /\ AddHandler
            /\ pc' = [pc EXCEPT ![inHand[s]] = "start"]
            /\ inHand' = [inHand EXCEPT ![s] = NoConn]
            /\ loop' = [loop EXCEPT ![s] = "accept"]
            /\ UNCHANGED <<globalSlots, rawClosed>>
       ELSE /\ Reject(s)
            /\ ReturnGlobalSlot
            /\ UNCHANGED <<serviceSlots, wg>>
  /\ UNCHANGED <<envUnchanged, fatal, active, rounds, journal>>

-----------------------------------------------------------------------------
(* handleConnection *)

Goto(c, step) == pc' = [pc EXCEPT ![c] = step]

(* A write through the BWJ writer returns nil, or fails: for good if the   *)
(* journal is open, and always once it is closed.                          *)
JournalOK == bwj = "open" /\ ~bwjFailed /\ UNCHANGED bwjFailed
JournalError ==
  /\ bwjFailed' = (bwjFailed \/ bwj = "open")
  /\ Fail("BWJ_WRITE_FAILED")

handlerUnchanged == <<runVars, listener, lease, bwj, jsonl, stop, loops>>

Register(c) ==
  /\ pc[c] = "start"
  /\ active' = active \cup {c}
  /\ Goto(c, "open")
  /\ UNCHANGED <<handlerUnchanged, bwjFailed, fatal, wg, slots, rounds, rawClosed, journal>>

(* NewID failed: neither registered nor journaled. *)
NoConnectionID(c) ==
  /\ pc[c] = "start"
  /\ Fail("INTERNAL_FATAL")
  /\ rawClosed' = rawClosed \cup {c}
  /\ Goto(c, "freeService")
  /\ UNCHANGED <<handlerUnchanged, bwjFailed, active, wg, slots, rounds, journal>>

WriteConnectionOpen(c) ==
  /\ pc[c] = "open"
  /\ \/ /\ JournalOK
        /\ opened' = opened \cup {c}
        /\ Goto(c, IF Home[c] \in TLSServices THEN "handshake" ELSE "check")
        /\ UNCHANGED fatal
     \/ /\ JournalError
        /\ Goto(c, "end")
        /\ UNCHANGED opened
  /\ UNCHANGED <<handlerUnchanged, active, wg, slots, rounds, rawClosed, ended>>

localOnly == <<handlerUnchanged, bwjFailed, fatal, active, wg, slots, rawClosed, journal>>

Handshaken(c) ==
  /\ pc[c] = "handshake" /\ c \notin rawClosed
  /\ Goto(c, "check")
  /\ UNCHANGED <<localOnly, rounds>>

(* The top of the request loop looks at the context once. *)
CheckContext(c) ==
  /\ pc[c] = "check"
  /\ Goto(c, IF CtxDone THEN "end" ELSE "read")
  /\ UNCHANGED <<localOnly, rounds>>

ReadData(c) ==
  /\ pc[c] = "read" /\ c \notin rawClosed /\ rounds[c] < MaxRounds
  /\ Goto(c, "journalIn")
  /\ UNCHANGED <<localOnly, rounds>>

(* Mutant: one return path is not covered by the deferred close. *)
LeaveBlockedQuietly(c) ==
  /\ pc[c] \in {"handshake", "read", "respond"}
  /\ Goto(c, "rawClose")
  /\ UNCHANGED <<localOnly, rounds>>

(* The handler leaves a blocking call with an error: the peer is gone, a   *)
(* deadline passed, a limit was met, or the connection was closed under it.*)
LeaveBlocked(c) ==
  /\ pc[c] \in {"handshake", "read", "respond"}
  /\ Goto(c, "end")
  /\ UNCHANGED <<localOnly, rounds>>

(* recordingReader.Read journals what it read before it delivers it. *)
JournalInbound(c) ==
  /\ pc[c] = "journalIn"
  /\ \/ /\ JournalOK
        /\ Goto(c, "respond")
        /\ UNCHANGED fatal
     \/ /\ JournalError
        /\ Goto(c, "end")
  /\ UNCHANGED <<handlerUnchanged, active, wg, slots, rounds, rawClosed, journal>>

SendResponse(c) ==
  /\ pc[c] = "respond" /\ c \notin rawClosed
  /\ Goto(c, "journalOut")
  /\ UNCHANGED <<localOnly, rounds>>

(* exchangeWriter.Write journals what was sent, and the exchange is over:   *)
(* the next request, or the end of the connection.                          *)
JournalOutbound(c) ==
  /\ pc[c] = "journalOut"
  /\ \/ /\ JournalOK
        /\ pc' \in {[pc EXCEPT ![c] = "check"], [pc EXCEPT ![c] = "end"]}
        /\ rounds' = [rounds EXCEPT ![c] = @ + 1]
        /\ UNCHANGED fatal
     \/ /\ JournalError
        /\ Goto(c, "end")
        /\ UNCHANGED rounds
  /\ UNCHANGED <<handlerUnchanged, active, wg, slots, rawClosed, journal>>

(* The deferred calls, last first: the close record and event, ... *)
WriteConnectionClose(c) ==
  /\ pc[c] = "end"
  /\ Goto(c, "rawClose")
  /\ \/ /\ JournalOK
        /\ ended' = ended \cup {c}
        /\ UNCHANGED fatal
     \/ /\ JournalError
        /\ UNCHANGED ended
  /\ UNCHANGED <<handlerUnchanged, active, wg, slots, rounds, rawClosed, opened>>

(* ... raw.Close, ... *)
CloseRaw(c) ==
  /\ pc[c] = "rawClose"
  /\ rawClosed' = rawClosed \cup {c}
  /\ Goto(c, "unregister")
  /\ UNCHANGED <<handlerUnchanged, bwjFailed, fatal, active, wg, slots, rounds, journal>>

Unregister(c) ==
  /\ pc[c] = "unregister"
  /\ active' = active \ {c}
  /\ Goto(c, "freeService")
  /\ UNCHANGED <<handlerUnchanged, bwjFailed, fatal, wg, slots, rounds, rawClosed, journal>>

(* ... and those of the goroutine: both slots, then wg.Done. *)
FreeServiceSlot(c) ==
  /\ pc[c] = "freeService"
  /\ serviceSlots' = [serviceSlots EXCEPT ![Home[c]] = @ - 1]
  /\ Goto(c, "freeGlobal")
  /\ UNCHANGED <<handlerUnchanged, bwjFailed, fatal, active, wg, globalSlots, rounds,
                 rawClosed, journal>>

FreeGlobalSlot(c) ==
  /\ pc[c] = "freeGlobal"
  /\ globalSlots' = globalSlots - 1
  /\ wg' = wg - 1
  /\ Goto(c, "done")
  /\ UNCHANGED <<handlerUnchanged, bwjFailed, fatal, active, serviceSlots, rounds,
                 rawClosed, journal>>

-----------------------------------------------------------------------------
(* The environment. *)

worldUnchanged == <<runVars, listener, sinks, fatal, active, wg, slots, loops, rounds,
                    rawClosed, journal>>

Dial(c) ==
  /\ pc[c] = "away"
  /\ listener[Home[c]] = "open"
  /\ Goto(c, "queued")
  /\ UNCHANGED <<worldUnchanged, lease, stop>>

(* The capture service closed the lease's connection; watch saw it. *)
LeaseBreaks ==
  /\ lease = "held"
  /\ lease' = "broken"
  /\ UNCHANGED <<worldUnchanged, pc, stop>>

OperatorStops ==
  /\ ~stop
  /\ main # "returned"
  /\ stop' = TRUE
  /\ UNCHANGED <<worldUnchanged, pc, lease>>

Finished ==
  /\ main = "returned"
  /\ UNCHANGED vars

LoopStep(s) == Accept(s) \/ AcceptError(s) \/ EndLoop(s) \/ TakeGlobalSlot(s) \/ TakeServiceSlot(s)

HandlerStep(c) ==
  \/ Register(c) \/ NoConnectionID(c) \/ WriteConnectionOpen(c) \/ CheckContext(c)
  \/ JournalInbound(c) \/ JournalOutbound(c) \/ WriteConnectionClose(c) \/ CloseRaw(c)
  \/ Unregister(c) \/ FreeServiceSlot(c) \/ FreeGlobalSlot(c)

ClientStep(c) == Dial(c) \/ Handshaken(c) \/ ReadData(c) \/ SendResponse(c)

Next ==
  \/ Startup \/ Select \/ SelectStorage \/ Shutdown
  \/ \E s \in Services : LoopStep(s)
  \/ \E c \in Conns : HandlerStep(c) \/ ClientStep(c) \/ LeaveBlocked(c)
  \/ LeaseBreaks \/ OperatorStops
  \/ Finished

(* Goroutines run, and a call on a closed socket returns.  Nothing is      *)
(* assumed of clients, of deadlines, of the capture service or of the      *)
(* operator: a handler blocked on an open socket may stay there, except    *)
(* that a TLS handshake also ends with the context.                        *)
Interrupted(c) == c \in rawClosed \/ (pc[c] = "handshake" /\ CtxDone)

Fairness ==
  /\ WF_vars(Startup) /\ WF_vars(Select) /\ WF_vars(Shutdown)
  /\ \A s \in Services :
       /\ WF_vars(EndLoop(s) \/ TakeGlobalSlot(s) \/ TakeServiceSlot(s))
       /\ WF_vars(listener[s] = "closed" /\ AcceptError(s))
  /\ \A c \in Conns : WF_vars(HandlerStep(c)) /\ WF_vars(Interrupted(c) /\ LeaveBlocked(c))

Spec == Init /\ [][Next]_vars /\ Fairness

-----------------------------------------------------------------------------
(***************************************************************************)
(* Properties.                                                             *)
(***************************************************************************)
Live(c) == pc[c] \in HandlerSteps \ {"done"}

(* Every slot taken is held by exactly one connection: a handler that has  *)
(* not given it back yet, or one an accept loop has in hand between the    *)
(* two acquisitions; a rejected connection keeps none.                     *)
SlotsAccounted ==
  /\ globalSlots = Cardinality({c \in Conns : Live(c)})
                   + Cardinality({s \in Services : loop[s] = "admitService"})
  /\ \A s \in Services :
       serviceSlots[s] =
         Cardinality({c \in Conns : Home[c] = s /\ Live(c) /\ pc[c] # "freeGlobal"})

(* The WaitGroup counts the goroutines, so that Wait cannot return early   *)
(* even when an accept loop adds a handler while Run is already waiting:   *)
(* once Run is past it, no goroutine is left that could write an event or  *)
(* a record, and nothing is registered.                                    *)
QuietAfterWait ==
  main \in {"closeLease", "closeJSONL", "closeBWJ"} \/ (main = "returned" /\ bwj = "closed") =>
    /\ \A c \in Conns : ~Live(c)
    /\ \A s \in Services : loop[s] \in {"none", "done"}
    /\ active = {}
    /\ globalSlots = 0

(* A listener is open only under a lease that was acquired, with both      *)
(* writers open; a connection is handled only then or in the shutdown.     *)
ServesUnderLease ==
  /\ \A s \in Services :
       listener[s] = "open" => lease \in {"held", "broken"} /\ bwj = "open" /\ jsonl = "open"
  /\ \A c \in Conns : Live(c) => lease \in {"held", "broken"} /\ bwj = "open"

(* When Run returns, whatever it met on the way, it left nothing behind.   *)
LeavesNothingOpen ==
  main = "returned" =>
    /\ \A s \in Services : listener[s] # "open"
    /\ lease \in {"none", "closed"} /\ bwj # "open" /\ jsonl # "open"

(* Once closeActiveConnections is over, a handler that is blocked on its   *)
(* socket finds it closed, also one that registered after the copy of      *)
(* rt.active was taken: it saw the context cancelled before it blocked.    *)
NoHandlerMissed ==
  main \in {"wait", "closeLease", "closeJSONL", "closeBWJ", "returned"} =>
    \A c \in Conns : pc[c] \in {"handshake", "read", "respond"} => Interrupted(c)

(* Unless the journal failed, it holds a close record for every open one   *)
(* when Run returns, and for no other connection.                          *)
OpenRecordsAreClosed ==
  /\ ended \subseteq opened
  /\ main = "returned" /\ ~bwjFailed => opened = ended

(* Run returns nil only to an operator who asked it to stop, and never     *)
(* after the raw journal failed, even when the failure and the request     *)
(* came together and select took the request ("serve must exit non-zero    *)
(* after raw BWJ storage failure", tests/integration_test.go).             *)
NilMeansIntact == result = "nil" => stop /\ ~bwjFailed

(* Losing the capture, or a fatal error, closes every listener.            *)
LossClosesListeners ==
  (lease = "broken" \/ fatalCh # "none") ~> \A s \in Services : listener[s] # "open"

(* A stop ends the process, without the help of clients or of deadlines.   *)
StopEnds == stop ~> main = "returned"
=============================================================================
