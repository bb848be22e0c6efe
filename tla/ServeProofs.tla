---------------------------- MODULE ServeProofs ----------------------------
(***************************************************************************)
(* Theorems about Serve, for any finite sets of services and connections   *)
(* and every value of the limits.                                          *)
(***************************************************************************)
EXTENDS Serve, FiniteSetTheorems, TLAPS

Starting == {"bwj", "jsonl", "startup", "lease", "bind"}
Closing == {"closeListeners", "cancel", "scan", "closeActive", "wait"}
Serving == {"spawn", "select"} \cup Closing
Ending == {"closeLease", "closeJSONL", "closeBWJ", "returned"}

Unopened == {"away", "queued", "accepted", "rejected", "start", "open"}
InLoop == {"handshake", "check", "read", "journalIn", "respond", "journalOut"}
Registered == {"open", "end", "rawClose", "unregister"} \cup InLoop

LiveConns == {c \in Conns : Live(c)}
HeldBy(s) == {c \in Conns : Home[c] = s /\ Live(c) /\ pc[c] # "freeGlobal"}
Admitting == {s \in Services : loop[s] = "admitService"}
Looping == {s \in Services : loop[s] \notin {"none", "done"}}

(* The WaitGroup counts the goroutines.                                    *)
GoroutinesCounted == wg = Cardinality(LiveConns) + Cardinality(Looping)

(* What an accept loop has in hand nobody else has.                        *)
HandsFull ==
  \A s \in Services : loop[s] \in {"admit", "admitService"} =>
    inHand[s] \in Conns /\ Home[inHand[s]] = s /\ pc[inHand[s]] = "accepted"

(* Goroutines run only between the first go statement and Wait.            *)
Phases ==
  /\ main \in Starting =>
       /\ \A s \in Services : loop[s] = "none"
       /\ \A c \in Conns : pc[c] \in {"away", "queued"}
       /\ opened = {} /\ ended = {}
  /\ main = "spawn" => \A s \in todo : loop[s] = "none"
  /\ main \in Ending =>
       /\ \A s \in Services : loop[s] \in {"none", "done"}
       /\ \A c \in Conns : ~Live(c)

(* What Run holds at each of its steps.                                    *)
Sinks ==
  /\ main \in MainSteps \ {"bwj", "returned"} => bwj = "open"
  /\ main \in MainSteps \ {"bwj", "jsonl", "closeBWJ", "returned"} => jsonl = "open"
  /\ main \in {"bind", "closeLease"} \cup Serving => lease \in {"held", "broken"}
  /\ main \in Starting \ {"bind"} => lease = "none"
  /\ main \in {"bwj", "jsonl"} => jsonl = "none"
  /\ main \in {"closeJSONL", "closeBWJ"} => lease = "closed"
  /\ main = "closeBWJ" => jsonl = "closed"
  /\ main = "returned" => lease \in {"none", "closed"} /\ bwj # "open" /\ jsonl # "open"

Listeners ==
  /\ main \notin {"bind", "spawn", "select", "closeListeners"} =>
       \A s \in Services : listener[s] # "open"
  /\ main = "closeListeners" => \A s \in Services : listener[s] = "open" => s \in todo

Outcomes ==
  /\ main \in Closing \cup {"closeLease", "closeJSONL", "closeBWJ"} /\ terminal = "none" => stop
  /\ main # "returned" => result = "none"
  /\ NilMeansIntact

(* A connection is opened in the journal, then closed in it or left to a   *)
(* journal that failed.                                                    *)
Records ==
  /\ ended \subseteq opened
  /\ \A c \in Conns :
       /\ pc[c] \in Unopened => c \notin opened
       /\ pc[c] \in InLoop => c \in opened
       /\ pc[c] = "end" /\ c \notin opened => bwjFailed
       /\ c \in opened \ ended /\ ~bwjFailed => pc[c] \in InLoop \cup {"end"}

(* A handler that passed its look at the context before it was cancelled   *)
(* was registered before Run looked at who is.                             *)
Interruptions ==
  /\ active = {c \in Conns : pc[c] \in Registered}
  /\ main \in {"scan", "closeActive", "wait"} => cancelled
  /\ main # "closeActive" => snapshot = {}
  /\ main \in {"closeActive", "wait"} =>
       \A c \in Conns : pc[c] \in {"read", "journalIn", "respond"} => c \in rawClosed \cup snapshot

(* A request is begun only while the bound allows one more.                *)
RoundsLeft == \A c \in Conns : pc[c] \in {"journalIn", "respond", "journalOut"} => rounds[c] < MaxRounds

IInv ==
  /\ TypeOK /\ SlotsAccounted /\ GoroutinesCounted /\ HandsFull /\ RoundsLeft
  /\ Phases /\ Sinks /\ Listeners /\ Outcomes /\ Records /\ Interruptions

USE DEF runVars, sinks, fatal, slots, loops, handlers, journal, startupUnchanged,
        othersUnchanged, envUnchanged, handlerUnchanged, localOnly, worldUnchanged

-----------------------------------------------------------------------------
(* Types.                                                                  *)

LEMMA CountsFinite ==
  /\ IsFiniteSet(LiveConns) /\ IsFiniteSet(Admitting) /\ IsFiniteSet(Looping)
  /\ \A s \in Services : IsFiniteSet(HeldBy(s))
<1>1. LiveConns \subseteq Conns /\ \A s \in Services : HeldBy(s) \subseteq Conns
  BY DEF LiveConns, HeldBy
<1>2. Admitting \subseteq Services /\ Looping \subseteq Services
  BY DEF Admitting, Looping
<1>. QED
  BY <1>1, <1>2, FS_Subset, ServicesAssumption

(* A set with a member counts at least one.                                *)
LEMMA CountPositive ==
  ASSUME NEW S, IsFiniteSet(S), NEW x \in S
  PROVE  Cardinality(S) \in Nat \ {0}
BY FS_EmptySet, FS_CardinalityType

LEMMA TypeStep ==
  ASSUME IInv, Next
  PROVE  TypeOK'
<1>. USE LimitsAssumption, ServicesAssumption DEF IInv, TypeOK, MainSteps, HandlerSteps, Causes
<1>1. CASE Startup
  BY <1>1 DEF Startup, OpenBWJ, OpenJSONL, WriteStartupEvent, AcquireLease, BindOne, BindDone,
     StartupFails, Rollback, SpawnOne, SpawnDone
<1>2. CASE Select \/ SelectStorage
  BY <1>2 DEF Select, SelectStorage, SelectStop, SelectLost, SelectFatal, LeaveSelect
<1>3. CASE Shutdown
  <2>1. CASE CloseBWJ
    <3>1. bwjFailed' \in BOOLEAN /\ result' \in Causes \cup {"nil"}
      BY <2>1 DEF CloseBWJ, Outcome
    <3>. QED
      BY <2>1, <3>1 DEF CloseBWJ
  <2>2. CASE CloseOneListener \/ CloseListenersDone
    BY <2>2 DEF CloseOneListener, CloseListenersDone
  <2>3. CASE Cancel
    <3>1. cancelled' \in BOOLEAN
      BY <2>3 DEF Cancel
    <3>. QED
      BY <2>3, <3>1 DEF Cancel
  <2>6. CASE Scan
    BY <2>6 DEF Scan
  <2>4. CASE CloseOneActive \/ CloseActiveDone
    BY <2>4 DEF CloseOneActive, CloseActiveDone
  <2>5. CASE Wait \/ CloseLease \/ CloseJSONL
    BY <2>5 DEF Wait, CloseLease, CloseJSONL
  <2>. QED
    BY <1>3, <2>1, <2>2, <2>3, <2>4, <2>5, <2>6 DEF Shutdown
<1>4. ASSUME NEW s \in Services, Accept(s)
      PROVE  TypeOK'
  <2>1. PICK c \in Conns :
          /\ pc' = [pc EXCEPT ![c] = "accepted"]
          /\ inHand' = [inHand EXCEPT ![s] = c]
    BY <1>4 DEF Accept
  <2>. QED
    BY <1>4, <2>1 DEF Accept
<1>4a. ASSUME NEW s \in Services, AcceptError(s)
      PROVE  TypeOK'
  BY <1>4a DEF AcceptError
<1>5. ASSUME NEW s \in Services, EndLoop(s)
      PROVE  TypeOK'
  <2>1. fatalOnce' \in BOOLEAN /\ fatalCh' \in Causes
    BY <1>5 DEF EndLoop, Fail
  <2>. QED
    BY <1>5, <2>1 DEF EndLoop
<1>6. ASSUME NEW s \in Services, TakeGlobalSlot(s)
      PROVE  TypeOK'
  BY <1>6 DEF TakeGlobalSlot, GlobalSlotFree, Reject, HandsFull
<1>7. ASSUME NEW s \in Services, TakeServiceSlot(s)
      PROVE  TypeOK'
  <2>1. globalSlots # 0
    <3>1. s \in Admitting
      BY <1>7 DEF TakeServiceSlot, Admitting
    <3>2. globalSlots = Cardinality(LiveConns) + Cardinality(Admitting)
      BY DEF SlotsAccounted, LiveConns, Admitting
    <3>3. Cardinality(LiveConns) \in Nat /\ Cardinality(Admitting) \in Nat \ {0}
      BY <3>1, CountsFinite, CountPositive, FS_CardinalityType
    <3>. QED
      BY <3>2, <3>3
  <2>. QED
    BY <1>7, <2>1 DEF TakeServiceSlot, Reject, AddHandler, ReturnGlobalSlot, HandsFull
<1>8. ASSUME NEW c \in Conns,
             Register(c) \/ CheckContext(c) \/ CloseRaw(c) \/ Unregister(c)
      PROVE  TypeOK'
  BY <1>8 DEF Register, CheckContext, CloseRaw, Unregister, Goto
<1>8a. ASSUME NEW c \in Conns, NoConnectionID(c)
      PROVE  TypeOK'
  BY <1>8a DEF NoConnectionID, Goto, Fail
<1>8b. ASSUME NEW c \in Conns,
              WriteConnectionOpen(c) \/ JournalInbound(c) \/ JournalOutbound(c) \/ WriteConnectionClose(c)
       PROVE  TypeOK'
  <2>1. CASE JournalOK /\ UNCHANGED fatal
    <3>1. rounds' \in [Conns -> 0..MaxRounds]
      BY <1>8b DEF RoundsLeft, WriteConnectionOpen, JournalInbound, JournalOutbound, WriteConnectionClose
    <3>. QED
      BY <1>8b, <2>1, <3>1 DEF WriteConnectionOpen, JournalInbound, JournalOutbound,
         WriteConnectionClose, JournalOK, Goto
  <2>2. CASE JournalError
    <3>1. bwjFailed' \in BOOLEAN
      BY <2>2 DEF JournalError
    <3>2. fatalOnce' \in BOOLEAN /\ fatalCh' \in Causes
      BY <2>2 DEF JournalError, Fail
    <3>3. rounds' \in [Conns -> 0..MaxRounds]
      BY <1>8b DEF RoundsLeft, WriteConnectionOpen, JournalInbound, JournalOutbound, WriteConnectionClose
    <3>. QED
      BY <1>8b, <3>1, <3>2, <3>3 DEF WriteConnectionOpen, JournalInbound, JournalOutbound,
         WriteConnectionClose, Goto
  <2>. QED
    BY <1>8b, <2>1, <2>2 DEF WriteConnectionOpen, JournalInbound, JournalOutbound,
       WriteConnectionClose
<1>8c. ASSUME NEW c \in Conns, FreeServiceSlot(c)
      PROVE  TypeOK'
  <2>1. serviceSlots[Home[c]] # 0
    <3>1. c \in HeldBy(Home[c]) /\ Home[c] \in Services
      BY <1>8c DEF FreeServiceSlot, HeldBy, Live
    <3>2. serviceSlots[Home[c]] = Cardinality(HeldBy(Home[c]))
      BY <3>1 DEF SlotsAccounted, HeldBy
    <3>. QED
      BY <3>1, <3>2, CountsFinite, CountPositive
  <2>2. serviceSlots' \in [Services -> 0..MaxPerService]
    BY <1>8c, <2>1 DEF FreeServiceSlot
  <2>3. pc' \in [Conns -> {"away", "queued", "accepted", "rejected"} \cup HandlerSteps]
    BY <1>8c DEF FreeServiceSlot, Goto
  <2>4. UNCHANGED <<runVars, listener, lease, sinks, fatal, active, wg, globalSlots, loops,
                    rounds, rawClosed, journal, stop>>
    BY <1>8c DEF FreeServiceSlot
  <2>. QED
    BY <2>2, <2>3, <2>4
<1>8d. ASSUME NEW c \in Conns, FreeGlobalSlot(c)
      PROVE  TypeOK'
  <2>1. globalSlots # 0
    <3>1. c \in LiveConns
      BY <1>8d DEF FreeGlobalSlot, LiveConns, Live
    <3>2. globalSlots = Cardinality(LiveConns) + Cardinality(Admitting)
      BY DEF SlotsAccounted, LiveConns, Admitting
    <3>3. Cardinality(LiveConns) \in Nat \ {0} /\ Cardinality(Admitting) \in Nat
      BY <3>1, CountsFinite, CountPositive, FS_CardinalityType
    <3>. QED
      BY <3>2, <3>3
  <2>. QED
    BY <1>8d, <2>1 DEF FreeGlobalSlot, Goto
<1>9. ASSUME NEW c \in Conns,
             Dial(c) \/ Handshaken(c) \/ ReadData(c) \/ SendResponse(c) \/ LeaveBlocked(c)
      PROVE  TypeOK'
  BY <1>9 DEF Dial, Handshaken, ReadData, SendResponse, LeaveBlocked, Goto
<1>10. CASE LeaseBreaks
  BY <1>10 DEF LeaseBreaks
<1>12. CASE OperatorStops
  <2>1. stop' \in BOOLEAN
    BY <1>12 DEF OperatorStops
  <2>. QED
    BY <1>12, <2>1 DEF OperatorStops
<1>11. CASE Finished
  BY <1>11 DEF Finished, vars
<1>. QED
  BY <1>1, <1>2, <1>3, <1>4, <1>4a, <1>5, <1>6, <1>7, <1>8, <1>8a, <1>8b, <1>8c, <1>8d, <1>9, <1>10, <1>11, <1>12
     DEF Next, LoopStep, HandlerStep, ClientStep

-----------------------------------------------------------------------------
(* What the steps of one actor leave alone.                                *)

LEMMA RunFrame ==
  ASSUME Startup \/ Select \/ SelectStorage \/ Shutdown
  PROVE  /\ UNCHANGED <<pc, rounds, inHand, active, slots, journal, fatalOnce, stop>>
         /\ SpawnOne \/ UNCHANGED <<loop, wg>>
         /\ CloseOneActive \/ UNCHANGED rawClosed
<1>1. CASE Startup
  BY <1>1 DEF Startup, OpenBWJ, OpenJSONL, WriteStartupEvent, AcquireLease, BindOne, BindDone,
     StartupFails, SpawnOne, SpawnDone
<1>2. CASE Select \/ SelectStorage
  BY <1>2 DEF Select, SelectStorage, SelectStop, SelectLost, SelectFatal, LeaveSelect
<1>3. CASE Shutdown
  BY <1>3 DEF Shutdown, CloseOneListener, CloseListenersDone, Cancel, Scan, CloseOneActive,
     CloseActiveDone, Wait, CloseLease, CloseJSONL, CloseBWJ
<1>. QED
  BY <1>1, <1>2, <1>3

LEMMA LoopFrame ==
  ASSUME TypeOK, HandsFull, NEW s \in Services, LoopStep(s)
  PROVE  /\ UNCHANGED <<runVars, listener, lease, sinks, stop, active, rounds, journal>>
         /\ loop[s] \notin {"none", "done"}
         /\ \A t \in Services \ {s} : loop'[t] = loop[t] /\ inHand'[t] = inHand[t]
         /\ \A c \in Conns :
              \/ pc'[c] = pc[c]
              \/ pc[c] = "queued" /\ pc'[c] = "accepted"
              \/ pc[c] = "accepted" /\ pc'[c] \in {"rejected", "start"}
         /\ rawClosed \subseteq rawClosed'
<1>. USE DEF TypeOK
<1>1. CASE Accept(s)
  BY <1>1 DEF Accept
<1>2. CASE AcceptError(s) \/ EndLoop(s)
  BY <1>2 DEF AcceptError, EndLoop
<1>3. CASE TakeGlobalSlot(s)
  BY <1>3 DEF TakeGlobalSlot, Reject, HandsFull
<1>4. CASE TakeServiceSlot(s)
  BY <1>4 DEF TakeServiceSlot, Reject, HandsFull
<1>. QED
  BY <1>1, <1>2, <1>3, <1>4 DEF LoopStep

(* The steps of connection c, its client's among them.                     *)
ConnStep(c) == HandlerStep(c) \/ ClientStep(c) \/ LeaveBlocked(c)

LEMMA ConnFrame ==
  ASSUME TypeOK, NEW c \in Conns, ConnStep(c)
  PROVE  /\ UNCHANGED <<runVars, listener, lease, bwj, jsonl, stop, loops>>
         /\ \A d \in Conns \ {c} : pc'[d] = pc[d]
         /\ \/ pc[c] = "away" /\ pc'[c] = "queued"
            \/ pc[c] \in HandlerSteps \ {"done"} /\ pc'[c] \in HandlerSteps
         /\ rawClosed \subseteq rawClosed'
<1>. USE DEF TypeOK, HandlerSteps, Goto
<1>1. CASE Register(c) \/ NoConnectionID(c) \/ CheckContext(c) \/ CloseRaw(c) \/ Unregister(c)
           \/ FreeServiceSlot(c) \/ FreeGlobalSlot(c)
  BY <1>1 DEF Register, NoConnectionID, CheckContext, CloseRaw, Unregister, FreeServiceSlot,
     FreeGlobalSlot
<1>2. CASE WriteConnectionOpen(c) \/ JournalInbound(c) \/ JournalOutbound(c)
           \/ WriteConnectionClose(c)
  BY <1>2 DEF WriteConnectionOpen, JournalInbound, JournalOutbound, WriteConnectionClose
<1>3. CASE Dial(c) \/ Handshaken(c) \/ ReadData(c) \/ SendResponse(c) \/ LeaveBlocked(c)
  BY <1>3 DEF Dial, Handshaken, ReadData, SendResponse, LeaveBlocked
<1>. QED
  BY <1>1, <1>2, <1>3 DEF ConnStep, HandlerStep, ClientStep

LEMMA EnvFrame ==
  ASSUME LeaseBreaks \/ OperatorStops \/ Finished \/ UNCHANGED vars
  PROVE  /\ UNCHANGED <<worldUnchanged, pc>>
         /\ UNCHANGED lease \/ (lease = "held" /\ lease' = "broken")
         /\ stop => stop'
BY DEF LeaseBreaks, OperatorStops, Finished, vars

(* Who takes a step.                                                       *)
LEMMA Steps ==
  ASSUME [Next]_vars
  PROVE  \/ Startup \/ Select \/ SelectStorage \/ Shutdown
         \/ \E s \in Services : LoopStep(s)
         \/ \E c \in Conns : ConnStep(c)
         \/ LeaseBreaks \/ OperatorStops \/ Finished \/ UNCHANGED vars
BY DEF Next, ConnStep

-----------------------------------------------------------------------------
(* The counts: slots and goroutines.                                       *)

LEMMA CountsAsSets ==
  /\ SlotsAccounted <=>
       /\ globalSlots = Cardinality(LiveConns) + Cardinality(Admitting)
       /\ \A s \in Services : serviceSlots[s] = Cardinality(HeldBy(s))
  /\ SlotsAccounted' <=>
       /\ globalSlots' = Cardinality(LiveConns') + Cardinality(Admitting')
       /\ \A s \in Services : serviceSlots'[s] = Cardinality(HeldBy(s)')
BY DEF SlotsAccounted, LiveConns, Admitting, HeldBy

(* Nothing that is counted changes.                                        *)
Uncounted ==
  /\ UNCHANGED <<slots, wg>>
  /\ \A c \in Conns : (pc'[c] \in HandlerSteps \ {"done"}) <=> (pc[c] \in HandlerSteps \ {"done"})
  /\ \A c \in Conns : pc'[c] = "freeGlobal" <=> pc[c] = "freeGlobal"
  /\ \A s \in Services : loop'[s] = "admitService" <=> loop[s] = "admitService"
  /\ \A s \in Services : loop'[s] \in {"none", "done"} <=> loop[s] \in {"none", "done"}

LEMMA UncountedStep ==
  ASSUME SlotsAccounted, GoroutinesCounted, Uncounted
  PROVE  SlotsAccounted' /\ GoroutinesCounted'
<1>1. LiveConns' = LiveConns /\ \A s \in Services : HeldBy(s)' = HeldBy(s)
  BY DEF Uncounted, LiveConns, HeldBy, Live
<1>2. Admitting' = Admitting /\ Looping' = Looping
  BY DEF Uncounted, Admitting, Looping
<1>. QED
  BY <1>1, <1>2, CountsAsSets DEF Uncounted, GoroutinesCounted

LEMMA CountStep ==
  ASSUME IInv, TypeOK', [Next]_vars
  PROVE  SlotsAccounted' /\ GoroutinesCounted'
<1>. USE ServicesAssumption DEF IInv
<1>c. /\ Cardinality(LiveConns) \in Nat /\ Cardinality(Admitting) \in Nat
      /\ Cardinality(Looping) \in Nat /\ \A s \in Services : Cardinality(HeldBy(s)) \in Nat
  BY CountsFinite, FS_CardinalityType
<1>1. CASE (Startup \/ Select \/ SelectStorage \/ Shutdown) /\ ~SpawnOne
  <2>1. Uncounted
    BY <1>1, RunFrame DEF Uncounted
  <2>. QED
    BY <2>1, UncountedStep
<1>2. CASE SpawnOne
  <2>1. PICK s \in todo : loop' = [loop EXCEPT ![s] = "accept"]
    BY <1>2 DEF SpawnOne
  <2>2. s \in Services /\ loop[s] = "none"
    BY <1>2, <2>1 DEF SpawnOne, Phases, TypeOK
  <2>3. LiveConns' = LiveConns /\ \A t \in Services : HeldBy(t)' = HeldBy(t)
    BY <1>2 DEF SpawnOne, LiveConns, HeldBy, Live
  <2>4. Admitting' = Admitting /\ Looping' = Looping \cup {s} /\ s \notin Looping
    BY <2>1, <2>2 DEF Admitting, Looping, TypeOK
  <2>5. Cardinality(Looping') = Cardinality(Looping) + 1
    BY <2>4, CountsFinite, FS_AddElement
  <2>6. UNCHANGED slots /\ wg' = wg + 1
    BY <1>2 DEF SpawnOne
  <2>. QED
    BY <2>3, <2>4, <2>5, <2>6, <1>c, CountsAsSets DEF GoroutinesCounted
<1>3. ASSUME NEW s \in Services, Accept(s) \/ AcceptError(s)
      PROVE  SlotsAccounted' /\ GoroutinesCounted'
  <2>1. Uncounted
    BY <1>3 DEF Accept, AcceptError, Uncounted, TypeOK, HandlerSteps
  <2>. QED
    BY <2>1, UncountedStep
<1>4. ASSUME NEW s \in Services, EndLoop(s)
      PROVE  SlotsAccounted' /\ GoroutinesCounted'
  <2>1. LiveConns' = LiveConns /\ \A t \in Services : HeldBy(t)' = HeldBy(t)
    BY <1>4 DEF EndLoop, LiveConns, HeldBy, Live
  <2>2. Admitting' = Admitting /\ Looping' = Looping \ {s} /\ s \in Looping
    BY <1>4 DEF EndLoop, Admitting, Looping, TypeOK
  <2>3. Cardinality(Looping') = Cardinality(Looping) - 1
    BY <2>2, CountsFinite, FS_RemoveElement
  <2>4. UNCHANGED slots /\ wg' = wg - 1
    BY <1>4 DEF EndLoop
  <2>. QED
    BY <2>1, <2>2, <2>3, <2>4, <1>c, CountsAsSets DEF GoroutinesCounted
<1>5. ASSUME NEW s \in Services, TakeGlobalSlot(s)
      PROVE  SlotsAccounted' /\ GoroutinesCounted'
  <2>1. CASE GlobalSlotFree
    <3>1. LiveConns' = LiveConns /\ \A t \in Services : HeldBy(t)' = HeldBy(t)
      BY <1>5, <2>1 DEF TakeGlobalSlot, LiveConns, HeldBy, Live
    <3>2. Looping' = Looping /\ Admitting' = Admitting \cup {s} /\ s \notin Admitting
      BY <1>5, <2>1 DEF TakeGlobalSlot, Admitting, Looping, TypeOK
    <3>3. Cardinality(Admitting') = Cardinality(Admitting) + 1
      BY <3>2, CountsFinite, FS_AddElement
    <3>4. UNCHANGED <<serviceSlots, wg>> /\ globalSlots' = globalSlots + 1
      BY <1>5, <2>1 DEF TakeGlobalSlot
    <3>. QED
      BY <3>1, <3>2, <3>3, <3>4, <1>c, CountsAsSets DEF GoroutinesCounted
  <2>2. CASE ~GlobalSlotFree
    <3>1. Uncounted
      BY <1>5, <2>2 DEF TakeGlobalSlot, Reject, Uncounted, HandsFull, TypeOK, HandlerSteps
    <3>. QED
      BY <3>1, UncountedStep
  <2>. QED
    BY <2>1, <2>2
<1>6. ASSUME NEW s \in Services, TakeServiceSlot(s)
      PROVE  SlotsAccounted' /\ GoroutinesCounted'
  <2>. DEFINE h == inHand[s]
  <2>1. h \in Conns /\ Home[h] = s /\ pc[h] = "accepted" /\ s \in Admitting
    BY <1>6 DEF TakeServiceSlot, HandsFull, Admitting
  <2>2. Looping' = Looping /\ Admitting' = Admitting \ {s}
    BY <1>6 DEF TakeServiceSlot, Reject, Admitting, Looping, TypeOK
  <2>3. Cardinality(Admitting') = Cardinality(Admitting) - 1
    BY <2>1, <2>2, CountsFinite, FS_RemoveElement
  <2>4. CASE serviceSlots[s] < MaxPerService
    <3>0. pc' = [pc EXCEPT ![h] = "start"]
      BY <1>6, <2>4 DEF TakeServiceSlot
    <3>1. LiveConns' = LiveConns \cup {h} /\ h \notin LiveConns
      BY <2>1, <3>0 DEF LiveConns, Live, TypeOK, HandlerSteps
    <3>2. /\ HeldBy(s)' = HeldBy(s) \cup {h} /\ h \notin HeldBy(s)
          /\ \A t \in Services \ {s} : HeldBy(t)' = HeldBy(t)
      BY <2>1, <3>0 DEF HeldBy, Live, TypeOK, HandlerSteps
    <3>3. /\ Cardinality(LiveConns') = Cardinality(LiveConns) + 1
          /\ Cardinality(HeldBy(s)') = Cardinality(HeldBy(s)) + 1
      BY <3>1, <3>2, CountsFinite, FS_AddElement
    <3>4. /\ UNCHANGED globalSlots /\ wg' = wg + 1
          /\ serviceSlots' = [serviceSlots EXCEPT ![s] = @ + 1]
      BY <1>6, <2>4 DEF TakeServiceSlot, AddHandler
    <3>5. globalSlots' = Cardinality(LiveConns') + Cardinality(Admitting')
      BY <2>3, <3>3, <3>4, <1>c, CountsAsSets
    <3>6. \A t \in Services : serviceSlots'[t] = Cardinality(HeldBy(t)')
      BY <3>2, <3>3, <3>4, <1>c, CountsAsSets DEF TypeOK
    <3>7. GoroutinesCounted'
      BY <2>2, <3>3, <3>4, <1>c DEF GoroutinesCounted
    <3>. QED
      BY <3>5, <3>6, <3>7, CountsAsSets
  <2>5. CASE ~(serviceSlots[s] < MaxPerService)
    <3>0. pc' = [pc EXCEPT ![h] = "rejected"]
      BY <1>6, <2>5 DEF TakeServiceSlot, Reject
    <3>1. LiveConns' = LiveConns /\ \A t \in Services : HeldBy(t)' = HeldBy(t)
      BY <2>1, <3>0 DEF LiveConns, HeldBy, Live, TypeOK, HandlerSteps
    <3>2. UNCHANGED <<serviceSlots, wg>> /\ globalSlots' = globalSlots - 1
      BY <1>6, <2>5 DEF TakeServiceSlot, ReturnGlobalSlot
    <3>. QED
      BY <2>2, <2>3, <3>1, <3>2, <1>c, CountsAsSets DEF GoroutinesCounted
  <2>. QED
    BY <2>4, <2>5
<1>7. ASSUME NEW c \in Conns, ConnStep(c), ~FreeServiceSlot(c), ~FreeGlobalSlot(c)
      PROVE  SlotsAccounted' /\ GoroutinesCounted'
  <2>. USE DEF Goto, TypeOK, HandlerSteps, Uncounted
  <2>1. CASE Register(c) \/ NoConnectionID(c) \/ CheckContext(c) \/ CloseRaw(c) \/ Unregister(c)
    BY <2>1, UncountedStep DEF Register, NoConnectionID, CheckContext, CloseRaw, Unregister
  <2>2. CASE WriteConnectionOpen(c) \/ JournalInbound(c) \/ JournalOutbound(c)
             \/ WriteConnectionClose(c)
    BY <2>2, UncountedStep DEF WriteConnectionOpen, JournalInbound, JournalOutbound,
       WriteConnectionClose
  <2>3. CASE Dial(c) \/ Handshaken(c) \/ ReadData(c) \/ SendResponse(c) \/ LeaveBlocked(c)
    BY <2>3, UncountedStep DEF Dial, Handshaken, ReadData, SendResponse, LeaveBlocked
  <2>. QED
    BY <1>7, <2>1, <2>2, <2>3 DEF ConnStep, HandlerStep, ClientStep
<1>8. ASSUME NEW c \in Conns, FreeServiceSlot(c)
      PROVE  SlotsAccounted' /\ GoroutinesCounted'
  <2>. DEFINE s == Home[c]
  <2>1. pc[c] = "freeService" /\ pc' = [pc EXCEPT ![c] = "freeGlobal"] /\ s \in Services
    BY <1>8 DEF FreeServiceSlot, Goto
  <2>2. /\ UNCHANGED <<globalSlots, wg, loop>>
        /\ serviceSlots' = [serviceSlots EXCEPT ![s] = @ - 1]
    BY <1>8 DEF FreeServiceSlot
  <2>3. LiveConns' = LiveConns
    BY <2>1 DEF LiveConns, Live, TypeOK, HandlerSteps
  <2>4. Admitting' = Admitting /\ Looping' = Looping
    BY <2>2 DEF Admitting, Looping
  <2>5. /\ HeldBy(s)' = HeldBy(s) \ {c} /\ c \in HeldBy(s)
        /\ \A t \in Services \ {s} : HeldBy(t)' = HeldBy(t)
    BY <2>1 DEF HeldBy, Live, TypeOK, HandlerSteps
  <2>6. Cardinality(HeldBy(s)') = Cardinality(HeldBy(s)) - 1
    BY <2>1, <2>5, CountsFinite, FS_RemoveElement
  <2>7. \A t \in Services : serviceSlots'[t] = Cardinality(HeldBy(t)')
    <3>1. \A t \in Services : serviceSlots[t] = Cardinality(HeldBy(t))
      BY <1>c, CountsAsSets
    <3>2. serviceSlots'[s] = serviceSlots[s] - 1
      BY <2>1, <2>2 DEF TypeOK
    <3>3. \A t \in Services \ {s} : serviceSlots'[t] = serviceSlots[t]
      BY <2>1, <2>2 DEF TypeOK
    <3>. QED
      BY <2>1, <2>5, <2>6, <3>1, <3>2, <3>3
  <2>. QED
    BY <2>2, <2>3, <2>4, <2>7, CountsAsSets DEF GoroutinesCounted
<1>9. ASSUME NEW c \in Conns, FreeGlobalSlot(c)
      PROVE  SlotsAccounted' /\ GoroutinesCounted'
  <2>1. pc[c] = "freeGlobal" /\ pc' = [pc EXCEPT ![c] = "done"]
    BY <1>9 DEF FreeGlobalSlot, Goto
  <2>2. UNCHANGED <<serviceSlots, loop>> /\ globalSlots' = globalSlots - 1 /\ wg' = wg - 1
    BY <1>9 DEF FreeGlobalSlot
  <2>3. LiveConns' = LiveConns \ {c} /\ c \in LiveConns
    BY <2>1 DEF LiveConns, Live, TypeOK, HandlerSteps
  <2>4. Admitting' = Admitting /\ Looping' = Looping
    BY <2>2 DEF Admitting, Looping
  <2>5. \A t \in Services : HeldBy(t)' = HeldBy(t)
    BY <2>1 DEF HeldBy, Live, TypeOK, HandlerSteps
  <2>6. Cardinality(LiveConns') = Cardinality(LiveConns) - 1
    BY <2>3, CountsFinite, FS_RemoveElement
  <2>. QED
    BY <2>2, <2>4, <2>5, <2>6, <1>c, CountsAsSets DEF GoroutinesCounted
<1>10. CASE LeaseBreaks \/ OperatorStops \/ Finished \/ UNCHANGED vars
  <2>1. Uncounted
    BY <1>10, EnvFrame DEF Uncounted
  <2>. QED
    BY <2>1, UncountedStep
<1>. QED
  BY <1>1, <1>2, <1>3, <1>4, <1>5, <1>6, <1>7, <1>8, <1>9, <1>10, Steps DEF LoopStep

-----------------------------------------------------------------------------
(* The other parts of the invariant.                                       *)

(* A handler runs only while Run serves, so with the journal open and the  *)
(* lease held.                                                             *)
LEMMA LiveWhileServing ==
  ASSUME IInv, NEW c \in Conns, Live(c)
  PROVE  main \in Serving /\ bwj = "open" /\ lease \in {"held", "broken"}
BY DEF IInv, TypeOK, MainSteps, Phases, Sinks, Live, HandlerSteps, Starting, Serving, Closing, Ending

LEMMA HandsStep ==
  ASSUME IInv, [Next]_vars
  PROVE  HandsFull'
<1>. USE ServicesAssumption DEF IInv, TypeOK, HandsFull
<1>1. CASE Startup \/ Select \/ SelectStorage \/ Shutdown
  BY <1>1, RunFrame DEF SpawnOne
<1>2. ASSUME NEW s \in Services, LoopStep(s)
      PROVE  HandsFull'
  <2>1. CASE Accept(s)
    BY <2>1 DEF Accept
  <2>2. CASE AcceptError(s) \/ EndLoop(s)
    BY <2>2 DEF AcceptError, EndLoop
  <2>3. CASE TakeGlobalSlot(s)
    BY <2>3 DEF TakeGlobalSlot, Reject
  <2>4. CASE TakeServiceSlot(s)
    BY <2>4 DEF TakeServiceSlot, Reject
  <2>. QED
    BY <1>2, <2>1, <2>2, <2>3, <2>4 DEF LoopStep
<1>3. ASSUME NEW c \in Conns, ConnStep(c)
      PROVE  HandsFull'
  BY <1>3, ConnFrame DEF HandlerSteps
<1>4. CASE LeaseBreaks \/ OperatorStops \/ Finished \/ UNCHANGED vars
  BY <1>4, EnvFrame
<1>. QED
  BY <1>1, <1>2, <1>3, <1>4, Steps

LEMMA RoundsStep ==
  ASSUME IInv, [Next]_vars
  PROVE  RoundsLeft'
<1>. USE LimitsAssumption DEF IInv, TypeOK, RoundsLeft
<1>1. CASE Startup \/ Select \/ SelectStorage \/ Shutdown
  BY <1>1, RunFrame
<1>2. ASSUME NEW s \in Services, LoopStep(s)
      PROVE  RoundsLeft'
  BY <1>2, LoopFrame
<1>3. ASSUME NEW c \in Conns, ConnStep(c)
      PROVE  RoundsLeft'
  <2>. USE DEF Goto
  <2>1. CASE Register(c) \/ NoConnectionID(c) \/ CheckContext(c) \/ CloseRaw(c) \/ Unregister(c)
             \/ FreeServiceSlot(c) \/ FreeGlobalSlot(c)
    BY <2>1 DEF Register, NoConnectionID, CheckContext, CloseRaw, Unregister, FreeServiceSlot,
       FreeGlobalSlot
  <2>2. CASE WriteConnectionOpen(c) \/ JournalInbound(c) \/ WriteConnectionClose(c)
    BY <2>2 DEF WriteConnectionOpen, JournalInbound, WriteConnectionClose
  <2>3. CASE JournalOutbound(c)
    BY <2>3 DEF JournalOutbound
  <2>4. CASE Dial(c) \/ Handshaken(c) \/ ReadData(c) \/ SendResponse(c) \/ LeaveBlocked(c)
    BY <2>4 DEF Dial, Handshaken, ReadData, SendResponse, LeaveBlocked
  <2>. QED
    BY <1>3, <2>1, <2>2, <2>3, <2>4 DEF ConnStep, HandlerStep, ClientStep
<1>4. CASE LeaseBreaks \/ OperatorStops \/ Finished \/ UNCHANGED vars
  BY <1>4, EnvFrame
<1>. QED
  BY <1>1, <1>2, <1>3, <1>4, Steps

(* Wait returns only when every goroutine has ended: the counter counts    *)
(* them, so at zero both sets are empty.                                   *)
LEMMA WaitFindsNobody ==
  ASSUME IInv, wg = 0
  PROVE  LiveConns = {} /\ Looping = {}
<1>1. Cardinality(LiveConns) \in Nat /\ Cardinality(Looping) \in Nat
  BY CountsFinite, FS_CardinalityType
<1>2. Cardinality(LiveConns) = 0 /\ Cardinality(Looping) = 0
  BY <1>1 DEF IInv, GoroutinesCounted
<1>. QED
  BY <1>2, CountsFinite, FS_EmptySet

LEMMA PhasesStep ==
  ASSUME IInv, [Next]_vars
  PROVE  Phases'
<1>. USE DEF IInv, TypeOK, Phases, Live, Starting, Ending, HandlerSteps
<1>1. CASE Startup
  <2>1. UNCHANGED <<pc, opened, ended>>
    BY <1>1, RunFrame
  <2>. QED
    BY <1>1, <2>1 DEF Startup, OpenBWJ, OpenJSONL, WriteStartupEvent, AcquireLease, BindOne,
       BindDone, StartupFails, SpawnOne, SpawnDone
<1>2. CASE Select \/ SelectStorage
  BY <1>2 DEF Select, SelectStorage, SelectStop, SelectLost, SelectFatal, LeaveSelect
<1>3. CASE Shutdown /\ ~Wait
  BY <1>3 DEF Shutdown, CloseOneListener, CloseListenersDone, Cancel, Scan, CloseOneActive,
     CloseActiveDone, CloseLease, CloseJSONL, CloseBWJ
<1>4. CASE Wait
  <2>1. LiveConns = {} /\ Looping = {}
    BY <1>4, WaitFindsNobody DEF Wait, Drained
  <2>2. \A c \in Conns : ~Live(c)
    BY <2>1 DEF LiveConns
  <2>3. \A s \in Services : loop[s] \in {"none", "done"}
    BY <2>1 DEF Looping
  <2>. QED
    BY <1>4, <2>2, <2>3 DEF Wait
<1>5. ASSUME NEW s \in Services, LoopStep(s)
      PROVE  Phases'
  BY <1>5, LoopFrame
<1>6. ASSUME NEW c \in Conns, ConnStep(c)
      PROVE  Phases'
  <2>1. CASE Dial(c)
    BY <2>1 DEF Dial, Goto
  <2>2. CASE ~Dial(c)
    <3>1. Live(c)
      BY <1>6, <2>2, ConnFrame DEF ConnStep, HandlerStep, ClientStep, Register, NoConnectionID,
         WriteConnectionOpen, CheckContext, JournalInbound, JournalOutbound, WriteConnectionClose,
         CloseRaw, Unregister, FreeServiceSlot, FreeGlobalSlot, Handshaken, ReadData,
         SendResponse, LeaveBlocked
    <3>2. main \notin Starting \cup Ending
      BY <3>1
    <3>. QED
      BY <1>6, <3>2, ConnFrame
  <2>. QED
    BY <2>1, <2>2
<1>7. CASE LeaseBreaks \/ OperatorStops \/ Finished \/ UNCHANGED vars
  BY <1>7, EnvFrame
<1>. QED
  BY <1>1, <1>2, <1>3, <1>4, <1>5, <1>6, <1>7, Steps

LEMMA SinksStep ==
  ASSUME IInv, [Next]_vars
  PROVE  Sinks' /\ Listeners'
<1>. USE DEF IInv, TypeOK, MainSteps, Sinks, Listeners, Starting, Closing, Serving
<1>1. CASE Startup /\ ~StartupFails
  BY <1>1 DEF Startup, OpenBWJ, OpenJSONL, WriteStartupEvent, AcquireLease, BindOne, BindDone,
     SpawnOne, SpawnDone
<1>2. CASE StartupFails
  BY <1>2 DEF StartupFails, Rollback
<1>3. CASE Select \/ SelectStorage
  BY <1>3 DEF Select, SelectStorage, SelectStop, SelectLost, SelectFatal, LeaveSelect
<1>4. CASE CloseOneListener \/ CloseListenersDone
  BY <1>4 DEF CloseOneListener, CloseListenersDone
<1>5. CASE Cancel \/ Scan \/ CloseOneActive \/ CloseActiveDone \/ Wait
  BY <1>5 DEF Cancel, Scan, CloseOneActive, CloseActiveDone, Wait
<1>6. CASE CloseLease \/ CloseJSONL \/ CloseBWJ
  BY <1>6 DEF CloseLease, CloseJSONL, CloseBWJ
<1>7. ASSUME NEW s \in Services, LoopStep(s)
      PROVE  Sinks' /\ Listeners'
  BY <1>7, LoopFrame
<1>8. ASSUME NEW c \in Conns, ConnStep(c)
      PROVE  Sinks' /\ Listeners'
  BY <1>8, ConnFrame
<1>9. CASE LeaseBreaks \/ OperatorStops \/ Finished \/ UNCHANGED vars
  BY <1>9, EnvFrame
<1>. QED
  BY <1>1, <1>2, <1>3, <1>4, <1>5, <1>6, <1>7, <1>8, <1>9, Steps DEF Shutdown

LEMMA OutcomesStep ==
  ASSUME IInv, [Next]_vars
  PROVE  Outcomes'
<1>. USE DEF IInv, TypeOK, MainSteps, Outcomes, NilMeansIntact, Causes, Closing
<1>1. CASE Startup
  BY <1>1 DEF Startup, OpenBWJ, OpenJSONL, WriteStartupEvent, AcquireLease, BindOne, BindDone,
     StartupFails, SpawnOne, SpawnDone
<1>2. CASE SelectStop
  BY <1>2 DEF SelectStop, LeaveSelect
<1>3. CASE SelectLost
  BY <1>3 DEF SelectLost, LeaveSelect
<1>4. CASE SelectFatal \/ SelectStorage
  BY <1>4 DEF SelectFatal, SelectStorage, LeaveSelect
<1>5. CASE Shutdown /\ ~CloseBWJ
  BY <1>5 DEF Shutdown, CloseOneListener, CloseListenersDone, Cancel, Scan, CloseOneActive,
     CloseActiveDone, Wait, CloseLease, CloseJSONL
<1>6. CASE CloseBWJ
  <2>1. result' = "nil" => terminal = "none" /\ ~bwjFailed'
    BY <1>6 DEF CloseBWJ, Outcome
  <2>. QED
    BY <1>6, <2>1 DEF CloseBWJ
<1>7. ASSUME NEW s \in Services, LoopStep(s)
      PROVE  Outcomes'
  BY <1>7, LoopFrame
<1>8. ASSUME NEW c \in Conns, ConnStep(c)
      PROVE  Outcomes'
  <2>1. CASE Dial(c)
    BY <2>1 DEF Dial
  <2>2. CASE ~Dial(c)
    <3>1. Live(c)
      BY <1>8, <2>2, ConnFrame DEF ConnStep, HandlerStep, ClientStep, Register, NoConnectionID,
         WriteConnectionOpen, CheckContext, JournalInbound, JournalOutbound, WriteConnectionClose,
         CloseRaw, Unregister, FreeServiceSlot, FreeGlobalSlot, Handshaken, ReadData,
         SendResponse, LeaveBlocked, Live, HandlerSteps
    <3>2. main # "returned"
      BY <3>1, LiveWhileServing DEF Serving
    <3>. QED
      BY <1>8, <3>2, ConnFrame
  <2>. QED
    BY <2>1, <2>2
<1>9. CASE LeaseBreaks \/ OperatorStops \/ Finished \/ UNCHANGED vars
  BY <1>9, EnvFrame
<1>. QED
  BY <1>1, <1>2, <1>3, <1>4, <1>5, <1>6, <1>7, <1>8, <1>9, Steps DEF Select

(* The failure of the journal is final.                                    *)
LEMMA FailureIsFinal ==
  ASSUME IInv, [Next]_vars, bwjFailed
  PROVE  bwjFailed'
<1>1. CASE Startup \/ Select \/ SelectStorage
  BY <1>1 DEF Startup, OpenBWJ, OpenJSONL, WriteStartupEvent, AcquireLease, BindOne, BindDone,
     StartupFails, SpawnOne, SpawnDone, Select, SelectStorage, SelectStop, SelectLost,
     SelectFatal, LeaveSelect
<1>2. CASE Shutdown
  BY <1>2 DEF Shutdown, CloseOneListener, CloseListenersDone, Cancel, Scan, CloseOneActive,
     CloseActiveDone, Wait, CloseLease, CloseJSONL, CloseBWJ
<1>3. ASSUME NEW s \in Services, LoopStep(s)
      PROVE  bwjFailed'
  BY <1>3, LoopFrame DEF IInv
<1>4. ASSUME NEW c \in Conns, ConnStep(c)
      PROVE  bwjFailed'
  BY <1>4 DEF ConnStep, HandlerStep, ClientStep, Register, NoConnectionID,
     WriteConnectionOpen, CheckContext, JournalInbound, JournalOutbound, WriteConnectionClose,
     CloseRaw, Unregister, FreeServiceSlot, FreeGlobalSlot, Handshaken, ReadData, SendResponse,
     LeaveBlocked, Dial, JournalOK, JournalError
<1>5. CASE LeaseBreaks \/ OperatorStops \/ Finished \/ UNCHANGED vars
  BY <1>5, EnvFrame
<1>. QED
  BY <1>1, <1>2, <1>3, <1>4, <1>5, Steps

LEMMA RecordsStep ==
  ASSUME IInv, [Next]_vars
  PROVE  Records'
<1>. USE DEF IInv, TypeOK, Records, Unopened, InLoop
<1>1. CASE Startup \/ Select \/ SelectStorage \/ Shutdown
  BY <1>1, RunFrame, FailureIsFinal
<1>2. ASSUME NEW s \in Services, LoopStep(s)
      PROVE  Records'
  BY <1>2, LoopFrame
<1>3. ASSUME NEW c \in Conns, ConnStep(c)
      PROVE  Records'
  <2>. USE DEF Goto
  <2>1. CASE Register(c) \/ NoConnectionID(c) \/ CheckContext(c) \/ CloseRaw(c) \/ Unregister(c)
             \/ FreeServiceSlot(c) \/ FreeGlobalSlot(c)
    BY <2>1 DEF Register, NoConnectionID, CheckContext, CloseRaw, Unregister, FreeServiceSlot,
       FreeGlobalSlot
  <2>2. CASE Dial(c) \/ Handshaken(c) \/ ReadData(c) \/ SendResponse(c) \/ LeaveBlocked(c)
    BY <2>2 DEF Dial, Handshaken, ReadData, SendResponse, LeaveBlocked
  <2>3. CASE JournalInbound(c) \/ JournalOutbound(c)
    <3>1. pc[c] \in InLoop /\ pc'[c] \in InLoop \cup {"end"} /\ UNCHANGED journal
      BY <2>3 DEF JournalInbound, JournalOutbound
    <3>. QED
      BY <2>3, <3>1, FailureIsFinal, ConnFrame, <1>3
  <2>4. CASE WriteConnectionOpen(c)
    <3>1. bwj = "open"
      BY <2>4, LiveWhileServing DEF WriteConnectionOpen, Live, HandlerSteps
    <3>2. CASE JournalOK
      <4>1. ~bwjFailed' /\ ~bwjFailed
        BY <3>2 DEF JournalOK
      <4>2. ~JournalError
        BY <3>1, <4>1 DEF JournalError
      <4>3. /\ opened' = opened \cup {c} /\ UNCHANGED ended
            /\ pc' = [pc EXCEPT ![c] = pc'[c]] /\ pc'[c] \in {"handshake", "check"}
        BY <2>4, <4>2 DEF WriteConnectionOpen
      <4>4. ended \subseteq opened
        OBVIOUS
      <4>. QED
        BY <2>4, <4>1, <4>3, <4>4 DEF WriteConnectionOpen
    <3>3. CASE JournalError
      <4>1. bwjFailed'
        BY <3>1, <3>3 DEF JournalError
      <4>2. pc' = [pc EXCEPT ![c] = "end"] /\ UNCHANGED journal
        BY <2>4, <3>1, <4>1 DEF WriteConnectionOpen, JournalOK
      <4>. QED
        BY <4>1, <4>2
    <3>. QED
      BY <2>4, <3>2, <3>3 DEF WriteConnectionOpen
  <2>5. CASE WriteConnectionClose(c)
    <3>1. bwj = "open"
      BY <2>5, LiveWhileServing DEF WriteConnectionClose, Live, HandlerSteps
    <3>2. CASE JournalOK /\ ended' = ended \cup {c}
      <4>1. ~bwjFailed' /\ ~bwjFailed
        BY <3>2 DEF JournalOK
      <4>2. c \in opened
        BY <2>5, <4>1 DEF WriteConnectionClose
      <4>. QED
        BY <2>5, <3>2, <4>1, <4>2 DEF WriteConnectionClose
    <3>3. CASE JournalError /\ UNCHANGED ended
      <4>1. bwjFailed'
        BY <3>1, <3>3 DEF JournalError
      <4>. QED
        BY <2>5, <3>3, <4>1 DEF WriteConnectionClose
    <3>. QED
      BY <2>5, <3>2, <3>3 DEF WriteConnectionClose
  <2>. QED
    BY <1>3, <2>1, <2>2, <2>3, <2>4, <2>5 DEF ConnStep, HandlerStep, ClientStep
<1>4. CASE LeaseBreaks \/ OperatorStops \/ Finished \/ UNCHANGED vars
  BY <1>4, EnvFrame
<1>. QED
  BY <1>1, <1>2, <1>3, <1>4, Steps

LEMMA InterruptionsStep ==
  ASSUME IInv, [Next]_vars
  PROVE  Interruptions'
<1>. USE DEF IInv, TypeOK, MainSteps, Interruptions, Registered, InLoop
<1>1. CASE Startup
  BY <1>1, RunFrame DEF Startup, OpenBWJ, OpenJSONL, WriteStartupEvent, AcquireLease, BindOne,
     BindDone, StartupFails, SpawnOne, SpawnDone
<1>2. CASE Select \/ SelectStorage
  BY <1>2 DEF Select, SelectStorage, SelectStop, SelectLost, SelectFatal, LeaveSelect
<1>3. CASE Shutdown
  <2>1. CASE CloseOneListener \/ CloseListenersDone
    BY <2>1 DEF CloseOneListener, CloseListenersDone
  <2>2. CASE Cancel
    BY <2>2 DEF Cancel
  <2>3. CASE Scan
    BY <2>3 DEF Scan
  <2>4. CASE CloseOneActive
    BY <2>4 DEF CloseOneActive
  <2>5. CASE CloseActiveDone
    BY <2>5 DEF CloseActiveDone
  <2>6. CASE Wait \/ CloseLease \/ CloseJSONL \/ CloseBWJ
    BY <2>6 DEF Wait, CloseLease, CloseJSONL, CloseBWJ
  <2>. QED
    BY <1>3, <2>1, <2>2, <2>3, <2>4, <2>5, <2>6 DEF Shutdown
<1>4. ASSUME NEW s \in Services, LoopStep(s)
      PROVE  Interruptions'
  BY <1>4, LoopFrame
<1>5. ASSUME NEW c \in Conns, ConnStep(c)
      PROVE  Interruptions'
  <2>. USE DEF Goto
  <2>1. CASE Register(c)
    BY <2>1 DEF Register
  <2>2. CASE CheckContext(c)
    BY <2>2 DEF CheckContext, CtxDone
  <2>3. CASE NoConnectionID(c) \/ CloseRaw(c)
    BY <2>3 DEF NoConnectionID, CloseRaw
  <2>4. CASE Unregister(c)
    BY <2>4 DEF Unregister
  <2>5. CASE FreeServiceSlot(c) \/ FreeGlobalSlot(c)
    BY <2>5 DEF FreeServiceSlot, FreeGlobalSlot
  <2>6. CASE WriteConnectionOpen(c) \/ WriteConnectionClose(c)
    BY <2>6 DEF WriteConnectionOpen, WriteConnectionClose
  <2>7. CASE JournalInbound(c) \/ JournalOutbound(c)
    BY <2>7 DEF JournalInbound, JournalOutbound
  <2>8. CASE Dial(c) \/ Handshaken(c) \/ ReadData(c) \/ SendResponse(c) \/ LeaveBlocked(c)
    BY <2>8 DEF Dial, Handshaken, ReadData, SendResponse, LeaveBlocked
  <2>. QED
    BY <1>5, <2>1, <2>2, <2>3, <2>4, <2>5, <2>6, <2>7, <2>8 DEF ConnStep, HandlerStep, ClientStep
<1>6. CASE LeaseBreaks \/ OperatorStops \/ Finished \/ UNCHANGED vars
  BY <1>6, EnvFrame
<1>. QED
  BY <1>1, <1>2, <1>3, <1>4, <1>5, <1>6, Steps

-----------------------------------------------------------------------------
(* The invariant.                                                          *)

LEMMA InitInvariant ==
  ASSUME Init
  PROVE  IInv
<1>. USE ServicesAssumption, LimitsAssumption DEF Init
<1>1. TypeOK
  <2>1. /\ cancelled \in BOOLEAN /\ bwjFailed \in BOOLEAN /\ fatalOnce \in BOOLEAN
        /\ stop \in BOOLEAN
    OBVIOUS
  <2>2. /\ globalSlots \in 0..MaxTotal /\ serviceSlots \in [Services -> 0..MaxPerService]
        /\ rounds \in [Conns -> 0..MaxRounds] /\ wg \in Int
    OBVIOUS
  <2>. QED
    BY <2>1, <2>2 DEF TypeOK, MainSteps, HandlerSteps, Causes
<1>2. LiveConns = {} /\ Admitting = {} /\ Looping = {} /\ \A s \in Services : HeldBy(s) = {}
  BY DEF LiveConns, Admitting, Looping, HeldBy, Live, HandlerSteps
<1>3. SlotsAccounted /\ GoroutinesCounted
  BY <1>2, FS_EmptySet, CountsAsSets DEF GoroutinesCounted
<1>4. HandsFull /\ RoundsLeft /\ Phases /\ Sinks /\ Listeners
  BY DEF HandsFull, RoundsLeft, Phases, Sinks, Listeners, Starting, Serving, Closing, Ending,
     MainSteps
<1>5. Outcomes /\ Records /\ Interruptions
  BY DEF Outcomes, NilMeansIntact, Closing, Records, Unopened, InLoop, Interruptions, Registered
<1>. QED
  BY <1>1, <1>3, <1>4, <1>5 DEF IInv

LEMMA InvariantStep ==
  ASSUME IInv, [Next]_vars
  PROVE  IInv'
<1>1. TypeOK'
  <2>1. CASE Next
    BY <2>1, TypeStep
  <2>2. CASE UNCHANGED vars
    BY <2>2 DEF vars, IInv, TypeOK
  <2>. QED
    BY <2>1, <2>2
<1>. QED
  BY <1>1, CountStep, HandsStep, RoundsStep, PhasesStep, SinksStep, OutcomesStep, RecordsStep,
     InterruptionsStep DEF IInv

LEMMA Invariant == Spec => []IInv
BY InitInvariant, InvariantStep, PTL DEF Spec

-----------------------------------------------------------------------------
(* Theorems.                                                               *)

(* Every slot in use belongs to one live connection or to one loop between *)
(* its two selects (listener.go:73-104): the limits are never              *)
(* eaten up by connections that are gone.                                  *)
THEOREM SlotsAlwaysAccounted == Spec => []SlotsAccounted
<1>1. IInv => SlotsAccounted
  BY DEF IInv
<1>. QED
  BY <1>1, Invariant, PTL

(* Once Wait has returned (engine.go:161) no goroutine is left, however    *)
(* many services and connections there are and whatever they were doing    *)
(* when Run began to wait.                                                 *)
THEOREM AlwaysQuietAfterWait == Spec => []QuietAfterWait
<1>1. ASSUME IInv
      PROVE  QuietAfterWait
  <2>. SUFFICES ASSUME main \in Ending
                PROVE  /\ \A c \in Conns : ~Live(c)
                       /\ \A s \in Services : loop[s] \in {"none", "done"}
                       /\ active = {} /\ globalSlots = 0
    BY DEF QuietAfterWait, Ending
  <2>1. /\ \A c \in Conns : ~Live(c)
        /\ \A s \in Services : loop[s] \in {"none", "done"}
    BY <1>1 DEF IInv, Phases
  <2>2. active = {}
    BY <1>1, <2>1 DEF IInv, Interruptions, Registered, InLoop, Live, HandlerSteps
  <2>3. LiveConns = {} /\ Admitting = {}
    BY <2>1 DEF LiveConns, Admitting
  <2>4. globalSlots = 0
    BY <1>1, <2>3, CountsAsSets, FS_EmptySet DEF IInv
  <2>. QED
    BY <2>1, <2>2, <2>4
<1>. QED
  BY <1>1, Invariant, PTL

(* No listener is open and no connection is handled without the capture    *)
(* lease and an open journal (engine.go:65-125).                           *)
THEOREM AlwaysServesUnderLease == Spec => []ServesUnderLease
<1>1. ASSUME IInv
      PROVE  ServesUnderLease
  <2>1. ASSUME NEW s \in Services, listener[s] = "open"
        PROVE  lease \in {"held", "broken"} /\ bwj = "open" /\ jsonl = "open"
    BY <1>1, <2>1 DEF IInv, TypeOK, MainSteps, Sinks, Listeners, Serving, Closing
  <2>2. ASSUME NEW c \in Conns, Live(c)
        PROVE  lease \in {"held", "broken"} /\ bwj = "open"
    BY <1>1, <2>2, LiveWhileServing
  <2>. QED
    BY <2>1, <2>2 DEF ServesUnderLease
<1>. QED
  BY <1>1, Invariant, PTL

(* Run returns with every listener, the lease and both writers closed, by  *)
(* whichever of its returns (engine.go:65-119, 158-179).                   *)
THEOREM AlwaysLeavesNothingOpen == Spec => []LeavesNothingOpen
<1>1. IInv => LeavesNothingOpen
  BY DEF IInv, Listeners, Sinks, LeavesNothingOpen
<1>. QED
  BY <1>1, Invariant, PTL

(* The copy closeActiveConnections works from misses no handler that could *)
(* stay blocked on its socket (engine.go:159-161, 227-237).                *)
THEOREM NeverMissesAHandler == Spec => []NoHandlerMissed
<1>1. ASSUME IInv
      PROVE  NoHandlerMissed
  <2>1. CASE main = "wait"
    <3>1. cancelled /\ snapshot = {}
      BY <1>1, <2>1 DEF IInv, Interruptions
    <3>. QED
      BY <1>1, <2>1, <3>1 DEF IInv, Interruptions, NoHandlerMissed, Interrupted, CtxDone
  <2>2. CASE main \in Ending
    BY <1>1, <2>2 DEF IInv, Phases, NoHandlerMissed, Live, HandlerSteps
  <2>. QED
    BY <2>1, <2>2 DEF NoHandlerMissed, Ending
<1>. QED
  BY <1>1, Invariant, PTL

(* When Run returns the journal pairs the records of every connection,     *)
(* unless it failed (connection.go:244-258).                               *)
THEOREM OpenRecordsAlwaysClosed == Spec => []OpenRecordsAreClosed
<1>1. ASSUME IInv
      PROVE  OpenRecordsAreClosed
  <2>1. ASSUME main = "returned", ~bwjFailed, NEW c \in opened, c \notin ended
        PROVE  FALSE
    <3>1. c \in Conns
      BY <1>1 DEF IInv, TypeOK
    <3>2. Live(c)
      BY <1>1, <2>1, <3>1 DEF IInv, Records, InLoop, Live, HandlerSteps
    <3>. QED
      BY <1>1, <2>1, <3>1, <3>2 DEF IInv, Phases, Ending
  <2>2. ended \subseteq opened
    BY <1>1 DEF IInv, Records
  <2>. QED
    BY <2>1, <2>2 DEF OpenRecordsAreClosed
<1>. QED
  BY <1>1, Invariant, PTL

(* Run returns nil only after a stop, and never over a journal that failed *)
(* (engine.go:131-179).                                                    *)
THEOREM NilAlwaysMeansIntact == Spec => []NilMeansIntact
<1>1. IInv => NilMeansIntact
  BY DEF IInv, Outcomes
<1>. QED
  BY <1>1, Invariant, PTL
=============================================================================
