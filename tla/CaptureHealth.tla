--------------------------- MODULE CaptureHealth ---------------------------
(***************************************************************************)
(* The capture service and the leases sensors hold on it:                  *)
(* src/internal/capture/capture.go (Run, waitForPCAPReady, stopDumpcap)    *)
(* and src/internal/capture/health.go (HealthServer, AcquireLease, Lease). *)
(*                                                                         *)
(* A lease is a connection: a client that read READY holds it until it     *)
(* sees the connection end.  The server has one goroutine per connection,  *)
(* the supervisor of dumpcap closes the connections it knows of, and the   *)
(* end of the process closes the others.  dumpcap may exit at any time and *)
(* may ignore every signal.                                                *)
(***************************************************************************)
CONSTANTS
  Clients,            \* connections made to the health socket, one lease each
  SameConfig          \* those whose configuration is the capture service's

ASSUME ClientsAssumption == SameConfig \subseteq Clients

VARIABLES
  run,                \* where Run is
  afterClose,         \* where it goes from health.Close
  cancelled,          \* ctx is done: the operator stops the service
  dumpcap,            \* "none", "running", "exited", "reaped": in waitCh, "received"
  opened,             \* its output file exists
  signalled,          \* the last signal sent to it: "none", "TERM", "KILL"
  listening,          \* s.listener is open
  closed,             \* s.closed
  leases,             \* s.leases
  toClose,            \* what Close copied of s.leases and has still to close
  handler,            \* where each connection is on the server's side
  open,               \* the connections the server's side has not closed
  answered,           \* the connections READY was sent on
  client              \* where each client is

supervisor == <<run, afterClose, cancelled, dumpcap, opened, signalled>>
server == <<listening, closed, leases, toClose>>
connections == <<handler, open, answered>>
vars == <<supervisor, server, connections, client>>

(* The map holds the registered connections whose goroutine is there.      *)
TypeOK ==
  /\ run \in {"start", "pcap", "listen", "select", "close", "closeEach", "stop", "term",
              "kill", "returned", "exited"}
  /\ afterClose \in {"stop", "returned"}
  /\ cancelled \in BOOLEAN /\ opened \in BOOLEAN /\ listening \in BOOLEAN /\ closed \in BOOLEAN
  /\ dumpcap \in {"none", "running", "exited", "reaped", "received"}
  /\ signalled \in {"none", "TERM", "KILL"}
  /\ toClose \subseteq Clients
  /\ open \subseteq Clients /\ answered \subseteq Clients
  /\ handler \in [Clients -> {"none", "backlog", "read", "register", "look", "hold", "ended"}]
  /\ client \in [Clients -> {"idle", "asked", "held", "failed", "lost", "released"}]
  /\ leases = {c \in Clients : handler[c] \in {"look", "hold"}}

Init ==
  /\ run = "start" /\ afterClose = "stop" /\ cancelled = FALSE
  /\ dumpcap = "none" /\ opened = FALSE /\ signalled = "none"
  /\ listening = FALSE /\ closed = FALSE /\ leases = {} /\ toClose = {}
  /\ handler = [c \in Clients |-> "none"] /\ open = {} /\ answered = {}
  /\ client = [c \in Clients |-> "idle"]

Gone == dumpcap \in {"exited", "reaped", "received"}
InProcess == run # "exited"

-----------------------------------------------------------------------------
(* Environment: the operator, dumpcap, and cmd.Wait, which reaps it.       *)
Stop ==
  /\ ~cancelled /\ cancelled' = TRUE
  /\ UNCHANGED <<run, afterClose, dumpcap, opened, signalled, server, connections, client>>

DumpcapOpens ==
  /\ dumpcap = "running" /\ ~opened /\ opened' = TRUE
  /\ UNCHANGED <<run, afterClose, cancelled, dumpcap, signalled, server, connections, client>>

DumpcapExits ==
  /\ dumpcap = "running" /\ dumpcap' = "exited"
  /\ UNCHANGED <<run, afterClose, cancelled, opened, signalled, server, connections, client>>

Reap ==
  /\ InProcess
  /\ dumpcap = "exited" /\ dumpcap' = "reaped"
  /\ UNCHANGED <<run, afterClose, cancelled, opened, signalled, server, connections, client>>

-----------------------------------------------------------------------------
(* Run.                                                                    *)

(* The checks before dumpcap is started fail, or the start does. *)
StartFails ==
  /\ run = "start" /\ run' = "returned"
  /\ UNCHANGED <<afterClose, cancelled, dumpcap, opened, signalled, server, connections, client>>

StartDumpcap ==
  /\ run = "start" /\ run' = "pcap"
  /\ dumpcap' = "running"
  /\ UNCHANGED <<afterClose, cancelled, opened, signalled, server, connections, client>>

(* waitForPCAPReady finds the output. *)
PCAPReady ==
  /\ run = "pcap" /\ opened /\ run' = "listen"
  /\ UNCHANGED <<afterClose, cancelled, dumpcap, opened, signalled, server, connections, client>>

(* Mutant: an early error leaves dumpcap running. *)
AfterFailureReturns == "returned"
AfterFailure == "stop"

(* It is cancelled, or its five seconds are over, or the disk is full.     *)
NotReady ==
  /\ run \in {"pcap", "listen"}
  /\ run' = AfterFailure
  /\ UNCHANGED <<afterClose, cancelled, dumpcap, opened, signalled, server, connections, client>>

ReceiveExit ==
  /\ dumpcap = "reaped" /\ dumpcap' = "received"

(* dumpcap exits before its output is there. *)
ExitBeforeReady ==
  /\ run = "pcap" /\ ReceiveExit
  /\ run' = AfterFailure
  /\ UNCHANGED <<afterClose, cancelled, opened, signalled, server, connections, client>>

StartHealthServer ==
  /\ run = "listen" /\ run' = "select"
  /\ listening' = TRUE
  /\ UNCHANGED <<afterClose, cancelled, dumpcap, opened, signalled, closed, leases, toClose,
                 connections, client>>

(* The three branches of the select.  A full disk is an input.             *)
SelectDone ==
  /\ run = "select" /\ cancelled
  /\ run' = "close" /\ afterClose' = "stop"
  /\ UNCHANGED <<cancelled, dumpcap, opened, signalled, server, connections, client>>

(* Mutant: the exit of dumpcap is not one of the branches. *)
ExitUnseen == FALSE
ExitSeen == dumpcap = "reaped"

SelectExit ==
  /\ run = "select" /\ ExitSeen /\ ReceiveExit
  /\ run' = "close" /\ afterClose' = "returned"
  /\ UNCHANGED <<cancelled, opened, signalled, server, connections, client>>

SelectStorage ==
  /\ run = "select"
  /\ run' = "close" /\ afterClose' = "stop"
  /\ UNCHANGED <<cancelled, dumpcap, opened, signalled, server, connections, client>>

-----------------------------------------------------------------------------
(* HealthServer.Close: the flag and the copy under the mutex, then each    *)
(* connection, then the listener.                                          *)
CloseStart ==
  /\ run = "close" /\ run' = "closeEach"
  /\ closed' = TRUE /\ toClose' = leases
  /\ UNCHANGED <<afterClose, cancelled, dumpcap, opened, signalled, listening, leases,
                 connections, client>>

CloseOne ==
  /\ run = "closeEach"
  /\ \E c \in toClose :
       /\ toClose' = toClose \ {c}
       /\ open' = open \ {c}
  /\ UNCHANGED <<supervisor, listening, closed, leases, handler, answered, client>>

(* Connections nobody accepted are reset with the listener. *)
CloseListener ==
  /\ run = "closeEach" /\ toClose = {}
  /\ run' = afterClose
  /\ listening' = FALSE
  /\ open' = {c \in open : handler[c] # "backlog"}
  /\ handler' = [c \in Clients |-> IF handler[c] = "backlog" THEN "ended" ELSE handler[c]]
  /\ UNCHANGED <<afterClose, cancelled, dumpcap, opened, signalled, closed, leases, toClose,
                 answered, client>>

-----------------------------------------------------------------------------
(* stopDumpcap.  It reads cmd.ProcessState while cmd.Wait may write it: of *)
(* a dumpcap that has exited it may learn so or not.  (One that died of a  *)
(* signal has not Exited() either.)                                        *)
SeesExit ==
  /\ run = "stop" /\ Gone
  /\ run' = "returned"
  /\ UNCHANGED <<afterClose, cancelled, dumpcap, opened, signalled, server, connections, client>>

Terminate ==
  /\ run = "stop"
  /\ run' = "term" /\ signalled' = "TERM"
  /\ UNCHANGED <<afterClose, cancelled, dumpcap, opened, server, connections, client>>

Waited ==
  /\ run \in {"term", "kill"} /\ ReceiveExit
  /\ run' = "returned"
  /\ UNCHANGED <<afterClose, cancelled, opened, signalled, server, connections, client>>

(* Mutant: no limit on the wait while dumpcap is still running. *)
TermWaitEndless == run = "term" /\ Gone
TermWaitOver == run = "term"

Kill ==
  /\ TermWaitOver
  /\ run' = "kill" /\ signalled' = "KILL"
  /\ UNCHANGED <<afterClose, cancelled, dumpcap, opened, server, connections, client>>

KillWaitOver ==
  /\ run = "kill" /\ run' = "returned"
  /\ UNCHANGED <<afterClose, cancelled, dumpcap, opened, signalled, server, connections, client>>

(* main returns: the process ends, and all its sockets with it. *)
Exit ==
  /\ run = "returned" /\ run' = "exited"
  /\ listening' = FALSE /\ open' = {} /\ leases' = {}
  /\ handler' = [c \in Clients |-> IF handler[c] = "none" THEN "none" ELSE "ended"]
  /\ UNCHANGED <<afterClose, cancelled, dumpcap, opened, signalled, closed, toClose, answered,
                 client>>

-----------------------------------------------------------------------------
(* acceptLoop and handleLease.                                             *)
Departed(c) == client[c] \in {"failed", "lost", "released"}

Accept(c) ==
  /\ listening /\ handler[c] = "backlog"
  /\ handler' = [handler EXCEPT ![c] = "read"]
  /\ UNCHANGED <<supervisor, server, open, answered, client>>

(* The deferred function. *)
EndLease(c) ==
  /\ leases' = leases \ {c}
  /\ open' = open \ {c}
  /\ handler' = [handler EXCEPT ![c] = "ended"]
  /\ UNCHANGED <<supervisor, listening, closed, toClose, answered, client>>

(* The request does not come, or not in time, or READY cannot be sent.     *)
NoRequest(c) == handler[c] = "read" /\ EndLease(c)

Answer(c) ==
  /\ handler[c] = "read" /\ ~Departed(c)
  /\ answered' = answered \cup {c}
  /\ handler' = [handler EXCEPT ![c] = "register"]
  /\ UNCHANGED <<supervisor, server, open, client>>

(* Mutant: a lease is registered with a server that is closed. *)
RegistersAlways == TRUE
Registers == ~closed

Register(c) ==
  /\ handler[c] = "register" /\ Registers
  /\ leases' = leases \cup {c}
  /\ handler' = [handler EXCEPT ![c] = "look"]
  /\ UNCHANGED <<supervisor, listening, closed, toClose, open, answered, client>>

TooLate(c) == handler[c] = "register" /\ ~Registers /\ EndLease(c)

Look(c) ==
  /\ handler[c] = "look" /\ ~cancelled
  /\ handler' = [handler EXCEPT ![c] = "hold"]
  /\ UNCHANGED <<supervisor, server, open, answered, client>>

(* Read returns when either end closed the connection. *)
ReadEnds(c) == c \notin open \/ Departed(c)

HoldEnds(c) ==
  /\ \/ handler[c] = "look" /\ cancelled
     \/ handler[c] = "hold" /\ ReadEnds(c)
  /\ EndLease(c)

-----------------------------------------------------------------------------
(* AcquireLease, watch and Close.                                          *)
Client(c, from, to) == client[c] = from /\ client' = [client EXCEPT ![c] = to]

Dial(c) ==
  /\ listening /\ Client(c, "idle", "asked")
  /\ handler' = [handler EXCEPT ![c] = "backlog"] /\ open' = open \cup {c}
  /\ UNCHANGED <<supervisor, server, answered>>

DialFails(c) == Client(c, "idle", "failed") /\ UNCHANGED <<supervisor, server, connections>>

Acceptable(c) == c \in SameConfig

(* READY stays readable after the server closed the connection. *)
ReadReady(c) ==
  /\ c \in answered
  /\ Client(c, "asked", IF Acceptable(c) THEN "held" ELSE "failed")
  /\ UNCHANGED <<supervisor, server, connections>>

(* The two seconds are over, or the connection ended without an answer. *)
AskFails(c) == Client(c, "asked", "failed") /\ UNCHANGED <<supervisor, server, connections>>

Watch(c) ==
  /\ c \notin open /\ Client(c, "held", "lost")
  /\ UNCHANGED <<supervisor, server, connections>>

Release(c) == Client(c, "held", "released") /\ UNCHANGED <<supervisor, server, connections>>

-----------------------------------------------------------------------------
Run ==
  \/ StartFails \/ StartDumpcap \/ PCAPReady \/ NotReady \/ ExitBeforeReady
  \/ StartHealthServer \/ SelectDone \/ SelectExit \/ CloseStart \/ CloseOne \/ CloseListener
  \/ SeesExit \/ Terminate \/ Waited \/ Kill \/ KillWaitOver \/ Exit

HandleLease(c) ==
  InProcess /\ (NoRequest(c) \/ Answer(c) \/ Register(c) \/ TooLate(c) \/ Look(c) \/ HoldEnds(c))

AcquireLease(c) == ReadReady(c) \/ AskFails(c) \/ Watch(c)

Finished == run = "exited" /\ UNCHANGED vars

Next ==
  \/ Stop \/ DumpcapOpens \/ DumpcapExits \/ Reap
  \/ Run \/ SelectStorage
  \/ \E c \in Clients :
       Dial(c) \/ DialFails(c) \/ Accept(c) \/ HandleLease(c) \/ AcquireLease(c) \/ Release(c)
  \/ Finished

(* Goroutines run and timers fire.  Nothing is assumed of the operator, of *)
(* dumpcap, of the disk, or of when a sensor asks for or gives up a lease. *)
Fairness ==
  /\ WF_vars(Reap) /\ WF_vars(Run)
  /\ \A c \in Clients : WF_vars(Accept(c)) /\ WF_vars(HandleLease(c)) /\ WF_vars(AcquireLease(c))

Spec == Init /\ [][Next]_vars /\ Fairness

-----------------------------------------------------------------------------
(* Properties                                                              *)

(* Whichever way Run returns, the dumpcap it started has exited or was     *)
(* killed, so that a restarted service does not run beside the old capture *)
(* (capture.go:45-151).                                                    *)
NoOrphan ==
  run \in {"returned", "exited"} /\ dumpcap # "none" => Gone \/ signalled = "KILL"

(* Who holds a lease has the capture service's configuration, and the      *)
(* capture had its output open before (capture.go:89-100, health.go:151).  *)
HeldMeansReady == \A c \in Clients : client[c] = "held" => c \in SameConfig /\ opened

(* No lease the server knows of is open when dumpcap is told to stop,      *)
(* though handlers register and end while Close walks over its copy: a     *)
(* sensor does not serve with a capture that ends cleanly behind its back  *)
(* (health.go:80-121, capture.go:110-111).                                 *)
LeasesClosedBeforeStop == signalled # "none" => leases \cap open = {}

(* "controlled shutdown can first close READY leases and then ask dumpcap  *)
(* to terminate cleanly" (capture.go:78-79): no connection that was told   *)
(* READY is open when dumpcap is told to stop.                             *)
ReadyClosedBeforeStop == signalled # "none" => answered \cap open = {}

(* A sensor that holds a lease learns that dumpcap is gone.                *)
LossIsNoticed ==
  \A c \in Clients : client[c] = "held" /\ Gone ~> client[c] # "held"

(* A stop ends the service, whatever dumpcap makes of its signals.         *)
StopEnds == cancelled ~> run = "exited"
=============================================================================
