------------------------ MODULE CaptureHealthProofs ------------------------
(***************************************************************************)
(* Proofs about CaptureHealth, for any set of clients: the server's leases *)
(* are closed before dumpcap is told to stop, no dumpcap is left running,  *)
(* and a held lease is one on a capture that was ready.                    *)
(***************************************************************************)
EXTENDS CaptureHealth, TLAPS

(* Before the health server is there nothing is connected, and a client    *)
(* that has not dialed has no connection.                                  *)
Served ==
  /\ run \in {"start", "pcap", "listen"} =>
       ~listening /\ \A c \in Clients : handler[c] = "none"
  /\ \A c \in Clients : client[c] = "idle" => handler[c] = "none"
  /\ listening => run \in {"select", "close", "closeEach"}

(* While Close works what is registered and open is in its copy; after it  *)
(* nothing is, and nothing can be registered any more.                     *)
Stopping ==
  /\ run = "closeEach" => closed /\ leases \cap open \subseteq toClose
  /\ run \in {"stop", "term", "kill", "returned", "exited"} =>
       /\ leases \cap open = {}
       /\ closed \/ \A c \in Clients : handler[c] = "none"
  /\ signalled # "none" => run \in {"term", "kill", "returned", "exited"}

(* What is known of dumpcap at each place of Run. *)
Supervised ==
  /\ run = "start" => dumpcap = "none"
  /\ run = "kill" => signalled = "KILL"
  /\ run \in {"close", "closeEach"} /\ afterClose = "returned" => Gone

(* Nothing is connected, asked or answered unless the output was open. *)
Answered ==
  /\ run \in {"listen", "select", "close", "closeEach"} => opened
  /\ \A c \in Clients : handler[c] # "none" => opened
  /\ \A c \in answered : handler[c] # "none"

IInv == TypeOK /\ Served /\ Stopping /\ Supervised /\ NoOrphan /\ Answered /\ HeldMeansReady

LEMMA InitIInv == Init => IInv
  BY DEF Init, IInv, TypeOK, Served, Stopping, Supervised, Answered, NoOrphan, HeldMeansReady, Gone

LEMMA NextIInv == IInv /\ [Next]_vars => IInv'
  <1> SUFFICES ASSUME IInv, [Next]_vars PROVE IInv'
    OBVIOUS
  <1> USE DEF IInv, TypeOK, Served, Stopping, Supervised, Answered, vars, supervisor, server, connections, NoOrphan, HeldMeansReady, Gone
  <1>1. CASE Stop
    BY <1>1 DEF Stop
  <1>2. CASE DumpcapOpens
    BY <1>2 DEF DumpcapOpens
  <1>3. CASE DumpcapExits
    BY <1>3 DEF DumpcapExits
  <1>4. CASE Reap
    BY <1>4 DEF Reap
  <1>5. CASE StartFails
    BY <1>5 DEF StartFails
  <1>6. CASE StartDumpcap
    BY <1>6 DEF StartDumpcap
  <1>7. CASE PCAPReady
    BY <1>7 DEF PCAPReady
  <1>8. CASE NotReady
    BY <1>8 DEF NotReady, AfterFailure
  <1>9. CASE ExitBeforeReady
    BY <1>9 DEF ExitBeforeReady, AfterFailure, ReceiveExit
  <1>10. CASE StartHealthServer
    BY <1>10 DEF StartHealthServer
  <1>11. CASE SelectDone
    BY <1>11 DEF SelectDone
  <1>12. CASE SelectExit
    BY <1>12 DEF SelectExit, ExitSeen, ReceiveExit
  <1>13. CASE CloseStart
    BY <1>13 DEF CloseStart
  <1>14. CASE CloseOne
    BY <1>14 DEF CloseOne
  <1>15. CASE CloseListener
    BY <1>15 DEF CloseListener
  <1>16. CASE SeesExit
    BY <1>16 DEF SeesExit
  <1>17. CASE Terminate
    BY <1>17 DEF Terminate
  <1>18. CASE Waited
    BY <1>18 DEF Waited, ReceiveExit
  <1>19. CASE Kill
    BY <1>19 DEF Kill, TermWaitOver
  <1>20. CASE KillWaitOver
    BY <1>20 DEF KillWaitOver
  <1>21. CASE Exit
    BY <1>21 DEF Exit
  <1>22. CASE SelectStorage
    BY <1>22 DEF SelectStorage
  <1>23. ASSUME NEW c \in Clients, Dial(c) PROVE IInv'
    BY <1>23 DEF Dial, Client
  <1>24. ASSUME NEW c \in Clients, DialFails(c) PROVE IInv'
    BY <1>24 DEF DialFails, Client
  <1>25. ASSUME NEW c \in Clients, Accept(c) PROVE IInv'
    BY <1>25 DEF Accept
  <1>26. ASSUME NEW c \in Clients, NoRequest(c) PROVE IInv'
    BY <1>26 DEF NoRequest, EndLease
  <1>27. ASSUME NEW c \in Clients, Answer(c) PROVE IInv'
    BY <1>27 DEF Answer
  <1>28. ASSUME NEW c \in Clients, Register(c) PROVE IInv'
    BY <1>28 DEF Register, Registers
  <1>29. ASSUME NEW c \in Clients, TooLate(c) PROVE IInv'
    BY <1>29 DEF TooLate, EndLease, Registers
  <1>30. ASSUME NEW c \in Clients, Look(c) PROVE IInv'
    BY <1>30 DEF Look
  <1>31. ASSUME NEW c \in Clients, HoldEnds(c) PROVE IInv'
    BY <1>31 DEF HoldEnds, EndLease, ReadEnds
  <1>32. ASSUME NEW c \in Clients, ReadReady(c) PROVE IInv'
    BY <1>32 DEF ReadReady, Client, Acceptable
  <1>33. ASSUME NEW c \in Clients, AskFails(c) PROVE IInv'
    BY <1>33 DEF AskFails, Client
  <1>34. ASSUME NEW c \in Clients, Watch(c) PROVE IInv'
    BY <1>34 DEF Watch, Client
  <1>35. ASSUME NEW c \in Clients, Release(c) PROVE IInv'
    BY <1>35 DEF Release, Client
  <1>36. CASE UNCHANGED vars
    BY <1>36
  <1> QED
    BY <1>1, <1>2, <1>3, <1>4, <1>5, <1>6, <1>7, <1>8, <1>9, <1>10, <1>11, <1>12, <1>13, <1>14, <1>15, <1>16, <1>17, <1>18, <1>19, <1>20, <1>21, <1>22, <1>23, <1>24, <1>25, <1>26, <1>27, <1>28, <1>29, <1>30, <1>31, <1>32, <1>33, <1>34, <1>35, <1>36 DEF Next, Run, HandleLease, AcquireLease, Finished

LEMMA AlwaysIInv == Spec => []IInv
  BY InitIInv, NextIInv, PTL DEF Spec

(* The types, and that the map of leases holds exactly the registered      *)
(* connections whose goroutine is there (health.go:66-88).                 *)
THEOREM TypeCorrect == Spec => []TypeOK
  BY AlwaysIInv, PTL DEF IInv

(* No registered lease is open once dumpcap was told to stop               *)
(* (health.go:80-121, capture.go:110-111).                                 *)
THEOREM LeasesAlwaysClosedBeforeStop == Spec => []LeasesClosedBeforeStop
  <1>1. IInv => LeasesClosedBeforeStop
    BY DEF IInv, Stopping, LeasesClosedBeforeStop
  <1> QED
    BY <1>1, AlwaysIInv, PTL

(* Run never returns beside a dumpcap that is neither gone nor killed      *)
(* (capture.go:45-151).                                                    *)
THEOREM NeverOrphan == Spec => []NoOrphan
  BY AlwaysIInv, PTL DEF IInv

(* A lease is held only with the same configuration and on a capture whose *)
(* output was open (capture.go:89-100, health.go:151).                     *)
THEOREM HeldAlwaysMeansReady == Spec => []HeldMeansReady
  BY AlwaysIInv, PTL DEF IInv
=============================================================================
