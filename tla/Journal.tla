------------------------------ MODULE Journal ------------------------------
(***************************************************************************)
(* What the raw evidence journal of notaihoney promises to whoever reads   *)
(* it: one log of records, each naming its connection and its place in     *)
(* that connection's own order.  Records are appended one at a time while  *)
(* the journal is open; once it is frozen (closed, failed or crashed) it   *)
(* never grows again; losing power may cost a suffix and nothing else.     *)
(* BWJWriter.tla implements this specification.                            *)
(***************************************************************************)
EXTENDS Naturals, Sequences, FiniteSets

CONSTANT Conns        \* the connections whose traffic is recorded

VARIABLES log,        \* records, in the order a reader of the directory sees them
          phase       \* "open", "frozen" or "lost"

vars == <<log, phase>>

Record == [conn : Conns, id : Nat \ {0}]

(* The places of the records of connection c. *)
OfConn(s, c) == {k \in DOMAIN s : s[k].conn = c}

TypeOK ==
  /\ log \in Seq(Record)
  /\ phase \in {"open", "frozen", "lost"}

Init ==
  /\ log = << >>
  /\ phase = "open"

(* The next record of connection c enters the log. *)
Append1(c) ==
  /\ phase = "open"
  /\ log' = Append(log, [conn |-> c, id |-> Cardinality(OfConn(log, c)) + 1])
  /\ UNCHANGED phase

(* Close, the first failure, and the end of the process are alike here. *)
Freeze ==
  /\ phase = "open"
  /\ phase' = "frozen"
  /\ UNCHANGED log

LosePower ==
  /\ phase # "lost"
  /\ phase' = "lost"
  /\ UNCHANGED log

(* What was never synced may be gone, newest first. *)
LoseSuffix ==
  /\ phase = "lost"
  /\ log # << >>
  /\ log' = SubSeq(log, 1, Len(log) - 1)
  /\ UNCHANGED phase

Next ==
  \/ \E c \in Conns : Append1(c)
  \/ Freeze
  \/ LosePower
  \/ LoseSuffix

Spec == Init /\ [][Next]_vars
=============================================================================
