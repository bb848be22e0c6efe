------------------------- MODULE EventWriterProofs -------------------------
(***************************************************************************)
(* Proofs about EventWriter, for any set of handlers, any sizes and any    *)
(* number of events: every file of the event log but the newest is whole   *)
(* and durable, and so is the newest when Close returned nil.              *)
(***************************************************************************)
EXTENDS EventWriter, SequenceLemmas, TLAPS

Inside == {"sync", "shut", "create", "write"}

Whole(f) == ~f.torn /\ f.synced = Len(f.lines)

(* Who is inside WriteEvent holds the mutex, and none is once Close began. *)
Locked ==
  /\ \A c \in Conns : pc[c] \in Inside => mu = c
  /\ pc[Closer] # "idle" => \A c \in Conns : pc[c] = "idle"

(* An event under way has a number and a size, and fits once inside. *)
Sized ==
  \A c \in Conns :
    /\ pc[c] # "idle" => emitted[c] >= 1 /\ event[c] >= 1
    /\ pc[c] \in Inside => event[c] <= MaxEventBytes

(* The newest file while the machine is up: a torn line goes with an error *)
(* the buffer keeps, and a rotation or Close that synced it found it whole. *)
Newest ==
  /\ disk # << >>
  /\ host = "up" => (Current.torn => bufferError)
  /\ host = "up" => \A c \in Conns : pc[c] \in {"shut", "create"} => Whole(Current)
  /\ closeResult = "nil" \/ pc[Closer] = "closeShut" => Whole(Current)
  /\ closeResult = "nil" => pc[Closer] = "done"

IInv == TypeOK /\ Locked /\ Sized /\ EarlierFilesWhole /\ Newest

-----------------------------------------------------------------------------
(* A change of the newest file leaves the others alone. *)
LEMMA LastChanged ==
  ASSUME TypeOK, disk # << >>, NEW f \in File, Last1(f)
  PROVE  /\ disk' \in Seq(File) /\ Len(disk') = Len(disk)
         /\ Len(disk) \in Nat \ {0} /\ Current' = f
         /\ \A i \in 1..Len(disk) - 1 : disk'[i] = disk[i]
  BY DEF TypeOK, Last1, Current

LEMMA EarlierKept ==
  ASSUME TypeOK, disk # << >>, EarlierFilesWhole, NEW f \in File, Last1(f)
  PROVE  EarlierFilesWhole'
  BY LastChanged DEF EarlierFilesWhole

LEMMA CurrentIsFile ==
  ASSUME TypeOK, disk # << >>
  PROVE  /\ Current \in File /\ Current.lines \in Seq(Line) /\ Len(Current.lines) \in Nat
         /\ Current.torn \in BOOLEAN /\ Current.synced \in Nat
  <1>1. disk \in Seq(File) /\ Len(disk) \in 1..Len(disk)
    BY DEF TypeOK
  <1>2. Current \in File
    BY <1>1 DEF Current
  <1> QED
    BY <1>2 DEF File

LEMMA FrontOfSeq ==
  ASSUME NEW S, NEW s \in Seq(S), NEW n \in Nat, n <= Len(s)
  PROVE  SubSeq(s, 1, n) \in Seq(S) /\ Len(SubSeq(s, 1, n)) = n
  OBVIOUS

LEMMA InitIInv == Init => IInv
  <1> SUFFICES ASSUME Init PROVE IInv
    OBVIOUS
  <1>1. NewFile \in File /\ disk = <<NewFile>>
    BY DEF Init, NewFile, File
  <1>2. Current = NewFile /\ Len(disk) = 1
    BY <1>1 DEF Current
  <1>3. TypeOK
    <2>1. disk \in Seq(File)
      BY <1>1
    <2>2. /\ pc \in [Actors -> {"idle"}]
          /\ event \in [Conns -> Nat] /\ emitted \in [Conns -> Nat]
      BY DEF Init
    <2> QED
      BY <2>1, <2>2 DEF Init, TypeOK
  <1> QED
    BY <1>1, <1>2, <1>3 DEF Init, IInv, Locked, Sized, Newest, EarlierFilesWhole, Whole, NewFile,
       Inside, Actors

-----------------------------------------------------------------------------
(* The steps that leave the files alone. *)
LEMMA QuietStep ==
  ASSUME IInv, UNCHANGED disk, NEW c \in Conns,
         \/ Emit(c) \/ Degrade(c) \/ Refuse(c) \/ Enter(c) \/ SyncFails(c) \/ Shut(c)
         \/ ShutFails(c) \/ CreateFails(c)
  PROVE  IInv'
  <1> USE NamesAssumption DEF IInv, At, Goto, Lock, writer, Fail, Unlock, Actors
  <1>1. pc' = [pc EXCEPT ![c] = pc'[c]] /\ pc'[c] # "closeShut" /\ c # Closer
    BY DEF TypeOK, Emit, Degrade, Refuse, Enter, SyncFails, Shut, ShutFails, CreateFails
  <1>2. TypeOK'
    <2>1. mu' \in Actors \cup {NoOne}
      BY DEF TypeOK, Emit, Degrade, Refuse, Enter, SyncFails, Shut, ShutFails, CreateFails
    <2>2. pc'[c] \in {"idle", "lock", "sync", "shut", "create", "write", "failed"}
      BY DEF TypeOK, Emit, Degrade, Refuse, Enter, SyncFails, Shut, ShutFails, CreateFails
    <2>3. event' \in [Conns -> Nat] /\ emitted' \in [Conns -> Nat]
      BY SizesAssumption
         DEF TypeOK, Emit, Degrade, Refuse, Enter, SyncFails, Shut, ShutFails, CreateFails
    <2>4. /\ file' \in {"open", "nil", "shut"} /\ bytesWritten' = bytesWritten
          /\ {bufferError', closed', jsonlHealthy'} \subseteq BOOLEAN
          /\ closeResult' = closeResult /\ host' = host
      BY DEF TypeOK, Emit, Degrade, Refuse, Enter, SyncFails, Shut, ShutFails, CreateFails,
         HealthyAfter
    <2> QED
      BY <1>1, <2>1, <2>2, <2>3, <2>4 DEF TypeOK
  <1>3. Locked'
    BY <1>1 DEF TypeOK, Locked, Inside, Emit, Degrade, Refuse, Enter, SyncFails, Shut, ShutFails,
       CreateFails
  <1>4. Sized'
    BY <1>1, SizesAssumption DEF TypeOK, Sized, Inside, Emit, Degrade, Refuse, Enter, SyncFails, Shut,
       ShutFails, CreateFails, TooLarge
  <1>5. EarlierFilesWhole'
    BY DEF EarlierFilesWhole
  <1>6. Newest'
    BY <1>1 DEF TypeOK, Newest, Current, Emit, Degrade, Refuse, Enter, SyncFails, Shut, ShutFails,
       CreateFails
  <1> QED
    BY <1>2, <1>3, <1>4, <1>5, <1>6

(* The steps of WriteEvent that change the newest file. *)
LEMMA SyncStep ==
  ASSUME IInv, NEW c \in Conns, Sync(c)
  PROVE  IInv'
  <1> DEFINE f == [Current EXCEPT !.synced = Len(Current.lines)]
  <1> USE NamesAssumption DEF IInv, Sync, At, Goto, writer, Actors
  <1>1. f \in File /\ Whole(f) /\ Last1(f)
    BY CurrentIsFile DEF File, Newest, Whole, Flushed
  <1>2. disk' \in Seq(File) /\ disk' # << >> /\ Current' = f /\ EarlierFilesWhole'
    BY <1>1, LastChanged, EarlierKept DEF Newest
  <1>3. TypeOK'
    BY <1>2 DEF TypeOK
  <1>4. Locked' /\ Sized'
    BY DEF TypeOK, Locked, Sized, Inside
  <1>5. Newest'
    <2> HIDE DEF f
    <2>1. Whole(Current')
      BY <1>1, <1>2
    <2> QED
      BY <1>2, <2>1 DEF TypeOK, Newest, Whole
  <1> QED
    BY <1>2, <1>3, <1>4, <1>5

LEMMA WriteStep ==
  ASSUME IInv, NEW c \in Conns, Write(c)
  PROVE  IInv'
  <1> DEFINE l == [conn |-> c, id |-> emitted[c], bytes |-> event[c]]
             f == [Current EXCEPT !.lines = Append(@, l)]
  <1> USE NamesAssumption DEF IInv, Write, At, Goto, writer, Actors, Unlock
  <1>1. l \in Line
    BY SizesAssumption DEF Line, Sized, Inside, TypeOK
  <1>2. f \in File /\ f.torn = Current.torn /\ Last1(f)
    <2>1. Append(Current.lines, l) \in Seq(Line)
      BY <1>1, CurrentIsFile DEF Newest
    <2>2. f \in File /\ f.torn = Current.torn
      <3> HIDE DEF l
      <3> QED
        BY <2>1, CurrentIsFile DEF File, Newest
    <2> QED
      BY <2>2
  <1>3. disk' \in Seq(File) /\ disk' # << >> /\ Current' = f /\ EarlierFilesWhole'
    BY <1>2, LastChanged, EarlierKept DEF Newest
  <1>4. TypeOK'
    BY <1>3 DEF TypeOK
  <1>5. Locked' /\ Sized'
    BY DEF TypeOK, Locked, Sized, Inside
  <1>6. Newest'
    <2>1. \A d \in Conns : pc'[d] \notin {"shut", "create"}
      BY DEF TypeOK, Locked, Inside
    <2> QED
      BY <1>2, <1>3, <2>1 DEF TypeOK, Newest, Locked
  <1> QED
    BY <1>3, <1>4, <1>5, <1>6

LEMMA WriteFailsStep ==
  ASSUME IInv, NEW c \in Conns, WriteFails(c)
  PROVE  IInv'
  <1> DEFINE f == [Current EXCEPT !.torn = TRUE]
  <1> USE NamesAssumption DEF IInv, At, Goto, writer, Actors, Unlock, Fail
  <1>1. f \in File
    BY CurrentIsFile DEF File, Newest
  <1>2. disk' \in Seq(File) /\ disk' # << >> /\ EarlierFilesWhole'
    <2>1. CASE UNCHANGED disk
      BY <2>1 DEF TypeOK, Newest, EarlierFilesWhole
    <2>2. CASE Last1(f)
      BY <2>2, <1>1, LastChanged, EarlierKept DEF Newest
    <2> QED
      BY <2>1, <2>2 DEF WriteFails
  <1>3. TypeOK'
    BY <1>2 DEF TypeOK, WriteFails
  <1>4. Locked' /\ Sized'
    BY DEF TypeOK, Locked, Sized, Inside, WriteFails
  <1>5. Newest'
    <2>1. \A d \in Conns : pc'[d] \notin {"shut", "create"}
      BY DEF TypeOK, Locked, Inside, WriteFails
    <2> QED
      BY <1>2, <2>1 DEF TypeOK, Newest, Locked, WriteFails
  <1> QED
    BY <1>2, <1>3, <1>4, <1>5

LEMMA CreateStep ==
  ASSUME IInv, NEW c \in Conns, Create(c)
  PROVE  IInv'
  <1> USE NamesAssumption DEF IInv, Create, At, Goto, writer, Actors
  <1>1. NewFile \in File /\ ~NewFile.torn
    BY DEF NewFile, File
  <1>2. disk' = Append(disk, NewFile) /\ disk \in Seq(File) /\ Whole(disk[Len(disk)])
    BY DEF TypeOK, Newest, Current
  <1>3. /\ disk' \in Seq(File) /\ disk' # << >> /\ Current' = NewFile
        /\ Len(disk') = Len(disk) + 1 /\ Len(disk) \in Nat
        /\ \A i \in 1..Len(disk) : disk'[i] = disk[i]
    BY <1>1, <1>2 DEF Current
  <1>4. EarlierFilesWhole'
    <2> SUFFICES ASSUME NEW i \in 1..Len(disk) PROVE Whole(disk[i])
      BY <1>3 DEF EarlierFilesWhole, Whole
    <2>1. CASE i = Len(disk)
      BY <2>1, <1>2
    <2>2. CASE i \in 1..Len(disk) - 1
      BY <2>2 DEF EarlierFilesWhole, Whole
    <2> QED
      BY <2>1, <2>2, <1>3
  <1>5. TypeOK'
    BY <1>3 DEF TypeOK
  <1>6. Locked' /\ Sized'
    BY DEF TypeOK, Locked, Sized, Inside
  <1>7. Newest'
    <2>1. \A d \in Conns : pc'[d] \notin {"shut", "create"}
      BY DEF TypeOK, Locked, Inside
    <2> QED
      BY <1>1, <1>3, <2>1 DEF TypeOK, Newest, Locked
  <1> QED
    BY <1>4, <1>5, <1>6, <1>7

-----------------------------------------------------------------------------
(* Close, and the end of the process. *)
LEMMA CloseStep ==
  ASSUME IInv, CloseSync \/ CloseShut
  PROVE  IInv'
  <1> DEFINE f == [Current EXCEPT !.synced = Len(Current.lines)]
  <1> USE NamesAssumption DEF IInv, At, Goto, writer, Actors
  <1>1. \A c \in Conns : pc[c] = "idle"
    BY DEF CloseSync, CloseShut, Quiet, Locked
  <1>2. Locked' /\ Sized'
    BY <1>1 DEF TypeOK, Locked, Sized, Inside, CloseSync, CloseShut
  <1>3. CASE CloseSync /\ Last1(f) /\ Flushed /\ Goto(Closer, "closeShut") /\ UNCHANGED closeResult
    <2>1. f \in File /\ Whole(f)
      BY <1>3, CurrentIsFile DEF File, Newest, Whole, Flushed, CloseSync
    <2>2. disk' \in Seq(File) /\ disk' # << >> /\ Current' = f /\ EarlierFilesWhole'
      BY <1>3, <2>1, LastChanged, EarlierKept DEF Newest
    <2>3. TypeOK'
      BY <1>3, <2>2 DEF TypeOK, CloseSync
    <2>4. Newest'
      <3>1. Whole(Current') /\ ~Current'.torn
        BY <2>1, <2>2 DEF Whole
      <3> HIDE DEF f
      <3> QED
        BY <1>1, <1>3, <2>2, <3>1 DEF TypeOK, Newest, CloseSync, Whole
    <2> QED
      BY <1>2, <2>2, <2>3, <2>4
  <1>4. CASE CloseSync /\ UNCHANGED disk /\ closeResult' = "error" /\ Goto(Closer, "done")
    BY <1>1, <1>2, <1>4 DEF CloseSync, TypeOK, Newest, EarlierFilesWhole, Current
  <1>5. CASE CloseShut
    BY <1>1, <1>2, <1>5 DEF CloseShut, TypeOK, Newest, EarlierFilesWhole, Current, Whole
  <1> QED
    BY <1>3, <1>4, <1>5 DEF CloseSync, SafeAfterSync

LEMMA CrashStep ==
  ASSUME IInv, Crash
  PROVE  IInv'
  <1>1. Locked' /\ Sized'
    BY DEF IInv, Crash, writer, Locked, Sized
  <1>2. CASE UNCHANGED disk
    BY <1>1, <1>2 DEF IInv, Crash, writer, TypeOK, Newest, EarlierFilesWhole, Current, Whole
  <1>3. ASSUME NEW n \in Current.synced..Len(Current.lines), NEW torn \in BOOLEAN,
               torn => n < Len(Current.lines) \/ Current.torn, host' = "nopower",
               Last1([Current EXCEPT !.lines = SubSeq(@, 1, n), !.torn = torn])
        PROVE  IInv'
    <2> DEFINE f == [Current EXCEPT !.lines = SubSeq(@, 1, n), !.torn = torn]
    <2>0. /\ Current \in File /\ Current.lines \in Seq(Line) /\ Len(Current.lines) \in Nat
          /\ Current.torn \in BOOLEAN /\ Current.synced \in Nat
      BY CurrentIsFile DEF IInv, Newest
    <2>1. n \in Nat /\ Current.synced <= n /\ n <= Len(Current.lines)
      BY <2>0, <1>3
    <2>2. SubSeq(Current.lines, 1, n) \in Seq(Line) /\ Len(SubSeq(Current.lines, 1, n)) = n
      BY <2>0, <2>1, FrontOfSeq
    <2>3. f \in File /\ (Whole(Current) => Whole(f))
      <3>1. f.lines = SubSeq(Current.lines, 1, n) /\ f.torn = torn /\ f.synced = Current.synced
        BY <2>0 DEF File
      <3>2. f \in File
        BY <2>0, <2>2 DEF File
      <3>3. Whole(Current) => ~torn /\ n = Len(Current.lines)
        BY <2>0, <2>1, <1>3 DEF Whole
      <3> QED
        BY <2>2, <3>1, <3>2, <3>3 DEF Whole
    <2>4. disk' \in Seq(File) /\ disk' # << >> /\ Current' = f /\ EarlierFilesWhole'
      BY <1>3, <2>3, LastChanged, EarlierKept DEF IInv, Newest
    <2>5. TypeOK'
      BY <1>3, <2>4 DEF IInv, Crash, writer, TypeOK
    <2>6. Newest'
      <3>1. Whole(Current) => Whole(Current')
        BY <2>3, <2>4
      <3> HIDE DEF f
      <3> QED
        BY <1>3, <2>4, <3>1 DEF IInv, Crash, writer, Newest
    <2> QED
      BY <1>1, <2>4, <2>5, <2>6 DEF IInv
  <1> QED
    BY <1>2, <1>3 DEF Crash

LEMMA NextIInv == IInv /\ [Next]_vars => IInv'
  <1> SUFFICES ASSUME IInv, [Next]_vars PROVE IInv'
    OBVIOUS
  <1>1. ASSUME NEW c \in Conns, Emit(c) \/ WriteEvent(c) \/ Degrade(c) PROVE IInv'
    BY <1>1, QuietStep, SyncStep, WriteStep, WriteFailsStep, CreateStep
       DEF WriteEvent, Emit, Degrade, Refuse, Enter, SyncFails, Shut, ShutFails, CreateFails
  <1>2. CASE UNCHANGED vars
    BY <1>2 DEF vars, writer, IInv, TypeOK, Locked, Sized, EarlierFilesWhole, Newest, Current
  <1> QED
    BY <1>1, <1>2, CloseStep, CrashStep DEF Next, Finished

LEMMA AlwaysIInv == Spec => []IInv
  BY InitIInv, NextIInv, PTL DEF Spec

-----------------------------------------------------------------------------
(* The variables keep their types; no line is longer than the limit. *)
THEOREM TypeCorrect == Spec => []TypeOK
  BY AlwaysIInv, PTL DEF IInv

(* Every file but the newest is whole and synced, whatever failed before   *)
(* and whatever was cut off (jsonl.go:321-336).                            *)
THEOREM EarlierFilesAlwaysWhole == Spec => []EarlierFilesWhole
  BY AlwaysIInv, PTL DEF IInv

(* A nil from Close means that every file is whole and synced              *)
(* (jsonl.go:353-374).                                                     *)
THEOREM CloseNilAlwaysDurable == Spec => []CloseNilIsDurable
  <1>1. IInv => CloseNilIsDurable
    <2> SUFFICES ASSUME IInv, closeResult = "nil", NEW i \in DOMAIN disk PROVE Whole(disk[i])
      BY DEF CloseNilIsDurable, Whole
    <2>1. i \in 1..Len(disk) /\ Len(disk) \in Nat
      BY DEF IInv, TypeOK
    <2>2. CASE i = Len(disk)
      BY <2>2 DEF IInv, Newest, Current
    <2>3. CASE i \in 1..Len(disk) - 1
      BY <2>3 DEF IInv, EarlierFilesWhole, Whole
    <2> QED
      BY <2>1, <2>2, <2>3
  <1> QED
    BY <1>1, AlwaysIInv, PTL

-----------------------------------------------------------------------------
(***************************************************************************)
(* What the log holds.  While the machine is up the number of lines of a   *)
(* handler is its number of emit calls, less the one it is in; no one but  *)
(* the handler itself adds to either.  This goes on for a handler that was *)
(* past the check of jsonlHealthy when another one failed.                 *)
(***************************************************************************)
Ordered(log) ==
  \A k \in DOMAIN log : log[k].id = Cardinality({j \in LinesOf(log, log[k].conn) : j <= k})

Entered == {"lock"} \cup Inside

Counted ==
  host = "up" => \A c \in Conns :
    /\ pc[c] \in Entered => Cardinality(LinesOf(AllLines, c)) + 1 = emitted[c]
    /\ pc[c] = "idle" /\ jsonlHealthy => Cardinality(LinesOf(AllLines, c)) = emitted[c]

LEMMA LinesAppend ==
  ASSUME NEW log \in Seq(Line), NEW l \in Line, NEW c \in Conns
  PROVE  /\ IsFiniteSet(LinesOf(log, c))
         /\ Cardinality(LinesOf(log, c)) \in Nat
         /\ Cardinality(LinesOf(Append(log, l), c)) =
              Cardinality(LinesOf(log, c)) + IF l.conn = c THEN 1 ELSE 0
<1> DEFINE T == {e \in Line : e.conn = c}
           new == Append(log, l)
<1>1. new \in Seq(Line)
  OBVIOUS
<1>2. LinesOf(log, c) = Positions(log, T) /\ LinesOf(new, c) = Positions(new, T)
  <2>1. \A s \in Seq(Line) : LinesOf(s, c) = Positions(s, T)
    <3> SUFFICES ASSUME NEW s \in Seq(Line) PROVE LinesOf(s, c) = Positions(s, T)
      OBVIOUS
    <3>1. \A k \in DOMAIN s : s[k] \in Line
      OBVIOUS
    <3>. QED  BY <3>1 DEF LinesOf, Positions
  <2> HIDE DEF new, T
  <2>. QED  BY <1>1, <2>1
<1>3. l \in T <=> l.conn = c
  OBVIOUS
<1> HIDE DEF T
<1>4. /\ IsFiniteSet(Positions(log, T)) /\ Cardinality(Positions(log, T)) \in Nat
      /\ Cardinality(Positions(new, T)) = Cardinality(Positions(log, T)) + IF l \in T THEN 1 ELSE 0
  BY CountAppend
<1>. QED  BY <1>2, <1>3, <1>4

LEMMA OrderedAppend ==
  ASSUME NEW log \in Seq(Line), NEW l \in Line, Ordered(log),
         l.id = Cardinality(LinesOf(log, l.conn)) + 1
  PROVE  Ordered(Append(log, l))
<1> DEFINE n == Len(log)
           new == Append(log, l)
<1>1. /\ n \in Nat /\ DOMAIN log = 1..n /\ DOMAIN new = 1..(n + 1) /\ new[n + 1] = l
      /\ \A k \in 1..n : new[k] = log[k]
  OBVIOUS
<1>2. l.conn \in Conns
  BY DEF Line
<1> HIDE DEF new, n
<1>3. ASSUME NEW k \in 1..n
      PROVE  new[k].id = Cardinality({j \in LinesOf(new, new[k].conn) : j <= k})
  <2>1. {j \in LinesOf(new, log[k].conn) : j <= k} = {j \in LinesOf(log, log[k].conn) : j <= k}
    BY <1>1, <1>3 DEF LinesOf
  <2>. QED  BY <1>1, <2>1 DEF Ordered
<1>4. new[n + 1].id = Cardinality({j \in LinesOf(new, new[n + 1].conn) : j <= n + 1})
  <2>1. {j \in LinesOf(new, l.conn) : j <= n + 1} = LinesOf(new, l.conn)
    BY <1>1 DEF LinesOf
  <2>2. Cardinality(LinesOf(new, l.conn)) = Cardinality(LinesOf(log, l.conn)) + 1
    BY <1>2, LinesAppend DEF new
  <2>. QED  BY <1>1, <2>1, <2>2
<1>5. Ordered(new)
  <2>1. \A k \in DOMAIN new : k \in 1..n \/ k = n + 1
    BY <1>1
  <2>. QED  BY <1>3, <1>4, <2>1 DEF Ordered
<1>. QED  BY <1>5 DEF new

LEMMA OrderedFront ==
  ASSUME NEW log \in Seq(Line), NEW m \in 0..Len(log), Ordered(log)
  PROVE  Ordered(SubSeq(log, 1, m))
<1> DEFINE n == Len(log)
           front == SubSeq(log, 1, m)
<1>1. /\ n \in Nat /\ m \in Nat /\ m <= n /\ DOMAIN log = 1..n /\ DOMAIN front = 1..m
      /\ \A k \in 1..m : front[k] = log[k]
  OBVIOUS
<1> HIDE DEF front, n
<1>2. ASSUME NEW k \in 1..m
      PROVE  front[k].id = Cardinality({j \in LinesOf(front, front[k].conn) : j <= k})
  <2>1. {j \in LinesOf(front, log[k].conn) : j <= k} = {j \in LinesOf(log, log[k].conn) : j <= k}
    BY <1>1, <1>2 DEF LinesOf
  <2>. QED  BY <1>1, <2>1 DEF Ordered
<1>3. Ordered(front)
  BY <1>1, <1>2 DEF Ordered
<1>. QED  BY <1>3 DEF front

-----------------------------------------------------------------------------
(* How the log follows the newest file. *)
LEMMA LinesFollow ==
  ASSUME TypeOK, disk # << >>, NEW f \in File, Last1(f)
  PROVE  \E p \in Seq(Line) : AllLines = p \o Current.lines /\ AllLines' = p \o f.lines
<1> DEFINE n == Len(disk)
           R == Seq(Line)
           ss == [i \in DOMAIN disk |-> disk[i].lines]
           tt == [i \in DOMAIN disk' |-> disk'[i].lines]
<1>1. /\ disk' \in Seq(File) /\ Len(disk') = n /\ disk \in Seq(File)
      /\ n \in Nat \ {0} /\ disk'[n] = f /\ disk[n] = Current
      /\ \A i \in 1..n - 1 : disk'[i] = disk[i]
  BY LastChanged DEF Current, TypeOK
<1>2. /\ DOMAIN disk = 1..n /\ DOMAIN disk' = 1..n
      /\ \A i \in 1..n : disk[i] \in File /\ disk'[i] \in File
  BY <1>1
<1> HIDE DEF n
<1>3. \A i \in 1..n : disk[i].lines \in R /\ disk'[i].lines \in R
  BY <1>2 DEF File
<1>4. ss \in Seq(R) /\ Len(ss) = n /\ tt \in Seq(R) /\ Len(tt) = n
  <2> HIDE DEF R
  <2>. QED  BY <1>1, <1>2, <1>3
<1>5. /\ ss[n] = Current.lines /\ tt[n] = f.lines
      /\ \A i \in 1..n - 1 : tt[i] = ss[i]
  BY <1>1, <1>2
<1> HIDE DEF ss, tt
<1>6. SameFront(ss, tt)
  BY <1>1, <1>4, <1>5 DEF SameFront
<1>7. \E p \in Seq(Line) : FlattenSeq(ss) = p \o ss[Len(ss)] /\ FlattenSeq(tt) = p \o tt[Len(tt)]
  <2>1. ss \in Seq(Seq(Line)) /\ tt \in Seq(Seq(Line))
    BY <1>4
  <2>. QED  BY <1>6, <2>1, FlattenReplace
<1>8. AllLines = FlattenSeq(ss) /\ AllLines' = FlattenSeq(tt)
  BY DEF AllLines, ss, tt
<1>. QED  BY <1>4, <1>5, <1>7, <1>8

LEMMA LinesNewFile ==
  ASSUME TypeOK, disk' = Append(disk, NewFile)
  PROVE  AllLines' = AllLines /\ AllLines \in Seq(Line)
<1> DEFINE n == Len(disk)
           R == Seq(Line)
           none == << >>
           ss == [i \in DOMAIN disk |-> disk[i].lines]
           tt == [i \in DOMAIN disk' |-> disk'[i].lines]
<1>1. /\ n \in Nat /\ DOMAIN disk = 1..n /\ DOMAIN disk' = 1..(n + 1)
      /\ disk'[n + 1] = NewFile /\ NewFile.lines = none
      /\ \A i \in 1..n : disk'[i] = disk[i] /\ disk[i] \in File
  BY DEF TypeOK, NewFile
<1> HIDE DEF n
<1>2. none \in R /\ \A i \in 1..n : disk[i].lines \in R
  BY <1>1 DEF File
<1> HIDE DEF R, none
<1>3. ss \in Seq(R) /\ Len(ss) = n
  BY <1>1, <1>2
<1>4. tt = Append(ss, none)
  <2> DEFINE v == Append(ss, none)
  <2>1. v \in Seq(R) /\ Len(v) = n + 1 /\ v[n + 1] = none /\ \A i \in 1..n : v[i] = ss[i]
    <3> HIDE DEF ss
    <3>. QED  BY <1>1, <1>2, <1>3
  <2>2. \A i \in 1..(n + 1) : tt[i] = v[i]
    <3> HIDE DEF v
    <3>1. \A i \in 1..n : tt[i] = ss[i]
      BY <1>1
    <3>2. tt[n + 1] = none
      BY <1>1
    <3> HIDE DEF ss, tt
    <3>3. \A i \in 1..(n + 1) : i \in 1..n \/ i = n + 1
      BY <1>1
    <3>. QED  BY <2>1, <3>1, <3>2, <3>3
  <2>3. v = [i \in 1..(n + 1) |-> v[i]]
    <3> HIDE DEF v
    <3>. QED  BY <1>1, <2>1
  <2>4. tt = [i \in 1..(n + 1) |-> tt[i]]
    BY <1>1
  <2> HIDE DEF v, tt
  <2>5. v = tt
    BY <2>2, <2>3, <2>4
  <2>. QED  BY <2>5 DEF v
<1>5. FlattenSeq(ss) \in Seq(Line) /\ FlattenSeq(Append(ss, none)) = FlattenSeq(ss) \o none
  <2> HIDE DEF ss
  <2>. QED  BY <1>2, <1>3, FlattenAppend DEF R
<1>6. FlattenSeq(ss) \o none = FlattenSeq(ss)
  <2> HIDE DEF ss
  <2>. QED  BY <1>5 DEF none
<1>. QED  BY <1>4, <1>5, <1>6 DEF AllLines

LEMMA LinesType == TypeOK => AllLines \in Seq(Line)
<1> DEFINE R == Seq(Line)
           none == << >>
           n == Len(disk)
           ss == [i \in DOMAIN disk |-> disk[i].lines]
<1> SUFFICES ASSUME TypeOK PROVE AllLines \in Seq(Line)
  OBVIOUS
<1>1. n \in Nat /\ DOMAIN disk = 1..n /\ \A i \in 1..n : disk[i] \in File
  BY DEF TypeOK
<1> HIDE DEF n
<1>2. none \in R /\ \A i \in 1..n : disk[i].lines \in R
  BY <1>1 DEF File
<1> HIDE DEF R, none
<1>3. ss \in Seq(R)
  BY <1>1, <1>2
<1>4. FlattenSeq(ss) \in Seq(Line)
  <2> HIDE DEF ss
  <2>. QED  BY <1>2, <1>3, FlattenAppend DEF R
<1>. QED  BY <1>4 DEF AllLines

-----------------------------------------------------------------------------
(* Every step but Write and a power loss leaves the lines alone. *)
LEMMA SameLines ==
  ASSUME IInv,
         \/ \E c \in Conns : Emit(c) \/ Degrade(c) \/ (WriteEvent(c) /\ ~Write(c))
         \/ CloseSync \/ CloseShut \/ (Crash /\ UNCHANGED disk) \/ UNCHANGED vars
  PROVE  AllLines' = AllLines
<1>1. CASE UNCHANGED disk
  BY <1>1 DEF AllLines
<1>2. ASSUME NEW f \in File, f.lines = Current.lines, Last1(f) PROVE AllLines' = AllLines
  <2>1. \E p \in Seq(Line) : AllLines = p \o Current.lines /\ AllLines' = p \o f.lines
    BY <1>2, LinesFollow DEF IInv, Newest
  <2>. QED  BY <1>2, <2>1
<1>3. Current \in File
  BY CurrentIsFile DEF IInv, Newest
<1>4. CASE Last1([Current EXCEPT !.synced = Len(Current.lines)])
  <2> DEFINE f == [Current EXCEPT !.synced = Len(Current.lines)]
  <2>1. f \in File /\ f.lines = Current.lines
    BY <1>3, CurrentIsFile DEF File, IInv, Newest
  <2>. QED  BY <1>2, <1>4, <2>1
<1>5. CASE Last1([Current EXCEPT !.torn = TRUE])
  <2> DEFINE f == [Current EXCEPT !.torn = TRUE]
  <2>1. f \in File /\ f.lines = Current.lines
    BY <1>3 DEF File
  <2>. QED  BY <1>2, <1>5, <2>1
<1>6. CASE disk' = Append(disk, NewFile)
  BY <1>6, LinesNewFile DEF IInv
<1>7. \/ UNCHANGED disk \/ disk' = Append(disk, NewFile)
      \/ Last1([Current EXCEPT !.synced = Len(Current.lines)])
      \/ Last1([Current EXCEPT !.torn = TRUE])
  BY DEF Emit, Degrade, WriteEvent, Refuse, Enter, Sync, SyncFails, Shut, ShutFails, Create,
         CreateFails, WriteFails, CloseSync, CloseShut, SafeAfterSync, vars
<1>. QED  BY <1>1, <1>4, <1>5, <1>6, <1>7

LEMMA WriteCounts ==
  ASSUME IInv, Ordered(AllLines), Counted, NEW c \in Conns, Write(c)
  PROVE  Ordered(AllLines)' /\ Counted'
<1> DEFINE l == [conn |-> c, id |-> emitted[c], bytes |-> event[c]]
           f == [Current EXCEPT !.lines = Append(@, l)]
<1>1. l \in Line /\ Current.lines \in Seq(Line) /\ Current \in File /\ Last1(f)
  <2>1. l \in Line
    BY SizesAssumption DEF Line, IInv, Sized, Inside, TypeOK, Write, At
  <2>. QED  BY <2>1, CurrentIsFile DEF IInv, Newest, Write
<1>2. l.conn = c /\ l.id = emitted[c]
  OBVIOUS
<1> HIDE DEF l
<1>3. f \in File /\ f.lines = Append(Current.lines, l)
  BY <1>1 DEF File
<1>4. AllLines' = Append(AllLines, l)
  <2>1. PICK p \in Seq(Line) : AllLines = p \o Current.lines /\ AllLines' = p \o f.lines
    BY <1>1, <1>3, LinesFollow DEF IInv, Newest
  <2>2. p \o Append(Current.lines, l) = Append(p \o Current.lines, l)
    BY <1>1
  <2>. QED  BY <1>3, <2>1, <2>2
<1>5. AllLines \in Seq(Line)
  BY LinesType DEF IInv
<1>6. host = "up" /\ host' = host /\ pc[c] \in Entered /\ UNCHANGED <<emitted, jsonlHealthy>>
      /\ pc' = [pc EXCEPT ![c] = "idle"]
  BY DEF Write, At, Goto, Entered, Inside
<1>7. \A d \in Conns : /\ Cardinality(LinesOf(AllLines, d)) \in Nat
                        /\ Cardinality(LinesOf(Append(AllLines, l), d)) =
                             Cardinality(LinesOf(AllLines, d)) + IF d = c THEN 1 ELSE 0
  BY <1>1, <1>2, <1>5, LinesAppend
<1>8. Cardinality(LinesOf(AllLines, c)) + 1 = emitted[c]
  BY <1>6 DEF Counted
<1>9. Ordered(Append(AllLines, l))
  BY <1>1, <1>2, <1>5, <1>8, OrderedAppend
<1>10. \A d \in Conns : LinesOf(AllLines, d)' = LinesOf(Append(AllLines, l), d)
  BY <1>4 DEF LinesOf
<1>11. Counted'
  <2> SUFFICES ASSUME NEW d \in Conns
               PROVE  /\ pc'[d] \in Entered => Cardinality(LinesOf(AllLines, d))' + 1 = emitted'[d]
                      /\ pc'[d] = "idle" /\ jsonlHealthy' =>
                            Cardinality(LinesOf(AllLines, d))' = emitted'[d]
    BY DEF Counted
  <2>1. CASE d = c
    <3>1. pc'[d] = "idle" /\ pc'[d] \notin Entered
      BY <1>6, <2>1 DEF IInv, TypeOK, Actors, Entered, Inside
    <3>. QED  BY <1>6, <1>7, <1>8, <1>10, <2>1, <3>1
  <2>2. CASE d # c
    <3>1. pc'[d] = pc[d] /\ Cardinality(LinesOf(AllLines, d))' = Cardinality(LinesOf(AllLines, d))
      BY <1>6, <1>7, <1>10, <2>2
    <3>. QED  BY <1>6, <3>1 DEF Counted
  <2>. QED  BY <2>1, <2>2
<1>12. Ordered(AllLines)'
  BY <1>4, <1>9 DEF Ordered, LinesOf
<1>. QED  BY <1>11, <1>12

(* A power loss leaves the first lines of the log. *)
LEMMA CrashOrdered ==
  ASSUME IInv, Ordered(AllLines), Crash
  PROVE  Ordered(AllLines)'
<1>1. CASE UNCHANGED disk
  BY <1>1 DEF Ordered, LinesOf, AllLines
<1>2. ASSUME NEW n \in Current.synced..Len(Current.lines), NEW torn \in BOOLEAN,
             Last1([Current EXCEPT !.lines = SubSeq(@, 1, n), !.torn = torn])
      PROVE  Ordered(AllLines)'
  <2> DEFINE f == [Current EXCEPT !.lines = SubSeq(@, 1, n), !.torn = torn]
             s == Current.lines
             t == SubSeq(s, 1, n)
  <2>1. Current \in File /\ s \in Seq(Line) /\ Len(s) \in Nat /\ Current.synced \in Nat
    BY CurrentIsFile DEF IInv, Newest
  <2>2. n \in Nat /\ n <= Len(s)
    BY <2>1, <1>2
  <2>3. t \in Seq(Line)
    BY <2>1, <2>2
  <2>4. f \in File /\ f.lines = t
    BY <2>1, <2>3 DEF File
  <2>5. PICK p \in Seq(Line) : AllLines = p \o s /\ AllLines' = p \o f.lines
    BY <1>2, <2>4, LinesFollow DEF IInv, Newest
  <2> DEFINE m == Len(p) + n
             log == p \o s
  <2>6. log \in Seq(Line) /\ m \in 0..Len(log)
    BY <2>1, <2>2, ConcatProperties
  <2>7. SubSeq(log, 1, m) = p \o t
    <3> DEFINE u == SubSeq(log, 1, m)
               v == p \o t
    <3>1. /\ Len(p) \in Nat /\ Len(log) = Len(p) + Len(s)
          /\ \A i \in 1..Len(p) + Len(s) : log[i] = IF i <= Len(p) THEN p[i] ELSE s[i - Len(p)]
      BY <2>1, ConcatProperties
    <3>2. Len(t) = n /\ \A i \in 1..n : t[i] = s[i]
      BY <2>1, <2>2
    <3>3. /\ v \in Seq(Line) /\ Len(v) = Len(p) + Len(t)
          /\ \A i \in 1..Len(p) + Len(t) : v[i] = IF i <= Len(p) THEN p[i] ELSE t[i - Len(p)]
      BY <2>3, ConcatProperties
    <3> HIDE DEF v, t, s
    <3>4. u \in Seq(Line) /\ Len(u) = m /\ \A i \in 1..m : u[i] = log[i]
      <4> HIDE DEF log
      <4>. QED  BY <2>2, <2>6, <3>1
    <3> HIDE DEF u, log
    <3>5. \A i \in 1..m : u[i] = v[i]
      <4> SUFFICES ASSUME NEW i \in 1..m PROVE u[i] = v[i]
        OBVIOUS
      <4>1. CASE i <= Len(p)
        <5>1. i \in 1..Len(p) + Len(s) /\ i \in 1..Len(p) + Len(t)
          BY <2>1, <2>2, <3>1, <3>2
        <5>2. u[i] = log[i] /\ log[i] = p[i]
          BY <3>1, <3>4, <4>1, <5>1
        <5>3. v[i] = p[i]
          BY <3>3, <4>1, <5>1
        <5>. QED  BY <5>2, <5>3
      <4>2. CASE ~(i <= Len(p))
        <5>1. i - Len(p) \in 1..n
          BY <2>2, <3>1, <4>2
        <5>2. u[i] = s[i - Len(p)] /\ v[i] = t[i - Len(p)]
          BY <2>1, <2>2, <3>1, <3>2, <3>3, <3>4, <4>2
        <5>. QED  BY <3>2, <5>1, <5>2
      <4>. QED  BY <4>1, <4>2
    <3>6. u = v
      BY <3>2, <3>3, <3>4, <3>5, SeqEqual
    <3>. QED  BY <3>6 DEF u, v
  <2>8. AllLines' = SubSeq(AllLines, 1, m) /\ AllLines = log
    BY <2>4, <2>5, <2>7
  <2>9. Ordered(SubSeq(log, 1, m))
    <3> HIDE DEF log, m
    <3>. QED  BY <2>6, <2>8, OrderedFront
  <2>. QED  BY <2>8, <2>9 DEF Ordered, LinesOf
<1>. QED  BY <1>1, <1>2 DEF Crash

LEMMA NextLines == IInv /\ Ordered(AllLines) /\ Counted /\ [Next]_vars => Ordered(AllLines)' /\ Counted'
<1> SUFFICES ASSUME IInv, Ordered(AllLines), Counted, [Next]_vars PROVE Ordered(AllLines)' /\ Counted'
  OBVIOUS
<1>1. ASSUME AllLines' = AllLines
      PROVE  /\ Ordered(AllLines)'
             /\ \A d \in Conns : Cardinality(LinesOf(AllLines, d))' = Cardinality(LinesOf(AllLines, d))
  BY <1>1 DEF Ordered, LinesOf
<1>2. ASSUME NEW c \in Conns, Emit(c) \/ Degrade(c) \/ (WriteEvent(c) /\ ~Write(c))
      PROVE  Ordered(AllLines)' /\ Counted'
  <2>1. AllLines' = AllLines
    BY <1>2, SameLines
  <2>2. /\ host = "up" /\ host' = host
        /\ \A d \in Conns : d # c => pc'[d] = pc[d] /\ emitted'[d] = emitted[d]
        /\ jsonlHealthy' => jsonlHealthy
        /\ \/ emitted'[c] = emitted[c] /\ pc'[c] = "failed"
           \/ emitted'[c] = emitted[c] /\ pc'[c] = "idle" /\ ~jsonlHealthy'
           \/ emitted'[c] = emitted[c] /\ pc[c] \in Entered /\ pc'[c] \in Entered
           \/ ~jsonlHealthy /\ pc[c] = "idle" /\ pc'[c] = "idle"
           \/ /\ emitted'[c] = emitted[c] + 1 /\ pc[c] = "idle" /\ pc'[c] = "lock" /\ jsonlHealthy
    <3> USE DEF IInv, TypeOK, Actors, At, Goto, Fail, Lock, Entered, Inside
    <3>1. CASE Emit(c)
      BY <3>1 DEF Emit
    <3>2. CASE Degrade(c)
      BY <3>2 DEF Degrade, HealthyAfter
    <3>3. CASE Refuse(c) \/ SyncFails(c) \/ ShutFails(c) \/ CreateFails(c) \/ WriteFails(c)
      BY <3>3 DEF Refuse, SyncFails, ShutFails, CreateFails, WriteFails
    <3>4. CASE Enter(c) \/ Sync(c) \/ Shut(c) \/ Create(c)
      BY <3>4 DEF Enter, Sync, Shut, Create
    <3>. QED  BY <1>2, <3>1, <3>2, <3>3, <3>4 DEF WriteEvent
  <2>. QED  BY <1>1, <2>1, <2>2 DEF Counted, Entered, Inside
<1>3. ASSUME NEW c \in Conns, Write(c) PROVE Ordered(AllLines)' /\ Counted'
  BY <1>3, WriteCounts
<1>4. CASE CloseSync \/ CloseShut \/ UNCHANGED vars
  <2>1. AllLines' = AllLines
    BY <1>4, SameLines
  <2>2. /\ host' = host /\ emitted' = emitted /\ jsonlHealthy' = jsonlHealthy
        /\ \A d \in Conns : pc'[d] = pc[d]
    BY <1>4, NamesAssumption DEF CloseSync, CloseShut, Goto, IInv, TypeOK, Actors, vars
  <2>. QED  BY <1>1, <2>1, <2>2 DEF Counted
<1>5. CASE Crash
  BY <1>5, CrashOrdered DEF Crash, Counted
<1>. QED  BY <1>2, <1>3, <1>4, <1>5 DEF Next, Finished

LEMMA InitLines == Init => Ordered(AllLines) /\ Counted
<1> SUFFICES ASSUME Init PROVE Ordered(AllLines) /\ Counted
  OBVIOUS
<1>1. AllLines = << >>
  <2> DEFINE none == << >>
             ss == << >>
  <2>1. none \in Seq(Line) /\ ss \in Seq(Seq(Line))
    OBVIOUS
  <2>2. AllLines = FlattenSeq(Append(ss, none))
    <3>1. DOMAIN disk = {1} /\ disk[1].lines = none
      BY DEF Init, NewFile
    <3>2. [i \in DOMAIN disk |-> disk[i].lines] = [i \in {1} |-> none]
      BY <3>1
    <3>3. [i \in {1} |-> none] = Append(ss, none)
      OBVIOUS
    <3>. QED  BY <3>2, <3>3 DEF AllLines
  <2> HIDE DEF none, ss
  <2>3. FlattenSeq(Append(ss, none)) = FlattenSeq(ss) \o none
    BY <2>1, FlattenAppend
  <2>. QED  BY <2>2, <2>3, FlattenEmpty DEF none, ss
<1>2. \A c \in Conns : LinesOf(AllLines, c) = {}
  BY <1>1 DEF LinesOf
<1>3. \A c \in Conns : pc[c] = "idle" /\ emitted[c] = 0
  BY DEF Init, Actors
<1>. QED  BY <1>1, <1>2, <1>3, FS_EmptySet DEF Ordered, Counted, Entered, Inside

LEMMA AlwaysLines == Spec => [](IInv /\ Ordered(AllLines) /\ Counted)
  BY InitIInv, NextIInv, InitLines, NextLines, PTL DEF Spec

(* What the log says of a connection has no hole: the n-th line of a        *)
(* handler is its n-th event, whatever failed, in whichever handler, and    *)
(* whatever a power loss took (engine.go:204-212, jsonl.go:193-226).        *)
THEOREM EventsAlwaysPrefix == Spec => []EventsPrefix
<1>1. Ordered(AllLines) => EventsPrefix
  BY DEF Ordered, EventsPrefix
<1>. QED  BY <1>1, AlwaysLines, PTL

(* As long as jsonlHealthy is true every emit that came back has left its   *)
(* line, so that an event is never missing without the sensor saying so     *)
(* (engine.go:204-212).                                                     *)
THEOREM NothingEverLostSilently == Spec => []NothingLostSilently
<1>1. Counted => NothingLostSilently
  BY DEF Counted, NothingLostSilently
<1>. QED  BY <1>1, AlwaysLines, PTL
=============================================================================
