-------------------------- MODULE BWJWriterProofs --------------------------
(***************************************************************************)
(* Theorems about BWJWriter, for every set of handlers, every record and   *)
(* payload size and every rotation setting.                                *)
(***************************************************************************)
EXTENDS BWJWriter, SequenceLemmas, TLAPS

(* A file is still a file after one of its entries, or a mark, changes. *)
LEMMA FileUpdates ==
  ASSUME NEW f \in File
  PROVE  /\ \A e \in Entry : [f EXCEPT !.entries = Append(@, e)] \in File
         /\ [f EXCEPT !.header = TRUE] \in File
         /\ [f EXCEPT !.header = FALSE] \in File
         /\ Sealed(f) \in File
         /\ Units(f) \in Nat
<1>1. ASSUME NEW e \in Entry
      PROVE  [f EXCEPT !.entries = Append(@, e)] \in File
  <2>1. Append(f.entries, e) \in Seq(Entry)
    BY DEF File
  <2>. QED  BY <2>1 DEF File
<1>2. [f EXCEPT !.header = TRUE] \in File /\ [f EXCEPT !.header = FALSE] \in File
  BY DEF File
<1>3. Units(f) \in Nat
  <2>1. Len(f.entries) \in Nat
    BY DEF File
  <2>2. CASE f.header
    BY <2>1, <2>2 DEF Units
  <2>3. CASE ~f.header
    BY <2>1, <2>3 DEF Units
  <2>. QED  BY <2>2, <2>3
<1>4. Sealed(f) \in File
  BY <1>3 DEF Sealed, File
<1>. QED  BY <1>1, <1>2, <1>3, <1>4

(* Rewriting the mark of the last record of a file. *)
LEMMA MarkLast ==
  ASSUME NEW f \in File, f.entries # << >>, NEW b \in BOOLEAN
  PROVE  [f EXCEPT !.entries[Len(f.entries)].whole = b] \in File
<1>1. Len(f.entries) \in 1..Len(f.entries)
  BY DEF File
<1>2. f.entries[Len(f.entries)] \in Entry
  BY <1>1 DEF File
<1>3. [f.entries[Len(f.entries)] EXCEPT !.whole = b] \in Entry
  BY <1>2 DEF Entry
<1>4. [f.entries EXCEPT ![Len(f.entries)] = [f.entries[Len(f.entries)] EXCEPT !.whole = b]]
        \in Seq(Entry)
  BY <1>1, <1>3 DEF File
<1>. QED  BY <1>4 DEF File

LEMMA LoseUnitType ==
  ASSUME NEW f \in File
  PROVE  LoseUnit(f) \in File /\ TearUnit(f) \in File
<1>1. CASE f.entries = << >>
  BY <1>1, FileUpdates DEF LoseUnit, TearUnit
<1>2. CASE f.entries # << >>
  <2>1. SubSeq(f.entries, 1, Len(f.entries) - 1) \in Seq(Entry)
    BY <1>2 DEF File
  <2>2. LoseUnit(f) \in File
    BY <1>2, <2>1 DEF LoseUnit, File
  <2>3. TearUnit(f) \in File
    BY <1>2, MarkLast DEF TearUnit
  <2>. QED  BY <2>2, <2>3
<1>. QED  BY <1>1, <1>2

-----------------------------------------------------------------------------
(***************************************************************************)
(* The inductive invariant.  The mutex is needed because the steps of      *)
(* writeRecord assume that no one else moved the file; what the newest     *)
(* file looks like at every step of a rotation is needed to know that it   *)
(* is complete, and synced, when the next one is created.                  *)
(***************************************************************************)
InRecord == {"syncOld", "closeOld", "create", "fileHeader", "header", "payload"}

Locked ==
  /\ \A c \in Conns : pc[c] \in InRecord => mu = c
  /\ pc[Closer] \in {"closeSync", "closeFile"} => mu = Closer

Numbered(f) == \A k \in DOMAIN f.entries : f.entries[k].seq = k
TornAtEnd(f) ==
  /\ \A k \in 1..(Len(f.entries) - 1) : f.entries[k].whole
  /\ f.entries # << >> => f.header
Complete(f) == f.header /\ \A k \in DOMAIN f.entries : f.entries[k].whole
Safe(f) == f.synced = Units(f)

FilesInOrder(d) ==
  /\ d # << >>
  /\ \A i \in DOMAIN d : Numbered(d[i]) /\ TornAtEnd(d[i])
  /\ \A i \in 1..(Len(d) - 1) : Complete(d[i]) /\ Safe(d[i])

Newest == disk[Len(disk)]

Handle ==
  /\ ~failed => fileSequence = Len(disk)
  /\ file # 0 => file = Len(disk) /\ Newest.header
  /\ file = 0 => failed \/ closed \/ \E c \in Conns : pc[c] \in {"create", "fileHeader"}
  /\ file # 0 /\ ~failed =>
       /\ Len(Newest.entries) = recordSequence
       /\ (\A c \in Conns : pc[c] # "payload") => Complete(Newest)
  /\ pc[Closer] \in {"closeSync", "closeFile"} => file # 0 /\ closed

AtStep(c) ==
  /\ pc[c] \in InRecord => ~failed
  /\ pc[c] \in {"syncOld", "closeOld", "header", "payload"} => file # 0
  /\ pc[c] = "closeOld" => Safe(Newest)
  /\ pc[c] = "create" => file = 0 /\ Complete(Newest) /\ Safe(Newest)
  /\ pc[c] = "fileHeader" => file = 0 /\ Newest = NewFile
  /\ pc[c] = "payload" => Newest.entries # << >>

WriterState == host = "up" => Handle /\ \A c \in Conns : AtStep(c)

IInv == TypeOK /\ Locked /\ FilesInOrder(disk) /\ WriterState

-----------------------------------------------------------------------------
(* How the files change: only the newest one does, or a new one is added. *)

LEMMA ReplaceNewest ==
  ASSUME NEW d \in Seq(File), FilesInOrder(d),
         NEW g \in File, Numbered(g), TornAtEnd(g)
  PROVE  /\ [d EXCEPT ![Len(d)] = g] \in Seq(File)
         /\ Len([d EXCEPT ![Len(d)] = g]) = Len(d)
         /\ [d EXCEPT ![Len(d)] = g][Len(d)] = g
         /\ FilesInOrder([d EXCEPT ![Len(d)] = g])
<1> DEFINE e == [d EXCEPT ![Len(d)] = g]
<1>1. Len(d) \in DOMAIN d /\ Len(d) \in Nat /\ Len(d) > 0
  BY DEF FilesInOrder
<1>2. e \in Seq(File) /\ Len(e) = Len(d) /\ e[Len(d)] = g /\ DOMAIN e = DOMAIN d
  BY <1>1
<1>3. \A i \in 1..(Len(d) - 1) : e[i] = d[i] /\ i \in DOMAIN d
  BY <1>1
<1>4. FilesInOrder(e)
  <2>1. e # << >>
    BY <1>1, <1>2
  <2>2. \A i \in DOMAIN e : Numbered(e[i]) /\ TornAtEnd(e[i])
    BY <1>1, <1>2, <1>3 DEF FilesInOrder
  <2>3. \A i \in 1..(Len(e) - 1) : Complete(e[i]) /\ Safe(e[i])
    BY <1>2, <1>3 DEF FilesInOrder
  <2>. QED  BY <2>1, <2>2, <2>3 DEF FilesInOrder
<1>. QED  BY <1>2, <1>4

LEMMA NewFileType ==
  /\ NewFile \in File
  /\ Numbered(NewFile)
  /\ TornAtEnd(NewFile)
  BY DEF NewFile, File, Numbered, TornAtEnd

LEMMA AddFile ==
  ASSUME NEW d \in Seq(File), FilesInOrder(d),
         Complete(d[Len(d)]), Safe(d[Len(d)])
  PROVE  /\ Append(d, NewFile) \in Seq(File)
         /\ Len(Append(d, NewFile)) = Len(d) + 1
         /\ Append(d, NewFile)[Len(d) + 1] = NewFile
         /\ FilesInOrder(Append(d, NewFile))
<1> DEFINE e == Append(d, NewFile)
<1>1. Len(d) \in Nat /\ Len(d) > 0
  BY DEF FilesInOrder
<1>2. /\ e \in Seq(File)
      /\ Len(e) = Len(d) + 1
      /\ e[Len(d) + 1] = NewFile
      /\ \A i \in 1..Len(d) : e[i] = d[i]
  BY NewFileType, <1>1
<1>3. FilesInOrder(e)
  <2>1. e # << >>
    BY <1>1, <1>2
  <2>2. \A i \in DOMAIN e : Numbered(e[i]) /\ TornAtEnd(e[i])
    <3>1. \A i \in DOMAIN e : i \in 1..Len(d) \/ i = Len(d) + 1
      BY <1>1, <1>2
    <3>. QED  BY <1>1, <1>2, <3>1, NewFileType DEF FilesInOrder
  <2>3. \A i \in 1..(Len(e) - 1) : Complete(e[i]) /\ Safe(e[i])
    <3>1. \A i \in 1..(Len(e) - 1) : i \in 1..(Len(d) - 1) \/ i = Len(d)
      BY <1>1, <1>2
    <3>. QED  BY <1>1, <1>2, <3>1 DEF FilesInOrder
  <2>. QED  BY <2>1, <2>2, <2>3 DEF FilesInOrder
<1>. QED  BY <1>2, <1>3

(* A record added after complete ones is the next in order. *)
LEMMA AppendRecord ==
  ASSUME NEW f \in File, f.header, Numbered(f), Complete(f),
         NEW e \in Entry, e.seq = Len(f.entries) + 1
  PROVE  LET g == [f EXCEPT !.entries = Append(@, e)] IN
         /\ g \in File
         /\ Numbered(g)
         /\ TornAtEnd(g)
         /\ g.header
         /\ Len(g.entries) = Len(f.entries) + 1
         /\ g.entries # << >>
         /\ e.whole => Complete(g)
<1> DEFINE g == [f EXCEPT !.entries = Append(@, e)]
<1>1. /\ f.entries \in Seq(Entry)
      /\ Len(f.entries) \in Nat
  BY DEF File
<1>2. /\ g \in File
      /\ g.entries = Append(f.entries, e)
      /\ g.header
  BY FileUpdates DEF File
<1>3. /\ Len(g.entries) = Len(f.entries) + 1
      /\ DOMAIN g.entries = 1..(Len(f.entries) + 1)
      /\ \A k \in 1..Len(f.entries) : g.entries[k] = f.entries[k]
      /\ g.entries[Len(f.entries) + 1] = e
  BY <1>1, <1>2
<1>4. \A k \in DOMAIN g.entries : k \in 1..Len(f.entries) \/ k = Len(f.entries) + 1
  BY <1>1, <1>3
<1>5. Numbered(g)
  BY <1>1, <1>3, <1>4 DEF Numbered
<1>6. TornAtEnd(g)
  BY <1>1, <1>2, <1>3 DEF TornAtEnd, Complete
<1>7. g.entries # << >>
  BY <1>1, <1>3
<1>8. e.whole => Complete(g)
  BY <1>1, <1>2, <1>3, <1>4 DEF Complete
<1>. QED  BY <1>2, <1>3, <1>5, <1>6, <1>7, <1>8

(* The last record becomes whole, or is torn. *)
LEMMA MarkRecord ==
  ASSUME NEW f \in File, f.entries # << >>, Numbered(f), TornAtEnd(f), NEW b \in BOOLEAN
  PROVE  LET g == [f EXCEPT !.entries[Len(f.entries)].whole = b] IN
         /\ g \in File
         /\ Numbered(g)
         /\ TornAtEnd(g)
         /\ g.header
         /\ Len(g.entries) = Len(f.entries)
         /\ b => Complete(g)
<1> DEFINE g == [f EXCEPT !.entries[Len(f.entries)].whole = b]
           n == Len(f.entries)
<1>1. f.entries \in Seq(Entry) /\ n \in Nat /\ n > 0 /\ n \in DOMAIN f.entries
  BY DEF File
<1>2. g \in File
  BY MarkLast
<1>3. /\ g.entries = [f.entries EXCEPT ![n] = [@ EXCEPT !.whole = b]]
      /\ g.header = f.header
  BY DEF File
<1>4. f.entries[n] \in Entry
  BY <1>1
<1>5. /\ Len(g.entries) = n
      /\ DOMAIN g.entries = DOMAIN f.entries
      /\ \A k \in 1..(n - 1) : g.entries[k] = f.entries[k]
      /\ g.entries[n] = [f.entries[n] EXCEPT !.whole = b]
  BY <1>1, <1>3
<1>6. g.entries[n].whole = b /\ g.entries[n].seq = f.entries[n].seq
  BY <1>4, <1>5 DEF Entry
<1>7. \A k \in DOMAIN g.entries : k \in 1..(n - 1) \/ k = n
  BY <1>1, <1>5
<1>8. Numbered(g)
  BY <1>1, <1>5, <1>6, <1>7 DEF Numbered
<1>9. TornAtEnd(g) /\ g.header
  BY <1>1, <1>3, <1>5 DEF TornAtEnd
<1>10. b => Complete(g)
  BY <1>1, <1>5, <1>6, <1>7, <1>9 DEF TornAtEnd, Complete
<1>. QED  BY <1>2, <1>5, <1>8, <1>9, <1>10

(* Losing the newest unit of a file, or tearing it, leaves it in order. *)
LEMMA LoseRecord ==
  ASSUME NEW f \in File, Numbered(f), TornAtEnd(f)
  PROVE  /\ LoseUnit(f) \in File /\ Numbered(LoseUnit(f)) /\ TornAtEnd(LoseUnit(f))
         /\ TearUnit(f) \in File /\ Numbered(TearUnit(f)) /\ TornAtEnd(TearUnit(f))
<1>1. CASE f.entries = << >>
  <2>1. LoseUnit(f) = [f EXCEPT !.header = FALSE] /\ TearUnit(f) = LoseUnit(f)
    BY <1>1 DEF LoseUnit, TearUnit
  <2>2. LoseUnit(f) \in File /\ LoseUnit(f).entries = << >>
    BY <1>1, <2>1, FileUpdates DEF File
  <2>. QED  BY <2>1, <2>2 DEF Numbered, TornAtEnd
<1>2. CASE f.entries # << >>
  <2> DEFINE g == LoseUnit(f)
             n == Len(f.entries)
  <2>1. f.entries \in Seq(Entry) /\ n \in Nat /\ n > 0 /\ f.header
    BY <1>2 DEF File, TornAtEnd
  <2>2. g \in File /\ g.entries = SubSeq(f.entries, 1, n - 1) /\ g.header
    BY <1>2, <2>1, LoseUnitType DEF LoseUnit, File
  <2>3. /\ Len(g.entries) = n - 1
        /\ DOMAIN g.entries = 1..(n - 1)
        /\ \A k \in 1..(n - 1) : g.entries[k] = f.entries[k]
    BY <2>1, <2>2
  <2>4. Numbered(g)
    <3>1. \A k \in DOMAIN g.entries : k \in DOMAIN f.entries
      BY <2>1, <2>3
    <3>. HIDE DEF g, n
    <3>. QED  BY <2>3, <3>1 DEF Numbered
  <2>5. TornAtEnd(g)
    <3>1. \A k \in 1..(Len(g.entries) - 1) : k \in 1..(n - 1)
      BY <2>1, <2>3
    <3>. HIDE DEF g
    <3>. QED  BY <2>2, <2>3, <3>1 DEF TornAtEnd
  <2>. QED  BY <1>2, <2>2, <2>4, <2>5, MarkRecord DEF TearUnit
<1>. QED  BY <1>1, <1>2

-----------------------------------------------------------------------------
(* The invariant holds when NewBWJWriter returns. *)
LEMMA InitIInv == Init => IInv
<1> SUFFICES ASSUME Init PROVE IInv
  OBVIOUS
<1> USE DEF Init
<1> DEFINE f == [NewFile EXCEPT !.header = TRUE]
<1>1. f \in File /\ f.entries = << >> /\ f.header /\ disk = << f >>
  BY NewFileType, FileUpdates DEF NewFile
<1>2. Len(disk) = 1 /\ disk[1] = f /\ disk \in Seq(File) /\ DOMAIN disk = {1}
  BY <1>1
<1>3. TypeOK
  BY <1>2, SizesAssumption DEF TypeOK, Actors
<1>4. Locked
  BY DEF Locked, InRecord, Actors
<1>5. Numbered(f) /\ TornAtEnd(f) /\ Complete(f) /\ Len(f.entries) = 0
  BY <1>1 DEF Numbered, TornAtEnd, Complete
<1>6. FilesInOrder(disk)
  <2>. HIDE DEF f, Init
  <2>1. disk # << >> /\ 1..(Len(disk) - 1) = {}
    BY <1>2
  <2>. QED  BY <1>2, <1>5, <2>1 DEF FilesInOrder
<1>7. WriterState
  <2>1. \A a \in Actors : pc[a] = "idle"
    OBVIOUS
  <2>2. \A c \in Conns : AtStep(c)
    BY <2>1 DEF AtStep, Actors, InRecord
  <2>3. Newest = f
    BY <1>2 DEF Newest
  <2>4. Handle
    BY <1>1, <1>2, <1>5, <2>1, <2>3 DEF Handle, Actors
  <2>. QED  BY <2>2, <2>4 DEF WriterState
<1>. QED  BY <1>3, <1>4, <1>6, <1>7 DEF IInv

LEMMA ChunkSize ==
  ASSUME TypeOK, NEW c \in Conns
  PROVE  Chunk(c) \in Nat /\ Chunk(c) <= left[c] /\ Chunk(c) <= MaxDataPayload
  BY SizesAssumption DEF TypeOK, Chunk, Min2

-----------------------------------------------------------------------------
(* Every step preserves it: first the ones that leave the files alone. *)

LEMMA CallStep ==
  ASSUME IInv, NEW c \in Conns, WriteMeta(c) \/ WriteData(c)
  PROVE  IInv'
<1>1. PICK size \in Nat : StartCall(c, size)
  BY CallsAssumption, SizesAssumption DEF WriteMeta, WriteData
<1>2. /\ pc' \in [Actors -> {"idle", "lock", "syncOld", "closeOld", "create", "fileHeader",
                             "header", "payload", "closeSync", "closeFile", "done"}]
      /\ \A a \in Actors : pc'[a] = pc[a] \/ (pc[a] = "idle" /\ pc'[a] = "lock")
      /\ result' \in [Actors -> {"none", "nil", "error"}]
  <2>1. /\ pc[c] = "idle"
        /\ pc' = pc \/ pc' = [pc EXCEPT ![c] = "lock"]
        /\ result' = result \/ result' = [result EXCEPT ![c] = "nil"]
    BY DEF WriteMeta, WriteData, StartCall, Goto
  <2>2. /\ pc \in [Actors -> {"idle", "lock", "syncOld", "closeOld", "create", "fileHeader",
                              "header", "payload", "closeSync", "closeFile", "done"}]
        /\ result \in [Actors -> {"none", "nil", "error"}]
    BY DEF IInv, TypeOK
  <2>. QED  BY <2>1, <2>2 DEF Actors
<1>3. TypeOK'
  BY <1>1, <1>2 DEF IInv, TypeOK, StartCall, writer
<1>4. Locked'
  BY <1>1, <1>2 DEF IInv, Locked, StartCall, InRecord, Actors
<1>5. FilesInOrder(disk)'
  BY <1>1 DEF IInv, StartCall
<1>6. WriterState'
  BY <1>1, <1>2 DEF IInv, WriterState, Handle, AtStep, StartCall, writer, Newest, InRecord, Actors
<1>. QED  BY <1>3, <1>4, <1>5, <1>6 DEF IInv

LEMMA EnterStep ==
  ASSUME IInv, NEW c \in Conns, Enter(c)
  PROVE  IInv'
<1> USE DEF Lock, Goto
<1>1. disk' = disk /\ FilesInOrder(disk)'
  BY DEF IInv, Enter, Refuse, Usable, EnterRotate, RotateFirst, EnterWrite
<1>2. TypeOK'
  BY DEF IInv, TypeOK, Enter, Refuse, Usable, EnterRotate, RotateFirst, EnterWrite, writer, ghosts, Actors
<1>3. Locked'
  BY ConnsAssumption
     DEF IInv, TypeOK, Locked, InRecord, Enter, Refuse, Usable, EnterRotate, RotateFirst, EnterWrite, Actors
<1>4. \A d \in Conns : d # c => pc'[d] = pc[d]
  BY DEF IInv, TypeOK, Enter, Refuse, Usable, EnterRotate, RotateFirst, EnterWrite, Actors
<1>5. \A d \in Conns : pc[d] \notin InRecord
  BY ConnsAssumption DEF IInv, Locked, Enter, Refuse, Usable, EnterRotate, RotateFirst, EnterWrite
<1>6. ASSUME host' = "up" PROVE Handle' /\ \A d \in Conns : AtStep(d)'
  <2>1. Handle /\ \A d \in Conns : AtStep(d)
    BY <1>6 DEF IInv, WriterState, Enter, Refuse, Usable, EnterRotate, RotateFirst, EnterWrite
  <2>2. CASE Refuse(c)
    BY <2>1, <2>2, <1>4, <1>5 DEF Refuse, Usable, Handle, AtStep, Newest, writer, IInv, TypeOK, Actors, InRecord
  <2>3. CASE EnterRotate(c)
    BY <2>1, <2>3, <1>4, <1>5 DEF EnterRotate, RotateFirst, Usable, Handle, AtStep, Newest, writer, IInv, TypeOK, Actors, InRecord
  <2>4. CASE EnterWrite(c)
    BY <2>1, <2>4, <1>4, <1>5
       DEF EnterWrite, Usable, ShouldRotate, Handle, AtStep, Newest, writer, IInv, TypeOK, Actors, InRecord
  <2>. QED  BY <2>2, <2>3, <2>4 DEF Enter
<1>. QED  BY <1>1, <1>2, <1>3, <1>6 DEF IInv, WriterState

(* A failure ends the record and remembers the error; whatever happened to *)
(* the newest file, nothing is assumed of it any more but its order.       *)
LEMMA FailureStep ==
  ASSUME IInv, NEW c \in Conns, At(c, pc[c]), pc[c] \in InRecord, FailLocked(c),
         UNCHANGED <<file, bytesWritten>>,
         fileSequence' \in Nat, recordSequence' \in Nat,
         disk' \in Seq(File), FilesInOrder(disk'), Len(disk') = Len(disk),
         Newest.header => Newest'.header
  PROVE  IInv'
<1> USE DEF FailLocked, Goto, Unlock
<1>1. TypeOK'
  BY DEF IInv, TypeOK, ghosts, Actors
<1>2. \A d \in Conns : d # c => pc[d] \notin InRecord /\ pc'[d] = pc[d]
  BY DEF IInv, TypeOK, Locked, Actors
<1>3. pc'[c] = "idle" /\ pc'[Closer] = pc[Closer] /\ mu = c
  BY ConnsAssumption DEF IInv, TypeOK, Locked, Actors
<1>4. pc[Closer] \notin {"closeSync", "closeFile"}
  BY <1>3, ConnsAssumption DEF IInv, Locked
<1>5. Locked'
  BY <1>2, <1>3, <1>4 DEF Locked, InRecord
<1>6. Handle'
  BY <1>3, <1>4 DEF At, IInv, WriterState, Handle
<1>7. \A d \in Conns : AtStep(d)'
  BY <1>2, <1>3 DEF AtStep, InRecord
<1>. QED  BY <1>1, <1>5, <1>6, <1>7 DEF IInv, WriterState

(* The steps of one record that succeed: while c is in writeRecord no other *)
(* handler is, and neither is Close.                                        *)
LEMMA Alone ==
  ASSUME IInv, NEW c \in Conns, pc[c] \in InRecord
  PROVE  /\ mu = c
         /\ \A d \in Conns : d # c => pc[d] \notin InRecord
         /\ pc[Closer] \notin {"closeSync", "closeFile"}
  BY ConnsAssumption DEF IInv, Locked

LEMMA NewestChange ==
  ASSUME IInv, NEW g \in File, Numbered(g), TornAtEnd(g),
         disk' = [disk EXCEPT ![Len(disk)] = g]
  PROVE  /\ disk' \in Seq(File) /\ FilesInOrder(disk') /\ Len(disk') = Len(disk)
         /\ Newest' = g
<1>1. disk \in Seq(File) /\ FilesInOrder(disk)
  BY DEF IInv, TypeOK
<1>2. /\ disk' \in Seq(File) /\ FilesInOrder(disk') /\ Len(disk') = Len(disk)
      /\ disk'[Len(disk)] = g
  BY <1>1, ReplaceNewest
<1>. QED  BY <1>2 DEF Newest

LEMMA NewestInOrder ==
  ASSUME IInv
  PROVE  Newest \in File /\ Numbered(Newest) /\ TornAtEnd(Newest)
<1>1. Len(disk) \in DOMAIN disk
  BY DEF IInv, TypeOK, FilesInOrder
<1>. QED  BY <1>1 DEF IInv, TypeOK, FilesInOrder, Newest

LEMMA SealFile ==
  ASSUME NEW f \in File, Numbered(f), TornAtEnd(f)
  PROVE  /\ Sealed(f) \in File
         /\ Sealed(f).header = f.header
         /\ Sealed(f).entries = f.entries
         /\ Safe(Sealed(f)) /\ Numbered(Sealed(f)) /\ TornAtEnd(Sealed(f))
         /\ Complete(f) => Complete(Sealed(f))
<1>1. Sealed(f) \in File /\ Sealed(f) = [f EXCEPT !.synced = Units(f)]
  BY FileUpdates DEF Sealed
<1>2. /\ Sealed(f).header = f.header
      /\ Sealed(f).entries = f.entries
      /\ Sealed(f).synced = Units(f)
  BY <1>1 DEF File
<1>3. Units(Sealed(f)) = Units(f)
  BY <1>2 DEF Units
<1>4. Safe(Sealed(f))
  BY <1>2, <1>3 DEF Safe
<1>5. Numbered(Sealed(f)) /\ TornAtEnd(Sealed(f))
  BY <1>2 DEF Numbered, TornAtEnd
<1>6. Complete(f) => Complete(Sealed(f))
  BY <1>2 DEF Complete
<1>. QED  BY <1>1, <1>2, <1>4, <1>5, <1>6

LEMMA SyncOldStep ==
  ASSUME IInv, NEW c \in Conns, SyncOld(c)
  PROVE  IInv'
<1> USE DEF SyncOld, At, Goto
<1>1. /\ pc[c] \in InRecord /\ Handle /\ \A d \in Conns : AtStep(d)
      /\ file = Len(disk) /\ file # 0 /\ ~failed
      /\ Newest.header /\ Complete(Newest)
  <2>1. Handle /\ (\A d \in Conns : AtStep(d)) /\ pc[c] \in InRecord
    BY DEF IInv, WriterState, InRecord
  <2>2. file # 0 /\ ~failed
    BY <2>1 DEF AtStep
  <2>3. \A d \in Conns : pc[d] # "payload"
    BY <2>1, Alone DEF InRecord
  <2>. QED  BY <2>1, <2>2, <2>3 DEF Handle
<1>2. disk' = [disk EXCEPT ![Len(disk)] = Sealed(Newest)]
  BY <1>1 DEF Newest
<1>3. /\ disk' \in Seq(File) /\ FilesInOrder(disk') /\ Len(disk') = Len(disk)
      /\ Newest' = Sealed(Newest)
  BY <1>2, NewestInOrder, SealFile, NewestChange
<1>4. Safe(Newest') /\ Complete(Newest') /\ Newest'.header /\ Newest'.entries = Newest.entries
  BY <1>1, <1>3, NewestInOrder, SealFile
<1>5. TypeOK'
  BY <1>3 DEF IInv, TypeOK, writer, ghosts, Actors
<1>6. Locked'
  BY <1>1, Alone DEF IInv, TypeOK, Locked, Actors, InRecord
<1>7. Handle'
  BY <1>1, <1>3, <1>4, Alone DEF Handle, writer, IInv, TypeOK, Actors
<1>8. \A d \in Conns : AtStep(d)'
  BY <1>1, <1>3, <1>4, Alone DEF AtStep, writer, IInv, TypeOK, Actors, InRecord
<1>. QED  BY <1>3, <1>5, <1>6, <1>7, <1>8 DEF IInv, WriterState

LEMMA CloseOldStep ==
  ASSUME IInv, NEW c \in Conns, CloseOld(c)
  PROVE  IInv'
<1> USE DEF CloseOld, At, Goto
<1>1. /\ pc[c] \in InRecord /\ Handle /\ \A d \in Conns : AtStep(d)
      /\ file # 0 /\ ~failed /\ Complete(Newest) /\ Safe(Newest)
  <2>1. Handle /\ (\A d \in Conns : AtStep(d)) /\ pc[c] \in InRecord
    BY DEF IInv, WriterState, InRecord
  <2>2. file # 0 /\ ~failed /\ Safe(Newest)
    BY <2>1 DEF AtStep
  <2>3. \A d \in Conns : pc[d] # "payload"
    BY <2>1, Alone DEF InRecord
  <2>. QED  BY <2>1, <2>2, <2>3 DEF Handle
<1>2. TypeOK'
  BY DEF IInv, TypeOK, ghosts, Actors
<1>3. Locked' /\ FilesInOrder(disk)'
  BY <1>1, Alone DEF IInv, TypeOK, Locked, Actors, InRecord
<1>4. pc'[c] = "create" /\ \A a \in Actors : a # c => pc'[a] = pc[a]
  BY DEF IInv, TypeOK, Actors
<1>5. Handle'
  BY <1>1, <1>4, Alone, ConnsAssumption DEF Handle, Newest, Actors
<1>6. \A d \in Conns : AtStep(d)'
  BY <1>1, <1>4, Alone DEF AtStep, Newest, Actors, InRecord
<1>. QED  BY <1>2, <1>3, <1>5, <1>6 DEF IInv, WriterState

LEMMA CreateStep ==
  ASSUME IInv, NEW c \in Conns, Create(c)
  PROVE  IInv'
<1> USE DEF Create, At, Goto
<1>1. /\ pc[c] \in InRecord /\ Handle /\ \A d \in Conns : AtStep(d)
      /\ file = 0 /\ ~failed /\ Complete(Newest) /\ Safe(Newest)
  BY DEF IInv, WriterState, InRecord, AtStep
<1>2. /\ disk' \in Seq(File) /\ FilesInOrder(disk') /\ Len(disk') = Len(disk) + 1
      /\ Newest' = NewFile
  BY <1>1, AddFile DEF IInv, TypeOK, Newest
<1>3. TypeOK'
  BY <1>2 DEF IInv, TypeOK, ghosts, Actors
<1>4. Locked'
  BY <1>1, Alone DEF IInv, TypeOK, Locked, Actors, InRecord
<1>5. pc'[c] = "fileHeader" /\ \A a \in Actors : a # c => pc'[a] = pc[a]
  BY DEF IInv, TypeOK, Actors
<1>6. Handle'
  BY <1>1, <1>2, <1>5, Alone, ConnsAssumption DEF Handle, Actors
<1>7. \A d \in Conns : AtStep(d)'
  BY <1>1, <1>2, <1>5, Alone DEF AtStep, Actors, InRecord
<1>. QED  BY <1>2, <1>3, <1>4, <1>6, <1>7 DEF IInv, WriterState

LEMMA WriteFileHeaderStep ==
  ASSUME IInv, NEW c \in Conns, WriteFileHeader(c)
  PROVE  IInv'
<1> USE DEF WriteFileHeader, FirstSequence, At, Goto
<1> DEFINE f == [NewFile EXCEPT !.header = TRUE]
<1>1. /\ pc[c] \in InRecord /\ Handle /\ \A d \in Conns : AtStep(d)
      /\ file = 0 /\ ~failed /\ Newest = NewFile /\ fileSequence = Len(disk)
  <2>1. Handle /\ (\A d \in Conns : AtStep(d)) /\ pc[c] \in InRecord
    BY DEF IInv, WriterState, InRecord
  <2>. QED  BY <2>1 DEF AtStep, Handle
<1>2. f \in File /\ f.entries = << >> /\ f.header
  BY NewFileType, FileUpdates DEF NewFile
<1>3. Numbered(f) /\ TornAtEnd(f) /\ Complete(f) /\ Len(f.entries) = 0
  BY <1>2 DEF Numbered, TornAtEnd, Complete
<1>4. disk' = [disk EXCEPT ![Len(disk)] = f]
  BY <1>1 DEF Newest
<1> HIDE DEF f
<1>5. /\ disk' \in Seq(File) /\ FilesInOrder(disk') /\ Len(disk') = Len(disk)
      /\ Newest' = f
  BY <1>2, <1>3, <1>4, NewestChange
<1>6. TypeOK'
  BY <1>5, SizesAssumption DEF IInv, TypeOK, ghosts, Actors
<1>7. Locked'
  BY <1>1, Alone DEF IInv, TypeOK, Locked, Actors, InRecord
<1>8. pc'[c] = "header" /\ \A a \in Actors : a # c => pc'[a] = pc[a]
  BY DEF IInv, TypeOK, Actors
<1>9. fileSequence # 0
  BY <1>1 DEF IInv, TypeOK, FilesInOrder
<1>10. Handle'
  BY <1>1, <1>2, <1>3, <1>5, <1>8, <1>9, Alone, ConnsAssumption DEF Handle, Actors
<1>11. \A d \in Conns : AtStep(d)'
  BY <1>1, <1>5, <1>8, <1>9, Alone DEF AtStep, Actors, InRecord
<1>. QED  BY <1>5, <1>6, <1>7, <1>10, <1>11 DEF IInv, WriterState

LEMMA NewEntryType ==
  ASSUME TypeOK, NEW c \in Conns, NEW b \in BOOLEAN
  PROVE  NewEntry(c, b) \in Entry /\ NewEntry(c, b).seq = recordSequence + 1
         /\ NewEntry(c, b).whole = b
  BY ChunkSize DEF TypeOK, NewEntry, Entry

LEMMA AppendEntryStep ==
  ASSUME IInv, NEW c \in Conns, NEW b \in BOOLEAN, host = "up", pc[c] = "header",
         AppendEntry(NewEntry(c, b))
  PROVE  /\ disk' \in Seq(File) /\ FilesInOrder(disk') /\ Len(disk') = Len(disk)
         /\ Len(Newest'.entries) = recordSequence + 1
         /\ Newest'.header /\ Newest'.entries # << >>
         /\ b => Complete(Newest')
<1> DEFINE g == [Newest EXCEPT !.entries = Append(@, NewEntry(c, b))]
<1>1. /\ Handle /\ \A d \in Conns : AtStep(d)
      /\ file # 0 /\ ~failed /\ pc[c] \in InRecord
  <2>1. Handle /\ (\A d \in Conns : AtStep(d)) /\ pc[c] \in InRecord
    BY DEF IInv, WriterState, InRecord
  <2>. QED  BY <2>1 DEF AtStep
<1>2. \A d \in Conns : pc[d] # "payload"
  BY <1>1, Alone DEF InRecord
<1>3. file = Len(disk) /\ Newest.header /\ Complete(Newest)
      /\ Len(Newest.entries) = recordSequence
  BY <1>1, <1>2 DEF Handle
<1>4. NewEntry(c, b) \in Entry /\ NewEntry(c, b).seq = Len(Newest.entries) + 1
      /\ NewEntry(c, b).whole = b
  BY <1>3, NewEntryType DEF IInv
<1>5. disk' = [disk EXCEPT ![Len(disk)] = g]
  BY <1>3 DEF AppendEntry, Newest
<1>6. /\ g \in File /\ Numbered(g) /\ TornAtEnd(g) /\ g.header
      /\ Len(g.entries) = Len(Newest.entries) + 1 /\ g.entries # << >>
      /\ b => Complete(g)
  BY <1>3, <1>4, NewestInOrder, AppendRecord
<1> HIDE DEF g
<1>7. /\ disk' \in Seq(File) /\ FilesInOrder(disk') /\ Len(disk') = Len(disk)
      /\ Newest' = g
  BY <1>5, <1>6, NewestChange
<1>. QED  BY <1>3, <1>6, <1>7

(* The end of a record, for the header of an empty one and for a payload. *)
LEMMA AcknowledgeStep ==
  ASSUME IInv, NEW c \in Conns, host = "up", pc[c] \in {"header", "payload"},
         Acknowledge(c),
         disk' \in Seq(File), FilesInOrder(disk'), Len(disk') = Len(disk),
         Complete(Newest'), Len(Newest'.entries) = recordSequence', recordSequence' \in Nat
  PROVE  IInv'
<1> USE DEF Acknowledge, MoreToWrite, Goto, Unlock
<1>1. /\ Handle /\ \A d \in Conns : AtStep(d)
      /\ file # 0 /\ ~failed /\ pc[c] \in InRecord
  <2>1. Handle /\ (\A d \in Conns : AtStep(d)) /\ pc[c] \in InRecord
    BY DEF IInv, WriterState, InRecord
  <2>. QED  BY <2>1 DEF AtStep
<1>2. pc'[c] \in {"lock", "idle"} /\ \A a \in Actors : a # c => pc'[a] = pc[a]
  BY DEF IInv, TypeOK, Actors
<1>3. TypeOK'
  <2>1. Chunk(c) \in Nat /\ left[c] - Chunk(c) \in Nat
    BY ChunkSize DEF IInv, TypeOK
  <2>2. left' \in [Conns -> Nat]
    BY <2>1 DEF IInv, TypeOK
  <2>3. bytesWritten' \in Nat
    BY <2>1, SizesAssumption DEF IInv, TypeOK
  <2>4. handed' \in [Conns -> Nat] /\ recorded' \in [Conns -> Nat]
    <3>1. handed[c] + request[c] \in Nat /\ recorded[c] + 1 \in Nat
      BY DEF IInv, TypeOK
    <3>2. handed' = handed \/ handed' = [handed EXCEPT ![c] = @ + request[c]]
      OBVIOUS
    <3>. QED  BY <3>1, <3>2 DEF IInv, TypeOK
  <2>5. pc' \in [Actors -> {"idle", "lock", "syncOld", "closeOld", "create", "fileHeader",
                            "header", "payload", "closeSync", "closeFile", "done"}]
        /\ result' \in [Actors -> {"none", "nil", "error"}]
    BY DEF IInv, TypeOK, Actors
  <2>. QED  BY <2>2, <2>3, <2>4, <2>5 DEF IInv, TypeOK
<1>4. Locked'
  BY <1>1, <1>2, Alone, ConnsAssumption DEF Locked, Actors, InRecord
<1>5. Handle'
  BY <1>1, <1>2, Alone, ConnsAssumption DEF Handle, Complete, Actors
<1>6. \A d \in Conns : AtStep(d)'
  BY <1>1, <1>2, Alone DEF AtStep, Actors, InRecord
<1>. QED  BY <1>3, <1>4, <1>5, <1>6 DEF IInv, WriterState

LEMMA WriteHeaderStep ==
  ASSUME IInv, NEW c \in Conns, WriteHeader(c)
  PROVE  IInv'
<1> USE DEF WriteHeader, At
<1>1. recordSequence' \in Nat
  BY DEF IInv, TypeOK
<1>2. CASE Chunk(c) = 0
  BY <1>1, <1>2, AppendEntryStep, AcknowledgeStep
<1>3. CASE Chunk(c) # 0
  <2>1. /\ disk' \in Seq(File) /\ FilesInOrder(disk') /\ Len(disk') = Len(disk)
        /\ Len(Newest'.entries) = recordSequence + 1
        /\ Newest'.header /\ Newest'.entries # << >>
    BY <1>3, AppendEntryStep
  <2>2. /\ Handle /\ \A d \in Conns : AtStep(d)
        /\ file # 0 /\ ~failed /\ pc[c] \in InRecord
    <3>1. Handle /\ (\A d \in Conns : AtStep(d)) /\ pc[c] \in InRecord
      BY DEF IInv, WriterState, InRecord
    <3>. QED  BY <3>1 DEF AtStep
  <2>3. pc'[c] = "payload" /\ \A a \in Actors : a # c => pc'[a] = pc[a]
    BY <1>3 DEF IInv, TypeOK, Actors, Goto
  <2>4. TypeOK'
    BY <1>1, <1>3, <2>1 DEF IInv, TypeOK, ghosts, Actors, Goto
  <2>5. Locked'
    BY <1>3, <2>2, <2>3, Alone, ConnsAssumption DEF Locked, Actors
  <2>6. Handle'
    BY <1>3, <2>1, <2>2, <2>3, Alone, ConnsAssumption DEF Handle, Actors
  <2>7. \A d \in Conns : AtStep(d)'
    BY <1>3, <2>1, <2>2, <2>3, Alone DEF AtStep, Actors, InRecord
  <2>. QED  BY <2>1, <2>4, <2>5, <2>6, <2>7 DEF IInv, WriterState
<1>. QED  BY <1>2, <1>3

LEMMA WritePayloadStep ==
  ASSUME IInv, NEW c \in Conns, WritePayload(c)
  PROVE  IInv'
<1> USE DEF WritePayload, At
<1> DEFINE g == [Newest EXCEPT !.entries[Len(Newest.entries)].whole = TRUE]
<1>1. /\ file # 0 /\ ~failed /\ Newest.entries # << >> /\ file = Len(disk)
      /\ Len(Newest.entries) = recordSequence
  <2>1. Handle /\ AtStep(c)
    BY DEF IInv, WriterState
  <2>. QED  BY <2>1 DEF AtStep, Handle, InRecord
<1>2. disk' = [disk EXCEPT ![Len(disk)] = g]
  BY <1>1 DEF Newest
<1>3. /\ g \in File /\ Numbered(g) /\ TornAtEnd(g) /\ Complete(g)
      /\ Len(g.entries) = Len(Newest.entries)
  BY <1>1, NewestInOrder, MarkRecord
<1> HIDE DEF g
<1>4. /\ disk' \in Seq(File) /\ FilesInOrder(disk') /\ Len(disk') = Len(disk)
      /\ Newest' = g
  BY <1>2, <1>3, NewestChange
<1>5. recordSequence' \in Nat /\ recordSequence' = recordSequence
  BY DEF IInv, TypeOK
<1>. QED  BY <1>1, <1>3, <1>4, <1>5, AcknowledgeStep

LEMMA FailStep ==
  ASSUME IInv, NEW c \in Conns,
         \/ RotateFails(c) \/ CreateFails(c) \/ WriteFileHeaderFails(c)
         \/ WriteHeaderFails(c) \/ WritePayloadFails(c)
  PROVE  IInv'
<1> USE DEF At
<1>1. /\ host = "up" /\ pc[c] \in InRecord /\ FailLocked(c)
      /\ UNCHANGED <<file, bytesWritten>>
      /\ fileSequence' \in Nat /\ recordSequence' \in Nat
  <2>1. fileSequence \in Nat /\ recordSequence \in Nat
    BY DEF IInv, TypeOK
  <2>2. CASE RotateFails(c)
    BY <2>1, <2>2 DEF InRecord, RotateFails
  <2>3. CASE CreateFails(c)
    BY <2>1, <2>3 DEF InRecord, CreateFails
  <2>4. CASE WriteFileHeaderFails(c)
    BY <2>1, <2>4 DEF InRecord, WriteFileHeaderFails
  <2>5. CASE WriteHeaderFails(c)
    BY <2>1, <2>5 DEF InRecord, WriteHeaderFails
  <2>6. CASE WritePayloadFails(c)
    BY <2>1, <2>6 DEF InRecord, WritePayloadFails
  <2>. QED  BY <2>2, <2>3, <2>4, <2>5, <2>6
<1>2. CASE UNCHANGED disk
  <2>1. disk' \in Seq(File) /\ FilesInOrder(disk') /\ Len(disk') = Len(disk)
        /\ (Newest.header => Newest'.header)
    BY <1>2 DEF IInv, TypeOK, Newest
  <2>. QED  BY <1>1, <2>1, FailureStep
<1>3. CASE WriteHeaderFails(c) /\ AppendEntry(NewEntry(c, FALSE))
  <2>1. disk' \in Seq(File) /\ FilesInOrder(disk') /\ Len(disk') = Len(disk)
        /\ Newest'.header
    BY <1>1, <1>3, AppendEntryStep DEF WriteHeaderFails
  <2>. QED  BY <1>1, <2>1, FailureStep
<1>. QED
  BY <1>2, <1>3 DEF RotateFails, CreateFails, WriteFileHeaderFails,
                    WriteHeaderFails, WritePayloadFails

LEMMA CloseStep ==
  ASSUME IInv, Close
  PROVE  IInv'
<1> USE DEF At, Goto, Return, Unlock
<1>1. CASE CloseNoFile
  <2> USE <1>1 DEF CloseNoFile
  <2>1. TypeOK' /\ FilesInOrder(disk)'
    BY DEF IInv, TypeOK, ghosts, Actors
  <2>2. \A d \in Conns : pc'[d] = pc[d] /\ pc[d] \notin InRecord
    BY ConnsAssumption DEF IInv, TypeOK, Actors, Locked
  <2>3. pc'[Closer] = "done"
    BY DEF IInv, TypeOK, Actors
  <2>4. Locked'
    BY <2>2, <2>3 DEF Locked
  <2>5. Handle' /\ \A d \in Conns : AtStep(d)'
    BY <2>2, <2>3 DEF IInv, WriterState, Handle, AtStep, Newest, InRecord
  <2>. QED  BY <2>1, <2>4, <2>5 DEF IInv, WriterState
<1>2. CASE CloseStart
  <2> USE <1>2 DEF CloseStart
  <2>1. TypeOK' /\ FilesInOrder(disk)'
    BY DEF IInv, TypeOK, ghosts, Actors
  <2>2. \A d \in Conns : pc'[d] = pc[d] /\ pc[d] \notin InRecord
    BY ConnsAssumption DEF IInv, TypeOK, Actors, Locked
  <2>3. pc'[Closer] = "closeSync"
    BY DEF IInv, TypeOK, Actors
  <2>4. Locked'
    BY <2>2, <2>3 DEF Locked
  <2>5. Handle' /\ \A d \in Conns : AtStep(d)'
    BY <2>2, <2>3 DEF IInv, WriterState, Handle, AtStep, Newest, InRecord
  <2>. QED  BY <2>1, <2>4, <2>5 DEF IInv, WriterState
<1>3. CASE CloseSync
  <2> USE <1>3 DEF CloseSync
  <2>1. \A d \in Conns : pc'[d] = pc[d] /\ pc[d] \notin InRecord
    BY ConnsAssumption DEF IInv, TypeOK, Actors, Locked
  <2>2. pc'[Closer] = "closeFile"
    BY DEF IInv, TypeOK, Actors
  <2>3. Handle /\ file = Len(disk)
    BY DEF IInv, WriterState, Handle
  <2>4. /\ disk' \in Seq(File) /\ FilesInOrder(disk') /\ Len(disk') = Len(disk)
        /\ Newest'.header = Newest.header /\ Newest'.entries = Newest.entries
    <3>1. CASE disk' = disk
      BY <3>1 DEF IInv, TypeOK, Newest
    <3>2. CASE disk' = [disk EXCEPT ![file] = Sealed(@)]
      <4>1. disk' = [disk EXCEPT ![Len(disk)] = Sealed(Newest)]
        BY <2>3, <3>2 DEF Newest
      <4>. QED  BY <4>1, NewestInOrder, SealFile, NewestChange
    <3>. QED  BY <3>1, <3>2
  <2>5. TypeOK'
    BY <2>4 DEF IInv, TypeOK, writer, ghosts, Actors
  <2>6. Locked'
    BY <2>1, <2>2 DEF Locked, IInv
  <2>7. Handle' /\ \A d \in Conns : AtStep(d)'
    BY <2>1, <2>2, <2>3, <2>4 DEF Handle, AtStep, Complete, InRecord, writer, IInv
  <2>. QED  BY <2>4, <2>5, <2>6, <2>7 DEF IInv, WriterState
<1>4. CASE CloseFile
  <2> USE <1>4 DEF CloseFile, CloseError
  <2>1. TypeOK' /\ FilesInOrder(disk)'
    BY DEF IInv, TypeOK, ghosts, Actors
  <2>2. \A d \in Conns : pc'[d] = pc[d] /\ pc[d] \notin InRecord
    BY ConnsAssumption DEF IInv, TypeOK, Actors, Locked
  <2>3. pc'[Closer] = "done"
    BY DEF IInv, TypeOK, Actors
  <2>4. Locked'
    BY <2>2, <2>3 DEF Locked
  <2>5. Handle' /\ \A d \in Conns : AtStep(d)'
    BY <2>2, <2>3 DEF IInv, WriterState, Handle, AtStep, Newest, InRecord
  <2>. QED  BY <2>1, <2>4, <2>5 DEF IInv, WriterState
<1>. QED  BY <1>1, <1>2, <1>3, <1>4 DEF Close

(* Only the newest file has anything that a power loss can take. *)
LEMMA HostStep ==
  ASSUME IInv, Crash \/ LoseUnsynced
  PROVE  IInv'
<1>1. CASE Crash
  BY <1>1 DEF Crash, IInv, TypeOK, Locked, WriterState, writer, ghosts
<1>2. CASE LoseUnsynced
  <2>1. PICK i \in DOMAIN disk :
          /\ Units(disk[i]) > disk[i].synced
          /\ disk' \in { [disk EXCEPT ![i] = LoseUnit(@)], [disk EXCEPT ![i] = TearUnit(@)] }
    BY <1>2 DEF LoseUnsynced
  <2>2. i = Len(disk)
    <3>1. ~Safe(disk[i])
      <4>1. disk[i] \in File
        BY DEF IInv, TypeOK
      <4>2. Units(disk[i]) \in Nat /\ disk[i].synced \in Nat
        BY <4>1, FileUpdates DEF File
      <4>. QED  BY <2>1, <4>2 DEF Safe
    <3>2. i \in 1..Len(disk) /\ Len(disk) \in Nat
      BY DEF IInv, TypeOK
    <3>3. \A k \in 1..(Len(disk) - 1) : Safe(disk[k])
      BY DEF IInv, FilesInOrder
    <3>. QED  BY <3>1, <3>2, <3>3
  <2>3. \/ disk' = [disk EXCEPT ![Len(disk)] = LoseUnit(Newest)]
        \/ disk' = [disk EXCEPT ![Len(disk)] = TearUnit(Newest)]
    BY <2>1, <2>2 DEF Newest
  <2>4. disk' \in Seq(File) /\ FilesInOrder(disk')
    BY <2>3, NewestInOrder, LoseRecord, NewestChange
  <2>5. host' # "up"
    BY <1>2 DEF LoseUnsynced
  <2>6. TypeOK' /\ Locked'
    BY <1>2, <2>4 DEF LoseUnsynced, IInv, TypeOK, Locked, writer, ghosts
  <2>. QED  BY <2>4, <2>5, <2>6 DEF IInv, WriterState
<1>. QED  BY <1>1, <1>2

LEMMA NextIInv == IInv /\ [Next]_vars => IInv'
<1> SUFFICES ASSUME IInv, [Next]_vars PROVE IInv'
  OBVIOUS
<1>1. ASSUME NEW c \in Conns, WriteMeta(c) \/ WriteData(c) \/ Enter(c) PROVE IInv'
  BY <1>1, CallStep, EnterStep
<1>2. ASSUME NEW c \in Conns, Step(c) PROVE IInv'
  BY <1>2, SyncOldStep, CloseOldStep, CreateStep, WriteFileHeaderStep, WriteHeaderStep,
     WritePayloadStep, FailStep DEF Step
<1>3. CASE UNCHANGED vars
  BY <1>3 DEF vars, writer, ghosts, IInv, TypeOK, Locked, WriterState, Handle, AtStep, Newest
<1>. QED
  BY <1>1, <1>2, <1>3, CloseStep, HostStep DEF Next, Finished

-----------------------------------------------------------------------------
(* Type correctness: for every number of handlers and calls, every variable *)
(* of the writer keeps its type.                                            *)
THEOREM TypeCorrect == Spec => []TypeOK
<1>1. IInv => TypeOK
  BY DEF IInv
<1>. QED  BY <1>1, InitIInv, NextIInv, PTL DEF Spec

(* Whatever the handlers, Close, kills and power losses do, and in whatever *)
(* order, ReadBWJFile reads every file of the run but the newest one        *)
(* completely, with its records numbered from 1 without a gap.              *)
THEOREM EarlierFilesAlwaysParse == Spec => []EarlierFilesParse
<1>1. IInv => EarlierFilesParse
  <2> SUFFICES ASSUME IInv, NEW i \in 1..(Len(disk) - 1)
               PROVE  LET r == ReadBWJFile(disk[i]) IN
                      /\ ~r.error /\ ~r.truncatedTail
                      /\ \A k \in DOMAIN r.records : r.records[k].seq = k
    BY DEF EarlierFilesParse
  <2> DEFINE f == disk[i]
  <2>1. i \in DOMAIN disk /\ f \in File /\ Numbered(f) /\ Complete(f)
    BY DEF IInv, TypeOK, FilesInOrder
  <2>2. f.entries \in Seq(Entry) /\ Len(f.entries) \in Nat
    BY <2>1 DEF File
  <2> HIDE DEF f
  <2>3. /\ \A k \in DOMAIN f.entries : f.entries[k].whole /\ f.entries[k].seq = k
        /\ DOMAIN f.entries = 1..Len(f.entries)
    BY <2>1, <2>2 DEF Numbered, Complete
  <2>4. ~ReadBWJFile(f).error
    BY <2>1, <2>2, <2>3 DEF ReadBWJFile, Complete
  <2>5. ~ReadBWJFile(f).truncatedTail /\ ReadBWJFile(f).records = f.entries
    <3>1. ~(Len(f.entries) > 0 /\ ~f.entries[Len(f.entries)].whole)
      BY <2>2, <2>3
    <3>. QED  BY <2>4, <3>1 DEF ReadBWJFile
  <2>. QED  BY <2>3, <2>4, <2>5 DEF f
<1>. QED  BY <1>1, InitIInv, NextIInv, PTL DEF Spec

(* The newest file parses as well, but for a file header cut short, and a  *)
(* torn record at its end hides no record before it.                       *)
THEOREM NewestFileAlwaysParses == Spec => []NewestFileParses
<1>1. IInv => NewestFileParses
  <2> SUFFICES ASSUME IInv, Newest.header
               PROVE  LET r == ReadBWJFile(Newest) IN
                      /\ ~r.error
                      /\ \A k \in DOMAIN r.records : r.records[k].seq = k
    BY DEF NewestFileParses, Newest
  <2> DEFINE f == Newest
             n == Len(f.entries)
  <2>1. f \in File /\ Numbered(f) /\ TornAtEnd(f) /\ f.header
    BY NewestInOrder
  <2>2. f.entries \in Seq(Entry) /\ n \in Nat
    BY <2>1 DEF File
  <2> HIDE DEF f
  <2>3. /\ \A k \in 1..(n - 1) : f.entries[k].whole
        /\ \A k \in 2..n : f.entries[k].seq = k /\ f.entries[k - 1].seq = k - 1
    BY <2>1, <2>2 DEF Numbered, TornAtEnd
  <2>4. ~ReadBWJFile(f).error
    BY <2>1, <2>2, <2>3 DEF ReadBWJFile
  <2>5. ReadBWJFile(f).records \in {f.entries, SubSeq(f.entries, 1, n - 1)}
    BY <2>1, <2>2, <2>3 DEF ReadBWJFile
  <2>6. \A k \in DOMAIN SubSeq(f.entries, 1, n - 1) :
          k \in DOMAIN f.entries /\ SubSeq(f.entries, 1, n - 1)[k] = f.entries[k]
    BY <2>2
  <2>7. \A k \in DOMAIN ReadBWJFile(f).records : ReadBWJFile(f).records[k].seq = k
    BY <2>1, <2>5, <2>6 DEF Numbered
  <2>. QED  BY <2>4, <2>7 DEF f
<1>. QED  BY <1>1, InitIInv, NextIInv, PTL DEF Spec

-----------------------------------------------------------------------------
(***************************************************************************)
(* Close.  From the moment it sets closed no handler is inside             *)
(* writeRecord, so that the file it has synced stays as it is; and a nil   *)
(* needs a Sync that succeeded on a journal that had not failed.           *)
(***************************************************************************)
AllSafe(d) == \A i \in DOMAIN d : Complete(d[i]) /\ Safe(d[i])

Closing ==
  /\ closed <=> pc[Closer] # "idle"
  /\ closed => \A c \in Conns : pc[c] \notin InRecord
  /\ pc[Closer] \in {"idle", "closeSync"} => result[Closer] = "none"
  /\ pc[Closer] = "closeFile" => result[Closer] = "error" \/ Safe(Newest)
  /\ result[Closer] = "nil" => pc[Closer] = "done" /\ AllSafe(disk)

LEMMA HandlerKeepsClosing ==
  ASSUME IInv, Closing, NEW c \in Conns,
         WriteMeta(c) \/ WriteData(c) \/ Enter(c) \/ Step(c)
  PROVE  Closing'
<1>1. /\ closed' = closed /\ pc'[Closer] = pc[Closer] /\ result'[Closer] = result[Closer]
      /\ \A d \in Conns : d # c => pc'[d] = pc[d]
  <2> USE ConnsAssumption
      DEF IInv, TypeOK, Actors, Goto, FailLocked, Acknowledge, writer, At, Lock, StartCall
  <2>1. CASE WriteMeta(c) \/ WriteData(c)
    BY <2>1 DEF WriteMeta, WriteData
  <2>2. CASE Enter(c)
    BY <2>2 DEF Enter, Refuse, EnterRotate, EnterWrite
  <2>3. CASE SyncOld(c) \/ CloseOld(c) \/ RotateFails(c)
    BY <2>3 DEF SyncOld, CloseOld, RotateFails
  <2>4. CASE Create(c) \/ CreateFails(c) \/ WriteFileHeader(c) \/ WriteFileHeaderFails(c)
    BY <2>4 DEF Create, CreateFails, WriteFileHeader, WriteFileHeaderFails
  <2>5. CASE WriteHeader(c) \/ WriteHeaderFails(c)
    BY <2>5 DEF WriteHeader, WriteHeaderFails
  <2>6. CASE WritePayload(c) \/ WritePayloadFails(c)
    BY <2>6 DEF WritePayload, WritePayloadFails
  <2>. QED  BY <2>1, <2>2, <2>3, <2>4, <2>5, <2>6 DEF Step
<1>2. ASSUME closed PROVE disk' = disk /\ pc'[c] \notin InRecord
  <2>1. ~Step(c)
    BY <1>2 DEF Closing, InRecord, Step, At, SyncOld, CloseOld, RotateFails, Create, CreateFails,
                WriteFileHeader, WriteFileHeaderFails, WriteHeader, WriteHeaderFails,
                WritePayload, WritePayloadFails
  <2>2. CASE WriteMeta(c) \/ WriteData(c)
    BY <2>2 DEF WriteMeta, WriteData, StartCall, Goto, InRecord, IInv, TypeOK, Actors
  <2>3. CASE Enter(c)
    BY <1>2, <2>3 DEF Enter, Refuse, EnterRotate, EnterWrite, Usable, Goto, InRecord, IInv,
                      TypeOK, Actors
  <2>. QED  BY <2>1, <2>2, <2>3
<1>. QED  BY <1>1, <1>2 DEF Closing, Newest

LEMMA CloseKeepsClosing ==
  ASSUME IInv, Closing, Close
  PROVE  Closing'
<1> USE DEF At, Goto, Return, Unlock
<1>1. /\ host = "up" /\ Handle /\ mu \in {NoOne, Closer}
      /\ \A d \in Conns : pc'[d] = pc[d] /\ pc[d] \notin InRecord
  BY ConnsAssumption
     DEF Close, CloseNoFile, CloseStart, CloseSync, CloseFile, IInv, TypeOK, Actors, Locked, WriterState
<1>2. CASE CloseNoFile
  <2>1. failed
    BY <1>1, <1>2 DEF CloseNoFile, Handle, Closing, InRecord
  <2>. QED  BY <1>1, <1>2, <2>1 DEF CloseNoFile, Closing, IInv, TypeOK, Actors
<1>3. CASE CloseStart
  BY <1>1, <1>3 DEF CloseStart, Closing, IInv, TypeOK, Actors
<1>4. CASE CloseSync
  <2>1. closed /\ closed' /\ pc'[Closer] = "closeFile" /\ result[Closer] = "none"
    BY <1>4 DEF CloseSync, Closing, IInv, TypeOK, Actors, writer
  <2>2. CASE disk' = [disk EXCEPT ![file] = Sealed(@)] /\ UNCHANGED result
    <3>1. disk' = [disk EXCEPT ![Len(disk)] = Sealed(Newest)]
      BY <1>1, <1>4, <2>2 DEF CloseSync, Handle, Newest
    <3>2. Safe(Newest')
      BY <3>1, NewestInOrder, SealFile, NewestChange
    <3>. QED  BY <1>1, <2>1, <2>2, <3>2 DEF Closing
  <2>3. CASE result' = [result EXCEPT ![Closer] = "error"]
    BY <1>1, <2>1, <2>3 DEF Closing, IInv, TypeOK, Actors
  <2>. QED  BY <1>4, <2>2, <2>3 DEF CloseSync
<1>5. CASE CloseFile
  <2>1. /\ closed /\ closed' /\ pc'[Closer] = "done" /\ disk' = disk
        /\ result'[Closer] = "nil" => ~failed /\ result[Closer] # "error"
    BY <1>5 DEF CloseFile, CloseError, Closing, IInv, TypeOK, Actors
  <2>2. ASSUME result'[Closer] = "nil" PROVE AllSafe(disk)
    <3>1. Complete(Newest) /\ Safe(Newest)
      BY <1>1, <1>5, <2>1, <2>2 DEF CloseFile, Closing, Handle, InRecord
    <3>2. \A i \in DOMAIN disk : i = Len(disk) \/ i \in 1..(Len(disk) - 1)
      BY DEF IInv, TypeOK
    <3>. QED  BY <3>1, <3>2 DEF AllSafe, Newest, IInv, FilesInOrder
  <2>. QED  BY <1>1, <2>1, <2>2 DEF Closing
<1>. QED  BY <1>2, <1>3, <1>4, <1>5 DEF Close

(* A power loss takes nothing from a file that is safe. *)
LEMMA HostKeepsClosing ==
  ASSUME IInv, Closing, Crash \/ LoseUnsynced
  PROVE  Closing'
<1>1. CASE Crash
  BY <1>1 DEF Crash, Closing, Newest, writer
<1>2. CASE LoseUnsynced
  <2>1. PICK i \in DOMAIN disk : Units(disk[i]) > disk[i].synced
    BY <1>2 DEF LoseUnsynced
  <2>2. ~Safe(disk[i])
    <3>1. disk[i] \in File
      BY DEF IInv, TypeOK
    <3>2. Units(disk[i]) \in Nat /\ disk[i].synced \in Nat
      BY <3>1, FileUpdates DEF File
    <3>. QED  BY <2>1, <3>2 DEF Safe
  <2>3. ~Safe(Newest)
    <3>1. i = Len(disk) \/ i \in 1..(Len(disk) - 1)
      BY DEF IInv, TypeOK
    <3>. QED  BY <2>2, <3>1 DEF IInv, FilesInOrder, Newest
  <2>. QED  BY <1>2, <2>2, <2>3 DEF LoseUnsynced, Closing, AllSafe, writer
<1>. QED  BY <1>1, <1>2

(* When Close returns nil every file of the run is complete and was synced *)
(* to its last byte, and stays so: no later call of a handler, and no      *)
(* power loss, changes what the journal holds (bwj.go:331-345).            *)
THEOREM CloseNilIsSafe == Spec => [](result[Closer] = "nil" => AllSafe(disk))
<1>1. Init => Closing
  BY ConnsAssumption DEF Init, Closing, Actors, InRecord
<1>2. IInv /\ Closing /\ [Next]_vars => Closing'
  <2> SUFFICES ASSUME IInv, Closing, [Next]_vars PROVE Closing'
    OBVIOUS
  <2>1. CASE UNCHANGED vars
    BY <2>1 DEF vars, writer, Closing, Newest
  <2>. QED
    BY <2>1, HandlerKeepsClosing, CloseKeepsClosing, HostKeepsClosing DEF Next, Finished
<1>3. Closing => (result[Closer] = "nil" => AllSafe(disk))
  BY DEF Closing
<1>. QED  BY <1>1, <1>2, <1>3, InitIInv, NextIInv, PTL DEF Spec

-----------------------------------------------------------------------------
(***************************************************************************)
(* What the files hold.  At the payload step the newest file ends in the   *)
(* header of the record being written; the log gains it when the payload   *)
(* is there, at the very step that acknowledges it.                        *)
(***************************************************************************)
Records(f) == ReadBWJFile(f).records

Pending ==
  host = "up" => \A c \in Conns : pc[c] = "payload" =>
    LET last == Newest.entries[Len(Newest.entries)] IN
    /\ last.conn = c /\ last.id = recorded[c] + 1 /\ last.bytes = Chunk(c) /\ ~last.whole

(* Every acknowledged record is there, and of each call in progress the    *)
(* bytes that are no longer left to write.                                 *)
InProgress(c) == IF pc[c] = "idle" THEN 0 ELSE request[c] - left[c]

Accounted ==
  host # "nopower" => \A c \in Conns :
    /\ Cardinality(OfConn(Log, c)) = recorded[c]
    /\ BytesOf(Log, c) >= handed[c]
    /\ left[c] <= request[c]
    /\ ~failed /\ ~closed => BytesOf(Log, c) = handed[c] + InProgress(c)

Bounded(f) ==
  Len(f.entries) <= 1 \/ FileHeaderSize + Size(Records(f)) <= RotateSize

RoomFor(c) == bytesWritten + RecordHeaderSize + Chunk(c) <= RotateSize

Measured ==
  RotateSize > 0 =>
    /\ \A i \in DOMAIN disk : Bounded(disk[i])
    /\ host = "up" /\ file # 0 /\ ~failed => bytesWritten = FileHeaderSize + Size(Records(Newest))
    /\ host = "up" => \A c \in Conns :
         /\ pc[c] = "header" => Newest.entries = << >> \/ RoomFor(c)
         /\ pc[c] = "payload" => Len(Newest.entries) = 1 \/ RoomFor(c)

ErrorsKnown == \A c \in Conns : result[c] = "error" => failed \/ closed
CloseNilCounts ==
  result[Closer] = "nil" => \A c \in Conns : Cardinality(OfConn(Log, c)) = recorded[c]

(* What a reader gets from a file in order. *)
LEMMA RecordsOf ==
  ASSUME NEW f \in File, Numbered(f), TornAtEnd(f)
  PROVE  /\ Records(f) \in Seq(Entry)
         /\ f.entries = << >> => Records(f) = << >>
         /\ Complete(f) => Records(f) = f.entries
         /\ f.entries # << >> =>
              Records(f) = IF f.entries[Len(f.entries)].whole THEN f.entries
                           ELSE SubSeq(f.entries, 1, Len(f.entries) - 1)
<1> DEFINE n == Len(f.entries)
<1>1. f.entries \in Seq(Entry) /\ n \in Nat /\ f.header \in BOOLEAN
  BY DEF File
<1>2. CASE f.entries = << >>
  <2>1. n = 0
    BY <1>2
  <2>2. Records(f) = f.entries
    BY <1>2, <2>1 DEF Records, ReadBWJFile
  <2>. QED  BY <1>1, <1>2, <2>2
<1>3. CASE f.entries # << >>
  <2>1. n > 0 /\ f.header
    BY <1>1, <1>3 DEF TornAtEnd
  <2>2. /\ \A k \in 1..(n - 1) : f.entries[k].whole
        /\ \A k \in 2..n : f.entries[k].seq = k /\ f.entries[k - 1].seq = k - 1
    BY <1>1 DEF Numbered, TornAtEnd
  <2>3. Records(f) = IF ~f.entries[n].whole THEN SubSeq(f.entries, 1, n - 1) ELSE f.entries
    BY <1>1, <2>1, <2>2 DEF Records, ReadBWJFile
  <2>4. SubSeq(f.entries, 1, n - 1) \in Seq(Entry)
    BY <1>1, <2>1
  <2>5. Complete(f) => f.entries[n].whole
    BY <1>1, <2>1 DEF Complete
  <2>. QED  BY <1>1, <1>3, <2>3, <2>4, <2>5
<1>. QED  BY <1>2, <1>3

LEMMA SameRecords ==
  ASSUME NEW f \in File, NEW g \in File, g.header = f.header, g.entries = f.entries
  PROVE  Records(g) = Records(f)
  BY DEF Records, ReadBWJFile

(* The records after a record enters a complete file. *)
LEMMA RecordsAppend ==
  ASSUME NEW f \in File, f.header, Numbered(f), Complete(f),
         NEW e \in Entry, e.seq = Len(f.entries) + 1
  PROVE  LET g == [f EXCEPT !.entries = Append(@, e)] IN
         Records(g) = IF e.whole THEN Append(Records(f), e) ELSE Records(f)
<1> DEFINE g == [f EXCEPT !.entries = Append(@, e)]
           n == Len(f.entries)
<1>1. g \in File /\ Numbered(g) /\ TornAtEnd(g) /\ g.entries # << >> /\ Len(g.entries) = n + 1
  BY AppendRecord
<1>2. g.entries = Append(f.entries, e) /\ f.entries \in Seq(Entry) /\ n \in Nat
  BY DEF File
<1>3. TornAtEnd(f)
  <2>1. 1..(n - 1) \subseteq DOMAIN f.entries
    BY <1>2
  <2>. QED  BY <2>1 DEF TornAtEnd, Complete
<1>4. Records(f) = f.entries
  BY <1>3, RecordsOf
<1>5. g.entries[n + 1] = e /\ SubSeq(g.entries, 1, (n + 1) - 1) = f.entries
  <2>1. (n + 1) - 1 = n
    BY <1>2
  <2>2. SubSeq(Append(f.entries, e), 1, n) = f.entries
    BY <1>2
  <2>. QED  BY <1>2, <2>1, <2>2
<1> HIDE DEF g
<1>6. Records(g) = IF g.entries[n + 1].whole THEN g.entries ELSE SubSeq(g.entries, 1, (n + 1) - 1)
  BY <1>1, RecordsOf
<1>7. Records(g) = IF e.whole THEN Append(Records(f), e) ELSE Records(f)
  BY <1>2, <1>4, <1>5, <1>6
<1>. QED  BY <1>7 DEF g

(* The records after the payload of the last one is there. *)
LEMMA RecordsMark ==
  ASSUME NEW f \in File, f.entries # << >>, Numbered(f), TornAtEnd(f),
         ~f.entries[Len(f.entries)].whole
  PROVE  LET g == [f EXCEPT !.entries[Len(f.entries)].whole = TRUE]
             e == [f.entries[Len(f.entries)] EXCEPT !.whole = TRUE]
         IN  e \in Entry /\ Records(g) = Append(Records(f), e)
<1> DEFINE n == Len(f.entries)
           g == [f EXCEPT !.entries[n].whole = TRUE]
           e == [f.entries[n] EXCEPT !.whole = TRUE]
<1>1. g \in File /\ Numbered(g) /\ TornAtEnd(g) /\ Complete(g)
  BY MarkRecord
<1>2. f.entries \in Seq(Entry) /\ n \in Nat /\ n > 0 /\ f.entries[n] \in Entry
  <2>1. f.entries \in Seq(Entry) /\ n \in Nat /\ n > 0
    BY DEF File
  <2>. QED  BY <2>1
<1>3. e \in Entry
  BY <1>2 DEF Entry
<1>4. g.entries = [f.entries EXCEPT ![n] = e]
  BY DEF File
<1>5. Records(g) = g.entries /\ Records(f) = SubSeq(f.entries, 1, n - 1)
  <2>1. Records(f) = SubSeq(f.entries, 1, n - 1)
    BY RecordsOf
  <2>2. Records(g) = g.entries
    <3> HIDE DEF g
    <3>. QED  BY <1>1, RecordsOf
  <2>. QED  BY <2>1, <2>2
<1>6. [f.entries EXCEPT ![n] = e] = Append(SubSeq(f.entries, 1, n - 1), e)
  <2> HIDE DEF e
  <2> DEFINE s == f.entries
             a == [s EXCEPT ![n] = e]
             b == Append(SubSeq(s, 1, n - 1), e)
  <2>1. a \in Seq(Entry) /\ Len(a) = n
    BY <1>2, <1>3
  <2>2. b \in Seq(Entry) /\ Len(b) = n
    BY <1>2, <1>3
  <2>3. \A i \in 1..n : a[i] = b[i]
    BY <1>2, <1>3
  <2> HIDE DEF a, b
  <2>. QED  BY <2>1, <2>2, <2>3, SeqEqual DEF a, b
<1>. QED  BY <1>3, <1>4, <1>5, <1>6

(* Losing the newest unit, or tearing it, costs the last record or nothing. *)
Shorter(s, t) == s = t \/ (s # << >> /\ t = SubSeq(s, 1, Len(s) - 1))

LEMMA RecordsLose ==
  ASSUME NEW f \in File, Numbered(f), TornAtEnd(f)
  PROVE  /\ Shorter(Records(f), Records(LoseUnit(f)))
         /\ Shorter(Records(f), Records(TearUnit(f)))
<1> DEFINE n == Len(f.entries)
           l == LoseUnit(f)
           t == TearUnit(f)
<1>1. /\ l \in File /\ Numbered(l) /\ TornAtEnd(l)
      /\ t \in File /\ Numbered(t) /\ TornAtEnd(t)
  BY LoseRecord
<1>2. f.entries \in Seq(Entry) /\ n \in Nat
  BY DEF File
<1>3. CASE f.entries = << >>
  <2>1. l.entries = << >> /\ t.entries = << >>
    BY <1>3 DEF LoseUnit, TearUnit, File
  <2> HIDE DEF l, t
  <2>2. Records(f) = << >> /\ Records(l) = << >> /\ Records(t) = << >>
    BY <1>1, <1>3, <2>1, RecordsOf
  <2>. QED  BY <2>2 DEF Shorter, l, t
<1>4. CASE f.entries # << >>
  <2>1. n > 0
    BY <1>2, <1>4
  <2>2. l.entries = SubSeq(f.entries, 1, n - 1) /\ f.header /\ l.header
    BY <1>4, <1>2 DEF LoseUnit, File, TornAtEnd
  <2>3. Complete(l)
    <3>1. DOMAIN l.entries = 1..(n - 1) /\ \A k \in 1..(n - 1) : l.entries[k] = f.entries[k]
      BY <1>2, <2>1, <2>2
    <3> HIDE DEF l
    <3>. QED  BY <2>2, <3>1 DEF Complete, TornAtEnd
  <2>4. Records(l) = SubSeq(f.entries, 1, n - 1)
    <3> HIDE DEF l
    <3>. QED  BY <1>1, <2>2, <2>3, RecordsOf
  <2>5. Records(t) = SubSeq(f.entries, 1, n - 1)
    <3>1. t = [f EXCEPT !.entries[n].whole = FALSE]
      BY <1>4 DEF TearUnit
    <3>2. t.entries = [f.entries EXCEPT ![n] = [f.entries[n] EXCEPT !.whole = FALSE]]
      BY <3>1 DEF File
    <3>3. f.entries[n] \in Entry
      BY <1>2, <2>1
    <3>4. /\ Len(t.entries) = n /\ t.entries # << >> /\ ~t.entries[n].whole
          /\ SubSeq(t.entries, 1, n - 1) = SubSeq(f.entries, 1, n - 1)
      <4> DEFINE e == [f.entries[n] EXCEPT !.whole = FALSE]
                 s == f.entries
                 u == [s EXCEPT ![n] = e]
      <4>1. e \in Entry /\ ~e.whole
        BY <3>3 DEF Entry
      <4> HIDE DEF e
      <4>2. u \in Seq(Entry) /\ Len(u) = n /\ u[n] = e /\ \A k \in 1..(n - 1) : u[k] = s[k]
        BY <1>2, <2>1, <4>1
      <4> HIDE DEF u
      <4>3. /\ SubSeq(u, 1, n - 1) \in Seq(Entry) /\ Len(SubSeq(u, 1, n - 1)) = n - 1
            /\ \A k \in 1..(n - 1) : SubSeq(u, 1, n - 1)[k] = u[k]
        BY <1>2, <2>1, <4>2
      <4>4. /\ SubSeq(s, 1, n - 1) \in Seq(Entry) /\ Len(SubSeq(s, 1, n - 1)) = n - 1
            /\ \A k \in 1..(n - 1) : SubSeq(s, 1, n - 1)[k] = s[k]
        BY <1>2, <2>1
      <4>5. SubSeq(u, 1, n - 1) = SubSeq(s, 1, n - 1)
        BY <4>2, <4>3, <4>4, SeqEqual
      <4>6. t.entries = u
        BY <3>2 DEF u, e
      <4>. QED  BY <2>1, <4>1, <4>2, <4>5, <4>6
    <3> HIDE DEF t
    <3>. QED  BY <1>1, <3>4, RecordsOf
  <2>6. Records(f) \in {f.entries, SubSeq(f.entries, 1, n - 1)}
    BY <1>4, RecordsOf
  <2>. QED  BY <1>4, <2>4, <2>5, <2>6 DEF Shorter
<1>. QED  BY <1>3, <1>4

(* The log of a run's files, and how it follows its newest file. *)
LogOf(d) == FlattenSeq([i \in DOMAIN d |-> Records(d[i])])

LEMMA LogReplace ==
  ASSUME NEW d \in Seq(File), FilesInOrder(d),
         NEW g \in File, Numbered(g), TornAtEnd(g)
  PROVE  \E p \in Seq(Entry) : /\ LogOf(d) = p \o Records(d[Len(d)])
                               /\ LogOf([d EXCEPT ![Len(d)] = g]) = p \o Records(g)
<1> DEFINE n == Len(d)
           e == [d EXCEPT ![n] = g]
           ss == [i \in DOMAIN d |-> Records(d[i])]
           tt == [i \in DOMAIN e |-> Records(e[i])]
<1>1. n \in Nat /\ n > 0 /\ DOMAIN d = 1..n
  BY DEF FilesInOrder
<1>2. /\ e \in Seq(File) /\ Len(e) = n /\ e[n] = g /\ FilesInOrder(e)
      /\ DOMAIN e = 1..n /\ \A i \in 1..(n - 1) : e[i] = d[i]
  <2>1. e \in Seq(File) /\ Len(e) = n /\ e[n] = g /\ FilesInOrder(e)
    BY ReplaceNewest
  <2>2. DOMAIN e = 1..n
    <3>1. DOMAIN e = DOMAIN d
      OBVIOUS
    <3>. QED  BY <1>1, <3>1
  <2>3. \A i \in 1..(n - 1) : i \in DOMAIN d /\ i # n
    <3> HIDE DEF n
    <3>. QED  BY <1>1
  <2>4. \A i \in 1..(n - 1) : e[i] = d[i]
    <3> HIDE DEF n
    <3>. QED  BY <2>3
  <2>. QED  BY <2>1, <2>2, <2>4
<1> DEFINE R == Seq(Entry)
<1>3. \A i \in 1..n : Records(d[i]) \in R /\ Records(e[i]) \in R
  <2> SUFFICES ASSUME NEW i \in 1..n PROVE Records(d[i]) \in R /\ Records(e[i]) \in R
    OBVIOUS
  <2>1. d[i] \in File /\ Numbered(d[i]) /\ TornAtEnd(d[i])
    BY <1>1 DEF FilesInOrder
  <2>2. e[i] \in File /\ Numbered(e[i]) /\ TornAtEnd(e[i])
    BY <1>1, <1>2, <2>1
  <2> HIDE DEF e
  <2>. QED  BY <2>1, <2>2, RecordsOf
<1> HIDE DEF e
<1>4. ss \in Seq(R) /\ Len(ss) = n
  <2> HIDE DEF R, n
  <2>. QED  BY <1>1, <1>3
<1>5. tt \in Seq(R) /\ Len(tt) = n
  <2> HIDE DEF R, n
  <2>. QED  BY <1>1, <1>2, <1>3
<1>6. \A i \in 1..n : ss[i] = Records(d[i]) /\ tt[i] = Records(e[i])
  BY <1>1, <1>2
<1>7. \A i \in 1..(n - 1) : tt[i] = ss[i]
  <2>1. \A i \in 1..(n - 1) : i \in 1..n
    BY <1>1
  <2> HIDE DEF ss, tt, n
  <2>. QED  BY <1>2, <1>6, <2>1
<1>8. ss # << >>
  BY <1>1, <1>4
<1> HIDE DEF ss, tt
<1>9. \E p \in Seq(Entry) : FlattenSeq(ss) = p \o ss[n] /\ FlattenSeq(tt) = p \o tt[n]
  <2>1. SameFront(ss, tt)
    BY <1>4, <1>5, <1>7, <1>8 DEF SameFront
  <2>2. ss \in Seq(Seq(Entry)) /\ tt \in Seq(Seq(Entry))
    BY <1>4, <1>5 DEF R
  <2> HIDE DEF n
  <2>3. \E p \in Seq(Entry) : FlattenSeq(ss) = p \o ss[Len(ss)] /\ FlattenSeq(tt) = p \o tt[Len(tt)]
    BY <2>1, <2>2, FlattenReplace
  <2>. QED  BY <1>4, <1>5, <2>3
<1>10. ss[n] = Records(d[n]) /\ tt[n] = Records(g)
  BY <1>1, <1>2, <1>6
<1>11. LogOf(d) = FlattenSeq(ss) /\ LogOf(e) = FlattenSeq(tt)
  BY DEF LogOf, ss, tt
<1>12. \E p \in Seq(Entry) : LogOf(d) = p \o Records(d[n]) /\ LogOf(e) = p \o Records(g)
  BY <1>9, <1>10, <1>11
<1>. QED  BY <1>12 DEF e

LEMMA LogNewFile ==
  ASSUME NEW d \in Seq(File), FilesInOrder(d)
  PROVE  LogOf(Append(d, NewFile)) = LogOf(d)
<1> DEFINE n == Len(d)
           e == Append(d, NewFile)
           ss == [i \in DOMAIN d |-> Records(d[i])]
           tt == [i \in DOMAIN e |-> Records(e[i])]
           R == Seq(Entry)
<1>1. n \in Nat /\ DOMAIN d = 1..n
  BY DEF FilesInOrder
<1>2. /\ DOMAIN e = 1..(n + 1) /\ e[n + 1] = NewFile
      /\ \A i \in 1..n : e[i] = d[i]
  BY <1>1, NewFileType
<1>3. Records(NewFile) = << >>
  BY NewFileType, RecordsOf DEF NewFile
<1>4. \A i \in 1..n : Records(d[i]) \in R
  <2>1. \A i \in 1..n : d[i] \in File /\ Numbered(d[i]) /\ TornAtEnd(d[i])
    BY <1>1 DEF FilesInOrder
  <2>. QED  BY <2>1, RecordsOf
<1> DEFINE none == << >>
<1>5. ss \in Seq(R) /\ Len(ss) = n /\ none \in R
  <2>1. none \in R
    OBVIOUS
  <2> HIDE DEF R, n, none
  <2>. QED  BY <1>1, <1>4, <2>1
<1>6. tt = Append(ss, none)
  <2>1. Append(ss, none) = [i \in 1..(n + 1) |-> IF i = n + 1 THEN none ELSE ss[i]]
    <3> DEFINE s == ss
               x == none
    <3>1. s \in Seq(R) /\ x \in R /\ Len(s) = n
      BY <1>5
    <3> HIDE DEF R, n, x, s
    <3> DEFINE q == Append(s, x)
    <3>2. q \in Seq(R) /\ Len(q) = n + 1 /\ q[n + 1] = x /\ \A i \in 1..n : q[i] = s[i]
      BY <1>1, <3>1
    <3> HIDE DEF q
    <3>3. q = [i \in 1..(n + 1) |-> q[i]]
      BY <1>1, <3>2
    <3>4. \A i \in 1..(n + 1) : q[i] = IF i = n + 1 THEN x ELSE s[i]
      BY <1>1, <3>2
    <3>5. q = [i \in 1..(n + 1) |-> IF i = n + 1 THEN x ELSE s[i]]
      BY <3>3, <3>4
    <3>. QED  BY <3>5 DEF q, s, x
  <2>2. \A i \in 1..(n + 1) : Records(e[i]) = IF i = n + 1 THEN none ELSE ss[i]
    <3> HIDE DEF e
    <3>. QED  BY <1>1, <1>2, <1>3
  <2>3. tt = [i \in 1..(n + 1) |-> Records(e[i])]
    BY <1>2
  <2> HIDE DEF R, n, none, ss, tt, e
  <2>. QED  BY <2>1, <2>2, <2>3
<1>7. FlattenSeq(ss) \in Seq(Entry) /\ FlattenSeq(Append(ss, none)) = FlattenSeq(ss) \o none
  <2> HIDE DEF ss, none, n
  <2>. QED  BY <1>5, FlattenAppend DEF R
<1>8. FlattenSeq(ss) \o none = FlattenSeq(ss)
  <2> HIDE DEF ss
  <2>. QED  BY <1>7
<1>9. LogOf(e) = FlattenSeq(tt) /\ LogOf(d) = FlattenSeq(ss)
  BY DEF LogOf
<1>. QED  BY <1>6, <1>7, <1>8, <1>9

(* What a change of the newest file does to the log. *)
LEMMA LogFollows ==
  ASSUME IInv, NEW g \in File, Numbered(g), TornAtEnd(g),
         disk' = [disk EXCEPT ![Len(disk)] = g]
  PROVE  /\ Log \in Seq(Entry)
         /\ Records(g) = Records(Newest) => Log' = Log
         /\ \A r \in Entry : Records(g) = Append(Records(Newest), r) => Log' = Append(Log, r)
         /\ Shorter(Records(Newest), Records(g)) => Shorter(Log, Log')
<1>1. disk \in Seq(File) /\ FilesInOrder(disk)
  BY DEF IInv, TypeOK
<1>2. Log = LogOf(disk) /\ Log' = LogOf(disk')
  BY DEF Log, LogOf, Records
<1>3. PICK p \in Seq(Entry) : Log = p \o Records(Newest) /\ Log' = p \o Records(g)
  <2>1. \E p \in Seq(Entry) : /\ LogOf(disk) = p \o Records(disk[Len(disk)])
                              /\ LogOf([disk EXCEPT ![Len(disk)] = g]) = p \o Records(g)
    BY <1>1, LogReplace
  <2>. QED  BY <1>2, <2>1 DEF Newest
<1> DEFINE s == Records(Newest)
           t == Records(g)
<1>4. s \in Seq(Entry) /\ t \in Seq(Entry)
  BY NewestInOrder, RecordsOf
<1>5. Log = p \o s /\ Log' = p \o t
  BY <1>3
<1> HIDE DEF s, t
<1>6. Log \in Seq(Entry)
  BY <1>4, <1>5
<1>7. \A r \in Entry : t = Append(s, r) => Log' = Append(Log, r)
  <2> SUFFICES ASSUME NEW r \in Entry, t = Append(s, r) PROVE p \o t = Append(p \o s, r)
    BY <1>5
  <2>. QED  BY <1>4
<1>8. Shorter(s, t) => Shorter(Log, Log')
  <2> SUFFICES ASSUME s # << >>, t = SubSeq(s, 1, Len(s) - 1)
               PROVE  p \o s # << >> /\ p \o t = SubSeq(p \o s, 1, Len(p \o s) - 1)
    BY <1>5 DEF Shorter
  <2> DEFINE a == SubSeq(s, 1, Len(s) - 1)
             l == s[Len(s)]
  <2>1. a \in Seq(Entry) /\ l \in Entry /\ s = Append(a, l)
    BY <1>4
  <2> HIDE DEF a, l
  <2>2. p \o s = Append(p \o a, l) /\ p \o a \in Seq(Entry)
    BY <2>1
  <2>3. SubSeq(Append(p \o a, l), 1, Len(p \o a)) = p \o a /\ Len(Append(p \o a, l)) = Len(p \o a) + 1
    <3> DEFINE q == p \o a
    <3>1. q \in Seq(Entry) /\ l \in Entry
      BY <2>1, <2>2
    <3> HIDE DEF q
    <3>2. SubSeq(Append(q, l), 1, Len(q)) = q /\ Len(Append(q, l)) = Len(q) + 1
      BY <3>1
    <3>. QED  BY <3>2 DEF q
  <2>4. Len(p \o a) \in Nat
    BY <2>2
  <2>5. p \o s # << >>
    BY <2>1, <2>2
  <2>6. Len(p \o s) - 1 = Len(p \o a)
    BY <2>2, <2>3, <2>4
  <2>. QED  BY <2>2, <2>3, <2>5, <2>6 DEF a
<1>. QED  BY <1>5, <1>6, <1>7, <1>8 DEF s, t

(* The step that writes a record, and the steps that write none. *)
Written(c) ==
  /\ host = "up" /\ pc[c] \in {"header", "payload"} /\ Acknowledge(c)
  /\ \E r \in Entry :
       /\ r.conn = c /\ r.id = recorded[c] + 1 /\ r.bytes = Chunk(c)
       /\ Log' = Append(Log, r)
       /\ Records(Newest') = Append(Records(Newest), r)
       /\ Len(Newest'.entries) = Len(Records(Newest'))

Unwritten(c) ==
  /\ host = "up" /\ Log' = Log
  /\ UNCHANGED <<left, ghosts, closed, host>>
  /\ pc[c] \in InRecord
  /\ \/ pc'[c] \in InRecord /\ failed' = failed
     \/ pc'[c] = "idle" /\ failed'

(* What is known of the newest file at the steps of a record. *)
LEMMA InStep ==
  ASSUME IInv, host = "up", NEW c \in Conns, pc[c] \in InRecord
  PROVE  /\ ~failed /\ fileSequence = Len(disk)
         /\ pc[c] \in {"syncOld", "closeOld", "header", "payload"} =>
              /\ file = Len(disk) /\ file # 0
              /\ Newest.header /\ Len(Newest.entries) = recordSequence
         /\ pc[c] \in {"syncOld", "closeOld", "header"} => Complete(Newest)
         /\ pc[c] = "payload" => Newest.entries # << >>
         /\ pc[c] = "fileHeader" => Newest = NewFile
<1>1. Handle /\ AtStep(c)
  BY DEF IInv, WriterState
<1>2. pc[c] # "payload" => \A d \in Conns : pc[d] # "payload"
  BY Alone DEF InRecord
<1>. QED  BY <1>1, <1>2 DEF Handle, AtStep, InRecord

LEMMA LogType ==
  ASSUME IInv
  PROVE  Log \in Seq(Entry)
<1>1. disk \in Seq(File) /\ FilesInOrder(disk) /\ Newest \in File /\ Numbered(Newest) /\ TornAtEnd(Newest)
  BY NewestInOrder DEF IInv, TypeOK
<1>2. \E p \in Seq(Entry) : LogOf(disk) = p \o Records(disk[Len(disk)])
  BY <1>1, LogReplace
<1>3. Records(Newest) \in Seq(Entry)
  BY <1>1, RecordsOf
<1>4. LogOf(disk) \in Seq(Entry)
  BY <1>2, <1>3 DEF Newest
<1>. QED  BY <1>4 DEF LogOf, Log, Records

LEMMA SealKeepsLog ==
  ASSUME IInv, disk' = [disk EXCEPT ![Len(disk)] = Sealed(Newest)]
  PROVE  /\ Log' = Log /\ Len(disk') = Len(disk)
         /\ Newest' = Sealed(Newest) /\ Records(Newest') = Records(Newest)
         /\ Newest'.entries = Newest.entries
<1>1. /\ Newest \in File /\ Numbered(Newest) /\ TornAtEnd(Newest)
      /\ Sealed(Newest) \in File /\ Numbered(Sealed(Newest)) /\ TornAtEnd(Sealed(Newest))
      /\ Sealed(Newest).header = Newest.header /\ Sealed(Newest).entries = Newest.entries
  BY NewestInOrder, SealFile
<1>2. Records(Sealed(Newest)) = Records(Newest)
  BY <1>1, SameRecords
<1>3. Newest' = Sealed(Newest) /\ Len(disk') = Len(disk)
  BY <1>1, NewestChange
<1>. QED  BY <1>1, <1>2, <1>3, LogFollows

LEMMA RotateLog ==
  ASSUME IInv, NEW c \in Conns,
         SyncOld(c) \/ CloseOld(c) \/ Create(c) \/ WriteFileHeader(c)
  PROVE  /\ Unwritten(c)
         /\ Create(c) => Newest' = NewFile /\ Len(disk') = Len(disk) + 1
         /\ WriteFileHeader(c) => Newest'.entries = << >> /\ Records(Newest') = << >>
         /\ ~Create(c) => Len(disk') = Len(disk)
         /\ SyncOld(c) => Newest'.entries = Newest.entries /\ Records(Newest') = Records(Newest)
<1>1. /\ host = "up" /\ pc[c] \in InRecord /\ pc'[c] \in InRecord /\ failed' = failed
      /\ UNCHANGED <<left, ghosts, closed, host>>
  BY DEF At, Goto, writer, SyncOld, CloseOld, Create, WriteFileHeader, InRecord, IInv, TypeOK, Actors
<1>2. CASE SyncOld(c)
  <2>1. disk' = [disk EXCEPT ![Len(disk)] = Sealed(Newest)]
    BY <1>1, <1>2, InStep DEF SyncOld, At, Newest
  <2>2. ~Create(c) /\ ~WriteFileHeader(c)
    BY <1>2 DEF SyncOld, Create, WriteFileHeader, At
  <2>. QED  BY <1>1, <2>1, <2>2, SealKeepsLog DEF Unwritten
<1>3. CASE CloseOld(c)
  <2>1. disk' = disk /\ ~Create(c) /\ ~WriteFileHeader(c) /\ ~SyncOld(c)
    BY <1>3 DEF CloseOld, Create, WriteFileHeader, SyncOld, At
  <2>. QED  BY <1>1, <2>1 DEF Unwritten, Log
<1>4. CASE Create(c)
  <2>1. disk' = Append(disk, NewFile) /\ ~WriteFileHeader(c) /\ ~SyncOld(c)
    BY <1>4 DEF Create, WriteFileHeader, SyncOld, At
  <2>2. disk \in Seq(File) /\ FilesInOrder(disk)
    BY DEF IInv, TypeOK
  <2>3. LogOf(Append(disk, NewFile)) = LogOf(disk)
    BY <2>2, LogNewFile
  <2>4. Log = LogOf(disk) /\ Log' = LogOf(disk')
    BY DEF Log, LogOf, Records
  <2>5. Newest' = NewFile /\ Len(disk') = Len(disk) + 1
    BY <2>1, <2>2, NewFileType DEF Newest
  <2>. QED  BY <1>1, <1>4, <2>1, <2>3, <2>4, <2>5 DEF Unwritten
<1>5. CASE WriteFileHeader(c)
  <2> DEFINE g == [NewFile EXCEPT !.header = TRUE]
  <2>1. Newest = NewFile /\ fileSequence = Len(disk)
    BY <1>1, <1>5, InStep DEF WriteFileHeader, At
  <2>2. g \in File /\ g.entries = << >>
    BY NewFileType, FileUpdates DEF NewFile
  <2>3. Numbered(g) /\ TornAtEnd(g)
    BY <2>2 DEF Numbered, TornAtEnd
  <2>4. disk' = [disk EXCEPT ![Len(disk)] = g]
    BY <1>5, <2>1 DEF WriteFileHeader, Newest
  <2> HIDE DEF g
  <2>5. Records(g) = << >> /\ Records(Newest) = << >>
    <3>1. NewFile.entries = << >>
      BY DEF NewFile
    <3>. QED  BY <2>1, <2>2, <2>3, <3>1, NewFileType, RecordsOf
  <2>6. Newest' = g /\ Len(disk') = Len(disk)
    BY <2>2, <2>3, <2>4, NewestChange
  <2>7. Log' = Log
    BY <2>2, <2>3, <2>4, <2>5, LogFollows
  <2>8. ~Create(c) /\ ~SyncOld(c)
    BY <1>5 DEF WriteFileHeader, Create, SyncOld, At
  <2>. QED  BY <1>1, <2>2, <2>5, <2>6, <2>7, <2>8 DEF Unwritten
<1>. QED  BY <1>2, <1>3, <1>4, <1>5

(* The header of a record that has a payload adds no record yet. *)
LEMMA AppendLog ==
  ASSUME IInv, NEW c \in Conns, NEW b \in BOOLEAN, host = "up", pc[c] = "header",
         AppendEntry(NewEntry(c, b))
  PROVE  /\ Len(disk') = Len(disk)
         /\ Newest'.entries = Append(Newest.entries, NewEntry(c, b))
         /\ Records(Newest) = Newest.entries
         /\ IF b THEN /\ Log' = Append(Log, NewEntry(c, b))
                      /\ Records(Newest') = Append(Records(Newest), NewEntry(c, b))
                 ELSE Log' = Log /\ Records(Newest') = Records(Newest)
<1> DEFINE e == NewEntry(c, b)
           g == [Newest EXCEPT !.entries = Append(@, e)]
<1>1. /\ file = Len(disk) /\ Newest.header /\ Complete(Newest)
      /\ Len(Newest.entries) = recordSequence
  BY InStep DEF InRecord
<1>2. e \in Entry /\ e.seq = Len(Newest.entries) + 1 /\ e.whole = b
  BY <1>1, NewEntryType DEF IInv
<1>3. Newest \in File /\ Numbered(Newest) /\ TornAtEnd(Newest)
  BY NewestInOrder
<1>4. disk' = [disk EXCEPT ![Len(disk)] = g]
  BY <1>1 DEF AppendEntry, Newest
<1> HIDE DEF e
<1>5. g \in File /\ Numbered(g) /\ TornAtEnd(g)
  BY <1>1, <1>2, <1>3, AppendRecord
<1>6. Records(g) = IF e.whole THEN Append(Records(Newest), e) ELSE Records(Newest)
  BY <1>1, <1>2, <1>3, RecordsAppend
<1>7. g.entries = Append(Newest.entries, e)
  BY <1>3 DEF File
<1>8. Records(Newest) = Newest.entries
  BY <1>1, <1>3, RecordsOf
<1> HIDE DEF g
<1>9. Newest' = g /\ Len(disk') = Len(disk)
  BY <1>4, <1>5, NewestChange
<1>10. IF b THEN Log' = Append(Log, e) ELSE Log' = Log
  BY <1>2, <1>4, <1>5, <1>6, LogFollows
<1>. QED  BY <1>2, <1>6, <1>7, <1>8, <1>9, <1>10 DEF e

LEMMA PayloadLog ==
  ASSUME IInv, Pending, NEW c \in Conns, WritePayload(c)
  PROVE  /\ Written(c)
         /\ Len(disk') = Len(disk) /\ Len(Newest'.entries) = Len(Newest.entries)
<1> USE DEF At
<1> DEFINE g == [Newest EXCEPT !.entries[Len(Newest.entries)].whole = TRUE]
           e == [Newest.entries[Len(Newest.entries)] EXCEPT !.whole = TRUE]
           last == Newest.entries[Len(Newest.entries)]
<1>1. host = "up" /\ pc[c] = "payload" /\ Acknowledge(c)
  BY DEF WritePayload
<1>2. file = Len(disk) /\ Newest.entries # << >>
  BY <1>1, InStep DEF InRecord
<1>3. last.conn = c /\ last.id = recorded[c] + 1 /\ last.bytes = Chunk(c) /\ ~last.whole
  BY <1>1 DEF Pending
<1>4. Newest \in File /\ Numbered(Newest) /\ TornAtEnd(Newest)
  BY NewestInOrder
<1>5. disk' = [disk EXCEPT ![Len(disk)] = g]
  BY <1>2 DEF WritePayload, Newest
<1>6. g \in File /\ Numbered(g) /\ TornAtEnd(g) /\ Complete(g)
      /\ Len(g.entries) = Len(Newest.entries)
  BY <1>2, <1>4, MarkRecord
<1>7. e \in Entry /\ Records(g) = Append(Records(Newest), e)
  BY <1>2, <1>3, <1>4, RecordsMark
<1>8. e.conn = c /\ e.id = recorded[c] + 1 /\ e.bytes = Chunk(c)
  <2>1. last \in Entry
    <3>1. Len(Newest.entries) \in 1..Len(Newest.entries) /\ Newest.entries \in Seq(Entry)
      BY <1>2, <1>4 DEF File
    <3>. QED  BY <3>1
  <2> HIDE DEF last
  <2>2. [last EXCEPT !.whole = TRUE].conn = last.conn /\ [last EXCEPT !.whole = TRUE].id = last.id
        /\ [last EXCEPT !.whole = TRUE].bytes = last.bytes
    BY <2>1 DEF Entry
  <2>. QED  BY <1>3, <2>2 DEF last
<1> HIDE DEF g, e
<1>9. Newest' = g /\ Len(disk') = Len(disk)
  BY <1>5, <1>6, NewestChange
<1>10. Log' = Append(Log, e)
  BY <1>5, <1>6, <1>7, LogFollows
<1>11. Records(g) = g.entries
  BY <1>6, RecordsOf
<1>. QED  BY <1>1, <1>6, <1>7, <1>8, <1>9, <1>10, <1>11 DEF Written

LEMMA HeaderLog ==
  ASSUME IInv, NEW c \in Conns, WriteHeader(c)
  PROVE  IF Chunk(c) = 0 THEN Written(c)
         ELSE /\ Unwritten(c) /\ Records(Newest') = Records(Newest)
              /\ Newest'.entries = Append(Newest.entries, NewEntry(c, FALSE))
<1>1. host = "up" /\ pc[c] = "header" /\ UNCHANGED <<closed, host>>
  BY DEF WriteHeader, At, Acknowledge
<1>2. CASE Chunk(c) = 0
  <2>1. AppendEntry(NewEntry(c, TRUE)) /\ Acknowledge(c)
    BY <1>2 DEF WriteHeader
  <2>2. NewEntry(c, TRUE) \in Entry
    BY NewEntryType DEF IInv
  <2>3. /\ NewEntry(c, TRUE).conn = c /\ NewEntry(c, TRUE).id = recorded[c] + 1
        /\ NewEntry(c, TRUE).bytes = Chunk(c)
    BY DEF NewEntry
  <2>4. /\ Newest'.entries = Append(Newest.entries, NewEntry(c, TRUE))
        /\ Records(Newest) = Newest.entries
        /\ Log' = Append(Log, NewEntry(c, TRUE))
        /\ Records(Newest') = Append(Records(Newest), NewEntry(c, TRUE))
    BY <1>1, <2>1, AppendLog
  <2>. QED  BY <1>1, <1>2, <2>1, <2>2, <2>3, <2>4 DEF Written
<1>3. CASE Chunk(c) # 0
  <2>1. AppendEntry(NewEntry(c, FALSE)) /\ UNCHANGED <<left, ghosts>> /\ failed' = failed
        /\ Goto(c, "payload")
    BY <1>3 DEF WriteHeader
  <2>2. pc'[c] \in InRecord /\ pc[c] \in InRecord
    BY <1>1, <2>1 DEF Goto, InRecord, IInv, TypeOK, Actors
  <2>3. /\ Newest'.entries = Append(Newest.entries, NewEntry(c, FALSE))
        /\ Log' = Log /\ Records(Newest') = Records(Newest)
    BY <1>1, <2>1, AppendLog
  <2>. QED  BY <1>1, <1>3, <2>1, <2>2, <2>3 DEF Unwritten
<1>. QED  BY <1>2, <1>3

LEMMA FailLog ==
  ASSUME IInv, NEW c \in Conns,
         \/ RotateFails(c) \/ CreateFails(c) \/ WriteFileHeaderFails(c)
         \/ WriteHeaderFails(c) \/ WritePayloadFails(c)
  PROVE  /\ Unwritten(c) /\ failed'
         /\ \/ disk' = disk
            \/ pc[c] = "header" /\ AppendEntry(NewEntry(c, FALSE))
         /\ UNCHANGED file
<1>1. /\ host = "up" /\ pc[c] \in InRecord /\ FailLocked(c)
      /\ UNCHANGED file
      /\ \/ disk' = disk
         \/ pc[c] = "header" /\ AppendEntry(NewEntry(c, FALSE))
  BY DEF At, InRecord, RotateFails, CreateFails, WriteFileHeaderFails, WriteHeaderFails, WritePayloadFails
<1>2. pc'[c] = "idle" /\ failed' /\ UNCHANGED <<left, ghosts, closed, host>>
  BY <1>1 DEF FailLocked, Goto, IInv, TypeOK, Actors
<1>3. Log' = Log
  <2>1. CASE disk' = disk
    BY <2>1 DEF Log
  <2>2. CASE pc[c] = "header" /\ AppendEntry(NewEntry(c, FALSE))
    BY <1>1, <2>2, AppendLog
  <2>. QED  BY <1>1, <2>1, <2>2
<1>. QED  BY <1>1, <1>2, <1>3 DEF Unwritten

(* One step of writeRecord, as far as the log is concerned. *)
LEMMA StepLog ==
  ASSUME IInv, Pending, NEW c \in Conns, Step(c)
  PROVE  Written(c) \/ Unwritten(c)
  BY RotateLog, HeaderLog, PayloadLog, FailLog DEF Step

LEMMA CallLog ==
  ASSUME IInv, NEW c \in Conns, WriteMeta(c) \/ WriteData(c) \/ Enter(c)
  PROVE  Log' = Log /\ disk' = disk /\ UNCHANGED recorded
<1>1. disk' = disk /\ UNCHANGED recorded
  BY DEF WriteMeta, WriteData, StartCall, Enter, Refuse, EnterRotate, EnterWrite, ghosts
<1>. QED  BY <1>1 DEF Log

LEMMA CloseLog ==
  ASSUME IInv, Close
  PROVE  /\ Log' = Log /\ UNCHANGED <<left, ghosts>>
         /\ Len(disk') = Len(disk)
         /\ disk' = disk \/ disk' = [disk EXCEPT ![Len(disk)] = Sealed(Newest)]
<1>1. UNCHANGED <<left, ghosts>>
  BY DEF Close, CloseNoFile, CloseStart, CloseSync, CloseFile
<1>2. disk' = disk \/ disk' = [disk EXCEPT ![Len(disk)] = Sealed(Newest)]
  <2>1. CASE CloseSync
    <3>1. host = "up" /\ pc[Closer] = "closeSync"
      BY <2>1 DEF CloseSync, At
    <3>2. file = Len(disk)
      BY <3>1 DEF IInv, WriterState, Handle
    <3>. QED  BY <2>1, <3>2 DEF CloseSync, Newest
  <2>. QED  BY <2>1 DEF Close, CloseNoFile, CloseStart, CloseFile
<1>3. CASE disk' = disk
  BY <1>1, <1>2, <1>3 DEF Log
<1>4. CASE disk' = [disk EXCEPT ![Len(disk)] = Sealed(Newest)]
  BY <1>1, <1>2, <1>4, SealKeepsLog
<1>. QED  BY <1>2, <1>3, <1>4

LEMMA LoseChanges ==
  ASSUME IInv, LoseUnsynced
  PROVE  /\ \/ disk' = [disk EXCEPT ![Len(disk)] = LoseUnit(Newest)]
            \/ disk' = [disk EXCEPT ![Len(disk)] = TearUnit(Newest)]
         /\ Shorter(Log, Log')
<1>1. PICK i \in DOMAIN disk :
        /\ Units(disk[i]) > disk[i].synced
        /\ disk' \in { [disk EXCEPT ![i] = LoseUnit(@)], [disk EXCEPT ![i] = TearUnit(@)] }
  BY DEF LoseUnsynced
<1>2. i = Len(disk)
  <2>1. ~Safe(disk[i])
    <3>1. disk[i] \in File
      BY DEF IInv, TypeOK
    <3>2. Units(disk[i]) \in Nat /\ disk[i].synced \in Nat
      BY <3>1, FileUpdates DEF File
    <3>. QED  BY <1>1, <3>2 DEF Safe
  <2>2. i \in 1..Len(disk) /\ Len(disk) \in Nat
    BY DEF IInv, TypeOK
  <2>3. \A k \in 1..(Len(disk) - 1) : Safe(disk[k])
    BY DEF IInv, FilesInOrder
  <2>. QED  BY <2>1, <2>2, <2>3
<1>3. \/ disk' = [disk EXCEPT ![Len(disk)] = LoseUnit(Newest)]
      \/ disk' = [disk EXCEPT ![Len(disk)] = TearUnit(Newest)]
  BY <1>1, <1>2 DEF Newest
<1>4. Newest \in File /\ Numbered(Newest) /\ TornAtEnd(Newest)
  BY NewestInOrder
<1>5. /\ Shorter(Records(Newest), Records(LoseUnit(Newest)))
      /\ Shorter(Records(Newest), Records(TearUnit(Newest)))
  BY <1>4, RecordsLose
<1>6. Shorter(Log, Log')
  BY <1>3, <1>4, <1>5, LoseRecord, LogFollows
<1>. QED  BY <1>3, <1>6

(* A handler at the payload step has just written the header, or no one    *)
(* has touched the files or its counters.                                  *)
LEMMA PayloadEntered ==
  ASSUME IInv, [Next]_vars, host' = "up", NEW c \in Conns, pc'[c] = "payload"
  PROVE  \/ WriteHeader(c) /\ Chunk(c) # 0
         \/ /\ pc[c] = "payload" /\ host = "up" /\ disk' = disk
            /\ left'[c] = left[c] /\ recorded'[c] = recorded[c]
<1> USE ConnsAssumption DEF IInv, TypeOK, Actors, Goto
<1>1. ASSUME NEW d \in Conns, WriteMeta(d) \/ WriteData(d)
      PROVE  /\ pc[c] = "payload" /\ host = "up" /\ disk' = disk
             /\ left'[c] = left[c] /\ recorded'[c] = recorded[c]
  <2>1. \E size \in Nat : StartCall(d, size)
    BY <1>1, CallsAssumption, SizesAssumption DEF WriteMeta, WriteData
  <2>2. pc' = pc \/ pc' = [pc EXCEPT ![d] = "lock"]
    BY <1>1 DEF WriteMeta, WriteData
  <2>. QED  BY <2>1, <2>2 DEF StartCall
<1>2. ASSUME NEW d \in Conns, Enter(d)
      PROVE  /\ pc[c] = "payload" /\ host = "up" /\ disk' = disk
             /\ left'[c] = left[c] /\ recorded'[c] = recorded[c]
  BY <1>2 DEF Enter, Refuse, EnterRotate, EnterWrite, RotateFirst, Lock, ghosts
<1>3. ASSUME NEW d \in Conns, Step(d)
      PROVE  WriteHeader(c) /\ Chunk(c) # 0
  <2>1. pc'[d] # "payload" \/ (WriteHeader(d) /\ Chunk(d) # 0)
    <3>1. CASE SyncOld(d) \/ CloseOld(d) \/ Create(d) \/ WriteFileHeader(d)
      BY <3>1 DEF SyncOld, CloseOld, Create, WriteFileHeader, At, InRecord
    <3>2. CASE RotateFails(d) \/ CreateFails(d) \/ WriteFileHeaderFails(d)
               \/ WriteHeaderFails(d) \/ WritePayloadFails(d)
      BY <3>2 DEF RotateFails, CreateFails, WriteFileHeaderFails, WriteHeaderFails,
                  WritePayloadFails, At, InRecord, FailLocked
    <3>3. CASE WriteHeader(d) \/ WritePayload(d)
      BY <3>3 DEF WriteHeader, WritePayload, Acknowledge, At, InRecord
    <3>. QED  BY <1>3, <3>1, <3>2, <3>3 DEF Step
  <2>2. pc[d] \in InRecord
    BY <1>3 DEF Step, SyncOld, CloseOld, Create, WriteFileHeader, RotateFails, CreateFails,
                WriteFileHeaderFails, WriteHeaderFails, WritePayloadFails, WriteHeader,
                WritePayload, At, InRecord
  <2>3. \A a \in Actors : a # d => pc'[a] = pc[a]
    BY <1>3 DEF Step, SyncOld, CloseOld, Create, WriteFileHeader, RotateFails, CreateFails,
                WriteFileHeaderFails, WriteHeaderFails, WritePayloadFails, WriteHeader,
                WritePayload, Acknowledge, FailLocked
  <2>4. c = d
    BY <2>2, <2>3, Alone DEF InRecord
  <2>. QED  BY <2>1, <2>4
<1>4. ASSUME Close
      PROVE  /\ pc[c] = "payload" /\ host = "up" /\ disk' = disk
             /\ left'[c] = left[c] /\ recorded'[c] = recorded[c]
  <2>1. /\ host = "up" /\ pc'[c] = pc[c] /\ UNCHANGED <<left, recorded>>
        /\ disk' = disk \/ pc[Closer] = "closeSync"
    <3>1. CASE CloseNoFile
      BY <3>1 DEF CloseNoFile, Return, ghosts
    <3>2. CASE CloseStart
      BY <3>2 DEF CloseStart, ghosts
    <3>3. CASE CloseSync
      BY <3>3 DEF CloseSync, At, ghosts
    <3>4. CASE CloseFile
      BY <3>4 DEF CloseFile, At, Return, ghosts
    <3>. QED  BY <1>4, <3>1, <3>2, <3>3, <3>4 DEF Close
  <2>. QED  BY <2>1, Alone DEF InRecord
<1>5. CASE UNCHANGED vars
  BY <1>5 DEF vars, writer, ghosts
<1>. QED
  BY <1>1, <1>2, <1>3, <1>4, <1>5 DEF Next, Finished, Crash, LoseUnsynced

(* The record at the payload step stays the one its handler is writing. *)
LEMMA NextPending == IInv /\ Pending /\ [Next]_vars => Pending'
<1> SUFFICES ASSUME IInv, Pending, [Next]_vars, host' = "up",
                    NEW c \in Conns, pc'[c] = "payload"
             PROVE  LET last == Newest.entries[Len(Newest.entries)] IN
                    (/\ last.conn = c /\ last.id = recorded[c] + 1 /\ last.bytes = Chunk(c) /\ ~last.whole)'
  BY DEF Pending
<1>1. CASE WriteHeader(c) /\ Chunk(c) # 0
  <2> DEFINE e == NewEntry(c, FALSE)
  <2>1. /\ Newest'.entries = Append(Newest.entries, e)
        /\ UNCHANGED <<left, ghosts>>
    BY <1>1, HeaderLog DEF Unwritten
  <2>2. e.conn = c /\ e.id = recorded[c] + 1 /\ e.bytes = Chunk(c) /\ ~e.whole
    BY DEF NewEntry
  <2>3. e \in Entry /\ Newest.entries \in Seq(Entry)
    BY NewEntryType, NewestInOrder DEF IInv, File
  <2> HIDE DEF e
  <2>4. Newest'.entries[Len(Newest'.entries)] = e
    BY <2>1, <2>3
  <2>5. recorded' = recorded /\ Chunk(c)' = Chunk(c)
    BY <2>1 DEF ghosts, Chunk
  <2>. QED  BY <2>2, <2>4, <2>5
<1>2. CASE /\ pc[c] = "payload" /\ host = "up" /\ disk' = disk
           /\ left'[c] = left[c] /\ recorded'[c] = recorded[c]
  BY <1>2 DEF Pending, Newest, Chunk
<1>. QED  BY <1>1, <1>2, PayloadEntered

LEMMA StepAt ==
  ASSUME IInv, NEW c \in Conns, Step(c)
  PROVE  /\ host = "up" /\ host' = host /\ closed' = closed /\ pc[c] \in InRecord /\ ~failed
         /\ \A a \in Actors : a # c => pc'[a] = pc[a] /\ result'[a] = result[a]
         /\ result'[c] = "error" => result[c] = "error" \/ failed'
<1> USE DEF IInv, TypeOK, Actors, Goto
<1>1. /\ host = "up" /\ host' = host /\ closed' = closed /\ pc[c] \in InRecord
      /\ \A a \in Actors : a # c => pc'[a] = pc[a] /\ result'[a] = result[a]
      /\ result'[c] = "error" => result[c] = "error" \/ failed'
  <2>1. CASE SyncOld(c) \/ CloseOld(c) \/ Create(c) \/ WriteFileHeader(c)
    BY <2>1 DEF SyncOld, CloseOld, Create, WriteFileHeader, At, InRecord, writer
  <2>2. CASE RotateFails(c) \/ CreateFails(c) \/ WriteFileHeaderFails(c)
             \/ WriteHeaderFails(c) \/ WritePayloadFails(c)
    BY <2>2 DEF RotateFails, CreateFails, WriteFileHeaderFails, WriteHeaderFails,
                WritePayloadFails, At, InRecord, FailLocked
  <2>3. CASE WriteHeader(c) \/ WritePayload(c)
    BY <2>3 DEF WriteHeader, WritePayload, Acknowledge, At, InRecord
  <2>. QED  BY <2>1, <2>2, <2>3 DEF Step
<1>. QED  BY <1>1, InStep

(* The first error, a failure's or a refusal's, and all those after it come *)
(* from a journal that is failed or closed for good.                        *)
LEMMA NextErrorsKnown == IInv /\ ErrorsKnown /\ [Next]_vars => ErrorsKnown'
<1> SUFFICES ASSUME IInv, ErrorsKnown, [Next]_vars, NEW c \in Conns, result'[c] = "error"
             PROVE  failed' \/ closed'
  BY DEF ErrorsKnown
<1> USE DEF ErrorsKnown
<1>1. ASSUME NEW d \in Conns, WriteMeta(d) \/ WriteData(d) PROVE failed' \/ closed'
  <2>1. UNCHANGED <<failed, closed>> /\ (result' = result \/ result' = [result EXCEPT ![d] = "nil"])
    BY <1>1 DEF WriteMeta, WriteData, StartCall, writer
  <2>. QED  BY <2>1 DEF IInv, TypeOK, Actors
<1>2. ASSUME NEW d \in Conns, Enter(d) PROVE failed' \/ closed'
  <2>1. /\ UNCHANGED <<failed, closed>>
        /\ UNCHANGED result \/ failed \/ closed
    BY <1>2 DEF Enter, Refuse, EnterRotate, EnterWrite, Usable, writer
  <2>. QED  BY <2>1
<1>3. ASSUME NEW d \in Conns, Step(d) PROVE failed' \/ closed'
  <2>1. ~failed /\ closed' = closed
    BY <1>3, StepAt
  <2>2. result[c] = "error" \/ failed'
    <3>1. CASE c = d
      BY <1>3, <3>1, StepAt
    <3>2. CASE c # d
      BY <1>3, <3>2, StepAt DEF Actors
    <3>. QED  BY <3>1, <3>2
  <2>. QED  BY <2>1, <2>2
<1>4. CASE Close
  <2>1. result'[c] = result[c] /\ failed' = failed /\ (closed => closed')
    <3> USE ConnsAssumption DEF IInv, TypeOK, Actors
    <3>1. CASE CloseNoFile
      BY <3>1 DEF CloseNoFile, Return
    <3>2. CASE CloseStart
      BY <3>2 DEF CloseStart
    <3>3. CASE CloseSync
      BY <3>3 DEF CloseSync, writer
    <3>4. CASE CloseFile
      BY <3>4 DEF CloseFile, Return
    <3>. QED  BY <1>4, <3>1, <3>2, <3>3, <3>4 DEF Close
  <2>. QED  BY <2>1
<1>5. CASE Crash \/ LoseUnsynced \/ Finished \/ UNCHANGED vars
  BY <1>5 DEF Crash, LoseUnsynced, Finished, vars, writer
<1>. QED  BY <1>1, <1>2, <1>3, <1>4, <1>5 DEF Next

(* A handler gets an error only from a journal that failed or was closed,   *)
(* and from the failure on, whatever is called, the files hold the same     *)
(* records as long as the machine has power (bwj.go:225-271).               *)
THEOREM ErrorsFreeze == Spec => ErrorFreezes
<1>1. Init => ErrorsKnown
  BY DEF Init, ErrorsKnown, Actors
<1>2. IInv /\ ErrorsKnown /\ [Next]_vars =>
        [(\E c \in Conns : result[c] = "error") /\ host = "up" =>
           (failed \/ closed) /\ (failed => Log' = Log /\ Len(disk') = Len(disk))]_vars
  <2> SUFFICES ASSUME IInv, ErrorsKnown, Next, host = "up", failed
               PROVE  Log' = Log /\ Len(disk') = Len(disk)
    BY DEF ErrorsKnown
  <2>1. ASSUME NEW c \in Conns, WriteMeta(c) \/ WriteData(c) \/ Enter(c)
        PROVE  Log' = Log /\ Len(disk') = Len(disk)
    BY <2>1, CallLog
  <2>2. ASSUME NEW c \in Conns, Step(c) PROVE FALSE
    BY <2>2, StepAt
  <2>3. CASE Close
    BY <2>3, CloseLog
  <2>4. CASE Crash \/ Finished
    BY <2>4 DEF Crash, Finished, vars, Log
  <2>. QED  BY <2>1, <2>2, <2>3, <2>4 DEF Next, LoseUnsynced
<1>. QED  BY <1>1, <1>2, NextErrorsKnown, InitIInv, NextIInv, PTL DEF Spec, ErrorFreezes

-----------------------------------------------------------------------------
(* Counting records and bytes in a log that grows by one record. *)
LEMMA CountsAppend ==
  ASSUME NEW log \in Seq(Entry), NEW r \in Entry, NEW c \in Conns
  PROVE  /\ Cardinality(OfConn(log, c)) \in Nat
         /\ BytesOf(log, c) \in Nat
         /\ Cardinality(OfConn(Append(log, r), c)) =
              Cardinality(OfConn(log, c)) + IF r.conn = c THEN 1 ELSE 0
         /\ BytesOf(Append(log, r), c) =
              BytesOf(log, c) + IF r.conn = c THEN r.bytes ELSE 0
<1> DEFINE T == {e \in Entry : e.conn = c}
           new == Append(log, r)
<1>1. new \in Seq(Entry)
  OBVIOUS
<1>2. OfConn(log, c) = Positions(log, T) /\ OfConn(new, c) = Positions(new, T)
  <2>1. \A s \in Seq(Entry) : OfConn(s, c) = Positions(s, T)
    <3> SUFFICES ASSUME NEW s \in Seq(Entry) PROVE OfConn(s, c) = Positions(s, T)
      OBVIOUS
    <3>1. \A k \in DOMAIN s : s[k] \in Entry
      OBVIOUS
    <3>. QED  BY <3>1 DEF OfConn, Positions
  <2> HIDE DEF new, T
  <2>. QED  BY <1>1, <2>1
<1>3. /\ Cardinality(OfConn(log, c)) \in Nat
      /\ Cardinality(OfConn(new, c)) = Cardinality(OfConn(log, c)) + IF r.conn = c THEN 1 ELSE 0
  <2>1. r \in T <=> r.conn = c
    OBVIOUS
  <2> HIDE DEF T
  <2>2. /\ Cardinality(Positions(log, T)) \in Nat
        /\ Cardinality(Positions(new, T)) = Cardinality(Positions(log, T)) + IF r \in T THEN 1 ELSE 0
    BY CountAppend
  <2>. QED  BY <1>2, <2>1, <2>2
<1> DEFINE sizes == [k \in DOMAIN log |-> IF log[k].conn = c THEN log[k].bytes ELSE 0]
           size == IF r.conn = c THEN r.bytes ELSE 0
           more == [k \in DOMAIN new |-> IF new[k].conn = c THEN new[k].bytes ELSE 0]
           n == Len(log)
<1>4. n \in Nat /\ DOMAIN log = 1..n /\ DOMAIN new = 1..(n + 1) /\ new[n + 1] = r
      /\ \A k \in 1..n : new[k] = log[k] /\ log[k] \in Entry
  OBVIOUS
<1>5. sizes \in Seq(Nat) /\ Len(sizes) = n /\ size \in Nat
  <2>1. size \in Nat /\ \A k \in 1..n : (IF log[k].conn = c THEN log[k].bytes ELSE 0) \in Nat
    <3> HIDE DEF n
    <3>. QED  BY <1>4 DEF Entry
  <2> HIDE DEF n
  <2>. QED  BY <1>4, <2>1
<1>6. more = Append(sizes, size)
  <2> DEFINE app == Append(sizes, size)
  <2>1. /\ app \in Seq(Nat) /\ Len(app) = n + 1 /\ app[n + 1] = size
        /\ \A k \in 1..n : app[k] = sizes[k]
    <3> HIDE DEF sizes, size, n
    <3>. QED  BY <1>4, <1>5
  <2>2. \A k \in 1..(n + 1) : more[k] = app[k]
    <3> HIDE DEF n, new, app
    <3>1. \A k \in 1..n : more[k] = sizes[k]
      BY <1>4
    <3>2. more[n + 1] = size
      BY <1>4
    <3> HIDE DEF sizes, size, more
    <3>. QED  BY <1>4, <2>1, <3>1, <3>2
  <2>3. app = [k \in 1..(n + 1) |-> app[k]]
    <3> HIDE DEF app, n
    <3>. QED  BY <1>4, <2>1
  <2>4. more = [k \in 1..(n + 1) |-> more[k]]
    <3> HIDE DEF n, new
    <3>. QED  BY <1>4
  <2> HIDE DEF app, more, n
  <2>5. app = more
    BY <2>2, <2>3, <2>4
  <2>. QED  BY <2>5 DEF app
<1>7. Total(sizes) \in Nat /\ Total(Append(sizes, size)) = Total(sizes) + size
  <2> HIDE DEF sizes, size
  <2>. QED  BY <1>5, TotalAppend
<1>8. BytesOf(log, c) = Total(sizes) /\ BytesOf(new, c) = Total(more)
  BY DEF BytesOf
<1>. QED  BY <1>3, <1>6, <1>7, <1>8

(* What Accounted says of one handler. *)
Account(c) ==
  /\ Cardinality(OfConn(Log, c)) = recorded[c]
  /\ BytesOf(Log, c) >= handed[c]
  /\ left[c] <= request[c]
  /\ ~failed /\ ~closed => BytesOf(Log, c) = handed[c] + InProgress(c)

LEMMA Amounts ==
  ASSUME IInv, NEW c \in Conns
  PROVE  /\ Log \in Seq(Entry)
         /\ Cardinality(OfConn(Log, c)) \in Nat /\ BytesOf(Log, c) \in Nat
         /\ left[c] \in Nat /\ request[c] \in Nat /\ handed[c] \in Nat /\ recorded[c] \in Nat
<1>1. Log \in Seq(Entry)
  BY LogType
<1>2. left[c] \in Nat /\ request[c] \in Nat /\ handed[c] \in Nat /\ recorded[c] \in Nat
  BY DEF IInv, TypeOK
<1>3. Cardinality(OfConn(Log, c)) \in Nat /\ BytesOf(Log, c) \in Nat
  <2> DEFINE r == [conn |-> c, id |-> 1, seq |-> 1, bytes |-> 0, whole |-> TRUE]
  <2>1. r \in Entry
    BY DEF Entry
  <2> HIDE DEF r
  <2>. QED  BY <1>1, <2>1, CountsAppend
<1>. QED  BY <1>1, <1>2, <1>3

LEMMA CallAccount ==
  ASSUME IInv, NEW c \in Conns, NEW d \in Conns, Account(c),
         WriteMeta(d) \/ WriteData(d) \/ Enter(d)
  PROVE  Account(c)'
<1> USE DEF IInv, TypeOK, Actors, Goto
<1>1. Log' = Log /\ UNCHANGED recorded
  BY CallLog
<1>2. CASE WriteMeta(d) \/ WriteData(d)
  <2>1. PICK size \in Nat : StartCall(d, size)
    BY <1>2, CallsAssumption, SizesAssumption DEF WriteMeta, WriteData
  <2>2. UNCHANGED <<handed, failed, closed>>
    BY <2>1 DEF StartCall, writer
  <2>3. CASE c # d
    <3>1. pc' = pc \/ pc' = [pc EXCEPT ![d] = "lock"]
      BY <1>2 DEF WriteMeta, WriteData
    <3>2. left'[c] = left[c] /\ request'[c] = request[c] /\ pc'[c] = pc[c]
      BY <2>1, <2>3, <3>1 DEF StartCall
    <3>3. InProgress(c)' = InProgress(c)
      BY <3>2 DEF InProgress
    <3>. QED  BY <1>1, <2>2, <3>2, <3>3 DEF Account
  <2>4. CASE c = d
    <3>1. left'[c] = size /\ request'[c] = size /\ pc[c] = "idle"
      BY <2>1, <2>4 DEF StartCall
    <3>2. InProgress(c)' = 0 /\ InProgress(c) = 0
      BY <3>1 DEF InProgress
    <3>. QED  BY <1>1, <2>2, <3>1, <3>2 DEF Account
  <2>. QED  BY <2>3, <2>4
<1>3. CASE Enter(d)
  <2>1. UNCHANGED <<handed, failed, closed, left, request>>
    BY <1>3 DEF Enter, Refuse, EnterRotate, EnterWrite, writer, ghosts
  <2>2. failed \/ closed \/ (pc[c] = "idle" <=> pc'[c] = "idle")
    BY <1>3 DEF Enter, Refuse, EnterRotate, EnterWrite, Usable, Lock, RotateFirst
  <2>3. failed \/ closed \/ InProgress(c)' = InProgress(c)
    BY <2>1, <2>2 DEF InProgress
  <2>. QED  BY <1>1, <2>1, <2>3 DEF Account
<1>. QED  BY <1>2, <1>3

LEMMA UnwrittenAccount ==
  ASSUME IInv, NEW c \in Conns, NEW d \in Conns, Account(c), Step(d), Unwritten(d)
  PROVE  Account(c)'
<1>1. /\ Log' = Log /\ UNCHANGED <<left, request, handed, recorded, closed>>
      /\ failed' \/ (failed' = failed /\ (pc[c] = "idle" <=> pc'[c] = "idle"))
  <2>1. c # d => pc'[c] = pc[c]
    BY StepAt DEF Actors
  <2>. QED  BY <2>1 DEF Unwritten, ghosts, InRecord
<1>2. failed' \/ (failed' = failed /\ InProgress(c)' = InProgress(c))
  BY <1>1 DEF InProgress
<1>. QED  BY <1>1, <1>2 DEF Account

LEMMA WrittenAccount ==
  ASSUME IInv, Closing, NEW c \in Conns, NEW d \in Conns, Account(c), Step(d), Written(d)
  PROVE  Account(c)'
<1>1. ~failed /\ ~closed /\ failed' = failed /\ closed' = closed
  <2>1. ~failed /\ closed' = closed /\ pc[d] \in InRecord
    BY StepAt
  <2>2. failed' = failed
    BY DEF Written, Acknowledge
  <2>. QED  BY <2>1, <2>2 DEF Closing
<1>2. PICK r \in Entry : r.conn = d /\ r.bytes = Chunk(d) /\ Log' = Append(Log, r)
  BY DEF Written
<1>3. /\ Cardinality(OfConn(Log, c))' = Cardinality(OfConn(Log, c)) + IF c = d THEN 1 ELSE 0
      /\ BytesOf(Log, c)' = BytesOf(Log, c) + IF c = d THEN Chunk(d) ELSE 0
  <2>1. /\ Cardinality(OfConn(Append(Log, r), c)) =
             Cardinality(OfConn(Log, c)) + IF r.conn = c THEN 1 ELSE 0
        /\ BytesOf(Append(Log, r), c) = BytesOf(Log, c) + IF r.conn = c THEN r.bytes ELSE 0
    BY Amounts, CountsAppend
  <2>2. OfConn(Log, c)' = OfConn(Append(Log, r), c) /\ BytesOf(Log, c)' = BytesOf(Append(Log, r), c)
    BY <1>2 DEF OfConn, BytesOf
  <2>. QED  BY <1>2, <2>1, <2>2
<1>4. Chunk(d) \in Nat /\ Chunk(d) <= left[d]
  BY ChunkSize DEF IInv
<1>5. CASE c # d
  <2>1. /\ recorded'[c] = recorded[c] /\ left'[c] = left[c]
        /\ handed'[c] = handed[c] /\ request'[c] = request[c]
    BY <1>5 DEF Written, Acknowledge, IInv, TypeOK
  <2>2. pc'[c] = pc[c]
    BY <1>5, StepAt DEF Actors
  <2>3. InProgress(c)' = InProgress(c)
    BY <2>1, <2>2 DEF InProgress
  <2>. QED  BY <1>1, <1>3, <1>5, <2>1, <2>3, Amounts DEF Account
<1>6. CASE c = d
  <2>1. /\ recorded'[c] = recorded[c] + 1 /\ left'[c] = left[c] - Chunk(c)
        /\ request'[c] = request[c]
    BY <1>6 DEF Written, Acknowledge, IInv, TypeOK
  <2>2. /\ MoreToWrite(c) => pc'[c] = "lock" /\ handed'[c] = handed[c]
        /\ ~MoreToWrite(c) => pc'[c] = "idle" /\ handed'[c] = handed[c] + request[c]
    BY <1>6 DEF Written, Acknowledge, Goto, IInv, TypeOK, Actors
  <2>3. pc[c] # "idle"
    BY <1>6 DEF Written
  <2>4. BytesOf(Log, c) = handed[c] + (request[c] - left[c])
    BY <1>1, <2>3 DEF Account, InProgress
  <2>5. CASE MoreToWrite(c)
    <3>1. InProgress(c)' = request[c] - (left[c] - Chunk(c)) /\ handed'[c] = handed[c]
      BY <2>1, <2>2, <2>5 DEF InProgress
    <3>. QED  BY <1>3, <1>4, <1>6, <2>1, <2>4, <3>1, Amounts DEF Account
  <2>6. CASE ~MoreToWrite(c)
    <3>1. left[c] = Chunk(c)
      BY <1>4, <1>6, <2>6, Amounts DEF MoreToWrite
    <3>2. InProgress(c)' = 0 /\ handed'[c] = handed[c] + request[c]
      BY <2>2, <2>6 DEF InProgress
    <3>. QED  BY <1>3, <1>4, <1>6, <2>1, <2>4, <3>1, <3>2, Amounts DEF Account
  <2>. QED  BY <2>5, <2>6
<1>. QED  BY <1>5, <1>6

LEMMA NextAccounted == IInv /\ Closing /\ Pending /\ Accounted /\ [Next]_vars => Accounted'
<1> SUFFICES ASSUME IInv, Closing, Pending, Accounted, [Next]_vars,
                    host' # "nopower", NEW c \in Conns
             PROVE  Account(c)'
  BY DEF Accounted, Account
<1>1. host # "nopower" => Account(c)
  BY DEF Accounted, Account
<1>2. ASSUME NEW d \in Conns, WriteMeta(d) \/ WriteData(d) \/ Enter(d) PROVE Account(c)'
  <2>1. host # "nopower"
    BY <1>2 DEF WriteMeta, WriteData, StartCall, Enter, Refuse, EnterRotate, EnterWrite, Lock
  <2>. QED  BY <1>1, <1>2, <2>1, CallAccount
<1>3. ASSUME NEW d \in Conns, Step(d) PROVE Account(c)'
  <2>1. host # "nopower"
    BY <1>3, StepAt
  <2>2. Written(d) \/ Unwritten(d)
    BY <1>3, StepLog
  <2>. QED  BY <1>1, <1>3, <2>1, <2>2, WrittenAccount, UnwrittenAccount
<1>4. CASE Close
  <2>1. /\ host # "nopower" /\ UNCHANGED failed /\ (closed => closed')
        /\ pc'[c] = pc[c]
    <3> USE ConnsAssumption DEF IInv, TypeOK, Actors, Goto, Return, At
    <3>1. CASE CloseNoFile
      BY <3>1 DEF CloseNoFile
    <3>2. CASE CloseStart
      BY <3>2 DEF CloseStart
    <3>3. CASE CloseSync
      BY <3>3 DEF CloseSync, writer
    <3>4. CASE CloseFile
      BY <3>4 DEF CloseFile
    <3>. QED  BY <1>4, <3>1, <3>2, <3>3, <3>4 DEF Close
  <2>2. Log' = Log /\ UNCHANGED <<left, request, handed, recorded>>
    BY <1>4, CloseLog DEF ghosts
  <2>3. InProgress(c)' = InProgress(c)
    BY <2>1, <2>2 DEF InProgress
  <2>. QED  BY <1>1, <2>1, <2>2, <2>3 DEF Account
<1>5. CASE Crash \/ UNCHANGED vars
  <2>1. /\ host # "nopower"
        /\ UNCHANGED <<disk, pc, left, request, handed, recorded, failed, closed>>
    BY <1>5 DEF Crash, vars, writer, ghosts
  <2>2. Log' = Log /\ InProgress(c)' = InProgress(c)
    BY <2>1 DEF Log, InProgress
  <2>. QED  BY <1>1, <2>1, <2>2 DEF Account
<1>. QED  BY <1>2, <1>3, <1>4, <1>5 DEF Next, Finished, LoseUnsynced

LEMMA InitLog == Init => Log = << >>
<1> SUFFICES ASSUME Init PROVE Log = << >>
  OBVIOUS
<1> DEFINE f == [NewFile EXCEPT !.header = TRUE]
<1>1. f \in File /\ f.entries = << >> /\ disk = << f >>
  BY NewFileType, FileUpdates DEF NewFile, Init
<1>2. Numbered(f) /\ TornAtEnd(f)
  BY <1>1 DEF Numbered, TornAtEnd
<1>3. Records(f) = << >>
  <2> HIDE DEF f
  <2>. QED  BY <1>1, <1>2, RecordsOf
<1>4. Log = FlattenSeq([i \in {1} |-> << >>])
  <2>1. DOMAIN disk = {1} /\ disk[1] = f
    BY <1>1
  <2> HIDE DEF f
  <2>. QED  BY <1>3, <2>1 DEF Log, Records
<1>5. [i \in {1} |-> << >>] = Append(<< >>, << >>)
  OBVIOUS
<1>6. FlattenSeq(Append(<< >>, << >>)) = FlattenSeq(<< >>) \o << >>
  <2> DEFINE s == << >>
             ss == << >>
  <2>1. s \in Seq(Entry) /\ ss \in Seq(Seq(Entry))
    OBVIOUS
  <2> HIDE DEF s, ss
  <2>2. FlattenSeq(Append(ss, s)) = FlattenSeq(ss) \o s
    BY <2>1, FlattenAppend
  <2>. QED  BY <2>2 DEF s, ss
<1>. QED  BY <1>4, <1>5, <1>6, FlattenEmpty

LEMMA InitAccounted == Init => Closing /\ Pending /\ Accounted
<1> SUFFICES ASSUME Init PROVE Closing /\ Pending /\ Accounted
  OBVIOUS
<1>1. Closing
  BY ConnsAssumption DEF Init, Closing, Actors, InRecord
<1>2. Pending
  BY DEF Init, Pending, Actors
<1>3. Log = << >>
  BY InitLog
<1>4. \A c \in Conns : OfConn(Log, c) = {} /\ BytesOf(Log, c) = 0
  <2>1. \A c \in Conns : OfConn(Log, c) = {}
    BY <1>3 DEF OfConn
  <2>2. \A c \in Conns : BytesOf(Log, c) = Total(<< >>)
    BY <1>3 DEF BytesOf
  <2>. QED  BY <2>1, <2>2, TotalEmpty
<1>5. Accounted
  BY <1>4, FS_EmptySet DEF Accounted, Init, InProgress, Actors
<1>. QED  BY <1>1, <1>2, <1>5

LEMMA NextClosing == IInv /\ Closing /\ [Next]_vars => Closing'
<1> SUFFICES ASSUME IInv, Closing, [Next]_vars PROVE Closing'
  OBVIOUS
<1>1. CASE UNCHANGED vars
  BY <1>1 DEF vars, writer, Closing, Newest
<1>. QED
  BY <1>1, HandlerKeepsClosing, CloseKeepsClosing, HostKeepsClosing DEF Next, Finished

(* As long as the machine has power the files hold exactly the records that *)
(* writeRecord acknowledged, one for each nil, and of each handler the      *)
(* bytes of its calls that returned nil, no byte lost or written twice      *)
(* whatever the splitting; more only of a call going on or refused half way *)
(* (bwj.go:201-264).                                                        *)
THEOREM AlwaysWrittenExactly == Spec => []WrittenExactly
<1>1. IInv /\ Accounted => WrittenExactly
  <2> SUFFICES ASSUME IInv, Accounted, host # "nopower", NEW c \in Conns
               PROVE  /\ Cardinality(OfConn(Log, c)) = recorded[c]
                      /\ BytesOf(Log, c) >= handed[c]
                      /\ pc[c] = "idle" /\ ~failed /\ ~closed => BytesOf(Log, c) = handed[c]
    BY DEF WrittenExactly
  <2>. QED  BY Amounts DEF Accounted, InProgress
<1>. QED  BY <1>1, InitIInv, NextIInv, InitAccounted, NextClosing, NextPending, NextAccounted,
             PTL DEF Spec

(* No record is lost from files that are complete and synced. *)
LEMMA NextCloseNilCounts ==
  IInv /\ Closing /\ Accounted /\ CloseNilCounts /\ [Next]_vars => CloseNilCounts'
<1> SUFFICES ASSUME IInv, Closing, Accounted, CloseNilCounts, [Next]_vars,
                    result'[Closer] = "nil", NEW c \in Conns
             PROVE  Cardinality(OfConn(Log, c))' = recorded'[c]
  BY DEF CloseNilCounts
<1> USE DEF CloseNilCounts
<1>1. ASSUME NEW d \in Conns, WriteMeta(d) \/ WriteData(d) \/ Enter(d)
      PROVE  Cardinality(OfConn(Log, c))' = recorded'[c]
  <2>1. result'[Closer] = result[Closer]
    BY <1>1, ConnsAssumption DEF WriteMeta, WriteData, StartCall, Enter, Refuse, EnterRotate,
       EnterWrite, IInv, TypeOK, Actors
  <2>2. Log' = Log /\ recorded' = recorded
    BY <1>1, CallLog
  <2>. QED  BY <2>1, <2>2
<1>2. ASSUME NEW d \in Conns, Step(d) PROVE FALSE
  <2>1. result'[Closer] = result[Closer] /\ pc[d] \in InRecord
    BY <1>2, StepAt, ConnsAssumption DEF Actors
  <2>. QED  BY <2>1 DEF Closing, InRecord
<1>3. CASE Close
  <2>1. Log' = Log /\ recorded' = recorded
    BY <1>3, CloseLog DEF ghosts
  <2>2. host # "nopower"
    BY <1>3 DEF Close, CloseNoFile, CloseStart, CloseSync, CloseFile, At
  <2>. QED  BY <2>1, <2>2 DEF Accounted
<1>4. CASE Crash \/ UNCHANGED vars
  BY <1>4 DEF Crash, vars, ghosts, Log
<1>5. CASE LoseUnsynced
  <2>1. AllSafe(disk)
    BY <1>5 DEF LoseUnsynced, Closing
  <2>2. PICK i \in DOMAIN disk : Units(disk[i]) > disk[i].synced
    BY <1>5 DEF LoseUnsynced
  <2>3. Units(disk[i]) \in Nat /\ disk[i].synced \in Nat
    <3>1. disk[i] \in File
      BY DEF IInv, TypeOK
    <3>. QED  BY <3>1, FileUpdates DEF File
  <2>. QED  BY <2>1, <2>2, <2>3 DEF AllSafe, Safe
<1>. QED  BY <1>1, <1>2, <1>3, <1>4, <1>5 DEF Next, Finished

LEMMA CompleteReads ==
  ASSUME NEW f \in File, Numbered(f), Complete(f)
  PROVE  ~ReadBWJFile(f).error /\ ~ReadBWJFile(f).truncatedTail
<1> DEFINE n == Len(f.entries)
<1>1. f.entries \in Seq(Entry) /\ n \in Nat
  BY DEF File
<1>2. /\ f.header /\ \A k \in 1..n : f.entries[k].whole
      /\ \A k \in 2..n : f.entries[k].seq = k /\ f.entries[k - 1].seq = k - 1
  BY <1>1 DEF Numbered, Complete
<1> HIDE DEF n
<1>3. ~ReadBWJFile(f).error
  <2>1. \A k \in 1..(n - 1) : k \in 1..n
    BY <1>1
  <2>2. \A k \in 2..n : ~(f.entries[k].seq <= f.entries[k - 1].seq)
    <3> SUFFICES ASSUME NEW k \in 2..n PROVE ~(f.entries[k].seq <= f.entries[k - 1].seq)
      OBVIOUS
    <3>1. f.entries[k].seq = k /\ f.entries[k - 1].seq = k - 1 /\ k \in Nat
      BY <1>1, <1>2
    <3>. QED  BY <3>1
  <2>. QED  BY <1>2, <2>1, <2>2 DEF ReadBWJFile, n
<1>4. ~ReadBWJFile(f).truncatedTail
  <2>1. n > 0 => f.entries[n].whole
    BY <1>1, <1>2
  <2>. QED  BY <2>1 DEF ReadBWJFile, n
<1>. QED  BY <1>3, <1>4

(* When Close returns nil every record that writeRecord acknowledged is in  *)
(* the files and readable, and stays so through a later power loss          *)
(* (bwj.go:331-345).                                                        *)
THEOREM CloseNilIsAlwaysDurable == Spec => []CloseNilIsDurable
<1>1. Init => CloseNilCounts
  BY DEF Init, CloseNilCounts, Actors
<1>2. IInv /\ Closing /\ CloseNilCounts => CloseNilIsDurable
  <2> SUFFICES ASSUME IInv, Closing, CloseNilCounts, result[Closer] = "nil", NEW i \in DOMAIN disk
               PROVE  ~ReadBWJFile(disk[i]).error /\ ~ReadBWJFile(disk[i]).truncatedTail
    BY DEF CloseNilIsDurable, CloseNilCounts
  <2>1. disk[i] \in File /\ Numbered(disk[i]) /\ Complete(disk[i])
    BY DEF IInv, TypeOK, FilesInOrder, Closing, AllSafe
  <2>. QED  BY <2>1, CompleteReads
<1>. QED  BY <1>1, <1>2, InitIInv, NextIInv, InitAccounted, NextClosing, NextPending,
             NextAccounted, NextCloseNilCounts, PTL DEF Spec

-----------------------------------------------------------------------------
(* What records take up in a file. *)
LEMMA SizeAppend ==
  ASSUME NEW s \in Seq(Entry), NEW e \in Entry
  PROVE  Size(s) \in Nat /\ Size(Append(s, e)) = Size(s) + RecordHeaderSize + e.bytes
<1> DEFINE new == Append(s, e)
           n == Len(s)
           sizes == [k \in DOMAIN s |-> RecordHeaderSize + s[k].bytes]
           more == [k \in DOMAIN new |-> RecordHeaderSize + new[k].bytes]
           size == RecordHeaderSize + e.bytes
<1>1. /\ n \in Nat /\ DOMAIN s = 1..n /\ DOMAIN new = 1..(n + 1) /\ new[n + 1] = e
      /\ \A k \in 1..n : new[k] = s[k] /\ s[k] \in Entry
  OBVIOUS
<1>2. sizes \in Seq(Nat) /\ Len(sizes) = n /\ size \in Nat
  <2>1. size \in Nat /\ \A k \in 1..n : RecordHeaderSize + s[k].bytes \in Nat
    <3> HIDE DEF n
    <3>. QED  BY <1>1, SizesAssumption DEF Entry
  <2> HIDE DEF n
  <2>. QED  BY <1>1, <2>1
<1>3. more = Append(sizes, size)
  <2> DEFINE app == Append(sizes, size)
  <2>1. /\ app \in Seq(Nat) /\ Len(app) = n + 1 /\ app[n + 1] = size
        /\ \A k \in 1..n : app[k] = sizes[k]
    <3> HIDE DEF sizes, size, n
    <3>. QED  BY <1>1, <1>2
  <2>2. \A k \in 1..(n + 1) : more[k] = app[k]
    <3> HIDE DEF n, new, app
    <3>1. \A k \in 1..n : more[k] = sizes[k]
      BY <1>1
    <3>2. more[n + 1] = size
      BY <1>1
    <3> HIDE DEF sizes, size, more
    <3>. QED  BY <1>1, <2>1, <3>1, <3>2
  <2>3. app = [k \in 1..(n + 1) |-> app[k]]
    <3> HIDE DEF app, n
    <3>. QED  BY <1>1, <2>1
  <2>4. more = [k \in 1..(n + 1) |-> more[k]]
    <3> HIDE DEF n, new
    <3>. QED  BY <1>1
  <2> HIDE DEF app, more, n
  <2>5. app = more
    BY <2>2, <2>3, <2>4
  <2>. QED  BY <2>5 DEF app
<1>4. Total(sizes) \in Nat /\ Total(Append(sizes, size)) = Total(sizes) + size
  <2> HIDE DEF sizes, size
  <2>. QED  BY <1>2, TotalAppend
<1>5. Size(s) = Total(sizes) /\ Size(new) = Total(more)
  BY DEF Size
<1>6. e.bytes \in Nat
  BY DEF Entry
<1> HIDE DEF new, n, sizes, more
<1>. QED  BY <1>3, <1>4, <1>5, <1>6, SizesAssumption DEF new

LEMMA SizeEmpty == Size(<< >>) = 0
<1>1. [k \in DOMAIN << >> |-> RecordHeaderSize + << >>[k].bytes] = << >>
  OBVIOUS
<1>. QED  BY <1>1, TotalEmpty DEF Size

LEMMA SizeShorter ==
  ASSUME NEW s \in Seq(Entry), NEW t \in Seq(Entry), Shorter(s, t)
  PROVE  Size(t) \in Nat /\ Size(s) \in Nat /\ Size(t) <= Size(s)
<1>1. CASE s = << >>
  BY <1>1, SizeEmpty DEF Shorter
<1>2. CASE s # << >>
  <2>1. PICK p \in Seq(Entry), e \in Entry : s = Append(p, e) /\ p = SubSeq(s, 1, Len(s) - 1)
    <3> DEFINE p == SubSeq(s, 1, Len(s) - 1)
               e == s[Len(s)]
    <3>1. p \in Seq(Entry) /\ e \in Entry /\ s = Append(p, e)
      BY <1>2
    <3>. QED  BY <3>1
  <2>2. Size(p) \in Nat /\ Size(s) = Size(p) + RecordHeaderSize + e.bytes
    BY <2>1, SizeAppend
  <2>3. e.bytes \in Nat
    BY <2>1 DEF Entry
  <2>4. t = s \/ t = p
    BY <2>1 DEF Shorter
  <2>. QED  BY <2>2, <2>3, <2>4, SizesAssumption
<1>. QED  BY <1>1, <1>2

LEMMA SizePositive ==
  ASSUME NEW s \in Seq(Entry), s # << >>
  PROVE  Size(s) > 0
<1> DEFINE p == SubSeq(s, 1, Len(s) - 1)
           e == s[Len(s)]
<1>1. p \in Seq(Entry) /\ e \in Entry /\ s = Append(p, e)
  OBVIOUS
<1> HIDE DEF p, e
<1>2. Size(p) \in Nat /\ Size(s) = Size(p) + RecordHeaderSize + e.bytes
  BY <1>1, SizeAppend
<1>3. e.bytes \in Nat
  BY <1>1 DEF Entry
<1>. QED  BY <1>2, <1>3, SizesAssumption

(* Only the newest file changes. *)
OthersStay ==
  /\ DOMAIN disk' = DOMAIN disk
  /\ \A i \in DOMAIN disk : i # Len(disk) => disk'[i] = disk[i]

LEMMA StepOthers ==
  ASSUME IInv, NEW c \in Conns, Step(c), ~Create(c)
  PROVE  OthersStay
<1>1. pc[c] \in InRecord /\ host = "up"
  BY StepAt
<1>2. disk' = disk \/ \E x : disk' = [disk EXCEPT ![Len(disk)] = x]
  <2>1. CASE SyncOld(c)
    BY <1>1, <2>1, InStep DEF SyncOld, At
  <2>2. CASE WriteFileHeader(c)
    BY <1>1, <2>2, InStep DEF WriteFileHeader
  <2>3. CASE WriteHeader(c) \/ WriteHeaderFails(c)
    BY <1>1, <2>3, InStep DEF WriteHeader, WriteHeaderFails, AppendEntry, At
  <2>4. CASE WritePayload(c)
    BY <1>1, <2>4, InStep DEF WritePayload, At
  <2>5. CASE CloseOld(c) \/ RotateFails(c) \/ CreateFails(c) \/ WriteFileHeaderFails(c)
             \/ WritePayloadFails(c)
    BY <2>5 DEF CloseOld, RotateFails, CreateFails, WriteFileHeaderFails, WritePayloadFails
  <2>. QED  BY <2>1, <2>2, <2>3, <2>4, <2>5 DEF Step
<1>. QED  BY <1>2 DEF OthersStay

LEMMA LoseOthers ==
  ASSUME IInv, LoseUnsynced \/ Close
  PROVE  OthersStay
<1>1. disk' = disk \/ \E x : disk' = [disk EXCEPT ![Len(disk)] = x]
  BY LoseChanges, CloseLog
<1>. QED  BY <1>1 DEF OthersStay

LEMMA NewestBounded ==
  ASSUME IInv, OthersStay, \A i \in DOMAIN disk : Bounded(disk[i]), Bounded(Newest')
  PROVE  \A i \in DOMAIN disk' : Bounded(disk'[i])
<1>1. DOMAIN disk = 1..Len(disk) /\ Len(disk) \in Nat
  BY DEF IInv, TypeOK
<1>2. Len(disk') = Len(disk)
  BY <1>1 DEF OthersStay
<1>. QED  BY <1>1, <1>2 DEF OthersStay, Newest

(* The parts of Measured. *)
FilesBounded == \A i \in DOMAIN disk : Bounded(disk[i])
Counted == host = "up" /\ file # 0 /\ ~failed => bytesWritten = FileHeaderSize + Size(Records(Newest))
Room(c) ==
  /\ pc[c] = "header" => Newest.entries = << >> \/ RoomFor(c)
  /\ pc[c] = "payload" => Len(Newest.entries) = 1 \/ RoomFor(c)

LEMMA NewestRecords ==
  ASSUME IInv
  PROVE  /\ Newest \in File /\ Newest.entries \in Seq(Entry) /\ Len(Newest.entries) \in Nat
         /\ Records(Newest) \in Seq(Entry) /\ Size(Records(Newest)) \in Nat
         /\ Newest.entries = << >> => Records(Newest) = << >>
<1>1. Newest \in File /\ Numbered(Newest) /\ TornAtEnd(Newest)
  BY NewestInOrder
<1>2. Newest.entries \in Seq(Entry) /\ Len(Newest.entries) \in Nat
  BY <1>1 DEF File
<1>3. Records(Newest) \in Seq(Entry) /\ (Newest.entries = << >> => Records(Newest) = << >>)
  BY <1>1, RecordsOf
<1>4. Shorter(Records(Newest), Records(Newest))
  BY DEF Shorter
<1>. QED  BY <1>1, <1>2, <1>3, <1>4, SizeShorter

(* A record that enters an empty file, or one that has room for it. *)
LEMMA EnterMeasured ==
  ASSUME IInv, RotateSize > 0, FilesBounded, Counted, \A c \in Conns : Room(c),
         NEW d \in Conns, WriteMeta(d) \/ WriteData(d) \/ Enter(d)
  PROVE  (FilesBounded /\ Counted /\ \A c \in Conns : Room(c))'
<1> USE DEF IInv, TypeOK, Actors, Goto, Lock
<1>1. /\ disk' = disk /\ host = "up" /\ host' = host /\ UNCHANGED <<file, failed, bytesWritten>>
      /\ Newest' = Newest
  BY DEF WriteMeta, WriteData, StartCall, Enter, Refuse, EnterRotate, EnterWrite, writer, Newest
<1>2. FilesBounded' /\ Counted'
  BY <1>1 DEF FilesBounded, Counted
<1>3. ASSUME NEW c \in Conns, pc'[c] \in {"header", "payload"} PROVE Room(c)'
  <2>1. CASE pc'[c] = pc[c] /\ left'[c] = left[c]
    BY <1>1, <2>1 DEF Room, RoomFor, Chunk
  <2>2. CASE EnterWrite(d) /\ c = d
    <3>1. /\ pc'[c] = "header" /\ left' = left /\ ~failed /\ pc[c] = "lock" /\ mu = NoOne
          /\ file # 0 /\ (bytesWritten > FileHeaderSize =>
                            ~(bytesWritten + (RecordHeaderSize + Chunk(c)) > RotateSize))
      BY <2>2 DEF EnterWrite, Usable, ShouldRotate
    <3>2. Complete(Newest)
      <4>1. \A e \in Conns : pc[e] # "payload"
        BY <3>1, ConnsAssumption DEF Locked, InRecord
      <4>. QED  BY <1>1, <3>1, <4>1 DEF WriterState, Handle
    <3>3. Records(Newest) = Newest.entries
      BY <3>2, NewestInOrder, RecordsOf
    <3>4. Newest.entries = << >> \/ bytesWritten > FileHeaderSize
      <4>1. bytesWritten = FileHeaderSize + Size(Records(Newest))
        BY <1>1, <3>1 DEF Counted
      <4>2. Newest.entries # << >> => Size(Records(Newest)) > 0
        BY <3>3, NewestRecords, SizePositive
      <4>. QED  BY <4>1, <4>2, NewestRecords, SizesAssumption
    <3>5. Newest.entries = << >> \/ RoomFor(c)
      <4>1. Chunk(c) \in Nat
        BY ChunkSize
      <4>. QED  BY <3>1, <3>4, <4>1, SizesAssumption DEF RoomFor
    <3>6. RoomFor(c)' = RoomFor(c)
      BY <1>1, <3>1 DEF RoomFor, Chunk
    <3>. QED  BY <1>1, <3>1, <3>5, <3>6 DEF Room
  <2>3. \/ pc'[c] = pc[c] /\ left'[c] = left[c]
        \/ EnterWrite(d) /\ c = d
    <3>1. CASE WriteMeta(d) \/ WriteData(d)
      <4>1. PICK size \in Nat : StartCall(d, size)
        BY <3>1, CallsAssumption, SizesAssumption DEF WriteMeta, WriteData
      <4>2. pc' = pc \/ pc' = [pc EXCEPT ![d] = "lock"]
        BY <3>1 DEF WriteMeta, WriteData
      <4>3. c # d
        BY <1>3, <4>1, <4>2 DEF StartCall
      <4>. QED  BY <4>1, <4>2, <4>3 DEF StartCall
    <3>2. CASE Refuse(d) \/ EnterRotate(d)
      BY <1>3, <3>2 DEF Refuse, EnterRotate, RotateFirst
    <3>3. CASE EnterWrite(d)
      BY <3>3 DEF EnterWrite
    <3>. QED  BY <3>1, <3>2, <3>3 DEF Enter
  <2>. QED  BY <2>1, <2>2, <2>3
<1>4. ASSUME NEW c \in Conns, pc'[c] \notin {"header", "payload"} PROVE Room(c)'
  BY <1>4 DEF Room
<1>. QED  BY <1>2, <1>3, <1>4

(* A step of writeRecord: no other handler is at its header or payload. *)
LEMMA OthersIdle ==
  ASSUME IInv, NEW c \in Conns, NEW d \in Conns, Step(d), c # d
  PROVE  Room(c)'
<1>1. pc'[c] = pc[c] /\ pc[d] \in InRecord
  BY StepAt DEF Actors
<1>2. pc[c] \notin InRecord
  BY <1>1, Alone DEF InRecord
<1>. QED  BY <1>1, <1>2 DEF Room, InRecord

LEMMA RotateMeasured ==
  ASSUME IInv, RotateSize > 0, FilesBounded, Counted, NEW d \in Conns,
         SyncOld(d) \/ CloseOld(d) \/ Create(d) \/ WriteFileHeader(d)
  PROVE  (FilesBounded /\ Counted /\ Room(d))'
<1> USE DEF IInv, TypeOK, Actors, Goto, At
<1>0. pc[d] \in InRecord /\ ~failed /\ Step(d) /\ host = "up" /\ Len(disk) \in 1..Len(disk)
      /\ DOMAIN disk = 1..Len(disk) /\ Len(disk) \in Nat
  <2>1. Step(d)
    BY DEF Step
  <2>. QED  BY <2>1, StepAt DEF FilesInOrder
<1>1. CASE SyncOld(d)
  <2>1. ~Create(d)
    BY <1>1 DEF SyncOld, Create
  <2>2. Newest'.entries = Newest.entries /\ Records(Newest') = Records(Newest)
    BY <1>1, RotateLog
  <2>3. Bounded(Newest')
    BY <1>0, <2>2 DEF FilesBounded, Bounded, Newest
  <2>4. FilesBounded'
    BY <1>0, <2>1, <2>3, StepOthers, NewestBounded DEF FilesBounded
  <2>5. pc'[d] = "closeOld" /\ UNCHANGED <<file, failed, bytesWritten>>
    BY <1>1 DEF SyncOld, writer
  <2>. QED  BY <1>0, <2>2, <2>4, <2>5 DEF Counted, Room
<1>2. CASE CloseOld(d)
  BY <1>2 DEF CloseOld, FilesBounded, Counted, Room
<1>3. CASE Create(d)
  <2>1. Newest' = NewFile /\ Len(disk') = Len(disk) + 1
    BY <1>3, RotateLog
  <2>2. disk' = Append(disk, NewFile) /\ pc'[d] = "fileHeader" /\ file' = file /\ pc[d] = "create"
    BY <1>3 DEF Create
  <2>3. file = 0
    BY <1>0, <2>2 DEF WriterState, AtStep
  <2>4. Bounded(NewFile)
    BY DEF Bounded, NewFile
  <2>5. FilesBounded'
    <3>1. \A i \in DOMAIN disk' : (i \in DOMAIN disk /\ disk'[i] = disk[i]) \/ disk'[i] = NewFile
      BY <2>2, NewFileType
    <3>. QED  BY <2>4, <3>1 DEF FilesBounded
  <2>. QED  BY <2>2, <2>3, <2>5 DEF Counted, Room
<1>4. CASE WriteFileHeader(d)
  <2>1. ~Create(d)
    BY <1>4 DEF WriteFileHeader, Create
  <2>2. Newest'.entries = << >> /\ Records(Newest') = << >>
    BY <1>4, RotateLog
  <2>3. Bounded(Newest')
    BY <2>2 DEF Bounded
  <2>4. FilesBounded'
    BY <1>0, <2>1, <2>3, StepOthers, NewestBounded DEF FilesBounded
  <2>5. pc'[d] = "header" /\ bytesWritten' = FileHeaderSize
    BY <1>4 DEF WriteFileHeader
  <2>. QED  BY <2>2, <2>4, <2>5, SizeEmpty, SizesAssumption DEF Counted, Room
<1>. QED  BY <1>1, <1>2, <1>3, <1>4

(* What the newest file holds once a record is in it. *)
LEMMA WrittenMeasured ==
  ASSUME IInv, RotateSize > 0, FilesBounded, Counted, NEW d \in Conns, Room(d),
         Step(d), ~Create(d), Written(d), failed' = failed, host' = host, file' = file, file # 0,
         \/ pc[d] = "header" /\ Len(Newest'.entries) = Len(Newest.entries) + 1
         \/ pc[d] = "payload" /\ Len(Newest'.entries) = Len(Newest.entries)
  PROVE  (FilesBounded /\ Counted /\ Room(d))'
<1>1. /\ host = "up" /\ ~failed /\ bytesWritten' = bytesWritten + RecordHeaderSize + Chunk(d)
      /\ pc'[d] \notin {"header", "payload"}
  BY StepAt DEF Written, Acknowledge, Goto, IInv, TypeOK, Actors
<1>2. PICK r \in Entry : r.bytes = Chunk(d) /\ Records(Newest') = Append(Records(Newest), r)
  BY DEF Written
<1>3. /\ Size(Records(Newest)) \in Nat
      /\ Size(Records(Newest')) = Size(Records(Newest)) + RecordHeaderSize + Chunk(d)
  <2>1. Records(Newest) \in Seq(Entry)
    BY NewestRecords
  <2>. QED  BY <1>2, <2>1, SizeAppend
<1>4. Chunk(d) \in Nat /\ bytesWritten \in Nat
  BY ChunkSize DEF IInv, TypeOK
<1>5. bytesWritten = FileHeaderSize + Size(Records(Newest))
  BY <1>1 DEF Counted
<1>6. bytesWritten' = FileHeaderSize + Size(Records(Newest'))
  BY <1>1, <1>3, <1>4, <1>5, SizesAssumption
<1>7. Counted'
  BY <1>6 DEF Counted
<1>8. Bounded(Newest')
  <2>1. CASE RoomFor(d)
    BY <1>1, <1>6, <2>1 DEF RoomFor, Bounded
  <2>2. CASE ~RoomFor(d)
    <3>1. Len(Newest'.entries) = 1
      <4>1. pc[d] = "header" => Newest.entries = << >>
        BY <2>2 DEF Room
      <4>2. pc[d] = "payload" => Len(Newest.entries) = 1
        BY <2>2 DEF Room
      <4>3. pc[d] = "header" => Len(Newest.entries) = 0
        BY <4>1
      <4> DEFINE m == Len(Newest.entries)
                 n == Len(Newest'.entries)
      <4>4. /\ pc[d] = "header" => m = 0
            /\ pc[d] = "payload" => m = 1
            /\ (pc[d] = "header" /\ n = m + 1) \/ (pc[d] = "payload" /\ n = m)
        BY <4>2, <4>3
      <4> HIDE DEF m, n
      <4>5. n = 1
        BY <4>4
      <4>. QED  BY <4>5 DEF n
    <3>. QED  BY <3>1 DEF Bounded
  <2>. QED  BY <2>1, <2>2
<1>9. FilesBounded'
  BY <1>8, StepOthers, NewestBounded DEF FilesBounded
<1>10. Room(d)'
  BY <1>1 DEF Room
<1>. QED  BY <1>7, <1>9, <1>10

LEMMA RecordMeasured ==
  ASSUME IInv, Pending, RotateSize > 0, FilesBounded, Counted, NEW d \in Conns, Room(d),
         WriteHeader(d) \/ WritePayload(d)
  PROVE  (FilesBounded /\ Counted /\ Room(d))'
<1>1. /\ Step(d) /\ host = "up" /\ ~failed /\ host' = host /\ failed' = failed /\ file' = file
      /\ file # 0 /\ pc[d] \in {"header", "payload"} /\ ~Create(d)
  <2>1. Step(d)
    BY DEF Step
  <2>2. host = "up" /\ ~failed /\ host' = host /\ pc[d] \in InRecord
    BY <2>1, StepAt
  <2>3. failed' = failed /\ file' = file /\ pc[d] \in {"header", "payload"} /\ ~Create(d)
    BY DEF WriteHeader, WritePayload, Acknowledge, At, Create
  <2>4. file # 0
    <3>1. pc[d] \in {"syncOld", "closeOld", "header", "payload"}
      BY <2>3
    <3>. QED  BY <2>2, <3>1, InStep
  <2>. QED  BY <2>1, <2>2, <2>3, <2>4
<1>2. CASE WritePayload(d)
  <2>1. Written(d) /\ Len(Newest'.entries) = Len(Newest.entries) /\ pc[d] = "payload"
    BY <1>2, PayloadLog DEF WritePayload, At
  <2>. QED  BY <1>1, <2>1, WrittenMeasured
<1>3. CASE WriteHeader(d)
  <2>1. pc[d] = "header"
    BY <1>3 DEF WriteHeader, At
  <2>2. \A e \in Entry : Len(Append(Newest.entries, e)) = Len(Newest.entries) + 1
    BY NewestRecords
  <2>3. \A b \in BOOLEAN : NewEntry(d, b) \in Entry
    BY NewEntryType DEF IInv
  <2>4. CASE Chunk(d) = 0
    <3>1. Written(d)
      BY <1>3, <2>4, HeaderLog
    <3>2. Newest'.entries = Append(Newest.entries, NewEntry(d, TRUE))
      BY <1>1, <1>3, <2>1, <2>4, AppendLog DEF WriteHeader
    <3>3. Len(Newest'.entries) = Len(Newest.entries) + 1
      BY <2>2, <2>3, <3>2
    <3>. QED  BY <1>1, <2>1, <3>1, <3>3, WrittenMeasured
  <2>5. CASE Chunk(d) # 0
    <3>1. Records(Newest') = Records(Newest) /\ Newest'.entries = Append(Newest.entries, NewEntry(d, FALSE))
      BY <1>3, <2>5, HeaderLog
    <3>2. bytesWritten' = bytesWritten /\ pc'[d] = "payload" /\ left' = left
      BY <1>3, <2>5 DEF WriteHeader, Goto, IInv, TypeOK, Actors
    <3>3. bytesWritten = FileHeaderSize + Size(Records(Newest))
      BY <1>1 DEF Counted
    <3>4. Len(Newest'.entries) = Len(Newest.entries) + 1
      BY <2>2, <2>3, <3>1
    <3>5. Len(Newest'.entries) = 1 \/ RoomFor(d)
      <4>1. Newest.entries = << >> \/ RoomFor(d)
        BY <2>1 DEF Room
      <4>2. Newest.entries = << >> => Len(Newest.entries) = 0
        OBVIOUS
      <4>. QED  BY <3>4, <4>1, <4>2
    <3>6. RoomFor(d) => FileHeaderSize + Size(Records(Newest')) <= RotateSize
      <4>1. Chunk(d) \in Nat /\ bytesWritten \in Nat
        BY ChunkSize DEF IInv, TypeOK
      <4>. QED  BY <3>1, <3>3, <4>1, SizesAssumption DEF RoomFor
    <3>7. Bounded(Newest')
      <4> DEFINE n == Len(Newest'.entries)
      <4>1. n = 1 => n <= 1
        OBVIOUS
      <4> HIDE DEF n
      <4>2. n <= 1 \/ RoomFor(d)
        BY <3>5, <4>1 DEF n
      <4>. QED  BY <3>6, <4>2 DEF Bounded, n
    <3>8. FilesBounded'
      BY <1>1, <3>7, StepOthers, NewestBounded DEF FilesBounded
    <3>9. RoomFor(d)' = RoomFor(d)
      BY <3>2 DEF RoomFor, Chunk
    <3>. QED  BY <1>1, <3>1, <3>2, <3>3, <3>5, <3>8, <3>9 DEF Counted, Room
  <2>. QED  BY <2>4, <2>5
<1>. QED  BY <1>2, <1>3

LEMMA FailMeasured ==
  ASSUME IInv, RotateSize > 0, FilesBounded, Counted, NEW d \in Conns, Room(d),
         \/ RotateFails(d) \/ CreateFails(d) \/ WriteFileHeaderFails(d)
         \/ WriteHeaderFails(d) \/ WritePayloadFails(d)
  PROVE  (FilesBounded /\ Counted /\ Room(d))'
<1>1. /\ Step(d) /\ host = "up" /\ ~failed /\ failed' /\ pc'[d] = "idle"
      /\ disk' = disk \/ (pc[d] = "header" /\ AppendEntry(NewEntry(d, FALSE)) /\ ~Create(d))
  <2>1. Step(d)
    BY DEF Step
  <2>2. host = "up" /\ ~failed
    BY <2>1, StepAt
  <2>3. FailLocked(d)
    BY DEF RotateFails, CreateFails, WriteFileHeaderFails, WriteHeaderFails, WritePayloadFails
  <2>4. failed' /\ pc'[d] = "idle"
    BY <2>3 DEF FailLocked, Goto, IInv, TypeOK, Actors
  <2>5. disk' = disk \/ (pc[d] = "header" /\ AppendEntry(NewEntry(d, FALSE)))
    BY DEF RotateFails, CreateFails, WriteFileHeaderFails, WriteHeaderFails, WritePayloadFails, At
  <2>6. pc[d] = "header" => ~Create(d)
    BY DEF Create, At
  <2>. QED  BY <2>1, <2>2, <2>4, <2>5, <2>6
<1>2. Counted' /\ Room(d)'
  BY <1>1 DEF Counted, Room
<1>3. CASE disk' = disk
  BY <1>2, <1>3 DEF FilesBounded
<1>4. CASE pc[d] = "header" /\ AppendEntry(NewEntry(d, FALSE)) /\ ~Create(d)
  <2>1. Records(Newest') = Records(Newest) /\ Newest'.entries = Append(Newest.entries, NewEntry(d, FALSE))
    BY <1>1, <1>4, AppendLog
  <2>2. Len(Newest'.entries) = Len(Newest.entries) + 1
    BY <2>1, NewestRecords, NewEntryType DEF IInv
  <2>3. bytesWritten = FileHeaderSize + Size(Records(Newest))
    <3>1. file # 0
      BY <1>1, <1>4, InStep DEF InRecord
    <3>. QED  BY <1>1, <3>1 DEF Counted
  <2>4. CASE Newest.entries = << >>
    <3>1. Len(Newest.entries) = 0
      BY <2>4
    <3>2. Bounded(Newest')
      BY <2>2, <3>1 DEF Bounded
    <3>. QED  BY <1>1, <1>2, <1>4, <3>2, StepOthers, NewestBounded DEF FilesBounded
  <2>5. CASE RoomFor(d)
    <3>1. Chunk(d) \in Nat /\ bytesWritten \in Nat
      BY ChunkSize DEF IInv, TypeOK
    <3>2. Bounded(Newest')
      BY <2>1, <2>3, <2>5, <3>1, SizesAssumption DEF RoomFor, Bounded
    <3>. QED  BY <1>1, <1>2, <1>4, <3>2, StepOthers, NewestBounded DEF FilesBounded
  <2>. QED  BY <1>4, <2>4, <2>5 DEF Room
<1>. QED  BY <1>1, <1>3, <1>4

(* Losing units of the newest file. *)
LEMMA LoseMeasured ==
  ASSUME IInv, FilesBounded, LoseUnsynced
  PROVE  FilesBounded'
<1> DEFINE f == Newest
           g == Newest'
<1>1. /\ f \in File /\ Numbered(f) /\ TornAtEnd(f)
      /\ DOMAIN disk = 1..Len(disk) /\ Len(disk) \in DOMAIN disk
  BY NewestInOrder DEF IInv, TypeOK, FilesInOrder
<1>2. g \in {LoseUnit(f), TearUnit(f)}
  <2>1. \/ disk' = [disk EXCEPT ![Len(disk)] = LoseUnit(f)]
        \/ disk' = [disk EXCEPT ![Len(disk)] = TearUnit(f)]
    BY LoseChanges
  <2>. QED  BY <1>1, <2>1, LoseRecord, NewestChange
<1>3. /\ g \in File /\ Numbered(g) /\ TornAtEnd(g)
      /\ Shorter(Records(f), Records(g))
  BY <1>1, <1>2, LoseRecord, RecordsLose
<1>4. Bounded(f)
  BY <1>1 DEF FilesBounded, Newest
<1>5. Len(g.entries) \in Nat /\ Len(f.entries) \in Nat /\ Len(g.entries) <= Len(f.entries)
  <2>1. f.entries \in Seq(Entry) /\ Len(f.entries) \in Nat
    BY <1>1 DEF File
  <2>2. CASE f.entries = << >>
    <3>1. g.entries = f.entries
      BY <1>1, <1>2, <2>2 DEF LoseUnit, TearUnit, File
    <3>. QED  BY <2>1, <3>1
  <2>3. CASE f.entries # << >>
    <3>1. Len(f.entries) > 0
      BY <2>1, <2>3
    <3>2. g = LoseUnit(f) => Len(g.entries) = Len(f.entries) - 1
      <4>1. LoseUnit(f).entries = SubSeq(f.entries, 1, Len(f.entries) - 1)
        BY <1>1, <2>3 DEF LoseUnit, File
      <4>. QED  BY <2>1, <3>1, <4>1
    <3>3. g = TearUnit(f) => Len(g.entries) = Len(f.entries)
      <4>1. TearUnit(f) = [f EXCEPT !.entries[Len(f.entries)].whole = FALSE]
        BY <2>3 DEF TearUnit
      <4>. QED  BY <1>1, <2>3, <4>1, MarkRecord
    <3>. QED  BY <1>2, <2>1, <3>1, <3>2, <3>3
  <2>. QED  BY <2>2, <2>3
<1>6. Size(Records(g)) \in Nat /\ Size(Records(f)) \in Nat /\ Size(Records(g)) <= Size(Records(f))
  BY <1>1, <1>3, RecordsOf, SizeShorter
<1>7. Bounded(g)
  <2> HIDE DEF f, g
  <2>. QED  BY <1>4, <1>5, <1>6, SizesAssumption DEF Bounded
<1>. QED  BY <1>7, LoseOthers, NewestBounded DEF FilesBounded

LEMMA NextMeasured == IInv /\ Pending /\ Measured /\ [Next]_vars => Measured'
<1> SUFFICES ASSUME IInv, Pending, Measured, [Next]_vars, RotateSize > 0 PROVE Measured'
  BY DEF Measured
<1>1. FilesBounded
  BY DEF Measured, FilesBounded
<1>2. host = "up" => Counted /\ \A c \in Conns : Room(c)
  BY DEF Measured, Counted, Room
<1>3. (FilesBounded /\ Counted /\ \A c \in Conns : Room(c))' => Measured'
  BY DEF Measured, FilesBounded, Counted, Room
<1>4. host' # "up" /\ FilesBounded' => Measured'
  BY DEF Measured, FilesBounded
<1>5. ASSUME NEW d \in Conns, WriteMeta(d) \/ WriteData(d) \/ Enter(d) PROVE Measured'
  <2>1. host = "up"
    BY <1>5 DEF WriteMeta, WriteData, StartCall, Enter, Refuse, EnterRotate, EnterWrite, Lock
  <2>. QED  BY <1>1, <1>2, <1>3, <1>5, <2>1, EnterMeasured
<1>6. ASSUME NEW d \in Conns, Step(d) PROVE Measured'
  <2>1. host = "up"
    BY <1>6, StepAt
  <2>2. FilesBounded /\ Counted /\ Room(d)
    BY <1>1, <1>2, <2>1
  <2>3. (FilesBounded /\ Counted /\ Room(d))'
    BY <1>6, <2>2, RotateMeasured, RecordMeasured, FailMeasured DEF Step
  <2>4. \A c \in Conns : Room(c)'
    BY <1>6, <2>3, OthersIdle
  <2>. QED  BY <1>3, <2>3, <2>4
<1>7. CASE Close
  <2>1. /\ host = "up" /\ host' = host /\ UNCHANGED <<failed, bytesWritten, left>>
        /\ file' = file \/ file' = 0
        /\ \A c \in Conns : pc'[c] = pc[c]
    <3> USE ConnsAssumption DEF IInv, TypeOK, Actors, Goto, Return, At
    <3>1. CASE CloseNoFile
      BY <1>7, <3>1 DEF CloseNoFile
    <3>2. CASE CloseStart
      BY <1>7, <3>2 DEF CloseStart
    <3>3. CASE CloseSync
      BY <1>7, <3>3 DEF CloseSync, writer
    <3>4. CASE CloseFile
      BY <1>7, <3>4 DEF CloseFile
    <3>. QED  BY <1>7, <3>1, <3>2, <3>3, <3>4 DEF Close
  <2>2. Newest'.entries = Newest.entries /\ Records(Newest') = Records(Newest)
    <3>1. CASE disk' = disk
      BY <3>1 DEF Newest
    <3>2. CASE disk' = [disk EXCEPT ![Len(disk)] = Sealed(Newest)]
      BY <3>2, SealKeepsLog
    <3>. QED  BY <1>7, <3>1, <3>2, CloseLog
  <2>3. Bounded(Newest')
    <3>1. Len(disk) \in DOMAIN disk
      BY DEF IInv, TypeOK, FilesInOrder
    <3>. QED  BY <1>1, <2>2, <3>1 DEF FilesBounded, Bounded, Newest
  <2>4. FilesBounded'
    BY <1>1, <1>7, <2>3, LoseOthers, NewestBounded DEF FilesBounded
  <2>5. Counted'
    BY <1>2, <2>1, <2>2 DEF Counted
  <2>6. \A c \in Conns : Room(c)'
    BY <1>2, <2>1, <2>2 DEF Room, RoomFor, Chunk
  <2>. QED  BY <1>3, <2>4, <2>5, <2>6
<1>8. CASE Crash
  BY <1>1, <1>4, <1>8 DEF Crash, FilesBounded
<1>9. CASE LoseUnsynced
  BY <1>1, <1>4, <1>9, LoseMeasured DEF LoseUnsynced
<1>10. CASE UNCHANGED vars
  BY <1>10 DEF vars, writer, Measured, RoomFor, Chunk, Newest
<1>. QED
  BY <1>5, <1>6, <1>7, <1>8, <1>9, <1>10 DEF Next, Finished

LEMMA InitMeasured == Init => Measured
<1> SUFFICES ASSUME Init, RotateSize > 0 PROVE Measured
  BY DEF Measured
<1>1. /\ \A a \in Actors : pc[a] = "idle"
      /\ bytesWritten = FileHeaderSize
      /\ DOMAIN disk = {1} /\ Len(disk) = 1 /\ disk[1] = [NewFile EXCEPT !.header = TRUE]
  BY DEF Init
<1>2. disk[1].entries = << >> /\ Newest = disk[1]
  BY <1>1 DEF NewFile, Newest
<1>3. IInv
  BY InitIInv
<1>4. Records(Newest) = << >>
  BY <1>2, <1>3, NewestRecords
<1>5. FilesBounded
  <2>1. Len(disk[1].entries) <= 1
    BY <1>2
  <2>. QED  BY <1>1, <2>1 DEF FilesBounded, Bounded
<1>6. Counted
  BY <1>1, <1>4, SizeEmpty, SizesAssumption DEF Counted
<1>. QED  BY <1>1, <1>2, <1>5, <1>6 DEF Measured, FilesBounded, Counted, Actors

(* Whatever the sizes of the records, the rotation size, the order in which *)
(* handlers write and the failures, a file is longer than rotateSize only   *)
(* when it holds a single record (bwj.go:266-281).                          *)
THEOREM FilesKeepTheirSize == Spec => []FileSizeBounded
<1>1. Measured => FileSizeBounded
  BY DEF Measured, FileSizeBounded, Bounded, Records
<1>. QED  BY <1>1, InitIInv, NextIInv, InitAccounted, NextPending, InitMeasured, NextMeasured,
             PTL DEF Spec

-----------------------------------------------------------------------------
(***************************************************************************)
(* The abstract journal.  Its log is that of the files, of each record     *)
(* only the handler and its number; its phase follows failed, closed and   *)
(* the host.                                                               *)
(***************************************************************************)
JournalRecord == [conn : Conns, id : Nat \ {0}]
Identity == [e \in Entry |-> [conn |-> e.conn, id |-> e.id]]
JournalLog == FlattenSeq([i \in DOMAIN disk |-> Identified(disk[i])])
Phase ==
  IF host = "nopower" THEN "lost"
  ELSE IF failed \/ closed \/ host = "killed" THEN "frozen" ELSE "open"

LEMMA IdentityMaps == Maps(Identity, Entry, JournalRecord)
<1>1. \A e \in Entry : [conn |-> e.conn, id |-> e.id] \in JournalRecord
  BY DEF Entry, JournalRecord
<1>. QED  BY <1>1 DEF Maps, Identity

LEMMA JournalLogIs ==
  ASSUME IInv
  PROVE  JournalLog = Map(Identity, Log)
<1> DEFINE n == Len(disk)
           R == Seq(Entry)
           ss == [i \in DOMAIN disk |-> Records(disk[i])]
<1>1. n \in Nat /\ DOMAIN disk = 1..n
  BY DEF IInv, TypeOK
<1>2. \A i \in DOMAIN disk : disk[i] \in File /\ Numbered(disk[i]) /\ TornAtEnd(disk[i])
  BY DEF IInv, TypeOK, FilesInOrder
<1>3. \A i \in DOMAIN disk : Records(disk[i]) \in R
  BY <1>2, RecordsOf
<1>4. ss \in Seq(R)
  <2> HIDE DEF R, n
  <2>. QED  BY <1>1, <1>3
<1>5. \A i \in DOMAIN disk : Identified(disk[i]) = Map(Identity, Records(disk[i]))
  <2> SUFFICES ASSUME NEW f \in File, Numbered(f), TornAtEnd(f)
               PROVE  Identified(f) = Map(Identity, Records(f))
    BY <1>2
  <2> DEFINE r == Records(f)
  <2>1. f.entries \in Seq(Entry) /\ Len(f.entries) \in Nat /\ r \in Seq(Entry)
    BY RecordsOf DEF File
  <2>2. \A k \in DOMAIN r : r[k] = f.entries[k] /\ r[k] \in Entry
    <3>1. r = f.entries \/ (f.entries # << >> /\ r = SubSeq(f.entries, 1, Len(f.entries) - 1))
      BY RecordsOf
    <3> HIDE DEF r
    <3>. QED  BY <2>1, <3>1
  <2>3. Identified(f) = [k \in DOMAIN r |-> [conn |-> f.entries[k].conn, id |-> f.entries[k].id]]
    BY DEF Identified, Records
  <2>4. \A k \in DOMAIN r : [conn |-> f.entries[k].conn, id |-> f.entries[k].id] = Identity[r[k]]
    BY <2>2 DEF Identity
  <2> HIDE DEF r
  <2>. QED  BY <2>3, <2>4 DEF Map, r
<1>6. FlattenSeq([i \in DOMAIN ss |-> Map(Identity, ss[i])]) = Map(Identity, FlattenSeq(ss))
  <2>1. ss \in Seq(Seq(Entry))
    BY <1>4
  <2> HIDE DEF ss
  <2>. QED  BY <2>1, IdentityMaps, FlattenMap
<1>7. [i \in DOMAIN ss |-> Map(Identity, ss[i])] = [i \in DOMAIN disk |-> Identified(disk[i])]
  BY <1>5
<1>8. Log = FlattenSeq(ss)
  BY DEF Log, Records
<1> HIDE DEF ss
<1>. QED  BY <1>6, <1>7, <1>8 DEF JournalLog

LEMMA JournalCounts ==
  ASSUME IInv, NEW c \in Conns
  PROVE  {k \in DOMAIN JournalLog : JournalLog[k].conn = c} = OfConn(Log, c)
<1>1. Log \in Seq(Entry) /\ JournalLog = Map(Identity, Log)
  BY LogType, JournalLogIs
<1>2. DOMAIN JournalLog = DOMAIN Log /\ \A k \in DOMAIN Log : JournalLog[k] = Identity[Log[k]]
  BY <1>1 DEF Map
<1>3. \A k \in DOMAIN Log : Log[k] \in Entry
  BY <1>1
<1>4. \A k \in DOMAIN Log : JournalLog[k].conn = Log[k].conn
  <2>1. \A e \in Entry : Identity[e].conn = e.conn
    BY DEF Identity
  <2>. QED  BY <1>2, <1>3, <2>1
<1>. QED  BY <1>2, <1>4 DEF OfConn

(* Where nothing is written the journal stays, or freezes. *)
StaysOrFreezes ==
  \/ UNCHANGED <<JournalLog, Phase>>
  \/ Phase = "open" /\ Phase' = "frozen" /\ UNCHANGED JournalLog

JournalStep ==
  \/ \E c \in Conns : /\ Phase = "open" /\ UNCHANGED Phase
                      /\ JournalLog' = Append(JournalLog, [conn |-> c,
                           id |-> Cardinality({k \in DOMAIN JournalLog : JournalLog[k].conn = c}) + 1])
  \/ StaysOrFreezes
  \/ Phase # "lost" /\ Phase' = "lost" /\ UNCHANGED JournalLog
  \/ /\ Phase = "lost" /\ JournalLog # << >> /\ UNCHANGED Phase
     /\ JournalLog' = SubSeq(JournalLog, 1, Len(JournalLog) - 1)

JournalOfLog == JournalLog = Map(Identity, Log)

LEMMA NextJournalLog == IInv' => JournalOfLog'
<1>1. IInv => JournalOfLog
  BY JournalLogIs DEF JournalOfLog
<1>. QED  BY <1>1, PTL

LEMMA NextJournal ==
  ASSUME IInv, IInv'
  PROVE  /\ Log' = Log => UNCHANGED JournalLog
         /\ \A r \in Entry : Log' = Append(Log, r) =>
              JournalLog' = Append(JournalLog, [conn |-> r.conn, id |-> r.id])
         /\ Shorter(Log, Log') => Shorter(JournalLog, JournalLog')
<1>1. Log \in Seq(Entry) /\ JournalLog = Map(Identity, Log)
  BY LogType, JournalLogIs
<1>2. JournalLog' = Map(Identity, Log')
  BY NextJournalLog DEF JournalOfLog, Identity, Entry, Map
<1>3. ASSUME NEW r \in Entry, Log' = Append(Log, r)
      PROVE  JournalLog' = Append(JournalLog, [conn |-> r.conn, id |-> r.id])
  <2>1. Map(Identity, Append(Log, r)) = Append(Map(Identity, Log), Identity[r])
    BY <1>1, IdentityMaps, MapAppend
  <2>2. Identity[r] = [conn |-> r.conn, id |-> r.id]
    BY DEF Identity
  <2>. QED  BY <1>1, <1>2, <1>3, <2>1, <2>2
<1>4. ASSUME Log # << >>, Log' = SubSeq(Log, 1, Len(Log) - 1)
      PROVE  JournalLog # << >> /\ JournalLog' = SubSeq(JournalLog, 1, Len(JournalLog) - 1)
  <2>1. /\ Map(Identity, Log) # << >>
        /\ Map(Identity, SubSeq(Log, 1, Len(Log) - 1)) =
             SubSeq(Map(Identity, Log), 1, Len(Map(Identity, Log)) - 1)
    BY <1>1, <1>4, IdentityMaps, MapFront
  <2>. QED  BY <1>1, <1>2, <1>4, <2>1
<1>. QED  BY <1>1, <1>2, <1>3, <1>4 DEF Shorter

LEMMA AppendsInJournal ==
  ASSUME IInv, IInv', Closing, Accounted, NEW c \in Conns, Step(c), Written(c)
  PROVE  JournalStep
<1>1. PICK r \in Entry : r.conn = c /\ r.id = recorded[c] + 1 /\ Log' = Append(Log, r)
  BY DEF Written
<1>2. /\ host = "up" /\ host' = host /\ ~failed /\ ~closed /\ closed' = closed
      /\ failed' = failed
  BY StepAt DEF Closing, Written, Acknowledge
<1>3. Phase = "open" /\ Phase' = "open"
  BY <1>2 DEF Phase
<1>4. Cardinality(OfConn(Log, c)) = recorded[c]
  BY <1>2 DEF Accounted
<1>5. JournalLog' = Append(JournalLog, [conn |-> c, id |-> recorded[c] + 1])
  BY <1>1, NextJournal
<1>. QED  BY <1>3, <1>4, <1>5, JournalCounts DEF JournalStep

LEMMA FreezesJournal ==
  ASSUME IInv, IInv', Log' = Log, host = "up",
         host' \in {"up", "killed"}, failed => failed', closed => closed'
  PROVE  JournalStep
<1>1. UNCHANGED JournalLog
  BY NextJournal
<1>2. Phase' = Phase \/ (Phase = "open" /\ Phase' = "frozen")
  BY DEF Phase
<1>. QED  BY <1>1, <1>2 DEF JournalStep, StaysOrFreezes

LEMMA NextJournalStep ==
  ASSUME IInv, IInv', Closing, Pending, Accounted, [Next]_vars
  PROVE  JournalStep
<1>1. ASSUME NEW c \in Conns, WriteMeta(c) \/ WriteData(c) \/ Enter(c) PROVE JournalStep
  <2>1. host = "up" /\ host' = host /\ failed' = failed /\ closed' = closed
    BY <1>1 DEF WriteMeta, WriteData, StartCall, Enter, Refuse, EnterRotate, EnterWrite, Lock, writer
  <2>. QED  BY <1>1, <2>1, CallLog, FreezesJournal
<1>2. ASSUME NEW c \in Conns, Step(c) PROVE JournalStep
  <2>1. Written(c) \/ Unwritten(c)
    BY <1>2, StepLog
  <2>2. host = "up" /\ host' = host /\ closed' = closed /\ ~failed
    BY <1>2, StepAt
  <2>3. CASE Written(c)
    BY <1>2, <2>3, AppendsInJournal
  <2>4. CASE Unwritten(c)
    BY <2>2, <2>4, FreezesJournal DEF Unwritten
  <2>. QED  BY <2>1, <2>3, <2>4
<1>3. CASE Close
  <2>1. host = "up" /\ host' = host /\ failed' = failed /\ (closed => closed')
    BY <1>3 DEF Close, CloseNoFile, CloseStart, CloseSync, CloseFile, At, writer
  <2>. QED  BY <1>3, <2>1, CloseLog, FreezesJournal
<1>4. CASE Crash
  <2>1. Log' = Log /\ UNCHANGED <<failed, closed>> /\ host = "up" /\ host' \in {"killed", "nopower"}
    BY <1>4 DEF Crash, Log, writer
  <2>2. CASE host' = "nopower"
    <3>1. Phase # "lost" /\ Phase' = "lost"
      BY <2>1, <2>2 DEF Phase
    <3>. QED  BY <2>1, <3>1, NextJournal DEF JournalStep
  <2>. QED  BY <2>1, <2>2, FreezesJournal
<1>5. CASE LoseUnsynced
  <2>1. Phase = "lost" /\ UNCHANGED Phase
    BY <1>5 DEF LoseUnsynced, Phase
  <2>2. Shorter(JournalLog, JournalLog')
    BY <1>5, LoseChanges, NextJournal
  <2>. QED  BY <2>1, <2>2 DEF JournalStep, StaysOrFreezes, Shorter
<1>6. CASE UNCHANGED vars
  <2>1. Log' = Log /\ UNCHANGED Phase
    BY <1>6 DEF vars, writer, Log, Phase
  <2>. QED  BY <2>1, NextJournal DEF JournalStep, StaysOrFreezes
<1>. QED  BY <1>1, <1>2, <1>3, <1>4, <1>5, <1>6 DEF Next, Finished

(* The files, read in the order of their names, are the abstract journal    *)
(* whatever the interleaving, the failures and the moment of a crash: a     *)
(* record enters at its last write, one after the other and each once;      *)
(* nothing enters after the first error, Close or the end of the process;   *)
(* a power loss takes records from the end only (bwj.go:201-345).           *)
THEOREM WriterImplementsJournal == Spec => ImplementsJournal
<1>1. Init => Abstract!Init
  <2> SUFFICES ASSUME Init PROVE Abstract!Init
    OBVIOUS
  <2>1. IInv /\ Log = << >>
    BY InitIInv, InitLog
  <2>2. JournalLog = << >>
    BY <2>1, JournalLogIs, MapEmpty
  <2>3. Phase = "open"
    BY DEF Init, Phase
  <2>. QED  BY <2>2, <2>3 DEF Abstract!Init, JournalLog, Phase
<1>2. IInv /\ IInv' /\ Closing /\ Pending /\ Accounted /\ [Next]_vars
        => [Abstract!Next]_Abstract!vars
  <2> SUFFICES ASSUME JournalStep PROVE [Abstract!Next]_Abstract!vars
    BY NextJournalStep
  <2>1. \A c \in Conns :
          Cardinality({k \in DOMAIN JournalLog : JournalLog[k].conn = c}) =
            Abstract!Cardinality(Abstract!OfConn(JournalLog, c))
    <3>1. \A S : Abstract!Cardinality(S) = Cardinality(S)
      BY Zenon DEF Abstract!Cardinality, Cardinality
    <3>. QED  BY <3>1 DEF Abstract!OfConn
  <2>2. CASE \E c \in Conns : /\ Phase = "open" /\ UNCHANGED Phase
               /\ JournalLog' = Append(JournalLog,
                    [conn |-> c, id |-> Abstract!Cardinality(Abstract!OfConn(JournalLog, c)) + 1])
    BY <2>2 DEF Abstract!Next, Abstract!Append1, JournalLog, Phase
  <2>3. CASE StaysOrFreezes
    BY <2>3 DEF StaysOrFreezes, Abstract!Next, Abstract!Freeze, Abstract!vars, JournalLog, Phase
  <2>4. CASE Phase # "lost" /\ Phase' = "lost" /\ UNCHANGED JournalLog
    BY <2>4 DEF Abstract!Next, Abstract!LosePower, JournalLog, Phase
  <2>5. CASE /\ Phase = "lost" /\ JournalLog # << >> /\ UNCHANGED Phase
             /\ JournalLog' = SubSeq(JournalLog, 1, Len(JournalLog) - 1)
    BY <2>5 DEF Abstract!Next, Abstract!LoseSuffix, JournalLog, Phase
  <2>. QED  BY <2>1, <2>2, <2>3, <2>4, <2>5 DEF JournalStep
<1>. QED
  BY <1>1, <1>2, InitIInv, NextIInv, InitAccounted, NextClosing, NextPending, NextAccounted,
     PTL DEF Spec, ImplementsJournal, Abstract!Spec
=============================================================================
