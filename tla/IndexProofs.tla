---------------------------- MODULE IndexProofs ----------------------------
(***************************************************************************)
(* For any sensors, connections, faults and readings: why an index may     *)
(* fail, that what it holds is true, and that a refresh forgets nothing.   *)
(*                                                                         *)
(* The evidence can lose what the database still has, so neither can be    *)
(* explained by the other.  The invariant relates both to the story of     *)
(* each connection: all the lines its handler ever emitted, whether they   *)
(* reached the log or not.                                                 *)
(***************************************************************************)
EXTENDS Index, SequenceLemmas

AllLines ==
  [type : {"connection_open", "connection_close"}, conn : Conns]
  \cup [type : {"exchange"}, conn : Conns, request : Nat, inStart : Nat, inLength : Nat,
        outStart : Nat, outLength : Nat]
LinesFor(c) == {l \in AllLines : l.conn = c}
AllUnits == [conn : Conns, dir : {"in", "out"}, at : Nat]
UnitsFor(c, dir) == {u \in AllUnits : u.conn = c /\ u.dir = dir}

(* What a handler emits: an open event, exchanges each of which begins     *)
(* where the one before ended, and a close event.                          *)
Follows(l, before, j) ==
  /\ l.request = j - 1 /\ l.inStart = j - 2 /\ l.inLength = 1
  /\ l.outStart = IF j = 2 THEN 0 ELSE before.outStart + before.outLength
Story(t, c) ==
  /\ t \in Seq(LinesFor(c))
  /\ \A j \in DOMAIN t :
       /\ t[j].type = "connection_open" => j = 1
       /\ t[j].type = "exchange" =>
            j > 1 /\ t[1].type = "connection_open" /\ Follows(t[j], t[j - 1], j)
       /\ t[j].type = "connection_close" => j = Len(t)

End(t) == IF Len(t) <= 1 THEN 0 ELSE t[Len(t)].outStart + t[Len(t)].outLength

(* The handler is to be asked next, n requests are told, out bytes sent.   *)
Going(t, n, out) ==
  /\ Len(t) = n + 1 /\ t[1].type = "connection_open" /\ End(t) = out
  /\ \A j \in DOMAIN t : t[j].type # "connection_close"
Refused(t, c) == bytesIn[c] = 0 /\ bytesOut[c] = 0 /\ "journal" \in faults

Lived(t, c) ==
  /\ bytesIn[c] \in Nat /\ bytesOut[c] \in Nat /\ requests[c] = bytesIn[c]
  /\ \A j \in DOMAIN t :
       /\ t[j].type = "exchange" =>
            t[j].request <= bytesIn[c] /\ t[j].outStart + t[j].outLength <= bytesOut[c]
       /\ t[j].type = "connection_close" => pc[c] = "done"
  /\ \/ pc[c] = "away" /\ t = << >> /\ bytesIn[c] = 0 /\ bytesOut[c] = 0
     \/ pc[c] \in {"read", "failed"} /\ Going(t, requests[c], bytesOut[c])
     \/ pc[c] = "failed" /\ t = << >> /\ Refused(t, c)
     \/ /\ pc[c] \in {"write", "writeFailed"} /\ requests[c] > 0
        /\ Going(t, requests[c] - 1, responseStart[c]) /\ responseStart[c] <= bytesOut[c]
     \/ /\ pc[c] = "done" /\ t # << >> /\ t[Len(t)].type = "connection_close"
        /\ Len(t) = 1 => Refused(t, c)
  /\ Home[c] > run => pc[c] = "away"

Sensor(told) ==
  /\ run \in Nat /\ up \in BOOLEAN
  /\ DOMAIN pc = Conns /\ DOMAIN bytesIn = Conns /\ DOMAIN bytesOut = Conns
  /\ DOMAIN requests = Conns /\ DOMAIN responseStart = Conns
  /\ DOMAIN told = Conns
  /\ \A c \in Conns : Story(told[c], c) /\ Lived(told[c], c)

(* The files of both stores. *)
JournalFile == [run : Nat, header : BOOLEAN, units : Seq(AllUnits), synced : BOOLEAN]
EventFile == [run : Nat, lines : Seq(AllLines), cut : BOOLEAN, synced : BOOLEAN]
InTurn(files, last, alive) ==
  /\ \A i \in DOMAIN files : files[i].run <= last
  /\ \A i, j \in DOMAIN files : i < j /\ files[i].run = files[j].run => files[i].synced
  /\ alive => files # << >> /\ files[Len(files)].run = last

JournalKept ==
  /\ journal \in Seq(JournalFile) /\ InTurn(journal, run, up)
  /\ \A i \in DOMAIN journal :
       /\ \A p \in DOMAIN journal[i].units : Home[journal[i].units[p].conn] = journal[i].run
       /\ ~journal[i].header => faults \cap {"journal", "kill", "power"} # {}
  /\ ~journalOK => run = 0 \/ "journal" \in faults
EventsKept ==
  /\ events \in Seq(EventFile) /\ InTurn(events, run, up)
  /\ \A i \in DOMAIN events :
       /\ \A p \in DOMAIN events[i].lines : Home[events[i].lines[p].conn] = events[i].run
       /\ events[i].cut => faults \cap {"events", "kill", "power"} # {}

(* The journal has the first bytes of every connection, and all of them    *)
(* unless it has failed or lost power.                                     *)
Bytes(c, dir) == IF dir = "in" THEN bytesIn[c] ELSE bytesOut[c]
Working(c) == up /\ Home[c] = run
Recorded(files) ==
  \A c \in Conns, dir \in {"in", "out"} :
    \E n \in 0..Bytes(c, dir) : Stream(files, c, dir) = Truly(c, dir, 0, n)
Complete ==
  \A c \in Conns, dir \in {"in", "out"} :
    faults \cap {"journal", "power"} = {} \/ (Working(c) /\ journalOK) =>
      Stream(journal, c, dir) = Truly(c, dir, 0, Bytes(c, dir))

(* The log has the beginning of every story. *)
LogOf(files, c) == Kept(LinesOf(files), LinesFor(c))
HasClose(t) == \E j \in DOMAIN t : t[j].type = "connection_close"
(* That a connection is over has been read, by this index or an earlier.   *)
KnownClosed(c) ==
  \/ c \in DOMAIN db.connections /\ db.connections[c].closed
  \/ reader.first = "events" /\ HasClose(LogOf(reader.files, c))
Logged(files, told) ==
  /\ LinesOf(files) \in Seq(AllLines)
  /\ \A c \in Conns :
       /\ Begins(LogOf(files, c), told[c])
       /\ "power" \notin faults /\ KnownClosed(c) => HasClose(LogOf(files, c))
Healthy(told) ==
  \A c \in Conns : Working(c) /\ jsonlHealthy => LogOf(events, c) = told[c]

(* What was read of one store, until the other is. *)
Reading(told) ==
  /\ reader = [by |-> reader.by, first |-> reader.first, files |-> reader.files,
               live |-> reader.live]
  /\ reader.first \in {"none", "events", "journal"} /\ reader.live \in BOOLEAN
  /\ reader.first = "journal" => reader.by = "archive"
  /\ reader.first # "none" =>
       /\ up => reader.live
       /\ ~reader.live => reader.files = Files(reader.first)
  /\ reader.first = "events" =>
       /\ Logged(reader.files, told)
       /\ \A i \in DOMAIN reader.files : reader.files[i].cut =>
            faults \cap {"events", "kill", "power"} # {} \/ reader.live
  /\ reader.first = "journal" =>
       /\ Recorded(reader.files)
       /\ \A i \in DOMAIN reader.files : ~reader.files[i].header =>
            faults \cap {"journal", "kill", "power"} # {} \/ reader.live

(* The database has the beginning of every story too. *)
RowOf(t, c, k) ==
  [request |-> Truly(c, "in", k - 1, 1),
   response |-> Truly(c, "out", t[k + 1].outStart, t[k + 1].outLength)]
Held(told) ==
  /\ \A id \in DOMAIN db.exchanges :
       \E c \in Conns, k \in Nat \ {0} :
         /\ id = <<c, k>> /\ c \in DOMAIN db.connections
         /\ k + 1 \in DOMAIN told[c] /\ told[c][k + 1].type = "exchange"
         /\ db.exchanges[id] = RowOf(told[c], c, k)
         /\ k > 1 => <<c, k - 1>> \in DOMAIN db.exchanges
  /\ \A c \in DOMAIN db.connections :
       /\ c \in Conns /\ told[c] # << >>
       /\ db.connections[c].by = told[c][1].type
       /\ db.connections[c].closed => HasClose(told[c])

Good(told) ==
  /\ Sensor(told)
  /\ JournalKept /\ Recorded(journal) /\ Complete
  /\ EventsKept /\ Logged(events, told) /\ Healthy(told)
  /\ Reading(told) /\ Held(told)

-----------------------------------------------------------------------------
(* What a file is, and what the files of a store hold together.            *)

LEMMA LinesType ==
  ASSUME NEW files \in Seq(EventFile)
  PROVE  /\ [i \in DOMAIN files |-> files[i].lines] \in Seq(Seq(AllLines))
         /\ LinesOf(files) \in Seq(AllLines)
         /\ DOMAIN files = 1..Len(files) /\ Len(files) \in Nat
<1> DEFINE ss == [i \in DOMAIN files |-> files[i].lines]
<1>1. /\ DOMAIN files = 1..Len(files) /\ Len(files) \in Nat
      /\ \A i \in 1..Len(files) : files[i] \in EventFile
  OBVIOUS
<1>2. \A i \in 1..Len(files) : files[i].lines \in Seq(AllLines)
  BY <1>1 DEF EventFile
<1>3. ss \in Seq(Seq(AllLines))
  <2> DEFINE R == Seq(AllLines)
  <2>1. \A i \in 1..Len(files) : files[i].lines \in R
    BY <1>2
  <2> HIDE DEF R
  <2>2. ss \in Seq(R)
    BY <1>1, <2>1
  <2>. QED  BY <2>2 DEF R
<1>4. FlattenSeq(ss) \in Seq(AllLines)
  <2> HIDE DEF ss
  <2>1. << >> \in Seq(AllLines)
    OBVIOUS
  <2>. QED  BY <1>3, <2>1, FlattenAppend
<1>. QED  BY <1>1, <1>3, <1>4 DEF LinesOf

LEMMA UnitsType ==
  ASSUME NEW files \in Seq(JournalFile)
  PROVE  /\ [i \in DOMAIN files |-> files[i].units] \in Seq(Seq(AllUnits))
         /\ UnitsOf(files) \in Seq(AllUnits)
         /\ DOMAIN files = 1..Len(files) /\ Len(files) \in Nat
         /\ \A c, dir : Stream(files, c, dir) = Kept(UnitsOf(files), UnitsFor(c, dir))
<1> DEFINE ss == [i \in DOMAIN files |-> files[i].units]
           all == UnitsOf(files)
<1>1. /\ DOMAIN files = 1..Len(files) /\ Len(files) \in Nat
      /\ \A i \in 1..Len(files) : files[i] \in JournalFile
  OBVIOUS
<1>2. \A i \in 1..Len(files) : files[i].units \in Seq(AllUnits)
  BY <1>1 DEF JournalFile
<1>3. ss \in Seq(Seq(AllUnits))
  <2> DEFINE R == Seq(AllUnits)
  <2>1. \A i \in 1..Len(files) : files[i].units \in R
    BY <1>2
  <2> HIDE DEF R
  <2>2. ss \in Seq(R)
    BY <1>1, <2>1
  <2>. QED  BY <2>2 DEF R
<1>4. all \in Seq(AllUnits)
  <2> HIDE DEF ss
  <2>1. << >> \in Seq(AllUnits)
    OBVIOUS
  <2>2. FlattenSeq(ss) \in Seq(AllUnits)
    BY <1>3, <2>1, FlattenAppend
  <2>. QED  BY <2>2 DEF UnitsOf, ss
<1>5. ASSUME NEW c, NEW dir
      PROVE  Stream(files, c, dir) = Kept(all, UnitsFor(c, dir))
  <2> HIDE DEF all
  <2> DEFINE one(u) == IF u.conn = c /\ u.dir = dir THEN <<u>> ELSE << >>
             each(u) == Single(u, UnitsFor(c, dir))
  <2>1. \A k \in DOMAIN all : all[k] \in AllUnits
    BY <1>4
  <2>2. \A u \in AllUnits : one(u) = each(u)
    BY DEF Single, UnitsFor
  <2> HIDE DEF one, each
  <2>3. [k \in DOMAIN all |-> one(all[k])] = [k \in DOMAIN all |-> each(all[k])]
    BY <2>1, <2>2
  <2>4. Stream(files, c, dir) = FlattenSeq([k \in DOMAIN all |-> one(all[k])])
    BY DEF Stream, all, one
  <2>5. Kept(all, UnitsFor(c, dir)) = FlattenSeq([k \in DOMAIN all |-> each(all[k])])
    BY DEF Kept, each
  <2>. QED  BY <2>3, <2>4, <2>5
<1>. QED  BY <1>1, <1>3, <1>4, <1>5

(* Files with the same contents, whatever else is different of them.       *)
LEMMA SameLines ==
  ASSUME NEW f, NEW g, DOMAIN f = DOMAIN g, \A i \in DOMAIN f : f[i].lines = g[i].lines
  PROVE  LinesOf(f) = LinesOf(g)
<1>1. [i \in DOMAIN f |-> f[i].lines] = [i \in DOMAIN g |-> g[i].lines]
  OBVIOUS
<1>. QED  BY <1>1 DEF LinesOf

LEMMA SameUnits ==
  ASSUME NEW f, NEW g, DOMAIN f = DOMAIN g, \A i \in DOMAIN f : f[i].units = g[i].units
  PROVE  /\ UnitsOf(f) = UnitsOf(g)
         /\ \A c, dir : Stream(f, c, dir) = Stream(g, c, dir)
<1>1. [i \in DOMAIN f |-> f[i].units] = [i \in DOMAIN g |-> g[i].units]
  OBVIOUS
<1>2. UnitsOf(f) = UnitsOf(g)
  BY <1>1 DEF UnitsOf
<1>. QED  BY <1>2 DEF Stream

(* A file more, without contents. *)
LEMMA FileMore ==
  ASSUME NEW S, NEW files \in Seq(S), NEW f \in S
  PROVE  LET t == Append(files, f)
         IN  /\ t \in Seq(S) /\ Len(t) = Len(files) + 1 /\ Len(files) \in Nat
             /\ DOMAIN files = 1..Len(files) /\ DOMAIN t = 1..(Len(files) + 1)
             /\ \A i \in 1..Len(files) : t[i] = files[i]
             /\ t[Len(files) + 1] = f
OBVIOUS

LEMMA LinesMore ==
  ASSUME NEW files \in Seq(EventFile), NEW f \in EventFile, f.lines = << >>
  PROVE  LinesOf(Append(files, f)) = LinesOf(files)
<1> DEFINE t == Append(files, f)
           ss == [i \in DOMAIN files |-> files[i].lines]
           tt == [i \in DOMAIN t |-> t[i].lines]
<1>1. /\ t \in Seq(EventFile) /\ Len(t) = Len(files) + 1 /\ Len(files) \in Nat
      /\ DOMAIN files = 1..Len(files) /\ DOMAIN t = 1..(Len(files) + 1)
      /\ \A i \in 1..Len(files) : t[i] = files[i]
      /\ t[Len(files) + 1] = f
  BY FileMore
<1> HIDE DEF t
<1>2. ss \in Seq(Seq(AllLines)) /\ tt \in Seq(Seq(AllLines))
  BY <1>1, LinesType
<1>3. Len(ss) = Len(files) /\ Longer(tt, ss) /\ tt[Len(ss) + 1] = << >>
  BY <1>1 DEF Longer
<1> HIDE DEF ss, tt
<1>4. FlattenSeq(tt) = FlattenSeq(ss)
  BY <1>2, <1>3, FlattenMore
<1>. QED  BY <1>4 DEF LinesOf, ss, tt, t

LEMMA UnitsMore ==
  ASSUME NEW files \in Seq(JournalFile), NEW f \in JournalFile, f.units = << >>
  PROVE  /\ UnitsOf(Append(files, f)) = UnitsOf(files)
         /\ \A c, dir : Stream(Append(files, f), c, dir) = Stream(files, c, dir)
<1> DEFINE t == Append(files, f)
           ss == [i \in DOMAIN files |-> files[i].units]
           tt == [i \in DOMAIN t |-> t[i].units]
<1>1. /\ t \in Seq(JournalFile) /\ Len(t) = Len(files) + 1 /\ Len(files) \in Nat
      /\ DOMAIN files = 1..Len(files) /\ DOMAIN t = 1..(Len(files) + 1)
      /\ \A i \in 1..Len(files) : t[i] = files[i]
      /\ t[Len(files) + 1] = f
  BY FileMore
<1> HIDE DEF t
<1>2. ss \in Seq(Seq(AllUnits)) /\ tt \in Seq(Seq(AllUnits))
  BY <1>1, UnitsType
<1>3. Len(ss) = Len(files) /\ Longer(tt, ss) /\ tt[Len(ss) + 1] = << >>
  BY <1>1 DEF Longer
<1> HIDE DEF ss, tt
<1>4. FlattenSeq(tt) = FlattenSeq(ss)
  BY <1>2, <1>3, FlattenMore
<1>5. UnitsOf(t) = UnitsOf(files)
  BY <1>4 DEF UnitsOf, ss, tt
<1>. QED  BY <1>5 DEF Stream, t

(* The newest file replaced. *)
LEMMA FileReplaced ==
  ASSUME NEW S, NEW files \in Seq(S), files # << >>, NEW h \in S
  PROVE  LET n == Len(files)
             g == [files EXCEPT ![n] = h]
         IN  /\ g \in Seq(S) /\ Len(g) = n /\ n \in Nat /\ n \in 1..n /\ n > 0
             /\ DOMAIN g = 1..n /\ DOMAIN files = 1..n /\ files[n] \in S
             /\ g[n] = h
             /\ \A i \in 1..n : i # n => g[i] = files[i]
OBVIOUS

(* A line or a unit more in the newest file. *)
LEMMA LinePushed ==
  ASSUME NEW files \in Seq(EventFile), files # << >>, NEW line \in AllLines
  PROVE  LET g == [files EXCEPT ![Len(files)].lines = Append(@, line)]
             n == Len(files)
         IN  /\ g \in Seq(EventFile) /\ Len(g) = n /\ n \in 1..n /\ n \in Nat
             /\ DOMAIN g = 1..n /\ DOMAIN files = 1..n
             /\ \A i \in 1..n : /\ g[i].run = files[i].run /\ g[i].synced = files[i].synced
                               /\ g[i].cut = files[i].cut
             /\ \A i \in 1..n : i # n => g[i] = files[i]
             /\ g[n].lines = Append(files[n].lines, line)
             /\ LinesOf(g) = Append(LinesOf(files), line)
<1> DEFINE n == Len(files)
           f == files[n]
           h == [f EXCEPT !.lines = Append(@, line)]
           g == [files EXCEPT ![n] = h]
           ss == [i \in DOMAIN files |-> files[i].lines]
           tt == [i \in DOMAIN g |-> g[i].lines]
<1>1. n \in Nat /\ n \in 1..n /\ DOMAIN files = 1..n /\ f \in EventFile
  OBVIOUS
<1>2. h \in EventFile /\ h.run = f.run /\ h.synced = f.synced /\ h.cut = f.cut
      /\ h.lines = Append(f.lines, line)
  <2>1. f.lines \in Seq(AllLines) /\ f \in EventFile
    BY <1>1 DEF EventFile
  <2>2. Append(f.lines, line) \in Seq(AllLines)
    BY <2>1
  <2> HIDE DEF f
  <2>. QED  BY <2>1, <2>2 DEF EventFile
<1>3. [files EXCEPT ![Len(files)].lines = Append(@, line)] = g
  OBVIOUS
<1> HIDE DEF h
<1>4. /\ g \in Seq(EventFile) /\ Len(g) = n /\ DOMAIN g = 1..n /\ g[n] = h
      /\ \A i \in 1..n : i # n => g[i] = files[i]
  BY <1>2, FileReplaced
<1>5. \A i \in 1..(n - 1) : i \in 1..n /\ i # n
  <2> HIDE DEF n
  <2>. QED  BY <1>1
<1> HIDE DEF g
<1>6. ss \in Seq(Seq(AllLines)) /\ tt \in Seq(Seq(AllLines)) /\ Len(ss) = n /\ Len(tt) = n
  <2>1. ss \in Seq(Seq(AllLines)) /\ tt \in Seq(Seq(AllLines))
    BY <1>4, LinesType
  <2>2. DOMAIN ss = 1..n /\ DOMAIN tt = 1..n
    BY <1>1, <1>4
  <2>. QED
    <3> DEFINE R == Seq(AllLines)
    <3> HIDE DEF ss, tt, R, n
    <3>. QED  BY <1>1, <2>1, <2>2
<1>7. SameFront(ss, tt) /\ tt[n] = Append(ss[n], line)
  <2>1. ss # << >>
    BY <1>1
  <2> HIDE DEF n, h, f
  <2>2. \A i \in 1..(n - 1) : tt[i] = ss[i]
    BY <1>1, <1>4, <1>5
  <2>3. tt[n] = h.lines /\ ss[n] = f.lines
    BY <1>1, <1>4 DEF f
  <2> HIDE DEF ss, tt
  <2>. QED  BY <1>2, <1>6, <2>1, <2>2, <2>3 DEF SameFront
<1> HIDE DEF ss, tt
<1>8. FlattenSeq(tt) = Append(FlattenSeq(ss), line)
  <2>1. tt[Len(ss)] = Append(ss[Len(ss)], line)
    BY <1>6, <1>7
  <2>. QED  BY <1>6, <1>7, <2>1, FlattenPush
<1>9. LinesOf(g) = Append(LinesOf(files), line)
  BY <1>8 DEF LinesOf, ss, tt
<1>10. \A i \in 1..n : /\ g[i].run = files[i].run /\ g[i].synced = files[i].synced
                       /\ g[i].cut = files[i].cut
  <2> HIDE DEF n
  <2>. QED  BY <1>2, <1>4
<1>. QED  BY <1>1, <1>2, <1>3, <1>4, <1>9, <1>10

LEMMA UnitPushed ==
  ASSUME NEW files \in Seq(JournalFile), files # << >>, NEW unit \in AllUnits
  PROVE  LET g == [files EXCEPT ![Len(files)].units = Append(@, unit)]
             n == Len(files)
         IN  /\ g \in Seq(JournalFile) /\ Len(g) = n /\ n \in 1..n /\ n \in Nat
             /\ DOMAIN g = 1..n /\ DOMAIN files = 1..n
             /\ \A i \in 1..n : /\ g[i].run = files[i].run /\ g[i].synced = files[i].synced
                               /\ g[i].header = files[i].header
             /\ \A i \in 1..n : i # n => g[i] = files[i]
             /\ g[n].units = Append(files[n].units, unit)
             /\ UnitsOf(g) = Append(UnitsOf(files), unit)
<1> DEFINE n == Len(files)
           f == files[n]
           h == [f EXCEPT !.units = Append(@, unit)]
           g == [files EXCEPT ![n] = h]
           ss == [i \in DOMAIN files |-> files[i].units]
           tt == [i \in DOMAIN g |-> g[i].units]
<1>1. n \in Nat /\ n \in 1..n /\ DOMAIN files = 1..n /\ f \in JournalFile
  OBVIOUS
<1>2. h \in JournalFile /\ h.run = f.run /\ h.synced = f.synced /\ h.header = f.header
      /\ h.units = Append(f.units, unit)
  <2>1. f.units \in Seq(AllUnits) /\ f \in JournalFile
    BY <1>1 DEF JournalFile
  <2>2. Append(f.units, unit) \in Seq(AllUnits)
    BY <2>1
  <2> HIDE DEF f
  <2>. QED  BY <2>1, <2>2 DEF JournalFile
<1>3. [files EXCEPT ![Len(files)].units = Append(@, unit)] = g
  OBVIOUS
<1> HIDE DEF h
<1>4. /\ g \in Seq(JournalFile) /\ Len(g) = n /\ DOMAIN g = 1..n /\ g[n] = h
      /\ \A i \in 1..n : i # n => g[i] = files[i]
  BY <1>2, FileReplaced
<1>5. \A i \in 1..(n - 1) : i \in 1..n /\ i # n
  <2> HIDE DEF n
  <2>. QED  BY <1>1
<1> HIDE DEF g
<1>6. ss \in Seq(Seq(AllUnits)) /\ tt \in Seq(Seq(AllUnits)) /\ Len(ss) = n /\ Len(tt) = n
  <2>1. ss \in Seq(Seq(AllUnits)) /\ tt \in Seq(Seq(AllUnits))
    BY <1>4, UnitsType
  <2>2. DOMAIN ss = 1..n /\ DOMAIN tt = 1..n
    BY <1>1, <1>4
  <2>. QED
    <3> DEFINE R == Seq(AllUnits)
    <3> HIDE DEF ss, tt, R, n
    <3>. QED  BY <1>1, <2>1, <2>2
<1>7. SameFront(ss, tt) /\ tt[n] = Append(ss[n], unit)
  <2>1. ss # << >>
    BY <1>1
  <2> HIDE DEF n, h, f
  <2>2. \A i \in 1..(n - 1) : tt[i] = ss[i]
    BY <1>1, <1>4, <1>5
  <2>3. tt[n] = h.units /\ ss[n] = f.units
    BY <1>1, <1>4 DEF f
  <2> HIDE DEF ss, tt
  <2>. QED  BY <1>2, <1>6, <2>1, <2>2, <2>3 DEF SameFront
<1> HIDE DEF ss, tt
<1>8. FlattenSeq(tt) = Append(FlattenSeq(ss), unit)
  <2>1. tt[Len(ss)] = Append(ss[Len(ss)], unit)
    BY <1>6, <1>7
  <2>. QED  BY <1>6, <1>7, <2>1, FlattenPush
<1>9. UnitsOf(g) = Append(UnitsOf(files), unit)
  BY <1>8 DEF UnitsOf, ss, tt
<1>10. \A i \in 1..n : /\ g[i].run = files[i].run /\ g[i].synced = files[i].synced
                       /\ g[i].header = files[i].header
  <2> HIDE DEF n
  <2>. QED  BY <1>2, <1>4
<1>. QED  BY <1>1, <1>2, <1>3, <1>4, <1>9, <1>10

-----------------------------------------------------------------------------
(* The order of the files of a store is that of the runs. *)
SameFiles(f, g) ==
  /\ DOMAIN g = DOMAIN f /\ Len(g) = Len(f) /\ (g = << >> => f = << >>)
  /\ \A i \in DOMAIN f : g[i].run = f[i].run /\ (f[i].synced => g[i].synced)

LEMMA InTurnStays ==
  ASSUME NEW S, NEW f \in Seq(S), NEW g, SameFiles(f, g), NEW last, NEW before, NEW after,
         InTurn(f, last, before), after => before
  PROVE  InTurn(g, last, after)
<1>1. \A i \in DOMAIN g : g[i].run <= last
  BY DEF InTurn, SameFiles
<1>2. \A i, j \in DOMAIN g : i < j /\ g[i].run = g[j].run => g[i].synced
  BY DEF InTurn, SameFiles
<1>3. after => g # << >> /\ g[Len(g)].run = last
  <2>1. f # << >> => Len(f) \in DOMAIN f
    OBVIOUS
  <2>. QED  BY <2>1 DEF InTurn, SameFiles
<1>. QED  BY <1>1, <1>2, <1>3 DEF InTurn

LEMMA InTurnMore ==
  ASSUME NEW S, NEW f \in Seq(S), NEW g \in Seq(S), Longer(g, f), NEW r \in Nat, NEW last \in Nat, r <= last, NEW before, NEW after,
         InTurn(f, r, before), g[Len(g)].run = last,
         \A i \in DOMAIN f : f[i].run \in Nat /\ (f[i].run = last => f[i].synced)
  PROVE  InTurn(g, last, after)
<1>1. /\ DOMAIN g = 1..(Len(f) + 1) /\ DOMAIN f = 1..Len(f) /\ Len(f) \in Nat
      /\ Len(g) = Len(f) + 1 /\ \A k \in 1..Len(f) : g[k] = f[k]
  BY DEF Longer
<1>2. \A i \in DOMAIN g : i = Len(g) \/ i \in DOMAIN f
  BY <1>1
<1>3. \A i \in DOMAIN f : f[i].run <= r
  BY DEF InTurn
<1>4. \A i \in DOMAIN g : g[i].run <= last
  <2> SUFFICES ASSUME NEW i \in DOMAIN g PROVE g[i].run <= last
    OBVIOUS
  <2>1. CASE i = Len(g)
    BY <2>1
  <2>2. CASE i \in DOMAIN f
    <3>1. g[i].run <= r /\ g[i].run \in Nat
      BY <2>2, <1>1, <1>3
    <3>. QED  BY <3>1
  <2>. QED  BY <2>1, <2>2, <1>2
<1>5. \A i, j \in DOMAIN g : i < j /\ g[i].run = g[j].run => g[i].synced
  <2> SUFFICES ASSUME NEW i \in DOMAIN g, NEW j \in DOMAIN g, i < j, g[i].run = g[j].run
               PROVE  g[i].synced
    OBVIOUS
  <2>1. i \in DOMAIN f /\ g[i] = f[i]
    BY <1>1
  <2>2. CASE j = Len(g)
    BY <2>1, <2>2
  <2>3. CASE j \in DOMAIN f
    <3>1. g[j] = f[j]
      BY <1>1, <2>3
    <3>. QED  BY <2>1, <2>3, <3>1 DEF InTurn
  <2>. QED  BY <2>2, <2>3, <1>2
<1>6. g # << >>
  BY <1>1
<1>. QED  BY <1>4, <1>5, <1>6 DEF InTurn

(* The newest file, changed but with the same contents. *)
LEMMA EventsAlike ==
  ASSUME NEW files \in Seq(EventFile), files # << >>, NEW h \in EventFile,
         h.run = files[Len(files)].run, h.lines = files[Len(files)].lines,
         files[Len(files)].synced => h.synced
  PROVE  LET n == Len(files)
             g == [files EXCEPT ![n] = h]
         IN  /\ g \in Seq(EventFile) /\ Len(g) = n /\ n \in Nat /\ n \in 1..n
             /\ DOMAIN g = 1..n /\ DOMAIN files = 1..n
             /\ g[n] = h /\ \A i \in 1..n : i # n => g[i] = files[i]
             /\ SameFiles(files, g)
             /\ \A i \in 1..n : g[i].lines = files[i].lines
             /\ LinesOf(g) = LinesOf(files)
<1> DEFINE n == Len(files)
           g == [files EXCEPT ![n] = h]
<1>1. /\ g \in Seq(EventFile) /\ Len(g) = n /\ n \in Nat /\ n \in 1..n /\ n > 0
      /\ DOMAIN g = 1..n /\ DOMAIN files = 1..n
      /\ g[n] = h /\ \A i \in 1..n : i # n => g[i] = files[i]
  BY FileReplaced
<1> HIDE DEF g
<1>2. \A i \in 1..n : g[i].lines = files[i].lines /\ g[i].run = files[i].run
                      /\ (files[i].synced => g[i].synced)
  <2> HIDE DEF n
  <2>. QED  BY <1>1 DEF n
<1>3. g # << >>
  <2>1. Len(g) # 0
    <3> HIDE DEF n
    <3>1. Len(g) = n /\ n > 0
      BY <1>1
    <3>. QED  BY <3>1
  <2>. QED  BY <2>1
<1>4. LinesOf(g) = LinesOf(files)
  BY <1>1, <1>2, SameLines
<1>. QED  BY <1>1, <1>2, <1>3, <1>4 DEF g, SameFiles

LEMMA JournalAlike ==
  ASSUME NEW files \in Seq(JournalFile), files # << >>, NEW h \in JournalFile,
         h.run = files[Len(files)].run, h.units = files[Len(files)].units,
         files[Len(files)].synced => h.synced
  PROVE  LET n == Len(files)
             g == [files EXCEPT ![n] = h]
         IN  /\ g \in Seq(JournalFile) /\ Len(g) = n /\ n \in Nat /\ n \in 1..n
             /\ DOMAIN g = 1..n /\ DOMAIN files = 1..n
             /\ g[n] = h /\ \A i \in 1..n : i # n => g[i] = files[i]
             /\ SameFiles(files, g)
             /\ \A i \in 1..n : g[i].units = files[i].units
             /\ UnitsOf(g) = UnitsOf(files)
             /\ \A c, dir : Stream(g, c, dir) = Stream(files, c, dir)
<1> DEFINE n == Len(files)
           g == [files EXCEPT ![n] = h]
<1>1. /\ g \in Seq(JournalFile) /\ Len(g) = n /\ n \in Nat /\ n \in 1..n /\ n > 0
      /\ DOMAIN g = 1..n /\ DOMAIN files = 1..n
      /\ g[n] = h /\ \A i \in 1..n : i # n => g[i] = files[i]
  BY FileReplaced
<1> HIDE DEF g
<1>2. \A i \in 1..n : g[i].units = files[i].units /\ g[i].run = files[i].run
                      /\ (files[i].synced => g[i].synced)
  <2> HIDE DEF n
  <2>. QED  BY <1>1 DEF n
<1>3. g # << >>
  <2>1. Len(g) # 0
    <3> HIDE DEF n
    <3>1. Len(g) = n /\ n > 0
      BY <1>1
    <3>. QED  BY <3>1
  <2>. QED  BY <2>1
<1>4. UnitsOf(g) = UnitsOf(files) /\ \A c, dir : Stream(g, c, dir) = Stream(files, c, dir)
  BY <1>1, <1>2, SameUnits
<1>. QED  BY <1>1, <1>2, <1>3, <1>4 DEF g, SameFiles

LEMMA EventsSynced ==
  ASSUME NEW files \in Seq(EventFile), files # << >>
  PROVE  LET n == Len(files)
             g == SyncNewest(files)
         IN  /\ g \in Seq(EventFile) /\ Len(g) = n /\ n \in Nat /\ n \in 1..n
             /\ DOMAIN g = 1..n /\ DOMAIN files = 1..n
             /\ SameFiles(files, g) /\ g[n].synced
             /\ \A i \in 1..n : g[i].lines = files[i].lines /\ g[i].cut = files[i].cut
             /\ LinesOf(g) = LinesOf(files)
<1> DEFINE n == Len(files)
           f == files[n]
           h == [f EXCEPT !.synced = TRUE]
<1>1. f \in EventFile
  BY FileReplaced
<1>2. h \in EventFile /\ h.run = f.run /\ h.lines = f.lines /\ h.synced /\ h.cut = f.cut
  <2> HIDE DEF f
  <2>. QED  BY <1>1 DEF EventFile
<1>3. SyncNewest(files) = [files EXCEPT ![n] = h]
  BY DEF SyncNewest
<1> DEFINE g == [files EXCEPT ![n] = h]
<1> HIDE DEF h
<1>4. /\ g \in Seq(EventFile) /\ Len(g) = n /\ n \in Nat /\ n \in 1..n
      /\ DOMAIN g = 1..n /\ DOMAIN files = 1..n
      /\ g[n] = h /\ \A i \in 1..n : i # n => g[i] = files[i]
      /\ SameFiles(files, g)
      /\ \A i \in 1..n : g[i].lines = files[i].lines
      /\ LinesOf(g) = LinesOf(files)
  BY <1>2, EventsAlike
<1>5. \A i \in 1..n : g[i].cut = files[i].cut
  <2> HIDE DEF g, n
  <2>. QED  BY <1>2, <1>4 DEF f
<1>. QED  BY <1>2, <1>3, <1>4, <1>5

LEMMA JournalSynced ==
  ASSUME NEW files \in Seq(JournalFile), files # << >>
  PROVE  LET n == Len(files)
             g == SyncNewest(files)
         IN  /\ g \in Seq(JournalFile) /\ Len(g) = n /\ n \in Nat /\ n \in 1..n
             /\ DOMAIN g = 1..n /\ DOMAIN files = 1..n
             /\ SameFiles(files, g) /\ g[n].synced
             /\ \A i \in 1..n : g[i].units = files[i].units /\ g[i].header = files[i].header
             /\ UnitsOf(g) = UnitsOf(files)
             /\ \A c, dir : Stream(g, c, dir) = Stream(files, c, dir)
<1> DEFINE n == Len(files)
           f == files[n]
           h == [f EXCEPT !.synced = TRUE]
<1>1. f \in JournalFile
  BY FileReplaced
<1>2. h \in JournalFile /\ h.run = f.run /\ h.units = f.units /\ h.synced /\ h.header = f.header
  <2> HIDE DEF f
  <2>. QED  BY <1>1 DEF JournalFile
<1>3. SyncNewest(files) = [files EXCEPT ![n] = h]
  BY DEF SyncNewest
<1> DEFINE g == [files EXCEPT ![n] = h]
<1> HIDE DEF h
<1>4. /\ g \in Seq(JournalFile) /\ Len(g) = n /\ n \in Nat /\ n \in 1..n
      /\ DOMAIN g = 1..n /\ DOMAIN files = 1..n
      /\ g[n] = h /\ \A i \in 1..n : i # n => g[i] = files[i]
      /\ SameFiles(files, g)
      /\ \A i \in 1..n : g[i].units = files[i].units
      /\ UnitsOf(g) = UnitsOf(files)
      /\ \A c, dir : Stream(g, c, dir) = Stream(files, c, dir)
  BY <1>2, JournalAlike
<1>5. \A i \in 1..n : g[i].header = files[i].header
  <2> HIDE DEF g, n
  <2>. QED  BY <1>2, <1>4 DEF f
<1>. QED  BY <1>2, <1>3, <1>4, <1>5

-----------------------------------------------------------------------------
(* The units a connection really had. *)
LEMMA TrulyType ==
  ASSUME NEW c \in Conns, NEW dir \in {"in", "out"}, NEW start \in Nat, NEW length \in Nat
  PROVE  /\ Truly(c, dir, start, length) \in Seq(AllUnits)
         /\ Len(Truly(c, dir, start, length)) = length
<1>1. \A i \in 1..length : [conn |-> c, dir |-> dir, at |-> start + i] \in AllUnits
  BY DEF AllUnits
<1>. QED  BY <1>1 DEF Truly

LEMMA TrulyMore ==
  ASSUME NEW c \in Conns, NEW dir \in {"in", "out"}, NEW n \in Nat
  PROVE  LET u == [conn |-> c, dir |-> dir, at |-> n + 1]
         IN  Truly(c, dir, 0, n) \o <<u>> = Truly(c, dir, 0, n + 1)
<1> DEFINE u == [conn |-> c, dir |-> dir, at |-> n + 1]
           s == Truly(c, dir, 0, n)
           t == Truly(c, dir, 0, n + 1)
<1>1. u \in AllUnits
  BY DEF AllUnits
<1>2. /\ s \in Seq(AllUnits) /\ Len(s) = n
      /\ \A i \in 1..n : s[i] = [conn |-> c, dir |-> dir, at |-> i]
  <2>1. s \in Seq(AllUnits) /\ Len(s) = n
    BY TrulyType
  <2>2. \A i \in 1..n : s[i] = [conn |-> c, dir |-> dir, at |-> i]
    BY DEF Truly
  <2>. QED  BY <2>1, <2>2
<1>3. /\ t \in Seq(AllUnits) /\ Len(t) = n + 1
      /\ \A i \in 1..(n + 1) : t[i] = [conn |-> c, dir |-> dir, at |-> i]
  <2>1. n + 1 \in Nat
    OBVIOUS
  <2>2. t \in Seq(AllUnits) /\ Len(t) = n + 1
    BY <2>1, TrulyType
  <2>3. \A i \in 1..(n + 1) : t[i] = [conn |-> c, dir |-> dir, at |-> i]
    BY DEF Truly
  <2>. QED  BY <2>2, <2>3
<1>4. t[n + 1] = u
  BY <1>3
<1> HIDE DEF s, t, u
<1>5. \A i \in 1..n : t[i] = s[i]
  BY <1>2, <1>3
<1>6. /\ s \o <<u>> \in Seq(AllUnits) /\ Len(s \o <<u>>) = n + 1
      /\ \A i \in 1..(n + 1) : (s \o <<u>>)[i] = t[i]
  BY <1>1, <1>2, <1>4, <1>5
<1>7. s \o <<u>> = t
  BY <1>3, <1>6, SeqEqual
<1>. QED  BY <1>7 DEF s, t, u

-----------------------------------------------------------------------------
(* The journal. *)
TheJournal == JournalKept /\ Recorded(journal) /\ Complete
AllBytes == \A c \in Conns, dir \in {"in", "out"} : Bytes(c, dir) \in Nat

(* Nothing is journaled, but perhaps synced or half written.               *)
LEMMA JournalStays ==
  ASSUME TheJournal, journal' \in Seq(JournalFile), SameFiles(journal, journal'),
         \A i \in DOMAIN journal : journal'[i].units = journal[i].units,
         \A i \in DOMAIN journal :
           ~journal'[i].header => ~journal[i].header \/ faults' \cap {"journal", "kill", "power"} # {},
         UNCHANGED <<run, bytesIn, bytesOut, journalOK>>, up' => up, faults \subseteq faults'
  PROVE  TheJournal'
<1>1. InTurn(journal', run', up') /\ DOMAIN journal' = DOMAIN journal
  <2>1. journal \in Seq(JournalFile) /\ InTurn(journal, run, up)
    BY DEF TheJournal, JournalKept
  <2>. QED  BY <2>1, InTurnStays DEF SameFiles
<1>2. \A c, dir : Stream(journal', c, dir) = Stream(journal, c, dir)
  BY <1>1, SameUnits
<1>3. \A i \in DOMAIN journal' :
        /\ \A p \in DOMAIN journal'[i].units : Home[journal'[i].units[p].conn] = journal'[i].run
        /\ ~journal'[i].header => faults' \cap {"journal", "kill", "power"} # {}
  <2> TAKE i \in DOMAIN journal'
  <2>1. i \in DOMAIN journal /\ journal'[i].run = journal[i].run /\ journal'[i].units = journal[i].units
    BY <1>1 DEF SameFiles
  <2>. QED  BY <2>1 DEF TheJournal, JournalKept
<1>4. ~journalOK' => run' = 0 \/ "journal" \in faults'
  BY DEF TheJournal, JournalKept
<1>5. JournalKept'
  BY <1>1, <1>3, <1>4 DEF JournalKept
<1>6. Recorded(journal)'
  BY <1>2 DEF TheJournal, Recorded, Bytes
<1>7. Complete'
  BY <1>2 DEF TheJournal, Complete, Bytes, Working
<1>. QED  BY <1>5, <1>6, <1>7 DEF TheJournal

(* An empty file is begun, after one that has been synced. *)
LEMMA JournalMore ==
  ASSUME TheJournal, NEW files \in Seq(JournalFile), NEW f \in JournalFile,
         journal' = Append(files, f), f.units = << >>,
         DOMAIN files = DOMAIN journal, Len(files) = Len(journal),
         \A i \in DOMAIN journal :
           /\ files[i].run = journal[i].run /\ files[i].units = journal[i].units
           /\ files[i].header = journal[i].header
           /\ files[i].run = run' => files[i].synced,
         InTurn(files, run, up), f.run = run',
         ~f.header => "journal" \in faults',
         run \in Nat, run' \in Nat, run <= run', faults \subseteq faults',
         ~journalOK' => "journal" \in faults',
         \A c \in Conns, dir \in {"in", "out"} :
           Bytes(c, dir) \in Nat /\ Bytes(c, dir)' \in Nat /\ Bytes(c, dir) <= Bytes(c, dir)',
         \A c \in Conns, dir \in {"in", "out"} :
           faults' \cap {"journal", "power"} = {} \/ (Working(c)' /\ journalOK') =>
             Stream(journal, c, dir) = Truly(c, dir, 0, Bytes(c, dir)')
  PROVE  TheJournal'
<1>0. journal \in Seq(JournalFile) /\ InTurn(journal, run, up)
  BY DEF TheJournal, JournalKept
<1>1. /\ journal' \in Seq(JournalFile) /\ Len(journal') = Len(files) + 1 /\ Len(files) \in Nat
      /\ DOMAIN files = 1..Len(files) /\ DOMAIN journal' = 1..(Len(files) + 1)
      /\ \A i \in 1..Len(files) : journal'[i] = files[i]
      /\ journal'[Len(files) + 1] = f
  BY FileMore
<1>2. \A c, dir : Stream(journal', c, dir) = Stream(journal, c, dir)
  <2>1. \A c, dir : Stream(files, c, dir) = Stream(journal, c, dir)
    BY SameUnits
  <2>2. \A c, dir : Stream(journal', c, dir) = Stream(files, c, dir)
    BY UnitsMore
  <2>. QED  BY <2>1, <2>2
<1>3. InTurn(journal', run', up')
  <2>1. \A i \in DOMAIN files : files[i].run \in Nat
    <3>1. \A i \in DOMAIN files : files[i] \in JournalFile
      OBVIOUS
    <3>. QED  BY <3>1 DEF JournalFile
  <2>2. Longer(journal', files)
    BY <1>1 DEF Longer
  <2>. QED  BY <1>1, <2>1, <2>2, InTurnMore
<1>4. \A i \in DOMAIN journal' :
        /\ \A p \in DOMAIN journal'[i].units : Home[journal'[i].units[p].conn] = journal'[i].run
        /\ ~journal'[i].header => faults' \cap {"journal", "kill", "power"} # {}
  <2> TAKE i \in DOMAIN journal'
  <2>1. CASE i \in 1..Len(files)
    <3>1. i \in DOMAIN journal /\ journal'[i] = files[i]
      BY <1>1, <2>1
    <3>. QED  BY <3>1 DEF TheJournal, JournalKept
  <2>2. CASE i = Len(files) + 1
    BY <1>1, <2>2
  <2>. QED  BY <1>1, <2>1, <2>2
<1>5. JournalKept'
  BY <1>1, <1>3, <1>4 DEF JournalKept
<1>6. Recorded(journal)'
  <2> SUFFICES ASSUME NEW c \in Conns, NEW dir \in {"in", "out"}
               PROVE  \E n \in 0..Bytes(c, dir)' : Stream(journal', c, dir) = Truly(c, dir, 0, n)
    BY DEF Recorded
  <2>1. PICK n \in 0..Bytes(c, dir) : Stream(journal, c, dir) = Truly(c, dir, 0, n)
    BY DEF TheJournal, Recorded
  <2>2. n \in 0..Bytes(c, dir)'
    <3>1. Bytes(c, dir) \in Nat /\ Bytes(c, dir)' \in Nat /\ Bytes(c, dir) <= Bytes(c, dir)'
      OBVIOUS
    <3>. QED  BY <3>1
  <2>. QED  BY <1>2, <2>1, <2>2
<1>7. Complete'
  BY <1>2 DEF Complete
<1>. QED  BY <1>5, <1>6, <1>7 DEF TheJournal

(* bwj.WriteData has taken a unit. *)
LEMMA JournalTaken ==
  ASSUME TheJournal, NEW c \in Conns, NEW dir \in {"in", "out"}, run \in Nat, up,
         Home[c] = run, AllBytes,
         JournalTakes([conn |-> c, dir |-> dir, at |-> Bytes(c, dir) + 1]),
         UNCHANGED <<run, up>>,
         \A d \in Conns, e \in {"in", "out"} :
           Bytes(d, e)' = Bytes(d, e) + IF d = c /\ e = dir THEN 1 ELSE 0
  PROVE  TheJournal'
<1> DEFINE unit == [conn |-> c, dir |-> dir, at |-> Bytes(c, dir) + 1]
           n == Len(journal)
<1>1. journal \in Seq(JournalFile) /\ InTurn(journal, run, up) /\ journal # << >>
  BY DEF TheJournal, JournalKept, InTurn
<1>2. unit \in AllUnits
  <2>1. Bytes(c, dir) \in Nat
    BY DEF AllBytes
  <2>. QED  BY <2>1 DEF AllUnits
<1> HIDE DEF unit
<1>3. /\ journal' \in Seq(JournalFile) /\ Len(journal') = n /\ n \in 1..n /\ n \in Nat
      /\ DOMAIN journal' = 1..n /\ DOMAIN journal = 1..n
      /\ \A i \in 1..n : /\ journal'[i].run = journal[i].run
                         /\ journal'[i].synced = journal[i].synced
                         /\ journal'[i].header = journal[i].header
      /\ \A i \in 1..n : i # n => journal'[i] = journal[i]
      /\ journal'[n].units = Append(journal[n].units, unit)
      /\ UnitsOf(journal') = Append(UnitsOf(journal), unit)
  <2>1. journal' = [journal EXCEPT ![Len(journal)].units = Append(@, unit)]
    BY DEF JournalTakes, unit
  <2>. QED  BY <1>1, <1>2, <2>1, UnitPushed
<1>4. InTurn(journal', run', up')
  <2>1. journal' # << >>
    <3> HIDE DEF n
    <3>1. Len(journal') # 0
      BY <1>3
    <3>. QED  BY <3>1
  <2>2. SameFiles(journal, journal')
    BY <1>3, <2>1 DEF SameFiles
  <2>3. InTurn(journal', run, up)
    BY <1>1, <2>2, InTurnStays
  <2>. QED  BY <2>3
<1>5. \A i \in DOMAIN journal' :
        /\ \A p \in DOMAIN journal'[i].units : Home[journal'[i].units[p].conn] = journal'[i].run
        /\ ~journal'[i].header => faults' \cap {"journal", "kill", "power"} # {}
  <2> HIDE DEF n
  <2> TAKE i \in DOMAIN journal'
  <2>1. i \in 1..n /\ i \in DOMAIN journal
    BY <1>3
  <2>2. ~journal'[i].header => faults' \cap {"journal", "kill", "power"} # {}
    BY <1>3, <2>1 DEF TheJournal, JournalKept, JournalTakes
  <2>3. CASE i # n
    BY <1>3, <2>1, <2>2, <2>3 DEF TheJournal, JournalKept
  <2>4. CASE i = n
    <3> DEFINE us == journal[n].units
    <3>1. us \in Seq(AllUnits) /\ journal[n].run = run
      <4>1. journal[n] \in JournalFile
        BY <1>1, <1>3
      <4>. QED  BY <1>1, <1>3, <4>1 DEF InTurn, JournalFile, n
    <3>2. \A p \in DOMAIN us : Home[us[p].conn] = run
      BY <1>3, <3>1 DEF TheJournal, JournalKept
    <3>3. unit.conn = c
      BY DEF unit
    <3> HIDE DEF us
    <3>4. \A p \in DOMAIN Append(us, unit) : Home[Append(us, unit)[p].conn] = run
      BY <1>2, <3>1, <3>2, <3>3
    <3>5. journal'[i].units = Append(us, unit) /\ journal'[i].run = run
      BY <1>3, <2>4, <3>1 DEF us
    <3>. QED  BY <2>2, <3>4, <3>5
  <2>. QED  BY <2>3, <2>4
<1>6. JournalKept'
  <2>1. ~journalOK' => run' = 0 \/ "journal" \in faults'
    BY DEF TheJournal, JournalKept, JournalTakes
  <2>. QED  BY <1>3, <1>4, <1>5, <2>1 DEF JournalKept
<1>7. ASSUME NEW d \in Conns, NEW e \in {"in", "out"}
      PROVE  Stream(journal', d, e) =
               Stream(journal, d, e) \o IF d = c /\ e = dir THEN <<unit>> ELSE << >>
  <2>1. /\ UnitsOf(journal) \in Seq(AllUnits)
        /\ Stream(journal, d, e) = Kept(UnitsOf(journal), UnitsFor(d, e))
        /\ Stream(journal', d, e) = Kept(UnitsOf(journal'), UnitsFor(d, e))
    BY <1>1, <1>3, UnitsType
  <2>2. Stream(journal', d, e) = Stream(journal, d, e) \o Single(unit, UnitsFor(d, e))
    <3> DEFINE all == UnitsOf(journal)
               T == UnitsFor(d, e)
    <3>1. UnitsOf(journal') = Append(all, unit)
      BY <1>3
    <3> HIDE DEF all, T, n
    <3>2. Kept(Append(all, unit), T) = Kept(all, T) \o Single(unit, T)
      <4>1. all \in Seq(AllUnits)
        BY <2>1 DEF all
      <4>. QED  BY <1>2, <4>1, KeptAppend
    <3>. QED  BY <2>1, <3>1, <3>2 DEF all, T
  <2>3. Single(unit, UnitsFor(d, e)) = IF d = c /\ e = dir THEN <<unit>> ELSE << >>
    <3>1. unit \in UnitsFor(d, e) <=> d = c /\ e = dir
      <4>1. unit.conn = c /\ unit.dir = dir
        BY DEF unit
      <4>. QED  BY <1>2, <4>1 DEF UnitsFor
    <3>. QED  BY <3>1 DEF Single
  <2>. QED  BY <2>2, <2>3
<1>8. ASSUME NEW d \in Conns, NEW e \in {"in", "out"}, NEW m \in Nat,
             Stream(journal, d, e) = Truly(d, e, 0, m),
             d = c /\ e = dir => m = Bytes(c, dir)
      PROVE  Stream(journal', d, e) = Truly(d, e, 0, m + IF d = c /\ e = dir THEN 1 ELSE 0)
  <2>1. CASE d = c /\ e = dir
    <3>1. unit = [conn |-> c, dir |-> dir, at |-> m + 1]
      BY <1>8, <2>1 DEF unit
    <3>2. Truly(c, dir, 0, m) \o <<unit>> = Truly(c, dir, 0, m + 1)
      BY <3>1, TrulyMore
    <3>. QED  BY <1>7, <1>8, <2>1, <3>2
  <2>2. CASE ~(d = c /\ e = dir)
    <3>1. Truly(d, e, 0, m) \in Seq(AllUnits)
      BY TrulyType
    <3>2. Truly(d, e, 0, m) \o << >> = Truly(d, e, 0, m)
      BY <3>1
    <3>3. Stream(journal', d, e) = Truly(d, e, 0, m)
      BY <1>7, <1>8, <2>2, <3>2
    <3>4. m + (IF d = c /\ e = dir THEN 1 ELSE 0) = m
      BY <2>2
    <3>. QED  BY <3>3, <3>4
  <2>. QED  BY <2>1, <2>2
<1>9. Stream(journal, c, dir) = Truly(c, dir, 0, Bytes(c, dir))
  BY DEF TheJournal, Complete, Working, JournalTakes
<1>10. Recorded(journal)'
  <2> SUFFICES ASSUME NEW d \in Conns, NEW e \in {"in", "out"}
               PROVE  \E m \in 0..Bytes(d, e)' : Stream(journal', d, e) = Truly(d, e, 0, m)
    BY DEF Recorded
  <2>1. Bytes(d, e) \in Nat /\ Bytes(d, e)' = Bytes(d, e) + IF d = c /\ e = dir THEN 1 ELSE 0
    BY DEF AllBytes
  <2>2. CASE d = c /\ e = dir
    <3>1. Stream(journal', d, e) = Truly(d, e, 0, Bytes(d, e) + IF d = c /\ e = dir THEN 1 ELSE 0)
      BY <1>8, <1>9, <2>1, <2>2
    <3>2. Bytes(d, e)' \in 0..Bytes(d, e)'
      BY <2>1
    <3>. QED  BY <2>1, <3>1, <3>2
  <2>3. CASE ~(d = c /\ e = dir)
    <3>1. PICK m \in 0..Bytes(d, e) : Stream(journal, d, e) = Truly(d, e, 0, m)
      BY DEF TheJournal, Recorded
    <3>2. m \in Nat /\ m \in 0..Bytes(d, e)' /\ m + (IF d = c /\ e = dir THEN 1 ELSE 0) = m
      BY <2>1, <2>3
    <3>3. Stream(journal', d, e) = Truly(d, e, 0, m + IF d = c /\ e = dir THEN 1 ELSE 0)
      BY <1>8, <2>3, <3>1, <3>2
    <3>. QED  BY <3>2, <3>3
  <2>. QED  BY <2>2, <2>3
<1>11. Complete'
  <2> SUFFICES ASSUME NEW d \in Conns, NEW e \in {"in", "out"},
                      faults' \cap {"journal", "power"} = {} \/ (Working(d)' /\ journalOK')
               PROVE  Stream(journal', d, e) = Truly(d, e, 0, Bytes(d, e)')
    BY DEF Complete
  <2>1. Bytes(d, e) \in Nat /\ Bytes(d, e)' = Bytes(d, e) + IF d = c /\ e = dir THEN 1 ELSE 0
    BY DEF AllBytes
  <2>2. faults \cap {"journal", "power"} = {} \/ (Working(d) /\ journalOK)
    BY DEF JournalTakes, Working
  <2>3. Stream(journal, d, e) = Truly(d, e, 0, Bytes(d, e))
    BY <2>2 DEF TheJournal, Complete
  <2>. QED  BY <1>8, <2>1, <2>3
<1>. QED  BY <1>6, <1>10, <1>11 DEF TheJournal

(* The file after the newest. *)
LEMMA JournalNext ==
  ASSUME TheJournal, run \in Nat, up, UNCHANGED run, NEW f \in JournalFile,
         f.units = << >>, f.run = run', ~f.header => "journal" \in faults',
         journal' = Append(SyncNewest(journal), f),
         faults \subseteq faults', ~journalOK' => "journal" \in faults',
         \A c \in Conns, dir \in {"in", "out"} :
           Bytes(c, dir) \in Nat /\ Bytes(c, dir)' \in Nat /\ Bytes(c, dir) <= Bytes(c, dir)',
         \A c \in Conns, dir \in {"in", "out"} :
           faults' \cap {"journal", "power"} = {} \/ (Working(c)' /\ journalOK') =>
             Stream(journal, c, dir) = Truly(c, dir, 0, Bytes(c, dir)')
  PROVE  TheJournal'
<1>1. /\ journal \in Seq(JournalFile) /\ InTurn(journal, run, up) /\ journal # << >>
      /\ Len(journal) \in DOMAIN journal
  <2>1. journal \in Seq(JournalFile) /\ InTurn(journal, run, up) /\ journal # << >>
    BY DEF TheJournal, JournalKept, InTurn
  <2>2. Len(journal) \in DOMAIN journal
    BY <2>1
  <2>. QED  BY <2>1, <2>2
<1> DEFINE files == SyncNewest(journal)
<1>2. /\ files \in Seq(JournalFile) /\ Len(files) = Len(journal)
      /\ DOMAIN files = DOMAIN journal /\ SameFiles(journal, files)
      /\ files[Len(journal)].synced
      /\ \A i \in DOMAIN journal : /\ files[i].units = journal[i].units
                                   /\ files[i].header = journal[i].header
  BY <1>1, JournalSynced
<1> HIDE DEF files
<1>3. InTurn(files, run, up)
  BY <1>1, <1>2, InTurnStays
<1>4. \A i \in DOMAIN journal : files[i].run = journal[i].run /\ (files[i].run = run' => files[i].synced)
  <2> SUFFICES ASSUME NEW i \in DOMAIN journal
               PROVE  files[i].run = journal[i].run /\ (files[i].run = run => files[i].synced)
    OBVIOUS
  <2>1. files[i].run = journal[i].run
    BY <1>2 DEF SameFiles
  <2>2. CASE i = Len(journal)
    BY <1>2, <2>1, <2>2
  <2>3. CASE i # Len(journal)
    <3>1. i < Len(journal)
      BY <1>1, <2>3
    <3>2. files[i].run = run => files[i].run = files[Len(journal)].run
      BY <1>1, <1>2 DEF InTurn, SameFiles
    <3>. QED  BY <1>1, <1>2, <1>3, <2>1, <3>1, <3>2 DEF InTurn
  <2>. QED  BY <2>2, <2>3
<1>5. journal' = Append(files, f)
  BY DEF files
<1>6. run \in Nat /\ run' \in Nat /\ run <= run'
  OBVIOUS
<1>. QED  BY <1>2, <1>3, <1>4, <1>5, <1>6, JournalMore

(* It has not, and will take nothing more; a response goes on being counted. *)
LEMMA JournalRefused ==
  ASSUME TheJournal, run \in Nat, up, AllBytes, JournalRefuses, UNCHANGED <<run, up>>,
         \A d \in Conns, e \in {"in", "out"} :
           Bytes(d, e)' \in Nat /\ Bytes(d, e) <= Bytes(d, e)'
  PROVE  TheJournal'
<1>1. /\ journal \in Seq(JournalFile) /\ InTurn(journal, run, up) /\ journal # << >>
      /\ Len(journal) \in DOMAIN journal
  <2>1. journal \in Seq(JournalFile) /\ InTurn(journal, run, up) /\ journal # << >>
    BY DEF TheJournal, JournalKept, InTurn
  <2>2. Len(journal) \in DOMAIN journal
    BY <2>1
  <2>. QED  BY <2>1, <2>2
<1>2. "journal" \in faults' /\ faults \subseteq faults' /\ ~journalOK'
  BY DEF JournalRefuses, Fault
<1>3. CASE UNCHANGED journal
  <2>1. JournalKept'
    <3>1. InTurn(journal', run', up')
      BY <1>1, <1>3
    <3>. QED  BY <1>1, <1>2, <1>3, <3>1 DEF TheJournal, JournalKept
  <2>2. Complete'
    BY <1>2 DEF Complete
  <2>3. Recorded(journal)'
    <3> SUFFICES ASSUME NEW d \in Conns, NEW e \in {"in", "out"}
                 PROVE  \E m \in 0..Bytes(d, e)' : Stream(journal', d, e) = Truly(d, e, 0, m)
      BY DEF Recorded
    <3>1. PICK m \in 0..Bytes(d, e) : Stream(journal, d, e) = Truly(d, e, 0, m)
      BY DEF TheJournal, Recorded
    <3>2. m \in 0..Bytes(d, e)'
      <4>1. Bytes(d, e) \in Nat /\ Bytes(d, e)' \in Nat /\ Bytes(d, e) <= Bytes(d, e)'
        BY DEF AllBytes
      <4>. QED  BY <4>1
    <3>. QED  BY <1>3, <3>1, <3>2
  <2>. QED  BY <2>1, <2>2, <2>3 DEF TheJournal
<1>4. CASE journal' = Append(SyncNewest(journal), [NewJournal(run) EXCEPT !.header = FALSE])
  <2> DEFINE f == [NewJournal(run) EXCEPT !.header = FALSE]
  <2>1. f \in JournalFile /\ f.units = << >> /\ f.run = run'
    <3>1. << >> \in Seq(AllUnits)
      OBVIOUS
    <3>. QED  BY <3>1 DEF NewJournal, JournalFile
  <2> HIDE DEF f
  <2>2. journal' = Append(SyncNewest(journal), f)
    BY <1>4 DEF f
  <2>3. \A d \in Conns, e \in {"in", "out"} :
          Bytes(d, e) \in Nat /\ Bytes(d, e)' \in Nat /\ Bytes(d, e) <= Bytes(d, e)'
    BY DEF AllBytes
  <2>. QED  BY <1>2, <2>1, <2>2, <2>3, JournalNext
<1>. QED  BY <1>3, <1>4 DEF JournalRefuses

(* A power loss takes the ends of files, but of one run only of the newest. *)
LEMMA JournalLost ==
  ASSUME TheJournal, AllBytes, journal' \in AfterLoss(journal, "journal"), ~up', run' = run,
         UNCHANGED <<bytesIn, bytesOut, journalOK>>, faults \subseteq faults', "power" \in faults'
  PROVE  TheJournal'
<1>1. journal \in Seq(JournalFile) /\ InTurn(journal, run, up)
  BY DEF TheJournal, JournalKept
<1> DEFINE n == Len(journal)
<1>2. n \in Nat /\ DOMAIN journal = 1..n /\ \A i \in 1..n : journal[i] \in JournalFile
  BY <1>1
<1>3. DOMAIN journal' = 1..n /\ \A i \in 1..n : journal'[i] \in LeftOf(journal[i], "journal")
  BY <1>2 DEF AfterLoss
<1>4. ASSUME NEW i \in 1..n
      PROVE  /\ journal'[i] \in JournalFile
             /\ journal'[i].run = journal[i].run
             /\ journal'[i].synced
             /\ journal[i].synced => journal'[i] = journal[i]
             /\ \E m \in 0..Len(journal[i].units) : journal'[i].units = SubSeq(journal[i].units, 1, m)
  <2> DEFINE f == journal[i]
             g == journal'[i]
             us == f.units
  <2>1. f \in JournalFile /\ us \in Seq(AllUnits) /\ g \in LeftOf(f, "journal")
    BY <1>2, <1>3 DEF JournalFile
  <2>2. us = SubSeq(us, 1, Len(us)) /\ Len(us) \in 0..Len(us) /\ << >> = SubSeq(us, 1, 0) /\ 0 \in 0..Len(us)
    <3> HIDE DEF us
    <3>. QED  BY <2>1
  <2> HIDE DEF f, g
  <2>3. CASE f.synced
    <3>1. g = f
      BY <2>1, <2>3 DEF LeftOf
    <3>. QED  BY <2>1, <2>2, <2>3, <3>1 DEF f, g
  <2>4. CASE ~f.synced
    <3>1. \/ \E m \in 0..Len(f.units) : g = UnitsLeft(f, m)
          \/ g = NoHeaderLeft(f)
      BY <2>1, <2>4 DEF LeftOf
    <3>2. CASE \E m \in 0..Len(f.units) : g = UnitsLeft(f, m)
      <4>1. PICK m \in 0..Len(us) : g = UnitsLeft(f, m)
        BY <3>2
      <4>2. SubSeq(us, 1, m) \in Seq(AllUnits)
        <5> HIDE DEF us
        <5>. QED  BY <2>1
      <4>3. g \in JournalFile /\ g.run = f.run /\ g.synced /\ g.units = SubSeq(us, 1, m)
        BY <2>1, <4>1, <4>2 DEF JournalFile, UnitsLeft
      <4>. QED  BY <2>4, <4>3 DEF f, g
    <3>3. CASE g = NoHeaderLeft(f)
      <4>1. << >> \in Seq(AllUnits)
        OBVIOUS
      <4>2. g \in JournalFile /\ g.run = f.run /\ g.synced /\ g.units = << >>
        BY <2>1, <3>3, <4>1 DEF JournalFile, NoHeaderLeft
      <4>. QED  BY <2>2, <2>4, <4>2 DEF f, g
    <3>. QED  BY <3>1, <3>2, <3>3
  <2>. QED  BY <2>3, <2>4
<1>5. journal' \in Seq(JournalFile) /\ Len(journal') = n
  <2> HIDE DEF n
  <2>1. journal' \in [1..n -> JournalFile]
    <3>1. journal' = [i \in 1..n |-> journal'[i]]
      BY <1>2, <1>3 DEF AfterLoss
    <3>. QED  BY <1>4, <3>1
  <2>2. journal' \in Seq(JournalFile)
    BY <1>2, <2>1, SeqDef
  <2>. QED  BY <1>2, <1>3, <2>2
<1>6. JournalKept'
  <2>1. InTurn(journal', run', up')
    <3>1. SameFiles(journal, journal')
      <4>1. journal' = << >> => journal = << >>
        <5>1. journal' = << >> => Len(journal) = 0
          BY <1>5
        <5>. QED  BY <1>1, <5>1
      <4>. QED  BY <1>2, <1>3, <1>4, <1>5, <4>1 DEF SameFiles
    <3>. QED  BY <1>1, <3>1, InTurnStays
  <2>2. \A i \in DOMAIN journal' :
          /\ \A p \in DOMAIN journal'[i].units : Home[journal'[i].units[p].conn] = journal'[i].run
          /\ ~journal'[i].header => faults' \cap {"journal", "kill", "power"} # {}
    <3> TAKE i \in DOMAIN journal'
    <3>1. i \in 1..n /\ i \in DOMAIN journal
      BY <1>2, <1>3
    <3> DEFINE us == journal[i].units
    <3>2. PICK m \in 0..Len(us) : journal'[i].units = SubSeq(us, 1, m)
      BY <1>4, <3>1
    <3>3. us \in Seq(AllUnits) /\ \A p \in DOMAIN us : Home[us[p].conn] = journal[i].run
      BY <1>2, <3>1 DEF JournalFile, TheJournal, JournalKept
    <3> HIDE DEF us
    <3>4. \A p \in DOMAIN SubSeq(us, 1, m) : p \in DOMAIN us /\ SubSeq(us, 1, m)[p] = us[p]
      BY <3>3
    <3>. QED  BY <1>4, <3>1, <3>2, <3>3, <3>4
  <2>3. ~journalOK' => run' = 0 \/ "journal" \in faults'
    BY DEF TheJournal, JournalKept
  <2>. QED  BY <1>5, <2>1, <2>2, <2>3 DEF JournalKept
<1>7. Recorded(journal)'
  <2> SUFFICES ASSUME NEW c \in Conns, NEW dir \in {"in", "out"}
               PROVE  \E m \in 0..Bytes(c, dir) : Stream(journal', c, dir) = Truly(c, dir, 0, m)
    BY DEF Recorded, Bytes
  <2> DEFINE T == UnitsFor(c, dir)
             us == [i \in DOMAIN journal |-> journal[i].units]
             vs == [i \in DOMAIN journal' |-> journal'[i].units]
  <2>1. /\ us \in Seq(Seq(AllUnits)) /\ UnitsOf(journal) = FlattenSeq(us)
        /\ UnitsOf(journal) \in Seq(AllUnits)
        /\ Stream(journal, c, dir) = Kept(FlattenSeq(us), T)
    BY <1>1, UnitsType DEF UnitsOf
  <2>2. /\ vs \in Seq(Seq(AllUnits)) /\ UnitsOf(journal') = FlattenSeq(vs)
        /\ UnitsOf(journal') \in Seq(AllUnits)
        /\ Stream(journal', c, dir) = Kept(FlattenSeq(vs), T)
    BY <1>5, UnitsType DEF UnitsOf
  <2>3. /\ DOMAIN us = 1..n /\ DOMAIN vs = 1..n
        /\ \A i \in 1..n : us[i] = journal[i].units /\ vs[i] = journal'[i].units
    BY <1>2, <1>3
  <2> HIDE DEF us, vs
  <2>4. Len(us) = n /\ Len(vs) = n
    <3> DEFINE R == Seq(AllUnits)
    <3> HIDE DEF R, n
    <3>1. us \in Seq(R) /\ vs \in Seq(R)
      BY <2>1, <2>2 DEF R
    <3>. QED  BY <1>2, <2>3, <3>1
  <2>5. ASSUME NEW i \in 1..n, Has(us[i], T)
        PROVE  journal[i].run = Home[c]
    <3>1. PICK p \in DOMAIN us[i] : us[i][p] \in T
      BY <2>5 DEF Has
    <3>2. us[i][p].conn = c
      BY <3>1 DEF UnitsFor
    <3>. QED  BY <1>2, <2>3, <3>1, <3>2 DEF TheJournal, JournalKept
  <2>6. \A i, j \in 1..n : i < j /\ vs[i] # us[i] => ~(Has(us[i], T) /\ Has(us[j], T))
    <3> SUFFICES ASSUME NEW i \in 1..n, NEW j \in 1..n, i < j, vs[i] # us[i],
                        Has(us[i], T), Has(us[j], T)
                 PROVE  FALSE
      OBVIOUS
    <3>1. journal[i].run = journal[j].run
      BY <2>5
    <3>2. journal[i].synced
      BY <1>1, <1>2, <3>1 DEF InTurn
    <3>. QED  BY <1>4, <2>3, <3>2
  <2>7. Lost(us, vs, T)
    BY <1>4, <2>3, <2>4, <2>6 DEF Lost
  <2>8. Begins(Stream(journal', c, dir), Stream(journal, c, dir))
    <3>1. Begins(Kept(FlattenSeq(vs), T), Kept(FlattenSeq(us), T))
      BY <2>1, <2>2, <2>7, KeptLost
    <3>. QED  BY <2>1, <2>2, <3>1
  <2>9. PICK k \in 0..Bytes(c, dir) : Stream(journal, c, dir) = Truly(c, dir, 0, k)
    BY DEF TheJournal, Recorded
  <2>10. Stream(journal', c, dir) \in Seq(AllUnits)
    BY <2>2, KeptType
  <2> DEFINE s == Stream(journal', c, dir)
             m == Len(s)
  <2> HIDE DEF n, s
  <2>11. Bytes(c, dir) \in Nat /\ k \in Nat /\ k <= Bytes(c, dir)
    BY DEF AllBytes
  <2>12. Len(Truly(c, dir, 0, k)) = k /\ \A p \in 1..k : Truly(c, dir, 0, k)[p] = [conn |-> c, dir |-> dir, at |-> 0 + p]
    <3>1. Len(Truly(c, dir, 0, k)) = k
      BY <2>11, TrulyType
    <3>. QED  BY <3>1 DEF Truly
  <2>13. m \in 0..Bytes(c, dir) /\ m \in Nat /\ m <= k
    BY <2>8, <2>9, <2>10, <2>11, <2>12 DEF Begins, s
  <2>14. \A p \in 1..m : s[p] = [conn |-> c, dir |-> dir, at |-> 0 + p]
    <3>1. \A p \in 1..m : p \in 1..k /\ s[p] = Truly(c, dir, 0, k)[p]
      BY <2>8, <2>9, <2>11, <2>13 DEF Begins, s
    <3>. QED  BY <2>12, <3>1
  <2>15. s = Truly(c, dir, 0, m)
    <3> DEFINE t == Truly(c, dir, 0, m)
    <3>1. t \in Seq(AllUnits) /\ Len(t) = m
      BY <2>13, TrulyType
    <3>2. \A p \in 1..m : t[p] = [conn |-> c, dir |-> dir, at |-> 0 + p]
      BY DEF Truly
    <3> HIDE DEF t
    <3>3. s \in Seq(AllUnits) /\ \A p \in 1..m : s[p] = t[p]
      BY <2>10, <2>14, <3>2 DEF s
    <3>. QED  BY <3>1, <3>3, SeqEqual DEF t
  <2>. QED  BY <2>13, <2>15 DEF s
<1>8. Complete'
  BY DEF Complete, Working
<1>. QED  BY <1>6, <1>7, <1>8 DEF TheJournal

LEMMA JournalStarted ==
  ASSUME TheJournal, AllBytes, run \in Nat, run' = run + 1,
         UNCHANGED <<bytesIn, bytesOut, faults>>, journalOK',
         journal' = Append(journal, NewJournal(run')),
         \A c \in Conns, dir \in {"in", "out"} : Home[c] > run => Bytes(c, dir) = 0
  PROVE  TheJournal'
<1> DEFINE f == NewJournal(run')
<1>1. f \in JournalFile /\ f.units = << >> /\ f.run = run' /\ f.header
  <2>1. << >> \in Seq(AllUnits)
    OBVIOUS
  <2>. QED  BY <2>1 DEF NewJournal, JournalFile
<1> HIDE DEF f
<1>2. journal \in Seq(JournalFile) /\ InTurn(journal, run, up)
  BY DEF TheJournal, JournalKept
<1>3. \A i \in DOMAIN journal : journal[i].run # run'
  <2> TAKE i \in DOMAIN journal
  <2>0. journal[i] \in JournalFile
    BY <1>2
  <2>1. journal[i].run <= run /\ journal[i].run \in Nat
    BY <1>2, <2>0 DEF InTurn, JournalFile
  <2>. QED  BY <2>1
<1>4. \A c \in Conns, dir \in {"in", "out"} :
        Bytes(c, dir) \in Nat /\ Bytes(c, dir)' = Bytes(c, dir) /\ Bytes(c, dir) <= Bytes(c, dir)'
  BY DEF AllBytes, Bytes
<1>5. ASSUME NEW c \in Conns, NEW dir \in {"in", "out"},
             faults' \cap {"journal", "power"} = {} \/ (Working(c)' /\ journalOK')
      PROVE  Stream(journal, c, dir) = Truly(c, dir, 0, Bytes(c, dir)')
  <2>1. CASE faults \cap {"journal", "power"} = {}
    BY <1>4, <2>1 DEF TheJournal, Complete
  <2>2. CASE Home[c] = run'
    <3>1. Bytes(c, dir) = 0
      BY <2>2
    <3>2. PICK n \in 0..Bytes(c, dir) : Stream(journal, c, dir) = Truly(c, dir, 0, n)
      BY DEF TheJournal, Recorded
    <3>3. n = Bytes(c, dir)
      BY <3>1
    <3>. QED  BY <1>4, <3>2, <3>3
  <2>. QED  BY <1>5, <2>1, <2>2 DEF Working
<1>6. run' \in Nat /\ run <= run'
  OBVIOUS
<1>7. journal' = Append(journal, f)
  BY DEF f
<1>8. \A i \in DOMAIN journal :
           /\ journal[i].run = journal[i].run /\ journal[i].units = journal[i].units
           /\ journal[i].header = journal[i].header
           /\ journal[i].run = run' => journal[i].synced
  BY <1>3
<1>9. \A c \in Conns, dir \in {"in", "out"} :
           Bytes(c, dir) \in Nat /\ Bytes(c, dir)' \in Nat /\ Bytes(c, dir) <= Bytes(c, dir)'
  BY <1>4
<1>10. f \in JournalFile /\ f.units = << >> /\ f.run = run' /\ (~f.header => "journal" \in faults')
       /\ DOMAIN journal = DOMAIN journal /\ Len(journal) = Len(journal)
       /\ (~journalOK' => "journal" \in faults') /\ faults \subseteq faults'
  BY <1>1
<1>. QED  BY <1>2, <1>5, <1>6, <1>7, <1>8, <1>9, <1>10, JournalMore

-----------------------------------------------------------------------------
(* The event log. *)
TheEvents(told) == EventsKept /\ Logged(events, told) /\ Healthy(told)
AllTold(told) == \A c \in Conns : told[c] \in Seq(AllLines)
(* More may have been told than the log has, once it has failed. *)
ToldMore(told, more, c) == more[c] \in Seq(AllLines) /\ Begins(told[c], more[c])

(* Nothing is known closed that was not, or whose close is in the files.   *)
StillKnown(files) ==
  \A c \in Conns : "power" \notin faults' /\ KnownClosed(c)' =>
    KnownClosed(c) \/ HasClose(LogOf(files, c))

LEMMA KnownStays ==
  ASSUME UNCHANGED db, reader'.first = reader.first, reader'.files = reader.files
  PROVE  \A files : StillKnown(files)
BY DEF StillKnown, KnownClosed

LEMMA LogType ==
  ASSUME NEW files, LinesOf(files) \in Seq(AllLines), NEW c \in Conns
  PROVE  LogOf(files, c) \in Seq(AllLines)
BY KeptType DEF LogOf

LEMMA LogSame ==
  ASSUME NEW f, NEW g, LinesOf(f) = LinesOf(g)
  PROVE  \A c \in Conns : LogOf(f, c) = LogOf(g, c)
BY DEF LogOf

(* The lines stay, whatever becomes of the files. *)
LEMMA LoggedStays ==
  ASSUME NEW told, AllTold(told), NEW more, NEW files, NEW g,
         Logged(files, told), LinesOf(g) = LinesOf(files),
         StillKnown(files), faults \subseteq faults',
         \A c \in Conns : ToldMore(told, more, c)
  PROVE  /\ LinesOf(g) \in Seq(AllLines)
         /\ \A c \in Conns :
              /\ Begins(LogOf(g, c), more[c])
              /\ "power" \notin faults' /\ KnownClosed(c)' =>
                   HasClose(LogOf(g, c))
<1>1. \A c \in Conns : LogOf(g, c) = LogOf(files, c)
  BY LogSame
<1>2. \A c \in Conns : Begins(LogOf(files, c), more[c])
  <2> TAKE c \in Conns
  <2> DEFINE l == LogOf(files, c)
  <2>1. l \in Seq(AllLines) /\ told[c] \in Seq(AllLines) /\ more[c] \in Seq(AllLines)
    BY LogType DEF Logged, AllTold, ToldMore
  <2>2. Begins(l, told[c]) /\ Begins(told[c], more[c])
    BY DEF Logged, ToldMore
  <2> HIDE DEF l
  <2>3. Begins(l, more[c])
    BY <2>1, <2>2, BeginsLonger
  <2>. QED  BY <2>3 DEF l
<1>. QED  BY <1>1, <1>2 DEF Logged, StillKnown

LEMMA EventsStay ==
  ASSUME NEW told, AllTold(told), TheEvents(told), NEW more,
         events' \in Seq(EventFile), SameFiles(events, events'),
         \A i \in DOMAIN events : events'[i].lines = events[i].lines,
         \A i \in DOMAIN events :
           events'[i].cut => events[i].cut \/ faults' \cap {"events", "kill", "power"} # {},
         UNCHANGED run, StillKnown(events), up' => up, faults \subseteq faults',
         jsonlHealthy' => jsonlHealthy,
         \A c \in Conns : ToldMore(told, more, c) /\ (Working(c)' /\ jsonlHealthy' => more[c] = told[c])
  PROVE  TheEvents(more)'
<1>1. InTurn(events', run', up') /\ DOMAIN events' = DOMAIN events
  <2>1. events \in Seq(EventFile) /\ InTurn(events, run, up)
    BY DEF TheEvents, EventsKept
  <2>. QED  BY <2>1, InTurnStays DEF SameFiles
<1>2. LinesOf(events') = LinesOf(events)
  BY <1>1, SameLines
<1>3. \A i \in DOMAIN events' :
        /\ \A p \in DOMAIN events'[i].lines : Home[events'[i].lines[p].conn] = events'[i].run
        /\ events'[i].cut => faults' \cap {"events", "kill", "power"} # {}
  <2> TAKE i \in DOMAIN events'
  <2>1. i \in DOMAIN events /\ events'[i].run = events[i].run /\ events'[i].lines = events[i].lines
    BY <1>1 DEF SameFiles
  <2>. QED  BY <2>1 DEF TheEvents, EventsKept
<1>4. EventsKept'
  BY <1>1, <1>3 DEF EventsKept
<1>5. Logged(events, more)'
  <2>1. Logged(events, told)
    BY DEF TheEvents
  <2>2. /\ LinesOf(events') \in Seq(AllLines)
        /\ \A c \in Conns :
              /\ Begins(LogOf(events', c), more[c])
              /\ "power" \notin faults' /\ KnownClosed(c)' =>
                   HasClose(LogOf(events', c))
    BY <1>2, <2>1, LoggedStays
  <2>. QED  BY <2>2 DEF Logged
<1>6. Healthy(more)'
  <2> SUFFICES ASSUME NEW c \in Conns, Working(c)', jsonlHealthy' PROVE LogOf(events', c) = more[c]
    BY DEF Healthy
  <2>1. Working(c) /\ jsonlHealthy
    BY DEF Working
  <2>. QED  BY <1>2, <2>1, LogSame DEF TheEvents, Healthy
<1>. QED  BY <1>4, <1>5, <1>6 DEF TheEvents

LEMMA EventsIdle ==
  ASSUME NEW told, AllTold(told), TheEvents(told), NEW more,
         UNCHANGED <<run, events>>, StillKnown(events), up' => up, faults \subseteq faults',
         jsonlHealthy' => jsonlHealthy,
         \A c \in Conns : ToldMore(told, more, c) /\ (Working(c)' /\ jsonlHealthy' => more[c] = told[c])
  PROVE  TheEvents(more)'
<1>1. events' \in Seq(EventFile) /\ SameFiles(events, events')
  BY DEF TheEvents, EventsKept, SameFiles
<1>. QED  BY <1>1, EventsStay

(* A line more. *)
LEMMA EventPushed ==
  ASSUME NEW told, AllTold(told), TheEvents(told), NEW c \in Conns, NEW line \in LinesFor(c),
         run \in Nat, Working(c), jsonlHealthy, UNCHANGED <<run, up>>, StillKnown(events),
         faults \subseteq faults',
         events' = [events EXCEPT ![Len(events)].lines = Append(@, line)],
         NEW more, more[c] = Append(told[c], line), \A d \in Conns : d # c => more[d] = told[d]
  PROVE  TheEvents(more)'
<1> DEFINE n == Len(events)
<1>1. events \in Seq(EventFile) /\ InTurn(events, run, up) /\ events # << >> /\ line \in AllLines
      /\ line.conn = c
  BY DEF TheEvents, EventsKept, InTurn, Working, LinesFor
<1>2. /\ events' \in Seq(EventFile) /\ Len(events') = n /\ n \in 1..n /\ n \in Nat
      /\ DOMAIN events' = 1..n /\ DOMAIN events = 1..n
      /\ \A i \in 1..n : /\ events'[i].run = events[i].run
                         /\ events'[i].synced = events[i].synced
                         /\ events'[i].cut = events[i].cut
      /\ \A i \in 1..n : i # n => events'[i] = events[i]
      /\ events'[n].lines = Append(events[n].lines, line)
      /\ LinesOf(events') = Append(LinesOf(events), line)
  BY <1>1, LinePushed
<1>3. InTurn(events', run', up')
  <2>1. events' # << >>
    <3> HIDE DEF n
    <3>1. Len(events') # 0
      BY <1>2
    <3>. QED  BY <3>1
  <2>2. SameFiles(events, events')
    BY <1>2, <2>1 DEF SameFiles
  <2>3. InTurn(events', run, up)
    BY <1>1, <2>2, InTurnStays
  <2>. QED  BY <2>3
<1>4. \A i \in DOMAIN events' :
        /\ \A p \in DOMAIN events'[i].lines : Home[events'[i].lines[p].conn] = events'[i].run
        /\ events'[i].cut => faults' \cap {"events", "kill", "power"} # {}
  <2> HIDE DEF n
  <2> TAKE i \in DOMAIN events'
  <2>1. i \in 1..n /\ i \in DOMAIN events
    BY <1>2
  <2>2. events'[i].cut => faults' \cap {"events", "kill", "power"} # {}
    BY <1>2, <2>1 DEF TheEvents, EventsKept
  <2>3. CASE i # n
    BY <1>2, <2>1, <2>2, <2>3 DEF TheEvents, EventsKept
  <2>4. CASE i = n
    <3> DEFINE ls == events[n].lines
    <3>1. ls \in Seq(AllLines) /\ events[n].run = run /\ Home[c] = run
      <4>1. events[n] \in EventFile
        BY <1>1, <1>2
      <4>. QED  BY <1>1, <1>2, <4>1 DEF InTurn, EventFile, n, Working
    <3>2. \A p \in DOMAIN ls : Home[ls[p].conn] = run
      BY <1>2, <3>1 DEF TheEvents, EventsKept
    <3> HIDE DEF ls
    <3>3. \A p \in DOMAIN Append(ls, line) : Home[Append(ls, line)[p].conn] = run
      BY <1>1, <3>1, <3>2
    <3>4. events'[i].lines = Append(ls, line) /\ events'[i].run = run
      BY <1>2, <2>4, <3>1 DEF ls
    <3>. QED  BY <2>2, <3>3, <3>4
  <2>. QED  BY <2>3, <2>4
<1>5. EventsKept'
  BY <1>2, <1>3, <1>4 DEF EventsKept
<1>6. LinesOf(events) \in Seq(AllLines) /\ LinesOf(events') \in Seq(AllLines)
  BY <1>1, <1>2, LinesType
<1>7. ASSUME NEW d \in Conns
      PROVE  /\ LogOf(events, d) \in Seq(AllLines)
             /\ d = c => LogOf(events', d) = Append(LogOf(events, d), line)
             /\ d # c => LogOf(events', d) = LogOf(events, d)
  <2> DEFINE all == LinesOf(events)
             l == Kept(all, LinesFor(d))
  <2>1. all \in Seq(AllLines) /\ LinesOf(events') = Append(all, line)
    BY <1>2, <1>6
  <2> HIDE DEF all
  <2>2. l \in Seq(AllLines) /\ Kept(Append(all, line), LinesFor(d)) = l \o Single(line, LinesFor(d))
    BY <1>1, <2>1, KeptAppend
  <2>3. line \in LinesFor(d) <=> d = c
    BY <1>1 DEF LinesFor
  <2> HIDE DEF l
  <2>4. d = c => l \o Single(line, LinesFor(d)) = Append(l, line)
    BY <1>1, <2>2, <2>3 DEF Single
  <2>5. d # c => l \o Single(line, LinesFor(d)) = l
    BY <2>2, <2>3 DEF Single
  <2>6. LogOf(events, d) = l /\ LogOf(events', d) = Kept(Append(all, line), LinesFor(d))
    BY <2>1 DEF LogOf, l, all
  <2>. QED  BY <2>2, <2>4, <2>5, <2>6
<1>8. LogOf(events, c) = told[c]
  BY DEF TheEvents, Healthy
<1>9. LogOf(events', c) = more[c] /\ \A d \in Conns : d # c => LogOf(events', d) = LogOf(events, d)
  BY <1>7, <1>8
<1>10. Logged(events, more)'
  <2>1. Logged(events, told)
    BY DEF TheEvents
  <2> SUFFICES ASSUME NEW d \in Conns
               PROVE  /\ Begins(LogOf(events', d), more[d])
                      /\ "power" \notin faults' /\ KnownClosed(d)' =>
                           HasClose(LogOf(events', d))
    BY <1>6 DEF Logged
  <2>2. CASE d # c
    BY <1>9, <2>1, <2>2 DEF Logged, StillKnown
  <2>3. CASE d = c
    <3>1. LogOf(events', d) = Append(told[d], line) /\ told[d] \in Seq(AllLines) /\ line \in AllLines
      BY <1>1, <1>9, <2>3 DEF AllTold
    <3>2. HasClose(told[d]) => HasClose(LogOf(events', d))
      <4> DEFINE t == told[d]
      <4> HIDE DEF t
      <4>1. t \in Seq(AllLines) /\ LogOf(events', d) = Append(t, line)
        BY <3>1 DEF t
      <4>2. \A j \in DOMAIN t : j \in DOMAIN Append(t, line) /\ Append(t, line)[j] = t[j]
        BY <3>1, <4>1
      <4>3. HasClose(t) => HasClose(LogOf(events', d))
        BY <4>1, <4>2 DEF HasClose
      <4>. QED  BY <4>3 DEF t
    <3>3. Append(told[d], line) \in Seq(AllLines)
      BY <3>1
    <3>4. Begins(LogOf(events', d), more[d])
      BY <1>9, <2>3, <3>1, <3>3, BeginsSame
    <3>. QED  BY <1>8, <2>1, <2>3, <3>2, <3>4 DEF Logged, StillKnown
  <2>. QED  BY <2>2, <2>3
<1>11. Healthy(more)'
  <2> SUFFICES ASSUME NEW d \in Conns, Working(d)', jsonlHealthy' PROVE LogOf(events', d) = more[d]
    BY DEF Healthy
  <2>1. Working(d)
    BY DEF Working
  <2>2. LogOf(events, d) = told[d]
    BY <2>1 DEF TheEvents, Healthy
  <2>. QED  BY <1>9, <2>2
<1>. QED  BY <1>5, <1>10, <1>11 DEF TheEvents

(* rt.emit: the line is told, and in the log if that works. *)
LEMMA Emitted ==
  ASSUME NEW told, AllTold(told), TheEvents(told), NEW c \in Conns, NEW line \in LinesFor(c),
         run \in Nat, Working(c), Emit(line), UNCHANGED <<run, up>>, StillKnown(events),
         NEW more, more[c] = Append(told[c], line), \A d \in Conns : d # c => more[d] = told[d]
  PROVE  TheEvents(more)' /\ faults \subseteq faults'
<1>0. faults \subseteq faults'
  BY DEF Emit, Fault
<1>1. \A d \in Conns : ToldMore(told, more, d)
  <2> TAKE d \in Conns
  <2> DEFINE t == told[d]
  <2>1. t \in Seq(AllLines) /\ line \in AllLines
    BY DEF AllTold, LinesFor
  <2> HIDE DEF t
  <2>2. CASE d # c
    <3>1. Begins(t, t)
      BY <2>1, BeginsSame
    <3>. QED  BY <2>1, <2>2, <3>1 DEF ToldMore, t
  <2>3. CASE d = c
    <3>1. Begins(t, Append(t, line)) /\ Append(t, line) \in Seq(AllLines)
      BY <2>1 DEF Begins
    <3>. QED  BY <2>3, <3>1 DEF ToldMore, t
  <2>. QED  BY <2>2, <2>3
<1>2. CASE ~jsonlHealthy /\ UNCHANGED <<events, jsonlHealthy, faults>>
  <2>1. \A d \in Conns : ToldMore(told, more, d) /\ (Working(d)' /\ jsonlHealthy' => more[d] = told[d])
    BY <1>1, <1>2
  <2>. QED  BY <1>0, <1>2, <2>1, EventsIdle
<1>3. CASE jsonlHealthy /\ events' = [events EXCEPT ![Len(events)].lines = Append(@, line)]
  BY <1>0, <1>3, EventPushed
<1>4. CASE /\ jsonlHealthy /\ ~jsonlHealthy' /\ Fault("events")
           /\ \E cut \in BOOLEAN : events' = [events EXCEPT ![Len(events)].cut = cut]
  <2>1. PICK cut \in BOOLEAN : events' = [events EXCEPT ![Len(events)].cut = cut]
    BY <1>4
  <2>2. events \in Seq(EventFile) /\ events # << >>
    BY DEF TheEvents, EventsKept, InTurn, Working
  <2> DEFINE n == Len(events)
             f == events[n]
             h == [f EXCEPT !.cut = cut]
  <2>3. f \in EventFile /\ n \in Nat
    BY <2>2, FileReplaced
  <2>4. h \in EventFile /\ h.run = f.run /\ h.lines = f.lines /\ h.synced = f.synced
    <3> HIDE DEF f
    <3>. QED  BY <2>3 DEF EventFile
  <2>5. events' = [events EXCEPT ![n] = h]
    BY <2>1
  <2> HIDE DEF h
  <2>6. /\ events' \in Seq(EventFile) /\ SameFiles(events, events') /\ DOMAIN events = 1..n
        /\ \A i \in 1..n : events'[i].lines = events[i].lines
    BY <2>2, <2>4, <2>5, EventsAlike
  <2>7. "events" \in faults'
    BY <1>4 DEF Fault
  <2>8. \A d \in Conns : ToldMore(told, more, d) /\ (Working(d)' /\ jsonlHealthy' => more[d] = told[d])
    BY <1>1, <1>4
  <2>9. faults' \cap {"events", "kill", "power"} # {}
    BY <2>7
  <2>. QED  BY <1>0, <1>4, <2>6, <2>8, <2>9, EventsStay
<1>. QED  BY <1>2, <1>3, <1>4 DEF Emit

(* An empty file is begun, after one that has been synced. *)
LEMMA EventsMore ==
  ASSUME NEW told, AllTold(told), TheEvents(told), NEW files \in Seq(EventFile), NEW f \in EventFile,
         events' = Append(files, f), f.lines = << >>, ~f.cut,
         DOMAIN files = DOMAIN events, Len(files) = Len(events),
         \A i \in DOMAIN events :
           /\ files[i].run = events[i].run /\ files[i].lines = events[i].lines
           /\ files[i].cut = events[i].cut
           /\ files[i].run = run' => files[i].synced,
         InTurn(files, run, up), f.run = run',
         run \in Nat, run' \in Nat, run <= run', faults \subseteq faults', StillKnown(events),
         \A c \in Conns : Working(c)' /\ jsonlHealthy' => LogOf(events, c) = told[c]
  PROVE  TheEvents(told)'
<1>0. events \in Seq(EventFile)
  BY DEF TheEvents, EventsKept
<1>1. /\ events' \in Seq(EventFile) /\ Len(events') = Len(files) + 1 /\ Len(files) \in Nat
      /\ DOMAIN files = 1..Len(files) /\ DOMAIN events' = 1..(Len(files) + 1)
      /\ \A i \in 1..Len(files) : events'[i] = files[i]
      /\ events'[Len(files) + 1] = f
  BY FileMore
<1>2. LinesOf(events') = LinesOf(events)
  <2>1. LinesOf(files) = LinesOf(events)
    BY SameLines
  <2>2. LinesOf(events') = LinesOf(files)
    BY LinesMore
  <2>. QED  BY <2>1, <2>2
<1>3. InTurn(events', run', up')
  <2>1. \A i \in DOMAIN files : files[i].run \in Nat
    <3>1. \A i \in DOMAIN files : files[i] \in EventFile
      OBVIOUS
    <3>. QED  BY <3>1 DEF EventFile
  <2>2. Longer(events', files)
    BY <1>1 DEF Longer
  <2>. QED  BY <1>1, <2>1, <2>2, InTurnMore
<1>4. \A i \in DOMAIN events' :
        /\ \A p \in DOMAIN events'[i].lines : Home[events'[i].lines[p].conn] = events'[i].run
        /\ events'[i].cut => faults' \cap {"events", "kill", "power"} # {}
  <2> TAKE i \in DOMAIN events'
  <2>1. CASE i \in 1..Len(files)
    <3>1. i \in DOMAIN events /\ events'[i] = files[i]
      BY <1>1, <2>1
    <3>. QED  BY <3>1 DEF TheEvents, EventsKept
  <2>2. CASE i = Len(files) + 1
    BY <1>1, <2>2
  <2>. QED  BY <1>1, <2>1, <2>2
<1>5. EventsKept'
  BY <1>1, <1>3, <1>4 DEF EventsKept
<1>6. Logged(events, told)'
  <2>1. Logged(events, told)
    BY DEF TheEvents
  <2>2. \A c \in Conns : ToldMore(told, told, c)
    BY BeginsSame DEF AllTold, ToldMore
  <2>3. /\ LinesOf(events') \in Seq(AllLines)
        /\ \A c \in Conns :
              /\ Begins(LogOf(events', c), told[c])
              /\ "power" \notin faults' /\ KnownClosed(c)' =>
                   HasClose(LogOf(events', c))
    BY <1>2, <2>1, <2>2, LoggedStays
  <2>. QED  BY <2>3 DEF Logged
<1>7. Healthy(told)'
  BY <1>2, LogSame DEF Healthy
<1>. QED  BY <1>5, <1>6, <1>7 DEF TheEvents

(* The file after the newest. *)
LEMMA EventsNext ==
  ASSUME NEW told, AllTold(told), TheEvents(told), run \in Nat, up, UNCHANGED <<run, up, jsonlHealthy>>,
         StillKnown(events), faults \subseteq faults', events' = Append(SyncNewest(events), NewEvents(run))
  PROVE  TheEvents(told)'
<1>1. /\ events \in Seq(EventFile) /\ InTurn(events, run, up) /\ events # << >>
      /\ Len(events) \in DOMAIN events
  <2>1. events \in Seq(EventFile) /\ InTurn(events, run, up) /\ events # << >>
    BY DEF TheEvents, EventsKept, InTurn
  <2>2. Len(events) \in DOMAIN events
    BY <2>1
  <2>. QED  BY <2>1, <2>2
<1> DEFINE files == SyncNewest(events)
           f == NewEvents(run)
<1>2. /\ files \in Seq(EventFile) /\ Len(files) = Len(events)
      /\ DOMAIN files = DOMAIN events /\ SameFiles(events, files)
      /\ files[Len(events)].synced
      /\ \A i \in DOMAIN events : files[i].lines = events[i].lines /\ files[i].cut = events[i].cut
  BY <1>1, EventsSynced
<1>3. f \in EventFile /\ f.lines = << >> /\ ~f.cut /\ f.run = run'
  <2>1. << >> \in Seq(AllLines)
    OBVIOUS
  <2>. QED  BY <2>1 DEF NewEvents, EventFile
<1>4. events' = Append(files, f)
  OBVIOUS
<1> HIDE DEF files, f
<1>5. InTurn(files, run, up)
  BY <1>1, <1>2, InTurnStays
<1>6. \A i \in DOMAIN events :
        files[i].run = events[i].run /\ (files[i].run = run' => files[i].synced)
  <2> SUFFICES ASSUME NEW i \in DOMAIN events
               PROVE  files[i].run = events[i].run /\ (files[i].run = run => files[i].synced)
    OBVIOUS
  <2>1. files[i].run = events[i].run
    BY <1>2 DEF SameFiles
  <2>2. CASE i = Len(events)
    BY <1>2, <2>1, <2>2
  <2>3. CASE i # Len(events)
    <3>1. i < Len(events)
      BY <1>1, <2>3
    <3>2. files[i].run = run => files[i].run = files[Len(events)].run
      BY <1>1, <1>2 DEF InTurn, SameFiles
    <3>. QED  BY <1>1, <1>2, <1>5, <2>1, <3>1, <3>2 DEF InTurn
  <2>. QED  BY <2>2, <2>3
<1>7. run \in Nat /\ run' \in Nat /\ run <= run'
  OBVIOUS
<1>8. \A c \in Conns : Working(c)' /\ jsonlHealthy' => LogOf(events, c) = told[c]
  BY DEF TheEvents, Healthy, Working
<1>. QED  BY <1>2, <1>3, <1>4, <1>5, <1>6, <1>7, <1>8, EventsMore

LEMMA EventsStarted ==
  ASSUME NEW told, AllTold(told), TheEvents(told), run \in Nat, run' = run + 1,
         UNCHANGED faults, StillKnown(events), events' = Append(events, NewEvents(run')),
         \A c \in Conns : Home[c] > run => told[c] = << >>
  PROVE  TheEvents(told)'
<1> DEFINE f == NewEvents(run')
<1>1. f \in EventFile /\ f.lines = << >> /\ f.run = run' /\ ~f.cut
  <2>1. << >> \in Seq(AllLines)
    OBVIOUS
  <2>. QED  BY <2>1 DEF NewEvents, EventFile
<1>2. events \in Seq(EventFile) /\ InTurn(events, run, up)
  BY DEF TheEvents, EventsKept
<1>3. events' = Append(events, f)
  OBVIOUS
<1> HIDE DEF f
<1>4. \A i \in DOMAIN events :
           /\ events[i].run = events[i].run /\ events[i].lines = events[i].lines
           /\ events[i].cut = events[i].cut
           /\ events[i].run = run' => events[i].synced
  <2> TAKE i \in DOMAIN events
  <2>0. events[i] \in EventFile
    BY <1>2
  <2>1. events[i].run <= run /\ events[i].run \in Nat
    BY <1>2, <2>0 DEF InTurn, EventFile
  <2>. QED  BY <2>1
<1>5. run' \in Nat /\ run <= run' /\ DOMAIN events = DOMAIN events /\ Len(events) = Len(events)
      /\ faults \subseteq faults'
  OBVIOUS
<1>6. ASSUME NEW c \in Conns, Working(c)' PROVE LogOf(events, c) = told[c]
  <2>1. told[c] = << >> /\ Home[c] > run
    BY <1>6 DEF Working
  <2>2. Logged(events, told)
    BY DEF TheEvents
  <2>3. LogOf(events, c) \in Seq(AllLines) /\ Begins(LogOf(events, c), << >>)
    BY <2>1, <2>2, LogType DEF Logged
  <2>4. Len(LogOf(events, c)) = 0
    BY <2>3 DEF Begins
  <2>. QED  BY <2>1, <2>3, <2>4, EmptySeq
<1>. QED  BY <1>1, <1>2, <1>3, <1>4, <1>5, <1>6, EventsMore

LEMMA EventsLost ==
  ASSUME NEW told, AllTold(told), TheEvents(told), events' \in AfterLoss(events, "events"),
         ~up', run' = run, faults \subseteq faults', "power" \in faults'
  PROVE  TheEvents(told)'
<1>1. events \in Seq(EventFile) /\ InTurn(events, run, up)
  BY DEF TheEvents, EventsKept
<1> DEFINE n == Len(events)
<1>2. n \in Nat /\ DOMAIN events = 1..n /\ \A i \in 1..n : events[i] \in EventFile
  BY <1>1
<1>3. DOMAIN events' = 1..n /\ \A i \in 1..n : events'[i] \in LeftOf(events[i], "events")
  BY <1>2 DEF AfterLoss
<1>4. ASSUME NEW i \in 1..n
      PROVE  /\ events'[i] \in EventFile
             /\ events'[i].run = events[i].run
             /\ events'[i].synced
             /\ events[i].synced => events'[i] = events[i]
             /\ \E m \in 0..Len(events[i].lines) : events'[i].lines = SubSeq(events[i].lines, 1, m)
  <2> DEFINE f == events[i]
             g == events'[i]
             ls == f.lines
  <2>1. f \in EventFile /\ ls \in Seq(AllLines) /\ g \in LeftOf(f, "events")
    BY <1>2, <1>3 DEF EventFile
  <2>2. ls = SubSeq(ls, 1, Len(ls)) /\ Len(ls) \in 0..Len(ls)
    <3> HIDE DEF ls
    <3>. QED  BY <2>1
  <2> HIDE DEF f, g
  <2>3. CASE f.synced
    <3>1. g = f
      BY <2>1, <2>3 DEF LeftOf
    <3>. QED  BY <2>1, <2>2, <2>3, <3>1 DEF f, g
  <2>4. CASE ~f.synced
    <3>1. PICK m \in 0..Len(ls), cut \in BOOLEAN : g = LinesLeft(f, m, cut)
      BY <2>1, <2>4 DEF LeftOf
    <3>2. SubSeq(ls, 1, m) \in Seq(AllLines)
      <4> HIDE DEF ls
      <4>. QED  BY <2>1
    <3>3. g \in EventFile /\ g.run = f.run /\ g.synced /\ g.lines = SubSeq(ls, 1, m)
      BY <2>1, <3>1, <3>2 DEF EventFile, LinesLeft
    <3>. QED  BY <2>4, <3>3 DEF f, g
  <2>. QED  BY <2>3, <2>4
<1>5. events' \in Seq(EventFile) /\ Len(events') = n
  <2> HIDE DEF n
  <2>1. events' \in [1..n -> EventFile]
    <3>1. events' = [i \in 1..n |-> events'[i]]
      BY <1>2, <1>3 DEF AfterLoss
    <3>. QED  BY <1>4, <3>1
  <2>2. events' \in Seq(EventFile)
    BY <1>2, <2>1, SeqDef
  <2>. QED  BY <1>2, <1>3, <2>2
<1>6. EventsKept'
  <2>1. InTurn(events', run', up')
    <3>1. SameFiles(events, events')
      <4>1. events' = << >> => events = << >>
        <5>1. events' = << >> => Len(events) = 0
          BY <1>5
        <5>. QED  BY <1>1, <5>1
      <4>. QED  BY <1>2, <1>3, <1>4, <1>5, <4>1 DEF SameFiles
    <3>. QED  BY <1>1, <3>1, InTurnStays
  <2>2. \A i \in DOMAIN events' :
          /\ \A p \in DOMAIN events'[i].lines : Home[events'[i].lines[p].conn] = events'[i].run
          /\ events'[i].cut => faults' \cap {"events", "kill", "power"} # {}
    <3> TAKE i \in DOMAIN events'
    <3>1. i \in 1..n /\ i \in DOMAIN events
      BY <1>2, <1>3
    <3> DEFINE ls == events[i].lines
    <3>2. PICK m \in 0..Len(ls) : events'[i].lines = SubSeq(ls, 1, m)
      BY <1>4, <3>1
    <3>3. ls \in Seq(AllLines) /\ \A p \in DOMAIN ls : Home[ls[p].conn] = events[i].run
      BY <1>2, <3>1 DEF EventFile, TheEvents, EventsKept
    <3> HIDE DEF ls
    <3>4. \A p \in DOMAIN SubSeq(ls, 1, m) : p \in DOMAIN ls /\ SubSeq(ls, 1, m)[p] = ls[p]
      BY <3>3
    <3>. QED  BY <1>4, <3>1, <3>2, <3>3, <3>4
  <2>. QED  BY <1>5, <2>1, <2>2 DEF EventsKept
<1>7. LinesOf(events') \in Seq(AllLines) /\ LinesOf(events) \in Seq(AllLines)
  BY <1>1, <1>5, LinesType
<1>8. ASSUME NEW c \in Conns
      PROVE  Begins(LogOf(events', c), LogOf(events, c))
  <2> DEFINE T == LinesFor(c)
             us == [i \in DOMAIN events |-> events[i].lines]
             vs == [i \in DOMAIN events' |-> events'[i].lines]
  <2>1. us \in Seq(Seq(AllLines)) /\ LogOf(events, c) = Kept(FlattenSeq(us), T)
    BY <1>1, LinesType DEF LinesOf, LogOf
  <2>2. vs \in Seq(Seq(AllLines)) /\ LogOf(events', c) = Kept(FlattenSeq(vs), T)
    BY <1>5, LinesType DEF LinesOf, LogOf
  <2>3. /\ DOMAIN us = 1..n /\ DOMAIN vs = 1..n
        /\ \A i \in 1..n : us[i] = events[i].lines /\ vs[i] = events'[i].lines
    BY <1>2, <1>3
  <2> HIDE DEF us, vs
  <2>4. Len(us) = n /\ Len(vs) = n
    <3> DEFINE R == Seq(AllLines)
    <3> HIDE DEF R, n
    <3>1. us \in Seq(R) /\ vs \in Seq(R)
      BY <2>1, <2>2 DEF R
    <3>. QED  BY <1>2, <2>3, <3>1
  <2>5. ASSUME NEW i \in 1..n, Has(us[i], T)
        PROVE  events[i].run = Home[c]
    <3>1. PICK p \in DOMAIN us[i] : us[i][p] \in T
      BY <2>5 DEF Has
    <3>2. us[i][p].conn = c
      BY <3>1 DEF LinesFor
    <3>. QED  BY <1>2, <2>3, <3>1, <3>2 DEF TheEvents, EventsKept
  <2>6. \A i, j \in 1..n : i < j /\ vs[i] # us[i] => ~(Has(us[i], T) /\ Has(us[j], T))
    <3> SUFFICES ASSUME NEW i \in 1..n, NEW j \in 1..n, i < j, vs[i] # us[i],
                        Has(us[i], T), Has(us[j], T)
                 PROVE  FALSE
      OBVIOUS
    <3>1. events[i].run = events[j].run
      BY <2>5
    <3>2. events[i].synced
      BY <1>1, <1>2, <3>1 DEF InTurn
    <3>. QED  BY <1>4, <2>3, <3>2
  <2>7. Lost(us, vs, T)
    BY <1>4, <2>3, <2>4, <2>6 DEF Lost
  <2>8. Begins(Kept(FlattenSeq(vs), T), Kept(FlattenSeq(us), T))
    BY <2>1, <2>2, <2>7, KeptLost
  <2>. QED  BY <2>1, <2>2, <2>8
<1>9. Logged(events, told)'
  <2> SUFFICES ASSUME NEW c \in Conns PROVE Begins(LogOf(events', c), told[c])
    BY <1>7 DEF Logged
  <2> DEFINE a == LogOf(events', c)
             b == LogOf(events, c)
  <2>1. a \in Seq(AllLines) /\ b \in Seq(AllLines) /\ told[c] \in Seq(AllLines) /\ Begins(b, told[c])
    BY <1>7, LogType DEF AllTold, TheEvents, Logged
  <2>2. Begins(a, b)
    BY <1>8
  <2> HIDE DEF a, b
  <2>3. Begins(a, told[c])
    BY <2>1, <2>2, BeginsLonger
  <2>. QED  BY <2>3 DEF a
<1>10. Healthy(told)'
  BY DEF Healthy, Working
<1>. QED  BY <1>6, <1>9, <1>10 DEF TheEvents

-----------------------------------------------------------------------------
(* What is kept by what does not touch it. *)
LEMMA BeginsSays ==
  ASSUME NEW S, NEW s \in Seq(S), NEW t \in Seq(S), Begins(s, t)
  PROVE  /\ Len(s) <= Len(t) /\ Len(s) \in Nat /\ Len(t) \in Nat
         /\ DOMAIN s = 1..Len(s) /\ DOMAIN t = 1..Len(t)
         /\ \A j \in DOMAIN s : j \in DOMAIN t /\ t[j] = s[j]
BY DEF Begins

LEMMA HeldStays ==
  ASSUME NEW told, AllTold(told), Held(told), UNCHANGED db,
         NEW more, \A c \in Conns : ToldMore(told, more, c)
  PROVE  Held(more)'
<1>1. \A c \in Conns : \A j \in DOMAIN told[c] : j \in DOMAIN more[c] /\ more[c][j] = told[c][j]
  BY BeginsSays DEF AllTold, ToldMore
<1>2. \A c \in Conns : told[c] # << >> => 1 \in DOMAIN told[c] /\ more[c] # << >>
  <2> TAKE c \in Conns
  <2>1. told[c] \in Seq(AllLines) /\ more[c] \in Seq(AllLines) /\ Begins(told[c], more[c])
    BY DEF AllTold, ToldMore
  <2> DEFINE s == told[c]
             t == more[c]
  <2> HIDE DEF s, t
  <2>2. s \in Seq(AllLines) /\ t \in Seq(AllLines) /\ Begins(s, t)
    BY <2>1 DEF s, t
  <2>3. s # << >> => 1 \in DOMAIN s /\ Len(t) # 0
    BY <2>2 DEF Begins
  <2>4. s # << >> => 1 \in DOMAIN s /\ t # << >>
    BY <2>3
  <2>. QED  BY <2>4 DEF s, t
<1>3. \A id \in DOMAIN db.exchanges :
       \E c \in Conns, k \in Nat \ {0} :
         /\ id = <<c, k>> /\ c \in DOMAIN db.connections
         /\ k + 1 \in DOMAIN more[c] /\ more[c][k + 1].type = "exchange"
         /\ db.exchanges[id] = RowOf(more[c], c, k)
         /\ k > 1 => <<c, k - 1>> \in DOMAIN db.exchanges
  <2> TAKE id \in DOMAIN db.exchanges
  <2>1. PICK c \in Conns, k \in Nat \ {0} :
         /\ id = <<c, k>> /\ c \in DOMAIN db.connections
         /\ k + 1 \in DOMAIN told[c] /\ told[c][k + 1].type = "exchange"
         /\ db.exchanges[id] = RowOf(told[c], c, k)
         /\ k > 1 => <<c, k - 1>> \in DOMAIN db.exchanges
    BY DEF Held
  <2>2. k + 1 \in DOMAIN more[c] /\ more[c][k + 1] = told[c][k + 1]
    BY <1>1, <2>1
  <2>3. RowOf(more[c], c, k) = RowOf(told[c], c, k)
    BY <2>2 DEF RowOf
  <2>. QED  BY <2>1, <2>2, <2>3
<1>4. \A c \in DOMAIN db.connections :
       /\ c \in Conns /\ more[c] # << >>
       /\ db.connections[c].by = more[c][1].type
       /\ db.connections[c].closed => HasClose(more[c])
  <2> TAKE c \in DOMAIN db.connections
  <2>1. c \in Conns /\ told[c] # << >> /\ db.connections[c].by = told[c][1].type
        /\ (db.connections[c].closed => HasClose(told[c]))
    BY DEF Held
  <2>2. HasClose(told[c]) => HasClose(more[c])
    BY <1>1, <2>1 DEF HasClose
  <2>3. more[c] # << >> /\ more[c][1] = told[c][1]
    BY <1>1, <1>2, <2>1
  <2>. QED  BY <2>1, <2>2, <2>3
<1>. QED  BY <1>3, <1>4 DEF Held

(* A store that was read stays where it began, as everything does. *)
LEMMA RecordedStays ==
  ASSUME NEW files, Recorded(files),
         \A c \in Conns, dir \in {"in", "out"} :
           Bytes(c, dir) \in Nat /\ Bytes(c, dir)' \in Nat /\ Bytes(c, dir) <= Bytes(c, dir)'
  PROVE  \A c \in Conns, dir \in {"in", "out"} :
           \E n \in 0..Bytes(c, dir)' : Stream(files, c, dir) = Truly(c, dir, 0, n)
<1> TAKE c \in Conns, dir \in {"in", "out"}
<1>1. PICK n \in 0..Bytes(c, dir) : Stream(files, c, dir) = Truly(c, dir, 0, n)
  BY DEF Recorded
<1>2. Bytes(c, dir) \in Nat /\ Bytes(c, dir)' \in Nat /\ Bytes(c, dir) <= Bytes(c, dir)'
  OBVIOUS
<1>3. n \in 0..Bytes(c, dir)'
  BY <1>2
<1>. QED  BY <1>1, <1>3

LEMMA ReadingGoesOn ==
  ASSUME NEW told, AllTold(told), Reading(told), UNCHANGED db, faults \subseteq faults',
         NEW live \in BOOLEAN, reader' = [reader EXCEPT !.live = live],
         reader.first # "none" =>
           /\ up' => live
           /\ reader.live => live
           /\ ~live => reader.files = Files(reader.first)',
         NEW more, \A c \in Conns : ToldMore(told, more, c),
         \A c \in Conns, dir \in {"in", "out"} :
           Bytes(c, dir) \in Nat /\ Bytes(c, dir)' \in Nat /\ Bytes(c, dir) <= Bytes(c, dir)'
  PROVE  Reading(more)'
<1>1. /\ reader.first \in {"none", "events", "journal"}
      /\ reader.first = "journal" => reader.by = "archive"
  BY DEF Reading
<1>2. reader' = [by |-> reader.by, first |-> reader.first, files |-> reader.files, live |-> live]
  <2>1. reader = [by |-> reader.by, first |-> reader.first, files |-> reader.files, live |-> reader.live]
    BY DEF Reading
  <2>. QED  BY <2>1
<1>3. reader.first = "events" =>
        /\ \A i \in DOMAIN reader.files : reader.files[i].cut =>
             faults' \cap {"events", "kill", "power"} # {} \/ live
        /\ LinesOf(reader.files) \in Seq(AllLines)
        /\ \A c \in Conns :
             /\ Begins(LogOf(reader.files, c), more[c])
             /\ "power" \notin faults' /\ KnownClosed(c)' =>
                  HasClose(LogOf(reader.files, c))
  <2> SUFFICES ASSUME reader.first = "events"
               PROVE  /\ \A i \in DOMAIN reader.files : reader.files[i].cut =>
                           faults' \cap {"events", "kill", "power"} # {} \/ live
                      /\ LinesOf(reader.files) \in Seq(AllLines)
                      /\ \A c \in Conns :
                           /\ Begins(LogOf(reader.files, c), more[c])
                           /\ "power" \notin faults' /\ KnownClosed(c)' =>
                                HasClose(LogOf(reader.files, c))
    OBVIOUS
  <2>1. Logged(reader.files, told)
    BY DEF Reading
  <2>2. StillKnown(reader.files)
    BY <1>2, KnownStays
  <2>3. \A i \in DOMAIN reader.files : reader.files[i].cut =>
           faults' \cap {"events", "kill", "power"} # {} \/ live
    BY DEF Reading
  <2>. QED  BY <2>1, <2>2, <2>3, LoggedStays
<1>4. reader.first = "journal" =>
        /\ \A c \in Conns, dir \in {"in", "out"} :
             \E n \in 0..Bytes(c, dir)' : Stream(reader.files, c, dir) = Truly(c, dir, 0, n)
        /\ \A i \in DOMAIN reader.files : ~reader.files[i].header =>
             faults' \cap {"journal", "kill", "power"} # {} \/ live
  <2>1. reader.first = "journal" => Recorded(reader.files)
    BY DEF Reading
  <2>2. reader.first = "journal" =>
        \A c \in Conns, dir \in {"in", "out"} :
           \E n \in 0..Bytes(c, dir)' : Stream(reader.files, c, dir) = Truly(c, dir, 0, n)
    BY <2>1, RecordedStays
  <2>. QED  BY <2>2 DEF Reading
<1>5. /\ reader'.by = reader.by /\ reader'.first = reader.first
      /\ reader'.files = reader.files /\ reader'.live = live
      /\ reader' = [by |-> reader'.by, first |-> reader'.first, files |-> reader'.files,
                    live |-> reader'.live]
  BY <1>2
<1>6. reader'.first = "events" =>
        /\ Logged(reader.files, more)'
        /\ \A i \in DOMAIN reader'.files : reader'.files[i].cut =>
             faults' \cap {"events", "kill", "power"} # {} \/ reader'.live
  BY <1>3, <1>5, <1>1 DEF Logged
<1>7. reader'.first = "journal" =>
        /\ Recorded(reader.files)'
        /\ \A i \in DOMAIN reader'.files : ~reader'.files[i].header =>
             faults' \cap {"journal", "kill", "power"} # {} \/ reader'.live
  BY <1>4, <1>5, <1>1 DEF Recorded
<1>8. reader'.first # "none" =>
        /\ up' => reader'.live
        /\ ~reader'.live => reader'.files = Files(reader.first)'
  <2>1. reader.first # "none" => (~live => reader.files = Files(reader.first)')
    OBVIOUS
  <2>. QED  BY <1>5, <2>1 DEF Files
<1>. QED  BY <1>1, <1>5, <1>6, <1>7, <1>8 DEF Reading

LEMMA ReadingStays ==
  ASSUME NEW told, AllTold(told), Reading(told), UNCHANGED <<reader, db>>, faults \subseteq faults', up,
         NEW more, \A c \in Conns : ToldMore(told, more, c),
         \A c \in Conns, dir \in {"in", "out"} :
           Bytes(c, dir) \in Nat /\ Bytes(c, dir)' \in Nat /\ Bytes(c, dir) <= Bytes(c, dir)'
  PROVE  Reading(more)'
<1>1. PICK live \in BOOLEAN : live = reader.live
  BY DEF Reading
<1>2. reader' = [reader EXCEPT !.live = live]
  BY <1>1 DEF Reading
<1>3. reader.first # "none" => live
  BY <1>1 DEF Reading
<1>. QED  BY <1>1, <1>2, <1>3, ReadingGoesOn

(* The story of a handler that does not step. *)
LEMMA LivedStays ==
  ASSUME NEW t, NEW c \in Conns, Lived(t, c), run \in Nat, run' \in Nat, run <= run',
         pc'[c] = pc[c], bytesIn'[c] = bytesIn[c], bytesOut'[c] = bytesOut[c],
         requests'[c] = requests[c], responseStart'[c] = responseStart[c], faults \subseteq faults'
  PROVE  Lived(t, c)'
<1>1. Home[c] \in Nat
  BY IndexAssumption
<1>2. Home[c] > run' => pc'[c] = "away"
  BY <1>1 DEF Lived
<1>3. Refused(t, c) => Refused(t, c)'
  BY DEF Refused
<1>. QED  BY <1>2, <1>3 DEF Lived

LEMMA SensorStays ==
  ASSUME NEW told, Sensor(told), run' \in Nat, run <= run', up' \in BOOLEAN,
         UNCHANGED connection, faults \subseteq faults'
  PROVE  Sensor(told)'
<1>1. UNCHANGED <<pc, bytesIn, bytesOut, requests, responseStart>>
  BY DEF connection
<1>2. \A c \in Conns : Lived(told[c], c)'
  BY <1>1, LivedStays DEF Sensor
<1>. QED  BY <1>1, <1>2 DEF Sensor

LEMMA SensorSteps ==
  ASSUME NEW told, Sensor(told), NEW c \in Conns, UNCHANGED <<run, up>>, faults \subseteq faults',
         NEW more, DOMAIN more = Conns, \A d \in Conns : d # c => more[d] = told[d],
         DOMAIN pc' = Conns, DOMAIN bytesIn' = Conns, DOMAIN bytesOut' = Conns,
         DOMAIN requests' = Conns, DOMAIN responseStart' = Conns,
         \A d \in Conns : d # c =>
           /\ pc'[d] = pc[d] /\ bytesIn'[d] = bytesIn[d] /\ bytesOut'[d] = bytesOut[d]
           /\ requests'[d] = requests[d] /\ responseStart'[d] = responseStart[d],
         Story(more[c], c), Lived(more[c], c)'
  PROVE  Sensor(more)'
<1>1. \A d \in Conns : Story(more[d], d) /\ Lived(more[d], d)'
  <2> TAKE d \in Conns
  <2>1. CASE d # c
    <3>1. Lived(told[d], d)'
      BY <2>1, LivedStays DEF Sensor
    <3>. QED  BY <2>1, <3>1 DEF Sensor
  <2>. QED  BY <2>1
<1>. QED  BY <1>1 DEF Sensor

(* What follows from the story of each connection. *)
LEMMA SensorSays ==
  ASSUME NEW told, Sensor(told)
  PROVE  /\ AllTold(told) /\ AllBytes
         /\ \A c \in Conns : Home[c] > run =>
              told[c] = << >> /\ \A dir \in {"in", "out"} : Bytes(c, dir) = 0
<1>1. ASSUME NEW c \in Conns PROVE told[c] \in Seq(AllLines)
  <2>1. told[c] \in Seq(LinesFor(c))
    BY DEF Sensor, Story
  <2>2. LinesFor(c) \subseteq AllLines
    BY DEF LinesFor
  <2> DEFINE R == LinesFor(c)
             s == told[c]
  <2> HIDE DEF R, s
  <2>3. s \in Seq(R) /\ R \subseteq AllLines
    BY <2>1, <2>2 DEF R, s
  <2>4. s \in Seq(AllLines)
    BY <2>3
  <2>. QED  BY <2>4 DEF s
<1>2. ASSUME NEW c \in Conns, Home[c] > run
      PROVE  told[c] = << >> /\ \A dir \in {"in", "out"} : Bytes(c, dir) = 0
  <2>1. Lived(told[c], c) /\ pc[c] = "away"
    BY <1>2 DEF Sensor, Lived
  <2>. QED  BY <2>1 DEF Lived, Bytes
<1>. QED  BY <1>1, <1>2 DEF Sensor, Lived, AllTold, AllBytes, Bytes

-----------------------------------------------------------------------------
(* A handler tells its next line. *)
LEMMA LineAdded ==
  ASSUME NEW S, NEW t \in Seq(S), NEW l \in S
  PROVE  LET u == Append(t, l)
         IN  /\ u \in Seq(S) /\ Len(u) = Len(t) + 1 /\ Len(t) \in Nat /\ u # << >>
             /\ DOMAIN t = 1..Len(t) /\ DOMAIN u = 1..(Len(t) + 1)
             /\ \A j \in 1..Len(t) : u[j] = t[j]
             /\ u[Len(t) + 1] = l
             /\ t = << >> <=> Len(t) = 0
OBVIOUS

LEMMA StoryMore ==
  ASSUME NEW c \in Conns, NEW t, Story(t, c), NEW l \in LinesFor(c),
         \A j \in DOMAIN t : t[j].type # "connection_close",
         l.type = "connection_open" => t = << >>,
         l.type = "exchange" =>
           t # << >> /\ t[1].type = "connection_open" /\ Follows(l, t[Len(t)], Len(t) + 1)
  PROVE  Story(Append(t, l), c)
<1> DEFINE n == Len(t)
           u == Append(t, l)
           R == LinesFor(c)
<1>1. t \in Seq(R) /\ l \in R
  BY DEF Story
<1> HIDE DEF R
<1>2. /\ u \in Seq(R) /\ Len(u) = n + 1 /\ n \in Nat /\ u # << >>
      /\ DOMAIN t = 1..n /\ DOMAIN u = 1..(n + 1)
      /\ \A j \in 1..n : u[j] = t[j]
      /\ u[n + 1] = l
      /\ t = << >> <=> n = 0
  BY <1>1, LineAdded
<1> HIDE DEF n, u
<1>3. ASSUME NEW j \in DOMAIN u
      PROVE  /\ u[j].type = "connection_open" => j = 1
             /\ u[j].type = "exchange" =>
                  j > 1 /\ u[1].type = "connection_open" /\ Follows(u[j], u[j - 1], j)
             /\ u[j].type = "connection_close" => j = Len(u)
  <2>1. CASE j \in 1..n
    <3>1. u[j] = t[j] /\ j \in DOMAIN t /\ 1 \in 1..n /\ u[1] = t[1]
      BY <1>2, <2>1
    <3>2. u[j].type # "connection_close"
      BY <3>1
    <3>3. u[j].type = "connection_open" => j = 1
      BY <3>1 DEF Story
    <3>4. u[j].type = "exchange" =>
            j > 1 /\ t[1].type = "connection_open" /\ Follows(t[j], t[j - 1], j)
      BY <3>1 DEF Story
    <3>5. j > 1 => u[j - 1] = t[j - 1]
      BY <1>2, <2>1
    <3>. QED  BY <3>1, <3>2, <3>3, <3>4, <3>5
  <2>2. CASE j = n + 1
    <3>1. u[j] = l
      BY <1>2, <2>2
    <3>2. l.type = "connection_open" => j = 1
      BY <1>2, <2>2
    <3>3. CASE l.type = "exchange"
      <4>1. t # << >> /\ t[1].type = "connection_open" /\ Follows(l, t[n], n + 1)
        BY <3>3 DEF n
      <4>2. n > 0 /\ 1 \in 1..n /\ n \in 1..n
        BY <1>2, <4>1
      <4>3. u[1] = t[1] /\ u[n] = t[n] /\ j - 1 = n
        BY <1>2, <2>2, <4>2
      <4>4. u[1].type = "connection_open" /\ Follows(u[j], u[j - 1], j)
        BY <2>2, <3>1, <4>1, <4>3
      <4>. QED  BY <1>2, <2>2, <3>1, <3>3, <4>2, <4>4
    <3>. QED  BY <1>2, <2>2, <3>1, <3>2, <3>3
  <2>. QED  BY <1>2, <2>1, <2>2
<1>4. u \in Seq(LinesFor(c))
  BY <1>2 DEF R
<1>. QED  BY <1>3, <1>4 DEF Story, u

(* What a handler's step leaves as it was. *)
LEMMA HandlerFrame ==
  ASSUME NEW told, Good(told), up, UNCHANGED <<run, up, reader, db>>, faults \subseteq faults',
         NEW more, \A c \in Conns : ToldMore(told, more, c),
         \A c \in Conns, dir \in {"in", "out"} :
           Bytes(c, dir)' \in Nat /\ Bytes(c, dir) <= Bytes(c, dir)'
  PROVE  Reading(more)' /\ Held(more)'
<1>1. Sensor(told) /\ Reading(told) /\ Held(told)
  BY DEF Good
<1>2. AllTold(told) /\ AllBytes
  BY <1>1, SensorSays
<1>3. \A c \in Conns, dir \in {"in", "out"} :
           Bytes(c, dir) \in Nat /\ Bytes(c, dir)' \in Nat /\ Bytes(c, dir) <= Bytes(c, dir)'
  BY <1>2 DEF AllBytes
<1>4. UNCHANGED <<reader, db>> /\ UNCHANGED db
  OBVIOUS
<1>5. Reading(more)'
  BY <1>1, <1>2, <1>3, <1>4, ReadingStays
<1>6. Held(more)'
  BY <1>1, <1>2, <1>4, HeldStays
<1>. QED  BY <1>5, <1>6

LEMMA ToldSame ==
  ASSUME NEW told, AllTold(told)
  PROVE  \A c \in Conns : ToldMore(told, told, c)
BY BeginsSame DEF AllTold, ToldMore

LEMMA ToldLonger ==
  ASSUME NEW told, AllTold(told), NEW c \in Conns, NEW line \in LinesFor(c), DOMAIN told = Conns
  PROVE  \E more : /\ DOMAIN more = Conns
                   /\ more[c] = Append(told[c], line)
                   /\ \A d \in Conns : d # c => more[d] = told[d]
                   /\ \A d \in Conns : ToldMore(told, more, d)
<1> DEFINE more == [told EXCEPT ![c] = Append(@, line)]
<1>1. /\ DOMAIN more = Conns /\ more[c] = Append(told[c], line)
      /\ \A d \in Conns : d # c => more[d] = told[d]
  OBVIOUS
<1> HIDE DEF more
<1>2. \A d \in Conns : ToldMore(told, more, d)
  <2> TAKE d \in Conns
  <2> DEFINE t == told[d]
  <2>1. t \in Seq(AllLines) /\ line \in AllLines
    BY DEF AllTold, LinesFor
  <2> HIDE DEF t
  <2>2. CASE d # c
    <3>1. Begins(t, t)
      BY <2>1, BeginsSame
    <3>. QED  BY <1>1, <2>1, <2>2, <3>1 DEF ToldMore, t
  <2>3. CASE d = c
    <3>1. Begins(t, Append(t, line)) /\ Append(t, line) \in Seq(AllLines)
      BY <2>1 DEF Begins
    <3>. QED  BY <1>1, <2>3, <3>1 DEF ToldMore, t
  <2>. QED  BY <2>2, <2>3
<1>. QED  BY <1>1, <1>2

LEMMA BytesSame ==
  ASSUME AllBytes, UNCHANGED <<bytesIn, bytesOut>>
  PROVE  \A c \in Conns, dir \in {"in", "out"} :
           Bytes(c, dir)' \in Nat /\ Bytes(c, dir) <= Bytes(c, dir)'
BY DEF AllBytes, Bytes

LEMMA GoodSays ==
  ASSUME NEW told, Good(told)
  PROVE  /\ Sensor(told) /\ TheJournal /\ TheEvents(told) /\ Reading(told) /\ Held(told)
         /\ AllTold(told) /\ AllBytes /\ run \in Nat /\ up \in BOOLEAN /\ DOMAIN told = Conns
<1>1. Sensor(told) /\ TheJournal /\ TheEvents(told) /\ Reading(told) /\ Held(told)
  BY DEF Good, TheJournal, TheEvents
<1>2. AllTold(told) /\ AllBytes
  BY <1>1, SensorSays
<1>. QED  BY <1>1, <1>2 DEF Sensor

LEMMA GoodIs ==
  ASSUME NEW told, Sensor(told)', TheJournal', TheEvents(told)', Reading(told)', Held(told)'
  PROVE  Good(told)'
BY DEF Good, TheJournal, TheEvents

LEMMA JournalIdle ==
  ASSUME TheJournal, UNCHANGED <<run, up, bytesIn, bytesOut, journalOK, journal>>, faults \subseteq faults'
  PROVE  TheJournal'
<1>1. journal \in Seq(JournalFile)
  BY DEF TheJournal, JournalKept
<1>2. journal' \in Seq(JournalFile) /\ SameFiles(journal, journal')
  BY <1>1 DEF SameFiles
<1>. QED  BY <1>2, JournalStays

LEMMA OpenIsGood ==
  ASSUME NEW told, Good(told), NEW c \in Conns, Open(c)
  PROVE  \E more : Good(more)'
<1>1. /\ Sensor(told) /\ TheJournal /\ TheEvents(told) /\ Reading(told) /\ Held(told)
      /\ AllTold(told) /\ AllBytes /\ run \in Nat /\ up \in BOOLEAN /\ DOMAIN told = Conns
  BY GoodSays
<1>2. /\ up /\ Home[c] = run /\ pc[c] = "away" /\ Working(c)
      /\ UNCHANGED <<run, up, bytesIn, bytesOut, requests, responseStart, reader, db>>
  BY DEF Open, At, Working, index
<1>3. /\ told[c] = << >> /\ bytesIn[c] = 0 /\ bytesOut[c] = 0 /\ requests[c] = 0
      /\ Lived(told[c], c) /\ Story(told[c], c)
      /\ DOMAIN pc = Conns /\ DOMAIN bytesIn = Conns /\ DOMAIN bytesOut = Conns
      /\ DOMAIN requests = Conns /\ DOMAIN responseStart = Conns
  BY <1>1, <1>2 DEF Sensor, Lived
<1>4. \A d \in Conns, dir \in {"in", "out"} :
        Bytes(d, dir)' \in Nat /\ Bytes(d, dir) <= Bytes(d, dir)'
  BY <1>1, <1>2, BytesSame
<1>5. CASE /\ journalOK /\ Goto(c, "read") /\ Emit(Line("connection_open", c))
           /\ UNCHANGED <<journal, journalOK>>
  <2> DEFINE line == Line("connection_open", c)
  <2>1. line \in LinesFor(c) /\ line.type = "connection_open"
    BY DEF Line, LinesFor, AllLines
  <2> HIDE DEF line
  <2>2. PICK more : /\ DOMAIN more = Conns
                    /\ more[c] = Append(told[c], line)
                    /\ \A d \in Conns : d # c => more[d] = told[d]
                    /\ \A d \in Conns : ToldMore(told, more, d)
    BY <1>1, <2>1, ToldLonger
  <2>3. TheEvents(more)' /\ faults \subseteq faults'
    BY <1>1, <1>2, <1>5, <2>1, <2>2, KnownStays, Emitted DEF line
  <2>4. TheJournal'
    BY <1>1, <1>2, <1>5, <2>3, JournalIdle
  <2>5. Story(more[c], c)
    <3> DEFINE t == told[c]
    <3>1. t = << >> /\ Story(t, c) /\ \A j \in DOMAIN t : FALSE
      BY <1>3
    <3> HIDE DEF t
    <3>2. Story(Append(t, line), c)
      BY <2>1, <3>1, StoryMore
    <3>. QED  BY <2>2, <3>2 DEF t
  <2>6. Lived(more[c], c)'
    <3> DEFINE t == << >>
               u == Append(t, line)
    <3>1. Len(u) = 1 /\ DOMAIN u = 1..1 /\ u[1] = line /\ u # << >>
      OBVIOUS
    <3>2. u = more[c]
      BY <1>3, <2>2
    <3> HIDE DEF u
    <3>3. \A j \in DOMAIN u : u[j].type = "connection_open"
      BY <2>1, <3>1
    <3>4. pc'[c] = "read" /\ ~(Home[c] > run)
      BY <1>1, <1>2, <1>3, <1>5 DEF Goto
    <3>5. bytesIn'[c] = 0 /\ bytesOut'[c] = 0 /\ requests'[c] = 0 /\ Home[c] = run' /\ run' = run
      BY <1>2, <1>3
    <3>6. Going(u, requests'[c], bytesOut'[c])
      BY <2>1, <3>1, <3>3, <3>5 DEF Going, End
    <3>7. Lived(u, c)'
      BY <3>1, <3>3, <3>4, <3>5, <3>6 DEF Lived
    <3>. QED  BY <3>2, <3>7
  <2>7. Sensor(more)'
    <3>1. DOMAIN pc' = Conns /\ \A d \in Conns : d # c => pc'[d] = pc[d]
      BY <1>3, <1>5 DEF Goto
    <3>. QED  BY <1>1, <1>2, <1>3, <2>2, <2>3, <2>5, <2>6, <3>1, SensorSteps
  <2>8. Reading(more)' /\ Held(more)'
    BY <1>2, <1>4, <2>2, <2>3, HandlerFrame
  <2>9. Good(more)'
    BY <2>3, <2>4, <2>7, <2>8, GoodIs
  <2>. QED  BY <2>9
<1>6. CASE JournalRefuses /\ Goto(c, "failed") /\ UNCHANGED <<events, jsonlHealthy>>
  <2>1. faults \subseteq faults' /\ "journal" \in faults'
    BY <1>6 DEF JournalRefuses, Fault
  <2>2. TheJournal'
    BY <1>1, <1>2, <1>4, <1>6, JournalRefused
  <2>3. \A d \in Conns : ToldMore(told, told, d)
    BY <1>1, ToldSame
  <2>4. TheEvents(told)'
    BY <1>1, <1>2, <1>6, <2>1, <2>3, KnownStays, EventsIdle
  <2>5. Lived(told[c], c)'
    <3>1. pc'[c] = "failed" /\ ~(Home[c] > run')
      BY <1>1, <1>2, <1>3, <1>6 DEF Goto
    <3>2. bytesIn'[c] = 0 /\ bytesOut'[c] = 0 /\ requests'[c] = 0
      BY <1>2, <1>3
    <3>3. DOMAIN told[c] = {}
      BY <1>3
    <3>. QED  BY <1>3, <2>1, <3>1, <3>2, <3>3 DEF Lived, Refused
  <2>6. Sensor(told)'
    <3>1. DOMAIN pc' = Conns /\ \A d \in Conns : d # c => pc'[d] = pc[d]
      BY <1>3, <1>6 DEF Goto
    <3>. QED  BY <1>1, <1>2, <1>3, <2>1, <2>5, <3>1, SensorSteps
  <2>7. Reading(told)' /\ Held(told)'
    BY <1>2, <1>4, <2>1, <2>3, HandlerFrame
  <2>8. Good(told)'
    BY <2>2, <2>4, <2>6, <2>7, GoodIs
  <2>. QED  BY <2>8
<1>. QED  BY <1>5, <1>6 DEF Open

(* A step of a handler that emits nothing. *)
LEMMA QuietStep ==
  ASSUME NEW told, Good(told), NEW c \in Conns, up,
         UNCHANGED <<run, up, reader, db, events, jsonlHealthy>>, faults \subseteq faults', TheJournal',
         \A d \in Conns, dir \in {"in", "out"} :
           Bytes(d, dir)' \in Nat /\ Bytes(d, dir) <= Bytes(d, dir)',
         DOMAIN pc' = Conns, DOMAIN bytesIn' = Conns, DOMAIN bytesOut' = Conns,
         DOMAIN requests' = Conns, DOMAIN responseStart' = Conns,
         \A d \in Conns : d # c =>
           /\ pc'[d] = pc[d] /\ bytesIn'[d] = bytesIn[d] /\ bytesOut'[d] = bytesOut[d]
           /\ requests'[d] = requests[d] /\ responseStart'[d] = responseStart[d],
         Lived(told[c], c)'
  PROVE  Good(told)'
<1>1. /\ Sensor(told) /\ TheJournal /\ TheEvents(told) /\ Reading(told) /\ Held(told)
      /\ AllTold(told) /\ AllBytes /\ run \in Nat /\ up \in BOOLEAN /\ DOMAIN told = Conns
  BY GoodSays
<1>2. \A d \in Conns : ToldMore(told, told, d)
  BY <1>1, ToldSame
<1>3. TheEvents(told)'
  BY <1>1, <1>2, KnownStays, EventsIdle
<1>4. Story(told[c], c)
  BY <1>1 DEF Sensor
<1>5. Sensor(told)'
  BY <1>1, <1>4, SensorSteps
<1>6. Reading(told)' /\ Held(told)'
  BY <1>2, HandlerFrame
<1>. QED  BY <1>3, <1>5, <1>6, GoodIs

(* A step of a handler that only emits. *)
LEMMA EmitStep ==
  ASSUME NEW told, Good(told), NEW c \in Conns, NEW line \in LinesFor(c), NEW label, Working(c),
         Emit(line), pc' = [pc EXCEPT ![c] = label],
         UNCHANGED <<run, up, bytesIn, bytesOut, requests, responseStart, journalOK, journal, reader, db>>,
         Story(Append(told[c], line), c), Lived(Append(told[c], line), c)'
  PROVE  \E more : Good(more)'
<1>1. /\ Sensor(told) /\ TheJournal /\ TheEvents(told) /\ Reading(told) /\ Held(told)
      /\ AllTold(told) /\ AllBytes /\ run \in Nat /\ up \in BOOLEAN /\ DOMAIN told = Conns
  BY GoodSays
<1>2. line \in LinesFor(c)
  OBVIOUS
<1>3. PICK more : /\ DOMAIN more = Conns
                  /\ more[c] = Append(told[c], line)
                  /\ \A d \in Conns : d # c => more[d] = told[d]
                  /\ \A d \in Conns : ToldMore(told, more, d)
  BY <1>1, <1>2, ToldLonger
<1>4. TheEvents(more)' /\ faults \subseteq faults'
  BY <1>1, <1>3, KnownStays, Emitted
<1>5. TheJournal'
  BY <1>1, <1>4, JournalIdle
<1>6. \A d \in Conns, dir \in {"in", "out"} :
        Bytes(d, dir)' \in Nat /\ Bytes(d, dir) <= Bytes(d, dir)'
  BY <1>1, BytesSame
<1>7. Sensor(more)'
  <2>1. /\ DOMAIN pc' = Conns /\ DOMAIN bytesIn' = Conns /\ DOMAIN bytesOut' = Conns
        /\ DOMAIN requests' = Conns /\ DOMAIN responseStart' = Conns
    BY <1>1 DEF Sensor
  <2>2. \A d \in Conns : d # c =>
           /\ pc'[d] = pc[d] /\ bytesIn'[d] = bytesIn[d] /\ bytesOut'[d] = bytesOut[d]
           /\ requests'[d] = requests[d] /\ responseStart'[d] = responseStart[d]
    BY <1>1 DEF Sensor
  <2>3. Story(more[c], c) /\ Lived(more[c], c)'
    BY <1>3
  <2>4. UNCHANGED <<run, up>>
    OBVIOUS
  <2>5. Sensor(told) /\ faults \subseteq faults' /\ DOMAIN more = Conns
        /\ \A d \in Conns : d # c => more[d] = told[d]
    BY <1>1, <1>3, <1>4
  <2>. QED  BY <2>1, <2>2, <2>3, <2>4, <2>5, SensorSteps
<1>8. Reading(more)' /\ Held(more)'
  BY <1>3, <1>4, <1>6, HandlerFrame DEF Working
<1>9. Good(more)'
  BY <1>4, <1>5, <1>7, <1>8, GoodIs
<1>. QED  BY <1>9

LEMMA ReadRequestIsGood ==
  ASSUME NEW told, Good(told), NEW c \in Conns, ReadRequest(c)
  PROVE  Good(told)'
<1>1. Sensor(told) /\ TheJournal /\ AllBytes /\ run \in Nat
  BY GoodSays
<1>2. /\ up /\ Home[c] = run /\ pc[c] = "read"
      /\ UNCHANGED <<run, up, bytesOut, jsonlHealthy, events, reader, db>>
  BY DEF ReadRequest, At, index
<1> DEFINE t == told[c]
<1>3. /\ Lived(t, c) /\ Story(t, c) /\ bytesIn[c] \in Nat /\ bytesOut[c] \in Nat
      /\ requests[c] = bytesIn[c] /\ Going(t, requests[c], bytesOut[c])
      /\ DOMAIN pc = Conns /\ DOMAIN bytesIn = Conns /\ DOMAIN bytesOut = Conns
      /\ DOMAIN requests = Conns /\ DOMAIN responseStart = Conns
  BY <1>1, <1>2 DEF Sensor, Lived
<1> HIDE DEF t
<1>4. CASE /\ JournalTakes([conn |-> c, dir |-> "in", at |-> bytesIn[c] + 1])
           /\ bytesIn' = [bytesIn EXCEPT ![c] = @ + 1]
           /\ requests' = [requests EXCEPT ![c] = @ + 1]
           /\ responseStart' = [responseStart EXCEPT ![c] = bytesOut[c]]
           /\ Goto(c, "write")
  <2>1. \A d \in Conns, e \in {"in", "out"} :
          Bytes(d, e) \in Nat /\ Bytes(d, e)' = Bytes(d, e) + IF d = c /\ e = "in" THEN 1 ELSE 0
    BY <1>1, <1>2, <1>3, <1>4 DEF AllBytes, Bytes
  <2>2. \A d \in Conns, e \in {"in", "out"} : Bytes(d, e)' \in Nat /\ Bytes(d, e) <= Bytes(d, e)'
    BY <2>1
  <2>3. TheJournal'
    <3>1. JournalTakes([conn |-> c, dir |-> "in", at |-> Bytes(c, "in") + 1])
      BY <1>4 DEF Bytes
    <3>2. UNCHANGED <<run, up>>
      BY <1>2
    <3>. QED  BY <1>1, <1>2, <2>1, <3>1, <3>2, JournalTaken
  <2>4. faults \subseteq faults'
    BY <1>4 DEF JournalTakes
  <2>5. /\ DOMAIN pc' = Conns /\ DOMAIN bytesIn' = Conns /\ DOMAIN bytesOut' = Conns
        /\ DOMAIN requests' = Conns /\ DOMAIN responseStart' = Conns
        /\ \A d \in Conns : d # c =>
           /\ pc'[d] = pc[d] /\ bytesIn'[d] = bytesIn[d] /\ bytesOut'[d] = bytesOut[d]
           /\ requests'[d] = requests[d] /\ responseStart'[d] = responseStart[d]
    BY <1>2, <1>3, <1>4 DEF Goto
  <2>6. Lived(t, c)'
    <3>1. /\ pc'[c] = "write" /\ bytesIn'[c] = bytesIn[c] + 1 /\ bytesOut'[c] = bytesOut[c]
          /\ requests'[c] = requests[c] + 1 /\ responseStart'[c] = bytesOut[c]
          /\ run' = run /\ ~(Home[c] > run')
      BY <1>1, <1>2, <1>3, <1>4 DEF Goto
    <3>2. requests'[c] > 0 /\ Going(t, requests'[c] - 1, responseStart'[c]) /\ responseStart'[c] <= bytesOut'[c]
      BY <1>3, <3>1
    <3>3. \A j \in DOMAIN t :
            /\ t[j].type = "exchange" =>
                 t[j].request <= bytesIn'[c] /\ t[j].outStart + t[j].outLength <= bytesOut'[c]
            /\ t[j].type = "connection_close" => pc'[c] = "done"
      <4> TAKE j \in DOMAIN t
      <4>1. t[j].type # "connection_close"
        BY <1>3 DEF Going
      <4>2. CASE t[j].type = "exchange"
        <5>1. t[j] \in AllLines /\ t[j].request <= bytesIn[c] /\ t[j].outStart + t[j].outLength <= bytesOut[c]
          BY <1>3, <4>2 DEF Lived, Story, LinesFor
        <5>2. t[j].request \in Nat
          BY <4>2, <5>1 DEF AllLines
        <5>. QED  BY <1>3, <3>1, <4>1, <5>1, <5>2
      <4>. QED  BY <4>1, <4>2
    <3>. QED  BY <1>3, <3>1, <3>2, <3>3 DEF Lived
  <2>. QED  BY <1>2, <2>2, <2>3, <2>4, <2>5, <2>6, QuietStep DEF t
<1>5. CASE /\ JournalRefuses /\ Goto(c, "failed")
           /\ UNCHANGED <<bytesIn, requests, responseStart>>
  <2>1. \A d \in Conns, e \in {"in", "out"} : Bytes(d, e)' \in Nat /\ Bytes(d, e) <= Bytes(d, e)'
    BY <1>1, <1>2, <1>5, BytesSame
  <2>2. TheJournal'
    BY <1>1, <1>2, <1>5, <2>1, JournalRefused
  <2>3. faults \subseteq faults'
    BY <1>5 DEF JournalRefuses, Fault
  <2>4. /\ DOMAIN pc' = Conns /\ DOMAIN bytesIn' = Conns /\ DOMAIN bytesOut' = Conns
        /\ DOMAIN requests' = Conns /\ DOMAIN responseStart' = Conns
        /\ \A d \in Conns : d # c =>
           /\ pc'[d] = pc[d] /\ bytesIn'[d] = bytesIn[d] /\ bytesOut'[d] = bytesOut[d]
           /\ requests'[d] = requests[d] /\ responseStart'[d] = responseStart[d]
    BY <1>2, <1>3, <1>5 DEF Goto
  <2>5. Lived(t, c)'
    <3>1. /\ pc'[c] = "failed" /\ bytesIn'[c] = bytesIn[c] /\ bytesOut'[c] = bytesOut[c]
          /\ requests'[c] = requests[c] /\ run' = run /\ ~(Home[c] > run')
      BY <1>1, <1>2, <1>3, <1>5 DEF Goto
    <3>2. \A j \in DOMAIN t : t[j].type # "connection_close"
      BY <1>3 DEF Going
    <3>. QED  BY <1>3, <3>1, <3>2 DEF Lived
  <2>. QED  BY <1>2, <2>1, <2>2, <2>3, <2>4, <2>5, QuietStep DEF t
<1>. QED  BY <1>4, <1>5 DEF ReadRequest

LEMMA StartIsNat ==
  ASSUME NEW c \in Conns, NEW t, Story(t, c), NEW n \in Nat, NEW out, Going(t, n, out)
  PROVE  out \in Nat
<1>1. /\ out = End(t) /\ t \in Seq(LinesFor(c)) /\ Len(t) = n + 1
      /\ \A j \in DOMAIN t : t[j].type # "connection_close"
  BY DEF Going, Story
<1>2. CASE Len(t) <= 1
  BY <1>1, <1>2 DEF End
<1>3. CASE ~(Len(t) <= 1)
  <2>1. Len(t) \in DOMAIN t /\ t[Len(t)] \in LinesFor(c) /\ Len(t) # 1
    BY <1>1, <1>3
  <2>2. t[Len(t)].type = "exchange"
    <3>1. t[Len(t)].type # "connection_open"
      BY <2>1 DEF Story
    <3>. QED  BY <1>1, <2>1, <3>1 DEF LinesFor, AllLines
  <2>3. t[Len(t)].outStart \in Nat /\ t[Len(t)].outLength \in Nat
    BY <2>1, <2>2 DEF LinesFor, AllLines
  <2>. QED  BY <1>1, <1>3, <2>3 DEF End
<1>. QED  BY <1>2, <1>3

LEMMA WriteResponseIsGood ==
  ASSUME NEW told, Good(told), NEW c \in Conns, WriteResponse(c)
  PROVE  Good(told)'
<1>1. Sensor(told) /\ TheJournal /\ AllBytes /\ run \in Nat
  BY GoodSays
<1>2. /\ up /\ Home[c] = run /\ pc[c] = "write" /\ bytesOut' = [bytesOut EXCEPT ![c] = @ + 1]
      /\ UNCHANGED <<run, up, bytesIn, requests, responseStart, jsonlHealthy, events, reader, db>>
  BY DEF WriteResponse, At, index
<1> DEFINE t == told[c]
<1>3. /\ Lived(t, c) /\ Story(t, c) /\ bytesIn[c] \in Nat /\ bytesOut[c] \in Nat
      /\ requests[c] > 0 /\ Going(t, requests[c] - 1, responseStart[c]) /\ responseStart[c] <= bytesOut[c]
      /\ DOMAIN pc = Conns /\ DOMAIN bytesIn = Conns /\ DOMAIN bytesOut = Conns
      /\ DOMAIN requests = Conns /\ DOMAIN responseStart = Conns
  BY <1>1, <1>2 DEF Sensor, Lived
<1>4. responseStart[c] \in Nat
  <2>1. requests[c] - 1 \in Nat
    BY <1>3 DEF Lived
  <2>. QED  BY <1>3, <2>1, StartIsNat
<1> HIDE DEF t
<1>5. \A d \in Conns, e \in {"in", "out"} :
        Bytes(d, e) \in Nat /\ Bytes(d, e)' = Bytes(d, e) + IF d = c /\ e = "out" THEN 1 ELSE 0
  BY <1>1, <1>2, <1>3 DEF AllBytes, Bytes
<1>6. \A d \in Conns, e \in {"in", "out"} : Bytes(d, e)' \in Nat /\ Bytes(d, e) <= Bytes(d, e)'
  BY <1>5
<1>7. ASSUME pc'[c] \in {"write", "writeFailed"}
      PROVE  Lived(t, c)'
  <2>1. /\ bytesIn'[c] = bytesIn[c] /\ bytesOut'[c] = bytesOut[c] + 1
        /\ requests'[c] = requests[c] /\ responseStart'[c] = responseStart[c]
        /\ run' = run /\ ~(Home[c] > run')
    BY <1>1, <1>2, <1>3
  <2>2. \A j \in DOMAIN t :
          /\ t[j].type = "exchange" =>
               t[j].request <= bytesIn'[c] /\ t[j].outStart + t[j].outLength <= bytesOut'[c]
          /\ t[j].type = "connection_close" => pc'[c] = "done"
    <3> TAKE j \in DOMAIN t
    <3>1. t[j].type # "connection_close"
      BY <1>3 DEF Going
    <3>2. CASE t[j].type = "exchange"
      <4>1. t[j] \in AllLines /\ t[j].request <= bytesIn[c] /\ t[j].outStart + t[j].outLength <= bytesOut[c]
        BY <1>3, <3>2 DEF Lived, Story, LinesFor
      <4>2. t[j].outStart \in Nat /\ t[j].outLength \in Nat
        BY <3>2, <4>1 DEF AllLines
      <4>. QED  BY <1>3, <2>1, <3>1, <4>1, <4>2
    <3>. QED  BY <3>1, <3>2
  <2>3. responseStart'[c] <= bytesOut'[c]
    BY <1>3, <1>4, <2>1
  <2>. QED  BY <1>3, <1>7, <2>1, <2>2, <2>3 DEF Lived
<1>8. CASE JournalTakes([conn |-> c, dir |-> "out", at |-> bytesOut[c] + 1]) /\ UNCHANGED pc
  <2>1. TheJournal'
    <3>1. JournalTakes([conn |-> c, dir |-> "out", at |-> Bytes(c, "out") + 1])
      BY <1>8 DEF Bytes
    <3>2. UNCHANGED <<run, up>>
      BY <1>2
    <3>. QED  BY <1>1, <1>2, <1>5, <3>1, <3>2, JournalTaken
  <2>2. faults \subseteq faults'
    BY <1>8 DEF JournalTakes
  <2>3. /\ DOMAIN pc' = Conns /\ DOMAIN bytesIn' = Conns /\ DOMAIN bytesOut' = Conns
        /\ DOMAIN requests' = Conns /\ DOMAIN responseStart' = Conns
        /\ \A d \in Conns : d # c =>
           /\ pc'[d] = pc[d] /\ bytesIn'[d] = bytesIn[d] /\ bytesOut'[d] = bytesOut[d]
           /\ requests'[d] = requests[d] /\ responseStart'[d] = responseStart[d]
    BY <1>2, <1>3, <1>8
  <2>4. Lived(t, c)'
    BY <1>2, <1>7, <1>8
  <2>. QED  BY <1>2, <1>6, <2>1, <2>2, <2>3, <2>4, QuietStep DEF t
<1>9. CASE JournalRefuses /\ Goto(c, "writeFailed")
  <2>1. TheJournal'
    BY <1>1, <1>2, <1>6, <1>9, JournalRefused
  <2>2. faults \subseteq faults'
    BY <1>9 DEF JournalRefuses, Fault
  <2>3. /\ DOMAIN pc' = Conns /\ DOMAIN bytesIn' = Conns /\ DOMAIN bytesOut' = Conns
        /\ DOMAIN requests' = Conns /\ DOMAIN responseStart' = Conns
        /\ \A d \in Conns : d # c =>
           /\ pc'[d] = pc[d] /\ bytesIn'[d] = bytesIn[d] /\ bytesOut'[d] = bytesOut[d]
           /\ requests'[d] = requests[d] /\ responseStart'[d] = responseStart[d]
    BY <1>2, <1>3, <1>9 DEF Goto
  <2>4. Lived(t, c)'
    BY <1>3, <1>7, <1>9 DEF Goto
  <2>. QED  BY <1>2, <1>6, <2>1, <2>2, <2>3, <2>4, QuietStep DEF t
<1>. QED  BY <1>8, <1>9 DEF WriteResponse

LEMMA EmitExchangeIsGood ==
  ASSUME NEW told, Good(told), NEW c \in Conns, EmitExchange(c)
  PROVE  \E more : Good(more)'
<1> DEFINE t == told[c]
           n == requests[c]
<1>0. PICK line : line = Exchange(c)
  OBVIOUS
<1>1. Sensor(told) /\ run \in Nat /\ AllTold(told)
  BY GoodSays
<1>2. /\ up /\ Home[c] = run /\ Working(c) /\ pc[c] \in {"write", "writeFailed"}
      /\ Emit(line)
      /\ UNCHANGED <<run, up, bytesIn, bytesOut, requests, responseStart, journalOK, journal, reader, db>>
  BY <1>0 DEF EmitExchange, At, Working, index
<1>3. pc' = [pc EXCEPT ![c] = "read"] \/ pc' = [pc EXCEPT ![c] = "failed"]
  BY DEF EmitExchange, Goto
<1>4. /\ Lived(t, c) /\ Story(t, c) /\ bytesIn[c] \in Nat /\ bytesOut[c] \in Nat
      /\ n > 0 /\ n = bytesIn[c] /\ Going(t, n - 1, responseStart[c]) /\ responseStart[c] <= bytesOut[c]
      /\ DOMAIN pc = Conns
  BY <1>1, <1>2 DEF Sensor, Lived
<1>5. responseStart[c] \in Nat
  <2>1. n - 1 \in Nat
    BY <1>4
  <2>. QED  BY <1>4, <2>1, StartIsNat
<1>6. /\ line \in LinesFor(c) /\ line.type = "exchange" /\ line.request = n /\ line.inStart = n - 1
      /\ line.inLength = 1 /\ line.outStart = responseStart[c]
      /\ line.outLength = bytesOut[c] - responseStart[c] /\ line.outLength \in Nat
  <2>1. bytesIn[c] - 1 \in Nat /\ bytesOut[c] - responseStart[c] \in Nat
    BY <1>4, <1>5
  <2>. QED  BY <1>0, <1>4, <1>5, <2>1 DEF Exchange, LinesFor, AllLines
<1>7. /\ t \in Seq(LinesFor(c)) /\ Len(t) = n /\ t[1].type = "connection_open" /\ End(t) = responseStart[c]
      /\ \A j \in DOMAIN t : t[j].type # "connection_close"
  BY <1>4 DEF Going, Story
<1> HIDE DEF t
<1> DEFINE u == Append(t, line)
           R == LinesFor(c)
<1>8. /\ Len(u) = Len(t) + 1 /\ Len(t) \in Nat /\ u # << >>
      /\ DOMAIN t = 1..Len(t) /\ DOMAIN u = 1..(Len(t) + 1)
      /\ \A j \in 1..Len(t) : u[j] = t[j]
      /\ u[Len(t) + 1] = line
  <2>1. t \in Seq(R) /\ line \in R
    BY <1>6, <1>7
  <2> HIDE DEF R, u
  <2>. QED  BY <2>1, LineAdded DEF u
<1> HIDE DEF u, R
<1>9. Story(u, c)
  <2>1. t # << >> /\ Follows(line, t[Len(t)], Len(t) + 1)
    <3>1. line.outStart = IF Len(t) + 1 = 2 THEN 0 ELSE t[Len(t)].outStart + t[Len(t)].outLength
      BY <1>4, <1>6, <1>7, <1>8 DEF End
    <3>2. Len(t) # 0
      BY <1>4, <1>7
    <3>3. line.request = (Len(t) + 1) - 1 /\ line.inStart = (Len(t) + 1) - 2
      BY <1>4, <1>6, <1>7, <1>8
    <3>. QED  BY <1>6, <3>1, <3>2, <3>3 DEF Follows
  <2>2. line.type # "connection_open"
    BY <1>6
  <2>. QED  BY <1>4, <1>6, <1>7, <2>1, <2>2, StoryMore DEF u
<1>10. Lived(u, c)'
  <2>1. /\ pc'[c] \in {"read", "failed"} /\ bytesIn'[c] = bytesIn[c] /\ bytesOut'[c] = bytesOut[c]
        /\ requests'[c] = n /\ run' = run /\ ~(Home[c] > run')
    BY <1>1, <1>2, <1>3, <1>4
  <2>2. \A j \in DOMAIN u : (j \in DOMAIN t /\ u[j] = t[j]) \/ u[j] = line
    BY <1>8
  <2>3. \A j \in DOMAIN u : u[j].type # "connection_close"
    BY <1>6, <1>7, <2>2
  <2>4. \A j \in DOMAIN u : u[j].type = "exchange" =>
          u[j].request <= bytesIn[c] /\ u[j].outStart + u[j].outLength <= bytesOut[c]
    <3> TAKE j \in DOMAIN u
    <3>1. CASE j \in DOMAIN t /\ u[j] = t[j]
      BY <1>4, <3>1 DEF Lived
    <3>2. CASE u[j] = line
      <4>1. line.request <= bytesIn[c]
        BY <1>4, <1>6
      <4>2. line.outStart + line.outLength <= bytesOut[c]
        BY <1>4, <1>5, <1>6
      <4>. QED  BY <3>2, <4>1, <4>2
    <3>. QED  BY <2>2, <3>1, <3>2
  <2>5. Going(u, n, bytesOut[c])
    <3>1. Len(u) = n + 1 /\ u[1] = t[1] /\ u[Len(u)] = line
      BY <1>4, <1>7, <1>8
    <3>2. End(u) = line.outStart + line.outLength
      BY <1>4, <3>1 DEF End
    <3>3. line.outStart + line.outLength = bytesOut[c]
      BY <1>4, <1>5, <1>6
    <3>. QED  BY <1>7, <2>3, <3>1, <3>2, <3>3 DEF Going
  <2>6. Going(u, requests'[c], bytesOut'[c]) /\ bytesIn'[c] \in Nat /\ bytesOut'[c] \in Nat
        /\ requests'[c] = bytesIn'[c]
    BY <1>4, <2>1, <2>5
  <2>7. \A j \in DOMAIN u :
          /\ u[j].type = "exchange" =>
               u[j].request <= bytesIn'[c] /\ u[j].outStart + u[j].outLength <= bytesOut'[c]
          /\ u[j].type = "connection_close" => pc'[c] = "done"
    BY <2>1, <2>3, <2>4
  <2>8. pc'[c] \in {"read", "failed"} /\ ~(Home[c] > run')
    BY <2>1
  <2>9. CASE pc'[c] = "read"
    BY <2>6, <2>7, <2>8, <2>9 DEF Lived
  <2>10. CASE pc'[c] = "failed"
    BY <2>6, <2>7, <2>8, <2>10 DEF Lived
  <2>. QED  BY <2>8, <2>9, <2>10
<1>11. Story(Append(told[c], line), c) /\ Lived(Append(told[c], line), c)'
  BY <1>9, <1>10 DEF u, t
<1>12. line \in LinesFor(c) /\ Working(c) /\ Emit(line)
       /\ UNCHANGED <<run, up, bytesIn, bytesOut, requests, responseStart, journalOK, journal,
                      reader, db>>
  BY <1>2, <1>6
<1>13. CASE pc' = [pc EXCEPT ![c] = "read"]
  BY <1>11, <1>12, <1>13, EmitStep
<1>14. CASE pc' = [pc EXCEPT ![c] = "failed"]
  BY <1>11, <1>12, <1>14, EmitStep
<1>. QED  BY <1>3, <1>13, <1>14

LEMMA CloseIsGood ==
  ASSUME NEW told, Good(told), NEW c \in Conns, Close(c)
  PROVE  \E more : Good(more)'
<1> DEFINE t == told[c]
           line == Line("connection_close", c)
           n == Len(t)
<1>1. Sensor(told) /\ run \in Nat /\ AllTold(told)
  BY GoodSays
<1>2. /\ up /\ Home[c] = run /\ Working(c) /\ pc[c] \in {"read", "failed"}
      /\ Emit(line) /\ pc' = [pc EXCEPT ![c] = "done"]
      /\ UNCHANGED <<run, up, bytesIn, bytesOut, requests, responseStart, journalOK, journal, reader, db>>
  BY DEF Close, At, Working, index, Goto
<1>3. /\ Lived(t, c) /\ Story(t, c) /\ t \in Seq(LinesFor(c)) /\ DOMAIN pc = Conns
      /\ bytesIn[c] \in Nat /\ bytesOut[c] \in Nat /\ requests[c] = bytesIn[c]
      /\ Going(t, requests[c], bytesOut[c]) \/ (t = << >> /\ Refused(t, c))
  BY <1>1, <1>2 DEF Sensor, Lived, Story
<1>4. line \in LinesFor(c) /\ line.type = "connection_close"
  BY DEF Line, LinesFor, AllLines
<1>5. \A j \in DOMAIN t : t[j].type # "connection_close"
  <2>1. CASE t = << >>
    BY <2>1
  <2>2. CASE Going(t, requests[c], bytesOut[c])
    BY <2>2 DEF Going
  <2>. QED  BY <1>3, <2>1, <2>2
<1> HIDE DEF t, line, n
<1> DEFINE u == Append(t, line)
           R == LinesFor(c)
<1>6. /\ Len(u) = n + 1 /\ n \in Nat /\ u # << >>
      /\ DOMAIN t = 1..n /\ DOMAIN u = 1..(n + 1)
      /\ \A j \in 1..n : u[j] = t[j]
      /\ u[n + 1] = line /\ (t = << >> <=> n = 0)
  <2>1. t \in Seq(R) /\ line \in R
    BY <1>3, <1>4
  <2> HIDE DEF R, u
  <2>. QED  BY <2>1, LineAdded DEF u, n
<1> HIDE DEF u, R
<1>7. Story(u, c)
  <2>1. line.type # "connection_open" /\ line.type # "exchange"
    BY <1>4
  <2>. QED  BY <1>3, <1>4, <1>5, <2>1, StoryMore DEF u
<1>8. Lived(u, c)'
  <2>1. /\ pc'[c] = "done" /\ bytesIn'[c] = bytesIn[c] /\ bytesOut'[c] = bytesOut[c]
        /\ requests'[c] = requests[c] /\ run' = run /\ ~(Home[c] > run')
    BY <1>1, <1>2, <1>3
  <2>2. \A j \in DOMAIN u : u[j].type = "exchange" =>
          u[j].request <= bytesIn[c] /\ u[j].outStart + u[j].outLength <= bytesOut[c]
    <3> TAKE j \in DOMAIN u
    <3>1. CASE j \in DOMAIN t /\ u[j] = t[j]
      BY <1>3, <3>1 DEF Lived
    <3>2. CASE u[j] = line
      BY <1>4, <3>2
    <3>. QED  BY <1>6, <3>1, <3>2
  <2>3. Len(u) = 1 => Refused(u, c)'
    <3>1. CASE Going(t, requests[c], bytesOut[c])
      <4>1. n = requests[c] + 1 /\ requests[c] \in Nat
        BY <1>3, <3>1 DEF Going, n
      <4>2. Len(u) # 1
        BY <1>6, <4>1
      <4>. QED  BY <4>2
    <3>2. CASE Refused(t, c)
      <4>1. faults \subseteq faults'
        BY <1>2 DEF Emit, Fault
      <4>. QED  BY <2>1, <3>2, <4>1 DEF Refused
    <3>. QED  BY <1>3, <3>1, <3>2
  <2>4. u[Len(u)].type = "connection_close"
    BY <1>4, <1>6
  <2>. QED  BY <1>3, <1>6, <2>1, <2>2, <2>3, <2>4 DEF Lived
<1>9. Story(Append(told[c], line), c) /\ Lived(Append(told[c], line), c)'
  BY <1>7, <1>8 DEF u, t
<1>10. line \in LinesFor(c) /\ pc' = [pc EXCEPT ![c] = "done"]
  BY <1>2, <1>4
<1>. QED  BY <1>2, <1>9, <1>10, EmitStep

-----------------------------------------------------------------------------
(* The steps of the sensor that are not a handler's.                       *)
LEMMA InitIsGood == Init => \E told : Good(told)
<1> SUFFICES ASSUME Init PROVE \E told : Good(told)
  OBVIOUS
<1> DEFINE none == << >>
           told == [c \in Conns |-> none]
<1>1. /\ run = 0 /\ up = FALSE /\ journalOK = FALSE /\ jsonlHealthy = FALSE
      /\ journal = none /\ events = none /\ faults = {} /\ reader = Idle
      /\ \A c \in Conns : /\ pc[c] = "away" /\ bytesIn[c] = 0 /\ bytesOut[c] = 0
                          /\ requests[c] = 0 /\ responseStart[c] = 0
      /\ DOMAIN pc = Conns /\ DOMAIN bytesIn = Conns /\ DOMAIN bytesOut = Conns
      /\ DOMAIN requests = Conns /\ DOMAIN responseStart = Conns
      /\ DOMAIN db.connections = {} /\ DOMAIN db.exchanges = {}
  BY DEF Init
<1>2. DOMAIN told = Conns /\ (\A c \in Conns : told[c] = none)
      /\ none = << >> /\ DOMAIN none = {} /\ Len(none) = 0
      /\ none \in Seq(JournalFile) /\ none \in Seq(EventFile) /\ none \in Seq(AllUnits) /\ none \in Seq(AllLines)
      /\ \A c \in Conns : none \in Seq(LinesFor(c))
  OBVIOUS
<1>3. LinesOf(none) = none /\ UnitsOf(none) = none
  <2>1. [i \in DOMAIN none |-> none[i].lines] = none /\ [i \in DOMAIN none |-> none[i].units] = none
    OBVIOUS
  <2>. QED  BY <2>1, FlattenEmpty DEF LinesOf, UnitsOf
<1>4. \A c \in Conns, dir \in {"in", "out"} : Stream(none, c, dir) = none
  <2> TAKE c \in Conns, dir \in {"in", "out"}
  <2>1. Stream(none, c, dir) = Kept(UnitsOf(none), UnitsFor(c, dir))
    BY <1>2, UnitsType
  <2>2. Kept(none, UnitsFor(c, dir)) = none
    BY KeptEmpty
  <2>. QED  BY <1>3, <2>1, <2>2
<1>5. \A c \in Conns : LogOf(none, c) = none
  BY <1>3, KeptEmpty DEF LogOf
<1>6. \A c \in Conns, dir \in {"in", "out"} : Bytes(c, dir) = 0 /\ Truly(c, dir, 0, 0) = none
  BY <1>1 DEF Bytes, Truly
<1> HIDE DEF none, told
<1>7. InTurn(none, 0, FALSE)
  BY <1>2 DEF InTurn
<1>8. TheJournal
  <2>1. JournalKept
    BY <1>1, <1>2, <1>7 DEF JournalKept
  <2>2. Recorded(journal) /\ Complete
    BY <1>1, <1>4, <1>6 DEF Recorded, Complete
  <2>. QED  BY <2>1, <2>2 DEF TheJournal
<1>9. TheEvents(told)
  <2>1. EventsKept
    BY <1>1, <1>2, <1>7 DEF EventsKept
  <2>2. \A c \in Conns : Begins(none, told[c])
    BY <1>2 DEF Begins
  <2>3. \A c \in Conns : ~KnownClosed(c)
    BY <1>1 DEF KnownClosed, Idle
  <2>4. Logged(events, told)
    BY <1>1, <1>2, <1>3, <1>5, <2>2, <2>3 DEF Logged
  <2>5. Healthy(told)
    BY <1>1, <1>5 DEF Healthy
  <2>. QED  BY <2>1, <2>4, <2>5 DEF TheEvents
<1>10. Sensor(told)
  <2>1. \A c \in Conns : Story(told[c], c)
    BY <1>2 DEF Story
  <2>2. ASSUME NEW c \in Conns PROVE Lived(told[c], c)
    <3>1. /\ bytesIn[c] \in Nat /\ bytesOut[c] \in Nat /\ requests[c] = bytesIn[c]
          /\ pc[c] = "away" /\ told[c] = << >> /\ DOMAIN told[c] = {} /\ bytesIn[c] = 0 /\ bytesOut[c] = 0
      BY <1>1, <1>2
    <3>. QED  BY <3>1 DEF Lived
  <2>. QED  BY <1>1, <1>2, <2>1, <2>2 DEF Sensor
<1>11. Reading(told)
  BY <1>1 DEF Reading, Idle
<1>12. Held(told)
  BY <1>1 DEF Held
<1>. QED  BY <1>8, <1>9, <1>10, <1>11, <1>12 DEF Good, TheJournal, TheEvents

LEMMA SystemFrame ==
  ASSUME NEW told, Good(told), run' \in Nat, run <= run', up' \in BOOLEAN,
         UNCHANGED <<connection, db>>, faults \subseteq faults'
  PROVE  /\ Sensor(told)' /\ Held(told)'
         /\ TheJournal /\ TheEvents(told) /\ Reading(told)
         /\ AllTold(told) /\ AllBytes /\ run \in Nat /\ up \in BOOLEAN
         /\ \A c \in Conns : ToldMore(told, told, c)
         /\ UNCHANGED <<bytesIn, bytesOut>>
         /\ \A c \in Conns, dir \in {"in", "out"} :
              Bytes(c, dir) \in Nat /\ Bytes(c, dir)' \in Nat /\ Bytes(c, dir) <= Bytes(c, dir)'
         /\ \A c \in Conns : Home[c] > run =>
              told[c] = << >> /\ \A dir \in {"in", "out"} : Bytes(c, dir) = 0
<1>1. /\ Sensor(told) /\ TheJournal /\ TheEvents(told) /\ Reading(told) /\ Held(told)
      /\ AllTold(told) /\ AllBytes /\ run \in Nat /\ up \in BOOLEAN
  BY GoodSays
<1>2. Sensor(told)'
  BY <1>1, SensorStays
<1>3. \A c \in Conns : ToldMore(told, told, c)
  BY <1>1, ToldSame
<1>4. Held(told)'
  BY <1>1, <1>3, HeldStays
<1>5. UNCHANGED <<bytesIn, bytesOut>>
  BY DEF connection
<1>6. \A c \in Conns, dir \in {"in", "out"} :
        Bytes(c, dir) \in Nat /\ Bytes(c, dir)' \in Nat /\ Bytes(c, dir) <= Bytes(c, dir)'
  BY <1>1, <1>5, BytesSame DEF AllBytes
<1>7. \A c \in Conns : Home[c] > run =>
              told[c] = << >> /\ \A dir \in {"in", "out"} : Bytes(c, dir) = 0
  BY <1>1, SensorSays
<1>. QED  BY <1>1, <1>2, <1>3, <1>4, <1>5, <1>6, <1>7

LEMMA StartRunIsGood ==
  ASSUME NEW told, Good(told), StartRun
  PROVE  Good(told)'
<1>0. /\ ~up /\ run' = run + 1 /\ up' = TRUE /\ journalOK' /\ jsonlHealthy'
      /\ journal' = Append(journal, NewJournal(run')) /\ events' = Append(events, NewEvents(run'))
      /\ reader' = [reader EXCEPT !.live = reader.first # "none"]
      /\ UNCHANGED <<connection, faults, db>> /\ run \in Nat
  BY GoodSays DEF StartRun
<1>1. run' \in Nat /\ run <= run' /\ up' \in BOOLEAN /\ faults \subseteq faults'
  BY <1>0
<1>2. /\ Sensor(told)' /\ Held(told)'
      /\ TheJournal /\ TheEvents(told) /\ Reading(told)
      /\ AllTold(told) /\ AllBytes
      /\ \A c \in Conns : ToldMore(told, told, c)
      /\ UNCHANGED <<bytesIn, bytesOut>>
      /\ \A c \in Conns, dir \in {"in", "out"} :
           Bytes(c, dir) \in Nat /\ Bytes(c, dir)' \in Nat /\ Bytes(c, dir) <= Bytes(c, dir)'
      /\ \A c \in Conns : Home[c] > run =>
           told[c] = << >> /\ \A dir \in {"in", "out"} : Bytes(c, dir) = 0
  BY <1>0, <1>1, SystemFrame
<1>3. TheJournal'
  BY <1>0, <1>2, JournalStarted
<1>4. TheEvents(told)'
  <2>1. reader'.first = reader.first /\ reader'.files = reader.files
    BY <1>0, <1>2 DEF Reading
  <2>. QED  BY <1>0, <1>2, <2>1, KnownStays, EventsStarted
<1>5. PICK live \in BOOLEAN : live = (reader.first # "none")
  OBVIOUS
<1>6. Reading(told)'
  BY <1>0, <1>1, <1>2, <1>5, ReadingGoesOn
<1>. QED  BY <1>2, <1>3, <1>4, <1>6, GoodIs

LEMMA RotateJournalIsGood ==
  ASSUME NEW told, Good(told), RotateJournal
  PROVE  Good(told)'
<1>0. /\ up /\ journalOK /\ journal' = Append(SyncNewest(journal), NewJournal(run))
      /\ UNCHANGED <<run, up, connection, journalOK, jsonlHealthy, events, faults, reader, db>>
      /\ run \in Nat /\ up \in BOOLEAN
  BY GoodSays DEF RotateJournal, sensor, index
<1>1. run' \in Nat /\ run <= run' /\ up' \in BOOLEAN /\ faults \subseteq faults'
  BY <1>0
<1>2. /\ Sensor(told)' /\ Held(told)'
      /\ TheJournal /\ TheEvents(told) /\ Reading(told)
      /\ AllTold(told) /\ AllBytes
      /\ \A c \in Conns : ToldMore(told, told, c)
      /\ UNCHANGED <<bytesIn, bytesOut>>
      /\ \A c \in Conns, dir \in {"in", "out"} :
           Bytes(c, dir) \in Nat /\ Bytes(c, dir)' \in Nat /\ Bytes(c, dir) <= Bytes(c, dir)'
  BY <1>0, <1>1, SystemFrame
<1>3. TheJournal'
  <2> DEFINE f == NewJournal(run)
  <2>1. f \in JournalFile /\ f.units = << >> /\ f.run = run' /\ f.header
    <3>1. << >> \in Seq(AllUnits)
      OBVIOUS
    <3>. QED  BY <1>0, <3>1 DEF NewJournal, JournalFile
  <2>2. journal' = Append(SyncNewest(journal), f)
    BY <1>0
  <2> HIDE DEF f
  <2>3. ASSUME NEW c \in Conns, NEW dir \in {"in", "out"},
               faults' \cap {"journal", "power"} = {} \/ (Working(c)' /\ journalOK')
        PROVE  Stream(journal, c, dir) = Truly(c, dir, 0, Bytes(c, dir)')
    <3>1. faults \cap {"journal", "power"} = {} \/ (Working(c) /\ journalOK)
      BY <1>0, <2>3 DEF Working
    <3>2. Bytes(c, dir)' = Bytes(c, dir)
      BY <1>2 DEF Bytes
    <3>. QED  BY <1>2, <3>1, <3>2 DEF TheJournal, Complete
  <2>4. (~f.header => "journal" \in faults') /\ (~journalOK' => "journal" \in faults') /\ UNCHANGED run
    BY <1>0, <2>1
  <2> HIDE DEF TheJournal
  <2>. QED  BY <1>0, <1>1, <1>2, <2>1, <2>2, <2>3, <2>4, JournalNext
<1>4. TheEvents(told)'
  <2>1. \A c \in Conns : ToldMore(told, told, c) /\ (Working(c)' /\ jsonlHealthy' => told[c] = told[c])
    BY <1>2
  <2>. QED  BY <1>0, <1>2, <2>1, KnownStays, EventsIdle
<1>5. Reading(told)'
  BY <1>0, <1>1, <1>2, ReadingStays
<1>. QED  BY <1>2, <1>3, <1>4, <1>5, GoodIs

LEMMA RotateEventsIsGood ==
  ASSUME NEW told, Good(told), RotateEvents
  PROVE  Good(told)'
<1>0. /\ up /\ jsonlHealthy /\ events' = Append(SyncNewest(events), NewEvents(run))
      /\ UNCHANGED <<run, up, connection, journalOK, jsonlHealthy, journal, faults, reader, db>>
      /\ run \in Nat /\ up \in BOOLEAN
  BY GoodSays DEF RotateEvents, sensor, index
<1>1. run' \in Nat /\ run <= run' /\ up' \in BOOLEAN /\ faults \subseteq faults'
  BY <1>0
<1>2. /\ Sensor(told)' /\ Held(told)'
      /\ TheJournal /\ TheEvents(told) /\ Reading(told)
      /\ AllTold(told) /\ AllBytes
      /\ \A c \in Conns : ToldMore(told, told, c)
      /\ UNCHANGED <<bytesIn, bytesOut>>
      /\ \A c \in Conns, dir \in {"in", "out"} :
           Bytes(c, dir) \in Nat /\ Bytes(c, dir)' \in Nat /\ Bytes(c, dir) <= Bytes(c, dir)'
  BY <1>0, <1>1, SystemFrame
<1>3. TheEvents(told)'
  BY <1>0, <1>1, <1>2, KnownStays, EventsNext
<1>4. TheJournal'
  BY <1>0, <1>1, <1>2, JournalIdle
<1>5. Reading(told)'
  BY <1>0, <1>1, <1>2, ReadingStays
<1>. QED  BY <1>2, <1>3, <1>4, <1>5, GoodIs

(* The newest file while it is written, or as a kill leaves it. *)
LEMMA UnfinishedEvents ==
  ASSUME NEW f \in EventFile, NEW g \in Unfinished(f, "events")
  PROVE  /\ g \in EventFile /\ g.run = f.run /\ g.lines = f.lines /\ g.synced = f.synced
         /\ g = f \/ (jsonlHealthy /\ g.cut)
<1>1. g = f \/ (jsonlHealthy /\ g = [f EXCEPT !.cut = TRUE])
  BY DEF Unfinished
<1>. QED  BY <1>1 DEF EventFile

LEMMA UnfinishedJournal ==
  ASSUME NEW f \in JournalFile, NEW g \in Unfinished(f, "journal")
  PROVE  /\ g \in JournalFile /\ g.run = f.run /\ g.units = f.units /\ g.synced = f.synced
         /\ g = f \/ (journalOK /\ ~g.header)
<1>1. g = f \/ (journalOK /\ g = [f EXCEPT !.header = FALSE])
  BY DEF Unfinished
<1>. QED  BY <1>1 DEF JournalFile

LEMMA StopIsGood ==
  ASSUME NEW told, Good(told), Stop
  PROVE  Good(told)'
<1>0. /\ up /\ ~up' /\ journal' = SyncNewest(journal) /\ events' = SyncNewest(events)
      /\ UNCHANGED <<run, connection, journalOK, jsonlHealthy, faults, reader, db>>
      /\ run \in Nat /\ up' \in BOOLEAN
  BY GoodSays DEF Stop, index
<1>1. run' \in Nat /\ run <= run' /\ faults \subseteq faults'
  BY <1>0
<1>2. /\ Sensor(told)' /\ Held(told)'
      /\ TheJournal /\ TheEvents(told) /\ Reading(told)
      /\ AllTold(told) /\ AllBytes
      /\ \A c \in Conns : ToldMore(told, told, c)
      /\ UNCHANGED <<bytesIn, bytesOut>>
      /\ \A c \in Conns, dir \in {"in", "out"} :
           Bytes(c, dir) \in Nat /\ Bytes(c, dir)' \in Nat /\ Bytes(c, dir) <= Bytes(c, dir)'
  BY <1>0, <1>1, SystemFrame
<1>3. /\ events \in Seq(EventFile) /\ events # << >> /\ journal \in Seq(JournalFile) /\ journal # << >>
  BY <1>0, <1>2 DEF TheJournal, JournalKept, TheEvents, EventsKept, InTurn
<1>4. TheEvents(told)'
  <2>1. \A c \in Conns : ToldMore(told, told, c) /\ (Working(c)' /\ jsonlHealthy' => told[c] = told[c])
    BY <1>2
  <2>2. /\ events' \in Seq(EventFile) /\ SameFiles(events, events')
        /\ \A i \in DOMAIN events : events'[i].lines = events[i].lines /\ events'[i].cut = events[i].cut
    <3> DEFINE g == SyncNewest(events)
    <3>1. /\ g \in Seq(EventFile) /\ SameFiles(events, g)
          /\ \A i \in DOMAIN events : g[i].lines = events[i].lines /\ g[i].cut = events[i].cut
      BY <1>3, EventsSynced
    <3> HIDE DEF g
    <3>2. events' = g
      BY <1>0 DEF g
    <3>. QED  BY <3>1, <3>2
  <2>. QED  BY <1>0, <1>1, <1>2, <2>1, <2>2, KnownStays, EventsStay
<1>5. TheJournal'
  <2>1. /\ journal' \in Seq(JournalFile) /\ SameFiles(journal, journal')
        /\ \A i \in DOMAIN journal : journal'[i].units = journal[i].units /\ journal'[i].header = journal[i].header
    <3> DEFINE g == SyncNewest(journal)
    <3>1. /\ g \in Seq(JournalFile) /\ SameFiles(journal, g)
          /\ \A i \in DOMAIN journal : g[i].units = journal[i].units /\ g[i].header = journal[i].header
      BY <1>3, JournalSynced
    <3> HIDE DEF g
    <3>2. journal' = g
      BY <1>0 DEF g
    <3>. QED  BY <3>1, <3>2
  <2>. QED  BY <1>0, <1>1, <1>2, <2>1, JournalStays
<1>6. Reading(told)'
  BY <1>0, <1>1, <1>2, ReadingStays
<1>. QED  BY <1>2, <1>4, <1>5, <1>6, GoodIs

LEMMA KillIsGood ==
  ASSUME NEW told, Good(told), Kill
  PROVE  Good(told)'
<1>0. /\ up /\ ~up' /\ Fault("kill")
      /\ \E f \in Unfinished(Last(journal), "journal"), g \in Unfinished(Last(events), "events") :
           /\ journal' = [journal EXCEPT ![Len(journal)] = f]
           /\ events' = [events EXCEPT ![Len(events)] = g]
      /\ UNCHANGED <<run, connection, journalOK, jsonlHealthy, reader, db>>
      /\ run \in Nat /\ up' \in BOOLEAN
  BY GoodSays DEF Kill, index
<1>1. run' \in Nat /\ run <= run' /\ faults \subseteq faults' /\ "kill" \in faults'
  BY <1>0 DEF Fault
<1>2. /\ Sensor(told)' /\ Held(told)'
      /\ TheJournal /\ TheEvents(told) /\ Reading(told)
      /\ AllTold(told) /\ AllBytes
      /\ \A c \in Conns : ToldMore(told, told, c)
      /\ UNCHANGED <<bytesIn, bytesOut>>
      /\ \A c \in Conns, dir \in {"in", "out"} :
           Bytes(c, dir) \in Nat /\ Bytes(c, dir)' \in Nat /\ Bytes(c, dir) <= Bytes(c, dir)'
  BY <1>0, <1>1, SystemFrame
<1>3. /\ events \in Seq(EventFile) /\ events # << >> /\ journal \in Seq(JournalFile) /\ journal # << >>
  BY <1>0, <1>2 DEF TheJournal, JournalKept, TheEvents, EventsKept, InTurn
<1>4. TheEvents(told)'
  <2>1. \A c \in Conns : ToldMore(told, told, c) /\ (Working(c)' /\ jsonlHealthy' => told[c] = told[c])
    BY <1>2
  <2>2. PICK g \in Unfinished(Last(events), "events") : events' = [events EXCEPT ![Len(events)] = g]
    BY <1>0
  <2>3. /\ Last(events) = events[Len(events)] /\ Last(events) \in EventFile
    BY <1>3 DEF Last
  <2>4. /\ g \in EventFile /\ g.run = events[Len(events)].run /\ g.lines = events[Len(events)].lines
        /\ g.synced = events[Len(events)].synced
    BY <2>3, UnfinishedEvents
  <2>5. /\ events' \in Seq(EventFile) /\ SameFiles(events, events')
        /\ \A i \in DOMAIN events : events'[i].lines = events[i].lines
    <3> DEFINE h == [events EXCEPT ![Len(events)] = g]
    <3>1. /\ h \in Seq(EventFile) /\ SameFiles(events, h) /\ DOMAIN events = 1..Len(events)
          /\ \A i \in 1..Len(events) : h[i].lines = events[i].lines
      BY <1>3, <2>4, EventsAlike
    <3> HIDE DEF h
    <3>2. events' = h
      BY <2>2 DEF h
    <3>. QED  BY <3>1, <3>2
  <2>6. faults' \cap {"events", "kill", "power"} # {}
    BY <1>1
  <2>. QED  BY <1>0, <1>1, <1>2, <2>1, <2>5, <2>6, KnownStays, EventsStay
<1>5. TheJournal'
  <2>2. PICK g \in Unfinished(Last(journal), "journal") : journal' = [journal EXCEPT ![Len(journal)] = g]
    BY <1>0
  <2>3. /\ Last(journal) = journal[Len(journal)] /\ Last(journal) \in JournalFile
    BY <1>3 DEF Last
  <2>4. /\ g \in JournalFile /\ g.run = journal[Len(journal)].run /\ g.units = journal[Len(journal)].units
        /\ g.synced = journal[Len(journal)].synced
    BY <2>3, UnfinishedJournal
  <2>5. /\ journal' \in Seq(JournalFile) /\ SameFiles(journal, journal')
        /\ \A i \in DOMAIN journal : journal'[i].units = journal[i].units
    <3> DEFINE h == [journal EXCEPT ![Len(journal)] = g]
    <3>1. /\ h \in Seq(JournalFile) /\ SameFiles(journal, h) /\ DOMAIN journal = 1..Len(journal)
          /\ \A i \in 1..Len(journal) : h[i].units = journal[i].units
      BY <1>3, <2>4, JournalAlike
    <3> HIDE DEF h
    <3>2. journal' = h
      BY <2>2 DEF h
    <3>. QED  BY <3>1, <3>2
  <2>6. faults' \cap {"journal", "kill", "power"} # {}
    BY <1>1
  <2>. QED  BY <1>0, <1>1, <1>2, <2>5, <2>6, JournalStays
<1>6. Reading(told)'
  BY <1>0, <1>1, <1>2, ReadingStays
<1>. QED  BY <1>2, <1>4, <1>5, <1>6, GoodIs

LEMMA PowerLossIsGood ==
  ASSUME NEW told, Good(told), PowerLoss
  PROVE  Good(told)'
<1>0. /\ ~up' /\ Fault("power") /\ journal' \in AfterLoss(journal, "journal")
      /\ events' \in AfterLoss(events, "events") /\ reader' = Idle
      /\ UNCHANGED <<run, connection, journalOK, jsonlHealthy, db>>
      /\ run \in Nat /\ up' \in BOOLEAN
  BY GoodSays DEF PowerLoss
<1>1. run' \in Nat /\ run <= run' /\ faults \subseteq faults' /\ "power" \in faults'
  BY <1>0 DEF Fault
<1>2. /\ Sensor(told)' /\ Held(told)'
      /\ TheJournal /\ TheEvents(told) /\ AllTold(told) /\ AllBytes
      /\ UNCHANGED <<bytesIn, bytesOut>>
  BY <1>0, <1>1, SystemFrame
<1>3. TheJournal'
  BY <1>0, <1>1, <1>2, JournalLost
<1>4. TheEvents(told)'
  BY <1>0, <1>1, <1>2, EventsLost
<1>5. Reading(told)'
  BY <1>0 DEF Reading, Idle
<1>. QED  BY <1>2, <1>3, <1>4, <1>5, GoodIs

-----------------------------------------------------------------------------
(* What is read of a store: what it holds, but for a last line or a header *)
(* that is being written.                                                  *)
LEMMA ReadEvents ==
  ASSUME EventsKept, NEW files \in Read("events")
  PROVE  /\ files \in Seq(EventFile) /\ LinesOf(files) = LinesOf(events)
         /\ \A i \in DOMAIN files : files[i].cut =>
              faults \cap {"events", "kill", "power"} # {} \/ up
         /\ ~up => files = events
<1>1. events \in Seq(EventFile) /\ Files("events") = events
  BY DEF EventsKept, Files
<1>2. CASE up /\ events # << >>
  <2>1. PICK h \in Unfinished(Last(events), "events") : files = [events EXCEPT ![Len(events)] = h]
    BY <1>1, <1>2 DEF Read
  <2>2. /\ Last(events) = events[Len(events)] /\ Last(events) \in EventFile
    BY <1>1, <1>2 DEF Last
  <2>3. /\ h \in EventFile /\ h.run = events[Len(events)].run /\ h.lines = events[Len(events)].lines
        /\ h.synced = events[Len(events)].synced
    BY <2>2, UnfinishedEvents
  <2>4. /\ files \in Seq(EventFile) /\ LinesOf(files) = LinesOf(events)
    <3> DEFINE g == [events EXCEPT ![Len(events)] = h]
    <3>1. /\ g \in Seq(EventFile) /\ LinesOf(g) = LinesOf(events)
      BY <1>1, <1>2, <2>3, EventsAlike
    <3> HIDE DEF g
    <3>2. files = g
      BY <2>1 DEF g
    <3>. QED  BY <3>1, <3>2
  <2>. QED  BY <1>2, <2>4
<1>3. CASE ~(up /\ events # << >>)
  <2>1. files = events
    BY <1>1, <1>3 DEF Read
  <2>. QED  BY <1>1, <2>1 DEF EventsKept
<1>. QED  BY <1>2, <1>3

LEMMA ReadJournal ==
  ASSUME JournalKept, NEW files \in Read("journal")
  PROVE  /\ files \in Seq(JournalFile)
         /\ \A c, dir : Stream(files, c, dir) = Stream(journal, c, dir)
         /\ \A i \in DOMAIN files : ~files[i].header =>
              faults \cap {"journal", "kill", "power"} # {} \/ up
         /\ ~up => files = journal
<1>1. journal \in Seq(JournalFile) /\ Files("journal") = journal
  BY DEF JournalKept, Files
<1>2. CASE up /\ journal # << >>
  <2>1. PICK h \in Unfinished(Last(journal), "journal") : files = [journal EXCEPT ![Len(journal)] = h]
    BY <1>1, <1>2 DEF Read
  <2>2. /\ Last(journal) = journal[Len(journal)] /\ Last(journal) \in JournalFile
    BY <1>1, <1>2 DEF Last
  <2>3. /\ h \in JournalFile /\ h.run = journal[Len(journal)].run /\ h.units = journal[Len(journal)].units
        /\ h.synced = journal[Len(journal)].synced
    BY <2>2, UnfinishedJournal
  <2>4. /\ files \in Seq(JournalFile) /\ \A c, dir : Stream(files, c, dir) = Stream(journal, c, dir)
    <3> DEFINE g == [journal EXCEPT ![Len(journal)] = h]
    <3>1. /\ g \in Seq(JournalFile) /\ \A c, dir : Stream(g, c, dir) = Stream(journal, c, dir)
      BY <1>1, <1>2, <2>3, JournalAlike
    <3> HIDE DEF g
    <3>2. files = g
      BY <2>1 DEF g
    <3>. QED  BY <3>1, <3>2
  <2>. QED  BY <1>2, <2>4
<1>3. CASE ~(up /\ journal # << >>)
  <2>1. files = journal
    BY <1>1, <1>3 DEF Read
  <2>. QED  BY <1>1, <2>1 DEF JournalKept
<1>. QED  BY <1>2, <1>3

LEMMA ReadFirstIsGood ==
  ASSUME NEW told, Good(told), NEW by, NEW store \in {"events", "journal"}, ReadFirst(by, store),
         store = "journal" => by = "archive"
  PROVE  Good(told)'
<1>0. /\ \E files \in Read(store) : reader' = [by |-> by, first |-> store, files |-> files, live |-> up]
      /\ UNCHANGED <<run, up, connection, journalOK, jsonlHealthy, journal, events, faults, db>>
      /\ run \in Nat /\ up \in BOOLEAN
  BY GoodSays DEF ReadFirst, sensor, evidence
<1>1. run' \in Nat /\ run <= run' /\ up' \in BOOLEAN /\ faults \subseteq faults'
  BY <1>0
<1>2. /\ Sensor(told)' /\ Held(told)'
      /\ TheJournal /\ TheEvents(told)
      /\ AllTold(told) /\ AllBytes
      /\ \A c \in Conns : ToldMore(told, told, c)
      /\ UNCHANGED <<bytesIn, bytesOut>>
      /\ \A c \in Conns, dir \in {"in", "out"} :
           Bytes(c, dir) \in Nat /\ Bytes(c, dir)' \in Nat /\ Bytes(c, dir) <= Bytes(c, dir)'
  BY <1>0, <1>1, SystemFrame
<1>3. TheJournal'
  BY <1>0, <1>1, <1>2, JournalIdle
<1>4. PICK files \in Read(store) : reader' = [by |-> by, first |-> store, files |-> files, live |-> up]
  BY <1>0
<1>5. /\ reader'.by = by /\ reader'.first = store /\ reader'.files = files /\ reader'.live = up
      /\ reader' = [by |-> reader'.by, first |-> reader'.first, files |-> reader'.files, live |-> reader'.live]
  BY <1>4
<1>6. StillKnown(events)
  <2>1. CASE store = "journal"
    BY <1>0, <1>5, <2>1 DEF StillKnown, KnownClosed
  <2>2. CASE store = "events"
    <3>1. LinesOf(files) = LinesOf(events)
      BY <1>2, <1>4, <2>2, ReadEvents DEF TheEvents
    <3>2. \A c \in Conns : LogOf(files, c) = LogOf(events, c)
      BY <3>1, LogSame
    <3>. QED  BY <1>0, <1>5, <2>2, <3>2 DEF StillKnown, KnownClosed
  <2>. QED  BY <2>1, <2>2
<1>7. TheEvents(told)'
  <2>1. \A c \in Conns : ToldMore(told, told, c) /\ (Working(c)' /\ jsonlHealthy' => told[c] = told[c])
    BY <1>2
  <2>. QED  BY <1>0, <1>1, <1>2, <1>6, <2>1, EventsIdle
<1>8. CASE store = "events"
  <2>1. /\ LinesOf(files) = LinesOf(events)
        /\ \A i \in DOMAIN files : files[i].cut =>
              faults \cap {"events", "kill", "power"} # {} \/ up
        /\ ~up => files = events
    BY <1>2, <1>4, <1>8, ReadEvents DEF TheEvents
  <2>2. Logged(files, told)'
    <3>1. Logged(events, told)
      BY <1>2 DEF TheEvents
    <3>. QED  BY <1>0, <1>2, <1>6, <2>1, <3>1, LoggedStays DEF Logged, StillKnown
  <2>3. ~up => files = Files("events")'
    BY <1>0, <2>1 DEF Files
  <2>4. Logged(reader.files, told)'
    BY <1>5, <2>2 DEF Logged
  <2>5. Reading(told)'
    <3> HIDE DEF Logged
    <3>. QED  BY <1>0, <1>5, <1>8, <2>1, <2>3, <2>4 DEF Reading
  <2>. QED  BY <1>2, <1>7, <1>3, <2>5, GoodIs
<1>9. CASE store = "journal"
  <2>1. /\ \A c, dir : Stream(files, c, dir) = Stream(journal, c, dir)
        /\ \A i \in DOMAIN files : ~files[i].header =>
              faults \cap {"journal", "kill", "power"} # {} \/ up
        /\ ~up => files = journal
    BY <1>2, <1>4, <1>9, ReadJournal DEF TheJournal
  <2>2. Recorded(reader.files)'
    <3>1. \A c \in Conns, dir \in {"in", "out"} :
            \E n \in 0..Bytes(c, dir)' : Stream(files, c, dir) = Truly(c, dir, 0, n)
      <4>1. Recorded(files)
        BY <1>2, <2>1 DEF Recorded, TheJournal
      <4>. QED  BY <1>2, <4>1, RecordedStays
    <3>. QED  BY <1>5, <3>1 DEF Recorded
  <2>3. ~up => files = Files("journal")'
    BY <1>0, <2>1 DEF Files
  <2>4. Reading(told)'
    BY <1>0, <1>5, <1>9, <2>1, <2>2, <2>3 DEF Reading
  <2>. QED  BY <1>2, <1>7, <1>3, <2>4, GoodIs
<1>. QED  BY <1>8, <1>9

-----------------------------------------------------------------------------
(* What index.Run has read when it has read both stores.                   *)
EvidenceKept(e, told) ==
  /\ Logged(e.jsonl, told) /\ Recorded(e.bwj)
  /\ \A i \in DOMAIN e.jsonl : e.jsonl[i].cut =>
       faults \cap {"events", "kill", "power"} # {} \/ reader.live
  /\ \A i \in DOMAIN e.bwj : ~e.bwj[i].header =>
       faults \cap {"journal", "kill", "power"} # {} \/ reader.live
  /\ faults \cap {"journal", "power"} = {} /\ ~(reader.by = "archive" /\ reader.live) =>
       \A c \in Conns, dir \in {"in", "out"} :
         Stream(e.bwj, c, dir) = Truly(c, dir, 0, Bytes(c, dir))
  /\ \A c \in Conns : HasClose(LogOf(e.jsonl, c)) =>
       KnownClosed(c) \/ HasClose(LogOf(events, c))

LEMMA EvidenceIsKept ==
  ASSUME NEW told, Good(told), NEW e \in Evidence
  PROVE  EvidenceKept(e, told) /\ (reader.first = "none" => FALSE)
<1>1. JournalKept /\ Recorded(journal) /\ Complete /\ EventsKept /\ Logged(events, told) /\ Reading(told)
  BY DEF Good
<1>2. \/ reader.first = "events" /\ \E files \in Read("journal") : e = [jsonl |-> reader.files, bwj |-> files]
      \/ reader.first = "journal" /\ \E files \in Read("events") : e = [jsonl |-> files, bwj |-> reader.files]
  <2>1. CASE reader.first = "none"
    BY <2>1 DEF Evidence
  <2>2. CASE reader.first = "events"
    BY <2>2 DEF Evidence
  <2>3. CASE reader.first = "journal"
    BY <2>3 DEF Evidence
  <2>. QED  BY <1>1, <2>1, <2>2, <2>3 DEF Reading
<1>3. CASE reader.first = "events"
  <2>1. PICK files \in Read("journal") : e = [jsonl |-> reader.files, bwj |-> files]
    BY <1>2, <1>3
  <2>2. e.jsonl = reader.files /\ e.bwj = files
    BY <2>1
  <2>3. /\ \A c, dir : Stream(files, c, dir) = Stream(journal, c, dir)
        /\ \A i \in DOMAIN files : ~files[i].header =>
             faults \cap {"journal", "kill", "power"} # {} \/ up
    BY <1>1, ReadJournal
  <2>4. /\ Logged(reader.files, told) /\ (up => reader.live)
        /\ \A i \in DOMAIN reader.files : reader.files[i].cut =>
             faults \cap {"events", "kill", "power"} # {} \/ reader.live
    BY <1>1, <1>3 DEF Reading
  <2>5. Recorded(files)
    BY <1>1, <2>3 DEF Recorded
  <2>6. \A c \in Conns : HasClose(LogOf(reader.files, c)) => KnownClosed(c)
    BY <1>3 DEF KnownClosed
  <2>7. faults \cap {"journal", "power"} = {} => 
          \A c \in Conns, dir \in {"in", "out"} :
            Stream(files, c, dir) = Truly(c, dir, 0, Bytes(c, dir))
    BY <1>1, <2>3 DEF Complete
  <2> HIDE DEF Logged, Recorded
  <2>. QED  BY <1>3, <2>2, <2>3, <2>4, <2>5, <2>6, <2>7 DEF EvidenceKept
<1>4. CASE reader.first = "journal"
  <2>1. PICK files \in Read("events") : e = [jsonl |-> files, bwj |-> reader.files]
    BY <1>2, <1>4
  <2>2. e.jsonl = files /\ e.bwj = reader.files
    BY <2>1
  <2>3. /\ LinesOf(files) = LinesOf(events)
        /\ \A i \in DOMAIN files : files[i].cut =>
             faults \cap {"events", "kill", "power"} # {} \/ up
    BY <1>1, ReadEvents
  <2>4. /\ Recorded(reader.files) /\ (up => reader.live) /\ reader.by = "archive"
        /\ ~reader.live => reader.files = journal
        /\ \A i \in DOMAIN reader.files : ~reader.files[i].header =>
             faults \cap {"journal", "kill", "power"} # {} \/ reader.live
    BY <1>1, <1>4 DEF Reading, Files
  <2>5. \A c \in Conns : LogOf(files, c) = LogOf(events, c)
    BY <2>3, LogSame
  <2>6. Logged(files, told)
    BY <1>1, <2>3, <2>5 DEF Logged
  <2>7. faults \cap {"journal", "power"} = {} /\ ~reader.live =>
          \A c \in Conns, dir \in {"in", "out"} :
            Stream(reader.files, c, dir) = Truly(c, dir, 0, Bytes(c, dir))
    BY <1>1, <2>4 DEF Complete
  <2>. QED  BY <1>4, <2>2, <2>3, <2>4, <2>5, <2>6, <2>7 DEF EvidenceKept
<1>. QED  BY <1>2, <1>3, <1>4

(* An exchange line that has been read, and a line of the beginning of a   *)
(* story, which has been.                                                  *)
LEMMA ExchangeKnown ==
  ASSUME NEW told, Sensor(told), NEW files, Logged(files, told), NEW x \in ExchangesOf(files)
  PROVE  /\ x.conn \in Conns /\ x.type = "exchange"
         /\ \E j \in DOMAIN LogOf(files, x.conn) : j \in DOMAIN told[x.conn] /\ told[x.conn][j] = x
<1> DEFINE all == LinesOf(files)
           c == x.conn
           l == LogOf(files, c)
<1>1. all \in Seq(AllLines) /\ x \in ToSet(all) /\ x.type = "exchange"
  BY DEF Logged, ExchangesOf
<1> HIDE DEF all
<1>2. x \in AllLines
  <2>1. PICK i \in DOMAIN all : x = all[i]
    BY <1>1 DEF ToSet
  <2>. QED  BY <1>1, <2>1
<1>3. c \in Conns /\ x \in LinesFor(c)
  BY <1>2 DEF AllLines, LinesFor
<1>4. x \in ToSet(l)
  BY <1>1, <1>3, KeptIn DEF LogOf, all
<1>5. PICK j \in DOMAIN l : l[j] = x
  BY <1>4 DEF ToSet
<1>6. l \in Seq(AllLines) /\ told[c] \in Seq(AllLines) /\ Begins(l, told[c])
  BY <1>3, LogType, SensorSays DEF Logged, AllTold
<1> HIDE DEF l
<1>7. j \in DOMAIN told[c] /\ told[c][j] = x
  BY <1>5, <1>6, BeginsSays
<1>. QED  BY <1>1, <1>3, <1>5, <1>7 DEF l

LEMMA LineRead ==
  ASSUME NEW told, Sensor(told), NEW files, Logged(files, told), NEW c \in Conns,
         NEW j \in DOMAIN LogOf(files, c)
  PROVE  /\ j \in DOMAIN told[c] /\ LogOf(files, c)[j] = told[c][j]
         /\ told[c][j] \in LinesFor(c)
         /\ told[c][j].type = "exchange" => told[c][j] \in ExchangesOf(files)
         /\ \A i \in 1..j : i \in DOMAIN LogOf(files, c)
<1> DEFINE all == LinesOf(files)
           l == LogOf(files, c)
<1>1. all \in Seq(AllLines)
  BY DEF Logged
<1>2. l \in Seq(AllLines) /\ told[c] \in Seq(AllLines) /\ Begins(l, told[c])
  BY <1>1, LogType, SensorSays DEF Logged, AllTold
<1>3. j \in DOMAIN l /\ l = Kept(all, LinesFor(c)) /\ told[c] \in Seq(LinesFor(c))
  BY DEF LogOf, Sensor, Story
<1> HIDE DEF l, all
<1>4. j \in DOMAIN told[c] /\ l[j] = told[c][j] /\ \A i \in 1..j : i \in DOMAIN l
  BY <1>2, <1>3, BeginsSays
<1>5. told[c][j] \in LinesFor(c) /\ l[j] \in ToSet(l)
  BY <1>3, <1>4 DEF ToSet
<1>6. told[c][j] \in ToSet(all)
  BY <1>1, <1>3, <1>4, <1>5, KeptIn
<1>. QED  BY <1>4, <1>5, <1>6 DEF ExchangesOf, l, all

LEMMA SliceIs ==
  ASSUME NEW c \in Conns, NEW dir \in {"in", "out"}, NEW n \in Nat,
         NEW start \in Nat, NEW length \in Nat, start + length <= n
  PROVE  Slice(Truly(c, dir, 0, n), start, length) = Truly(c, dir, start, length)
<1> DEFINE s == Truly(c, dir, 0, n)
           t == SubSeq(s, start + 1, start + length)
           u == Truly(c, dir, start, length)
<1>1. s \in Seq(AllUnits) /\ Len(s) = n /\ u \in Seq(AllUnits) /\ Len(u) = length
  BY TrulyType
<1>2. (\A i \in 1..n : s[i] = [conn |-> c, dir |-> dir, at |-> 0 + i])
      /\ \A i \in 1..length : u[i] = [conn |-> c, dir |-> dir, at |-> start + i]
  BY DEF Truly
<1> HIDE DEF s, u
<1>3. t \in Seq(AllUnits) /\ Len(t) = length /\ \A i \in 1..length : t[i] = s[start + i]
  <2> DEFINE m == start + length
             v == SubSeq(s, start + 1, m)
  <2>1. m \in Nat /\ m <= n /\ m - start = length /\ start <= m
    OBVIOUS
  <2> HIDE DEF m
  <2>2. \A i \in 1..(m - start) : start + i \in 1..n
    BY <2>1
  <2>3. v \in Seq(AllUnits) /\ Len(v) = m - start /\ \A i \in 1..(m - start) : v[i] = s[start + i]
    BY <1>1, <2>1, <2>2
  <2>. QED  BY <2>1, <2>3 DEF m
<1>4. \A i \in 1..length : start + i \in 1..n /\ 0 + (start + i) = start + i
  OBVIOUS
<1> HIDE DEF t
<1>5. \A i \in 1..length : t[i] = u[i]
  <2> TAKE i \in 1..length
  <2>1. start + i \in 1..n /\ 0 + (start + i) = start + i
    BY <1>4
  <2>2. t[i] = [conn |-> c, dir |-> dir, at |-> 0 + (start + i)]
    BY <1>2, <1>3, <2>1
  <2>. QED  BY <1>2, <2>1, <2>2
<1>6. t = u
  BY <1>1, <1>3, <1>5, SeqEqual
<1>. QED  BY <1>6 DEF Slice, s, t, u

(* An exchange of a story, and the bytes it names.                         *)
LEMMA StoryExchange ==
  ASSUME NEW c \in Conns, NEW t, Story(t, c), NEW j \in DOMAIN t, t[j].type = "exchange"
  PROVE  /\ j \in Nat /\ j > 1 /\ t[j].conn = c /\ t[j].request = j - 1
         /\ t[j].inStart = j - 2 /\ t[j].inLength = 1 /\ t[j].inStart \in Nat
         /\ t[j].outStart \in Nat /\ t[j].outLength \in Nat
<1>1. t \in Seq(LinesFor(c)) /\ j > 1 /\ Follows(t[j], t[j - 1], j)
  BY DEF Story
<1>2. j \in Nat /\ t[j] \in LinesFor(c)
  BY <1>1
<1>3. /\ t[j].conn = c /\ t[j].outStart \in Nat /\ t[j].outLength \in Nat
  BY <1>2 DEF LinesFor, AllLines
<1>. QED  BY <1>1, <1>2, <1>3 DEF Follows

(* Why an index fails.                                                     *)
LEMMA InTheJournal ==
  ASSUME NEW told, Sensor(told), NEW bwj, NEW c \in Conns, NEW j \in DOMAIN told[c],
         told[c][j].type = "exchange",
         \A dir \in {"in", "out"} : Stream(bwj, c, dir) = Truly(c, dir, 0, Bytes(c, dir))
  PROVE  LET x == told[c][j]
         IN  /\ InRange(Stream(bwj, x.conn, "in"), x.inStart, x.inLength)
             /\ InRange(Stream(bwj, x.conn, "out"), x.outStart, x.outLength)
<1> DEFINE x == told[c][j]
<1>1. Story(told[c], c) /\ Lived(told[c], c)
  BY DEF Sensor
<1>2. /\ j \in Nat /\ j > 1 /\ x.conn = c /\ x.request = j - 1
      /\ x.inStart = j - 2 /\ x.inLength = 1 /\ x.inStart \in Nat
      /\ x.outStart \in Nat /\ x.outLength \in Nat
  BY <1>1, StoryExchange
<1>3. /\ x.request <= bytesIn[c] /\ x.outStart + x.outLength <= bytesOut[c]
      /\ bytesIn[c] \in Nat /\ bytesOut[c] \in Nat
  BY <1>1 DEF Lived
<1>4. /\ Len(Stream(bwj, c, "in")) = bytesIn[c] /\ Len(Stream(bwj, c, "out")) = bytesOut[c]
  BY <1>3, TrulyType DEF Bytes
<1> HIDE DEF x
<1>5. x.inStart + x.inLength <= bytesIn[c]
  BY <1>2, <1>3
<1>6. /\ InRange(Stream(bwj, x.conn, "in"), x.inStart, x.inLength)
      /\ InRange(Stream(bwj, x.conn, "out"), x.outStart, x.outLength)
  BY <1>2, <1>3, <1>4, <1>5 DEF InRange
<1>. QED  BY <1>6 DEF x

LEMMA SliceIsTrue ==
  ASSUME NEW told, Sensor(told), NEW bwj, Recorded(bwj), NEW c \in Conns, NEW j \in DOMAIN told[c],
         told[c][j].type = "exchange"
  PROVE  LET x == told[c][j]
         IN  /\ InRange(Stream(bwj, x.conn, "in"), x.inStart, x.inLength) =>
                  Request(bwj, x) = Truly(c, "in", j - 2, 1)
             /\ InRange(Stream(bwj, x.conn, "out"), x.outStart, x.outLength) =>
                  Response(bwj, x) = Truly(c, "out", x.outStart, x.outLength)
<1> DEFINE x == told[c][j]
<1>1. Story(told[c], c) /\ AllBytes
  BY SensorSays DEF Sensor
<1>2. /\ j \in Nat /\ j > 1 /\ x.conn = c
      /\ x.inStart = j - 2 /\ x.inLength = 1 /\ x.inStart \in Nat
      /\ x.outStart \in Nat /\ x.outLength \in Nat
  BY <1>1, StoryExchange
<1>3. PICK n \in 0..Bytes(c, "in") : Stream(bwj, c, "in") = Truly(c, "in", 0, n)
  BY DEF Recorded
<1>4. PICK m \in 0..Bytes(c, "out") : Stream(bwj, c, "out") = Truly(c, "out", 0, m)
  BY DEF Recorded
<1>5. n \in Nat /\ m \in Nat
  BY <1>1 DEF AllBytes
<1>6. Len(Stream(bwj, c, "in")) = n /\ Len(Stream(bwj, c, "out")) = m
  BY <1>3, <1>4, <1>5, TrulyType
<1> HIDE DEF x
<1>7. InRange(Stream(bwj, x.conn, "in"), x.inStart, x.inLength) =>
        Request(bwj, x) = Truly(c, "in", j - 2, 1)
  <2> SUFFICES ASSUME InRange(Stream(bwj, x.conn, "in"), x.inStart, x.inLength)
               PROVE  Request(bwj, x) = Truly(c, "in", j - 2, 1)
    OBVIOUS
  <2>1. x.inStart + x.inLength <= n
    BY <1>2, <1>6 DEF InRange
  <2>2. Slice(Truly(c, "in", 0, n), x.inStart, x.inLength) = Truly(c, "in", x.inStart, x.inLength)
    BY <1>2, <1>5, <2>1, SliceIs
  <2>. QED  BY <1>2, <1>3, <2>2 DEF Request
<1>8. InRange(Stream(bwj, x.conn, "out"), x.outStart, x.outLength) =>
        Response(bwj, x) = Truly(c, "out", x.outStart, x.outLength)
  <2> SUFFICES ASSUME InRange(Stream(bwj, x.conn, "out"), x.outStart, x.outLength)
               PROVE  Response(bwj, x) = Truly(c, "out", x.outStart, x.outLength)
    OBVIOUS
  <2>1. x.outStart + x.outLength <= m
    BY <1>2, <1>6 DEF InRange
  <2>2. Slice(Truly(c, "out", 0, m), x.outStart, x.outLength) = Truly(c, "out", x.outStart, x.outLength)
    BY <1>2, <1>5, <2>1, SliceIs
  <2>. QED  BY <1>2, <1>4, <2>2 DEF Response
<1>. QED  BY <1>7, <1>8 DEF x

LEMMA FailureExplained ==
  ASSUME NEW told, Good(told), NEW e \in Evidence
  PROVE  LET result == Result(e.jsonl, e.bwj) IN
         /\ result # "hash"
         /\ result = "range" =>
              faults \cap {"journal", "power"} # {} \/ (reader.by = "archive" /\ reader.live)
         /\ result = "decode" => faults \cap {"events", "kill", "power"} # {} \/ reader.live
         /\ result = "header" => faults \cap {"journal", "kill", "power"} # {} \/ reader.live
<1> DEFINE jsonl == e.jsonl
           bwj == e.bwj
           missing(x) == \/ ~InRange(Stream(bwj, x.conn, "in"), x.inStart, x.inLength)
                         \/ ~InRange(Stream(bwj, x.conn, "out"), x.outStart, x.outLength)
<1>1. EvidenceKept(e, told) /\ Sensor(told)
  BY EvidenceIsKept DEF Good
<1>2. Logged(jsonl, told) /\ Recorded(bwj)
  BY <1>1 DEF EvidenceKept
<1>3. ASSUME NEW x \in ExchangesOf(jsonl), ~missing(x)
      PROVE  Response(bwj, x) = Truly(x.conn, "out", x.outStart, x.outLength)
  <2>1. /\ x.conn \in Conns /\ x.type = "exchange"
        /\ \E j \in DOMAIN LogOf(jsonl, x.conn) : j \in DOMAIN told[x.conn] /\ told[x.conn][j] = x
    BY <1>1, <1>2, ExchangeKnown
  <2>2. PICK c \in Conns : c = x.conn
    BY <2>1
  <2>3. PICK j \in DOMAIN told[c] : told[c][j] = x
    BY <2>1, <2>2
  <2>. QED  BY <1>1, <1>2, <1>3, <2>1, <2>2, <2>3, SliceIsTrue
<1>4. ASSUME faults \cap {"journal", "power"} = {}, ~(reader.by = "archive" /\ reader.live),
             NEW x \in ExchangesOf(jsonl)
      PROVE  ~missing(x)
  <2>1. /\ x.conn \in Conns /\ x.type = "exchange"
        /\ \E j \in DOMAIN LogOf(jsonl, x.conn) : j \in DOMAIN told[x.conn] /\ told[x.conn][j] = x
    BY <1>1, <1>2, ExchangeKnown
  <2>2. PICK c \in Conns : c = x.conn
    BY <2>1
  <2>3. PICK j \in DOMAIN told[c] : told[c][j] = x
    BY <2>1, <2>2
  <2>4. \A dir \in {"in", "out"} : Stream(bwj, c, dir) = Truly(c, dir, 0, Bytes(c, dir))
    BY <1>1, <1>4 DEF EvidenceKept
  <2>. QED  BY <1>1, <2>1, <2>2, <2>3, <2>4, InTheJournal
<1>5. CASE \E i \in DOMAIN jsonl : jsonl[i].cut
  <2>1. Result(jsonl, bwj) = "decode"
    BY <1>5 DEF Result
  <2>2. faults \cap {"events", "kill", "power"} # {} \/ reader.live
    BY <1>1, <1>5 DEF EvidenceKept
  <2>. QED  BY <2>1, <2>2
<1>6. CASE ~(\E i \in DOMAIN jsonl : jsonl[i].cut) /\ \E i \in DOMAIN bwj : ~bwj[i].header
  <2>1. Result(jsonl, bwj) = "header"
    BY <1>6 DEF Result
  <2>2. faults \cap {"journal", "kill", "power"} # {} \/ reader.live
    BY <1>1, <1>6 DEF EvidenceKept
  <2>. QED  BY <2>1, <2>2
<1>7. CASE /\ ~(\E i \in DOMAIN jsonl : jsonl[i].cut) /\ ~(\E i \in DOMAIN bwj : ~bwj[i].header)
           /\ \E x \in ExchangesOf(jsonl) : missing(x)
  <2>1. Result(jsonl, bwj) = "range"
    BY <1>7 DEF Result
  <2>2. faults \cap {"journal", "power"} # {} \/ (reader.by = "archive" /\ reader.live)
    BY <1>4, <1>7
  <2>. QED  BY <2>1, <2>2
<1>8. CASE /\ ~(\E i \in DOMAIN jsonl : jsonl[i].cut) /\ ~(\E i \in DOMAIN bwj : ~bwj[i].header)
           /\ ~(\E x \in ExchangesOf(jsonl) : missing(x))
  <2>1. \A x \in ExchangesOf(jsonl) : Response(bwj, x) = Truly(x.conn, "out", x.outStart, x.outLength)
    BY <1>3, <1>8
  <2>2. Result(jsonl, bwj) = "ok"
    BY <1>8, <2>1 DEF Result
  <2>. QED  BY <2>2
<1>. QED  BY <1>5, <1>6, <1>7, <1>8

-----------------------------------------------------------------------------
(* The rows of the connections.                                            *)
ClosingLines == {"connection_open", "connection_close"}
AllRows == UNION {[D -> [by : ClosingLines, closed : BOOLEAN]] : D \in SUBSET Conns}

LEMMA RowsType ==
  ASSUME NEW rows
  PROVE  rows \in AllRows <=> \E D \in SUBSET Conns : rows \in [D -> [by : ClosingLines, closed : BOOLEAN]]
BY DEF AllRows

LEMMA AddLineIs ==
  ASSUME NEW rows \in AllRows, NEW l \in AllLines
  PROVE  LET more == AddLine(rows, l)
         IN  /\ more \in AllRows
             /\ l.type = "exchange" => more = rows
             /\ l.type # "exchange" =>
                  /\ DOMAIN more = DOMAIN rows \cup {l.conn}
                  /\ \A c \in DOMAIN rows : c # l.conn => more[c] = rows[c]
             /\ l.type = "connection_open" =>
                  more[l.conn] = [by |-> "connection_open", closed |-> FALSE]
             /\ l.type = "connection_close" =>
                  /\ more[l.conn].by = IF l.conn \in DOMAIN rows THEN rows[l.conn].by ELSE "connection_close"
                  /\ more[l.conn].closed = TRUE
<1> DEFINE more == AddLine(rows, l)
           put(row) == [c \in DOMAIN rows \cup {l.conn} |-> IF c = l.conn THEN row ELSE rows[c]]
           by == IF l.conn \in DOMAIN rows THEN rows[l.conn].by ELSE l.type
<1>1. PICK D \in SUBSET Conns : rows \in [D -> [by : ClosingLines, closed : BOOLEAN]]
  BY RowsType
<1>2. l.conn \in Conns /\ l.type \in {"connection_open", "connection_close", "exchange"}
  BY DEF AllLines
<1>3. DOMAIN rows = D /\ D \cup {l.conn} \in SUBSET Conns
  BY <1>1, <1>2
<1>4. ASSUME NEW row \in [by : ClosingLines, closed : BOOLEAN]
      PROVE  /\ put(row) \in AllRows
             /\ DOMAIN put(row) = DOMAIN rows \cup {l.conn}
             /\ put(row)[l.conn] = row
             /\ \A c \in DOMAIN rows : c # l.conn => put(row)[c] = rows[c]
  <2>1. put(row) \in [D \cup {l.conn} -> [by : ClosingLines, closed : BOOLEAN]]
    BY <1>1, <1>3
  <2>2. put(row) \in AllRows
    <3> HIDE DEF put
    <3>. QED  BY <1>3, <2>1, RowsType
  <2>. QED  BY <2>2
<1>5. by \in ClosingLines \/ l.type = "exchange"
  BY <1>1, <1>2 DEF ClosingLines
<1>6. CASE l.type = "connection_open"
  <2> DEFINE row == [by |-> "connection_open", closed |-> FALSE]
  <2>1. more = put(row)
    BY <1>6 DEF AddLine
  <2>2. row \in [by : ClosingLines, closed : BOOLEAN]
    BY DEF ClosingLines
  <2> HIDE DEF put, more
  <2>. QED  BY <1>4, <1>6, <2>1, <2>2 DEF more
<1>7. CASE l.type = "connection_close"
  <2> DEFINE row == [by |-> by, closed |-> TRUE]
  <2>1. more = put(row)
    BY <1>7 DEF AddLine
  <2>2. row \in [by : ClosingLines, closed : BOOLEAN] /\ row.by = by /\ row.closed = TRUE
    BY <1>5, <1>7
  <2>3. by = IF l.conn \in DOMAIN rows THEN rows[l.conn].by ELSE "connection_close"
    BY <1>7
  <2> HIDE DEF put, more, row, by
  <2>4. /\ more \in AllRows /\ DOMAIN more = DOMAIN rows \cup {l.conn} /\ more[l.conn] = row
        /\ \A c \in DOMAIN rows : c # l.conn => more[c] = rows[c]
    BY <1>4, <2>1, <2>2
  <2>. QED  BY <1>7, <2>2, <2>3, <2>4 DEF more
<1>8. CASE l.type = "exchange"
  <2>1. more = rows
    BY <1>8 DEF AddLine
  <2>. QED  BY <1>8, <2>1
<1>. QED  BY <1>2, <1>6, <1>7, <1>8

LEMMA RowsFolds ==
  ASSUME NEW lines \in Seq(AllLines)
  PROVE  LET op == [p \in AllRows \X AllLines |-> AddLine(p[1], p[2])]
         IN  \E u \in [0..Len(lines) -> AllRows] :
               Folds(u, op, << >>, lines) /\ Rows(lines) = u[Len(lines)]
<1> DEFINE n == Len(lines)
           none == << >>
           op == [p \in AllRows \X AllLines |-> AddLine(p[1], p[2])]
           F(u) == [k \in 0..n |-> IF k = 0 THEN << >> ELSE AddLine(u[k - 1], lines[k])]
           after == CHOOSE u : u = F(u)
<1>1. n \in Nat /\ \A k \in 1..n : lines[k] \in AllLines
  OBVIOUS
<1>2. op \in [AllRows \X AllLines -> AllRows]
  <2>1. \A p \in AllRows \X AllLines : AddLine(p[1], p[2]) \in AllRows
    BY AddLineIs
  <2>. QED  BY <2>1
<1>3. \A a \in AllRows, b \in AllLines : op[<<a, b>>] = AddLine(a, b)
  OBVIOUS
<1>4. none \in AllRows
  <2>1. {} \in SUBSET Conns /\ none \in [{} -> [by : ClosingLines, closed : BOOLEAN]]
    OBVIOUS
  <2>. QED  BY <2>1, RowsType
<1> HIDE DEF op
<1>5. PICK u \in [0..n -> AllRows] : Folds(u, op, none, lines)
  <2> HIDE DEF none
  <2>. QED  BY <1>2, <1>4, FoldExists
<1>6. u[0] = none /\ \A k \in 1..n : u[k] = AddLine(u[k - 1], lines[k])
  <2>1. \A k \in 1..n : u[k - 1] \in AllRows /\ lines[k] \in AllLines
    BY <1>1
  <2>. QED  BY <1>3, <1>5, <2>1 DEF Folds
<1>7. u = F(u)
  <2>1. \A k \in 0..n : u[k] = IF k = 0 THEN << >> ELSE AddLine(u[k - 1], lines[k])
    BY <1>1, <1>6
  <2>. QED  BY <2>1
<1>8. after = F(after)
  BY <1>7
<1>9. Rows(lines) = after[n]
  BY DEF Rows
<1>10. /\ after[0] = none
       /\ \A k \in 1..n : after[k] = AddLine(after[k - 1], lines[k])
  <2> HIDE DEF after
  <2>. QED  BY <1>1, <1>8
<1>11. after[n] = u[n]
  <2> HIDE DEF after, F, none
  <2> DEFINE T == {k \in Nat : k <= n => after[k] = u[k]}
  <2>1. 0 \in T
    BY <1>6, <1>10
  <2>2. ASSUME NEW k \in Nat, k \in T PROVE k + 1 \in T
    <3>1. CASE k + 1 <= n
      <4>1. k + 1 \in 1..n /\ (k + 1) - 1 = k
        BY <3>1, <1>1
      <4>. QED  BY <1>6, <1>10, <2>2, <3>1, <4>1
    <3>2. CASE k + 1 > n
      BY <1>1, <3>2
    <3>. QED  BY <1>1, <3>1, <3>2
  <2>3. Nat \subseteq T
    <3> HIDE DEF T
    <3>. QED  BY <2>1, <2>2, Induction
  <2>. QED  BY <1>1, <2>3
<1>. QED  BY <1>5, <1>9, <1>11 DEF op

LEMMA RowsMore ==
  ASSUME NEW lines \in Seq(AllLines), NEW l \in AllLines
  PROVE  /\ Rows(lines) \in AllRows
         /\ Rows(Append(lines, l)) = AddLine(Rows(lines), l)
<1> DEFINE op == [p \in AllRows \X AllLines |-> AddLine(p[1], p[2])]
           t == Append(lines, l)
           none == << >>
<1>1. PICK u \in [0..Len(lines) -> AllRows] : Folds(u, op, none, lines) /\ Rows(lines) = u[Len(lines)]
  BY RowsFolds
<1>2. t \in Seq(AllLines) /\ Longer(t, lines) /\ t[Len(t)] = l /\ Len(lines) \in Nat /\ Len(t) \in Nat
  BY DEF Longer
<1>3. \A a \in AllRows, b \in AllLines : op[<<a, b>>] = AddLine(a, b)
  OBVIOUS
<1> HIDE DEF t, op, none
<1>4. PICK v \in [0..Len(t) -> AllRows] : Folds(v, op, none, t) /\ Rows(t) = v[Len(t)]
  BY <1>2, RowsFolds DEF op, none
<1>5. GoesOn(v, t, op, u, lines)
  BY <1>1, <1>2, <1>4, FoldLonger
<1>6. Rows(lines) \in AllRows
  BY <1>1, <1>2
<1>7. Rows(t) = AddLine(Rows(lines), l)
  BY <1>1, <1>2, <1>3, <1>4, <1>5, <1>6 DEF GoesOn
<1>. QED  BY <1>6, <1>7 DEF t

LEMMA RowsNone == Rows(<< >>) = << >> /\ Rows(<< >>) \in AllRows
<1> DEFINE none == << >>
           op == [p \in AllRows \X AllLines |-> AddLine(p[1], p[2])]
<1>1. none \in Seq(AllLines) /\ Len(none) = 0
  OBVIOUS
<1> HIDE DEF none
<1>2. PICK u \in [0..Len(none) -> AllRows] : Folds(u, op, << >>, none) /\ Rows(none) = u[Len(none)]
  BY <1>1, RowsFolds
<1>3. u[0] = << >> /\ u[0] \in AllRows
  BY <1>1, <1>2 DEF Folds
<1>. QED  BY <1>1, <1>2, <1>3 DEF none

(* A story without its last line is a story. *)
LEMMA StoryLess ==
  ASSUME NEW c \in Conns, NEW t \in Seq(LinesFor(c)), NEW l, Story(Append(t, l), c)
  PROVE  /\ Story(t, c)
         /\ \A j \in DOMAIN t : t[j].type # "connection_close"
         /\ l.type = "connection_open" => t = << >>
         /\ l.type = "exchange" => t # << >>
<1> DEFINE n == Len(t)
           u == Append(t, l)
<1>1. /\ n \in Nat /\ DOMAIN t = 1..n /\ DOMAIN u = 1..(n + 1) /\ Len(u) = n + 1
      /\ u[n + 1] = l /\ \A j \in 1..n : u[j] = t[j]
      /\ t = << >> <=> n = 0
  OBVIOUS
<1> HIDE DEF u, n
<1>2. \A j \in DOMAIN u :
       /\ u[j].type = "connection_open" => j = 1
       /\ u[j].type = "exchange" =>
            j > 1 /\ u[1].type = "connection_open" /\ Follows(u[j], u[j - 1], j)
       /\ u[j].type = "connection_close" => j = Len(u)
  BY DEF Story, u
<1>3. ASSUME NEW j \in 1..n PROVE t[j].type # "connection_close"
  <2>1. j \in 1..(n + 1) /\ j # n + 1
    BY <1>1
  <2>. QED  BY <1>1, <1>2, <2>1
<1>4. ASSUME NEW j \in 1..n
      PROVE  /\ t[j].type = "connection_open" => j = 1
             /\ t[j].type = "exchange" =>
                  j > 1 /\ t[1].type = "connection_open" /\ Follows(t[j], t[j - 1], j)
  <2>1. j \in DOMAIN u /\ u[j] = t[j] /\ 1 \in 1..n /\ u[1] = t[1]
    BY <1>1
  <2>2. j > 1 => j - 1 \in 1..n
    BY <1>1
  <2>. QED  BY <1>1, <1>2, <2>1, <2>2
<1>5. Story(t, c)
  BY <1>1, <1>3, <1>4 DEF Story
<1>6. n + 1 \in DOMAIN u
  BY <1>1
<1>7. (l.type = "connection_open" => n + 1 = 1) /\ (l.type = "exchange" => n + 1 > 1)
  BY <1>1, <1>2, <1>6
<1>. QED  BY <1>1, <1>3, <1>5, <1>7

(* The row of each connection, made of its lines alone. *)
Story0(lines, c) == Story(Kept(lines, LinesFor(c)), c)
RowSays(rows, t, c) ==
  /\ c \in DOMAIN rows <=> t # << >>
  /\ t # << >> => rows[c].by = t[1].type /\ (rows[c].closed <=> HasClose(t))

LEMMA RowsSay ==
  ASSUME NEW lines \in Seq(AllLines), \A c \in Conns : Story0(lines, c)
  PROVE  \A c \in Conns : RowSays(Rows(lines), Kept(lines, LinesFor(c)), c)
<1> DEFINE P == {s \in Seq(AllLines) : (\A c \in Conns : Story0(s, c)) =>
                   \A c \in Conns : RowSays(Rows(s), Kept(s, LinesFor(c)), c)}
<1>1. << >> \in P
  <2>1. << >> \in Seq(AllLines) /\ DOMAIN << >> = {}
    OBVIOUS
  <2>2. \A c \in Conns : Kept(<< >>, LinesFor(c)) = << >>
    BY KeptEmpty
  <2>. QED  BY <2>1, <2>2, RowsNone DEF RowSays
<1>2. ASSUME NEW s \in Seq(AllLines), NEW l \in AllLines, s \in P PROVE Append(s, l) \in P
  <2> DEFINE v == Append(s, l)
             r == Rows(s)
             more == Rows(v)
  <2>0. v \in Seq(AllLines)
    OBVIOUS
  <2> SUFFICES ASSUME \A c \in Conns : Story0(v, c), NEW c \in Conns
               PROVE  RowSays(more, Kept(v, LinesFor(c)), c)
    BY <2>0
  <2>1. r \in AllRows /\ more = AddLine(r, l)
    BY RowsMore
  <2>2. l.conn \in Conns /\ l.type \in {"connection_open", "connection_close", "exchange"}
    BY DEF AllLines
  <2>3. ASSUME NEW d \in Conns
        PROVE  /\ Kept(s, LinesFor(d)) \in Seq(LinesFor(d))
               /\ d = l.conn => Kept(v, LinesFor(d)) = Append(Kept(s, LinesFor(d)), l)
               /\ d # l.conn => Kept(v, LinesFor(d)) = Kept(s, LinesFor(d))
    <3> DEFINE k == Kept(s, LinesFor(d))
    <3>1. k \in Seq(AllLines) /\ Kept(v, LinesFor(d)) = k \o Single(l, LinesFor(d))
      BY KeptAppend
    <3>2. l \in LinesFor(d) <=> d = l.conn
      BY DEF LinesFor
    <3>3. AllLines \cap LinesFor(d) = LinesFor(d)
      BY DEF LinesFor
    <3>4. k \in Seq(AllLines \cap LinesFor(d))
      BY KeptOf
    <3> HIDE DEF k, v
    <3>5. d = l.conn => k \o Single(l, LinesFor(d)) = Append(k, l)
      BY <3>1, <3>2 DEF Single
    <3>6. d # l.conn => k \o Single(l, LinesFor(d)) = k
      BY <3>1, <3>2 DEF Single
    <3>. QED  BY <3>1, <3>3, <3>4, <3>5, <3>6 DEF k
  <2> HIDE DEF v, r, more
  <2>4. ASSUME NEW d \in Conns PROVE Story0(s, d)
    <3>1. Story0(v, d)
      OBVIOUS
    <3>2. CASE d = l.conn
      BY <2>3, <3>1, <3>2, StoryLess DEF Story0
    <3>3. CASE d # l.conn
      BY <2>3, <3>1, <3>3 DEF Story0
    <3>. QED  BY <3>2, <3>3
  <2>5. \A d \in Conns : RowSays(r, Kept(s, LinesFor(d)), d)
    BY <1>2, <2>4 DEF r
  <2>6. /\ l.type = "exchange" => more = r
        /\ l.type # "exchange" =>
             /\ DOMAIN more = DOMAIN r \cup {l.conn}
             /\ \A d \in DOMAIN r : d # l.conn => more[d] = r[d]
        /\ l.type = "connection_open" =>
             more[l.conn] = [by |-> "connection_open", closed |-> FALSE]
        /\ l.type = "connection_close" =>
             /\ more[l.conn].by = IF l.conn \in DOMAIN r THEN r[l.conn].by ELSE "connection_close"
             /\ more[l.conn].closed = TRUE
    BY <2>1, AddLineIs
  <2>7. CASE c # l.conn
    <3>1. Kept(v, LinesFor(c)) = Kept(s, LinesFor(c)) /\ RowSays(r, Kept(s, LinesFor(c)), c)
      BY <2>3, <2>5, <2>7
    <3>2. (c \in DOMAIN more <=> c \in DOMAIN r) /\ (c \in DOMAIN r => more[c] = r[c])
      BY <2>6, <2>7
    <3>. QED  BY <3>1, <3>2 DEF RowSays
  <2>8. CASE c = l.conn
    <3> DEFINE t == Kept(s, LinesFor(c))
               u == Append(t, l)
    <3>1. /\ t \in Seq(LinesFor(c)) /\ Kept(v, LinesFor(c)) = u /\ RowSays(r, t, c) /\ Story(u, c)
      BY <2>3, <2>5, <2>8 DEF Story0
    <3> HIDE DEF t
    <3>2. /\ \A j \in DOMAIN t : t[j].type # "connection_close"
          /\ l.type = "connection_open" => t = << >>
          /\ l.type = "exchange" => t # << >>
      BY <3>1, StoryLess
    <3>3. /\ Len(t) \in Nat /\ DOMAIN t = 1..Len(t) /\ DOMAIN u = 1..(Len(t) + 1)
          /\ u[Len(t) + 1] = l /\ u # << >>
          /\ t = << >> <=> Len(t) = 0
          /\ \A j \in 1..Len(t) : u[j] = t[j]
      BY <3>1
    <3> HIDE DEF u
    <3>4. u[1] = IF t = << >> THEN l ELSE t[1]
      BY <3>3
    <3>5. HasClose(u) <=> l.type = "connection_close"
      <4>1. \A j \in DOMAIN u : (j \in DOMAIN t /\ u[j] = t[j]) \/ u[j] = l
        BY <3>3
      <4>2. Len(t) + 1 \in DOMAIN u
        BY <3>3
      <4>. QED  BY <3>2, <3>3, <4>1, <4>2 DEF HasClose
    <3>6. ~HasClose(t)
      BY <3>2 DEF HasClose
    <3>7. RowSays(more, u, c)
      <4>1. CASE l.type = "exchange"
        BY <2>6, <3>1, <3>2, <3>3, <3>4, <3>5, <3>6, <4>1 DEF RowSays
      <4>2. CASE l.type = "connection_open"
        BY <2>6, <2>8, <3>1, <3>2, <3>3, <3>4, <3>5, <3>6, <4>2 DEF RowSays
      <4>3. CASE l.type = "connection_close"
        BY <2>6, <2>8, <3>1, <3>2, <3>3, <3>4, <3>5, <3>6, <4>3 DEF RowSays
      <4>. QED  BY <2>2, <4>1, <4>2, <4>3
    <3>. QED  BY <3>1, <3>7
  <2>. QED  BY <2>7, <2>8
<1>3. Seq(AllLines) \subseteq P
  <2> HIDE DEF P
  <2>. QED  BY <1>1, <1>2, Grown
<1>. QED  BY <1>3

-----------------------------------------------------------------------------
(* What an index makes of what it has read.                                *)
LEMMA LogIsStory ==
  ASSUME NEW told, Sensor(told), NEW files, Logged(files, told), NEW c \in Conns
  PROVE  /\ Story(LogOf(files, c), c)
         /\ LogOf(files, c) # << >> => told[c] # << >> /\ LogOf(files, c)[1] = told[c][1]
<1> DEFINE l == LogOf(files, c)
           t == told[c]
<1>1. LinesOf(files) \in Seq(AllLines) /\ Begins(l, t) /\ Story(t, c)
  BY DEF Logged, Sensor
<1>2. l \in Seq(LinesFor(c))
  <2>1. AllLines \cap LinesFor(c) = LinesFor(c)
    BY DEF LinesFor
  <2>. QED  BY <1>1, <2>1, KeptOf DEF LogOf
<1>3. t \in Seq(LinesFor(c))
  BY <1>1 DEF Story
<1> HIDE DEF l, t
<1>4. /\ Len(l) <= Len(t) /\ Len(l) \in Nat /\ Len(t) \in Nat
      /\ DOMAIN l = 1..Len(l) /\ DOMAIN t = 1..Len(t)
      /\ \A j \in DOMAIN l : j \in DOMAIN t /\ t[j] = l[j]
  BY <1>1, <1>2, <1>3, BeginsSays
<1>5. ASSUME NEW j \in DOMAIN l
      PROVE  /\ l[j].type = "connection_open" => j = 1
             /\ l[j].type = "exchange" =>
                  j > 1 /\ l[1].type = "connection_open" /\ Follows(l[j], l[j - 1], j)
             /\ l[j].type = "connection_close" => j = Len(l)
  <2>1. j \in DOMAIN t /\ t[j] = l[j] /\ j \in Nat /\ j >= 1 /\ j <= Len(l)
    BY <1>4
  <2>2. 1 \in DOMAIN l /\ (j > 1 => j - 1 \in DOMAIN l)
    BY <1>4, <2>1
  <2>. QED  BY <1>1, <1>4, <2>1, <2>2 DEF Story
<1>6. Story(l, c)
  BY <1>2, <1>5 DEF Story
<1>7. ASSUME l # << >> PROVE t # << >> /\ l[1] = t[1]
  <2>1. Len(l) # 0
    BY <1>2, <1>7
  <2>2. 1 \in DOMAIN l /\ Len(t) # 0
    BY <1>4, <2>1
  <2>. QED  BY <1>4, <2>2
<1>. QED  BY <1>6, <1>7 DEF l, t

LEMMA ConnectionRowsAre ==
  ASSUME NEW told, Sensor(told), NEW jsonl, Logged(jsonl, told)
  PROVE  LET rows == ConnectionRows(jsonl)
         IN  /\ DOMAIN rows = {c \in Conns : LogOf(jsonl, c) # << >>}
             /\ \A c \in DOMAIN rows :
                  /\ told[c] # << >> /\ rows[c].by = told[c][1].type
                  /\ rows[c].closed <=> HasClose(LogOf(jsonl, c))
<1> DEFINE lines == LinesOf(jsonl)
           r == Rows(lines)
           rows == ConnectionRows(jsonl)
<1>1. lines \in Seq(AllLines)
  BY DEF Logged
<1>2. \A c \in Conns : Story0(lines, c)
  BY LogIsStory DEF Story0, LogOf
<1>3. \A c \in Conns : RowSays(r, LogOf(jsonl, c), c)
  <2> HIDE DEF lines
  <2>1. \A c \in Conns : RowSays(Rows(lines), Kept(lines, LinesFor(c)), c)
    BY <1>1, <1>2, RowsSay
  <2>. QED  BY <2>1 DEF LogOf, lines
<1>4. r \in AllRows
  <2> DEFINE P == {s \in Seq(AllLines) : Rows(s) \in AllRows}
  <2>1. << >> \in P
    <3>1. << >> \in Seq(AllLines)
      OBVIOUS
    <3>. QED  BY <3>1, RowsNone
  <2>2. ASSUME NEW s \in Seq(AllLines), NEW l \in AllLines PROVE Append(s, l) \in P
    <3>1. Append(s, l) \in Seq(AllLines) /\ Append(s, l) \in Seq(AllLines)
      OBVIOUS
    <3> DEFINE v == Append(s, l)
    <3> HIDE DEF v
    <3>2. v \in Seq(AllLines)
      BY <3>1 DEF v
    <3>3. Rows(v) \in AllRows
      BY <3>2, RowsMore
    <3>. QED  BY <3>2, <3>3 DEF v
  <2>3. Seq(AllLines) \subseteq P
    <3> HIDE DEF P
    <3>. QED  BY <2>1, <2>2, Grown
  <2>. QED  BY <1>1, <2>3
<1>5. DOMAIN r \subseteq Conns
  BY <1>4 DEF AllRows
<1>6. \A x \in ExchangesOf(jsonl) : x.conn \in DOMAIN r
  <2> TAKE x \in ExchangesOf(jsonl)
  <2>1. /\ x.conn \in Conns
        /\ \E j \in DOMAIN LogOf(jsonl, x.conn) : j \in DOMAIN told[x.conn] /\ told[x.conn][j] = x
    BY ExchangeKnown
  <2>2. LogOf(jsonl, x.conn) # << >>
    BY <2>1
  <2>. QED  BY <1>3, <2>1, <2>2 DEF RowSays
<1> HIDE DEF r
<1>7. rows = [c \in DOMAIN r \cup {e.conn : e \in ExchangesOf(jsonl)} |->
               IF c \in DOMAIN r THEN r[c] ELSE [by |-> "exchange", closed |-> FALSE]]
  BY DEF ConnectionRows, r
<1>8. DOMAIN r \cup {e.conn : e \in ExchangesOf(jsonl)} = DOMAIN r
  BY <1>6
<1>9. DOMAIN rows = DOMAIN r /\ \A c \in DOMAIN r : rows[c] = r[c]
  <2> HIDE DEF rows
  <2>. QED  BY <1>7, <1>8
<1>10. DOMAIN r = {c \in Conns : LogOf(jsonl, c) # << >>}
  BY <1>3, <1>5 DEF RowSays
<1> HIDE DEF rows
<1>11. ASSUME NEW c \in DOMAIN rows
       PROVE  /\ told[c] # << >> /\ rows[c].by = told[c][1].type
              /\ rows[c].closed <=> HasClose(LogOf(jsonl, c))
  <2>1. c \in Conns /\ LogOf(jsonl, c) # << >> /\ rows[c] = r[c]
    BY <1>9, <1>10
  <2>2. told[c] # << >> /\ LogOf(jsonl, c)[1] = told[c][1]
    BY <2>1, LogIsStory
  <2>. QED  BY <1>3, <2>1, <2>2 DEF RowSays
<1>. QED  BY <1>9, <1>10, <1>11 DEF rows

LEMMA ExchangeRowsAre ==
  ASSUME NEW told, Sensor(told), NEW jsonl, NEW bwj, Logged(jsonl, told), Recorded(bwj),
         \A x \in ExchangesOf(jsonl) :
           /\ InRange(Stream(bwj, x.conn, "in"), x.inStart, x.inLength)
           /\ InRange(Stream(bwj, x.conn, "out"), x.outStart, x.outLength)
  PROVE  LET rows == ExchangeRows(jsonl, bwj)
         IN  \A id \in DOMAIN rows :
               \E c \in Conns, k \in Nat \ {0} :
                 /\ id = <<c, k>> /\ LogOf(jsonl, c) # << >>
                 /\ k + 1 \in DOMAIN told[c] /\ told[c][k + 1].type = "exchange"
                 /\ rows[id] = RowOf(told[c], c, k)
                 /\ k > 1 => <<c, k - 1>> \in DOMAIN rows
<1> DEFINE rows == ExchangeRows(jsonl, bwj)
           exchanges == ExchangesOf(jsonl)
           row(id) == CHOOSE x \in exchanges : <<x.conn, x.request>> = id
<1>1. /\ DOMAIN rows = {<<x.conn, x.request>> : x \in exchanges}
      /\ \A id \in DOMAIN rows :
           rows[id] = [request |-> Request(bwj, row(id)), response |-> Response(bwj, row(id))]
  BY DEF ExchangeRows
<1> HIDE DEF rows
<1> SUFFICES ASSUME NEW id \in DOMAIN rows
             PROVE  \E c \in Conns, k \in Nat \ {0} :
                      /\ id = <<c, k>> /\ LogOf(jsonl, c) # << >>
                      /\ k + 1 \in DOMAIN told[c] /\ told[c][k + 1].type = "exchange"
                      /\ rows[id] = RowOf(told[c], c, k)
                      /\ k > 1 => <<c, k - 1>> \in DOMAIN rows
  BY DEF rows
<1>2. ASSUME NEW x \in exchanges
      PROVE  \E j \in DOMAIN LogOf(jsonl, x.conn) :
               /\ x.conn \in Conns /\ j \in DOMAIN told[x.conn] /\ told[x.conn][j] = x
               /\ x.type = "exchange"
               /\ j \in Nat /\ j > 1 /\ x.request = j - 1
  <2>1. /\ x.conn \in Conns /\ x.type = "exchange"
        /\ \E j \in DOMAIN LogOf(jsonl, x.conn) : j \in DOMAIN told[x.conn] /\ told[x.conn][j] = x
    BY ExchangeKnown
  <2>2. PICK j \in DOMAIN LogOf(jsonl, x.conn) : j \in DOMAIN told[x.conn] /\ told[x.conn][j] = x
    BY <2>1
  <2>3. PICK c \in Conns : c = x.conn
    BY <2>1
  <2>4. Story(told[c], c)
    BY DEF Sensor
  <2>5. j \in DOMAIN told[c] /\ told[c][j].type = "exchange"
    BY <2>1, <2>2, <2>3
  <2>6. /\ j \in Nat /\ j > 1 /\ told[c][j].request = j - 1
    BY <2>4, <2>5, StoryExchange
  <2>. QED  BY <2>1, <2>2, <2>3, <2>6
<1>3. PICK x \in exchanges : x = row(id) /\ <<x.conn, x.request>> = id
  BY <1>1
<1>4. PICK j \in DOMAIN LogOf(jsonl, x.conn) :
               /\ x.conn \in Conns /\ j \in DOMAIN told[x.conn] /\ told[x.conn][j] = x
               /\ x.type = "exchange"
               /\ j \in Nat /\ j > 1 /\ x.request = j - 1
  BY <1>2
<1>5. PICK c \in Conns : c = x.conn
  BY <1>4
<1>6. PICK k \in Nat \ {0} : k = j - 1
  BY <1>4
<1>7. id = <<c, k>> /\ LogOf(jsonl, c) # << >> /\ k + 1 = j
  BY <1>3, <1>4, <1>5, <1>6
<1>8. rows[id] = RowOf(told[c], c, k)
  <2>1. rows[id] = [request |-> Request(bwj, x), response |-> Response(bwj, x)]
    BY <1>1, <1>3
  <2>2. Request(bwj, x) = Truly(c, "in", j - 2, 1) /\ Response(bwj, x) = Truly(c, "out", x.outStart, x.outLength)
    BY <1>4, <1>5, SliceIsTrue
  <2>3. j - 2 = k - 1 /\ told[c][k + 1] = x
    BY <1>4, <1>5, <1>6, <1>7
  <2>. QED  BY <2>1, <2>2, <2>3 DEF RowOf
<1>9. ASSUME k > 1 PROVE <<c, k - 1>> \in DOMAIN rows
  <2>1. k \in DOMAIN LogOf(jsonl, c)
    <3>1. j \in DOMAIN LogOf(jsonl, c) /\ k \in 1..j
      BY <1>4, <1>5, <1>6
    <3>. QED  BY <3>1, LineRead
  <2>2. /\ k \in DOMAIN told[c] /\ told[c][k] \in LinesFor(c)
        /\ told[c][k].type = "exchange" => told[c][k] \in exchanges
    BY <2>1, LineRead
  <2>3. Story(told[c], c)
    BY DEF Sensor
  <2>4. told[c][k].type = "exchange"
    <3>1. told[c][k].type \in {"connection_open", "connection_close", "exchange"}
      BY <2>2 DEF LinesFor, AllLines
    <3>2. told[c][k].type # "connection_open"
      BY <1>9, <2>2, <2>3 DEF Story
    <3>3. told[c] \in Seq(LinesFor(c)) /\ j \in DOMAIN told[c] /\ k < j
      BY <1>4, <1>5, <1>6, <2>3 DEF Story
    <3>4. k # Len(told[c])
      <4> DEFINE t == told[c]
      <4> HIDE DEF t
      <4>1. t \in Seq(LinesFor(c)) /\ j \in DOMAIN t
        BY <3>3 DEF t
      <4>2. j <= Len(t)
        BY <4>1
      <4>3. Len(t) \in Nat
        BY <4>1
      <4>. QED  BY <3>3, <4>2, <4>3 DEF t
    <3>. QED  BY <2>2, <2>3, <3>1, <3>2, <3>4 DEF Story
  <2>5. told[c][k].request = k - 1 /\ told[c][k].conn = c
    BY <2>2, <2>3, <2>4, StoryExchange
  <2>. QED  BY <1>1, <2>2, <2>4, <2>5
<1>10. k + 1 \in DOMAIN told[c] /\ told[c][k + 1].type = "exchange"
  BY <1>4, <1>5, <1>7
<1>. QED  BY <1>7, <1>8, <1>9, <1>10

(* The tables an index writes are true of the stories, and only know a     *)
(* connection closed whose close has been read.                            *)
Writes(e) ==
  /\ Result(e.jsonl, e.bwj) = "ok"
  /\ db' = [connections |-> Upsert(db.connections, ConnectionRows(e.jsonl)),
            exchanges   |-> Upsert(db.exchanges, ExchangeRows(e.jsonl, e.bwj))]

LEMMA ResultOK ==
  ASSUME NEW jsonl, NEW bwj, Result(jsonl, bwj) = "ok"
  PROVE  \A x \in ExchangesOf(jsonl) :
           /\ InRange(Stream(bwj, x.conn, "in"), x.inStart, x.inLength)
           /\ InRange(Stream(bwj, x.conn, "out"), x.outStart, x.outLength)
BY DEF Result

LEMMA WrittenIsHeld ==
  ASSUME NEW told, Good(told), NEW e \in Evidence, Writes(e)
  PROVE  Held(told)'
<1> DEFINE jsonl == e.jsonl
           bwj == e.bwj
           cs == ConnectionRows(jsonl)
           xs == ExchangeRows(jsonl, bwj)
<1>1. EvidenceKept(e, told) /\ Sensor(told) /\ Held(told)
  BY EvidenceIsKept DEF Good
<1>2. Logged(jsonl, told) /\ Recorded(bwj) /\ Result(jsonl, bwj) = "ok"
  BY <1>1 DEF EvidenceKept, Writes
<1>3. /\ DOMAIN cs = {c \in Conns : LogOf(jsonl, c) # << >>}
      /\ \A c \in DOMAIN cs :
           /\ told[c] # << >> /\ cs[c].by = told[c][1].type
           /\ cs[c].closed <=> HasClose(LogOf(jsonl, c))
  BY <1>1, <1>2, ConnectionRowsAre
<1>4. \A x \in ExchangesOf(jsonl) :
           /\ InRange(Stream(bwj, x.conn, "in"), x.inStart, x.inLength)
           /\ InRange(Stream(bwj, x.conn, "out"), x.outStart, x.outLength)
  BY <1>2, ResultOK
<1>5. \A id \in DOMAIN xs :
        \E c \in Conns, k \in Nat \ {0} :
          /\ id = <<c, k>> /\ LogOf(jsonl, c) # << >>
          /\ k + 1 \in DOMAIN told[c] /\ told[c][k + 1].type = "exchange"
          /\ xs[id] = RowOf(told[c], c, k)
          /\ k > 1 => <<c, k - 1>> \in DOMAIN xs
  BY <1>1, <1>2, <1>4, ExchangeRowsAre
<1>6. db'.connections = Upsert(db.connections, cs) /\ db'.exchanges = Upsert(db.exchanges, xs)
  BY DEF Writes
<1>7. \A c \in Conns : HasClose(LogOf(jsonl, c)) => HasClose(told[c])
  <2> SUFFICES ASSUME NEW c \in Conns, HasClose(LogOf(jsonl, c)) PROVE HasClose(told[c])
    OBVIOUS
  <2>1. PICK j \in DOMAIN LogOf(jsonl, c) : LogOf(jsonl, c)[j].type = "connection_close"
    BY DEF HasClose
  <2>2. j \in DOMAIN told[c] /\ LogOf(jsonl, c)[j] = told[c][j]
    BY <1>1, <1>2, LineRead
  <2>. QED  BY <2>1, <2>2 DEF HasClose
<1> HIDE DEF cs, xs, jsonl, bwj
<1>8. /\ DOMAIN db'.connections = DOMAIN db.connections \cup DOMAIN cs
      /\ DOMAIN db'.exchanges = DOMAIN db.exchanges \cup DOMAIN xs
      /\ \A c \in DOMAIN cs : db'.connections[c] = cs[c]
      /\ \A c \in DOMAIN db.connections : c \notin DOMAIN cs => db'.connections[c] = db.connections[c]
      /\ \A id \in DOMAIN xs : db'.exchanges[id] = xs[id]
      /\ \A id \in DOMAIN db.exchanges : id \notin DOMAIN xs => db'.exchanges[id] = db.exchanges[id]
  <2>1. db'.connections = [c \in DOMAIN db.connections \cup DOMAIN cs |->
                             IF c \in DOMAIN cs THEN cs[c] ELSE db.connections[c]]
    BY <1>6 DEF Upsert
  <2>2. db'.exchanges = [id \in DOMAIN db.exchanges \cup DOMAIN xs |->
                           IF id \in DOMAIN xs THEN xs[id] ELSE db.exchanges[id]]
    BY <1>6 DEF Upsert
  <2>. QED  BY <2>1, <2>2
<1>9. ASSUME NEW id \in DOMAIN db'.exchanges
      PROVE  \E c \in Conns, k \in Nat \ {0} :
               /\ id = <<c, k>> /\ c \in DOMAIN db'.connections
               /\ k + 1 \in DOMAIN told[c] /\ told[c][k + 1].type = "exchange"
               /\ db'.exchanges[id] = RowOf(told[c], c, k)
               /\ k > 1 => <<c, k - 1>> \in DOMAIN db'.exchanges
  <2>1. CASE id \in DOMAIN xs
    <3>1. PICK c \in Conns, k \in Nat \ {0} :
          /\ id = <<c, k>> /\ LogOf(jsonl, c) # << >>
          /\ k + 1 \in DOMAIN told[c] /\ told[c][k + 1].type = "exchange"
          /\ xs[id] = RowOf(told[c], c, k)
          /\ k > 1 => <<c, k - 1>> \in DOMAIN xs
      BY <1>5, <2>1
    <3>2. c \in DOMAIN db'.connections /\ (k > 1 => <<c, k - 1>> \in DOMAIN db'.exchanges)
      BY <1>3, <1>8, <3>1
    <3>. QED  BY <1>8, <2>1, <3>1, <3>2
  <2>2. CASE id \notin DOMAIN xs
    <3>1. PICK c \in Conns, k \in Nat \ {0} :
          /\ id = <<c, k>> /\ c \in DOMAIN db.connections
          /\ k + 1 \in DOMAIN told[c] /\ told[c][k + 1].type = "exchange"
          /\ db.exchanges[id] = RowOf(told[c], c, k)
          /\ k > 1 => <<c, k - 1>> \in DOMAIN db.exchanges
      BY <1>1, <1>8, <2>2 DEF Held
    <3>. QED  BY <1>8, <2>2, <3>1
  <2>. QED  BY <2>1, <2>2
<1>10. ASSUME NEW c \in DOMAIN db'.connections
       PROVE  /\ c \in Conns /\ told[c] # << >>
              /\ db'.connections[c].by = told[c][1].type
              /\ db'.connections[c].closed => HasClose(told[c])
  <2>1. CASE c \in DOMAIN cs
    BY <1>3, <1>7, <1>8, <2>1
  <2>2. CASE c \notin DOMAIN cs
    BY <1>1, <1>8, <2>2 DEF Held
  <2>. QED  BY <2>1, <2>2
<1>11. \A id \in DOMAIN db'.exchanges :
         \E c \in Conns, k \in Nat \ {0} :
           /\ id = <<c, k>> /\ c \in DOMAIN db'.connections
           /\ k + 1 \in DOMAIN told[c] /\ told[c][k + 1].type = "exchange"
           /\ db'.exchanges[id] = RowOf(told[c], c, k)
           /\ k > 1 => <<c, k - 1>> \in DOMAIN db'.exchanges
  BY <1>9
<1>. QED  BY <1>10, <1>11 DEF Held, RowOf

LEMMA WrittenIsKnown ==
  ASSUME NEW told, Good(told), NEW e \in Evidence, Writes(e), reader' = Idle
  PROVE  StillKnown(events)
<1> DEFINE jsonl == e.jsonl
           cs == ConnectionRows(jsonl)
<1>1. EvidenceKept(e, told) /\ Sensor(told)
  BY EvidenceIsKept DEF Good
<1>2. Logged(jsonl, told) /\ \A c \in Conns : HasClose(LogOf(jsonl, c)) =>
        KnownClosed(c) \/ HasClose(LogOf(events, c))
  BY <1>1 DEF EvidenceKept
<1>3. \A c \in DOMAIN cs : cs[c].closed <=> HasClose(LogOf(jsonl, c))
  BY <1>1, <1>2, ConnectionRowsAre
<1>4. db'.connections = Upsert(db.connections, cs)
  BY DEF Writes
<1> HIDE DEF cs, jsonl
<1>5. /\ DOMAIN db'.connections = DOMAIN db.connections \cup DOMAIN cs
      /\ \A c \in DOMAIN cs : db'.connections[c] = cs[c]
      /\ \A c \in DOMAIN db.connections : c \notin DOMAIN cs => db'.connections[c] = db.connections[c]
  <2>1. db'.connections = [c \in DOMAIN db.connections \cup DOMAIN cs |->
                             IF c \in DOMAIN cs THEN cs[c] ELSE db.connections[c]]
    BY <1>4 DEF Upsert
  <2>. QED  BY <2>1
<1> SUFFICES ASSUME NEW c \in Conns, KnownClosed(c)'
             PROVE  KnownClosed(c) \/ HasClose(LogOf(events, c))
  BY DEF StillKnown
<1>6. c \in DOMAIN db'.connections /\ db'.connections[c].closed
  BY DEF KnownClosed, Idle
<1>7. CASE c \in DOMAIN cs
  BY <1>2, <1>3, <1>5, <1>6, <1>7
<1>8. CASE c \notin DOMAIN cs
  BY <1>5, <1>6, <1>8 DEF KnownClosed
<1>. QED  BY <1>7, <1>8

LEMMA ReadSecondIsGood ==
  ASSUME NEW told, Good(told), ReadSecond
  PROVE  Good(told)'
<1>0. /\ \E e \in Evidence : UNCHANGED db \/ Writes(e)
      /\ reader' = Idle
      /\ UNCHANGED <<run, up, connection, journalOK, jsonlHealthy, journal, events, faults>>
  BY DEF ReadSecond, sensor, evidence, Writes
<1>1. /\ Sensor(told) /\ TheJournal /\ TheEvents(told) /\ Reading(told) /\ Held(told)
      /\ AllTold(told) /\ AllBytes /\ run \in Nat /\ up \in BOOLEAN /\ DOMAIN told = Conns
  BY GoodSays
<1>2. run' \in Nat /\ run <= run' /\ up' \in BOOLEAN /\ faults \subseteq faults'
  BY <1>0, <1>1
<1>3. Sensor(told)'
  BY <1>0, <1>1, <1>2, SensorStays
<1>4. UNCHANGED <<bytesIn, bytesOut>>
  BY <1>0 DEF connection
<1>5. TheJournal'
  BY <1>0, <1>1, <1>2, <1>4, JournalIdle
<1>6. \A c \in Conns : ToldMore(told, told, c)
  BY <1>1, ToldSame
<1>7. PICK e \in Evidence : UNCHANGED db \/ Writes(e)
  BY <1>0
<1>8. Held(told)'
  <2>1. CASE UNCHANGED db
    BY <1>1, <1>6, <2>1, HeldStays
  <2>2. CASE Writes(e)
    BY <2>2, WrittenIsHeld
  <2>. QED  BY <1>7, <2>1, <2>2
<1>9. StillKnown(events)
  <2>1. CASE UNCHANGED db
    BY <1>0, <2>1 DEF StillKnown, KnownClosed, Idle
  <2>2. CASE Writes(e)
    BY <1>0, <2>2, WrittenIsKnown
  <2>. QED  BY <1>7, <2>1, <2>2
<1>10. TheEvents(told)'
  <2>1. \A c \in Conns : ToldMore(told, told, c) /\ (Working(c)' /\ jsonlHealthy' => told[c] = told[c])
    BY <1>6
  <2>. QED  BY <1>0, <1>1, <1>2, <1>9, <2>1, EventsIdle
<1>11. Reading(told)'
  BY <1>0 DEF Reading, Idle
<1>. QED  BY <1>3, <1>5, <1>8, <1>10, <1>11, GoodIs

LEMMA NextIsGood ==
  ASSUME NEW told, Good(told), [Next]_vars
  PROVE  \E more : Good(more)'
<1>1. CASE StartRun
  BY <1>1, StartRunIsGood
<1>2. CASE RotateJournal
  BY <1>2, RotateJournalIsGood
<1>3. CASE RotateEvents
  BY <1>3, RotateEventsIsGood
<1>4. CASE Stop
  BY <1>4, StopIsGood
<1>5. CASE Kill
  BY <1>5, KillIsGood
<1>6. CASE PowerLoss
  BY <1>6, PowerLossIsGood
<1>7. ASSUME NEW c \in Conns, Handler(c) PROVE \E more : Good(more)'
  <2>1. CASE Open(c)
    BY <2>1, OpenIsGood
  <2>2. CASE ReadRequest(c)
    BY <2>2, ReadRequestIsGood
  <2>3. CASE WriteResponse(c)
    BY <2>3, WriteResponseIsGood
  <2>4. CASE EmitExchange(c)
    BY <2>4, EmitExchangeIsGood
  <2>5. CASE Close(c)
    BY <2>5, CloseIsGood
  <2>. QED  BY <1>7, <2>1, <2>2, <2>3, <2>4, <2>5 DEF Handler
<1>8. CASE StartIndex
  <2>1. ReadFirst("index", "events")
    BY <1>8 DEF StartIndex, IndexFirst
  <2>. QED  BY <2>1, ReadFirstIsGood
<1>9. CASE StartArchive
  <2>1. ReadFirst("archive", "journal")
    BY <1>9 DEF StartArchive
  <2>. QED  BY <2>1, ReadFirstIsGood
<1>10. CASE ReadSecond
  BY <1>10, ReadSecondIsGood
<1>11. CASE UNCHANGED vars
  <2>1. UNCHANGED <<run, up, connection, journalOK, jsonlHealthy, journal, events, faults, reader, db>>
    BY <1>11 DEF vars, sensor, evidence, index
  <2>2. UNCHANGED <<pc, bytesIn, bytesOut, requests, responseStart>>
    BY <2>1 DEF connection
  <2>3. Good(told)'
    <3>1. /\ Sensor(told) /\ TheJournal /\ TheEvents(told) /\ Reading(told) /\ Held(told)
          /\ AllTold(told) /\ AllBytes /\ run \in Nat /\ up \in BOOLEAN /\ DOMAIN told = Conns
      BY GoodSays
    <3>2. run' \in Nat /\ run <= run' /\ up' \in BOOLEAN /\ faults \subseteq faults'
      BY <2>1, <3>1
    <3>3. /\ Sensor(told)' /\ Held(told)'
          /\ \A c \in Conns : ToldMore(told, told, c)
          /\ \A c \in Conns, dir \in {"in", "out"} :
               Bytes(c, dir) \in Nat /\ Bytes(c, dir)' \in Nat /\ Bytes(c, dir) <= Bytes(c, dir)'
      BY <2>1, <3>2, SystemFrame
    <3>4. TheJournal'
      BY <2>1, <2>2, <3>1, <3>2, JournalIdle
    <3>5. TheEvents(told)'
      <4>1. \A c \in Conns : ToldMore(told, told, c) /\ (Working(c)' /\ jsonlHealthy' => told[c] = told[c])
        BY <3>3
      <4>. QED  BY <2>1, <3>1, <3>2, <4>1, KnownStays, EventsIdle
    <3>6. Reading(told)'
      <4>1. PICK live \in BOOLEAN : live = reader.live
        BY <3>1 DEF Reading
      <4>2. reader' = [reader EXCEPT !.live = live]
        BY <2>1, <3>1, <4>1 DEF Reading
      <4>3. reader.first # "none" =>
              /\ up' => live
              /\ reader.live => live
              /\ ~live => reader.files = Files(reader.first)'
        BY <2>1, <3>1, <4>1 DEF Reading, Files
      <4>. QED  BY <2>1, <3>1, <3>2, <3>3, <4>2, <4>3, ReadingGoesOn
    <3>. QED  BY <3>3, <3>4, <3>5, <3>6, GoodIs
  <2>. QED  BY <2>3
<1>. QED  BY <1>1, <1>2, <1>3, <1>4, <1>5, <1>6, <1>7, <1>8, <1>9, <1>10, <1>11 DEF Next

-----------------------------------------------------------------------------
(* The responses of a story's first exchanges, joined, are the first units *)
(* the connection sent.                                                    *)
SentBy(t, k) == IF k = 0 THEN 0 ELSE t[k + 1].outStart + t[k + 1].outLength
Responses(t, c, k) == [i \in 1..k |-> Truly(c, "out", t[i + 1].outStart, t[i + 1].outLength)]

LEMMA TrulyJoins ==
  ASSUME NEW c \in Conns, NEW dir \in {"in", "out"}, NEW n \in Nat, NEW m \in Nat
  PROVE  Truly(c, dir, 0, n) \o Truly(c, dir, n, m) = Truly(c, dir, 0, n + m)
<1> DEFINE s == Truly(c, dir, 0, n)
           t == Truly(c, dir, n, m)
           u == Truly(c, dir, 0, n + m)
<1>1. /\ s \in Seq(AllUnits) /\ Len(s) = n /\ t \in Seq(AllUnits) /\ Len(t) = m
      /\ u \in Seq(AllUnits) /\ Len(u) = n + m
  <2>1. n + m \in Nat /\ 0 \in Nat
    OBVIOUS
  <2>. QED  BY <2>1, TrulyType
<1> DEFINE unit(i) == [conn |-> c, dir |-> dir, at |-> i]
<1>2. /\ \A i \in 1..n : s[i] = unit(i)
      /\ \A i \in 1..m : t[i] = unit(n + i)
      /\ \A i \in 1..(n + m) : u[i] = unit(i)
  BY DEF Truly
<1> HIDE DEF s, t, u, unit
<1> DEFINE v == s \o t
<1>3. /\ v \in Seq(AllUnits) /\ Len(v) = n + m
      /\ \A i \in 1..n : v[i] = s[i]
      /\ \A i \in (n + 1)..(n + m) : v[i] = t[i - n]
  BY <1>1
<1> HIDE DEF v
<1>4. \A i \in 1..(n + m) : v[i] = u[i]
  <2> SUFFICES ASSUME NEW i \in 1..(n + m) PROVE v[i] = u[i]
    OBVIOUS
  <2>1. CASE i <= n
    BY <1>2, <1>3, <2>1
  <2>2. CASE i > n
    <3>1. i - n \in 1..m /\ n + (i - n) = i /\ i \in (n + 1)..(n + m)
      BY <2>2
    <3>. QED  BY <1>2, <1>3, <3>1
  <2>. QED  BY <2>1, <2>2
<1>5. v = u
  BY <1>1, <1>3, <1>4
<1>. QED  BY <1>5 DEF s, t, u, v

LEMMA ResponsesJoin ==
  ASSUME NEW c \in Conns, NEW t, Story(t, c), NEW k \in Nat,
         \A i \in 1..k : i + 1 \in DOMAIN t /\ t[i + 1].type = "exchange"
  PROVE  /\ SentBy(t, k) \in Nat
         /\ FlattenSeq(Responses(t, c, k)) = Truly(c, "out", 0, SentBy(t, k))
<1> DEFINE R == Seq(AllUnits)
           T == {m \in Nat : m <= k => /\ SentBy(t, m) \in Nat
                                       /\ Responses(t, c, m) \in Seq(R)
                                       /\ FlattenSeq(Responses(t, c, m)) = Truly(c, "out", 0, SentBy(t, m))}
<1>1. 0 \in T
  <2>1. Responses(t, c, 0) = << >> /\ SentBy(t, 0) = 0
    BY DEF Responses, SentBy
  <2>2. Truly(c, "out", 0, 0) = << >>
    BY DEF Truly
  <2>3. << >> \in Seq(R)
    OBVIOUS
  <2>4. /\ SentBy(t, 0) \in Nat /\ Responses(t, c, 0) \in Seq(R)
        /\ FlattenSeq(Responses(t, c, 0)) = Truly(c, "out", 0, SentBy(t, 0))
    <3> HIDE DEF R, T
    <3>1. FlattenSeq(Responses(t, c, 0)) = << >> /\ Responses(t, c, 0) \in Seq(R)
      BY <2>1, <2>3, FlattenEmpty
    <3>2. SentBy(t, 0) \in Nat /\ Truly(c, "out", 0, SentBy(t, 0)) = << >>
      BY <2>1, <2>2
    <3>. QED  BY <3>1, <3>2
  <2> HIDE DEF R
  <2>. QED  BY <2>4
<1>2. ASSUME NEW m \in Nat, m \in T PROVE m + 1 \in T
  <2> SUFFICES ASSUME m + 1 <= k
               PROVE  /\ SentBy(t, m + 1) \in Nat
                      /\ Responses(t, c, m + 1) \in Seq(R)
                      /\ FlattenSeq(Responses(t, c, m + 1)) = Truly(c, "out", 0, SentBy(t, m + 1))
    OBVIOUS
  <2> DEFINE l == t[m + 2]
             r == Truly(c, "out", l.outStart, l.outLength)
             rs == Responses(t, c, m)
  <2>1. /\ SentBy(t, m) \in Nat /\ rs \in Seq(R)
        /\ FlattenSeq(rs) = Truly(c, "out", 0, SentBy(t, m))
    BY <1>2
  <2>2. m + 1 \in 1..k /\ (m + 1) + 1 = m + 2
    OBVIOUS
  <2>3. m + 2 \in DOMAIN t /\ l.type = "exchange"
    BY <2>2
  <2>4. l.outStart \in Nat /\ l.outLength \in Nat
    BY <2>3, StoryExchange
  <2>5. l.outStart = SentBy(t, m)
    <3>1. Follows(t[m + 2], t[(m + 2) - 1], m + 2)
      BY <2>3 DEF Story
    <3>2. (m + 2) - 1 = m + 1 /\ (m + 2 = 2 <=> m = 0)
      OBVIOUS
    <3>. QED  BY <3>1, <3>2 DEF Follows, SentBy
  <2>6. r \in R
    BY <2>4, TrulyType
  <2>7. SentBy(t, m + 1) = SentBy(t, m) + l.outLength
    BY <2>2, <2>5 DEF SentBy
  <2>8. Responses(t, c, m + 1) = Append(rs, r)
    <3> DEFINE new == Responses(t, c, m + 1)
    <3>1. new = [i \in 1..(m + 1) |-> Truly(c, "out", t[i + 1].outStart, t[i + 1].outLength)]
          /\ rs = [i \in 1..m |-> Truly(c, "out", t[i + 1].outStart, t[i + 1].outLength)]
      BY DEF Responses
    <3>2. (\A i \in 1..m : new[i] = rs[i]) /\ new[m + 1] = r /\ DOMAIN new = 1..(m + 1) /\ Len(rs) = m
      BY <2>2, <3>1
    <3>3. \A i \in 1..(m + 1) : i \in 1..m \/ i = m + 1
      OBVIOUS
    <3>4. \A i \in 1..m : rs[i] \in R
      BY <2>1, <3>2
    <3>5. new \in Seq(R) /\ Len(new) = m + 1
      <4>1. \A i \in 1..(m + 1) : new[i] \in R
        BY <2>6, <3>2, <3>3, <3>4
      <4>2. new = [i \in 1..(m + 1) |-> new[i]]
        BY <3>1
      <4> HIDE DEF new, R
      <4>. QED  BY <4>1, <4>2
    <3> HIDE DEF new, R, rs, r
    <3>6. Append(rs, r) \in Seq(R) /\ Len(Append(rs, r)) = m + 1
          /\ Append(rs, r)[m + 1] = r /\ \A i \in 1..m : Append(rs, r)[i] = rs[i]
      BY <2>1, <2>6, <3>2
    <3>7. new = Append(rs, r)
      BY <3>2, <3>3, <3>5, <3>6
    <3>. QED  BY <3>7 DEF new
  <2>9. FlattenSeq(Append(rs, r)) = FlattenSeq(rs) \o r /\ Append(rs, r) \in Seq(R)
    <3> HIDE DEF rs, r
    <3>. QED  BY <2>1, <2>6, FlattenAppend
  <2>10. Truly(c, "out", 0, SentBy(t, m)) \o r = Truly(c, "out", 0, SentBy(t, m) + l.outLength)
    <3>1. r = Truly(c, "out", SentBy(t, m), l.outLength)
      BY <2>5
    <3> HIDE DEF l, r
    <3>. QED  BY <2>1, <2>4, <3>1, TrulyJoins
  <2> HIDE DEF l, r, rs, R
  <2>11. FlattenSeq(Responses(t, c, m + 1)) = Truly(c, "out", 0, SentBy(t, m + 1))
    BY <2>1, <2>7, <2>8, <2>9, <2>10
  <2>12. SentBy(t, m + 1) \in Nat
    BY <2>1, <2>4, <2>7
  <2>. QED  BY <2>8, <2>9, <2>11, <2>12
<1>3. Nat \subseteq T
  <2> HIDE DEF T
  <2>. QED  BY <1>1, <1>2, Induction
<1>. QED  BY <1>3

LEMMA HeldBefore ==
  ASSUME NEW told, Held(told), NEW c \in Conns, NEW k \in Nat \ {0}, <<c, k>> \in DOMAIN db.exchanges
  PROVE  \A i \in 1..k :
           /\ c \in DOMAIN db.connections
           /\ i + 1 \in DOMAIN told[c] /\ told[c][i + 1].type = "exchange"
           /\ db.exchanges[<<c, i>>] = RowOf(told[c], c, i)
<1>1. ASSUME NEW i \in Nat, <<c, i>> \in DOMAIN db.exchanges
      PROVE  /\ c \in DOMAIN db.connections
             /\ i + 1 \in DOMAIN told[c] /\ told[c][i + 1].type = "exchange"
             /\ db.exchanges[<<c, i>>] = RowOf(told[c], c, i)
             /\ i > 1 => <<c, i - 1>> \in DOMAIN db.exchanges
  <2>1. PICK d \in Conns, j \in Nat \ {0} :
         /\ <<c, i>> = <<d, j>> /\ d \in DOMAIN db.connections
         /\ j + 1 \in DOMAIN told[d] /\ told[d][j + 1].type = "exchange"
         /\ db.exchanges[<<c, i>>] = RowOf(told[d], d, j)
         /\ j > 1 => <<d, j - 1>> \in DOMAIN db.exchanges
    BY <1>1 DEF Held
  <2>2. d = c /\ j = i
    BY <2>1
  <2>. QED  BY <2>1, <2>2
<1> DEFINE T == {m \in Nat : m < k => <<c, k - m>> \in DOMAIN db.exchanges}
<1>2. 0 \in T
  OBVIOUS
<1>3. ASSUME NEW m \in Nat, m \in T PROVE m + 1 \in T
  <2> SUFFICES ASSUME m + 1 < k PROVE <<c, k - (m + 1)>> \in DOMAIN db.exchanges
    OBVIOUS
  <2>1. <<c, k - m>> \in DOMAIN db.exchanges /\ k - m \in Nat /\ k - m > 1 /\ (k - m) - 1 = k - (m + 1)
    BY <1>3
  <2>. QED  BY <1>1, <2>1
<1>4. Nat \subseteq T
  <2> HIDE DEF T
  <2>. QED  BY <1>2, <1>3, Induction
<1>5. ASSUME NEW i \in 1..k PROVE i \in Nat /\ <<c, i>> \in DOMAIN db.exchanges
  <2>1. k - i \in Nat /\ k - i < k /\ k - (k - i) = i
    OBVIOUS
  <2>. QED  BY <1>4, <2>1
<1>. QED  BY <1>1, <1>5

(* What the database says is true. *)
LEMMA ExchangeIsTrue ==
  ASSUME NEW told, Good(told), NEW id \in DOMAIN db.exchanges
  PROVE  LET c == id[1]
             k == id[2]
             sent == FlattenSeq([i \in 1..k |-> db.exchanges[<<c, i>>].response])
         IN  /\ c \in DOMAIN db.connections
             /\ k > 1 => <<c, k - 1>> \in DOMAIN db.exchanges
             /\ db.exchanges[id].request = Truly(c, "in", k - 1, 1)
             /\ Len(sent) <= bytesOut[c] /\ sent = Truly(c, "out", 0, Len(sent))
<1>1. Held(told) /\ Sensor(told)
  BY DEF Good
<1>2. PICK c \in Conns, k \in Nat \ {0} :
         /\ id = <<c, k>> /\ c \in DOMAIN db.connections
         /\ k + 1 \in DOMAIN told[c] /\ told[c][k + 1].type = "exchange"
         /\ db.exchanges[id] = RowOf(told[c], c, k)
         /\ k > 1 => <<c, k - 1>> \in DOMAIN db.exchanges
  BY <1>1 DEF Held
<1>3. id[1] = c /\ id[2] = k
  BY <1>2
<1> DEFINE sent == FlattenSeq([i \in 1..k |-> db.exchanges[<<c, i>>].response])
           t == told[c]
<1>4. \A i \in 1..k : /\ i + 1 \in DOMAIN t /\ t[i + 1].type = "exchange"
                      /\ db.exchanges[<<c, i>>] = RowOf(t, c, i)
  BY <1>1, <1>2, HeldBefore
<1>5. [i \in 1..k |-> db.exchanges[<<c, i>>].response] = Responses(t, c, k)
  <2>1. \A i \in 1..k :
          db.exchanges[<<c, i>>].response = Truly(c, "out", t[i + 1].outStart, t[i + 1].outLength)
    <3> SUFFICES ASSUME NEW i \in 1..k
                 PROVE  db.exchanges[<<c, i>>].response
                          = Truly(c, "out", t[i + 1].outStart, t[i + 1].outLength)
      OBVIOUS
    <3>1. db.exchanges[<<c, i>>] = RowOf(t, c, i)
      BY <1>4
    <3> HIDE DEF t
    <3>2. RowOf(t, c, i).response = Truly(c, "out", t[i + 1].outStart, t[i + 1].outLength)
      BY DEF RowOf
    <3>. QED  BY <3>1, <3>2
  <2> HIDE DEF t
  <2>. QED  BY <2>1 DEF Responses
<1>6. Story(t, c) /\ Lived(t, c)
  BY <1>1 DEF Sensor
<1>7. SentBy(t, k) \in Nat /\ sent = Truly(c, "out", 0, SentBy(t, k))
  <2>1. SentBy(t, k) \in Nat /\ FlattenSeq(Responses(t, c, k)) = Truly(c, "out", 0, SentBy(t, k))
    <3> HIDE DEF t
    <3>. QED  BY <1>4, <1>6, ResponsesJoin
  <2>. QED  BY <1>5, <2>1
<1>8. SentBy(t, k) <= bytesOut[c]
  BY <1>2, <1>6 DEF Lived, SentBy
<1>9. Len(sent) = SentBy(t, k)
  BY <1>7, TrulyType
<1>10. db.exchanges[id].request = Truly(c, "in", k - 1, 1)
  BY <1>2 DEF RowOf
<1> HIDE DEF sent, t
<1>11. /\ c \in DOMAIN db.connections
       /\ k > 1 => <<c, k - 1>> \in DOMAIN db.exchanges
       /\ db.exchanges[id].request = Truly(c, "in", k - 1, 1)
       /\ Len(sent) <= bytesOut[c] /\ sent = Truly(c, "out", 0, Len(sent))
  BY <1>2, <1>7, <1>8, <1>9, <1>10
<1>. QED  BY <1>3, <1>11 DEF sent

LEMMA ConnectionIsTrue ==
  ASSUME NEW told, Good(told), NEW c \in DOMAIN db.connections
  PROVE  /\ db.connections[c].by # "exchange"
         /\ db.connections[c].by = "connection_close" => bytesIn[c] = 0 /\ "journal" \in faults
         /\ db.connections[c].closed => pc[c] = "done"
<1> DEFINE t == told[c]
<1>1. /\ c \in Conns /\ t # << >> /\ db.connections[c].by = t[1].type
      /\ db.connections[c].closed => HasClose(t)
      /\ Story(t, c) /\ Lived(t, c)
  BY DEF Good, Held, Sensor
<1>2. t \in Seq(LinesFor(c))
  BY <1>1 DEF Story
<1>3. 1 \in DOMAIN t /\ Len(t) \in Nat /\ DOMAIN t = 1..Len(t)
  BY <1>1, <1>2
<1>4. t[1].type # "exchange"
  BY <1>1, <1>3 DEF Story
<1>5. t[1].type = "connection_close" => Refused(t, c)
  <2> SUFFICES ASSUME t[1].type = "connection_close" PROVE Refused(t, c)
    OBVIOUS
  <2>1. Len(t) = 1 /\ pc[c] = "done"
    BY <1>1, <1>3 DEF Story, Lived
  <2>. QED  BY <1>1, <2>1 DEF Lived
<1>6. HasClose(t) => pc[c] = "done"
  BY <1>1 DEF HasClose, Lived
<1>. QED  BY <1>1, <1>4, <1>5, <1>6 DEF Refused

(* Only a reading changes the database. *)
LEMMA OnlyReadSecond ==
  ASSUME [Next]_vars, db' # db
  PROVE  ReadSecond
<1>1. ~StartRun /\ ~RotateJournal /\ ~RotateEvents /\ ~Stop /\ ~Kill /\ ~PowerLoss
  BY DEF StartRun, RotateJournal, RotateEvents, Stop, Kill, PowerLoss, index
<1>2. \A c \in Conns : ~Handler(c)
  BY DEF Handler, Open, ReadRequest, WriteResponse, EmitExchange, Close, index
<1>3. ~StartIndex /\ ~StartArchive
  BY DEF StartIndex, StartArchive, ReadFirst
<1>4. ~UNCHANGED vars
  BY DEF vars, index
<1>. QED  BY <1>1, <1>2, <1>3, <1>4 DEF Next

LEMMA WrittenForgetsNothing ==
  ASSUME NEW told, Good(told), NEW e \in Evidence, Writes(e)
  PROVE  /\ \A id \in DOMAIN db.exchanges :
              id \in DOMAIN db'.exchanges /\ db'.exchanges[id] = db.exchanges[id]
         /\ \A c \in DOMAIN db.connections :
              /\ c \in DOMAIN db'.connections /\ db'.connections[c].by = db.connections[c].by
              /\ db.connections[c].closed => db'.connections[c].closed \/ "power" \in faults
<1> DEFINE jsonl == e.jsonl
           bwj == e.bwj
           cs == ConnectionRows(jsonl)
           xs == ExchangeRows(jsonl, bwj)
<1>1. EvidenceKept(e, told) /\ Sensor(told) /\ Held(told)
  BY EvidenceIsKept DEF Good
<1>2. Logged(jsonl, told) /\ Recorded(bwj) /\ Result(jsonl, bwj) = "ok"
  BY <1>1 DEF EvidenceKept, Writes
<1>3. /\ DOMAIN cs = {c \in Conns : LogOf(jsonl, c) # << >>}
      /\ \A c \in DOMAIN cs :
           /\ told[c] # << >> /\ cs[c].by = told[c][1].type
           /\ cs[c].closed <=> HasClose(LogOf(jsonl, c))
  BY <1>1, <1>2, ConnectionRowsAre
<1>4. \A x \in ExchangesOf(jsonl) :
           /\ InRange(Stream(bwj, x.conn, "in"), x.inStart, x.inLength)
           /\ InRange(Stream(bwj, x.conn, "out"), x.outStart, x.outLength)
  BY <1>2, ResultOK
<1>5. \A id \in DOMAIN xs :
        \E c \in Conns, k \in Nat \ {0} : id = <<c, k>> /\ xs[id] = RowOf(told[c], c, k)
  <2>1. \A id \in DOMAIN xs :
          \E c \in Conns, k \in Nat \ {0} :
            /\ id = <<c, k>> /\ LogOf(jsonl, c) # << >>
            /\ k + 1 \in DOMAIN told[c] /\ told[c][k + 1].type = "exchange"
            /\ xs[id] = RowOf(told[c], c, k)
            /\ k > 1 => <<c, k - 1>> \in DOMAIN xs
    BY <1>1, <1>2, <1>4, ExchangeRowsAre
  <2> HIDE DEF xs, jsonl
  <2>. QED  BY <2>1
<1>6. db'.connections = Upsert(db.connections, cs) /\ db'.exchanges = Upsert(db.exchanges, xs)
  BY DEF Writes
<1>7. \A c \in Conns : "power" \notin faults /\ KnownClosed(c) => HasClose(LogOf(jsonl, c))
  BY <1>2 DEF Logged
<1> HIDE DEF cs, xs, jsonl, bwj
<1>8. ASSUME NEW id \in DOMAIN db.exchanges
      PROVE  id \in DOMAIN db'.exchanges /\ db'.exchanges[id] = db.exchanges[id]
  <2>1. db'.exchanges = [i \in DOMAIN db.exchanges \cup DOMAIN xs |->
                           IF i \in DOMAIN xs THEN xs[i] ELSE db.exchanges[i]]
    BY <1>6 DEF Upsert
  <2>2. PICK c \in Conns, k \in Nat \ {0} : id = <<c, k>> /\ db.exchanges[id] = RowOf(told[c], c, k)
    BY <1>1 DEF Held
  <2>3. CASE id \in DOMAIN xs
    <3>1. PICK d \in Conns, j \in Nat \ {0} : id = <<d, j>> /\ xs[id] = RowOf(told[d], d, j)
      BY <1>5, <2>3
    <3>2. d = c /\ j = k
      BY <2>2, <3>1
    <3>. QED  BY <2>1, <2>2, <2>3, <3>1, <3>2
  <2>4. CASE id \notin DOMAIN xs
    BY <2>1, <2>4
  <2>. QED  BY <2>3, <2>4
<1>9. ASSUME NEW c \in DOMAIN db.connections
      PROVE  /\ c \in DOMAIN db'.connections /\ db'.connections[c].by = db.connections[c].by
             /\ db.connections[c].closed => db'.connections[c].closed \/ "power" \in faults
  <2>1. db'.connections = [d \in DOMAIN db.connections \cup DOMAIN cs |->
                             IF d \in DOMAIN cs THEN cs[d] ELSE db.connections[d]]
    BY <1>6 DEF Upsert
  <2>2. c \in Conns /\ db.connections[c].by = told[c][1].type
    BY <1>1 DEF Held
  <2>3. CASE c \in DOMAIN cs
    <3>1. db'.connections[c] = cs[c] /\ c \in DOMAIN db'.connections
      BY <2>1, <2>3
    <3>2. db.connections[c].closed => KnownClosed(c)
      BY DEF KnownClosed
    <3>. QED  BY <1>3, <1>7, <2>2, <2>3, <3>1, <3>2
  <2>4. CASE c \notin DOMAIN cs
    BY <2>1, <2>4
  <2>. QED  BY <2>3, <2>4
<1>. QED  BY <1>8, <1>9

-----------------------------------------------------------------------------
(* The inductive invariant: there is a story of every connection that      *)
(* explains the sensor, both stores, what is being read, and the database. *)
Told == \E told : Good(told)

(* In every state there is such a story (all of Index).                    *)
THEOREM AlwaysTold == Spec => []Told
<1>1. Init => Told
  BY InitIsGood DEF Told
<1>2. Told /\ [Next]_vars => Told'
  <2> SUFFICES ASSUME Told, [Next]_vars PROVE Told'
    OBVIOUS
  <2>1. PICK told : Good(told)
    BY DEF Told
  <2>2. \E more : Good(more)'
    BY <2>1, NextIsGood
  <2>. QED  BY <2>2 DEF Told
<1>. QED  BY <1>1, <1>2, PTL DEF Spec

(* An index fails only for what happened to the evidence, whatever the     *)
(* connections, the faults and the moments of the readings                 *)
(* (index.go:124-151, connection.go:128-142, 195-218).                     *)
THEOREM FailuresAlwaysExplained == Spec => []IndexErrorsExplained
<1>1. Told => IndexErrorsExplained
  BY FailureExplained DEF Told, IndexErrorsExplained
<1>. QED  BY <1>1, AlwaysTold, PTL

(* What the database says is true of every connection it names: its        *)
(* exchanges are the first ones, without a gap, with the bytes received    *)
(* and sent, and its row is neither inferred from an exchange nor closed   *)
(* before the connection is (index.go:132-163, 195-229, 266-281).          *)
THEOREM IndexIsAlwaysTrue == Spec => []IndexIsTrue
<1>1. Told => IndexIsTrue
  BY ExchangeIsTrue, ConnectionIsTrue DEF Told, IndexIsTrue
<1>. QED  BY <1>1, AlwaysTold, PTL

(* A refresh takes nothing from the database, except that a connection     *)
(* whose close event a power loss took is open again                       *)
(* (index.go:307-326, 343-369).                                            *)
THEOREM NothingEverForgotten == Spec => RefreshNeverForgets
<1> DEFINE exchangesStay ==
             \A id \in DOMAIN db.exchanges :
               id \in DOMAIN db'.exchanges /\ db'.exchanges[id] = db.exchanges[id]
           connectionsStay ==
             \A c \in DOMAIN db.connections :
               /\ c \in DOMAIN db'.connections /\ db'.connections[c].by = db.connections[c].by
               /\ db.connections[c].closed => db'.connections[c].closed \/ "power" \in faults
<1>1. Told /\ [Next]_vars => [exchangesStay /\ connectionsStay]_db
  <2> SUFFICES ASSUME Told, [Next]_vars, db' # db PROVE exchangesStay /\ connectionsStay
    OBVIOUS
  <2>1. PICK told : Good(told)
    BY DEF Told
  <2>2. PICK e \in Evidence : Writes(e)
    BY OnlyReadSecond DEF ReadSecond, Writes
  <2>. QED  BY <2>1, <2>2, WrittenForgetsNothing
<1>. QED  BY <1>1, AlwaysTold, PTL DEF Spec, RefreshNeverForgets
=============================================================================
