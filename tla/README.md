# A verification project for notaihoney

notaihoney is a honeypot sensor written in Go. It listens on the TCP ports of the
services in one YAML file, answers HTTP and HTTPS requests with configured responses, and
records what it sees three times over: a packet capture by an external `dumpcap`, a raw
binary journal of every byte read and written (BWJ), and a structured event log (JSONL).
What it is for is evidence, so what must be right is the evidence: what the journal holds,
in which order, what an event may say about it, and that the sensor stops serving the
public when it cannot record any more.

Paths below are relative to the repository's root (`src/...` in `PROJECT.json`).

## 1. Inventory

| Component | Code | State | Operations | Talks to |
|---|---|---|---|---|
| serve runtime | `internal/engine/engine.go`, `listener.go` | listeners, lease, both writers, `fatalCh`, active connections, WaitGroup, slots | `Run`, `acceptLoop`, `tryAcquireConnectionSlots`, `fail`, `closeActiveConnections` | starts everything below |
| connection handler | `internal/engine/connection.go`, `http.go`, `tls.go` | counters, deadlines, reader and `bufio` buffer, current request and response, close reason | `handleConnection`, `recordingReader.Read`, `exchangeWriter.Write`, `consumeBody`, `postFailureCapture` | journal, event writer, router, response writer, client |
| wire journal writer | `internal/evidence/bwj.go` | mutex, current file, two sequences, size, `closed`, sticky failure | `WriteConnectionOpen/Close`, `WriteLimit`, `WriteParserError`, `WriteData`, rotation, `Close`, `ReadBWJFile` | shared by all handlers |
| structured event writer | `internal/evidence/jsonl.go` | mutex, file, sequence, size, degraded flag of `rt.emit` | `WriteEvent`, rotation, truncation of big events, `Close` | shared by all handlers |
| router | `internal/engine/router.go` | response sequence of a connection | `SelectResponse`, header merging | handler |
| response writer | `internal/response/response.go` | none | `Write`: budget, delays, chunks, framing | handler's `exchangeWriter` |
| capture health | `internal/capture/health.go` | leases of the capture service; `Lost` of the client | Unix socket: digest, READY, watch, `Close` | capture supervisor, serve runtime |
| capture supervisor | `internal/capture/capture.go` | the `dumpcap` process | `Run`, `waitForPCAPReady`, `stopDumpcap` | capture health |
| storage checks | `internal/evidence/storage.go` | none | `statfs` against a minimum | serve runtime |
| offline index | `internal/index/index.go` | none | reads both evidence stores, joins, writes SQLite | files only |
| configuration | `internal/config` | none after loading | load, validate, digest | all |
| command line, deployment | `cmd/notaihoney`, `scripts`, `deploy` | none | modes, signals, installation | all |

### What is hard, and what makes each part correct

* **Journal writer.** One mutex per record and not per call, so records of other handlers
  and a rotation come between the records of one `WriteData`; a rotation is several system
  calls, each of which can fail; only rotation and `Close` sync; the process may be killed
  or lose power anywhere. Correct: every file but the newest is complete and readable, a
  connection's records are a gap-free prefix of what it wrote, an acknowledged record is
  there, nothing follows a failure, and a nil from `Close` means durable.
* **Serve runtime.** Run, one accept loop per service and one goroutine per connection
  share six pieces of state; five causes can end the `select` at once; the shutdown closes
  listeners, cancels, scans and waits while accept loops still admit. Correct: no slot is
  leaked, nobody writes to a closed writer, no handler is missed by the scan, whatever is
  opened is closed on every path, success is reported only for intact evidence, and a lost
  capture closes the public listeners.
* **Connection handler.** Two phases read through one buffer that reads ahead; one byte
  limit covers reads and writes; six phases set deadlines on one socket; bytes are sent
  first, journaled after and counted always; the reason of a close is derived from several
  errors and the clock. Correct: limits are exact, event ranges cut the stream where the
  parser did and can be read back from the journal, no call waits past the lifetime.
* **Event writer.** One failure, or one event too big to shrink, disables it for the
  process; it must never take the journal with it.
* **Capture health and supervisor.** READY races registration; the process exit races the
  stop; correct means a client that was told READY learns of every loss.
* **Offline index.** It may read while the sensor writes, or after a crash, and one bad
  range or torn line refuses everything.
* **Router, response writer, configuration.** Sequential: right against a reference
  definition over bounded inputs.

`PROJECT.json` lists every component with its status and, under `hazards`, each of these
difficulties at the line where it bites with the properties that watch it.

## 2. Plan

Done, in this order: `Journal` (what the journal promises), `BWJWriter` (how it keeps it),
`Serve`, `Connection`, `EventWriter`, `EventBounds`, `CaptureHealth`; then `Config`, `Router`
and `Response` with their composition `Exchange`; then `Index` over both stores. Each component
has a module of theorems; those of `Config`, `Router`, `Response` and `EventBounds` are about their
composition, in `ExchangeProofs`.

How they compose:

* `BWJWriter` is shown to implement `Journal`; `Serve`, `Connection` and `Index` use the journal
  as `Journal` describes it: a write succeeds or fails, the first failure is final, and a power
  loss takes the end of what was not synced.
* `Serve` has of a handler only where it blocks, journals and gives back; `Connection` has the
  handler in detail, without the requests' content; `Exchange` has that content, one request
  after the other.
* `Index` takes from `Connection` the order in which bytes are journaled, counted and named by
  events, from `BWJWriter` and `EventWriter` what their files can look like, and reads both.
* `Exchange` extends `Config`, `Router`, `Response` and `EventBounds`: what validation accepts is
  bound, routed, framed, read by a client, and told of in an event.

Left, by weight: `Serve`'s lease as an abstraction of the client side of `CaptureHealth`; the YAML syntax checks of `config.go`, which walk a parser's tree.

## 3. The modules

### Journal, BWJWriter

`Journal` is the abstract specification: an append-only log of records, each the next of its
connection, a phase that freezes once, and after a power loss the loss of a suffix only.

`BWJWriter` has a step for every file operation of `bwj.go`. Its variables are the fields of
`BWJWriter` (`mu`, `file`, `fileSequence`, `recordSequence`, `bytesWritten`, `closed`,
`failed`), the files on the disk, and a program counter per goroutine.

| Actions | Code |
|---|---|
| `WriteMeta`, `WriteData` | the four public writes, splitting data into records |
| `Refuse`, `EnterRotate`, `EnterWrite` | head of `writeRecord`: mutex, `closed`, `failed`, `shouldRotateLocked` |
| `SyncOld`, `CloseOld`, `Create`, `WriteFileHeader`, and their failures | `rotateLocked`, `openNextLocked` |
| `WriteHeader`, `WritePayload`, and their failures | tail of `writeRecord`; a failure leaves any part of the record |
| `CloseNoFile`, `CloseStart`, `CloseSync`, `CloseFile` | `Close` |
| `Crash`, `LoseUnsynced` | kill; power loss of what no `Sync` covered, newest first within a file |

Payloads are sizes. A record is one entry, whole or torn. Whether rotation by age is due is
nondeterministic, as `time.Since` may say either at any moment.

### Serve

`Run` is a program counter through start, select and shutdown; each early return of the
start is one action that gives back what was taken. An accept loop is a program counter and
the connection it has in hand between the two slot acquisitions; the handler is the skeleton
of `handleConnection` with its deferred calls in their order. `rt.fail` is `fatalOnce` and
`fatalCh`; the `select` is the disjunction `Select` (any ready branch), with the storage
ticker as an input. Each element of a loop (`BindOne`, `CloseOneListener`,
`CloseOneActive`) is a step, so that everything else interleaves with it.

### Connection

One handler in full, with everything else as its environment (`Tick`, `JournalBreaks`,
`CancelContext`, `CloseActive`). `Fill` and `Capture` are `recordingReader.Read` in its two
uses, `StartWrite` and `FinishWrite` are `exchangeWriter.Write` before and after the socket
write, `WaitDelay` and `DelayOver` the delays of `response.Write`, `TakeBody` to `BodyError`
`consumeBody`, `RequestFailure` and `ResponseFailure` the two switches that turn errors into
a close reason, in their order. Bytes are counted and not named. `net/http`'s parser is
external: it may find the end of a header or body, or an error, at any byte it was given.
The clock counts from the accept; it cannot pass a deadline some call is waiting for, and
may pass any other.

### EventWriter, EventBounds

`EventWriter` has a step for every file operation of `jsonl.go` and for `rt.emit`'s check and
its compare-and-swap, which are not under the writer's mutex. The writer differs from the
journal in what it remembers of a failure: only that of a write, in its `bufio.Writer`
(`bufferError`). A failed rotation leaves `w.file` open, or set to a closed descriptor
(`file = "shut"`), and a handler past the check still comes in. What keeps the log free of
holes is the order in `emit`, not the writer: a handler degrades the log before it emits
again. A `Sync` that succeeds is taken to make everything written durable, also after one
that failed.

`EventBounds` is what an event takes from a request (`SanitizeHeaders`,
`QueryMetadataFromURL`: the first entries up to a configured number) and `boundedEventJSON`, on
the sizes an event's parts have in JSON. The loop is a recursive function of the number of
passes; `EventKeepsTheMost` (in `Exchange`) compares it with what the lists should be cut to,
defined without a loop (`Balanced`).

### CaptureHealth

`run` is `capture.Run` with `waitForPCAPReady`, `HealthServer.Close` and `stopDumpcap`;
`handler` is `handleLease` of each connection, `client` the sensor's `AcquireLease` and
`watch`. A connection is in `open` until the server's side closes it. READY stays readable
after a close, so a client may take a lease on a connection that has ended and lose it at
once. `dumpcap` is `"exited"`, then `"reaped"` when `cmd.Wait` put its result in `waitCh`, then
`"received"`. `stopDumpcap` reads `cmd.ProcessState` without synchronisation: of a dumpcap that
has exited it may learn so (`SeesExit`) or not (`Terminate`). A full disk and a failing start
are inputs. systemd's restart of the service is not modelled: it is a new process with a new
socket.

### Config, Router, Response, Exchange

`Totals` has the one sum that `Config`, `Response`, `EventBounds` and `BWJWriter` use, as a recursive
function. `Config` is `Validate` on the decoded configuration, limit by limit and field by field, with the
listener conflicts and the total of static bodies. A body is its length. A text that only has to
respect a length or an alphabet is one Boolean, `spelled`, of the record it belongs to: no
property depends on which rule it broke. Addresses are a few, among them the two wildcards and
one address in two forms, as `net.IP` compares them.

`Router` is `SelectResponse` with the route counts of a connection, `planFromResponse` and
`mergeHeaders`. `None` stands for a nil response, which the code would follow.

`Response` is what `response.Write` puts on the wire, as pieces with sizes (head, chunk size,
data, line end), and `IntendedWireSize`, the formula the limit is compared with before anything is
written.

`Exchange` puts them behind each other: `Load` validates a configuration, `BindNext` binds the
listeners in order as the kernel would let it, `Connect` begins a connection, `Serve` answers one
request, whole or cut at any byte of data or between two pieces, or refuses it, and records what
was chosen, what was sent and the line of the event log. `Client` is a reader of HTTP/1.x, a fold
(`ReadOn`) over the pieces of the whole connection, written from the protocol and not from the
writer. `Exported` is
what `check --emit-listeners` tells the packet filter.

### Index

A sensor over several runs, with a journal of files and an event log of files; a unit is the bytes
of a request or of one write of a response, numbered per direction of a connection, so that order
and gaps show. `Open`, `ReadRequest`, `WriteResponse`, `EmitExchange` and `Close` keep the order of
`handleConnection`: inbound bytes are journaled and then counted, outbound bytes are sent, counted
and journaled, the event comes after. `RotateJournal`, `RotateEvents`, `Stop`, `Kill` and
`PowerLoss` change the files as `BWJWriter` and `EventWriter` have it; a failing journal may leave
a file without its header, a failing event log a cut line.

A reader takes one store, then the other, while the sensor goes on: index mode the events first
(`StartIndex`), an archive of `scripts/evidence_collect.sh` possibly the journal first
(`StartArchive`). `Result` is what `index.Run` then makes of it (a line that does not decode, a
header that is cut, a range outside the stream), `ConnectionRows` and `ExchangeRows` are the rows
(`Rows` is the loop over the lines, `AddLine` its body), `Upsert` is the transaction. Of a file that
was not synced a power loss leaves `UnitsLeft`, `NoHeaderLeft` or `LinesLeft`.

### Definitions marked "Mutant" or named for a bug

Beside an action or helper some modules have a second form with a plausible slip in it (no
reset, no clamp, a dropped guard). No specification uses them: they are what each property
is tested against, and `PROJECT.json` says which property finds which.

## 4. The runs

| Run | What it shows |
|---|---|
| `bwj` | what the files hold and what a reader makes of them at every step; the writer implements `Journal`, of which every connection's records are a gap-free prefix; an error ends the journal; every call returns |
| `serve_safety` | start to return under every order of events: nothing leaks, nothing is missed, success means intact |
| `serve_live` | slots are exact when the service's limit bites after the global one; a lost capture closes the listeners, a stop ends the process |
| `connection_bytes` | byte accounting, ranges, limits, capture |
| `connection_time` | deadlines, close reasons, and that the handler ends whatever the client does |
| `connection_ranges_after_failure` | a counterexample: see Findings |
| `event_writer` | what the event log holds after any failure, kill or power loss, and what Close promises |
| `exchange` | accepted configurations bind and answer; the k-th request of a route gets its response; a client reads what was configured, and never a cut response as a whole one; a cut event fits, says so, and gives up no more than it must |
| `event_bounds_mandatory` | a counterexample: see Findings |
| `index` | why an index may fail, that what it holds is true, and that a refresh takes nothing away |
| `capture` | leases are closed before dumpcap is stopped, no dumpcap is left over, losses are noticed, a stop ends |
| `capture_ready_before_register` | a counterexample: see Findings |

Every property of a passing run is violated by at least one of the mutants in
`PROJECT.json`. The `TypeOK` of `BWJWriter`, `EventWriter`,
`CaptureHealth` and `Serve`, and `Numbers` of `ConnectionProofs`, are part of a proved inductive invariant
and not run.

**Bounds.** *BWJWriter*: sizes in units of one header; two handlers and the closer, a file
that holds two to four records (`RotateSize` 6), data of three units against records of
two (so a call is split), two calls each. That makes several files, a rotation inside a call with
the other handler waiting, and a failure of each operation with a handler queued behind it; a
third handler adds only another waiter for the same mutex. *Serve*: two services, one with TLS, two
connections, one slot: enough for a connection in every position while Run shuts down and the
other waits to be accepted; `serve_live` has one service with room for one and a global limit of
two, so that the first slot is taken and given back. One request per connection (`MaxRounds`),
since a second repeats the same cycle. *Connection*: a byte limit of 7 that can end the connection
in either of two requests (a header of 2, a body of 1, a response of 2), a `bufio` buffer of 2 so
that a read covers the end of one request and the start of the next, an interim response of 1. In
the byte runs one tick is the whole lifetime; the time run has timeouts of 1 and 2 and a lifetime
of 4, so that each phase can be cut by its own timeout or by the lifetime, alone or at once.
`MaxTime` only bounds the clock beyond the lifetime. `HeaderReadSlack`, `BufferSize`, `CaptureSize`
are 4096, 4096 and 32768 in the code and 1 or 2 here; the proofs hold for all values.

*EventWriter*: two handlers with three events each, rotation by size and age, events of one or
two units, or too large, in files of three units: a failure with the other handler before the
check, queued, and about to rotate. *Exchange*: three families of configurations (`MCExchange`):
every choice of listeners for three services (five addresses, two ports, or disabled); every
choice of one or two small responses for a route (numbers, modes, chunk lists, headers, odd
bodies) with three fallbacks and both protocols, asked by plain requests of both versions; every
event limit from 1 to more than any event, asked with up to three headers and three query fields
of one or two units and texts below and above their cap. Two requests per connection (`MaxAsked`)
for responses numbered up to 2: the first number, the second or the default beyond the last. One
connection goes to the next, so that route counts must start again. *Index*: two runs of the
sensor with one connection each, two requests, one write each, two files per store, two readings
and one kind of fault (`MaxFaults`; a kind may strike again): a reading before and after a
rotation, a failure, a kill, a power loss and a restart, and a refresh of what an earlier reading
found. *CaptureHealth*: two clients, one with another configuration, so that one can be
registered while the other is about to be or not yet accepted when Close runs. Each makes one
connection. Both have the right configuration in the counterexample's run.

The Connection, Exchange and Index runs do not check deadlock: the handler returns, and the
requests, runs and readings of the bound are used up. The other modules have a `Finished` step
that is enabled only when everything intended is done, so that deadlock is a real check there.

## 5. Fairness

* *BWJWriter*: weak fairness of each step under the mutex (a system call returns, with an
  error or without) and strong fairness of taking the mutex: `sync.Mutex` hands over in
  order once a waiter has starved for 1 ms.
* *Serve*: weak fairness of goroutines that can run, of a call on a socket this process
  closed, and of a TLS handshake whose context is done (`HandshakeContext` interrupts it).
  A handler blocked on an open socket may stay there for ever: no deadline is assumed, nor
  is anything of clients, capture service or operator.
* *Connection*: weak fairness of the clock and of handler steps that depend on nothing
  outside, with blocked calls returning when their deadline has come. The client may be
  silent for ever, the journal may fail or not, and the process may never stop.
* *EventWriter*, *Exchange*, *Index*: none, as only safety is stated; the event writer's mutex is
  released by `defer`.
* *CaptureHealth*: weak fairness of goroutines, of `cmd.Wait` once dumpcap has exited, and of
  timers. Nothing of the operator, of dumpcap (which may ignore even SIGKILL), of the disk,
  or of when a sensor asks for a lease or gives it up.

## 6. What is proved

All with TLAPS, for every value of the constants that meets the named assumptions. TLC
evaluates those assumptions in the runs.

**SequenceLemmas** is what the other modules need of recursive definitions on sequences. The
library's induction theorems take an operator as a parameter, which the installed provers cannot
instantiate; its well-founded orders take none, and from the order of finite subsets follow `Least`
(a set of numbers has a least one) and `Induction` (a set that holds 0, and with every number the
next one, holds them all). With them a recursive function of the length of a sequence is a fold
(`FoldExists`, `FoldLonger`), and the facts cited elsewhere follow: what `Total` and `FlattenSeq` are
of one element more (`TotalAppend`, `FlattenAppend`) or of the last one replaced
(`FlattenReplace`), how the number of positions with a property grows (`CountAppend`), and the same
of what is kept of a sequence (`Kept...`) or of each element (`Map...`).

**BWJWriterProofs** (`ConnsAssumption`, `SizesAssumption`, `CallsAssumption`): `TypeCorrect`,
`EarlierFilesAlwaysParse`, `NewestFileAlwaysParses`, `CloseNilIsSafe`. Neither file property is inductive: that
the old file is complete when the next is created depends on where the rotation is. `IInv`
adds `Locked` (who is inside `writeRecord` or `Close` holds the mutex, so no one else moves
the file), `FilesInOrder` (records numbered, only the last may be torn, and all but the
newest file complete *and synced*, which is what a power loss cannot undo), and
`WriterState`: what the newest file looks like at each program counter, unless the writer
has failed. Each action has a lemma; `NextIInv` puts them together. The facts that carry it
are on replacing, extending and shortening the last element of a sequence of files.
`CloseNilIsSafe`: after a nil from `Close` every file is complete and synced to its last byte, for
ever. `Closing` carries it: `closed` is set while nobody is inside `writeRecord`, so the file that
`Close` has synced is not written again, and a nil needs that `Sync` and a journal that has not
failed.

The second half is about what the files hold together, the log. Every step leaves it as it is,
appends the record whose payload is now there, or, without power, takes records from its end
(`AppendLog`, `SealKeepsLog`, `LoseChanges`). `Pending` says that at the payload step the newest
file ends in the header of the very record being written. On it rest `ErrorsFreeze`;
`AlwaysWrittenExactly`, by `Accounted` (of each handler the log has as many records as were
acknowledged, and the bytes of its finished calls plus those the one in progress has no longer left
to write); `CloseNilIsAlwaysDurable` (`CloseNilCounts`: no record is lost from files that are synced
to the end); and `FilesKeepTheirSize`, by `Measured` (`bytesWritten` is the size of the newest file,
and who is past the test for rotation has room or an empty file).

`WriterImplementsJournal` is the refinement: with the log of the abstract journal mapped to the
records of all files and its phase to `failed`, `closed` and the host, initial states are initial
and every step is a step of `Journal` or leaves it as it is. `NextJournalStep` says which.

**ServeProofs** (`ServicesAssumption`: finite sets of services and connections; the
`LimitsAssumption` of `Serve`): `SlotsAlwaysAccounted`, `AlwaysQuietAfterWait`,
`AlwaysServesUnderLease`, `AlwaysLeavesNothingOpen`, `NeverMissesAHandler`,
`OpenRecordsAlwaysClosed`, `NilAlwaysMeansIntact`, which are all the safety properties the two
runs check. That nothing runs after `Wait` needs the WaitGroup to count exactly the goroutines
(`GoroutinesCounted`), as `SlotsAccounted` needs the slots to be counted: both equate a counter
with the cardinality of a set of connections and loops, and a step changes either side by adding
or removing one element, or neither (`Uncounted`). A new goroutine is admitted by an accept loop
that is itself counted, which is why the count cannot be zero while one may still be started.
`HandsFull` says that the connection in an accept loop's hands is that loop's and not a handler's
yet. `Phases` says where goroutines may be at each place of `Run`, `Sinks` and `Listeners` what is
open there. `NeverMissesAHandler` rests on `Interruptions`: the context is cancelled before `Run`
copies the active connections, and a handler registers before it looks at the context, so whoever
passed that look is in the copy or closed. `Records` relates the journal's open and close records
to the program counters, `Outcomes` what `Run` will return to what has happened. One lemma per
part, with frame lemmas for what `Run`, the loops, the handlers and the environment leave alone.

**ConnectionProofs** (`Connection`'s `LimitsAssumption`): `LimitsAlwaysHold`,
`DeadlinesWithinLifetime`, `RequestsStayJournaled`, `RequestRangesAreExact`,
`HeaderLimitIsExact`, `CompleteIsAlwaysJournaled`. The strengthening: a write under way was cut to
what is left of the limit *when it began*, and stays within it because nothing else counts bytes
meanwhile (`WithinBytes`); what is journaled is what is counted, and the parser has at most that
minus what is buffered (`ReadIsJournaled`); what was sent plus what is still to send is within the
response limit (`WithinResponse`), what was captured within its own (`WithinCapture`); between and
within requests the bytes read are those the parser took plus those in the buffer, and the current
request begins where the last event ended (`WithinRanges`). `NeverPastLifetime` is inductive with
the types. `EmitExchange` is the one action that extends the events; all others keep them
(`EventsKept`). Three more invariants rest on these: `WithinRequests` (until the current request
is counted there is room for it, and once the limit is reached the connection is to close),
`WithinHeader` (what the header's own counter has seen is at most what the parser and the buffer
hold of the request, so that the counter's slack lets no longer header through and ends no shorter
one) and `WithinJournal` (until a write is refused the journal holds what was sent, and what was
sent and is still to send is one response, with or without an interim one).

`CloseIsAlwaysExplained` needs to know of each step only which of three kinds it is: the handler
returns and records its reason (`Returns`), goes on (`GoesOn`), or has returned and keeps what it
recorded (`Keeps`). `Explained` adds to the property that the request limit is recorded with the
request that reaches it, before the response that is the last is sent, and so long before the
connection is closed for it.

**CaptureHealthProofs** (`ClientsAssumption`): `TypeCorrect`, `LeasesAlwaysClosedBeforeStop`,
`NeverOrphan`, `HeldAlwaysMeansReady`. The first of these needs to know what Close has still
to do: `Stopping` says that while it walks, what is registered and open is in its copy, and
that after it nothing registers because `closed` is set, or because the health server was
never started. `Supervised` says what is known of dumpcap at each place of `Run` (it is gone
when Close was entered for its exit), `Served` and `Answered` that nothing is connected
before the output is open. Each action has one step.

**EventWriterProofs** (`NamesAssumption`, `SizesAssumption`): `TypeCorrect`,
`EarlierFilesAlwaysWhole`, `CloseNilAlwaysDurable`. `Newest` carries them: while the machine is
up a torn line goes with an error the buffer keeps, so that the `Flush` of a rotation or of
`Close` fails before anything follows the torn line, and whoever is past `Sync` found the file
whole. `Locked` says that nobody else changes the file meanwhile.

`EventsAlwaysPrefix` and `NothingEverLostSilently` are about the lines of all files. `Ordered`: the
n-th line of a handler is its n-th event. `Counted`: while the machine is up a handler in `emit` has
all its earlier lines in the files, and one outside has all of them as long as `jsonlHealthy` is
true. That is inductive because a handler that failed has degraded the log before it comes again,
while one that was past the check when another failed still adds its next line in order.

**ExchangeProofs** (`ExchangeAssumption`: a candidate is what a decoder can return, that is lists
without absent entries, bodies and chunks that are absent or have a length, finitely many headers,
and listeners of addresses the host has; a request has sizes and is of HTTP/1.0 or 1.1; it does not
say that a candidate is valid. `ResponseAssumption`: a line has a length): `AcceptedCanAlwaysServe`, `RoutesAlwaysAnswerInOrder`,
`EventAlwaysKeepsTheMost`, `ClientAlwaysReadsTheResponse`. `Bound`: while listeners are bound, in the order of the services, what is
bound is a front of what the packet filter is told, and no failing phase is reached, because a pair
of listeners that overlap for the kernel is a conflict for `Validate` (`ConflictIsOverlap`, whose
other direction says that what is refused for its listeners could not have been bound). `Answering`:
the route counts are what the connection has asked for (`Tallied`), and every request so far has the
answer that was due. That the due answer exists is counting: N numbers that cover 1..N, with exactly
one default beside them, are all different (`ValidNumbers`). `EventAlwaysKeepsTheMost` has its loop
in `LengthsAreBalanced`, by induction on the passes: after dropping, the lists have exactly the
lengths that `Balanced` gives to what is left; and since an event is the smaller the fewer entries
it keeps, the first pass that fits keeps the most.

`ClientAlwaysReadsTheResponse` first shows that a reader of two sequences of pieces, one behind the
other, reads the second from where the first left it (`ReadOnConcat`). So each response can be read
by itself: a whole one by its framing, in chunks, of a told length, or without a body
(`ResponseRead`); a cut one has at most its head for the client and never ends (`CutRead`). The
size the limit is compared with is the size of the pieces (`PiecesAre`), and what is framed is what
was configured, because of what `Validate` accepts of a response (`PlanFits`) and of how headers are
merged (`Merged`). The invariant `Understood` then has one case per request (`WholeSent`,
`PartSent`, `NothingAsked`): a client of a connection that goes on is between two responses and has
read exactly those of `Sent`, and asking more changes nothing of what it has read (`ClientStays`).

**IndexProofs** (`IndexAssumption`): `FailuresAlwaysExplained`, `IndexIsAlwaysTrue`,
`NothingEverForgotten`, which are all that the run `index` checks. Evidence can lose what the
database still has, and the database can lack what the evidence has, so neither can be
explained by the other. The invariant is `\E told : Good(told)`: there is a story of each connection,
all the lines its handler ever emitted whether or not they reached the log (`Story`: an open event,
exchanges that begin where the one before ended, a close event), of which everything else is a
part. The handler's counters are where its story ends (`Lived`); the journal has the first units of
each direction, and all of them unless it failed or lost power (`Recorded`, `Complete`); the log has
the beginning of each story, and while it is healthy all of it (`Logged`, `Healthy`); what is being
read was one or the other at some moment (`Reading`); and the database has rows of the story
(`Held`). `KnownClosed` in `Logged` says that a close event which was read before is still in the
log unless power was lost, which is what keeps a closed connection closed. TLC checked `Good` with
the story as a history variable, on the constants of `Index.cfg`, before it was proved. Each action
has a lemma (`OpenIsGood` to `ReadSecondIsGood`); a handler's step gives the next story.

**Only model-checked**, and why:

* liveness (`EveryCallReturns`, `LossClosesListeners`, `StopEnds`, `HandlerEnds`,
  `LossIsNoticed`), which with ENABLED is out of this prover's reach.

Every safety property that a passing run checks is a theorem.

## 7. Findings

`connection_ranges_after_failure`. `exchangeWriter.Write` counts outbound bytes after
`bwj.WriteData` has refused them (`internal/engine/connection.go:201`). The exchange event
of that request, which is emitted while Run waits for the handler, then names response bytes
the journal does not hold, and index mode returns an error for the whole run
(`internal/index/index.go:142-144`). The request side has no such gap: inbound bytes the
journal refused are not counted, which is what `RequestsAreJournaled` proves.

`event_bounds_mandatory`. The comment at `internal/evidence/jsonl.go:267-268` says that
mandatory fields are retained "even under an unusually small operator bound"; when they alone
exceed the bound the event is an error (`jsonl.go:305-307`). Configuration accepts any bound
from 1 (`internal/config/validate.go:259`), and the first such error ends the event log for
the rest of the process (`engine.go:207-212`).

`capture_ready_before_register`. `handleLease` sends READY, then registers
(`internal/capture/health.go:78-87`), and `Close` closes what is registered. dumpcap can thus
be sent SIGTERM while a client that was told READY is connected, where the comment at
`internal/capture/capture.go:78-79` says READY leases are closed first. The window is short:
the handler closes the connection when it sees `closed`. For registered leases the promise
holds, and is proved.

### Limits the properties state

No text of the repository says otherwise of these, so they are not findings; each is an exception
in a property, or a premise of one.

* A failed write of the interim response closes with a limit reason but no limit record
  (`connection.go:458-462`; `CloseIsExplained`).
* A chunk without bytes is accepted (`internal/config/validate.go:367-374`) and, in a chunked
  response, is framed as the last chunk: the client ends the response there and the rest is left
  over (`ClientReadsTheResponse`, `EmptyChunk`).
* A method spelled `head` is not HEAD for the router nor for the client, but is for the response
  writer (`internal/response/response.go:92`): the client waits for a body that does not come
  (`MissingBody`).
* A default response with a status 2xx is accepted for a service that can be asked for a tunnel;
  the tunnel is refused when it is asked for, without an exchange event
  (outcome `"tunnel"` of `Exchange`).
* An archive that took the journal of a running sensor before its events may hold events whose
  bytes it lacks, and index mode refuses it as a whole (`IndexErrorsExplained`).
* A refresh after a power loss may show as open a connection that an earlier index had as closed
  (`RefreshNeverForgets`).

## 8. Not modelled, and why

* The HTTP parser, TLS, the kernel and SQLite: external. Outcomes of the first three are
  nondeterministic; a SQLite transaction is one step that happens or not.
* The YAML syntax checks of `config.go`: they walk a parser's tree. `Validate` starts from what
  was decoded.
* `LoadTLS` and `CheckOperational`: checks made once, before anything is served or captured, with
  an error or none as the whole outcome. `statfs` is the outcome of `Serve`'s storage ticker.
* Argument parsing, help and the texts of `check`; installation, unit files, packet filter rules:
  no state of the program. systemd's restart of the sensor is a new run (`Index`); that of the
  capture service a new process with a new socket.
* Formatting, sanitising of text and logging: an event has sizes and ranges, a digest of bytes is
  the bytes themselves. The layout of a record and its checksum are header and payload units.
* Why a read failed: one that fails because the process closed the socket, or because the journal
  failed, ends as `parser_failure` like any other (`connection.go:390`), so the reason says less
  than it might; no property tells the causes apart.
* `dumpcap`'s own work.
