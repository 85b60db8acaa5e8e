# Formal models of detritus

TLA+ models of the stateful parts of detritus, model-checked with TLC and, as
far as safety goes, proved with TLAPS. `PROJECT.json` is the index: components,
runs, the source lines behind each definition, hazards, findings, theorems.

## 1. The system

detritus collects logs and crash reports. One server process (`detritusd`)
listens on one port and keeps everything in a directory tree; instrumented
programs link the client crate.

| Part | State | Operations | Talks to |
|---|---|---|---|
| `crashes.rs` | `crashes/by-hash` blobs, `crashes/by-source` indexes, `tmp/` | `crashes_handler`: admit, store each part, publish the index | auth, rate limiter, schemas; shares the tree with the janitor, no lock |
| `janitor.rs` | locals of one cycle | snapshot blobs, prune logs, prune indexes and collect references, sweep | the tree, concurrently with everything else |
| `logs.rs` | `LogWriterPool`: a channel and a task per source; `logs/**.ndjson` | `export_inner`, `writer_loop`, `shutdown` | auth, rate limiter, schemas, metrics |
| `server.rs` | task handles | start, graceful shutdown | all of the above |
| `rate_limit.rs` | buckets by (endpoint, token, source) | `check_logs`, `check_crashes` | both handlers |
| `auth.rs`, `schemas.rs` | loaded at start, then read-only | load, verify token, scope, schema | both handlers |
| `metrics.rs` | counters | count an answer, count a validation failure | middleware and handlers |
| `layer.rs`, `spool.rs` | event channel, batch, queue directory | `on_event`, `flush`, `Worker::run`, `drain_spooled` | log ingestion; other processes through the queue directory |
| `panic_hook.rs` | `pending/` entries | write an entry at panic time | shippers, through the spool directory only |
| `shipper.rs`, `compression.rs`, `multipart.rs` | `pending/`, `sent/`, `.lock` | ship with an explicit or the stored endpoint, clean `sent/` | crash upload; other shippers |

What makes it hard: tokio tasks interleave at every await over one file tree
without a lock; a file is created and filled in two operations; ages are looked
at in one step and acted on in another; `tokio::fs::File` reports the failure of
a write to the next one; clients time out on calls the server has accepted;
processes share spool directories; and any process may die anywhere. The
`hazards` of `PROJECT.json` list these at the lines where they bite.

Correct means: an index keeps its blobs; acknowledged data is not lost except
through faults one can name; what is stored is within the scope of a token and
decodes to what was captured; nothing is removed before its time, and what
should go is removed in the end; duplicates come only from outcomes the client
could not know; limits hold in every window; every run, flush and shutdown ends.

## 2. Modules

| Module | Models | Checked by |
|---|---|---|
| `CrashStore` | the storing half of `crashes.rs`, the crash half of `janitor.rs` | `MCCrashStore` (3 runs), `CrashStoreProofs` |
| `ContentStore` | the promise of the blob store: an atomic put with a truthful dedup flag | refined by `CrashStore` |
| `RateLimiter` | `rate_limit.rs` | through `RequestGate`, `RequestGateProofs` |
| `RequestGate` | `auth.rs`, `schemas.rs`, names and paths of `storage.rs`, the gates of `logs.rs` and `crashes.rs`, request counters of `metrics.rs`; extends `RateLimiter` | `MCRequestGate` (1 run), `RequestGateProofs` |
| `LogIngest` | `logs.rs`, `prune_logs`, shutdown in `server.rs` | `MCLogIngest` (2 runs), `LogIngestProofs`, `LogIngestPlaceProofs`, `LogIngestStreamProofs` |
| `LogStream` | the promise of log ingestion: the records of a source are dealt with one at a time, in order | refined by `LogIngest` |
| `LogExporter` | `layer.rs`, `spool.rs` | `MCLogExporter` (3 runs), `LogExporterProofs` |
| `CrashSpool` | `panic_hook.rs`, `shipper.rs`, `SpoolLock` | `MCCrashSpool` (2 runs), `CrashSpoolProofs` |
| `CrashUpload` | one report from `panic_hook.rs` through `shipper.rs`, `compression.rs` and `multipart.rs` to the index of `crashes.rs` | `MCCrashUpload` (1 run), `CrashUploadProofs` |

An operator named `X_Something` before `X`, commented "Defect", is `X` with a
plausible bug. No specification uses it; substituted for `X` it breaks the
property that is meant to notice. `PROJECT.json` pairs them up (`mutants`).

### CrashStore

A handler (`pc`, `req`) takes one step per await that touches the tree: `Admit`
(everything before the part loop), `NextPart` (temporary file written),
`TryExists`, `HardLink`, `RemoveTemp` (`finalize_blob`), `OpenIndex` and
`FillIndex` (`fs::write` truncates, then fills; then 201). The error answers are
`RejectParts`, `RejectBody` (a part breaks off), `RejectOversize` and
`HardLinkError`; `Abort` is a failed operation or a dropped future. `tmp` is the
number of files under `tmp/`, `stray` a history variable: the requests that ended
while they had one there. The janitor walks `StartCycle`, `SnapshotBlobs`,
`StartListing`, `ListIndexes`, then per index `StatIndex` and `RemoveIndex` or
`ReadIndex`, then `SweepBlob` and `FinishCycle`. A directory walk is two steps:
it finds what was there when it began and any of what was added meanwhile.
`Crash` drops all tasks and keeps the tree.

An index file is absent, partial, complete or garbled (two uploads of one path
wrote over each other), and can be unlinked while a handler writes to it
(`detached`). `raced` is a history variable: uploads that pointed to a blob of
the current snapshot at a time when the janitor was collecting references.
`seen` is the age the janitor read of the index it is deciding about.

### RateLimiter

`Check` is one step, since `check` holds its mutex from reading the clock to
storing the bucket. Time and tokens are integers scaled so that a refill is
exact. `start`, `used` and `refusedSince` are history; `OpenWindow` lets an
observer start counting at any moment, so that the bound holds of every window.

### RequestGate

Extends `RateLimiter`: a handler's step has `Check` as a conjunct, so the
limiter is charged exactly where the code charges it. `Start` is `main` up to
serving: `Loads` collects the error cases of `load_security_config`, and
`Compiled` is the loop that puts the schema entries into the registry, the later
entry winning.
`Arrive` is `auth_middleware`: the first token whose hash verifies, or 401.
`LogsEnter` checks version and schema of the whole batch, then each entry is
checked for source and scope, charged and handed on (`LogsEntryRefused`,
`LogsEntry`, `LogsDone`); `CrashRefused`, `CrashEnter` and `CrashParts` are the
upload, in its own order: version, source, scope, limit, schema. Names are
sequences of characters, because scopes are string prefixes and paths are
joined with `/`; what a schema sees is a payload class. What lies behind the
gates succeeds or fails. `HangUp` drops a handler whose client went away.

### LogIngest

Calls: `Admit` (a batch that passed the version, token and schema gates, which
`RequestGate` has), per entry
`StartEntry` (source, permission, rate limiter, `sender_for`), `Send` per
record, `QueueFull`, `EndEntry`, `Respond`; `Refuse` is any early return.
Writers: `Recv`, `Rotate`, `OpenLogFile` or `OpenFails`, `Write`. `Land` and
`LandFails` are the background operation of a tokio file: `Write` returns when
the operation is started, its failure goes to the next `Write`, and a failed
write may leave a torn line that the next record is glued to. `prune_logs`,
the shutdown sequence and process crashes interleave with all of it.

`LogStream` is the same stream with everything in between left out: a record is
accepted, then dealt with in one step by adding its line or by dropping it.
`Settled` counts, from queue, hand and file, what has been dealt with; it is what
`RecordsInTurn` maps to the state of `LogStream`.

### LogExporter

Records are numbered per process. `OnEvent`, `Flush` and `DropLayer` are the
application; `AcquireLock` to `EndDrain` are `drain_spooled`; `RecvRecord`,
`RecvFlush`, `Interval` and `RecvClosed` are the arms of the worker's select;
`ExportOk` or `ExportFails`, then `CreateBatch` and `FillBatch`, are
`export_records`. `ShouldSample` is the code's arithmetic on the record's
timestamp (`TimeOf`) and the clamped rate. A failed export may have delivered
any prefix of its batch: the server queues record by record and may refuse
half-way. `Flush` starts when the channel has room for its message; waiting for
room is not a state of its own.

### CrashSpool

A hook makes its entry and writes `metadata.json`, `dump.bin`,
`sdk-config.json` in that order, two steps each, without a lock. A shipper
takes the lock, cleans (explicit endpoint) or not, lists, and for each entry
resolves the endpoint (stored config), reads the three files one by one, posts
and renames; a stored-config run cleans at the end with the longest retention it
saw. The first error ends the run. Entry names are UUIDs, so that
`destination.exists()` in `ship_one` is never true and the listing order is
independent of capture order: entries are captured in any order of their numbers.

### CrashUpload

The data path of one report, end to end. `Capture` is what the hooks leave in
the entry directory, a later write to a name replacing an earlier one, and the
manifest in `metadata.json`; `ReadEnvelope`, `Compressed`, `Encoding` and
`WriteTo` are the shipper's way from the entry to the parts of the body;
`FirstPart`, `NextPart`, `OpenIndex` and `FillIndex` are what the handler makes
of any body, those of clients without the SDK included (`PostOther`). `TooLarge`
says which content is above one of the two size limits, the answer to such a part
is 413 (`toolarge`), that to a malformed body is `rejected`;
`ReadFrom` is the protocol library's own reader, as an operator: `ReadParts` is
what its loop has after each part. Content is a
name for what was captured, compression tags it with its level, and a digest is
the content. `GiveUp` is a timeout or a lost connection: the handler goes on
while the shipper tries again (`late` records that such a handler wrote to the
index).

### How they fit together

The path of a log record is `LogExporter`, then `RequestGate`, then `LogIngest`;
of a crash report `CrashSpool` and `CrashUpload` on the client, then
`RequestGate`, then `CrashUpload` and `CrashStore` on the server. Each module
leaves what its neighbours decide open: in `LogExporter` the server may take in
any prefix of a batch and fail, in `LogIngest` and `CrashStore` a gate may
refuse anything, in `CrashSpool` an upload may be accepted with its answer lost.
`RequestGate` and `RateLimiter` are composed in one specification.

## 3. Runs

All limits in the configurations are explicit constants (`Max...`).

| Run | What it shows | Bounds | Distinct states |
|---|---|---|---|
| `crash_store` | indexes and uploads that met no collecting janitor keep their blobs; only a request that ends in the middle of a part leaves a temporary file; only expired or just rewritten indexes are removed; `CrashStore` implements `ContentStore` | 2 handlers, 2 blobs, 1 key, 2 uploads of 2 parts, 1 fault, 1 day | 712,774 |
| `crash_store_liveness` | orphans and expired indexes go | as above, 1 part | 106,644 |
| `request_gate` | what is stored is in a token's scope, valid and in a directory of its own; nothing out of scope is charged; every answer is counted once; window and refusal bounds hold behind the handlers | 8 tokens files (2 good), 2 handlers, 3 requests, 3 ticks of half a minute | 222,876 |
| `log_ingest` | conservation, bounded loss, drained exit, only expired files removed; `LogIngest` implements `LogStream` | 1 handler, 1 source, 2 calls of 2 records, 3 days, 1 disk error, 1 crash | 656,124 |
| `log_calls` | concurrent calls of several entries: shutdown completes, queues drain | 2 handlers, 1 source, 2 calls of 2 entries, channel of 1, 1 disk error | 70,917 |
| `log_exporter` | spooled until delivered; flush covers; sizes | 1 process, 4 events of which one is not sampled, batch 2, 1 flush, 1 fault, 2 restarts | 852,836 |
| `log_exporter_shared` | duplicates only after an unknown outcome; memory drains, flush returns | 2 processes, 1 event and 1 flush, 1 restart | 125,561 |
| `crash_spool` | whole entries (stored config), accepted before sent, no double upload, a run keeps its own entries, runs end | 2 entries; either 2 shippers, 2 runs, 1 fault, or 1 run over 3 days with retentions 0 and 1 | 422,870 |
| `crash_upload` | records decode to what was captured; uploads are refused for size only and both readers agree; retries do not multiply records; sent is stored | 2 lists of 2 context files, levels 1 and 19, 2 handlers, 3 uploads, 6 foreign bodies, 3 choices of what is too large | 1,410,163 |

Why these bounds suffice. The races are between two parties (two uploads, an
upload and the janitor, two processes, a hook and a shipper), so two of each and
two contents, entries or sources make every pair meet. One fault at every
possible place, and a restart after it, covers each error path; a second fault
repeats them. Three days and a retention of two show a file that stays, one that
expires, and a writer at midnight. Channels have one or two slots so that they
fill. In `crash_store` a third upload was not needed to reach any state of a blob
or index: absent, stored, deduplicated, swept and stored again all occur with
two. In `request_gate` each refused tokens file has one thing wrong with it, a
project name holds a separator so that joined names could collide, and the
buckets hold one token so that the third request can be refused. In
`crash_upload` three uploads are one that is given up, its retry, and a foreign
one; the six foreign bodies are one per rule of the handler's part loop.

Deadlock checking is on for `CrashStore` and `RequestGate`, whose janitor and
clock never stop. The other systems may stop: the server exits, a worker ends
with its layer, hooks and shippers finish.

### Fairness

- `CrashStore`: weak fairness of the janitor's cycle, which `spawn_janitor`
  repeats for as long as the server runs. Handlers need none.
- `LogIngest`: weak fairness of calls that were admitted, of writer tasks and of
  the shutdown sequence: the runtime polls ready tasks, file operations return.
- `LogExporter`: weak fairness of the worker: exports end by their timeout, the
  interval ticks, a free lock is granted.
- `CrashSpool`: weak fairness of each run. The number of runs is bounded, so a
  waiting run competes with finitely many; `flock` promises no more than that.

Faults are bounded in number and never fair: liveness holds once they stop.

### Findings

Three runs check a sentence of the repository and find a behaviour of the code
that contradicts it; `findings` quotes each sentence with its place.

| Run | Behaviour |
|---|---|
| `live_blobs` | an upload links its new blob just before the snapshot (one that finds it stored fares the same), publishes after the listing, and the sweep takes the blob |
| `spool_race` | a starting process replays and removes a spool file another is about to fill |
| `whole_upload` | the explicit-endpoint shipper uploads an entry still being written |

The passing runs and the proofs state what the code does guarantee around each
of them: `UnracedIndexesKeepBlobs` says that `live_blobs` needs an upload that
overlaps the janitor's collection, `SpooledSafety` that `spool_race` needs a
second process on the queue directory, and `StoredShipsComplete` that the
stored-config shipper is safe from `whole_upload` because the configuration is
the last file a hook writes.

Behaviours met while modelling that no run is spent on:

- An index rewritten between the janitor's stat and its removal is removed
  (`janitor.rs:126`); `OnlyExpiredIndexesRemoved` says that no other index goes
  before its time.
- A part that breaks off in the middle is answered with 400 and its file stays in
  `tmp/` (`crashes.rs:237`), which nothing ever cleans; an oversized part has its
  file removed (`crashes.rs:240`). `TempFilesAccountedFor` counts these files.
- A report above a size limit of the server is answered with 413 at every run, and
  as the first error ends a run (`shipper.rs:316`), entries sorted after it wait
  for ever.
- An acknowledged record is dropped when its day's file cannot be opened or a
  write fails (`logs.rs:261`); `LossBounded` bounds how many.
- A request costs one log token per `ResourceLogs` (`logs.rs:132`);
  `rate_limit.rs:14` speaks of batches. An upload refused by its schema is
  charged (`crashes.rs:123`, `crashes.rs:133`), a log batch is not.
- The queue depth gauge is set by senders only (`logs.rs:143`), so it does not
  fall when a queue empties; buckets are never evicted (`rate_limit.rs:98`).
- Requests that never reach the middleware's inner service or a handler's own
  code (body too large, undecodable gRPC, unknown path) are not in
  `requests_total`; `CountedOnce` is about the others.
- Of two tokens with one secret the first decides the scope (`auth.rs:131`); of
  two schemas for a project and kind the later one counts (`schemas.rs:157`).
- `source.rs:22` says its canonical form "is used in storage paths and
  rate-limit keys"; the server uses project and install id only (`SourceKey`).
- A batch the server took in before the client's timeout is delivered again
  (`layer.rs:364`); `DuplicatesOnlyWhenUncertain` says nothing else is.
- `sent/` retention counts from capture (`shipper.rs:494`): an entry that waited
  long in `pending/` may go in the run that sent it.
- Context files with one base name, or with that of `metadata.json`, `dump.bin`
  or `sdk-config.json`, overwrite each other in the entry
  (`panic_hook.rs:230`); `RecordsAreFaithful` assumes `NamesApart`.
- An upload the shipper gave up on may truncate or garble the index its retry
  had published (`crashes.rs:323`); `SentIsStored` excludes it by name (`late`).
- The manifest's length of `sdk-config.json` is that of the compact text, the
  file is pretty-printed (`panic_hook.rs:164`, `panic_hook.rs:179`).

## 4. Proofs

Proved for every value of the constants - any number of handlers, processes,
blobs, keys, tokens, entries, any limits, sizes and bounds - from the named
assumptions of the modules only. `CrashStoreAssumption`: `None` is not a key,
blob or path, handlers are finite, limits are naturals. `RateLimiterAssumption`:
limits are naturals, a minute has at least one tick. `GateAssumption`: tokens,
schemas, sources and calls have their types, a crash upload has metadata,
handlers are finite. `LogIngestAssumption`: sources are finite, a channel has a
slot, a day a tick, logs are kept for a day or longer. `CrashUploadAssumption`:
levels are positive, context lists and the bodies of other clients are
well-formed, and the dump of another report has another digest. `CrashSpoolAssumption`: `None` is not a shipper, bounds and retentions
are naturals. `LogExporterAssumption`: `None` is not a process, sizes are
positive; `SamplingAssumption`: the rate is in range and every record has a time.

**CrashStoreProofs.** `TypeCorrect` is inductive on its own. The blob invariants
are not: whether a sweep is safe depends on what the janitor has read so far.
`IInv` adds

- `SnapshotIsStored`: only the janitor removes blobs, so what is left of its
  snapshot is stored;
- `IndexShape`: only a complete index has references, an absent one has none;
- `UploadsSafe`: an unmarked upload holds stored blobs and, while the janitor
  collects, none from the snapshot, hence none the sweep can take;
- `IndexesSafe`: the references of an unmarked index are stored and, while the
  janitor collects, each of those in the snapshot is already collected or its
  index is still on the list, or being read.

The proof goes by action; `Point` (a handler settles on a blob) and `Finish`
have lemmas of their own, since six actions use them. `IndexSafety` and
`UploadSafety` follow. `TempSafety` (`TempFilesAccountedFor`) accounts for every
file under `tmp/`: it belongs to a handler that is at work on a part, or to a
request that ended there (a body that broke off, an I/O error, a dropped request, a
crash), one file each. Its invariant adds that the requests that have ended so and
those in progress are no more than the uploads. `IndexRemovalSafety`
(`OnlyExpiredIndexesRemoved`) holds for every retention, zero included, which no run
has; its invariant `AgesOK` says that an index on its way to removal was expired
when `seen` was read. `AtomicPut` maps `blobs` to `stored` and the pointers of the
handlers to `ptrs`: `TryExists` (found) and `HardLink` are puts, endings are
releases, `SweepBlob` discards, all else stutters.

**RequestGateProofs.** First the limiter by itself (`IInv`). `WindowBound` speaks
of grants only; `Accounted` adds what is left in the bucket: grants in the window
plus tokens never exceed burst plus rate up to the last refill. For
`RefusalsEnd`, since a first refusal the bucket has kept all its refills and is
still below one token. `WindowSafety`, `RefusalSafety` and `TypeSafety` follow.

Then the gate. `GInv` says what the gate has established about a request
at each point of its handler: its token is one of the file's and carries the
presented secret, an upload at its parts is in scope; and that owed answers are
the counted ones plus the requests in progress. `StoredInScope`,
`BucketsInScope`, `CountedOnce` and `GateTypeOK` follow. `SourcesApart` rests on
`JoinedInjective`: joining with `/` is injective on components without one,
which is what `validate_component` is for. `GateImplementsLimiter` is a
refinement with the identity mapping (`GateSpec => Spec`): every charge is for a
key of the limiter, so that the bounds hold of the server as a whole
(`GateLimits`).

`ValidSafety` (`StoredIsValid`) relates the registry the server looks schemas up
in to the file it was started with. `HoldsLast` is the invariant of the loop of
`load_with_options`: for each project and kind named so far the map has what the
last such entry accepts. The loop is a recursive function; that it is defined,
and that `HoldsLast` is kept to its end, are both shown by taking the least index
at which they fail. `ValidInv` says that the registry is that of the whole file,
that what a request has left was vetted (log entries against the schema of the
token's project, an upload against that of its metadata) and that what is stored
conforms. For logs this needs `GInv`: scope makes the token's project the one
the entry is stored under.

**CrashSpoolProofs.** `IInv` ties the lock to the one run that works
(`RunOK`: `pc` is past the lock exactly if the lock is the run's), hook progress
to files (`FilesOK`: `sdk-config.json` exists only beside a full `dump.bin`), and
acceptance to places (`AcceptedOK`: an accepted entry has left `pending/`, is at
its rename, or its upload ended badly). `SentSafety`, `CompleteSafety`,
`OnceSafety` and `SpoolTypes` follow; for `RetentionSafety` the invariant also
says that a run remembers a retention at least that of every entry it moved.

**LogExporterProofs.** Three layers. `MInv`: a process
has a batch only between exports and a job only during one, its own sampled
records in it, none of them also in the channel. `FInv`, on top of it: while a
flush waits its message is in the channel, behind everything sent before it, or
its job is under way and nothing sent before it is left in channel or batch; a
closed channel has no waiting flush. `FlushSafety` follows. `SInv`, the
third: who drains holds the lock; a file is named after one of its records; a
record is in one file at most and not in memory as well; and a record that was
delivered and is not uncertain is nowhere it could be sent from again, except in
the file that is being removed (`Once`). `DuplicateSafety` follows, for any number
of processes on one queue directory, and from all three layers `ExporterTypes`.
`SpooledSafety` assumes a single process (`OneProcess`) and adds `Kept`: what is
being replayed is all of the file, what is being removed was delivered, and a
file about to be filled is still empty. With two processes the first and the last
of these fail, which is the `spool_race` finding.

**LogIngestProofs.** Three invariants, each on top of the one before.
`ControlInv` is about who is alive: a call that sends has a sender of a source in the
pool (`Serving`); a source in the pool has a live writer,
a writer that is done has an empty queue and nothing under way, and a writer has
the file of its current date open or opens another one before it writes
(`WriterOK`). `DrainSafety` follows. `NumbersInv` says where the
numbers of a source are: the queue holds the last ones sent, the record in hand
is the one before them, the one being written came before that. `OrderInv` adds
the files: what is on a line is older than all of these and on no later day
(`Behind`), and files are `Sorted`, one by one and among each other. `OrderSafety`
(`LinesInOrder`, which no run lists because `RecordsInTurn` implies it) follows.
Dates enter because a writer that could go back to an earlier day would break the
order between files. `IngestTypes` is the type invariant.

**LogIngestPlaceProofs.** `TimeInv` relates the clock to files: a record in hand
or being written sees midnight once at most, and a file unlinked under its writer
is two days old, so that it is closed before anything is written to it
(`ClockOK`); no file is older than its date (`FileOK`); the file the janitor is
about to remove is still old (`JanitorOK`). `ExpirySafety`
(`OnlyExpiredLogsRemoved`) follows, and with `PlacesInv` - a record taken from its
queue is in hand, being written, on a line or missing, and a missing one is
nowhere else - `ConservedSafety` (`Conserved`). The theorems of this module have the
hypothesis `LogsTtl >= 2`. It is needed: with logs kept for one day the janitor
may find yesterday's file old while a write begun before midnight is under way,
and remove it after the write has landed.

**LogIngestStreamProofs.** `StreamRefinement` (`RecordsInTurn`) shows that
`LogIngest` implements `LogStream`, with no hypothesis on retention. Besides the
invariants of `LogIngestProofs` it needs `TurnInv`: the record being written is the
next one in turn, so that the record in hand can only be dealt with after it. `Send`
accepts; there is room for the channel, the record in hand and the one being written
(`Window`). `Land` adds a line, behind the line of every earlier record, unless the
file has a torn end or was removed; that, `OpenFails`, `LandFails` and a `Write` that meets the error
of the one before drop a record. `RemoveLog`, and `OpenLogFile` when the file is not
there, empty a file; `Crash` restarts; all else stutters. `LossSafety`
(`LossBounded`): its invariant `LossOK` counts, besides the records lost, the writers
that owe the next record an error and the files with a torn end: an error pays for
three at most and a crash for a torn file of each source.

**CrashUploadProofs.** `UploadInv` follows the report through the system: the
entry is what the hook wrote for its context files (`SpoolOK`); the body of an
upload of ours has the dump and every file of the manifest, in its order, under
its key and decoding to what is in the entry (`OurBody`), and a handler has of it
exactly the parts before the next one (`Progress`, `HandlersOK`); a record of the
report is at a level that was used and yields all of the manifest (`IndexOK`).
That the body is so is a chain of lemmas about the operators, one per function of
the client (`ManifestFacts`, `DirFacts`, `AttachPartCarries`, ...), which hold for
every list of context files. `FaithfulSafety` then only has to show that with
`NamesApart` no file of the entry was overwritten. `SentOK` says that, while no
given-up upload has written to the index, the one that is waited for finds there
what it wrote; `SentSafety` follows. For `WireSafety` (`WireAgrees`), `ReadInv`
says that handler and library reader have made the same of the parts so far; the
reader is a recursive function, and the proof only uses one turn of its loop.
`SizesInv` adds that the parts so far were within their limits, or one of them was
not and the answer is 413.
`LevelSafety` (`OneRecordPerLevel`) maps the records of the report to their levels,
one to one.

Only model-checked: every liveness property (liveness under fairness is out of
the prover's reach), and the three sentences behind the findings, which the code
does not satisfy. Every invariant and action property that a passing run checks
has a theorem.

## 5. Abstractions

- Contents are digests, payloads classes, messages their records; text, headers
  and multipart framing are left out. A password hash verifies exactly the secret
  it was made from; zstd is a tag on the content.
- Files become durable when written: `fsync` and power loss are not modelled,
  process death is.
- Clocks do not step back (over midnight that would reopen an older log file,
  `logs.rs:252`). `Tick` in `CrashStore`, `LogIngest` and `CrashSpool` does not
  fire twice within one file operation: no write lasts a day. With
  `logs_ttl_days = 1` a write over midnight could meet `prune_logs`; the runs
  use 2, the proofs assume no less, the default is 14.
- `f64` rounding in the rate limiter, and retention times that overflow
  (`janitor.rs:202`), are not modelled.
- Workers run on threads of their own; two layers that share a queue directory on
  a single-threaded runtime (`spool.rs:68`) are outside the model.
- A context file without a UTF-8 base name gets a name of its own; in the model
  all context files have one.
- Whether a gate refuses is free in `LogIngest`, `CrashStore` and `CrashUpload`;
  `RequestGate` has the decisions.

## 6. Not modelled

- Argument parsing, `hash-token` and tracing set-up of `detritusd`: no state.
- Body limits, request ids, `/healthz`, `/metrics` and the HTTP and gRPC
  transport: library code in front of the handlers, without state of its own here.
- Histograms, gauges, byte counters and janitor statistics: written and never
  read by the server.
- The text of JSON, of OTLP conversions and of multipart framing (the fixed
  boundary of `multipart.rs:15`, header quoting, duplicate attribute keys): string
  processing without interleaving, better served by the repository's tests.
- The minidump child process: what it hands over is the entry's dump.
- Generated OTLP types and packaging.
