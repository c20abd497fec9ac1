# discogs-ingestion in TLA+

A verification project for the Discogs extractor: a Rust service that finds the
latest monthly dump, downloads and verifies its four files, parses them, publishes
every record to RabbitMQ, and keeps a durable *state marker* so that a restart
resumes instead of starting over. The modules here are translated from the source
under `src/src/` (paths below are relative to that directory, lines are those of
the commit they were read from). TLC model-checks them on small instances and
TLAPS proves most of their safety properties, and the two refinements, for every value
of the constants.

`PROJECT.json` lists components, runs, the map from definitions to source lines,
the hazards the properties are aimed at, and what was found. To run a check or a
proof:

    tlc -config DiscogsRun.cfg MCDiscogsRun
    tlapm DiscogsRun_proofs.tla

The proofs of a component `X` are in `X_proofs`; those of the three small components that
live as long as the process, `PoliteClient`, `TokenBucket` and `ServiceLoop`, are in
`Process_proofs`.

## 1. The system

| Component | Source | State | Operations |
| --- | --- | --- | --- |
| State marker | `state_marker.rs` | per version: download, processing and publishing phase, one row per file, overall status; a JSON file | `start_*`, `complete_*`, `file_bytes_verified`, `should_process`, `pending_files`, `load`, `save` |
| Version listing | `discogs/downloader.rs` 280-517 | `cached_files` | `list_s3_files`, `get_latest_monthly_files`, `find_checksum_entry`, `fetch_checksums` |
| Downloader | `discogs/downloader.rs` | metadata (name, checksum), dump files, the marker while it is lent | `download_discogs_data`, `should_download`, `download_file` |
| Extraction run | `discogs/mod.rs` `process_discogs_data` | the marker under a mutex, worker tasks, the shutdown flag | one run from listing to `complete_extraction` |
| File pipeline | `mod.rs` `process_single_file`, `runtime.rs` | four or five tasks, bounded channels, one connection | parser, validator, normalizer, batcher, publisher |
| XML parser | `discogs/parser.rs` | depth, element stack, resynchronisation, error budget | `parse_file` |
| Message queue | `message_queue.rs` | connection, channel, reconnect mutex | `publish_batch`, `send_file_complete`, `send_extraction_complete`, `get_channel`, `close` |
| Pacing | `message_queue.rs` 60-100 | token bucket | `take`, `pace` |
| Polite HTTP client | `polite_http.rs` | time of the last request, under a mutex | `get` |
| Service loop | `mod.rs` `run_extraction_loop`, `runtime.rs`, `health.rs`, `main.rs` | status, trigger cell, shutdown notify and flag | initial run, periodic and triggered runs, shutdown |
| Data-quality rules | `discogs/rules.rs` | report, logs and captures of flagged records | `should_skip_record`, `apply_filters`, `evaluate_rules`, `FlaggedRecordWriter` |
| Normalisation | `discogs/normalize.rs`, `media.rs`, `identifiers.rs`, `companies.rs` | none | `normalize_record`, the canonical blocks of a release |
| Local manifest | `discogs/local_manifest.rs` | staged copy | one-shot input |
| Telemetry, logging, configuration, types | the rest | none the program decides on | |

How they interact. The service loop calls the extraction run; the run asks the
listing for a version, loads that version's marker, lends it to the downloader,
takes it back and shares it under a mutex among one task per pending file. Each
task drives a pipeline whose batcher also saves progress into the shared marker and
whose publisher uses the task's own queue connection. When every file is done the
run opens one more connection for the broadcast of `extraction_complete`, and only
then finalises the marker. HTTP handlers reach the loop through a one-element
trigger cell and the shared status; signals reach it through a `Notify` and a
monitor task that turns it into a flag.

What is hard here, and for each component what makes it correct:

* **Two systems, no transaction.** The marker and the broker are written one after
  the other and the process may die in between. The marker must never claim what
  the broker has not got, and nothing may be claimed by nobody for ever.
* **The consumers' purge.** `extraction_complete` carries `started_at`; consumers
  delete every row older than it. Resumed runs must announce the start of the
  *first* session.
* **Bytes that change.** A dump may be downloaded again with other content; a
  Completed row must not outlive the bytes it was computed from, and an
  interrupted download must not discard finished work.
* **A site that changes while it is read.** The version is chosen from pages that
  are read one by one and fail one by one.
* **Pipelines.** Bounded channels, stages that stop early, a parser that recovers
  from errors: nothing may be lost, duplicated or announced early, and no stage
  may wait for ever or be left behind.
* **Shared clients.** Reconnection, pacing, politeness gaps: the lock-and-recheck
  and lock-and-sleep patterns hold a global guarantee between concurrent callers.
* **Signals, triggers and failing runs** against a loop that sleeps for days.
* **Power loss** in the middle of a save.
* **One element, three shapes.** The parser makes nothing, a scalar or an array of the
  children of a list. Skip conditions, filters, rules, normalisation and the canonical
  blocks each read the record in their own shape, one after the other, and must agree
  on what the XML said; what the validator leaves on disk must stay true when the dump
  is validated again after a crash.

## 2. Modules

| Module | Models | Extends / composes |
| --- | --- | --- |
| `StateMarker` | the marker's methods as operators from marker to marker | |
| `Downloader` | the download phase, one action per step of the loop | `StateMarker` |
| `DiscogsRun` | one version over any number of runs, crashes and restarts | `Downloader` |
| `FileTask` | what a file's task promises: announced only when whole, committed only when announced, silent after success | |
| `FilePipeline` | the stages, channels and `process_single_file`; implements `FileTask` | `INSTANCE FileTask` |
| `XmlParser` | the parser's event loop over generated documents | |
| `MessageQueue` | callers, confirms, reconnection and a broker that loses and refuses | |
| `TokenBucket`, `PoliteClient` | pacing and politeness | |
| `ServiceLoop` | loop, trigger, signal, monitor, status, exit | |
| `Listing` | site, listing, choice of version, published sums | |
| `Json` | JSON values; the value of an XML element, the id of a record | |
| `Normalize` | the flat shape of each data type | `Json` |
| `Rules` | skip, filters, rules and their conditions | `Json` |
| `MediaBlock`, `CatalogBlocks` | the canonical media, identifiers and companies blocks | `Json` |
| `QualityReport` | the report of one data type | |
| `Validation` | validator and normalizer over the records of a dump, crashes and repetitions; rules and shape are parameters | `QualityReport` |
| `Records` | `Validation` with the rules and shapes of the code | `Validation` and the four above it |
| `AtomicFile`, `DurableFile` | a file that is replaced atomically; `save` over a real file system implements it | `INSTANCE AtomicFile` |
| `MCShared` | `PoliteClient`, `TokenBucket` and `DurableFile` in one run, one of them moving in a behaviour | `EXTENDS` the three |
| `MCDiscogsRun`, `MCMessageQueue`, `MCListing`, `MCRecords` | values of the constants for TLC | |
| `DiscogsRun_proofs`, `FilePipeline_proofs`, `MessageQueue_proofs`, `DurableFile_proofs`, `Listing_proofs`, `XmlParser_proofs`, `Validation_proofs` | theorems | each its component |
| `Process_proofs` | theorems about `PoliteClient`, `TokenBucket` and `ServiceLoop` | the three |

Definitions keep the names of the source where they can; operators called *mutant*
in a comment are wrong variants of the definition that follows them, kept to show
that a property notices a plausible bug. Nothing refers to them.

### DiscogsRun, with Downloader and StateMarker

`disk` is the marker file and `mem` the copy of the running process; `bytes` and
`meta` are the dump files and the metadata as they survive a restart, `trusted` the
metadata in memory. A byte-image is a model value: `Good`, what Discogs published,
or another. `published` is the set of files that the fetched CHECKSUM list names, any
of them: `fetch_checksums` (`downloader.rs` 496-516) skips the lines it cannot parse and
fails only when none is left, and a file that the list lacks is neither compared nor
rejected (155-158, 190-192), but recorded and finalised as it came, without an error. `pc` walks through `process_discogs_data`; the download loop has its
own positions, the processing phase has one `task` per file that runs in parallel
with the others under `MaxWorkers` permits. Every action is a piece of code between
two points where something else can be observed: an await that talks to the disk or
the broker, or a step of another task. `TaskPublish`, `TaskAnnounce` and
`TaskComplete` are the three moments that matter: records confirmed, `file_complete`
sent, marker updated and saved.

The broker and its consumers are reduced to what they have confirmed: per data type
the byte-image of the last complete pass, when it was sent, whether `file_complete`
followed, and the `started_at` and count of the last `extraction_complete`. Time is
counted in runs (`clock`), enough to tell a resumed session from the first.

Faults are drawn from one budget: a kill at any point, a failed save of the marker,
wrong bytes from the network, an unreadable marker, a failed broadcast, a shutdown,
an operator who deletes dumps. The budget bounds faults, not runs.

### FilePipeline and FileTask

Each stage is a process with its own position; a channel is a sequence with a
capacity, closed when its senders have ended, refusing when its receiver has. A
record is its index. `Init` chooses whether there are rules: then the validator is
one of the stages and all handles are awaited together (`try_join!`); without it
they are awaited one after the other. Stages fail while the fault budget lasts; an
orphaned relay or batcher ends as the code does, some with `Ok`. `FileTask` is the
part `DiscogsRun` assumes of a task, with what stages left behind may still do after
a failure; the run `pipeline` checks the refinement and `PipelineIsTask` proves it. That a
channel or a buffer holds exactly the records of a range that the rules keep, in order, is
`Spans`: said position by position, so that it can be proved about, and never as a fold
over the sequence. `DiscogsRun` itself takes the
joined form, in which a failed task publishes nothing more.

### XmlParser

`Init` chooses a document of up to `MaxRecords` records in the shapes of the dumps (plain,
self-closing, or with nested elements of the same name, as in the label dump), and
where the reader reports errors. A document is a sequence of pieces, the records between
the two tags of the container, and each piece a sequence of events, so that a position is a
pair of a piece and an event in it. The loop keeps depth, the stack, the
resynchronisation flag and the budget of the code. A record's value is where it
starts and the text positions it collected.

### MessageQueue

Callers share the client. A caller gets a channel or reconnects under the mutex,
puts messages on the wire (pipelined in a batch, one by one otherwise), and settles
confirms in order. The broker acks, nacks, returns, loses a message or says nothing;
connections die at any time; `close` takes the channel and the connection in two
steps. Each connection is a number and its own object. `errors` is the set of the
messages of a call that failed: a batch ends with the first, a broadcast goes on with the
other exchanges and reports it at the end.

### ServiceLoop

`main` is the position of `run_extraction_loop`; a run of `process_discogs_data` is
its guard, the reset of the status, an outcome, and the status at the end. The
trigger cell, the HTTP handler, the signal, the monitor's wait and store, and the
`select!`, whose arms only listen from the first poll on, are steps of their own.
`LoopStep` is what the loop does of its own accord or when something wakes it,
`SleepElapsed` the end of its sleep of `periodic_check_days`.

### Listing

The site publishes a month file by file, in any order, and may leave it incomplete.
The run reads the index, then the pages of the two newest years, newest first (`dirs`
is the set of those still to be read); a page is a snapshot and may fail. The list is cached and used twice, for the version of the
marker and for the files. In the code a set is complete with five files of which
four are data; here with as many as the instance has kinds. A page lists each file
once. With `force_reprocess`, or without, is a free choice in `ChooseVersion`. The CHECKSUM
file of a version has sums for any part of its files (`summed`), and what is compared is
what it has sums for.

### DurableFile

Temporary file, marker and directory entries, each with what is in memory and what
is on stable storage; a power loss keeps any of what was not synced. `SyncsDir` says
whether the file system supports syncing a directory (the code goes on when it does
not). `AtomicFile` has one value, replaced at once, and a promise.

### Validation and QualityReport

The state machine around the functions of a record: the validator and the
normalizer as `message_validator` and `message_normalizer` run them, with the channel
between them, the report and the buffered writer of the validator, what of it is on
disk, and a process that dies (or a file that fails) at any moment and publishes the
dump again from its first record. `Init` chooses a dump and whether there are rules.
What the skip conditions, the filters, the rules and the normalisation make of a record
are the constant operators `SkipBy`, `RepairBy`, `ViolationsBy` and `ShapeBy`: the
bookkeeping does not depend on them. The report is a record of bags, as the nested maps
of counters of the code are.

`NothingUnaccounted` says what an operator relies on when reading the flagged
directory. A record taken in this pass is sent on in its place, or it is named among the
skipped ones; and when a validation has ended, the report on disk is that of this pass,
number by number, every skip and violation in it has its line, and every captured
record is the one of this pass. The lines of earlier passes stay, so there may be more
of them than the report counts, never fewer.

### Records, with Json, Normalize, Rules, MediaBlock and CatalogBlocks

`Json`, `Normalize`, `Rules`, `MediaBlock` and `CatalogBlocks` are functions of one
record, one operator per function of the source. `Records` gives them to `Validation`:
its `SkipOf`, `RepairOf`, `Flagged` and `Shaped` are what the configuration substitutes
for the four operators above, and `MessageOf` of `Json` is the parser's record.

The reference these are checked against is written from the other side: what a reader
of the XML would say is at a path (`Reached`, `TextsAt`, `Stated`), without arrays,
scalars or prefixes.

Texts are compared, trimmed and classified, never put together, so the functions that
look inside them (numbers, leading years, digits, trimming, the absence marker) are
constants, given as tables for the texts of the instance. A pattern is the set of the
texts it matches. Lists the code sorts and de-duplicates are sets. The hash is taken to
be injective. The two JSON-lines logs of a flagged record are one log of its lines, the
captured XML and JSON one capture, and every record is an object with a unique id, as
in the dumps. The writer's own I/O errors are left out.

## 3. Runs

Runs that pass:

| Run | Instance | Shows |
| --- | --- | --- |
| `discogs_run` | 2 files, any of them named by the CHECKSUM list, 2 byte-images, 2 workers, 2 download attempts, 2 faults | `CompletedWasDelivered`, `PurgeKeepsRows`, `FinalisedWasBroadcast`, `CompletedMatchesBytes`, `VerifiedWhenPublished`, `ProcessedIsCount`, `ReportedSuccessIsFinal`, `ProgressKept`, `EventuallyFinalised` |
| `pipeline` | with and without rules: 6 records, 2 of them skipped by the rules, channels of 2 and 1, batches of 2, 2 failing stages | order, completeness and end of the pipeline, release of the connection with rules; it implements `FileTask` |
| `service_loop` | any number of periodic and triggered runs, one signal | truthful status; a trigger that was accepted starts a run, or the attempt ends in a visible failure; a shutdown that the loop hears ends the process without the sleep having to elapse, and cleanly when the run gets to decide its outcome |
| `xml_parser` | up to 3 records, 3 errors, 1 tolerated | exactly the sound records, in order and whole; the parse ends |
| `message_queue` | a batch of 2 and a broadcast to 2 exchanges, 2 attempts to connect, 3 connections | `Ok` means delivered, to every exchange; a broadcast that returns has reached every exchange its error does not name; one reconnection at a time; no leaked channel; calls return |
| `shared_parts` | one of: 3 publishers, cost 2, burst 5, 7 ticks; 2 GETs, gap 2, cap 6, 2 retries, hints 0, 3, 9; 4 saves | total rate in every window, bounded waits; gap, hints, end; a marker never torn, never older than promised, and `AtomicFile` implemented |
| `listing` | 3 months in 3 years, the first of them on the site from the start, 2 data types and CHECKSUM, sums for any of the files | marker, files and sums are of one version, the files compared those the list names; the newest complete one that could be read; the newest complete month is processed once the site rests |
| `records` | 298 dumps of 1 or 2 records of the four data types, with and without rules, 2 passes | what is published is what the XML states less what the filters strike, hashed as sent; the blocks hold every entry that states both of its fields, and list the unknown ones; the report on disk is true and accounts for every record |

Why these bounds are enough to be worth something. Two files are the smallest number
for which one is finished and another is not, and for which two tasks share a
marker; two faults allow a fault in a run and one in its repetition, or one of the process
and one of the network or the operator; runs themselves are unbounded, and the safety
properties of section 5 are proved for any number of faults. Channel capacities are
smaller than the number of records, so every stage blocks; six records with batches
of two exercise full, partial and empty last batches. Two callers are enough for
a race on the mutex, three connections for a reconnection of a reconnection. The
parser's documents include an error in every position of every record shape. In `records` every list takes zero, one or two items of each kind that the
vocabularies tell apart, which are all the shapes the parser makes; two records show a
report that adds up and a capture beside a clean record; two passes a repetition over
the leftovers of a crash. In the
listing three years exceed the two that are read, and both later months may be incomplete;
two data types are enough for a CHECKSUM list that names one file and lacks another. The
three parts of `shared_parts` have no state in common and nothing passes between them, so
moving one at a time leaves out no behaviour of any of them.

A type invariant is checked where proofs rest on it, in `DiscogsRun`. No run uses
symmetry. `CHECK_DEADLOCK FALSE` is set where the modelled calls end (pipeline, parser,
queue, shared parts, records) or the process exits (service loop).

Runs that show a disagreement between the code and what it says of itself (each
refutes one property):

| Run | Property | What happens |
| --- | --- | --- |
| `pipeline_orphan` | `ReleasedOnReturn` | Without rules the handles are awaited in turn (`mod.rs` 577-580). If the parser or the normalizer fails, the function closes the connection and returns while the batcher and publisher are still running; the publisher opens the connection again. The comment at `mod.rs` 460-465 promises a release on every exit path. |
| `xml_parser_labels` | `OnlyMalformedDropped` | In the label dump a sublabel is a nested `<label>`; after an error the parser takes it for a record (`parser.rs` 226-231), and sound records are lost. |
| `service_loop_window` | `StopsBeforeSleeping` | A signal after the poll of the flag (`mod.rs` 811) and before the first poll of the `select!` (830) finds nobody in the `select!` (`notify_waiters` leaves no permit) and wakes the monitor, which raises the flag; the loop sleeps with the flag up, until `periodic_check_days` are over or a trigger starts a run. The comments at `mod.rs` 767-771 and 808-810 say that the flag prevents this. |
| `records_dropped` | `NothingDropped` | An identifier without a type or a value, or a company without a name or a role, makes no item and is not listed as unmapped (`identifiers.rs` 258, `companies.rs` 188), so the half it does state is lost, though the rule flags its type or role; a blank or padded type is flagged as it stands and trimmed in the block. `docs/extraction.md` 105-108 says that every raw value survives and `docs/extraction-rules-guide.md` 229-230 that rules and blocks list the same strings. TLC refutes either half alone, for identifiers and for companies. |

More behaviours of the code are in the models and limit what the passing
properties say:

* A signal before the monitor task first polls its `Notified` raises no flag at all, and
  is lost unless the loop is in its `select!` by then. `HeardShutdownExits` is about the
  flag being up while the loop is in a run, on its way back to the poll or woken in the
  `select!` (`Listening`); the loop that polled too early is the run
  `service_loop_window`.
* A shutdown does not turn every failure into a clean exit: an initial run that ends with
  an early `?` (`mod.rs` 785-799) fails the process, flag or not. `HeardShutdownExits` asks
  for the clean exit once the run is `Decided`.
* A second `POST /trigger` overwrites one that was accepted and not yet consumed
  (`health.rs` 128), its `force_reprocess` included: `TriggerServed` says that a trigger
  waiting in the cell leads to a run that has begun or to a `Failed` status, not that it
  is run with its own options.
* `BlocksFollowLists` says what the mappers promise in their own comments
  (`identifiers.rs` 246-248, `companies.rs` 175-177): it is about entries that state both
  of their fields. What becomes of the others is the run `records_dropped`.
* A file that the fetched CHECKSUM list does not name is finalised unverified
  (`downloader.rs` 155-158, 190-192): `VerifiedWhenPublished` and `SumsCoverTheFiles` are
  about the files the list names.
* An empty element alone in a list disappears, among several it stays in the published
  list as a null (`normalize.rs` 37-63): `PublishedWhole` compares the items that say
  something.
* A year page that fails is left out (`downloader.rs` 372) and an older month is
  taken: `NewestCompleteTaken` is about runs that could read the pages.

## 4. Fairness

* `DiscogsRun`: weak fairness of `RunStep`, the steps of a run and of its restart:
  the container is restarted on failure and the loop runs again, and an executing
  process takes its next step. Faults need no fairness, and their budget ends.
* `FilePipeline`, `XmlParser`: weak fairness of every task: tokio schedules what is
  ready.
* `MessageQueue`: weak fairness of each caller's step, strong fairness of taking the
  mutex (tokio's is first-come, first-served). An attempt to connect ends, well or
  badly; nothing in the code bounds it. Nothing is assumed of the broker's confirms:
  the code's own deadline ends the wait.
* `PoliteClient`: time passes, callers take their steps, the mutex is fair.
  The run `shared_parts` has this fairness; the properties of its other two parts are safety.
* `ServiceLoop`: weak fairness of `LoopStep` and of the monitor; strong fairness of
  `TakeTrigger`, which is polled every 500 ms during a sleep of days. That the sleep
  elapses is not assumed: nothing that must happen soon may wait for it.
* `Listing`: weak fairness of the run; strong fairness of the index, of the page of
  each year, and of the download and the processing of each version: what is tried in
  every run succeeds in one of them.

## 5. Proofs

`DiscogsRun_proofs` proves, for any finite set of files, any contents and sizes, any
number of workers and any number of faults:

* `TypeCorrect`: `Spec => []TypeOK`;
* `Inductive`: `Spec => []IInv`;
* `NeverCompletedUndelivered`, `PurgeIsSafe`, `ProvenanceHolds`: the safety
  properties `CompletedWasDelivered`, `PurgeKeepsRows` and `CompletedMatchesBytes`.

None of the three properties is inductive. `CompletedWasDelivered` speaks of the
marker when a row says Completed, but the step that writes it relies on what the
task did before: `TaskInv` records that a drained task has delivered the very bytes
on disk in this run and that an announced one has sent `file_complete`.
`PurgeKeepsRows` relies on `started_at` being older than every delivery a Completed
row stands for, in both markers (`MarkerInv`), and on nothing Completed while the
phase is Pending, since the start of that phase stamps a new `started_at`. And
`CompletedMatchesBytes` has to be built up file by file through the download loop
(`LoopInv`, `BoundInv`): a visited file's checksum is bound to the bytes on disk and
no row of other bytes is left. `PhaseInv` says that every file is Completed when the
broadcast is due, `ClockInv` orders deliveries and purges. `IInv` is their
conjunction; TLC checked it as an invariant before it was proved.

The proof has a lemma per marker method (what type it keeps, what fields it
changes), a lemma per action or group of actions, and a QED that collects them. It
uses the named assumptions of `Downloader` and `DiscogsRun` on the constants and
nothing else.

The second half of the module goes on from `IInv` and proves the rest of that run's
safety, for the same constants; each theorem has an inductive invariant of its own,
stated in `DiscogsRun` and checked by TLC before it was proved:

* `FinalisedIsVerified` (`VerifiedWhenPublished`) from `PublishedInv`: of the files that
  the fetched list names, each one the loop has visited holds the published bytes, and so
  does the file whose checksum is about to be recorded; nothing is said of a file the list
  lacks; with `IInv`, which ties bytes to
  rows and rows to the broker, that is what was delivered.
* `CountsAreExact` (`ProcessedIsCount`) from `CountInv`: the count and the record
  numbers of both markers are those of their completed files. A task may add one
  because its file was not completed when it was queued, `start_processing` may reset
  because nothing is Completed while the phase is Pending, and the saturating
  subtraction of an invalidation never saturates.
* `SuccessIsFinal` (`ReportedSuccessIsFinal`) and `FinalisedWasSent`
  (`FinalisedWasBroadcast`) from `CompletionInv`: a finalised marker was broadcast as
  it stands (`FinalInv`), nothing is processed or broadcast of a finalised version and
  at the broadcast the two markers agree (`BroadcastInv`), and a run holds a version
  it may finalise only while the marker on disk says so (`OutcomeInv`). A version that
  the download phase takes back, because a file has other bytes, is a new one.
* `ProgressIsKept` (the action property `ProgressKept`) from `KeptInv`: what is
  Completed on disk is so in memory, of the same bytes, unless the loop has visited the
  file and found other bytes. A save then overwrites nothing but those.

So every invariant and action property of the run `discogs_run` is proved; its
liveness property is not.

`FilePipeline_proofs`, for any number of records, any set of them the rules skip, any
channel capacities and batch size, any number of failing stages, with and without rules:

* `DeliveredInOrder` (`ConfirmedInOrder`): what is confirmed is the kept records up to
  some record, each once and in order. The invariant `StageInv` gives every stage two
  record numbers, how far it has taken and how far it has passed on. What a stage holds
  spans the first interval and what waits in its channel the second (`Link`), a batch
  being a sequence of its own in the last channel; the intervals of the stages join
  from what is confirmed to what is parsed (`Flow`). `SpansJoin`, `SpansHead`,
  `SpansAppend` say how the predicate behaves when a sequence is moved on.
* `AnnouncedIsWhole` (`AnnouncedWhole`) and `Released` (`ReleasedWithRules`): a stage
  that ends well has drained the one before it, or some stage has failed (`Drained`,
  the last conjunct of `Flow`); with `MainInv`, which follows the handles that
  `process_single_file` has awaited, nothing is left anywhere when it announces.
* `PipelineIsTask` (`ImplementsTask`): every step of the pipeline is a step of `FileTask`
  or a stutter, counting what is confirmed. `ConfirmedCount` turns the intervals into
  cardinalities; everything else follows from the two invariants.

`MessageQueue_proofs`, for any set of callers, any numbers of messages, of attempts and of
connections, and a broker that does anything the model allows:

* `OwnedChannel` (`LiveChannelIsOwned`) and `OneReconnect` (`NoRacingReconnect`) from
  `ReconnectInv`: who reconnects holds the mutex and has found no live channel after it
  got it, and the connection it has opened is the queue's own unless it was closed.
* `OkIsDelivered` (`OkMeansDelivered`) from `DeliveryInv`: each frame goes on the wire once,
  after those before it (`SentOnce`); what a caller has settled and not found failed was
  acked (`OkIsAcked`); an acked frame is in the queue of its exchange, and neither what is
  queued nor what was sent before it is still in flight (`QueueMatchesFrames`), which is
  why a caller's messages are queued in order (`QueueInOrder`).

`Process_proofs`, about `TokenBucket`, for any rate, capacity, number of publishers and time:

* `TotalRate` (`TotalRateHolds`). The invariant follows the time at which the
  bucket would be empty, `last - tokens`: each reservation moves it on by at least the
  cost of a record, and no release is earlier (`Covered`); windows that end with the
  newest release are then covered by it (`Paced`).
* `FairWait` (`WaitIsFair`) from `WaitInv`: what is reserved beyond any time to come
  belongs to publishers that are still held then, each of which has one reservation; so
  nobody waits for more than the others and itself.

`XmlParser_proofs`, for any number of records and errors, any positions of the errors,
those the reader never gets past included, and any budget:

* `OnlyMalformedAreDropped` (`OnlyMalformedDropped`), for dumps whose records nest none of
  their own name: `"nested" \notin Shapes`, the hypothesis under which the run `xml_parser`
  checks it. The run `xml_parser_labels` shows that it cannot be left out.
* `SoundAreSent`, for every dump: the property holds as long as no record that nests one
  of its own name has an error before it (`LabelsIntact`). An error of a label anywhere
  else, in the nested one or after it, loses that label and nothing more.

The invariant `ParserInv` has two cases. A parser that goes on without an error has the
depth, the open elements and their texts that its position in the piece determines
(`Standing`, by the tables `DepthAt` and `StackAt`); one that looks for the next record has
kept nothing and is in a piece that is broken, or at the start of one (`Resyncing`), and not
between the start of a nested record and the record around it. `Entering` shows that an
event which is not skipped is always met in the first case, because a resynchronising
parser stops skipping only at the first event of a piece, where the depth is anchored
again. A step then stays in its piece (`Continues`), leaves it and sends the value
(`Finishes`, `SentNext`) or keeps on looking (`Skips`); each action has a lemma that says
which. TLC checked `LabelsIntact => ParserInv` on instances with and without nested records
before it was proved.

`Process_proofs`, about `PoliteClient`, for any callers, gap, cap, retries and hints: `GapIsKept` (`GapKept`)
and `ServerHeard` (`ServerIsHeard`) from `PoliteInv`: who sleeps in the gap holds the lock
and sleeps at least what is left of the gap, so that the others' requests cannot come
between; a retry sleeps at least what the server asked for (`WaitCovers`, which needs
that a power of two is positive).

`DurableFile_proofs`, for any number of saves, on file systems that sync directories and
on those that do not: `Survives` (`PromisedSurvives`) and `AtomicSave`
(`ImplementsAtomicFile`) from `DurableInv`: in every directory a power loss may bring back,
the marker is an inode that was synced before its name was, holds a whole version, and is
not the inode that is being written. What a save does to a marker is stated once
(`CreateMarkers`, `WriteMarkers`, `PowerLossMarkers`) and used by the invariant and by the
refinement.

`Listing_proofs`, for any finite set of versions whose years follow their dates and any
kinds of file: `MarkerMatchesFiles` (`MarkerIsForTheFiles`) and
`SumsMatchFiles` (`SumsCoverTheFiles`) from `RunInv`: the version of the marker is the one
the cached list gives, since the second call finds the list of the first, and the entry
looked up in it has that version too, so that the sums it has are sums of these files. `NewestTaken`
(`NewestCompleteTaken`) from `NewestInv`: the newest set that was complete when the index
was read is on a page still to be read, or all of it is in the list, unless a page
failed. That a finite set of numbers has a largest element is itself proved
(`LargestExists`), by the well-founded order of the finite sets.

`Process_proofs`, about `ServiceLoop`: `ParkedTellsTheTruth` (`ParkedStatusIsTruthful`) from `StatusInv`: the
status and the outcome of the last attempt agree except when the shutdown flag is up, and
then the loop ends before it sleeps. `OnlyFailureFails` (`FailureExitIsFailure`) is proved
there too; it is the safety half of what `HeardShutdownExits` asks of the exit, and follows
its guard closely.

`Validation_proofs`, for any dump, with and without rules, any skip conditions, filters,
rules and shapes, and any number of passes: `Accounting` (`NothingUnaccounted`), from
`AccountInv`, which is four things.

* `TypeInv`, and `FlowInv`: what is published and what waits between the two stages
  are, one after the other, the messages of the records that were kept, in order; once the
  normalizer is gone it is a beginning of them. `Flow` says it for the first `n` records,
  with `n` the last record taken, and `FlowSkips`, `FlowPasses`, `FlowPublishes` and
  `FlowDirect` move it on.
* `ReportInv`: the report in memory tells of the records taken in this pass, and the lines
  in the log and those in the buffer *together* explain it. Neither alone would be
  inductive: a spill moves lines from one to the other, and a crash loses the buffer, but
  it loses the report with it, so that the next pass owes nothing. The log itself only
  grows, and what was explained stays explained.
* `CaptureInv`: each id that should be captured and whose record was taken in this pass
  is in the writer's memory of what it wrote, and its file is the capture of this pass. A
  file of an earlier pass is written over, because that memory starts empty.

That the flushed log explains the report on disk is then the buffer being empty at
the end. The counts of the report are bags of sequences; what a bag of that form holds is
proved where it is used, by one-to-one correspondences between places in the
sequences and the records and violations they stand for. Besides the arguments there
are two assumptions: a dump, and the violations of a record, are finite sequences.

The proofs use the named assumptions the components make on their constants: sets
that are finite, numbers that are naturals, bounds that are positive where the code's
are, model values that differ. They assume nothing about states, and one theorem has a
hypothesis of its own: `OnlyMalformedAreDropped` is about the dumps whose records do not
nest one another, as said there.

Only model-checked:

* Liveness, which is out of the prover's reach: `EventuallyFinalised` of `DiscogsRun`,
  the ends of the pipeline, the parser, the calls of the queue and of the client, the
  triggers and the exit of the service loop, and that the newest month is processed.
* The three invariants of `Records` about what a record becomes (`PublishedWhole`,
  `BlocksFollowLists`, `ReportIsTrue`): `Json` and `Rules` are recursive over the tree of a
  record, as the code is, and what they compute for every tree is an induction over data.
* `BroadcastTriesAll` of the queue.
* What the four runs of disagreements refute.

## 6. What is left out

* The local manifest's own staging and its composition with a regular run: `ServiceLoop`
  has the one-shot start, but not the marker it leaves, which a regular run of the same
  version would find. It is documented as an operator and test-only input.
* Loading and compiling the rules file and the vendored vocabularies, the wording of the
  report, file-name sanitising, the XML rebuilt for a flagged record, I/O errors of the
  writer of flagged records.
* Entity references in the parser; the encoding of messages; AMQP topology
  (`setup_exchange`); record and byte counters except those of the broadcast,
  and so the counters of `/health` (`mod.rs` 144-166 rehydrates them only on a resume in
  the processing phase).
* Lines torn by a crash in the middle of a `BufWriter`'s spill: the log of flagged records
  is taken to hold whole lines.
* Rule enumerations that differ from the vocabularies they repeat: the instance takes both
  from one table, and a unit test of the repository compares them.
* A CHECKSUM file that is wrong about its own version: a sum it has for a file is taken to
  be that of the published bytes.
* Panics of tasks, other than as failed stages; allocation failure.
* Floating-point rounding in the bucket; clocks that step.
* Telemetry, logging, configuration, read-only HTTP handlers, scripts.
* Broker queues behind the exchanges: a returned message stands for a missing
  binding, an acked one is taken to be safe.

## 7. Plan

Done: the modules above, in the order core (marker, downloader, run), pipeline and
service loop, parser and queue, clients and file, listing, records.

Next, model:

1. `LocalManifest`: staging against a source that changes, and a regular run that
   finds the marker a smoke run has completed.
2. Orphaned stages composed with a later run in the same process: the batcher's saves
   of an old marker, and the temporary file they share.
3. The counters of `/health` (`ExtractorState`) against the marker, with rehydration.

Next, prove: the safety of whatever is modelled next. The functions of a record stay with
TLC as long as their correctness is an induction over the tree of the record.
