# Verification of icebergr

icebergr is an R package over `iceberg-rust`: R code checks and translates what
the user asks for, a Rust crate called from R's one thread carries it out on a
shared tokio runtime, and the table itself lives in a catalog and a warehouse
that other engines use too. This directory holds TLA+ models of the parts
where that is hard to get right, the TLC runs that check them on small
instances, and proofs, checked by TLAPS, of what holds for every instance.

`R/` and `rs/` below stand for `src/R/` and `src/src/rust/src/`.

## The system

| part | state | operations | properties that make it right |
|---|---|---|---|
| **append** (`rs/write.rs`, `R/write.R`) | per call: the handle passed, what is uploaded, the commit on its way | `icebergr_append()` | a call's rows are in the history once or not at all, whole, and on top of everything that was there; what R reports is true; a call that cannot succeed leaves no files |
| **table handles** (`rs/table.rs`, `R/table.R`) | an immutable copy of table metadata | open, reload, exists, create, register; schema, partitions, snapshots, history, properties | a handle is a state the table was in, and a session does not read backwards |
| **runtime** (`rs/runtime.rs`) | the tokio runtime and the process that started it, R's interrupt flag, the deadline of an await | `block_on()` | a call comes back, an interrupt is reported once, the ceiling is one |
| **filter** (`rs/predicate.rs`, `R/filter.R`) | none: a tree built bottom up | translate, build | the scan keeps the rows for which R's expression is TRUE |
| **scan** (`rs/scan.rs`, `R/scan.R`) | the configured scan | scan, collect, plan | snapshot, schema, projection and filter agree |
| **batch reading** (`rs/arrow_bridge.rs`, `R/arrow-bridge.R`) | the stream, one batch pulled early | next, limit | each batch once and in order, an error is never a short table |
| **time travel** (`R/snapshots.R`, `rs/table.rs`) | the snapshot log and list | `as_of`, `snapshot_id` | the state the table was in at that time |
| **catalog** (`rs/catalog.rs`, `R/catalog.R`) | the connection and its storage | connect, namespaces, listings | R and Rust choose the same storage; which credentials travel in clear text, and to what; a walk over namespaces fails only by others |
| **errors and panics** (`rs/errors.rs`, `rs/panic.rs`) | the panic hook | scrub, report | a deliberate stop is not reported as a crash; of a text R shows every word but the secrets, by whichever way it comes |
| **R helpers** (`R/utils.R`) | none | checks, paths, names | names resolve one way |
| **package shell, build tools** | none | load, examples, vendoring | |

They interact through calls, in one direction, with four exceptions, which are
where the hard behaviour is:

* R's signal handler sets the interrupt flag while `block_on()` has R's thread;
* the catalog is shared: between the load and the swap inside a commit other
  engines commit, and a commit whose caller gave up may still be applied;
* an Arrow stream that Rust hands to R is pulled later, by C code, outside any
  call of this package;
* a handle is an external pointer inside an R value that a workspace image can
  save and another session restore, without what it pointed at.

Nothing is persisted by icebergr itself; what survives the death of an R
process is the catalog's and the warehouse's state.

## Modules

| module | models |
|---|---|
| `AppendLog` | the promise of `icebergr_append()`, as a log of commits and a status per call |
| `TableAppend` | `icebergr_append()` over `rs_table_append()`, handles, the commit of iceberg-rust, the catalog, other engines, sessions that die |
| `MCTableAppend` | its instance for TLC |
| `TableAppendProofs` | its theorems |
| `BlockOn` | `block_on()`, R's thread and interrupt flag, the ceiling, forks |
| `BlockOnProofs` | its theorems |
| `FilterTruth` | the predicates built for a filter, against R's and iceberg-rust's semantics |
| `FilePruning` | the same predicates asked of a file's statistics, and the files a plan lists; extends `FilterTruth` |
| `MCFilePruning` | the instance of both for TLC: a float, a decimal and a string column |
| `FilterProofs` | the theorems of both |
| `Literals` | the literal that a filter's value becomes, through JSON, for each type of column |
| `MCLiterals` | its instance for TLC: small doubles, floats, integers and calendars |
| `RoundTrip` | `align_batch()` and the way back: what an append writes, how it is read, and the filter built from it; extends `Literals` |
| `MCRoundTrip` | its instance for TLC: the numbers of `MCLiterals`, frames and tables of up to two columns |
| `RoundTripProofs` | the theorems of `RoundTrip` and `Literals` |
| `Registry` | namespaces and tables by name: creating, registering, asking, opening, over a shared catalog |
| `MCRegistry` | its instance for TLC |
| `RegistryProofs` | its theorems |
| `BatchReader` | a scan collected into a tibble: `BlockingBatchReader`, the panic hook, `collect_stream()` |
| `ErrorText` | `scrub()`: credentials in texts of others |
| `ErrorTextProofs` | its theorems |
| `Session` | an R session: connecting, handles, restored workspaces, the errors it shows, and the scans it collects; extends `BatchReader` and `ErrorText` |
| `SessionProofs` | the theorems of `BatchReader` and `Session` |
| `TimeTravel` | the snapshot and the schema of a scan, and what its names mean, over a table other engines change |
| `MCTimeTravel` | its instance for TLC |
| `TimeTravelProofs` | its theorems |

Operators marked `BUG:` are not part of a specification. Each is a mistake that
could be made in the definition after it; putting it in that definition's place
makes the property it was written for fail, which is how we know that the
property says something about the code.

### TableAppend

A handle (`RTable`) is a record of what an append depends on: the snapshots of
the main branch (`log`), whether the default partition spec has fields
(`parted`), and whether the metadata file's location is one iceberg-rust
cannot derive a successor from (`odd`). Snapshots are named for whoever
committed them.

| code | model |
|---|---|
| `write.R:307-361`, `write.rs:224-321` before the first await | `Refuse`, `AppendNothing`, `StartAppend`, one of them in one step: nothing of this waits or is seen by anyone else |
| the five kinds of await, `write.rs:355-378` | `pc` is `build`, `write`, `close` or one of `load`, `send`, `sent`, which are one await: the commit |
| `writer.write()` per slice | `WriteSlice`; `left` counts the slices |
| `tx.commit()` in iceberg-rust | `CommitLoad`, `CommitSend`, `CommitRetry`, `CommitConflict`, `CommitInvalid` |
| the catalog | `CatalogApply`, `CatalogRefuse`: a swap conditional on the main branch |
| `map_err(...)?` after an await | `Fail`, in any of them, the answer of the catalog being lost included |
| `block_on()` giving up | `GiveUp`. What the catalog was sent stays sent |
| `write.R:363-371` | `Return`: the handle, and the warning |
| `icebergr_table()`, `icebergr_reload()` | `Open` |
| other engines | `EngineAppend`, `EngineRepartition` |

`align_batch()`, the checks of `properties` and the schema conversion are one
Boolean of the input, `bad`: all of them refuse before the first await.
Other engines do not roll the table back and do not expire snapshots; under a
rollback `HandlesAreHistory` and `HandleNeverGoesBack` are not meant to hold.
`iceberg-rust` and the catalog are not in this repository: their actions are
modelled from what `write.rs` and its comments rely on.

### BlockOn

Time is a tick, a slice is `Poll` ticks and the ceiling `timeout` ticks, one of
`Timeouts`, not multiples of `Poll`; 0 disables it. It is chosen with each call,
since only R sets the environment variable. Each `#[extendr]` function is a sequence of up to
`MaxAwaits` awaits. The future may become ready at any moment or never. The
order within the loop is the code's: the output first, then the flag, then the
deadline. After a fork `owner # pid`: no worker makes the future ready and no
timer ends a slice, which is what `tokio_runtime()` guards against. A ceiling
of `ClockEnd` or more is one that `Instant` cannot be ahead by: adding it
panics before the first poll, and the call ends as an error (`Polls`).

Not in the model: the time R's thread spends outside slices, a future that
blocks its thread when polled, and an interrupt that arrives between the read
and the clearing of the flag (it is merged with the one being reported).

### FilterTruth

A tree is built from its leaves on a stack, one node per step. What a subtree
stands for is kept as its value on one row of the table, chosen in `Init`, so a
run covers every row; the two halves of the pair of `predicate.rs` are kept
with row selection off and on, next to R's own answer. R's answers
(`RCompare`, `RIn`, ...) are R's documented semantics; iceberg-rust's answers
(`IceCompare`, `is_in`, ...) are those `predicate.rs` records at 92-112, 169-192
and 345-366: floats in total order, outright answers for a column the file
lacks, and row selection that drops ordered decimal comparisons.
Conversion of literals and resolution of names happen before (they are
`Literals`' and `TimeTravel`'s); a prefix stands for the strings it begins.

### FilePruning

A file is a set of rows that share statistics: a data file, a row group or a
page. Each subtree carries, besides its halves on the filter's row, what
iceberg-rust's statistics evaluators say of the halves (`may`). Statistics are
what a sharp writer would keep of the rows: bounds of the values without NaNs and
with one zero, and whether there are nulls, NaNs or anything else; blunter ones
rule out less. A column the file lacks has none, and rules nothing out.

| code | model |
|---|---|
| the predicates of `predicate.rs`, each put to the statistics | `may_compare`, `may_miss`, `may_belong` and the other `may_` operators, built as their counterparts in `FilterTruth` are |
| `scan.rs`, the stream of a scan | `PScan`: a row is kept if its file is read and the row filter keeps it |
| `rs_scan_plan()` | `Plan`: the file is listed if the filter may match |

Which of several evaluators (manifest, row group, page) sees which statistics is
iceberg-rust's; a predicate that is right for every set of rows is right for each.
Bounds that a writer cut short (long strings) and `may` answers that are blunter
than the statistics allow are not modelled, since they only keep more.

### Literals

One comparison, from the value in R to a literal or a refusal.

| code | model |
|---|---|
| `json_scalar()` | `written` and `RefuseValue`, `json_scalar` and `Encode` |
| `iso_utc()` | `iso_utc`: the nearest microsecond, an even one between two |
| `datum()` | `datum`, a set of at most one literal (two where a float is between two), and `Build` or, if it is empty, `RefuseLiteral` |
| its closures and helpers | `as_i64`, `as_f64`, `decimal_places`, `rescale_decimal`, `decimal`, `instant`, `nanos` |

Numbers are whole numbers of ticks, so that fractions, places and rounding are
exact; `Doubles` and `Singles` are the representable ones. A double is taken
for its shortest spelling, which is what the decimal branch reads it as. A
string is not spelt out: it is what its parsers would find (`Texts`). Left
out: `uuid`, overflow of a 32-bit float (a literal past the largest is
infinite), negative zero (`FilterTruth` has it). `LiteralIsTheValue` compares
numbers with numbers; what R's own coercion makes of a string against a number
is not looked at, and neither is a raw number against a date or an instant, which
`datum()` takes for the stored integer.

### RoundTrip

| code | model |
|---|---|
| `align_batch()` | `repeated`, `unexpected`, `missing`, `column`, `aligned`; `Align` or `RefuseData` |
| `arrow_cast` with `safe: false` | `cast` over `arrow_cast`, external |
| `collect_stream()`, `int64_ptype()` | `convert`, `Read`: the R value of a cell, with `bit64` or without |
| a filter on the column it was read from | the actions of `Literals` |

A data frame is one row, since a column is cast cell by cell and refused for any
of its cells. arrow_cast is kept open where it is not this repository's to say: a
number between two cells may become either. The least integer of each width reads
as `NA`, as its bits are R's.

### Registry

Namespaces and tables are two maps from names, sequences of levels, to whoever
made the entry. An await is one step: the catalog's answer and what R's loop does
with it.

| code | model |
|---|---|
| `as_namespace()`, `parse_identifier()` | the same, from a spelling already split at its dots |
| `write.R:17-35` | `BeginNamespace`, `ParentExists`, `ParentMissing`, `CreateParent`, `CreateNamespace`; `level` is `i` |
| `icebergr_create_table()`, `icebergr_register_table()` | `BeginTable`, `BeginRegister`, `CreateTable`; a registered file is inside the warehouse, elsewhere, or nowhere (`may_register`) |
| `icebergr_table_exists()`, `icebergr_table()` | `TableExists`, `OpenTable` |
| the catalog says no | `Refused` |
| any other error of an await, `block_on()` giving up, the death of R | `Break`; the request goes to `late`, from where it arrives (`Arrive`) or does not (`Vanish`) |
| other engines | `EngineMakes`, `EngineDrops` (a namespace only when it is empty) |

Catalogs are modelled from what `write.R:21-25` and `table.rs:195-201` say of
them: a parent has to exist, an entry that is there is not made again, and a missing
namespace is told apart from other errors. Listings, schemas and locations are left
out; what is in a table is `TableAppend`'s. Other engines make and drop what R can
name (`Paths`): a level of theirs with a dot in it, or none at all, is in no name
that a call here sends.

`lost` is a ghost: of each walk, the levels that it was past when another engine
dropped them. `WalkRefusedByOthers` asks of a missing parent that it is one of
these; that it was dropped at some time would be true of one dropped before the
walk looked.

### BatchReader

A row is its number in the scan, so a batch is an interval and `out` is what R
holds in `chunks`. A scan has any number of batches of any size up to the
bounds, chosen when it is collected; a batch may be empty.

| code | model |
|---|---|
| `scan.rs:147-162`, everything before the reader | `ScanFails`, `ScanStarts` |
| `BlockingBatchReader::new()` | `NewWithBatch`, `NewWithoutBatch`, `NewFails` |
| `get_next()` into `next()` into `next_batch()`, and the loop body around it | `PullPending`, `PullBatch`, `PullEnd`, `PullFails`, `PullPanics`: nothing else runs between a pull and the test of the limit |
| `limit = 0` | `CollectNothing` |
| binding and cutting the chunks | `Bind` |
| `panic::install()` | `hook`: whether the banner is printed |

The four causes are an R error before the scan starts (`refused`), an error of
`iceberg-rust` (`failed`), one of `block_on()`'s own aborts (`aborted`: an
interrupt, the ceiling, a fork; which of them and when is `BlockOn`'s) and any
other panic. With no limit nanoarrow pulls the stream to its end; it is the
same loop with `Wants` always true. R checks interrupts of its own between
pulls; that ends the call with no result, and is not modelled.

### ErrorText and Session

A text is a sequence of marks: words, keys (words that name a credential),
separators, quotes, spaces, `://`. `scrub_userinfo` and `scrub_params` cut what the
code's two scanners cut. `Texts` are built from pieces of which it is known what R
may show; `Session` uses them as the errors a catalog answers with, and one of them
(`Echoes`) as what a storage, a stream or a panic quotes.

| code | model |
|---|---|
| `properties_from_env()`, `uses_object_storage()`, `check_credential_transport()` | the same, over properties whose value is where they come from (`own`, `ambient`) or how they travel (`http`, `https`) |
| what the clients of a connection do with its properties | `Sent`: the token or the credential to a REST catalog, the credential to its OAuth2 server, S3's keys to the S3 endpoint and to Glue |
| `rs_catalog_connect()`, `resolve_storage()` | the same, to the storage that is built |
| `icebergr_catalog()` | `Connect`; `Loaded` or `LoadFails` when the catalog has answered |
| `icebergr_namespaces()` and the other calls on a catalog | `Lists`, `ListFails` |
| `icebergr_table()`, `icebergr_scan()`, `icebergr_collect()` | the same; a collection goes on as the actions of `BatchReader` (`Goes`) |
| `check_catalog()`, `check_table()`, `check_scan()` | the same, over `check_live_ptr` |
| `ctx()`, `config_err()` | `Told` with the scrubbed text |
| an error in the middle of a scan (`arrow_bridge.rs:88-91`) | `StreamFails`: `PullFails`, and the text as it is (`Verbatim`) |
| an abort, a panic (`arrow_bridge.rs:117-129`, or extendr's own) | `Breaks`: `ScanFails`, `NewFails` or `PullPanics`, and the text as it is |
| quitting R, and restoring its workspace | `Restart`: handles that were live are dead |

A connection is a property map while it is made and a handle afterwards. R calls
are one at a time; `Restart` may come in the middle of any. `told` is the last error:
the way it came by, what R says, and what it should say. `null` is the fault that
`check_live_ptr()` is there to exclude: Rust was handed a pointer that is gone.

Two known differences are written into the model as the code has them: a
warehouse that is `s3://` and nothing else is object storage to R's pattern and
no location to Rust's, and a blank `uri` is taken for none. Folded into others: S3's
secret key and session token go with the access key ID, from ICEBERGR's variables and
from AWS's, and a `header.` property that holds a secret is the token. A loopback
address counts as `https`, since nothing leaves the machine. Left out: scopes and
regions, which are neither a secret nor an endpoint, quotes of two kinds in one text,
and `://` inside an authority.

### TimeTravel

The state is a table's metadata: the listed snapshots with the schema each
names, the snapshot log, the current snapshot and schema. Its actions are other
engines (and icebergr's own append, as `Commit`), modelled from what
`table.rs:99-112` and `443-455` say of them: a rollback appends to the log, a branch
does not, a schema may change without a commit, a writer's clock may be off, an
expired snapshot takes the log up to its last entry with it. A scan is built
and collected on one handle, so reading is no action: `snapshot_as_of`,
`table_columns`, `column_index` and the others are operators over the state, and
the properties quantify over every scan R can build in it. A schema maps names
to fields, `lower` is `tolower()`, and `reference` of a name that is no column
has every answer iceberg-rust's index may give. Nested names and the deletion of
an expired snapshot's data files are left out: a handle opened before an expiry
may find its files gone.

## Runs

| run | instance | shows |
|---|---|---|
| `append_safety` | 2 sessions, 2 appends, 2 other commits, catalog kind `glue`, up to 2 slices, 2 retries | no commit is lost, doubled, half there or reported wrongly; refused calls leave nothing; refinement of `AppendLog` |
| `append_ends` | 2 sessions, 2 appends, 1 other commit, kind `rest`, 1 slice, 1 retry | every call ends |
| `append_failed` | 1 session, 1 append | violation: a call that reported failure is in the history |
| `append_partitioned` | 1 session, 1 append | violation: a repartitioned table refuses at the commit, after the upload |
| `await_ceiling` | `Poll` 2, ceilings 3, none and one past the clock, 2 awaits, 2 interrupts | interrupts once, ceiling kept, calls with one return, after a fork too, and Ctrl-C ends those without |
| `await_short` | 3 awaits, 1 interrupt | violation: a call of short awaits runs to its end with the interrupt pending |
| `batch_reader` | `Session`: scans of up to 3 batches and 4 rows, limits 0, 1, 2, 3, 5 and none; every type of catalog, storage, location, environment and build; texts of up to 3 pieces | a tibble is exactly the rows asked for; its schema is the batches'; no pull too many; trouble is an error that says so; no handle of a dead session reaches Rust; R and Rust agree on where ambient keys go; no credential goes out in clear text but S3's keys to an S3 endpoint; no error shows one but those that come through the stream or of a panic |
| `literals` | tenths; ints to 3, longs to 15, doubles of two digits to 32, floats of one; decimals of 2 digits at scales 0 to 2; 4 microseconds in a second, 2 nanoseconds in one; `RoundTrip`: one column of every type, or up to two of integers | the literal is the value, or no cell could equal it; an append writes what it was given; a value read from a table finds its cell again |
| `literals_in_r` | `Literals` alone, the same numbers | violation: a float column compares otherwise than in R |
| `time_travel` | columns `id`, `ID`, `b` in 3 schemas, names `id`, `ID`, `iD`, `b`, 2 snapshots, 4 log entries, 3 times, clocks right or one tick slow | `as_of` is the table's history, and moves forward; R, Rust and iceberg-rust agree on the schema and on each name |
| `registry` | 2 sessions, 2 calls, 1 entry by another engine, names of up to 3 levels, one of them written with two dots | a walk fails only for what another did; what a call reports is so; what was made can be named |
| `filter_truth` | `FilePruning`: 3 columns, values -1.0, -0.0, 0.0, 1.0 and one of each other type, 2 waiting subtrees, files of 1 row or of 2 that differ in a column | both halves exact, and the scan keeps R's rows; statistics rule out no half that matches; a plan lists every file with a row R wants |

Why the bounds are enough. Two appends and two foreign commits are what it
takes for a refused swap, a second refusal, and a call that is given up on and
lands between two steps of another; two slices separate the first, the last and
the only one; with two retries a call can run out of them (three refusals need
three commits by others: two engines and the other append). The liveness run
needs less data, since no action but the loop over retries repeats. In
`BlockOn` two awaits make one that follows another, and a ceiling that falls
inside a slice shows the slack. In `FilterTruth` the stack of two is enough for
any node over any pair of subtrees; depth is unbounded, because a finished
subtree is one value. Three batches make a first that was pulled early, a last,
and one between them, and the limits fall before, on, within and after their
ends. Two snapshots and four entries of the log are a rollback over a commit and
one forward again, or a branch or an expiry besides; two snapshots and a current
schema may have three schemas among them, and four names
are a column, its twin by case, one that is like both and another. In `Literals`
doubles go past the longs, the largest long is no double, floats are sparser
than doubles, clocks end before the longs and nanoseconds before the clock: each
limit of the code is passed from both sides, in the code's order of size.
In `Registry` a name of three levels has two parents, of which one may be there, be
made by the other call or be dropped between two steps of the walk, and two
calls are what it takes for two to make the same thing.
In `FilePruning` two rows that differ in one column make bounds that are apart,
bounds that meet, a null or a NaN besides a value, and a row that is not the
filter's; a statistic of more rows is a combination of these. In `RoundTrip` two
columns are what it takes for a name to be missing, unexpected, repeated or out of
order, and for a required null beside a good cell. In `Session` a catalog is
connected to when there are no handles or those of a dead session that had come to
a scan, and `ListFails` is the first call that fails: both only name what a longer
session would do again. Three pieces of text are a secret between two others; where
the text is only passed on (`Echoes`), one piece with a secret in it is enough.
`CHECK_DEADLOCK FALSE` is given to `filter_truth` and the runs of `Literals`, where a
filter is built, the scan runs, and that is the end, and to `registry`, where the
calls run out. Symmetry (sessions, calls) is used in the safety runs of
`TableAppend` and `Registry` only.

### Fairness

* `TableAppend!Fairness`: each await is in the end given up on. That is the
  ceiling of `block_on()`, on by default; nothing is assumed of the catalog, the
  storage or the user. It is per await, not per call: the commit is one await,
  so its inner loop of load, send and retry does not restart the clock.
* `BlockOn!FairSpec`: R's thread runs and time passes. Nothing is assumed of
  the future, the workers or the user.

### Findings

* `append_failed`: `vignettes/writing.Rmd:119-121` says an append fails with
  nothing having happened. An interrupt or the ceiling during the commit, or an
  answer that is lost, is an error in R for rows that are in the table. A user
  who repeats the call then appends them twice. `ReportsAreTrue` is what does
  hold: an error before the commit went out means the rows are not there.
* `append_partitioned`: `vignettes/writing.Rmd:178-179` says the partition spec
  is checked first and nothing is written. It is the spec of the handle; the
  commit checks that of the table it loads.
* `await_short`: `NEWS.md:151` says Ctrl-C interrupts a blocking call. The flag
  is looked at between slices, so a call whose awaits each end within 200 ms,
  such as a large append to a fast store, does not see it. The interrupt is not
  lost (`EachInterruptOnce`): R raises it when the call has returned.
* `literals_in_r`: `R/scan.R:55-56` says a filter keeps the rows R's own evaluation
  would keep. The literal for a float column is rounded to 32 bits
  (`predicate.rs:602`), so `x == 0.1` keeps the cells nearest 0.1, for which R
  says `FALSE`. A `Date` with a fraction is cut to its day in the same way.

Two promises hold but for a case that the property of `batch_reader` names, and so
have no run of their own:

* `R/catalog.R:250` says a credential is never sent over an unencrypted connection,
  and `vignettes/catalog-configuration.Rmd:59` that nothing goes out unencrypted.
  `check_credential_transport()` looks at `uri` and `oauth2-server-uri`
  (`R/catalog.R:168`), the two that both paragraphs go on to name, and not at
  `s3.endpoint` (`ICEBERGR_S3_ENDPOINT`, `R/catalog.R:18`, or `...`). With an
  `http://` one S3's access key ID and session token go out in clear text: that is
  the exception of `OnlyS3KeysInClear`, and without it TLC finds the property
  violated by such a connection.
* `errors.rs:153-161` and `NEWS.md:131` say that an error no longer shows a
  credential that an upstream message quotes. An error of a scan's first batch goes
  through `ctx()` (`arrow_bridge.rs:71`); that of a later one is handed to the C
  stream as it is (`arrow_bridge.rs:91`), and a panic's text is passed on as it is
  (`arrow_bridge.rs:117-129`). These are the exceptions of
  `OnlyStreamsAndPanicsLeak`, and without either of them TLC finds it violated.

## Proofs

`TableAppendProofs` proves, for any sets of sessions, calls and other commits,
any number of slices and retries and both kinds of catalog, every safety
property of `append_safety`, and that `TableAppend` implements `AppendLog`. The
assumptions are `ConstantsAssumption`: calls, foreign commits and `Nobody` are
distinct, and the bounds are naturals.

The inductive invariant `IInv` says what the phases of a call imply. None of the
properties is inductive without it:

* `NetFits` ties what the catalog has of a call to where the call is, so that a
  call that ended as `aborted` has nothing at the catalog that could be applied;
* `FilesFit` ties the upload to the phase, and a handle the checks refuse to a
  call that never started;
* `LogFits`: the history holds each commit once, and those of the calls that
  were applied, and no other;
* `BasesFit`: a snapshot on its way is built on a branch the table went
  through, no older than the handle plus one commit for each refusal so far,
  which is what makes `ConflictsHaveACause` hold over retries;
* `ResultsFit`: what the catalog answered ends in the call's own snapshot and
  extends the handle the call was passed;
* `SessionsFit`: a session that is in a call is in a call of its own, on the
  handle it still holds: without it `HandleNeverGoesBack` could not be carried
  from the start of a call to its return;
* `WarnedFits`: the calls that warned are those that had nothing to append.

There is a lemma per part, a step per action; `LogGrows` and `BranchGrows` carry
what is known of an older branch over a commit. The refinement maps each step
of the protocol by what it does to the history and to the caller's knowledge:
`CatalogApply` and `EngineAppend` are `Land`, `Return` is `Acknowledge`, a call
that stops before its request went out is `Decline`, one that stops after is
`GiveUp`, and the rest stutter.

`FilterProofs` proves `HalvesAreExact` and `ScanKeepsTrueRows` for trees of
any size over any columns, values and rows. The invariant is exactness of every
subtree on the stack; each leaf is exact by cases on the cell and the literal,
and the connectives keep exactness.

It also proves that each half's answer from statistics is no
stricter than its answer on a row of the file (`RuledOutIsNoMatch`), for files of
any rows and trees of any size, and from it that a scan that leaves files out is
a scan that reads them all: `FilePruning` implements `FilterTruth`
(`StatisticsChangeNothing`), so that `HalvesAreExact` and `ScanKeepsTrueRows` carry
over and a plan misses no file (`PlanIsComplete`).

`SessionProofs` proves every property of `batch_reader`. Those about
a scan hold for scans and limits of any size: the invariant says that what R has,
followed by the batch held back, is exactly what the scan has handed out, and that
the schema was taken from a batch as soon as there is one. They carry over to a
session because a step of a session is a step of the reader, no step of it, or puts
it back to its beginning (`StepsOfTheReader`), so the reader's invariant survives a
session that ends at any moment. No sequence of calls and restarts hands Rust a
null pointer (`DeadHandlesStayInR`). `OnlyS3KeysInClear` and
`AmbientKeysFollowStorage` speak of the connection that is being made, which one
action makes and no other changes (`OnlyConnectConnects`), so they are inductive
alone; the content is in three lemmas. `Gathered` follows each property from where it
comes from through the two mergers to the connection: a value in clear text can
only be an endpoint's, and the machine's keys come from nowhere but AWS's
variables. `SentIs` says which credential a client sends to which endpoint, and of
these all but S3's own are those that were looked at. `StorageAgrees` compares R's reading of type, storage and warehouse
(`uses_object_storage()`) with what Rust resolves. `OnlyStreamsAndPanicsLeak` needs
the ways by which R is told of an error (`ErrorsComeByTheseWays`): through `ctx()`, as
an abort's own words, through the stream or of a panic; and of the first, what
`ErrorTextProofs` says of the text (`SaysRight`).

`ErrorTextProofs` proves what `scrub()` makes of texts in pieces. A text and another
after it are scrubbed as each is alone: for user infos if the first text's
authorities end in it (`UserinfoOfBoth`), and for the values of keys if none is still
to come or open at its end (`ParamsOfBoth`). So the texts that are shown as they
should be whatever comes after them (`Shows`) are closed under joining a piece
(`JoinedShown`), and what is left is what becomes of each piece alone:
`UserinfoShown` for a URL with any user info, a lemma for each form of a key and its
value. `TextsShown` says it of the texts of the model, which are up to three pieces
long; `JoinedShown` is the step to any number. `ValuesAreNested`, for texts of any
marks, is why `scrub_params()` may skip a cut that begins inside another. The marks
are a finite set here (`Marks`), those that the code tells apart.

`BlockOnProofs` proves the safety properties of `await_ceiling` for slices,
ceilings and clocks of any length and calls of any number of awaits. The
invariant compares, in a slice, the clocks with the age of the slice, and between
slices with its length: that is what makes the slack of the ceiling and the time
to an interrupt one slice. `TicksAssumption` asks the horizon, where the model's
clocks stop, to be past every ceiling that can run out.

`RegistryProofs` proves, for any sessions, calls, engines and names of any
length, that walks fail only by others, that what R is told is so and that what is
made can be named again. Its
invariant: a call is new, runs, and ends once (`Moves`); all it has made is below
the level it has come to (`MadeFit`), or it broke off and what it sent may be late
(`LateFit`); what is below is in the catalog or was lost to that walk (`ParentsFit`); the
catalog holds the last maker of each name (`EntriesFit`). Every step is shown to
add only what fits (`StepFits`). That a name without its empty levels has none, and
is the name itself if it had none (`WithoutBlanks`), is induction over the name:
`without_blanks` is a recursive function, which is first shown to exist
(`CutAll`), and each induction is by a least counterexample (`LeastOf`, from the
well-foundedness of the naturals). With it no level of anything in the catalog is
blank, and `NamespacesCanBeNamed` follows.

`RoundTripProofs` proves all four properties of `literals`, for integers, dates and
clocks of any width, decimals of any precision, any set of doubles and floats, and
frames and tables of any number of columns. The states are few and the invariant says
what each is a function of: a literal is one that `datum()` makes of the value's
JSON (`LiteralFits`), cells are what was cast from the column of their name
(`CellsFit`), and a value that was read was read from a cell that its column's type
can hold (`ReadFits`). The rest is arithmetic: cancellation and division with rest
(`Cancel`, `Divided`), that rounding to a multiple is no further off than half of it
and gives back a number that was near one (`RoundedIsNear`, `RoundedBack`), that a
decimal keeps its number when it is rescaled (`Rescaled`). For frames the lemma is
that as many distinct names, all of them the table's, are the table's names
(`NamesAgree`). The assumptions are those of `Literals` (powers of ten, the least and
the greatest of each width, a calendar and a clock that fit them) and `CellsAssumption`: a
table names each column once, a double holds every 32-bit integer, what is
missing or infinite is no number.

Two parts of the model were found wrong or loose by the attempt to prove them.
`Unit` had two cases for `timestamp_ns`, of which TLA+ may take either; and the
excuse that `CellsFilterToThemselves` has for a refused nanosecond was that R cannot
tell the instant, while for `timestamptz_ns` the code refuses for another reason:
what it rounds to microseconds is past the nanoseconds of 64 bits.

`TimeTravelProofs` proves every property of `time_travel` for any
schemas, names, clocks and numbers of snapshots. That the log has a last
eligible entry is carried in the invariant (`LogHasLast`) instead of proved by
induction: an appended entry is last if it is eligible, and a shortened log keeps
the last entry it had or has none. `AsOfIsHistory` is inductive with it,
`LogInThePast` and `WasNow`, the ghost's present. The agreement of schemas
(`OneSchemaPerScan`) and of names follows from the types and from a pinned
snapshot being listed (`PinsAreKnown`). The assumptions are `TableAssumption` and
`SchemasAssumption`.

Left to TLC: the liveness properties (`EveryCallEnds`, `CallReturns`,
`InterruptEndsAwait`), which need fairness and `ENABLED`. Every other property of a
passing run is a theorem. The provers have no induction over data either, since the
library's induction theorems take an operator; where a proof needs it, for the
recursions of `without_blanks` and of `Without`, for places in a text and for spellings
of a number, it is by a least counterexample, and elsewhere invariants carry what an
induction would show (`LogHasLast`).

## Plan

What was planned is done, in this order: `TableAppend`, `BlockOn`, `FilterTruth`,
`BatchReader`, `TimeTravel`, `Literals`, `Registry`, then the statistics
(`FilePruning`), the casts (`RoundTrip`), the connection, the errors and the dead
handles (`ErrorText`, `Session`), and the proofs of `BlockOn`, `FilePruning`, `Session`,
`Registry`, `RoundTrip` and `ErrorText`. What is left, by what it would add:

1. The conversion of a data frame's types to a table's schema
   (`icebergr_create_table()`), which `RoundTrip` could put before `Align`.
2. A specification of what a secret is in a text that does not go by pieces.
3. Liveness of `TableAppend` with more retries, and proofs of liveness, when the
   provers allow it.

## Not modelled

* Rendering: the text of messages (what of it is secret is modelled), types,
  schemas, tables, snapshots and histories as R prints or lists them.
* Environment variables that pick a number, apart from the ceiling.
* The Arrow and Parquet formats, memory and pointers across the C interface,
  apart from whether a handle's pointer is alive.
* The REST and Glue clients of iceberg-rust, and its storage drivers.
* Checks of arguments and of summary keys, which refuse before anything happens
  and are one Boolean where they matter (`bad` in `TableAppend`).
* UUID literals, and a double past the range of a 32-bit float.
* The package's loading, its table of supported features, generated wrappers,
  examples, documentation and build scripts: no state, or none that the rest
  depends on.

`PROJECT.json` lists every part with its status.
