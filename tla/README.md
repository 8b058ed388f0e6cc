# Verification of maxminddb-polars

TLA+ specifications of `maxminddb-polars`, the Polars plugin that looks up IP
addresses in MaxMind DB (MMDB) files. TLC checks them on small instances. For
every instance, TLAPS proves their safety properties: those of the snapshot
cache, of whole evaluations, of scalar lookups, of lookups of records and nested
values, of the known databases' tables and structs, of the stack of schemas and
of the release script. Paths such as `src/cache.rs` are relative to the
repository.

## The system

An expression is built in Python, planned and run by Polars in native code:

1. `lookup` and `lookup_path` (`maxminddb_polars/_api.py`) resolve the file's
   path, ask the plugin for the file's *identity* (path, size, times, file
   number) and put it into the expression with the path, the dtype and `strict`.
2. Polars calls the output dtype function (`src/lib.rs`), possibly on another
   thread and much later. It gets a *snapshot* (a parsed `Reader` over the
   file's bytes) from `reader_for` (`src/cache.rs`) and resolves the dtype
   (`src/schema.rs`).
3. Polars runs the expression on its columns. The plugin gets the snapshot
   again, resolves the dtype again, looks up the rows and decodes what it finds
   (`src/lookup.rs`, `src/value.rs`, `src/known.rs`).

### Inventory

| Component (code) | State | Operations | What makes it correct |
| --- | --- | --- | --- |
| Reader cache (`cache.rs`) | map of snapshots, queue of identities, byte count, the limit read once, an `RwLock` | `reader_for`, `insert`, `cache_max_bytes` | map, queue and byte count agree; the newest snapshot stays and the oldest go first; no lookup breaks the lock for others; every call returns |
| Snapshot opening (`cache.rs`) | none of its own; the file system | `open_snapshot`, `identity_for_path` | a snapshot is the whole content of the generation its identity names, or the call fails |
| Expression construction (`_api.py`, `lib.rs`) | none | `_database_identity`, `_normalize_path`, `database_identity` | the identity is one the file really had |
| Planning and running (`lib.rs`, `lookup.rs`) | none that is kept between calls | `lookup_path_output`, `lookup_output`, `mmdb_lookup_path`, `mmdb_lookup` | all batches are of the generation and the dtype that was planned |
| Scalar batch lookup (`lookup.rs`) | per call: records by offset, tasks, chunks | `lookup_batch`, `scalar_input_tasks`, `decode_scalar_chunks_parallel` | both paths answer row by row, in order; an error is a row's own |
| Records and nested values (`lookup.rs`) | per call: decoded values, columns | `lookup_record_series`, `decode_nested_path_values`, `decode_projection_series`, `decoded_values_to_series`, `assemble_projection_series` | by columns or by rows is the same; the output has the planned dtype |
| Stack of schemas (`value.rs`) | a thread-local stack | `with_projected_schema`, its guard, `ProjectedValue::deserialize` | each value is decoded by the schema of its own leaf, and a panic leaves nothing behind |
| Value decoding (`value.rs`, `decode_leaf`) | none | `SchemaSeed`, `default_value`, `values_to_series`; serde's primitive types | what decoding accepts, the column builder accepts; data of the dtype comes out the same by every decoder |
| Schema resolution (`schema.rs`) | none | `resolve_path_dtype`, `resolve_record_dtype`, `validate_partial_schema`, `to_mmdb_path` | what planning accepts, known data decodes under |
| Known records (`known.rs`, tables of `schema.rs`) | none | `decode_known` and a conversion for each struct, `known_schema`, `from_database_type` | the structs, the schemas and the paths agree on every field |
| Panic guard (`guard.rs`) | none | `catch_mmdb_unwind` | a parser's panic is an error of one call |
| Release helper (`dev-bin/release.sh`) | a git tree, a remote | checks, commit, push, release | what was validated is what is released |

They interact by calls, except for two things that are shared: the cache, by
all threads of the process, and the files, by all programs of the machine. The
hard behaviours are there: a file that changes between the moments its identity
is taken, compared, read and compared again; threads that miss the same
snapshot together; a panic or an error while the lock is held; an eviction
between planning and running. Within a call it is Rayon: tasks that finish in
any order, fail or panic; and serde, which takes no parameter, so that a schema
reaches it through a thread's stack. The release script works on a repository
that others change, and may stop at any command. `hazards` in `PROJECT.json` lists each at its line.

## Modules

| Module | Models | Uses |
| --- | --- | --- |
| `DatabaseFiles` | the file system and `identity_for_path` | |
| `ReaderCache` | `struct ReaderCache` and the pieces of `insert` | |
| `SharedReaders` | `reader_for` and `open_snapshot` by many threads, expression construction | `DatabaseFiles`, `ReaderCache` |
| `SnapshotService` | abstract: what the cache promises | refined by `SharedReaders` |
| `SharedReadersProofs` | theorems about `SharedReaders`, and that it refines `SnapshotService` | |
| `Evaluations` | planning and running of expressions, each with a `reader_for` of its own | `SharedReaders` |
| `EvaluationsProofs` | theorems about `Evaluations` | `SharedReadersProofs` |
| `BatchLookup` | the scalar half of `lookup_path_series`, serial and parallel | |
| `RowLookup` | abstract: what a scalar lookup promises | refined by `BatchLookup` |
| `BatchLookupProofs` | theorems about `BatchLookup`, and that it refines `RowLookup` | |
| `ProjectedSchemas` | the stack of schemas of `value.rs` | |
| `ProjectedSchemasProofs` | theorems about it | |
| `ValueDecoding` | `value.rs`, and serde's reading of scalars, as operators | |
| `SchemaResolution` | `schema.rs`, as operators | `ValueDecoding` |
| `DecodingProofs` | theorems about the operators of both | |
| `NestedLookup` | `lookup`, and `lookup_path` to Lists and Structs, from planning to the column | `SchemaResolution` |
| `NestedLookupProofs` | theorems about it | `DecodingProofs` |
| `KnownSchemas` | the tables of `schema.rs` | `SchemaResolution` |
| `KnownRecords` | `known.rs`, and a record of a known database from type to cell | `KnownSchemas` |
| `KnownRecordsProofs` | theorems about both | `DecodingProofs` |
| `ReleaseHelper` | `dev-bin/release.sh` among others who use the repository | |
| `ReleaseHelperProofs` | theorems about it | |
| `MC...` | small instances; `ProjectedSchemas` and `ReleaseHelper` need none | |

### SharedReaders

Each thread has a program counter `pc`; its labels are the places of
`reader_for` and `open_snapshot` between which another thread or another
program can do something that matters:

| Action | Code |
| --- | --- |
| `Probe` | the read lock and the first `get` (one map access, which no writer overlaps) |
| `Acquire` | the write lock and the second `get` |
| `CanonicalizePath`, `CheckBefore`, `OpenFile`, `ReadRest`, `CheckAfter` | the system calls of `open_snapshot`; `fs::read` is an open and two reads |
| `ParseSnapshot` | `Reader::from_source` under `catch_mmdb_unwind` |
| `InsertReader`, `EvictReader`, `FinishInsert` | `cache_max_bytes()?`, and `insert` with its loop, one iteration a step |
| `ResolveDatabase`, `IdentifyDatabase` | `_database_identity`, which also resolves first and stats later |
| `ChangeFiles`, `SetLimit` | other programs; `os.environ` |
| `Call`, `Finish` | planning or running an expression; its snapshot is dropped |

Each system call may fail while the file is as it was, for want of file
descriptors or permission or because of the disk (`FailIo`, error `"io"`): so
may the resolution of the path in Python, after which nothing has happened, and
the identity asked for there (`IdentifyDatabase` without an expression). An
error releases the lock with the return, as the guard's drop does; an
uncaught panic would poison it (`ReleaseUnwinding`), which `CatchUnwind` makes
unreachable. The two `break`s of the eviction loop (`StopEvicting`) are in the
model and are unreachable too: that is part of the proof.

Snapshots are their contents. A change time is the number of the write that set
it, so that `Truth(id)`, the content an identity was taken for, can be looked
up in the history `writes`.

*Assumptions about the files.* Every write gets a change time of its own. That
is what docs/api.md says of Unix; elsewhere it holds for atomic replacement
only, which is `InPlaceRewrites = FALSE`. The modification time can be put back
by whoever writes, and so cannot help in the worst case: it is left out. File
numbers are reused once no path and no open file has them. A path may become a
way through a link, but is not moved back afterwards: `open_snapshot` takes the
identity, reads and takes the identity again by path, and a program that moves
another directory in for the read alone is noticed by none of the three. The
code cannot tell, and docs/api.md promises nothing about it.

### Evaluations

A query is an expression: the identity it was built with (`database`), the dtype
Polars was told for it (`planned`), and the batches that came out (`outputs`).
`BuildQuery` is `lookup` or `lookup_path` returning. `Plan` is a call of
`output_dtype` or `record_output_dtype`, `RunBatch` one of `lookup_path_series`
or `lookup_record_series`; each begins with a `Call` of `SharedReaders`, goes
through its steps with those of other threads and programs between, and ends
with the dtype resolved from the snapshot it got (`FinishPlan`, `FinishBatch`).
A query may be planned again at any time, and be run in many batches, also side
by side. `DtypeOf` stands for the resolution, which is a function of the file
and of the request. What a call does with its snapshot, and how that can fail,
is in `BatchLookup` and `NestedLookup`.

### BatchLookup

`Dispatch` chooses the path. The serial one takes a row a step (`LookupRow`),
keeping each record found once, and then decodes the records and gathers
(`DecodeScalarValues`). The parallel one cuts the column (`CutSlice`,
`NextArray`: one turn of each of the two loops), starts the tasks, and Rayon's
workers claim and run them (`ClaimTask`, `RunTask`) until `JoinTasks` returns
an error, or the first chunk, to which the others are appended (`AppendChunk`,
`ReturnColumn`).
Rayon is external: a worker may take any task; once an error was saved or a
task panicked, the tasks nobody has begun may be skipped or run; any of the
saved errors may be the one returned; a panic goes over to the caller, where
`guard_mmdb_operation` makes an error of it. What `Reader::lookup` and
`decode_path` give for an address is a function, with errors and panics among
its values. A task is the interval of rows it holds: its slices are adjacent.
`Collected` is the set of errors from which `collect` may take the one it
returns: the panic if there was one, which passes by `collect`, else all saved.

Left out: `decode_scalar_chunks_parallel` on an empty column and "returned no
output chunks", which a column of 8192 rows or more cannot reach.

### NestedLookup, SchemaResolution, ValueDecoding

A call is chosen at the start with the schema known for its database and the
result of `lookup_batch` (the records found and the index of each row's). It is
planned (`Plan`), dispatched (`Execute`) and decoded: `DecodeLeaf` is a turn of
the loop of `decode_projection_series`, `SplitLeaf` one of
`decoded_values_to_series`, and `AssembleColumns` the final recursion. A scalar
is its kind and the bits it needs, which is what the range checks see.

Scalars are decoded in three ways (`Ways`), and the code has a use for each:

| Way | Scalars | Lists | Used for |
| --- | --- | --- | --- |
| `"seed"` | `SchemaSeed`: the data's own kind, checked by `validate_scalar` (`ValidScalar`) | the same, item by item | `decode_nested_path_values` |
| `"leaves"` | serde's `Deserialize` of `u16`, `f64`, `&str` and so on (`Reads`, `Converted`) | `SchemaSeed` | `decode_leaf`, and `decode_path` to a scalar (`DecodeScalars`) |
| `"struct"` | serde's | serde's | maxminddb's structs (`DecodeKnown`) |

serde takes integers of any type for each other if they fit, but 128 bits only
for 128 bits; integers and floats for floats, which it rounds (`Rounded`, by the
digits of the significand); binary data that is UTF-8 for a string, and a string
for binary. `validate_scalar` takes unsigned for unsigned and signed for signed,
128 bits too, and a Float32 for a Float64. Data that both take is data that
*keeps to* the dtype (`KeepingTo`); all three ways make the same of it (theorem
`WaysAgree`). Of other data a column is what the call's own decoder
(`WayOfCall`) makes of the whole value, and the same record may be refused or
not by how it is asked for: see "Where the documentation and the code differ".

That maxminddb's struct and the conversion back from it come to the same as
decoding into the schema's fields by serde is what `KnownRecords` is about
(theorem `StructsDecodeAlike`).

What the code does by recursion over a dtype is a recursive function of it:
`Decodable[d][way]` is the set of values that a decoder accepts, `Decoded[d][way]`
what it makes of each, `Buildable[d]` and `Cell[d]` the same for `values_to_series`,
`PartialSchemas[d]` the dtypes that `validate_partial_schema` accepts,
`Leaves[d]` the list of `flatten_projection`, and `Assemble(...)[d]` the columns
of `assemble_projection_series`. What it does along a path or along a Struct's
fields is a function of the position (`DtypesAlong`, `ValuesAlong`, `Gather`).
`Dtype` and `Value` have everything up to the nesting depth `MaxDepth`.

A Struct without fields is accepted by the code, in Python and in Rust, and
asks nothing of the record: `decode_projection_series` has no leaf in it, and so
does not notice that the record has, say, a string there, which decoding the
record whole would. The properties that compare the two ways say so
(`AsksOfRecords`); such dtypes are otherwise like any other.

serde and maxminddb are external: `Reads` and `Converted` are from what serde
documents of its primitive types, and from maxminddb's deserializer handing each
scalar to a visitor as the type it is stored in, whatever type was asked for.

Left out: duplicate names in a map or a Struct, an array in the place of one of
maxminddb's structs (which serde would fill by position), resource limits of the
decoder, the check that there is one String column. MMDB has no null and no
signed type but int32; the model has all the types of `Value`.

### ProjectedSchemas

Threads call `decode_nested_path_values`, with one schema, or
`decode_projection_series`, with the schema of each leaf in turn. `PushSchema`
is the first half of `with_projected_schema`; `DecodeProjectedPath` is one
record, for which serde reads the top of the stack, or does not come to it
because the path is absent, or fails or panics; `LeaveSchema` is the guard's
drop, which also happens while the thread unwinds. A value is the schema it was
decoded by, which is all that can go wrong here. The stack is
`projected_schemas[ThreadLocal(t)]`; one stack for all threads is the mutant.
`MaxLeaves` and `MaxRecords` bound a call.

### KnownSchemas, KnownRecords

`KnownSchemas` has the tables, one definition for each function of `schema.rs`.
`KnownRecords` has the conversions of `known.rs`, one for each function. The
structs of maxminddb are external: `Member` is a field of one, found under its
own name or the one serde is told (`KeyOf`), and an absent struct or list is an
empty one. A record is taken from database type to cell: `Resolve`, then
`DecodeStruct` or `DecodeBySchema`, then `BuildCell`. Records keep to their
schema (`RecordsKeepToSchema`: `SchemaSeed` and serde accept them), though
anything in them may be missing, out of order, unknown, or a number of another
type that both take; a record that does not keep to it is `NestedLookup`'s subject, for the
ways of decoding that are the plugin's own. The tables need `MaxDepth` to be 4 or
more (`KnownSchemasFit`), and the provers need to be told that the names in them
are strings (`NamesAreStrings`).

### ReleaseHelper

Each command of the script that reads or writes the repository or the remote is
a step, and may fail, which ends the script (`set -e`). Between any two steps
others edit files, create one, stage, commit and switch to another branch. The
script may be run again from whatever is left. A tree is the version in
`Cargo.toml` and the two lock files, the rest of these files and the rest of the
repository. `verify_release_tree` is two steps (branch, HEAD and index; then the
files), since it is several commands. `checked` and `built` record what
`scripts/check` and `maturin` had before them, and `approved` the trees for
which the two agreed when the maintainer said yes.

*Assumptions.* Others do not put back what they changed, and only the script
writes the version: files that change and change back between two comparisons
are noticed by none. `scripts/check` and `maturin` see the files at one moment
each. One copy of the script runs at a time. That the remote has moved is among
the reasons for which `Push` may fail. The parent of the commit is not looked
at: the script compares its tree only. Version formats, the changelog's date and
the notes are left out, except that they may stop the script.

## Runs

| Run | Instance | Shows |
| --- | --- | --- |
| `generations` | 2 threads, 2 paths, 2 file numbers, 2 contents of one length and one that panics the parser, 2 writes, 3 calls | snapshots are faithful and failures justified while files are replaced, rewritten, deleted and linked, and system calls fail |
| `eviction` | 2 threads, 3 files of 1, 2 and 3 bytes, 6 calls, limits unset (3), malformed, 0, `usize` up to 5 | the bookkeeping of the cache |
| `service` | 2 threads, 1 path, 2 writes, 2 calls, fairness | calls return; `SharedReaders` implements `SnapshotService` |
| `rows` | 3 workers, columns of up to 5 rows in up to 3 physical chunks, tasks of 2 rows, parallel from 4, fairness | sharing, cutting, answering row by row; the call returns; `BatchLookup` implements `RowLookup` |
| `columns` | two known schemas, one of a Struct, a List of Structs and a List; 11 requested dtypes for records, 6 for paths, and 7 scalar types for a scalar and a List, by record and by path; 6 records, and 8 ways to store a scalar in 3 places of one; columns of up to 3 rows | decoding by columns |
| `projected_schemas` | 2 threads, 2 schemas, up to 2 leaves of up to 2 records | the stack serves each leaf its schema and is restored |
| `known_records` | all 22 known database types; of each a full record, the same in reverse order with an unknown field, one with its numbers in other types, an empty one, and the full one with any one entry or list item missing | structs, schemas and paths agree |
| `evaluations` | 2 queries, 2 threads, 2 files, of which one is replaced or rewritten and one more expression made, 4 calls, room for one snapshot, fairness | batches are as planned, plans agree, evaluations end |
| `release_helper` | 2 runs, 2 edits, up to 4 commits, 2 branches | what is published was validated |
| `mismatch` | the same as `columns` | *violated*: a scalar of another type than the dtype's is converted |
| `absent_list` | the same as `columns` | *violated*: an absent List is not null |
| `lowest_index` | the same as `columns`, with a 64-bit `usize` | *violated*: -2^63 is refused |

Why the bounds are enough. A torn or exchanged read takes one reader and one
write after the identity was taken, to the file or to another that the path then
leads to; a file number is used again by the second write if the file is deleted
in between, and two contents of one length then leave only the change time to
tell generations apart. A second thread and a third call meet a cache that the
first left. A double insertion takes two threads. Three
files of 1, 2 and 3 bytes make insertions that evict none, one and two, and the sum of all three is one
more than the `usize` of that run; six calls insert each twice. Three serial rows are the fewest in
which an earlier record is found again after another one, and two tasks and a
rest are cut from five rows, with
chunks that end within, at and beyond a task's end; three workers are the
fewest the code uses. `columns` has dtypes that reorder, omit, widen, narrow,
invent and nest fields, three levels deep (`MaxDepth`), numbers and bytes stored
as what each decoder takes, rounds or refuses for the dtype, every index around the ends of the lists, and `usize`
smaller than `i64` as on a 32-bit target. The sizes 8192 and 2048 are scaled to
4 and 2, `i64` to three bits. A second leaf and a second thread are what a schema
left on the stack, or shared, can do harm to. In `known_records` every scalar of
a full record has a number of its own, up to its width, so that two fields
exchanged are seen. Four calls plan two queries, plan the first again when its
snapshot is gone, and run it. Two runs of the script and two edits leave a
commit of a first run that failed, and a change on either side of a comparison.

The other bounds are named: `MaxDepth`, `MaxWrites`, `MaxCalls`, `MaxArrays`, `MaxRows`,
`MaxLeaves`, `MaxRecords`, `MaxRuns`, `MaxEdits`, `MaxCommits`. Where there are
theorems, they hold whatever the bounds are.

Symmetry is used for threads, for the two contents that parse and for paths;
never in a run that checks liveness. `eviction` and `evaluations` start from reachable
states in which files and expressions exist; the former leaves the files alone
from there, the latter neither deletes nor links them, which `generations`
does.

### Fairness

`SharedReaders`: weak fairness of each thread's next step within a call. The
operating system runs every thread; waiting for the lock needs no more than
that, because calls are finitely many in an execution of the model, so that
nobody is overtaken for ever. The code relies on the same: `RwLock` promises no
order. Files, expressions and new calls are under no obligation.
`BatchLookup`: weak fairness of the caller and of each worker, which are
threads of a running pool; a worker that has claimed a task runs it to an end,
be it an error or a panic. `Evaluations`: weak fairness of each thread's next
step within a plan or a batch, for the reason given for `SharedReaders`; nobody
is obliged to plan or to run anything. `ProjectedSchemas` and `ReleaseHelper`
state no fairness: a thread of the first waits for nobody, and the script may
stop for good at any command.

## Where the documentation and the code differ

* A scalar stored in another type than the requested dtype is not an error
  where it is decoded by serde's primitive types: as a field of a record, or at
  the end of a path (`decode_leaf`, `decode_path::<T>`). An int32 is taken for a
  UInt16, an integer for a Float64, a double is rounded to a Float32, bytes are
  taken for a String. docs/api.md promises "Corrupt data or custom dtype
  mismatch: Polars compute error", docs/custom-schemas.md that dtypes are checked
  while records are decoded; and for the same data in a List, or in a Struct
  at the end of a path, `validate_scalar` does fail. The other way round, a
  uint128 is refused for a narrower field by the first and taken by the second
  (run `mismatch`).
* `lookup_path` to a List that the record lacks returns an empty List.
  docs/api.md ("Path absent from a record or List index out of range: null
  output") and the docstring of `lookup_path` say null. Structs and scalars are
  null. `assemble_projection_series` applies the validity of the rows to
  Structs only, and the leaf has been given the default of a List
  (run `absent_list`).
* The index -2^63 passes `_normalize_path` and fails in `to_mmdb_path`, whose
  `checked_neg` has no result for it; the same sentence says null
  (run `lowest_index`).

## Proofs

All theorems are about every value of the constants, from the assumptions named
in the modules that declare them.

### SharedReaders

`SharedReadersProofs` proves, for any sets of threads, paths, files and
contents and any bounds:

| Theorem | States |
| --- | --- |
| `TypeCorrect` | `Spec => []TypeOK` |
| `Faithful` | `Spec => []SnapshotsFaithful` |
| `Indexed` | `Spec => []CacheIndexed` |
| `Bounded` | `Spec => []CacheBounded` |
| `EvictionInOrder` | `Spec => []OldestEvictedFirst` |
| `Accounted` | `Spec => []BytesAccounted` |
| `Justified` | `Spec => []FailuresJustified` |

All but `Accounted` follow from `Inductive`, that `IInv` is an invariant. The
argument:

* A file is the last write to its number (`FilesInv`), and an identity names a
  write, to its own path unless that path was a link already
  (`ExpressionsInv`).
* `SnapshotsFaithful` alone is not inductive: nothing in it says that the bytes
  a thread is about to insert are right. `ThreadInv` does. Between the two
  checks it is conditional: *if* the path still has the identity, the open file
  is that file and what was read is its content. A write falsifies the
  condition for good, since it takes a change time that no identity has, and
  the check after the read makes the condition a fact that no write to the
  files can undo.
* `FailuresJustified` allows a failure for the file, the operating system, the
  bytes or the limit. It needs that no other thread caches a snapshot after a call
  found its file changed (`ChangedInv`).
* `OldestEvictedFirst` and `CacheIndexed` need that the thread in the eviction
  loop has its own identity last in the queue (`ReadersInv`). With more than
  one snapshot cached, the head of the queue is then another's: the `break`s of
  the loop are dead code.
* The lock is held by the thread between its two ends and is not poisoned
  (`LockInv`); this is what makes a step of one thread leave the others' facts
  about the cache alone.

`Accounted` adds `BytesInv`. `insert` counts with `saturating_add` and
`saturating_sub`, so once the count has been cut off at `usize::MAX`, later
subtractions leave it too small. `BytesAccounted` says both: the count never
exceeds what the cached snapshots take up, and is exactly that as long as all
bytes ever inserted fit a `usize`. Inductive with it is that what is cached takes
up no more than what was inserted (`BytesInv`), since a step may not lead from a
sum that fits to a cached sum that does not. The sums are functions of the
position in the queue (`ChargeUpTo`); the lemmas about them say what appending
and taking off the head does, by induction on the position.

`Refinement` is that `Spec` implements
`Service!SafeSpec`: the initial state maps to the initial one, and every step
is a step of `SnapshotService` or a stutter. The refinement mapping reads an
answer off `pc`, `error` and `held`; that an answer is the generation asked for
is `Faithful`.

### Evaluations

`EvaluationsProofs` proves `BatchesMatchPlan` (`EvalSpec => []OutputsAsPlanned`)
and `PlansNeverChange` (`EvalSpec => PlansAgree`) from `EvaluationsInductive`,
that `IInv`, the invariant of `SharedReaders`, and `EvalInv` hold always. A step
of `EvalNext` is one of `SharedReaders` or leaves its variables alone, so that
`IInv` is known; what is new is that a thread that evaluates is in a call for
the query's identity (`TasksInv`), and that a plan is the dtype of the
generation that the identity names (`PlansInv`). `Faithful`'s invariant then
says of both calls that what they hold is that generation: though they share no
state that lasts, they cannot differ.

### BatchLookup

`BatchLookupProofs` proves, for columns of any length in any chunking, any
number of workers and any size of tasks:

| Theorem | States |
| --- | --- |
| `Typed` | `Spec => []TypeOK` |
| `OneDecodePerRecord` | `Spec => []RecordsShared` |
| `Covered` | `Spec => []TasksCoverColumn` |
| `RowByRow` | `Spec => []AnswersRowByRow` |
| `RowLookupImplemented` | `Spec => ImplementsSafeRowLookup` |

The parts of `IInv`:

* `SerialInv`: every record kept belongs to an earlier row, and `offsets` is the
  inverse of `unique`. So a row that finds its offset known gets its own record,
  and an error of a record that decodes badly is some row's error.
* `CutInv`: while the column is cut, the tasks so far are full and adjacent, and
  the open one ends where the cutting is, by both counts: from the start of the
  task (`task_rows`) and from the start of the array (`start`). At the end of
  the arrays (`ArraysInv`) that is the end of the column.
* `RunInv`: a task is waiting, with a worker, or its chunk has the outcomes of
  its rows, unless something failed; and whatever failed was a row. When
  `JoinTasks` finds no error, all chunks are done.
* `AppendInv`: what has been appended reaches exactly to the end of the last
  task appended, because tasks are adjacent and chunks as long as their tasks.

Products such as `k * MaxTaskRows` are kept apart in `FullTo`, with lemmas of
their own, since the solver is of little use with them elsewhere. The
refinement is then short: a step that answers does so from a state in which the
answer is the service's, and all others stutter.

### ProjectedSchemas

`ProjectedSchemasProofs` proves `OwnSchema` (`Spec => []DecodedByOwnSchema`),
`Restored` (`Spec => []StackRestored`) and `Active` (`Spec => []SchemaActive`). The stack has the
schema of the present leaf between push and pop and nothing otherwise, so that
what serde reads is that schema. `IInv` adds that a call under way has a leaf
left, and that a leaf begins without values.

### Decoding and NestedLookup

`DecodingProofs` is about the operators of `ValueDecoding` and
`SchemaResolution`, for every dtype and value of any depth. A recursive function
is first shown to equal its defining expression (`DecodableDef`, `CellDef` and
so on), by induction on the depth: such a definition is a choice of some
function that satisfies the equation, and only the proof that there is one says
what it is. `DtypeInduction` is that induction, `InductionOnDtypes` its form for
Structs, Lists and scalars, in which the rest is stated:

| Theorem | States |
| --- | --- |
| `FullIsBuildable` | what a decoder yields, and every default, passes the checks of `values_to_series` |
| `WaysAgree` | what keeps to a dtype decodes in all three ways, to the same cell |
| `PartialAccepts` | what `SchemaSeed`, or serde, takes for a schema it takes for each part that `validate_partial_schema` accepts |
| `CellsAreFixed` | a cell can be built into a column of its dtype again, and is then itself |
| `KnownPath` | what either of them takes for a schema has, at a path, nothing or what it takes for `dtype_at_path` of it |

`NestedLookupProofs` goes on with what lookups do with them:

| Theorem | States |
| --- | --- |
| `PathAsMeant` | `decode_path` of the converted path finds what Python's indexing would |
| `LeavesOfWhole`, `WholeOfLeaves` | one decoder takes a record whole exactly if it takes it leaf by leaf (with a Struct without fields in the dtype, only if), and to the same, defaults included |
| `CellsAreTyped` | cells have the dtype of their column |
| `AssembledAsWhole` | columns of leaves assemble to the cells of the whole value |
| `KnownDataIsPlanned` | data that keeps to the known schema keeps to the dtype of any call that planning accepts |
| `Invariant` | `Spec => []Inv` |
| `OutputIsAsPlanned` | `Spec => []OutputAsPlanned` |
| `ColumnsAreOfRows` | `Spec => []ColumnsMatchRows` |
| `FailuresAreJustified` | `Spec => []DecodeFailuresJustified` |
| `KnownDataIsDecoded` | `Spec => []KnownDataDecodes` |

None of the four properties says anything before a call has returned, so none
is inductive. `Inv` says what each stage has: a dtype that planning resolved
(`Planned`); once values were decoded, that each is its record's own value under
that dtype, which therefore was accepted (`Whole`); of every column so far, that
its cells are those of its leaf in the record of their row, with the leaf's
default where the record has nothing, and that this leaf decoded in every record
(`OfLeaves`); and of the result, what the properties need (`GoodOutcome`). Then
`DecodeLeaf` and `SplitLeaf` add a column of the same description, by different
ways: the first by `LeafDecodesAt` with the call's way of decoding (`CallWay`), the second by `LeavesOfWhole`, which is where
decoding whole and decoding by leaves meet. `AssembleColumns` is
`AssembledAsWhole`; that a record decoded by leaves was of the dtype throughout is
`WholeOfLeaves`. `Error("build")` is excluded by `FullIsBuildable`.

`ColumnsMatchRows` and `DecodeFailuresJustified` are about the call's own way of
decoding, since for data that does not keep to the dtype the ways differ; what
they say of data that does, whichever way it is decoded, is `WaysAgree`. That a
decoder fails exactly on such data is not true of the code.

The assumptions are those on the constants: requests and known dtypes are dtypes
of depth `MaxDepth` or less, records are values of that depth. `MaxDepth`, the
number of records and rows, and the bounds of `i64` and `usize` are arbitrary.

### Known databases

`KnownRecordsProofs` is about the tables at their full size and any records
that keep to them:

| Theorem | States |
| --- | --- |
| `TablesAreDtypes` | every known type's schema is a Struct in which no name is repeated, at any level |
| `StructsAreWhole` | for each struct of maxminddb, what `known.rs` makes of a record is the cell the schema leads to |
| `StructsDecodeAlike` | so the cell of a record that keeps to its schema is the same as by each other decoder |
| `KnownRecordsInvariant` | `Spec => []KnownRecordsInv` |
| `StructsAgree` | `Spec => []StructsAgreeWithSchema` |
| `NothingIsDropped` | `Spec => []NothingDropped` |
| `ScalarInCell` | the cell of a record has, at each path to a scalar, what a lookup of that path gets |
| `PathsAgree` | `Spec => []PathsAgreeWithRecord` |

The code has each field in two places, in `schema.rs` and in `known.rs`, and the
proof goes through them together. `Whole(d, s)` is the cell of a record `s`
that serde decodes under `d`. `Agrees(fields, entries, s)` says of a piece of a schema and
the piece of a conversion beside it that names and order are the same and each
entry is `Whole` of its field, if what the record has there decodes; pieces that agree agree when put together
(`JoinAgrees`), as the tables put fields together. There is a lemma for each
kind of piece (`KindsAgree`, `RenamedAgrees`, `StructAgrees`, `ListAgrees`), from
which those for the 24 conversions (`NamesWhole` to `AsnWhole`) follow one from
another. They need that an absent struct, which is an empty one, decodes to what
an absent field of that dtype defaults to (`EmptyStruct`).

`NothingDropped` rests on `CellsAreFixed` (`DecodingProofs`): a cell built into a
column of its dtype is itself. `KnownRecordsInv` says what a record has become
at each stage, and that a value about to be built is buildable, which excludes
the error. `ScalarInCell` is an induction on the dtype, one key or index of the
path at a time; where the record lacks something on the way, the cell has a
Struct of nulls or an empty List there, and the path's own lookup gets null.

### ReleaseHelper

`ReleaseHelperProofs` proves `ValidatedOnly` (`Spec => []PublishedAsValidated`),
`PushedFirst` (`Spec => []ReleaseWasPushed`) and `DryRunHarmless`
(`Spec => DryRunPublishesNothing`), for any number of runs, edits and commits.
`PublishedAsValidated` is not inductive; why it holds is an argument about time.
Trees only grow (`Precedes`), and the index comes from the files (`TreesGrow`).
The release tree was in the index before `scripts/check` and `maturin` ran, so
both saw it or a later tree (`FrozenInv`). When the files are then found to
agree with the index, both saw that index or an earlier one. If the index still
is the release tree at the last comparison, all four are equal (`ApprovedInv`):
the tree checked and built is the release tree, and it is this one that the
commit's tree is compared with before the push.

### Model-checked only

* Liveness (`CallsReturn`, `CallReturns`, `EvaluationsEnd`, and the fairness
  in `ImplementsService` and `ImplementsRowLookup`), which the prover cannot
  reason about.
* What goes wrong in the three runs that expect a violation.

Every invariant, and every action property, that a run checks is a theorem.

## Not modelled

* `normalize_dtype` (`_schema.py`): a table of names, and a recursion that keeps
  the shape of a dtype; and `schemas.py`, which repeats tables of `schema.rs` as
  Polars dtypes for users.
* Of the `Deserialize` implementation of `Value`, its maps and lists, which are
  read without a schema by a fuzz target only. For a scalar it gives `SchemaSeed`
  the value in its own kind (`value.rs:104`), which the model has. The fuzz
  targets themselves call operations modelled here and drop what they return.
* Maps with a repeated key, which MMDB files should not have. A projected map
  keeps the last value and a path follows the first; nothing in the
  documentation says which should win, and no property is stated.
* A directory moved away and back while `open_snapshot` reads: see the
  assumptions about the files above.
* Decoder resource limits, which are maxminddb's, and memory: snapshots that
  calls still hold are outside the cache's count, as docs/api.md says.
* Texts of errors, the benchmarks, the scripts other than the release script,
  and the workflows.
