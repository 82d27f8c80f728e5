# SigilYX in TLA+

SigilYX reads and writes YXDB files, the tabular format of Alteryx Designer, in
its two generations E1 and E2. This directory models the Rust crate in three
layers: the readers and writers that cut a stream of records into blocks, with
the threads behind them and what an error, an unfinished writer or a killed
process leaves behind; the bytes of a record, a block and a geometry, and
whether what one side encodes the other decodes; and the reading of E2 files,
whose records can be framed in more than one way. `PROJECT.json` maps every
definition to the lines it models.

## The system

A YXDB E1 file is a header (record count, position of the record block index,
whether there is a spatial index), an XML description of the fields, and a
sequence of blocks. Each block is stored compressed or raw; decompressed and
concatenated, the blocks give the record stream. A record is a fixed part and,
when the schema has variable-length fields, a length and a variable part.
Records ignore block borders. Every 65,536 records a new group starts a new
block, and the record block index behind the last block says where. A spatial
file also has "grid" blocks between groups, which hold no records.

An E2 file is a stream of typed blocks: record blocks, blob blocks that records
after them refer to, index blocks, and an end mark. A record is a sequence of
fields without lengths; a prefix byte tells how many bytes a value takes, except
that the prefix of an Int32 has two readings and that some files put a flag
before the first date of a record.

| component | state | operations | what is hard |
|---|---|---|---|
| E1 row reader, `e1/reader.rs` `YxdbReader`, `YxdbRowReader` | position in the file, decompressed block and two indices into it, record counter, request flag, the caller's row buffer | `open`, `next_record`, `next`, `read_index`, drop | a prefetch thread one block ahead, records across borders, grid blocks, retry after an error |
| prefetch worker, `PrefetchWorker` | two channels of depth one | loop: receive, decompress, send | must never block against its reader, must end on drop |
| E1 batch reader, `next_batch` | the row reader's | up to n records as a frame | rows lost when an error comes mid-batch |
| E1 bulk reader, `into_dataframe*` | none between calls | block list, chunked walk, spatial fallbacks | result must not depend on chunk borders; desync and short files |
| field decoding, `e1/record.rs`, `ColumnBuilder` | column buffers with validity | one push per field and record; `extract_field` | damaged lengths, dates, two decoders that must agree |
| E1 streaming writer, `e1/writer.rs` `YxdbWriter` | block buffer, block index, record count, finished flag | `write_batch`, `finish`, drop | refused rows, I/O errors, kills between writes, commit order |
| E1 pipelined writer, `write_records` | block buffer, two channels, pending count | one call per frame | mutual waits, order of blocks, file position taken while blocks are on their way |
| serialisation, `infer_schema`, `build_record_into` | buffers reused from row to row, fixups | one call per row | length forms, what a row leaves behind, widths |
| LZF codec, `e1/lzf.rs`, `csrc/lzf_d.c` | hash table, open run | compress, decompress | overlapping copies, limits of runs, lengths and distances |
| header and metadata, `e1/header.rs`, `field.rs` | none | parse, write | fixed layout, XML |
| E2 reader, `e2/reader.rs` | position in the stream, last blob block, records of the current block, date flag, integer base | `open`, `next_batch`, `count_records` | several framings of a record, blob references that name no block, a probe that decides for the whole file |
| E2 decoders, `e2/record.rs` | none | `decode_field` | prefixes, widths |
| spatial objects, `spatial.rs` | none | SHP to WKB and back, whole columns | byte orders, optional M, which rings are holes |
| crate interface, `lib.rs`, `error.rs` | none | format detection, Arrow IPC wrappers | none |
| Python extension, `sigilyx-python` | a reader or writer, rows read | `write_batch`, `finish`, `__exit__`, `__next__` | `__exit__` finishes after an exception; row limit, empty projection |
| Python package, `python/sigilyx` | none | argument handling | none |

The components meet in two places: the file (what the writers finish is what
the readers open) and the channels between a caller's thread and its helper.

What makes each correct: the readers return exactly the records the file holds
in order, or an error and never a wrong row, and every call returns; the writers
leave files the readers accept, whatever interrupts them, and an index that
marks every group; the helper threads never wait in a circle and always end; a
value, a block or a geometry that was written is read back as it was, and
damaged lengths lead nowhere outside their record; an E2 record is given values
only if it can be read in exactly one way.

## The modules

```
BlockFile            a file as the readers see it; the skip heuristic
  PrefetchReader     the row reader and its worker   ==> RecordStream
    PrefetchReaderProofs
  BulkReader         into_dataframe
    BulkReaderProofs
  SmallFiles         the files both readers are checked on
BlockLayout          how a writer cuts records into blocks and groups
  BlockLayoutProofs
  YxdbWriter         the streaming writer            --> BlockFile!WellFormed
    YxdbWriterProofs
  PipelinedWriter    write_records and its thread    --> BlockLayout!LayoutOf
    FrameWriter        write_yxdb_impl around it     --> BlockFile!WellFormed
      PipelinedWriterProofs
Lzf                  one block through the codec
  LzfMeaning           what compressed bytes stand for, recursively
  LzfProofs
NaturalSets          induction and recursive functions, for the proofs
RecordFormat         the encodings of values, both ways
  RecordCodec        a frame to records and back, by two decoders
Geometry             a geometry and its WKB
  Spatial            WKB to SHP and back
    SpatialColumn    a column on its way through files
E2Record             one record: decode_field, the search for its framing
  E2Reader           the block stream, the probe, blob references
    BatchReader      batches of E1 and E2 files, the Python iterator
      BatchReaderProofs
```

An `MC` module gives the constants of the module it is named for.

**Bytes are offsets** in the modules about blocks. A byte is named by its offset in the record stream, a
block, a record and the row buffer by intervals of offsets. "The right bytes"
is then an equation, and no content is modelled. Compression disappears, except
that a block may be corrupt or cut short; what it does is in `Lzf`.

### BlockFile, RecordStream, PrefetchReader

`BlockFile` describes a file on disk (`start`, `len`, `cut`, `fault`, `grid`)
and which files a writer of the format can have produced (`WellFormed`).
`IsRecordBlock` is the code's three-record probe; where no record starts the
probe reads `GarbageLen`. The bytes of a grid block belong to no record.
`GridDetectable` is the condition under which the probe is right about every
block a reader can be asked to skip; `GridTold` is the one the bulk reader
needs: data blocks may fail the probe, but grid blocks may not pass it, and no
stray length may stay inside the file.

`PrefetchReader` has one action per piece of code between two points where the
other thread can be noticed: `BeginRecord` (`next_record`'s count check),
`CopyBytes` (a turn of `read_bytes`' loop), `EndFixedPart`, `EndRecord`,
`FetchBlock` (`read_next_lzf_block` up to `recv`), `ReceiveBlock` (up to the
eager submit), `PrefetchNext` (eager submit, then the skip decision),
`DropReader` and `JoinWorker`; the worker has `WorkerTakesJob`,
`WorkerSendsResult` and `WorkerExits`. Each variable is the field of the same
name, except `readPos` (the file cursor, in blocks), `reader` (the caller's
program counter), `need` and `phase` (locals of `next_record`), and the
history variables `delivered` and `errors`. A result that is `Err` leaves
through `?` exactly where it does in the code, with what was assigned before it
assigned and the rest not. The caller may call again after an error.

`RecordStream` is what a caller may assume: a call returns the next record, or
an error if the file is damaged; at the end it says so; every call returns.

### BulkReader

`into_dataframe` on the same files. A chunk is a sequence of byte offsets,
because the spatial filter leaves gaps. `Chunk` is one turn of the loop of
`build_dataframe_compressed_chunked`: take blocks up to the budget
(`BatchEnd`), decompress and filter (`BlockData`), find the complete records
(`Bounds`), push them, carry over the rest (`Carried`), and the conditions
under which the turn fails (`ChunkError`) or is the last (`LeavesLoop`).
`CheckCount` is the comparison after the loop. `attempts` holds the reads of
`build_spatial_index_columns` still to come; `AttemptFails` goes to the next.
`ReadWhole` is the third read, and the walk of an uncompressed file.
`estimate` is what the code expects a block to decompress to; it decides where
chunks end. Parallel decompression and column building work on disjoint memory
within a turn and do not show.

### BlockLayout, YxdbWriter, PipelinedWriter, FrameWriter

`write_batch` and `write_records` make the same decisions about where to cut;
`BlockLayout` has them as operators on a layout (`cut`, `end`, `index`):
`OpenGroup`, `MakeRoom`, `AppendSplit`. `FlushPoints` are the layouts at which
an I/O error can stop them.

`YxdbWriter` is sequential. Its steps are a row (`WriteRow`, `RowRejected`,
`RowWriteFails`) and the four writes of `finish` (`FinishFlush`, `FinishIndex`,
`FinishIndexPos`, `FinishCount`), because an error (`FinishFails`) or a kill
(`Kill`) leaves a state behind between any two of them. `disk` is what the
header and the trailer on disk say. `DropWriter` removes the file if the
platform lets it. Buffered writes are taken to reach the disk in program order;
what the operating system does with them after a power cut is not modelled.

`PipelinedWriter` has both threads of `write_records`. `pc` and `goal` are the
main thread's place: every send is preceded by a drain except the last one, a
group boundary settles before and after it. Blocks are named by the offset
where they end, so order and completeness are visible in `written`.

`FrameWriter` puts `write_yxdb_impl` around it: `WriteHeader` (with the whole
record count, unlike the streaming writer), `WriteRecords` (any step of the
main thread), `WriteIndex`, `WritePosition`; `FrameFails` is an I/O error
between them. The compress thread runs from the first write on and may outlive a
call that failed.

### Lzf

`compress` one byte or one match at a time (`Literal`, `BackReference`,
`TailLiteral`), with its rolling hash and its hash table, and `Finish`, which
stores the block raw unless compressing makes it shorter; then `lzf_decompress`,
one token at a time, into a buffer of `cap` bytes. The limits of the format
follow from two numbers, the values of a byte and the longest literal run.
In `LzfMeaning`, `Meaning` says what compressed bytes stand for, independently
of both; it is recursive, so it has a module of its own.

### RecordFormat, RecordCodec

`RecordFormat` has the conversions: integers to little-endian bytes, dates and
times to text and back, decimals, UTF-8 and UTF-16 with both paths of
`transcode_utf16le` (the vectorised path takes `CHUNK` units at once), and the
length forms of variable data. `RecordCodec` infers the schema, derives offsets
from it on one side and from the metadata on the other, and has one action per
step of `build_record_into`: `StartRecord` clears the reused buffers,
`SerializeField` and `RefuseField` are a turn of its loop, `FinishRecord` patches
the fixups. `ReadBack` decodes the records twice, with `extract_field` and with
the column builders. `Damage` overwrites the word of a variable field, or the
header of its block.

### Geometry, Spatial, SpatialColumn

A geometry is its kind, its dimensions and its coordinates by member and ring.
`Encode` writes WKB as any producer may, with a byte order of its own for each
member. `Spatial` has the two conversions over words, one per number; a word
read in the wrong byte order is nonsense. `SpatialColumn` sends a column through
`MaxTrips` files, with the rule that the first cell that cannot be converted
fails the frame, and may cut a cell on the way.

### E2Record, E2Reader, BatchReader

`E2Record` decodes fields and searches for the framings of a record as
`decode_record_values` does: every Int32 in one base, then in the other, then
depth first with a memo of failed positions and its two limits. `Framings` is
the set of all readings, from the format. Values keep their bytes, except that a
Float or Double NaN is a value of its own: the code compares framings with the
derived `==` of `FieldValue`, and a NaN differs from itself. Zeros of either
sign, DateTimes of one second and strings with replaced bytes are equal for
`==` and not here; no two framings of a record differ in such values alone,
because after an Int32 read in two widths with one value every later field would
be null at both of two adjacent bytes, up to a common end. `E2Reader` walks the blocks:
`read_block` with its errors and where they leave the stream, the probe of the
first record block, `TakeBlob`, and references resolved against the blobs seen.
`BatchReader` is the loop around it. `Call` is `__next__` up to the first record
(limit, end, projection, refused types), `E1Record`, `E2Block` and `E2Decode`
are a turn of `next_batch`, `Finish` is its return; `GiveUp` is the caller, or
`into_dataframe`, that stops at an error. The E1 half takes records as there or
not; what block framing adds to it is in `PrefetchReader`.

## What is checked

| run | shows | states |
|---|---|---|
| `reader_stream` | the reader's invariants, liveness and refinement of `RecordStream` | 81,432 |
| `bulk_read` | the chunked walk and the three reads of a spatial file | 31,794 |
| `batch_read` | batches of E1 and E2 files, the framing of E2 records | 220,449 |
| `writer_stream` | layout, index and commit order of the streaming writer | 1,414,135 |
| `writer_pipeline` | a whole frame written by two threads, failing anywhere | 3,828 |
| `record_codec` | values, nulls and damaged lengths through records | 13,176 |
| `lzf_block` | blocks through the codec | 42,707 |
| `spatial` | geometry columns through files | 188,440 |
| `reader_skip`, `writer_refused_batch`, `spatial_rings`, `record_decimal` | one disagreement with the documentation each, see below | |

**reader_stream.** `SendsNeverBlock`: at most one job is in flight, so neither
thread ever finds its depth-one channel full. `RecvHasJobUntilError`: until
something fails the reader waits only for a job that exists. `RowsAreExact`:
each row's buffer is exactly the record the reader counts, across borders, grid
blocks and interleavings. `FirstErrorIsNear`: prefetching may bring an error
forward, but by one block at most. `CallsReturn`, `DropCompletes`: no call and
no drop hangs. `ImplementsRecordStream`: refinement, liveness included.

**bulk_read.** `NothingLost`: the records pushed and the bytes carried are the
data of the blocks consumed, wherever chunks end. `RowsAreExact`: a frame that
is returned has the file's records, whatever was tried before.
`SoundFilesAreRead`: a sound file is never refused, unless its grid blocks are
interleaved and its data blocks do not start with records, the case the code
gives up. `ChunkFitsBudget`: the memory promise. `BulkReturns`: the loop ends.

**writer_stream.** `IndexMarksGroups`: entry g of the index is the block that
starts with record g * GroupSize. `RecordsSplitOnlyIfLonger`,
`BlocksFitBuffers`: where records may be cut, and that the readers' buffer
suffices. `CountCommitsLast`: a header that announces records has everything
else on disk. `FinishedFileIsReadable`: what is finished satisfies the
assumption the reader's specification makes about files; this joins the two.

**writer_pipeline.** `NoMutualWait`, `BlocksInOrder`, `IndexIsAccurate`;
`SameAsSequential`: the file is the one `LayoutOf` computes without a pipeline;
`WhatReadsIsWhole`: whatever interrupts the write, and though the header comes
first, a file that holds the records it announces is the whole frame, and one
whose header names an index has index and blocks complete. `CallReturns` and
`WorkerEnds`: the call and the thread end, also after an error.

**lzf_block.** `OutputMeansInput`: between any two bytes of its input, what
`compress` has written means what it has read. `DecompressionIsExact`: the block
comes back whole from any buffer that can hold it, a smaller one is refused, and
nothing is written past its end.

**record_codec.** `ValuesComeBack`: every value of every type, next to nulls and
after other rows, comes back as `Expected` says: times to the second, dates
outside four-digit years as null. `DecodersAgree`: the row reader and the column
builders read the same of every record. `VarDataStaysInside`: damaged lengths
and offsets lead nowhere outside the record.

**spatial.** `GeometryIsKept`: every geometry, in every mix of byte orders, comes
back with the same parts, rings and dimensions. `TripsAreStable`: further trips
change nothing and fail nothing. `CutIsNoticed`: a cell that was cut is never
read as a smaller geometry.

**batch_read.** `RowsAreExact`: batches follow each other without gap or
repetition up to the first error, without repetition after it, and each row is a
reading of its record with slices from the blob block before it. `EndMeansAll`:
None means the end of the file, as `count_records` sees it, or the row limit.
`SoundFilesAreRead`: a file whose records read in one way is never refused,
whatever the probe finds first. `VerdictsAreRight`: values, "ambiguous" and
"misfit" are given exactly where they are due, but that a NaN beside an Int32
may make one reading look like two. `IterationEnds`: also a caller
that goes on after every error gets to the end.

**Bounds.** Two records per group and blocks of three bytes are the smallest
that have a record inside a block, one that fills it, one that crosses a border
and one that spans several, on either side of a group boundary. The reader's
files have at most three records (a group and a half; one has four, so that a
caller can go on in a second group after an error), every way to cut them into
up to three blocks plus the grid blocks, and one fault: a corrupt block, a
short one, or everything from some block on missing; empty blocks are included.
A chunk budget of six bytes, records of up to six and estimates of four or nine
per block make chunks of one and of two blocks, records over several chunks,
and carries above and below `MaxCarry`. In `bulk_read` `GarbageLen` leads out
of the file: bytes that are no record do not pass for one by chance. `MaxRows = 5` gives the streaming writer three groups. The pipelined
writer gets a record of six blocks: one more than two channels of two and the
thread's hands hold, the least at which a missing drain deadlocks. `CallsPastEnd`
bounds the calls after the last record.

The codec of `lzf_block` is scaled down: bytes of eight values and runs of two
literals give matches of up to 12 bytes and distances of up to 16, so all blocks
of two values up to eleven bytes, and longer ones around the longest match and
the largest distance, reach every limit on both sides; sixteen hash slots make
collisions. In `record_codec` the frames have one or two rows (three for
decimals) and one to three columns, with the values at the edges of every type;
`SECOND` and `RATIO` scale down the microseconds of a second and the ratio of
time units, and chunks of two units put surrogates on either side of a chunk
border; variable data has 0, 1, 127 and 128 bytes. 64-bit values stay where
TLC's integers reach. `MaxPoints = 2` gives lists of no, one and two points under
every pattern of missing M, and two rings per polygon are the least that can be
grouped wrongly. `batch_read` takes every byte string over a few prefixes as a
record, Int32s of every kind of reading before and behind floats and doubles
that are null, zero of either sign, infinite, NaN by their high and NaN by their
lowest bytes, every file of up to three blocks out of eight kinds, and limits that
fall inside a batch; the two limits of the search are small enough that both are
met, and `MaxCalls` is above what any of the files can use.

`CHECK_DEADLOCK FALSE` is set for the readers and writers of blocks, because a
dropped reader and a finished writer do stop; that nothing else stops is what
the liveness properties say. The other modules say where they stop (`Done`,
`Stop`, `Finished`, `Terminated`), and deadlock is checked.

**Fairness.** Weak fairness of each thread: an operating system thread that can
run does. The caller owes nothing: no fairness on `BeginRecord`, `DropReader`,
or on the streaming writer, whose module has no liveness. In `FrameWriter`
failing is part of the main thread's fairness, so nothing obliges a disk to
fail. `BatchReader`, `Lzf`, `RecordCodec` and `SpatialColumn` are
sequential and have no liveness; `IterationEnds` bounds the calls instead.

### Disagreements with the documentation

* `reader_skip`: a data block whose first records cross its end is skipped as
  a grid block. The passing run is restricted to `GridDetectable` files.
* `writer_refused_batch`: a refused batch leaves rows the count does not cover.
* `spatial_rings`: `spatial.rs:284` says that clockwise rings are exteriors and
  have positive area. In `signed_area_2d` it is the counterclockwise ones that
  do, so a shape wound the Shapefile way is regrouped: its second exterior
  becomes a hole. What the writer makes from WKB wound the ISO way is read back
  as it was (`GeometryIsKept`).
* `record_decimal`: the width inferred for `Decimal(p, p)` forgets the zero
  before the point, which `format_decimal_i128` prints; a negative value of p
  digits loses the last one.

### Observations

Five more disagreements have a property in their module and no run of their own;
adding it to a copy of the configuration named shows a counterexample.

* `RecvHasJob` (INVARIANT, `reader_stream`): the error path at `reader.rs:545`
  skips the reset of `request_outstanding`; the call after it waits for ever.
* `CurrentRowIsWhole` (INVARIANT, `reader_stream`): `has_current` outlives a
  failed `next()` (`reader.rs:2299`).
* `BulkReturns` (PROPERTY, `bulk_read` with `Files <- MCLongFiles`): in a file
  without a spatial index, a record longer than the chunk budget (128 MiB) makes
  the loop turn without progress. `MCFiles` has records up to the budget.
* `EveryRecordAccounted` (INVARIANT, `bulk_read`): the third read of a spatial
  file does not check the record count (`reader.rs:1255`), so a truncated file
  gives a shorter frame. Uncompressed files with variable fields behave alike.
* `DroppedFileRemains` (INVARIANT, `writer_stream`): the doc at `writer.rs:293`
  says that dropping an unfinished writer leaves the file; `Drop` removes it.

Seen while modelling, and part of what the models do:

* An E2 record with an Int32 among more than 256 fields is refused unless both
  uniform readings settle it. A NaN, Float or Double, is unequal to itself, so a
  record with an Int32 that both bases read alike (a null is enough) and a NaN is
  refused as ambiguous though it has one reading: `<<73, 11, 0, 0, 192, 127>>`
  for the fields Int32, Float. `VerdictIsRight` allows this answer, and
  `SoundRecord` leaves out records with a NaN.
* The probe takes what the first record block suggests for the whole file: if
  that block is empty it never looks at a record, and a base-5 Int32 before the
  first date can hide the date flag. `Conclusive` says which files it can tell.
* After a blob block that cannot be read, a caller that goes on has slices
  resolved against the blob block before it.
* An E2 file that ends at a block border without its end mark reads as complete.
* With an empty projection a frame has no height, so `n_rows` never applies.
* `is_e2_verified_type` refuses Time and WString; the doc at `lib.rs:107` names
  Blob and SpatialObj as well.
* V_String fields hold UTF-8, where the comment at `writer.rs:429` says that
  they hold single-byte Latin-1.
* A date whose year takes seven digits comes back as another date, since a month
  and a day are found among its digits; other dates outside four digits come
  back null.
* A record of 180 or more Int32s full of nines reads in one way and is refused
  by the limit of states; the comment at `e2/reader.rs:32` says that real records
  need at most a few hundred.
* A sound file with grid blocks between its records and a record longer than
  `MAX_CARRY_BYTES` can be refused by all three reads.

## What is proved

All for every value of the constants, under the named assumptions of the
modules: sizes are positive, files well formed, batches sequences of rows, the
bytes of a block in range. Where a theorem has a
hypothesis of its own, it is given below.

**NaturalSets.** A nonempty set of natural numbers has a least element, and two
induction rules over sets of numbers. They take no operator parameter, so they
can be cited where something must hold of each record, block or byte. The second
half is about functions that are defined by recursion over 0..n (`Recurs`): such
a function exists, and its value at n follows from the one at n - 1. Every
recursive definition that something is proved of goes through it: the layouts of
rows and their offsets, the sums over the blocks of a file, the fields of an E2
record and the search over them. So does `FlattenSeq` (`FlatChain`).

**PrefetchReaderProofs.** `TypeCorrect`; `JobAccounting` is inductive relative
to it. It ties `requestOutstanding` to the number of jobs in flight, which
`SendsNeverBlock` alone cannot: after a send the invariant must know the flag
is set. `SendsNeverBlock` and `RecvHasJobUntilError` follow.

The second half is about what the reader delivers, under the hypothesis that
every file is `GridDetectable`; `reader_skip` shows what happens without. The
inductive invariant `RowsInv` follows one number, the offset of the next byte
that will be copied (`Pos`). The job in flight is the last block taken off the
file (`JobsAreNext`), so the block a result brings is the one after the block in
hand; within a call `Pos` is the start of the record plus the bytes read
(`RecordSoFar`), and what is still to come is what the record has left
(`BytesToCome`). The step that needs an argument is the skip: a block is
discarded only when the reader stands at its start, where either a record
starts, and then the probe finds records, or only grid and empty blocks lie
before the next one (`GapIsGrid`, `SkipDecision`). From it:

* `RowsAreExactTheorem`, and that no call panics before the first error;
* `FirstErrorIsNearTheorem`: the job ahead of the reader fails no earlier call;
* `SkipsOnlyGridTheorem`, an action property: a block that is discarded is a
  grid block. It is the doc's "automatically detected and skipped", and exactly
  what the hypothesis is for;
* `StreamSafety`: the safety half of `ImplementsRecordStream`. Initial states
  are initial, every step of reader and worker is a step of `RecordStream` or
  none.

**BulkReaderProofs.** `NothingLostTheorem`, `ChunkFitsBudgetTheorem`,
`RowsAreExactTheorem` and `SoundFilesAreReadTheorem`. The
scan for records, the sum that is compared with the budget and the data of a run
of blocks are recursive functions over the data, so the first half shows what
one more step of each adds (`EndsSteps`, `ExpectedSteps`, `BlocksStep`), and
that the records a scan cuts off are together the data up to the last end it
found (`RecordsFlat`), wherever that is. Then a turn of the loop moves the
border between records pushed and bytes carried, and nothing else
(`ChunkKeeps`). The budget needs `CarryBounded`: a chunk that begins with
less than the budget and one block keeps to it, and so does what it carries
over, because blocks that decompress hold no more than was expected of them
(`DataAsExpected`).

`RowsAreExactTheorem` supposes `GridTold` of the files with a spatial index: a
length word that is none leads out of the file, a grid block does not parse as
records, and nothing but grid blocks lies behind the last record. The run
checks that every one of its files is such (`FilesTold`). The state is described
by `RInv`: each row pushed is as long as its own first bytes say
(`RowsParsed`), the rows are the beginning of the data of the first blocks
(`RowsFromStart`), and an accepted read has the count its kind of read demands
(`Verdicts`). None of this says that the rows *are* the records; that follows
from the data. Unfiltered, the data is the file from its first byte on, and
each row that begins where its record does is that record, so the next one
begins where some record must (`UnfilteredExact`). Filtered, bytes are
missing and the rows cannot be followed one by one, so the argument is a
count (`FilteredExact`): a row is too short for a stray length, so it begins
and ends like some record (`RowOfSome`); rows lie in file order, so these records
are different ones; there are as many rows as records, so each is its own
(`NoRoomToSkip`); and what is kept between two starts holds no grid
(`FilteredInRecords`). This is why the first two reads may be accepted on the
count alone. Without `GridTold` they may not: when the files are read with a
`GarbageLen` of 1, 3 or 4 instead of 50, TLC finds frames of the announced number
of records with wrong rows in them.

`SoundFilesAreReadTheorem` is the other direction: not that what is returned is
right, but that something is. It supposes `GridTold` and `CarryFits`: in a file
with grid blocks between its records, no record is longer than `MaxCarry + 1`.
The second is not an artefact of the proof: with a `MaxCarry` of 0 TLC finds such
a file refused. The limit is 64 MiB in the code. First, what the kept blocks hold.
The data of a read that keeps all blocks with records has every byte of every
record (`StreamComplete`, `RecordByte`) and none between two of them (`Holds`), so
the records lie in it one behind the other (`Laid`, `RunInOnePiece`), the r-th
after the `Total` of the lengths before it. For the filtered read that takes
`GridSeparable`, for the others that grid blocks come last. Then the scan: in data
that begins after k records, the j-th end it finds is that of record k + j, and it
finds it exactly if the data goes that far (`ScanFindsRecords`). So a turn
never takes more than is missing, carries over part of one record at most, and in
the last chunk finds all that is left (`TurnCounts`). The invariant is `PInv`:
the reads still to be tried are a tail of those there were (`Fit`), one of them
is `Sure` to succeed, and while that one runs the bytes of its rows are as
many as the records so far have (`Promise`). A read may fail only if it is not the
sure one (`FailureKeepsPromise`); each action is shown not to fail the sure one.

**BlockLayoutProofs.** Every operator of `BlockLayout` keeps `Fits` (all blocks
have 1 to BlockSize bytes). The arithmetic is in `AppendSplitFits`. Its second
half says where cuts come from: what is there stays (`Extends`), new cuts lie at
the end of the data or inside the record being placed, and inside it only if it
is longer than a block. The third is for layouts of many records: `LayoutsStep`,
and `AppendBlock`: appending a record block by block, as the code does, comes to
what `AppendSplit` computes at once.

**YxdbWriterProofs.** `Laid` = types and `Fits`, giving `BlocksFitBuffers`;
`Committed` adds what each stage of `finish` has on disk (`Finishing`), giving
`CountCommitsLast`. `Placed` says where the rows lie: `StartsInOrder`,
`CutsInside`, `RecordsSplitOnlyIfLonger`, and `GroupsIndexed`, which is
`IndexMarksGroups` with the number of entries tied to the number of rows
(`GroupCount`). That count is needed because the code decides to open a group
from the rows written so far, not from the index. A write that fails can leave a
row half appended; `TornFails` says that the batch or the writer has then
failed, so the invariant has to claim nothing more. `Located` is all of this
together. From it `IndexMarksGroupsTheorem`, `RecordsSplitOnlyIfLongerTheorem`
and `FinishedFileIsReadableTheorem`, the contract between writer and reader:
what is finished is `WellFormed`, which is all that `PrefetchReader` assumes
of files. The streaming writer writes no grid blocks, so `GridDetectable` asks
nothing of its files.

**PipelinedWriterProofs.** `Accounted` counts the blocks on their way and
gives `NoMutualWait`, under the extra hypothesis `ChannelCapacity > 1`: the
last send is not preceded by a drain, and with channels of capacity one the
two threads could wait for each other. The code has two. `Ordered` says the
pipeline is increasing and ends at `bufFrom`, giving `BlocksInOrder` and
`IndexIsAccurate`; it needs `BuffersFill` (a block is never sent empty).
`Closing` says that the main thread can only have ended with nothing left to
send.

`SameAsSequentialTheorem` compares with the layout of the rows one after the
other. Its invariant, `Follows`, reads the state as a layout: the blocks
anywhere in the pipeline, what is buffered, and the index (`Current`). `ToDo`
says for each place the main thread can be at how far `Current` is from the
layout of the rows taken up so far: equal to it between rows, with the group yet
to be opened, or with `remaining` bytes yet to be appended. One lemma per action
shows that the step does its part of that and nothing else; the second thread
moves blocks within the pipeline and changes nothing of `Current`.

The last part is about `FrameWriter`. A step of `write_yxdb_impl` is a step of `write_records`
or leaves its variables alone (`FrameStep`), so both results hold inside it.
`FrameOrder` says what each stage of the call has behind it; with `Ordered` and
`Closing` it gives `NamedIndexIsWhole`: a header that names an index has all
rows' blocks before it and the index behind them.

`WhatReadsIsWholeTheorem` is about the file at every moment of the call. That
the file is well formed follows from `Ordered` and `HeaderFirst` (the count is
that of all rows from the first byte on), since any first part of the blocks will
do. That a file with all announced records is the whole frame has two halves.
While the call goes on, `WholeFile`: the file reaches the end of the last row
only if nothing is left in the buffer or the pipeline, and then `Follows` makes
it the sequential layout. After a failed call, `FailedShort`: an error always
leaves something out, a row that was refused or a block that had come back and
was not written, so the file ends before the last row does. `OffsetIsEnd` ties
the rows' places in the stream to the layout.

**LzfProofs.** `DecompressionIsExactTheorem`: for every byte width, longest run,
hash table and block, whatever the hash finds, a block comes back whole from
every buffer that can hold it. What the compressed bytes stand for is stated
without recursion (`Tells`): a set of marks, pairs of a position in the
compressed bytes and one in the block, such that a token leads from each mark
to another until both ends are reached. While compressing, the bytes written
tell the block up to `ip` (`Written`; `Running` covers the literal run whose
length byte is not there yet); while decompressing, the rest of the bytes tells
the rest of the block (`Reading`). `TokenDecodes` is the arithmetic of the two
and three byte tokens, `CopyRepeats` the overlapping copy, whose period is the
distance. That `hash_table` may point anywhere shows that correctness rests on
the comparison of three bytes and not on the hash. `WrittenTellsInputTheorem` is
the compressor's half, the counterpart of `OutputMeansInput`.

**BatchReaderProofs.** For every file, batch size, limit, projection, sequence
of calls, sample size and both limits of the search; `RequestAssumption` (what
may be asked of which files) is used for the initial states, and nothing else is
supposed.

*Records.* `RecordVerdictIsRight`: whatever base is preferred,
`decode_record_values` gives a record values only if it reads in exactly one
way, "ambiguous" only if it has an Int32 and reads in two ways, or in one that
holds a NaN, and "misfit" only if in none. The two uniform passes are one
framing each (`UniformReads`). The search is the hard half. It remembers
positions from which nothing was found, stops at the second framing, counts
states and gives up at a bound, and each of these changes what an answer means.
`Accounts` says of one call, from search state s to t, what it has made of the
framings it was to look through: none is dropped from s, all that are added are
framings and different ones, and, unless the search gave up or holds two, every
framing is among the candidates and the memo marks only positions behind which
there is none (`MemoSound`). It holds of the end of a record, of one alternative
(`Try`), of all alternatives one after the other and, by induction on the fields
left, of the whole search. The condition "unless it holds two" is needed inside
the invariant as well: a search that was cut short leaves marks that are not
true.

*Blocks.* `read_block` passes over whole index blocks and nothing else
(`LandingIs`); a turn of the loop in `next_batch` then does one of four things to
the reader (`Turn`). `Stands` ties the reader to the file in every state, also
after errors. `Walks`, which holds while nothing failed, says that every
block passed was readable and `last_blob` is the nearest blob block;
`Delivered` counts the records handed out.

*Batches.* `SomeStep` restates `Next` as eleven kinds of step. `BatchInductive`
is the invariance of `IInv`, whose parts are: `Typed`; `Standing`; `Calling` (no
call gathers more rows than it wants, and an E1 call wants no more than the file
has); `Limits` (`rows_read` is the number of rows returned and, with what is
wanted, stays within `n_rows`); `Ordered` (the rows taken, the batch in hand
included, are in file order and lie before the reader, which is what a caller
who goes on after an error may rely on); `Walked` and `Exact` (before the first
error the rows taken are all the records passed over, each read as its framing);
`SureKept` (the rows returned before an error stay what they were, though
neither `Walked` nor `Exact` is true any more); `EndMeansAll`, inductive with
these; and `Counted` (each answer but None has been paid for by a record or a
block, and so has a batch that holds a row). From it:

* `BatchRows`: no row is lost, repeated, reordered or misread before the first
  error, none repeated or reordered after it (`RowsAreExact`);
* `BatchVerdicts`: `VerdictsAreRight` in every reachable state;
* `BatchEnding`: None means the end, as `count_records` counts it, or the limit;
* `BatchEnds`: the number of calls is bounded by the blocks and records.

TLC checks each conjunct of `IInv` on the instance of `batch_read` as well.

**Only model-checked:**

* All liveness, `ImplementsRecordStream` with its liveness half included: out of
  the prover's reach.
* `SoundFilesAreRead` of `BatchReader`: it rests on the probe telling whether the
  file has date flags, a majority among sampled records, so the proof would
  be about counts over samples; and on what `Conclusive` supposes of them.
* `OutputMeansInput`, because `Meaning` is RECURSIVE.
* `Spatial` and `SpatialColumn` use RECURSIVE operators, and so do the text
  conversions of `RecordFormat`, on which `RecordCodec` is built: they hold no
  theorems.

## What is not modelled

* The layout of the fixed E1 header and the XML and UTF-16 parsing of the
  metadata: straight-line code without choices. Of the metadata `RecordCodec` has
  what is kept of a field.
* The text of E2 dates and decimals, and building series from E2 values
  (`field_values_to_series`): formatting, one value at a time.
* Float64 columns written to FixedDecimal fields: the formatting of doubles.
  Floats are bytes everywhere else.
* The Arrow IPC wrappers, `detect_format` and the Python package: one call each,
  no state. Of the Python extension the writer and the batch iterator are
  modelled; the row reader class and the one-call functions forward.
* Decompressing and building columns in parallel: disjoint memory, joined before
  anyone looks.
* What the operating system does with buffered writes after a power cut.

## Plan

Proofs still worth doing: `SoundFilesAreRead` of `BatchReader`, for files whose
records stay within the limits of the search, from `RecordVerdictIsRight` and a
lemma about the probe. And `VarDataStaysInside`, which needs none of the
recursive conversions, once they have a module of their own.
