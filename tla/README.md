# Models and proofs of pdf-xtract

pdf-xtract is a Go library that extracts the text of PDF files.  This directory
holds TLA+ modules that model its concurrent core and the readers below it, TLC
configurations that check them on small instances, and TLAPS proofs that hold for
every instance.  Line numbers are those of the files of the repository.

    tlasany Extract.tla                              parse a module
    tlc -config Extract.cfg MCExtract.tla            check a run
    tlapm ExtractProofs.tla                          check the proofs

## 1. Inventory

| Component | Where | State it keeps | Operations | What makes it correct |
|---|---|---|---|---|
| Processor | `processor.go`, `config.go` | the semaphore; the configuration, never changed | `Extract`, `ExtractAsStream`, `Metadata`, `acquireSlot` | every path gives its slot back once; every call ends |
| Worker pool of a document | `processor.go` 344-402 | channels `jobs` and `results`, worker goroutines, a wait group | `startWorkers`, `feedJobs`, `extractPageWithRetries`, the closer | each page yields one result; the results channel never blocks a worker; it is closed after the last send |
| In-order output | `processor.go` 215-317 | `pageBuffer`, `nextPage`, the length so far, `truncated` | `emitInOrder`, `streamInOrder` | pages in order, once, cut only at the limit; the outcome tells what is missing |
| Bounded slab allocator | `alloc/allocator.go` | slabs and their chains, the byte count, the global pool | `BoundedAllocSlice`, `growAndAlloc`, `Reset`, `slabPool.get/put` | no two live slices overlap, no slab has two owners, the count is exact |
| Opening a file | `read.go` 102-293 | file, allocator | `OpenWithMemoryLimit`, `CheckHeader`, `ValidateEOFMarker`, `FindStartXref` | an error leaves nothing open |
| Cross-reference data | `read.go` 327-1197 | the table, which grows in the allocator's memory | table and stream sections, `Prev`, `XRefStm`, repair | the newest definition of an object wins; the chain ends; no slot holds stale bytes |
| Objects | `read.go` 1307-1808 | none (values point into the table) | `resolve`, `Key`, `Index`, streams and filters | resolution ends; an object is what its table entry says |
| Lexer and parser | `lex.go` | buffer, position, unread tokens | `readToken`, `readObject` | what is unread is read again, positions stay exact |
| Content interpreter | `ps.go` | operand stack, dictionary stack | `Interpret` | operands belong to their operator |
| Pages and text | `page.go` | graphics state and its stack, text builder | `Page`, `GetPlainText`, `Content`, rows and columns | the tree's i-th leaf is page i; a panic becomes an error |
| Fonts and character maps | `page.go` 180-650, `text.go` | codespaces and ranges | `readCmap`, `Decode` | every code is consumed, the first matching range decodes it |
| Metadata | `metadata.go` | none | `Metadata`, `MetadataFull` | XMP and Info are merged by precedence |
| Buffer pool, tracer, logger | `bufpool.go`, `tracer/`, `logger/` | global buffers, trace, log function | get, put, append | no buffer has two users |
| Glyph names, example | `name.go`, `examples/` | a generated table; a caller | | |

How they interact.  `Extract` takes a slot, opens the file (which parses the
cross-reference data in memory of a new bounded allocator), starts the workers,
feeds them every page number, and collects.  A worker looks its page up, parses
and decodes it in the same allocator, and sends one result.  The collector
returns early on a strict-mode error and on truncation; the deferred
`ResetAllocator` then gives every slab to a pool that all documents share, and
the deferred `Release` gives the slot to the next call.  `ExtractAsStream` does
the same, except that the collector is a goroutine that outlives the call.

The hard behaviours: results that arrive out of order; two early returns that
leave goroutines behind; cancellation while pages are queued and while a call
waits for a slot; retries under a budget that only grows; one budget shared by
several workers, whose exhaustion is an error for one allocation and a silent
fallback for another (`page.go` 293, 351, 450); panics inside and outside the one
`recover` (`page.go` 713); slabs that are recycled with their contents.  The list
of hazards in `PROJECT.json` names each at its line, with the properties that
cover it or the reason why none does.

## 2. Plan

Done, in this order:

1. `WorkerPool`, `Extract`, `OrderedOutput` and the proofs about them;
2. `ExtractAsStream`, the second client of `WorkerPool` and `OrderedOutput`;
3. `SlabAllocator`;
4. `Processor`;
5. `Xref`;
6. `Interpreter` and `ContentStream`, the three readers of a page side by side;
7. `Objects` and `PageTree`: resolution, the walk of the tree, fonts, the outline;
8. `CMap` and `Encodings`, two more clients of `Interpreter`;
9. `Lexer` and `Parser`, and what they promise, `WholeText`;
10. proofs, in this order: `WorkerPool` and `Extract`, `ExtractAsStream`, the
    delivery of pages, `Processor`, `SlabAllocator`, `Xref`, `ContentStream`,
    `PageTree` with `Objects`, the results of `ContentStream`, `Parser`, `Encodings`,
    the refinement of `WholeText` by `Parser` (section 6).

Not done: metadata (the precedence of XMP over Info), the choice of the worker count,
the tracer; they are small.

## 3. Modules

`WorkerPool` - the goroutines that both kinds of extraction share.  `fed`, `taken` and
`jobsClosed` stand for the channel `jobs`: one goroutine fills it with 1, 2, 3, ..., so
its content is always `taken+1 .. fed`.  `results` is the other channel, a sequence of
at most `ResultCapacity` elements.  `worker[w]` is the stack frame of a worker: the page
it holds, the attempt, the operators left, and the result it is about to send.  `used`
is the count of the bounded allocator.  A page is a `Fate`: the length of its text and
the number of operators, or where it fails: in the recovered part ("bad"), in the page
tree ("null"), or in the part that nothing recovers ("crash").  `mode` is the parsing
mode of the processor, which never changes.  An operator is two steps, `AllocArgs` (the
slice for its operands, refused with a panic) and `Decode` (the runes, decoded once for
the log and once for the text at lines 806 and 808 of `page.go`, each refused with a
fallback to raw bytes), so the workers compete for the budget between any two
allocations.  The actions follow the code: `Feed` and `FeedEnd` are `feedJobs` and the
`close` behind it (the error of a cancelled context is dropped by both callers),
`TakeJob` .. `WorkerExit` the loop of a worker, `AfterFailure` the loop of
`extractPageWithRetries` under either strategy, `CloseResults` the goroutine that waits
for the wait group.

`Extract` - `WorkerPool` and `emitInOrder`, which starts when `jobs` is closed.
One turn of its inner loop is one of `EmitStop`, `EmitAtLimit`, `EmitCut` and
`EmitWhole`; one turn of the outer loop is `ReceiveText`, `ReceiveError` or
`ReceiveEnd`.  `Return` is the deferred reset.  A crash sets `alive` to FALSE,
after which no goroutine takes a step.

`ExtractAsStream` - `WorkerPool`, `streamInOrder`, the unbuffered channel (sender
and reader step together in `SendToConsumer`), the caller that gets the flag in
`ReturnStream`, and a consumer that may `Abandon` the channel.  Unlike
`emitInOrder`, a cut page stays in `pageBuffer`.

`OrderedOutput` - what both promise, without any goroutine: page after page, each
once, the last perhaps cut at exactly the limit, then one outcome.  `Extract` and
`ExtractAsStream` implement it under the mapping `Status`.

`SlabAllocator` - several bounded allocators and the pool they share.  A slab is
its size, its offset and the bytes ever written; a slice is the bytes it covers.
`AllocSlice` and `GrowAndAlloc` are atomic, as the mutex makes them; `Reset` is
`ResetBegin`, one `PutSlab` per slab and `ResetEnd`, because the pool has a mutex
of its own and other documents run in between.  `Write` is a client that fills a
slice, and `Drop` the garbage collector; clients use no slice after the reset,
as the comment on `Reset` demands (an early return of `Extract` breaks that, see
section 4).  `SumOf`, the length of a set of slices, is the reference for the count.

`Processor` - the calls around the extractions.  `ReleaseAndGoto`, `AcquireSlot`,
`GiveUp` and `Wake` are `semaphore.Weighted` of `golang.org/x/sync`, modelled from
how it is used here: weights of one, first in first out, a slot handed over by the
release itself, and given back when the context of the woken call is done.
`memory`, `working` and `streaming` say which documents hold parsed data and
run goroutines.

`Xref` - `readXref`.  A file is a set of sections at offsets with their links, their
`Size` and, for each object number they mention, what they say of it: free, used at a
file offset, packed in an object stream, of a type that the reader does not know (its
slot stays empty), or a row that the data of the stream does not reach; and what a look
into the file at that offset (or index) would find.  A table is the slots up to its
length and its capacity, so that growth in place, growth by copying and the contents of
new slots are those of the code: `Memory` lets every new slot hold a `Stale` entry,
because a recycled slab keeps its bytes (`allocator.go:317`).  `Start` .. `Finish` are
the steps of `readXrefTable` and `resolvePrevXrefTables`; `ReadStream`,
`FollowStreamPrev` and `ReadPrevStream` are `readXrefStream`, for a file that ends in a
stream and, with `hybrid`, for the `XRefStm` of a trailer, whose errors `StreamFails`
swallows; `Merge` and `Reject` are the rest of `handleTrailerXRefStm`.  Any allocation
may be refused.  Reading in batches and in chunks gives the same entries and is one
action.  The properties compare the table with the file: `Chain` is the sections that no
set closed under the `Prev` links can avoid, `Revisions` and `Streams` what is in it,
`Newer` their order, and `Stands` that a table has what its newest section says.

`Interpreter` - the machine of `Interpret`: the operand stack, the open
dictionaries as references into a heap (a Go map is one), and the keywords that it
handles itself.  The `do` functions that it calls are the modules that extend it.

`ContentStream` - `GetPlainText`, `walkTextBlocks` and `Content` on the same page.  The
page is drawn token by token: `Operands` are objects that the lexer finds, `Keyword` is
one turn of the loop of `Interpret`, and all three see the same operand stack, because
each of them pops every operand before it looks at it.  `PlainAfter`, `RowsAfter` and
`ContentAfter` are the three `switch` statements, `TextPanics` and `ContentPanics` their
checks of the operands.  `hasFonts` says whether the page has a Font dictionary: without
one, `Content` gets an encoder without a reader, which panics (`page.go:362`).  What all
three read can make all panic (`Malformed`); but each call charges the budget for other
things and decodes line ends that the others do not, so that any of them may also stop
by itself at any time (`StopAlone`).  How a string is decoded is a note of the encoder
asked, not of its answer.  `Finish` also makes rows, columns and sentences.  An array of
`TJ` and the glyphs of a text are walked by recursive functions; a string is one of
`Codes`, a line end, or empty.  The heart of it is that the three were written apart and
have to agree.

`Objects` - where `resolve` finds an object: at an offset, or in an object stream or
one that it extends.  `Resolving` is one step of it, `Resolution` the table of all
outcomes by the steps that may be taken, up to a bound (`Patience`) beyond which a
resolution must repeat itself; then its outcome is `Endless`.

`PageTree` - `Reader.GetPlainText`: `Enter` is the head of the loop `Search` of
`Reader.Page`, `Look` one turn over the kids, `Inherit` one step of `findInherited`,
`Cache` the map of fonts that all pages share, `LastPage` the return with a pooled
buffer that `ReuseBuffer` (another goroutine) then takes, writing over the text of the
first page that was found; where no page was found the result has no bytes.
`StartOutline`, `Call`, `Child` and `Return` are `buildOutline`.  `where`, computed
once, is what a reference to each object gives: nothing a walk does changes it.
`Lineage` is a page and what is on the way up to the first resources, `OwnFonts` the
fonts found there.

`CMap` and `Encodings` - `readCmap` as a client of `Interpreter` (`ReadingAfter` and
`MachineAfter` are its effect on the map and on the stack), `cmap.Decode`
(`DecodeCMap`), the choice of `getEncoder` (`Chosen`) and the table encoders.
`section`, `odd` and `listed` are no variables of the program: they note what an
orderly program lists, which is the reference that decoding is compared with.  A text of
an odd number of bytes makes `DecodeUTF16BE` panic, so it has half a pair (`HalfPair`)
and the `Outcome` of decoding a string with one is a panic (`Broken`).

`Lexer` and `Parser` - `Lexer` has the buffer (its capacity, the offset, `eof`) and
the scanner as one transition per byte, `Scan`; a byte that is given back is fed
again.  `Parser` has the calls of `readObject` that wait for a token, as a stack of
frames: `ObjectToken` .. `DataToken` are what each does with one.  `IsId` and `IsGen`
say which integers pass for the number and the generation of a reference: the digits
stand for values on either side of the limits of `uint32` and `uint16`.  `Reload`
returns any number of bytes, so a token may be cut at any place; behind the last one it
makes newlines up (`EndAllowed`) or panics, as it does for an error of the reader
(`readFails`).  `Seek` is `seekForward`.

`WholeText` - the abstract specification of `Parser`, which extends it by a buffer that
holds the whole text from the start: it has no `Reload`, a byte given back is always a
step back in the text, a seek is at its place at once, and the only choice left is that
a read right behind a seek may fail (`ReadSought`), because `seekForward` also goes to places
before the bytes that are still in the buffer.

`MCExtract`, `MCExtractAsStream`, `MCSlabAllocator`, `MCProcessor`, `MCXref`,
`MCContentStream`, `MCPageTree`, `MCEncodings` and `MCParser` give the constants their
values.  The proofs are in modules of their own, which extend the
module they are about: `WorkerPoolProofs`, `ExtractProofs` and `ExtractAsStreamProofs`
(both use the first), `ProcessorProofs`, `SlabAllocatorProofs`, `XrefProofs`
(whose last part is about `Parser`, as the instance `Parse`), `ContentStreamProofs`
(whose last part is about `Encodings`, as the instance `Map`) and `PageTreeProofs`
(with the lemmas about `Objects`).
A definition whose comment starts with "Mutant:" is used by nothing: it is the
definition after it with a plausible mistake, and serves to see that a property
notices the mistake (`mutants` in `PROJECT.json`).

## 4. Runs

Runs that pass:

| Run | Instance | What it shows |
|---|---|---|
| `Extract` | both modes, 3 pages of 6 kinds each (216 documents), 2 workers, 1 retry, budget 5, limit 3, cancellation at any time | order, limit, no blocked worker; each page in one place at any time; no failure lost in strict mode; a text that is not flagged stops only at a page without text; the reset comes after the last worker when nothing returns early; the refinement of `OrderedOutput`; the call returns and its workers exit |
| `Stream` | strict mode, 3 pages of 4 kinds, no retry, budget 3, limit 3, a consumer that may leave | `ClosedAfterRelease`, the refinement of `OrderedOutput`, the end of the stream and of the workers |
| `SlabAllocator` | 2 documents, 4 slabs of 3 sizes, 3 slice sizes, limit 10, alignment 2 | one owner per slab, disjoint slices, exact accounting |
| `Processor` | 2 extractions, 1 stream, 1 metadata call, 1 slot | slots are given back once on every path, also when a context ends during a hand-over; who may hold memory without one; every call ends |
| `Xref` | 8 570 files of up to 4 sections and 3 objects: two hybrid revisions, three streams, any links between them with cycles and dead ends, short indices; one stale entry; initial capacity 2 | which revision defines an object; a faulty `XRefStm` costs only the stream; no panic when `Index` covers `Size`; the reading ends when the links form no cycle |
| `ContentStream` | programs of up to 4 keywords out of 18, with 10 sequences of operands, 2 streams, 2 fonts and the name of a third, with and without a Font dictionary | the three readers show the same text; rows, columns and sentences lose none of it and are in order; a glyph is decoded by the font it is labelled with; the checks of operands nest |
| `PageTree` | 5 objects: trees and graphs that are none with any `Count`, inherited resources and cyclic parents, packed objects in two streams, outlines with any links | page i is the i-th leaf, no page comes twice; objects are found through `Extends`; fonts are the page's own unless shadowed; the walks end without a cycle |
| `Encodings` | bytes of 4 values, codes of 1 and 2 bytes, programs of up to 7 keywords, one of them out of order; Differences of 4 elements | with room for the runes, a text of listed codes decodes as listed; no other encoder drops a byte |
| `Parser` | a buffer of 3 bytes, some 1 300 texts: objects in arrays, integers at the limits of a reference, definitions, streams and object streams, and 6 odd ones cut off after any byte, by an end or by an error of the reader | what is written is read, however the bytes arrive; reading ends but in two places |

Why the bounds are enough.  Two workers and three pages let a later page overtake
an earlier one, let one worker fail while another holds a page and a third page
is still queued, and make the results channel hold several pages.  Lengths 0, 1, 2
against a limit of 3 give a text that fits, fits exactly, is cut, and finds the
limit reached.  A page with an operator charges three
allocations, so a budget of 5 is enough for one and ends in the middle of the second,
in its operand slice or in either of its decodings, and lets a retry fail for the
allocations of the attempt before.  With one slot and three callers a queue of two forms, so that a
hand-over meets a cancellation and a second waiter.  The slab sizes are the
default, a power of two above it and a size above the largest; slices of odd size
need padding.  `VIEW Unwritten` hides the bytes written, which no action and no
invariant of that run reads.  Symmetry is used only in that run, of the
documents, which no liveness property depends on.  A program of four keywords can set a font, save it, set
another and restore it, or define a keyword and use it.  Five objects are a tree of
three levels with a page to the left and to the right of a node, or two streams that
extend one another with two objects packed in them.  In `Encodings`, seven keywords
are a codespace section, both mapping sections and one more, and bytes of four values
have a carry and a range that crosses one.  A buffer of three bytes ends within every
token of the texts and before and behind every byte that is given back.  The constants
that bound a run (`MaxKeywords`, `MaxStreams`, `MaxOdd`, `MaxElements`, `OutlineBudget`) are
guards, except the last, which is the limit of the allocator.  Deadlock is not checked
because every model stops when the calls are over.

Runs that end in a counterexample, each checking one statement of a comment or of
the documentation:

| Run | Statement | What happens |
|---|---|---|
| `ExtractSkip` | `processor.go:39`, a failed page is skipped | an empty text stops the output for good (`processor.go:232`); the text of all later pages is lost, without an error or the flag; a page that is really empty does the same |
| `ExtractLimit` | `processor.go:94`, the flag says that the output hit the limit; `processor_test.go:166` expects it from `len(text) >= cfg.MaxTotalChars` | a last text that fits exactly brings the output to the limit and leaves the flag `false` (`processor.go:244`); only a text that is longer, or another page behind the limit, raises it |
| `PageTreeBuffer` | `page.go:94`, the reader holds a copy because the buffer is pooled | `buf.Bytes()` is no copy; when a page had a text, the next page extracted anywhere is written over it |

What `NewestRevisionWins` has to exclude is worth knowing, too.  An `XRefStm` of an
older revision replaces the entries of newer tables, because it is merged after
them and "the stream is authoritative" (`read.go:1047`).  The table is cut to the
`Size` of the oldest trailer, and `Root` is taken from it, because
`resolvePrevXrefTables` returns the last trailer it read: objects that an update
adds are lost.  An object that a newer table frees is found in an older one, because
an "f" row leaves its slot empty.  The comment of `mergeXrefTables` (line 1018) says
that a free entry is replaced by one in use; the code keeps it, rightly.  Without
the two preconditions on cycles and indices the reader hangs, or panics at
`read.go:412`: a stream whose `Index` ends before `Size`, as an update that only
changes an old object has.

Seen while reading, and not given a run.

Extraction and processor.  A context that ends while pages are queued
gives `Extract` a part of the text, `false` and no error (`processor.go:135`, against
line 94); the flag that `ExtractAsStream` returns is evaluated before anything is
streamed and always `false` (`processor.go:212`, against `README.md:112`); a page that fails behind the point of truncation is not reported in strict mode;
in strict mode a stream ends at a failed page as if it were complete
(`processor.go:279`, against line 30); a panic of `Reader.Page` or `cacheFonts` ends the
process in either mode (`processor.go:355`, `409`; the model has it as a "crash" page).
`Extract` and `ExtractAsStream` never close the file.

Memory.  An early return, at an error in strict mode or at the limit, resets the
allocator while workers are in `GetPlainText` (`processor.go:111`, against
`read.go:320`), so `ResetAfterWorkers` is about the returns that are not early; a recycled slab keeps its
bytes (`allocator.go:317`, against line 168); streams, metadata calls and workers left
behind hold memory without a slot (`processor.go:163`, `423`, against `config.go:29`);
decoders fall back to raw bytes where `README.md:144` promises an error, so
`DecodesAsListed` is about decoders with room; alignment
padding is not counted against the limit.

Cross-reference data.  In a hybrid file the index of an object in a stream is looked up
as a file offset (`read.go:1135`, against the comment below it), and with 30 % of such
entries the whole stream is dropped.

Pages.  The operator `"` always panics in `GetPlainText` and `walkTextBlocks`;
`GetTextByRow` and `GetTextByColumn` return neither text nor error after a panic, since
their `recover` assigns no named result; `walkTextBlocks` ignores `Td` and `cm`; text in
a font that is missing is raw in two readers and PDFDocEncoding in the third, or a panic
where the page has no Font dictionary; after `Q` text is decoded as the font before it,
because the encoder is not a part of the graphics state (`page.go:1222`), and
`DecodedByItsFont` excepts these glyphs;
`IsSameSentence` speaks of punctuation that the code does not look at; `Outline` panics
when `Outlines` is a free reference; the fonts of a document are cached by name alone;
the encoder "cached" at `page.go:237` is stored in a copy of the font and lost.

Character maps.  A hole in the array of a range decodes to nothing (against
`page.go:401`), so codes with one are not among those of `DecodesAsListed`; within one section the last of two entries for a code wins, across
sections the first; a codespace is compared as a string and not byte by byte; an odd
number of bytes in a replacement panics, also where only a line end is decoded
(`page.go:775`, `1314`); a font with Differences ignores its ToUnicode.

Lexer.  A hexadecimal string or an array that is cut off by the end of a content stream
is read for ever (`Stuck` of `Parser`); an odd hexadecimal digit before `>` panics.

## 5. Fairness

Liveness is checked under weak fairness of every goroutine: the feeder, the
closer, each worker, the collector or streamer, and each call of the processor.
Go's scheduler is preemptive and leaves no runnable goroutine out for ever, and no
step here needs more: a send or a receive that is possible stays possible, since
each channel has one kind of reader and enough room.  Nothing is assumed of the
outside: a context may never be cancelled, and a consumer may leave at any time
(a stream must then still let go of its workers, not of its streamer, which does
stay blocked).  Fairness for the streamer's send says only that a consumer that
has not left reads.  `Processor` treats an extraction as a step that ends,
which `Returns` and `WorkersExit` justify.  Reading and decoding one page is
assumed to end.  `PageTree` and `Parser` have one goroutine each, fair as a whole
(`WF_vars(Next)`); in `Parser` this includes that a reader that is asked for bytes gives
at least one or reports the end.

## 6. Proofs

The theorems hold for every value of the constants under the assumptions that the
modules name: any finite set of workers, calls, documents and object numbers, any
number of pages, retries and slots, any limit, any slab sizes, any file.
`PoolAssumption`, `LimitAssumption`, `ProcessorAssumption`, `AllocAssumption`,
`PowersAssumption`, `StaleAssumption`, `XrefAssumption`, `ContentAssumption`,
`IdsAssumption`, `FilesAssumption`, `ParserAssumption`, `CMapAssumption` and
`EncodingsAssumption` give the constants their types and ask for what
the code makes sure of or takes as given (at least one slot, a page and a limit above
zero, sizes below some power of two, records with the fields of a file, stale entries
that are not zeroed memory); TLC evaluates them in the runs.  Every
inductive invariant was an invariant of a run before it was proved, except `WalkOK`,
`OrderOK` and `OutlineOK` of `PageTreeProofs`, which speak of infinite sets or choose from
them: of these TLC sees the properties that follow.

**The pool and `Extract`** (`WorkerPoolProofs`, `ExtractProofs`).  None of the
properties is inductive alone.  That the output is the texts of the documents needs
what is still in flight to be so: in a worker about to send (`WorkersOK`), in the
channel (`ResultsOK`) and in `pageBuffer` (`BufferOK`).  That a truncated output stays
the same needs that the collector has left its loop.  That a send never blocks needs
counting: results in the channel plus busy workers are at most the pages taken
(`InFlightOK`), which are at most the capacity.  `Inv` is the conjunction, proved
action by action, the pool's part apart (`PoolNextInv`), so that both clients of the
pool use it.  `TypeCorrect`, `OutputInOrderCorrect` and `LimitCorrect`
follow; `SendNeverBlocksCorrect` also needs `RoomInResults`.
`Refinement` shows that every step of `Extract` is a step of `OrderedOutput` or
a stutter, with `Inv` for both states: that a text which is cut or left out has the
right length, and that its page is the next one.

**Delivery** (`ExtractProofs`, `DeliveryInv`).  Three things hold each other up.
`OneHolder` and `PlacesOK` say where each page taken from the queue is: with one
worker, in the channel, in `pageBuffer` or behind `nextPage`, and never in two of
these (`PageInOnePlaceCorrect`).  `ClosingOK` and `EndOK` say in which order the
goroutines end: the channel is closed after the last worker, and the collector sees
the end after the channel is empty, so that a page that is nowhere was never taken.
From both: the output stops before the last page only at an empty one
(`StopsOnlyAtEmptyPageCorrect`), and a call that returns neither an error nor a truncated
text has come to the end of the channel, so that it resets the memory after the last
worker (`ResetAfterWorkersCorrect`, in both modes; an early return leaves workers
behind, and there the property says nothing).  In strict mode every page
that got past a worker is sound (`StrictPoolOK`, `StrictCollectedOK`), so a call
without an error has lost none (`StrictSuccessIsTotalCorrect`).

**`ExtractAsStream`** (`ExtractAsStreamProofs`).  The invariant has the same parts,
and `ReleaseOK`: a streamer that comes to the reset without an error or a truncation
has seen the end of the channel, which is closed after the last worker (`ClosingOK`);
so a complete stream is closed with the workers gone and the memory given back
(`ClosedAfterReleaseCorrect`).  `StreamInOrder` and
`Refinement` (of the same `OrderedOutput`) are as for `Extract`, with a consumer that
may leave at any time.

**`Processor`** (`ProcessorProofs`).  `SlotsAccounted` - every slot is free, held by
one call or being handed over, and memory belongs to a call that may have it - needs
that the queue holds exactly the calls that wait, each once (`QueueOK`, itself the
theorem `QueueCorrect`), because a release hands its slot to the head of the queue;
and that a call which has not opened its document has no memory and no goroutine
(`UnopenedOK`).

**`SlabAllocator`** (`SlabAllocatorProofs`).  `PlacesOK` (the stacks of the pool and
the chains of the documents share no slab and hold none twice) gives
`SlabInOnePlaceCorrect`; with `PhaseOK` (what a document in reset or closed has left)
and the offset of a slab within its size it makes `SlicesDisjoint` inductive: a new
slice begins where the last of its slab ended.  `AccountingExactCorrect` is a
statement about a sum over the slices; it grows by exactly the length of the new
slice because that one is not among the others, which is `SlicesDisjoint` again.

**`Xref`** (`XrefProofs`).  `Inv` has the shape of the tables (`IsTable`: the slots fit
the capacity) and how the reader got to a section: along `Prev` to a table
(`TablesOK`), through an `XRefStm` to a stream (`StreamOK`).  Hence
`StreamFaultsToleratedCorrect` (a file that ends in a table is refused only when
memory is, or for a fault of a section along `Prev`) and
`NoPanicOnCoveredIndexCorrect`.  For `NewestRevisionWinsCorrect` and
`NewestStreamWinsCorrect`, `ContentInv` needs a set V of the sections read so far
(`StreamsRead`, `TablesRead`) that is not a variable of the program: links lead out of
V only at the section read last, every row in V has a slot, and a slot holds what
the newest section of V says.  When the last link is none, V is the whole chain.

**`ContentStream`** (`ContentStreamProofs`).  The three readers are compared at every
token.  `SameTextCorrect` needs that they agree on the encoder of the
next string (`SameDecoder`) and not only on the strings so far;
`DecodedByItsFontCorrect` needs `FontOK`, the same for the font of the graphics state.
`ChecksNestCorrect` is a comparison of two checks of operands per keyword, over every
stack that the machine of `Interpreter` can have (`IsMachine`: references of
the stacks lead into the heap); it is about the operands only, and holds with any of
the three stopped at any step for want of memory or in a decoder (`StopAlone`).
`EndTogether` says that none is done before the others have ended.

`ResultsKeepTextCorrect` is about what rows, columns and sentences make of any list of
pieces of text.  A piece is counted in a sequence (`Count`), and each stage keeps every
count: sorting is modelled as insertion (`Put`), which adds one (`PutCount`) and puts the
piece where the order wants it (`PutInOrder`, `SortedInOrder`); grouping takes one piece
after the other, and `FoundIs` is its invariant - the groups found so far hold the
pieces taken so far, each in a group of its own position, and no two groups have the same
position; flattening adds the counts up (`CountFlattened`).
A sentence is built glyph by glyph, and `SentencesKeep` is the induction: the
strings of the sentences so far, one after the other, are those of the glyphs so far.
Over the steps, only `FailedIsEmpty` is needed: a reader that failed has no pieces.

**`Encodings`** (`ContentStreamProofs`).  The machine is that of `Interpreter` again, with
other values, so its lemmas are stated for any set of values (`IsMachine`, `HasDicts`).
`Inv` says that the entries of a map are pairs of strings and ranges of one length
(`IsReading`), which gives `MapTypeCorrect`, and `HoldsListed`: as long as the program is
orderly, what it has listed is what its entries say, no more and no less.  The induction
over keywords (`MapStepInv`) rests on `HeldAfter`: at the end of a section as many operands
lie above the base as its count times its arity, so that the entries popped from the
stack, last one first, are those written, first one first (`CharsListed`, `RangesListed`).
`DecodesAsListedCorrect` then speaks of one state, and of decoders that have room for
the runes: the string decodes to the texts listed for its codes, or panics when one of
them is half a pair (`Outcome`).  The map cuts off the code that was
written because no shorter prefix is in a codespace (`WidthIs`); the first entry that has
the code gives the text that is listed because all texts listed for it are the same
(`CodeTextIs`), and for a range because the last byte is changed by the same distance
as the code (`RangeTextIs`).  `DecodedCodes` is the induction over the codes of a string,
along the recursion of `DecodeCMap`, which exists because it only looks ahead
(`CutsExist`).  For Differences, `DecodeByteIs` says where the loop of `dictEncoder` is after
each element, and `PlaceNext` that this is the place which the last number and the
names since give.

**`Parser`** (`XrefProofs`).  That at most two tokens wait is not inductive: a frame
that gives two back must have found none.  `LookAheadOK` bounds those that wait by what
the innermost frame waits for (`Room`: none for a third token, one for a
second, two otherwise), and says that bytes are only read when no token waits.  The
bounds of the index need that a piece lies within the text and that a byte is given
back only when the index is above zero (`FeedMoves`).  `DeliverMoves` says of every kind
of frame what it leaves; `ParserTypeCorrect` follows.

`ReadsAsIfWhole` is the refinement of `WholeText`: for any text, any capacity and any
pieces, `Parser` makes the tokens and values that a reader of the whole text makes, and the
data of a stream begin at the same place.  `WholeBuf` maps a buffer to one that holds
the whole text and stands at its `readOffset`; while a seek is under way it stands at
the place that is sought, so that the pieces loaded on the way are stutters.  Every
step of the scanner and the parser is then the same step (`SameScan`, `SameDeliver`), a `Reload`
being a `ReadByte` in the whole text.  What needs an argument is the byte given
back: it must be the one just read also when it was the first of a piece (`AsWholeUnread`), and
behind the end none is.  That a read fails only right behind a seek needs `SoughtOK`: an
index before the buffer stands at a place that a call has sought.  The theorem is stated
for `Spec`; that TLC's texts come in all pieces is thereby no restriction of
`ReadsWhatIsWritten`, only the choice of the texts is.  No run has it as a property; the same
formula, checked by TLC on the texts of the run `Parser`, held before it was proved.

**`PageTree` and `Objects`** (`PageTreeProofs`).  `FoundThroughExtendsCorrect` is about
a recursion: the search passes through every stream of the chain before its
steps are used up, shown by counting from the last stream back.  It holds for
cyclic chains, too.  `OwnFontsUnlessShadowedCorrect` needs that the search for
resources never leaves the lineage of its page and that every font in the cache
is the own font of a page before (`FontsOK`).  `NoPageTwiceCorrect` (in a tree, with
any `Count`) needs `WalkOK`: the walk is at a place that walks may get to, with
as many pages skipped as the number it looks for says.  `Walked` is the least set of
such places; in a tree there is one number of skipped pages for each place
(`OneWay`), so a page that is given at one place is given for one number.

`InTreeOrderCorrect` has two more halves.  For a tree with true Counts, the leaves below a
node are those of its kids one after another (`LeavesUnfold`, `FlatIs`): `Leaves` takes as many
steps as there are objects, which is enough because a relation without a cycle has no
more levels than that (`Levels`).  So at every place in `Walked` the pages skipped are
exactly the leaves before it (`FitsWalked`), and `OrderOK` says that the page looked
for is still among the leaves ahead: the walk neither passes it nor runs off the end,
and the page it gives is the leaf of that number.  For an outline, `OutlineOK` says
that the entries added, those from the child of the innermost call, and what each
waiting call has still to add (`Awaits`) make the whole outline in reading order; a
call takes its entry from that rest and a return nothing (`NextCall`, `LastReturns`).

How the proofs are done.  The induction theorems of the library take an operator as
an argument, which the provers cannot instantiate.  Induction over numbers is
therefore done with sets, from the well-foundedness of `<` (`LeastOfSet`,
`SetInduction`, `SubsetInduction`), and a recursive function is used through
`RecursionExists` and `RecursionTyped`: it exists because its values can be built one
after another, and stays in any set that its steps do not leave.  Least sets
(`Chain`, `Lineage`, `Walked`) are used through the sets with the same steps.

Only model-checked:

- liveness (`Returns`, `WorkersExit`, `EndsWithoutCycle` and the others under
  fairness), which is out of the prover's reach;
- `ReadsWhatIsWritten` of `Parser`: it compares with values that are given together with
  each text.  For every text it would need a grammar and induction over its words.

## 7. What is not modelled

Inside the modelled components: the text itself (a text is its page and its
length, so that decoded and raw text of a page are not told apart; a decoder that
falls back is only visible in the budget), the sizes of allocations (each is one unit), the timeout of an attempt (its context
is never read by an extractor), logging, the statistics and the unsynchronised
`AllocatorPool` of the allocator, the reset of an allocator that a worker is
allocating from (the two take the same mutex; `Processor` has its effect), and
overflow of sizes.  A document without pages returns before any worker starts
and is only in `Processor`.  Opening a file is one step that may fail: finding the
header and the end marker is a scan of one buffer.

`Xref` leaves out ranges of a section that overlap or are negative, negative
sizes, an object 0 that is in use, a generation 65535 of an object in use, and
widths (`W`): rows are decoded already.  A row that the data does not
reach has what the buffer holds for its type; without a field for the type, which
the code then takes for 1, it is a used row at the number that the buffer holds.

`ContentStream` has translations for matrices (besides the zero matrix that the text
matrices are before `BT`), one-code strings and glyphs of width 1; rectangles and `Ts`,
`Tw` and `Tz`, which rise or stretch glyphs, are left out but for the check of their
operands.  What a decoder answers is in `Encodings`; the two do not meet in one model.  `PageTree` takes the text
of a page as given.  `Encodings` takes a preserved code as its bytes:
`DecodeUTF8OrPreserve` would read the bytes of a code that is not mapped as UTF-8.  The
tables of runes and of glyph names are data.  `Parser` leaves out signs, real
numbers, integers beyond 64 bits, braces and readers that return neither bytes nor
an end nor an error.

Without a module: the filters (Flate is Go's library; PNG prediction and ASCII85 are
functions on bytes), `metadata.go` (strings and dates), the tracer (an append without
a lock, as `PROJECT.json` notes), the configuration, whose fields are constants here,
`name.go`, a generated table, and `examples/`, a caller.
