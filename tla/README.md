# Verification of itch-book

TLA+ models of this repository, the TLC runs that check them on small instances,
and theorems that TLAPS proves for every value of the constants: about the full-day book
and its price-time priority, the reference book beside it, the order stores, the reassembly
of the stream, the tables of a session and the LOBSTER export made of them, the background
feed, `itch2parquet convert` and `itch2parquet fetch`.  The repository is a C++ library that parses a NASDAQ TotalView-ITCH 5.0
feed and rebuilds every order book of a day (`include/itch`), with a Python package
on top that turns a day into tables and files (`python/`).

Contents: [the system](#the-system), [the modules](#the-modules),
[the runs](#the-runs), [fairness](#fairness), [the proofs](#the-proofs),
[what the code does not do that a document says](#divergences),
[what is not modelled](#not-modelled), [plan](#plan).

## The system

A day file is a stream of length-prefixed messages.  `StreamParser` reassembles
chunks into frames, `parse` counts frames and hands each message to a handler.  The
handler of the library is `BookManager`: it finds orders by reference in an *order
store*, applies the message to the `Book` of a stock locate, and reports tops and
trade prints to a sink.  The Python extension's `Session` is such a sink; it
writes rows of tables.  `Feed` reads the file in a thread of its own and feeds a
session; `itch2parquet convert` writes the batches of a feed to Parquet files with
another thread; `lobster.py` reads those files again and writes an account of each book.

| Component | State | Operations | What is hard, and what makes it correct |
|---|---|---|---|
| `Book` (`book.hpp`) | pool of levels, LIFO freelist of level handles, two sorted sides; links and sizes of its orders are in the store | `add`, `reduce`, `remove`, `replace` | long sequences: queues linked in arrival order, sides sorted, handles neither leaked nor shared, totals equal to what rests |
| `BookManager` (`book_manager.hpp`) | order store, books by locate, symbols, trading states, remembered tops, counters | one handler per message, `reserve`, `track_bbo` | messages that reuse a live reference (evicting an order of *another* book), replaces onto live or equal references, refused replaces; every order placed, every top change reported |
| Order stores (`order_store.hpp`) | pages, or pages of handles and a pool, or an open-addressing table | `find`, `touch`, `note_live`, `note_dead`, `reserve` | the handlers hold C++ references across calls that move orders; a store is a map from references to orders |
| Parser, stream (`parser.hpp`, `stream.hpp`) | bytes kept of a cut frame, counters, end-of-session mark | `feed` | cuts anywhere; the callbacks are those of the uncut stream |
| Wire (`wire.hpp`, `messages.hpp`) | none | `decode` of each type | an offset, a width or a byte order of one field of 17 types; a feed of zeros and small numbers hides all of them |
| `Session` (`module.cpp`) | a manager, selected locates, last depth rows, columns, ids of attributions | one handler per message, `take` | looks orders up before the manager takes them, asks for the outcome after; tables that can be replayed; every table cut at the same message |
| `Feed` (`__init__.py`) | event, queue, reader thread, generators | `batches`, `close` | a reader blocked on a full queue, generators dropped or superseded, errors in either thread |
| `itch2parquet convert` (`cli.py`) | writer thread, queue, part files and final files | `convert` | failures of either thread at any time, interrupts, kills; no half-written file under a final name |
| `itch2parquet fetch` (`cli.py`) | part file, final file | `fetch` | a server that fails, breaks off, ends early or ignores ranges; kills between the rename and the checksum; what one run leaves to the next |
| LOBSTER export (`lobster.py`) | orders of a locate | `_messages`, `_trades`, `_halts`, `export` | a second book, kept from rows alone: it must know what a replace deletes and what a partial fill leaves |
| Reference book (`test/reference.hpp`) | maps | the same handlers | what the fast book is compared with |

Parts interact by direct calls except for two pairs of threads, each joined by one
bounded queue (`Feed`'s reader and its caller; `convert`'s main thread and its
writer).  The C++ library runs in one thread; its hazards are sequences of messages,
not interleavings.  `PROJECT.json` lists every hazard at its line, with the
properties that would catch it going wrong.

## The modules

| Module | Models | State and actions |
|---|---|---|
| `Book` | `Book<Store>` | operators on values: a book is `[levels, free, side]`, an order store a function from references to orders.  `Add`, `Remove`, `Reduce`, `Replace` are the member functions; `FindOrCreate`, `EraseLevel` the private ones |
| `BookManager` | `BookManager` | one variable per member that a handler reads or writes; `OnAdd` ... `OnTradingAction` are the handlers, each whole; `ahead` is a history variable: who was there before whom |
| `PriceTimeQueue` | - | the abstract promise of a book: orders keep book, side, price and place while they rest, only shrink, and newcomers go to the back |
| `BookRefinement` | - | `RestingOrders`, the refinement mapping from `BookManager` to it |
| `Reference`, `Differential` | `test/reference.hpp`, `differential_test.cpp` | the naive book; the product of both under one feed, and `books_match` |
| `OrderMap` | - | the abstract promise of a store: a map |
| `StoreClient` | the calls of `Book` and `BookManager` on a store | parameterised by the store's operators; an address `At(t, ref)` stands for a C++ reference that is held, so a read through a stale one reads what is there now |
| `FlatHashOrderStore` | `FlatHashOrderStore` | table of slots; linear probing, growth, backward-shift deletion, under an arbitrary hash |
| `StorePages`, `PooledOrderStore`, `OrderStore`, `HashOrderStore`, `PagedStores` | the two paged stores, the one over `std::unordered_map` | pages and spare pages, the handle pool, a function with a domain; `PagedStores` runs the three under the same handlers |
| `Wire` | `wire.hpp`, `messages.hpp`, `test/encode.hpp` | operators: `Be`, `U48`, `Price4` are the readers on either kind of host, `Decoded` the `decode()` of every type; `Encoded` is the tests' encoder, which knows no offsets |
| `StreamParser` | `StreamParser`, `parse` | `Feed` is one call with the next chunk; `Parse` is a recursive function over the bytes; it has no specification of its own and is a component of `Batches` |
| `Session` | `Session` and its handler | extends `BookManager`: each action is the manager's handler with the rows it leaves; an add carries its side byte as it came; `copy` is a reader of the `messages` table (`replay` of `test_tables.py`); `unread` is a history variable: the orders at rest whose add bore the side `N` |
| `Tables` | the rest of `Session` | a session as a value: sequence numbers, the tables whose rows a message makes by itself, the selection, ids of attributions, `rows` and `take` |
| `Batches` | `Feed.batches`, `convert`, `Names` | the parser, the session and the writer of one day: `Read` is a chunk through all of them, `Last` and `AtEnd` the end, `Put`, `Get`, `Write` the two threads; `batches` is a history |
| `Lobster` | `_messages`, `_trades`, `_halts` | extends `Session`: each step is the session's with the lines its rows become; `ours` is the dictionary of orders |
| `Feed` | `Feed`, `_reader`, `_put` | one action per step between two blocking calls, of a reader thread per generator and of the caller's thread |
| `Convert` | `Writers`, `convert`, `flag_broken` | main thread and writer thread step by step; files as the payloads written to them |
| `Fetch` | `fetch`, `locate_remote`, `download` | one action per request, chunk and rename; files as sequences of chunks of the published file; runs one after another, kills and deletions between |
| `BookManagerProofs`, `SessionProofs` | - | the proofs about books, from one book as a value to the manager's and the reference's, and about what a session and the export write of them; the second extends the first |
| `StoreProofs`, `FlatProofs`, `StreamProofs`, `FeedProofs`, `ConvertProofs`, `FetchProofs` | - | the proofs about the stores, the reassembly of the stream, the feed and the two commands |
| `MC*` | - | values for TLC, symmetry and views |

Composition: `Book` is extended by `BookManager`, that by `BookRefinement`,
`Differential` (with an instance of `Reference`) and `Session`, and that by `Lobster`;
`StoreClient` is instantiated by each store and has `OrderMap` as its abstract
specification; `Batches` puts `StreamParser` and `Tables` on `Wire` together.  A session
is in two modules because its two halves are hard for different reasons: what the tables
of a book say depends on orders (`Session`), what is cut, numbered and handed out does
not (`Tables`), and the feeds of `Batches` hold no message whose row depends on an order
of an earlier one.

Abstractions.  In `BookManager` the store is the map it promises, and the store
modules show that the stores keep that promise under the calls the handlers make.
Level handles start at 1 and the handle 0 is `kNil`.  Stale fields of a dead order are
canonical: every caller assigns them before anything reads them.  Sizes and prices
are natural numbers and never wrap: message sizes are 32 bits, level totals 64, and no
operation adds to an order's size.  Timestamps, attributions, match numbers and
wording decide nothing there and are left out; on the wire every field is its bytes, and
`Wire` and `Batches` carry them all.

## The runs

To a book, a store or a session a message may carry any reference (unknown, live,
`kNilRef`, out of range), locate, side, price and size of the instance, zero included;
to a session an add may carry any side byte, which nothing in the code checks.  Nothing is
assumed of the feed but the bounds named below.  The days of `stream` are the ones listed
there.

| Run | Question | Bounds |
|---|---|---|
| `core` | structure of one book: `TypeOK`, `OrdersPlaced`, `Ladders`, `HandlesPartitioned`, `TimePriority`, `LevelTotals` | 3 references, 3 prices, 2 sizes: a level in the middle of a side, an order in the middle of a queue, partial fills, handle reuse |
| `books` | `ToldTop`, `TopsReported`, `PrintedAtRest`, and `ImplementsPriceTimeQueue` | 2 references, 2 books, 2 prices, 2 sizes, tracking toggled, a trade sink: an eviction from the other book, partial fills, prints of both kinds |
| `differential` | `BooksMatch` over the feeds `synthetic.hpp` can generate | 2 references, 2 books, 3 prices, 2 sizes |
| `flathash` | the hash store is a map (`ImplementsMap`), no probe chain is broken (`ChainsWhole`), the table never fills and counts what it holds (`LoadBounded`) | every hash of 3 references, 2 growing to 8 slots (`Caps`, `MaxCap`): every collision, wrap-around and growth mid-handler |
| `paged` | the pooled store is a map, `HandlesOnce`, `PagesWorked`, and the paged store and the one over a standard map agree with it, counts included (`StoresAgree`) | 4 references and `kNilRef` on 3 pages of two: pages shared, given back, taken again |
| `stream` | `ChunkingInvisible`, `PendingIsTail`, `DecodedAsSent`; `RowsOnce`, `NamesOfBatch` | three kinds of days: each of the 17 decoded types with bytes that all differ, once below and once from 128 up; every three of 5 frames, cut at every byte; every three of 5 messages the tables tell apart, cut at and inside each, with and without a filter.  A batch as soon as a table has a row, a queue of 2 as in the code |
| `session` | `CopyExact`, `DepthCurrent` (all or selected); `LinesAccount` | 2 references, 2 books, 2 sizes, depth 1, the side bytes `B`, `S`, `N` and a stray one |
| `feed` | `EveryChunkOnce`, `OneReader`; `NextReturns`, `CloseReturns` | 3 chunks, a queue of one (full after one put), 2 generators; a caller that goes back to superseded generators, or not |
| `convert` | `FinalsWhole`, `Complete`, `NothingLeft`; `Ends` | 2 batches of up to 2 tables and the last table, queue of 2 as in the code, 2 runs in one directory, every fault anywhere |
| `fetch` | `PartIsPrefix`, `Trusted`, `QuietRunSucceeds`; `Ends` | a file of 3 chunks, 5 attempts as in the code, 3 runs, every fault at every request and in every body; parts of an earlier run, of the right or wrong length, or foreign |
| `mirrored`, `convert_late` | sentences of the documents that the code does not keep | see [below](#divergences) |

Why these bounds are enough to be worth having: every branch of every handler needs
at most two live orders besides the message's own, and a queue or a side of three has a
middle.  A fourth order or price only repeats these.  Of `core` and `books` the proofs
remove the bounds altogether, of `differential`, `session`, `flathash`, `paged`, `feed`,
`convert` and `fetch` for every safety property, and of `stream` for `ChunkingInvisible` and
`PendingIsTail`.  In `stream` one message is enough for its own fields, three frames have a
middle that a cut can miss on either side, and three messages of the tables let the writer
thread fall behind: a row between two directory messages that name its locate, written
after both.

Symmetry and views.  References are model values that are only compared, so the
runs permute them (`RefSymmetry`, in `flathash` under every hash); the runs of liveness use no symmetry.  The
views leave out what no later step reads: the counters and the print of the last
message, rows and lines (made anew by every message), symbols and trading states
(nothing in the books reads them), the contents of
levels on the freelist (`find_or_create` blanks a level before it is used), the tops
remembered while tracking is off (`track_bbo` resets them).  The view of `session` keeps of
the two readers' memory what concerns orders at rest on selected books, `unread` ones
excepted, and of `copy` the dead as well when every symbol is selected: a row that rests an
order anew rewrites what they keep of it, and the properties ask for nothing else.  Action properties
are evaluated on every step TLC takes, before the view is applied.

Named bounds in the models: `DirectoryInTime` of `Session` (with a symbol filter,
stock directory messages come while no order rests, as they do at the start of a
day: a locate selected later has no depth row before its next change), `InFeed` of
`Differential` (a refused replace never names a live new reference; the test's
generator draws fresh ones), `Runs`, `Batches` and `Chunks`; in `Batches`, `Days` with the
places where the chunks of a day may end (`day.cuts`) and `BatchRows`.  `LinesAccount` is
stated of steps in which no message reuses a live reference or takes more than rests (none
counts `dup_ref` or `clamped`): a line of such a message names what the message said, not
what the book did.  It and `CopyExact` except the orders in `unread`, of which the table
itself says that nothing changed.

What the runs show, component by component:

- *Book and manager.*  No sequence of messages, however malformed, breaks a queue, a
  side, a total or the freelist; `books_[o->locate]` and `levels_[o->level]`, which
  the handlers index unchecked, are always there; an eviction from another book
  reports both tops.  The books implement the price-time queue.
- *Stores.*  The one place where `on_replace` must fetch its order again (after an
  eviction that may shift it) is enough: every store stays a map under every hash, with
  the counts it reports.  Both paged stores give back a page exactly with its last order,
  and all stores find the same orders after the same messages.
- *Wire and stream.*  Every field of every type reaches its callback as it was sent, in
  bytes that all differ, so that no two fields, offsets or byte orders can be confused.
  Whatever the cuts, callbacks and counters are those of one pass over the bytes, and what is
  pending is the partial frame at the end, nothing after an end-of-session mark.
- *Batches.*  A batch that is cut because one table is full takes the rows of all of them up
  to the same message, none is lost or handed out twice, the attributions travel with the
  rows that name them, and the writer thread, however late, looks names up as they were at the
  end of the batch, since `Names.update` copies the array.
- *Session.*  `messages` determines every resting order of a selected book but one whose
  add bore the side `N`, and that byte confuses readers about no other order, and about this
  one no longer than until it is gone or a replace rests it anew; any other stray byte is
  harmless, since readers take it for a sell as the book does.  With every symbol selected
  a reader knows no order that does not rest.  Depth rows of a selected book follow it
  through messages of other books.
- *LOBSTER export.*  Under the same exception, and of messages that neither reuse a live
  reference nor take more than rests, the lines of a selected symbol add up to its book: each
  changes the size of one order by what the book did, at the price and side where that order
  rests, through partial fills and chains of replaces.
- *Feed.*  Closing, dropping or superseding generators never leaves two readers or a
  reader that outlives `close()`; chunks arrive in order and once, and an error of
  either thread reaches the caller.
- *convert.*  Files under their final names are whole at every moment, kills included;
  a run that returns 0 left exactly its own files; the queue never blocks both threads.
  Of a run that does not return 0, only the wholeness of files is shown once the renames
  have begun: a failure or a kill between the rename of `trades` and its flags leaves a
  whole file without them (`convert_late` finds the failure, no property names the kill).
- *fetch.*  Resumes never misplace a chunk; a file under its final name is the published
  one or was left unchecked, which happens when no checksum can be read and when the
  process ends between the rename (`cli.py:454`) and the checksum, since the next run only
  reports that the file exists (`Trusted` describes these two cases by the flag `unchecked`
  and excuses them, a body that ended early among them); a run in which nothing fails succeeds, except when the
  server sends no length and the part is complete already, where every attempt is
  answered 416.

## Fairness

`BookManager`, the stores, `Session`, `Lobster` and `Batches` have safety properties only.
`Feed` assumes weak fairness of the caller's thread inside a call (`MainStep`) and of
each reader thread (`ReaderStep`): the operating system schedules threads that can run.
Nothing is assumed of the caller between calls, and a `get` with a timeout is a step
that changes nothing (`GetTimesOut`), so waiting counts as waiting.  `Convert` assumes
the same of its main thread and its writer thread; nothing makes a user start a run, a
fault happen or a kill come.  `Fetch` assumes it of the one process of a run; its requests come
back because `http()` sets a timeout.  The properties are of the form "once inside the call, it
returns", with two generators or two runs and every interleaving.

## The proofs

Each theorem holds for every value of the constants that satisfies the assumptions named
with it; the assumptions say what a constant is (a number, a finite set, a value that is
none of the others), and TLC evaluates them in every run of the module.  An invariant
that is proved comes with an inductive one, listed first.

Two kinds of definition need induction over data, which the library states for operators
and TLAPS cannot use: sums, which the community modules compute by a fold, and the
recursive function `Parse`.  Both are reasoned about by the least number for which a claim
would fail (`LeastOf`).  `BookManagerProofs` shows so that the fold over a finite set exists,
does not depend on the order in which it adds, and splits at every element (`SumSplits`);
the books, the reference book and the export's lines use it.

### Books

`BookManagerProofs` and `SessionProofs` hold for any finite set of references and any
bounds on locates, prices and sizes (`RefsAssumption`, `BoundsAssumption`,
`FlagsAssumption` of `BookManager`), the refinement for a value that is no order
(`AbsentAssumption` of `BookRefinement`), the session for any depth and any selections
and any side bytes (`DepthAssumption`).

| Theorem | Says |
|---|---|
| `Invariant` | `Spec => []IInv` |
| `TypeCorrect`, `OrdersStayPlaced`, `LaddersStaySorted`, `HandlesStayPartitioned`, `LevelTotalsHold` | the invariants `TypeOK`, `OrdersPlaced`, `Ladders`, `HandlesPartitioned`, `LevelTotals` |
| `ToldTopHolds`, `TopsAlwaysReported` | the invariant `ToldTop`, the action property `TopsReported` |
| `PriorityInvariant`, `TimePriorityHolds` | `[]QInv` and from it `[]TimePriority`: the links of every queue spell out the order of arrival |
| `ImplementsPriceTimeQueueHolds` | the refinement: every step of the manager is one of `PriceTimeQueue` or a stutter |
| `PrintedAtRestHolds` | the action property `PrintedAtRest` |
| `MirrorInvariant`, `BooksAlwaysMatch` | `DSpec => []DInv` and `[]BooksMatch` for `AnyFeed = FALSE`, the feeds `test/synthetic.hpp` can generate: the reference book always agrees |
| `SessionInvariant`, `DepthCurrentHolds`, `CopyExactHolds` | `SSpec => []SInv`, and `[]DepthCurrent`, `[]CopyExact`: a reader knows every order at rest on a selected book that is not in `unread`, and with every symbol selected no order that is gone |
| `ExporterInvariant`, `LinesAccountHolds` | `LSpec => []LInv`: what the exporter remembers of those orders is true; and the action property `LinesAccount`: a message without `dup_ref` and `clamped` changes their sizes by what its lines add up to |

*One book.*  The first part of `BookManagerProofs` is about one book as a value: what
`FindOrCreate` and `EraseLevel` do to sides, freelist and handles (they keep `Laddered` and
`HandlesOwned`, and add or remove exactly one listed handle), over lemmas on the sequence
operators used (`InsertAt`, `RemoveAt`, `Front`, `SelectLastInSeq`); then with its orders:
`AddInPlace`, `RemoveInPlace`, `ReduceInPlace` say that the three operations keep the
orders of a book in place, counted and summed, and leave the orders of other books alone.

*The manager.*  `IInv` is `TypeOK`, `OrdersPlaced`, `Ladders`, `HandlesPartitioned` and
`LevelTotals`.  Hardly one of them is inductive alone: that a level is erased exactly when
its last order leaves is what keeps every order at a listed level, and `orders = 0` means
"last" only if the counter is right; `Ladders` needs the handles partitioned (a reused
handle must not be listed), handles need the ladder (the erased level is found by the sign
of its key), and placement needs both.  There is a lemma per handler (`AddHandled`,
`ReduceHandled`, `DeleteHandled`, `ReplaceHandled`, `RestStep`) and one for the eviction both
`on_add` and `on_replace` begin with (`EvictedSound`); `StepInvariant`, `StepToldTop` and
`StepReports` follow, and the theorems by induction over the steps.

*Priority.*  `QInv` adds that the history variable `ahead` orders the live orders strictly
and totally (`Lined`), and `TimePriority`.  `remove()` ties the neighbours of an order to each
other without a look at the queue; that what it ties are neighbours in time follows only
if the links said so before.  The proof first replaces the quantified `IsEnd` of
`TimePriority` by two predicates on one queue (`Threaded`), shows what joining at the
tail, leaving from anywhere and changing an order in place do to one queue, then to all
queues of all books (`Ordered`), and then says of each handler what it does to every order
(`AddDoes`, `ReduceDoes`, `DeleteDoes`, `ReplaceDoes`: who joined, left or shrank, and that
every other order is at the same price, side and size as before).  The steps of
`PriceTimeQueue` and `PrintedAtRest` follow from those.

*The reference book.*  `DInv` adds to `QInv` that the levels of the reference book total its
orders (`Tallied`) and that its orders are those at rest in the manager's books
(`Mirrors`).  `BooksMatch` compares levels only, by sums kept along two different ways; it
follows because on each side the level is the sum over its orders and the orders are the
same.  The `Does` lemmas say what the manager did to each order, and the same is shown of the
reference's handlers.  The hypothesis is the one the run `mirrored` shows to be needed.

*Session.*  `SInv` adds that the depth table is current for the selected locates and blank
for the others (`Unshown`: a locate that a directory message selects late must start from
the truth) and `CopyExact`.  `DepthKept` reduces the depth table to one obligation per
handler, that every book it changed is among those `emit_depth()` is called for (the
`Emitted` lemmas; the book evicted from is the difficult one).  `CopyExact` follows from the
`Does` lemmas: the session looks the order up before the manager takes the message, and
these say that what it wrote into the row is what then rests.  It needs `unread` to be
inductive: a fill of an order that rests unread says a remainder of an order the reader
does not know.  So the lemmas follow an order from step to step only while it is not in
`unread`, or leaves it because a row with a readable side rests it anew (`StillUnread`,
`UnreadKept`, `SideRead`).  `SSpec` has the bound
`DirectoryInTime`, and the theorems hold under it.

*LOBSTER export.*  `LInv` adds that the exporter holds the truth about every order that rests
on a selected book and is not in `unread` (`Remembered`).  Of orders that lost their reference to another book it
may go on holding what was true; these entries are never read, since a row names the
locate where the order rests.  From this every handler's lines are written down
(`LinesAre`), and their effects on one order, a sum over the lines about it, are what the
`Does` lemmas say the book did.  `LinesAccount` is asked of an order that is in `unread`
neither before nor after the message (`UnreadAccounted`).

### The stores

`StoreProofs`, for any finite set of references, page size and set of orders
(`PageAssumption`, `NoPageAssumption`, `PagedAssumption`):

| Theorem | Says |
|---|---|
| `StoreInvariant` | `[]SteadyStore` of the pooled store, the default |
| `HandlesOnceHolds`, `PagesWorkedHolds` | the invariants `HandlesOnce`, `PagesWorked` |
| `ImplementsMapHolds` | the refinement: every handler is one step of `OrderMap`, or none |
| `AgreementInvariant`, `StoresAgreeHolds` | `AllSpec => []AllInv`, and `[]StoresAgree`: the three stores find the same and count the same after the same messages |
| `PagedImplementsMapHolds`, `HashedImplementsMapHolds` | the paged store and the one over a standard map implement `OrderMap` as well |

`SteadyStore` says of the store between two messages that every handle is under one
reference or on the freelist and in one place (`Handed`), that every resident page counts
the references on it (`Counted`), and that whatever has a handle is a live order.  Inside a
handler the last fails: `touch()` hands out a handle before the order is counted,
`note_dead()` takes it back when the order is already dead.  So the lemmas about `Touch`,
`Write`, `NoteLive` and `NoteDead` are about a store with a set of references *counted* beside
those *held* (`Sound(t, counted)`), and the lemmas about handlers put them in the order of
the calls, across an eviction in the middle (`AddServed`, `ReplaceServed`): that the page a
reference was touched on may be given back and taken again before it is written is where
the counts are needed.

The other two stores are shown to follow the default one call by call (`TouchAgrees`,
`WriteAgrees`, `LiveAgrees`, `DeadAgrees`): after every member function, in the middle of a
handler too, the three find the same order under every reference, the two paged ones have the
same resident pages with the same counts and as many spare ones, and the standard map
has an entry exactly where the pooled store has a handle (`Agree`).  `live_orders()` is a sum over
pages on one side and the size of the map on the other, equal by `FoldCounts`.  That they
implement `OrderMap` follows from `ImplementsMapHolds`, since a mapping of equal finds is the
same mapping.

`FlatProofs`, about the open-addressing store, for any finite set of references, any set of
orders, any hash and any initial capacity (`CapAssumption`):

| Theorem | Says |
|---|---|
| `TableInvariant` | `[]TableInv` |
| `ChainsWholeHolds`, `LoadBoundedHolds` | the invariants `ChainsWhole`, `LoadBounded`: no probe chain is broken, the table is never full and its count is right |
| `ImplementsMapHolds` | the refinement: every handler is one step of `OrderMap`, or none |

`CapAssumption` says that capacities double up to a largest one, `MaxCap`, which has room for
every reference below the load limit, and that no hint of `reserve()` asks for more.  In the
code a table doubles for as long as it must, so that for finitely many references there is
such a capacity.  `TableInv` says that every entry is reached from its home through full
slots, around the end of the array too, and that no reference has two (`Tabled`); that
`size_` counts the full slots and is below the limit; and that between two messages each
entry is a live order (`Steady`).  `Tabled` says of the slots what `ChainsWhole` says of
`probe()`, so that it can be said in the middle of a loop too.  It is not inductive without
the load: if no slot is empty, neither a probe nor a shift ends, and only a right count
keeps one empty.  The argument has three parts.

- *Probing* (`FirstFromIs`, `Probed`, `NoEntry`).  Below the limit a slot is empty, so a probe
  ends; in such a table it ends at the entry, or at a slot where one can be put without
  breaking a chain (`EntryPut`).
- *Growth and deletion.*  `rehash()` and `erase()` loop over slots, and the model of each loop
  is a recursive function on the slots passed, with a loop invariant of its own.  For
  `rehash()`: the new table is well formed and has the entries of the slots passed
  (`EntryMoved`, `AllMoved`).  For `erase()`: the entries are those of the old table but
  the one deleted, and no entry looked at so far is reached over the hole (`Opened`,
  `HoleMoves`, `AllShifted`).  The comparison of distances modulo the capacity in `erase()` is
  what keeps the second part; when the loop meets an empty slot no entry is left that
  could be reached over the hole, so emptying it breaks nothing (`HoleCloses`).
- *Handlers.*  What the table keeps after each member function (`Kept`) and what it
  finds (`TouchFresh`, `Writing`, `Dying`), put in the order of the calls: a growth
  in the middle of an add, an eviction that shifts the entry a replace is about to read.

### The stream

`StreamProofs`, for any set of days that are sequences of bytes and any cuts
(`BatchesAssumption`):

| Theorem | Says |
|---|---|
| `ReassemblyInvariant` | `BSpec => []Reassembled` |
| `ChunkingInvisibleHolds`, `PendingIsTailHolds` | the invariants `ChunkingInvisible`, `PendingIsTail` |

`parse()` walks along positions of a buffer and `feed()` calls it on buffers it has put
together.  `ParseUnfolds` turns the first into the second: `Parse` of a buffer is the result
of its first frame plus `Parse` of what is behind it.  The heart is `ParseSplits`: one pass
over `x \o y` is the pass over `x` plus the pass over what that left and `y`.  The loops of
`feed()` keep `Held`, that the passes so far and one over what is left make one pass over
all that was fed: the frame completed byte by byte or in one copy (`FillHolds`,
`FilledHolds`), then the bulk of the chunk (`BulkSettles`).  What is pending is always a
part of a frame, and nothing after an end-of-session mark.

### The feed

`FeedProofs`, for a file of any number of chunks, a queue of any size and any set of
generators (`FeedAssumption`):

| Theorem | Says |
|---|---|
| `OneReaderHolds` | `[]OneReader`, whatever the caller does with its generators |
| `EveryChunkOnceHolds` | `[]EveryChunkOnce`: generators used one after another hand out the chunks in order, each once and all of them |

The inductive invariant has three parts.  `Types` says what the variables hold.  `Threads`
says that only `self._thread` is alive, that `close()` is past its loop only without a
thread, and that the thread is the one whose queue `self` refers to; it needs no
assumption about the caller and gives `OneReader`.  `Orders` is stated for callers that do
not go back to a superseded generator: of a generator whose event is not set, the chunks its
session has had, those on its queue and the one its reader holds count on from the first
chunk to the reader's next, an exception in the last place at most (`Lined`).  `OneReader`
and `EveryChunkOnce` are not inductive: a start of a generator is harmless only because its
queue is new and empty (`Fresh`), a stale reader only because its event is set, and the
last batch is complete only because nothing can follow the end of the file on the queue.
`ReadersKept` to `CallerKept` show that each step keeps `Types` and `Threads`,
`ReaderOrders` to `CallerOrders` that it keeps `Orders`, each from what the step does
(`ClosedDoes`, `CloseDoes`, `NextItemDoes`) and, for the generators a step does not touch,
`Frame`; lemmas on sequences that count on (`FollowsOn`, `FollowsTail`, `CountedOn`) do
the rest.

### convert

`ConvertProofs`, for any finite set of tables, any selections of them, any number of batches
and runs and any faults (`ConvertAssumption`; the queue of two is the code's):

| Theorem | Says |
|---|---|
| `ConvertInvariant` | `[]CInv` |
| `FinalsWholeHolds`, `CompleteHolds`, `NothingLeftHolds` | the invariants of the run `convert` |

`CInv` follows a run through its places.  `Together` says where the two threads can be at the
same time; `Flow` that the queue holds the payloads sent last, in order, with `None` behind
the very last; `Written` that until something fails every payload the thread is done with is
in its part file and no other is; `Closing` and `Closed` that files are finished and renamed
one by one in the order of the writers, which `Written` makes whole at the end of the
queue.  `Cleaning` and `Tidy` are about failed runs: a run starts without files, and as long
as only the feed or a write has failed every part file has a writer that `abort()` goes
through.  `Past` keeps the files of earlier runs whole.  There is one lemma per action.

### fetch

`FetchProofs`, for a published file of any length and any number of attempts and runs
(`FetchAssumption`, and that no sequence of chunks is taken for a missing file,
`NoFileAssumption`):

| Theorem | Says |
|---|---|
| `FetchInvariant` | `[]FInv` |
| `PartStaysPrefix`, `TrustedHolds`, `QuietRunsSucceed` | the invariants `PartIsPrefix`, `Trusted`, `QuietRunSucceeds` |

`FInv` adds to the three what each place in a run may count on (`Placed`: the body goes on
where the part ends, a request is made only for a part not known to be complete) and what a
run in which nothing went wrong may (`Quiet`: what it renames is the published file).

### What stays with TLC

Only model-checked, all of `Batches`: `DecodedAsSent`, which is about the bytes of the days
listed, and `RowsOnce` and `NamesOfBatch`, which are about a fold over the rows of a day.  Liveness under fairness
(`NextReturns`, `CloseReturns`, `Ends`) is beyond TLAPS.

## Divergences

Two sentences of the documents that the code does not keep, each the subject of a
run that finds the counterexample:

- `mirrored`.  README.md:342-344, "mirrored exactly by the reference implementation".  A
  replace with no shares or price whose new reference is live evicts that order in
  `on_replace`; `test/reference.hpp` returns before it looks at the new reference.
- `convert_late`.  README.md:186-187, "a failed run leaves nothing behind".  `close()`
  renames file by file and `abort()` unlinks part files only: what was renamed before a
  later rename, close or `flag_broken` failed stays.  `NothingLeft` in the run `convert`
  is the part that holds.

Four more, seen while modelling and not among the runs.

- An add whose side byte is `N` rests as a sell (`book_manager.hpp:107`), and its row bears
  the byte as it came (`module.cpp:226`), so that to a reader nothing changed (README.md:141-142,
  `test_tables.py:252`, `lobster.py:62`).  `CopyExact` and `LinesAccount` except such an order.
  Any other byte is written as well and means a sell to the book and to `lobster.py:64`;
  the reader of the model takes it so.  `replay()` of the tests keeps the byte itself, and
  raises `KeyError` on a partial fill of an order it does not know, where the model's
  reader stays as he is.
- Turning tracking on resets the remembered tops to empty, so a book whose next change
  empties it looks unchanged and is not reported (README.md:338-340, "the next change on
  every book is reported").
- With a symbol filter a reader of `messages` keeps an order that an add or a replace of a
  filtered-out book evicted (README.md:384-387; `CopyExact` therefore says that he knows no
  other orders only when all symbols are selected).
- A replace that merges two orders of the top level changes the order count only, which
  leaves a row in depth and none in bbo (`test_depth_one_equals_bbo`).

## Not modelled

- `MappedFile`: a move-only wrapper of the operating system's mapping.
- The 32-bit columns of bbo and depth (totals in the model are unbounded and stop before
  the column), the hand-over of columns to numpy, scaling and casting of the columns
  (`_common`, `to_polars`).
- Of the LOBSTER export, the join of the lines with depth by sequence number, the time
  window and the csv files: they select and format rows the models have.
- `itch2parquet list` and `verify`, the replay tool, benchmarks, generators: they read
  once and print.
- Generators of one feed that overlap: the run `feed` reaches them and `OneReader` covers
  them; no document promises which chunks they get.

## Plan

Done, in this order: `Book` and `BookManager` with their invariants; the refinement to
`PriceTimeQueue`; `Reference` and `Differential`; the proofs about the manager; the stores
under `StoreClient`; `StreamParser`; `Feed`; `Convert`; `Session`; `Fetch`; `Lobster` as a
second reader of the tables; `HashOrderStore`; `Wire`, `Tables` and `Batches`; the proofs
about `Feed`, price-time priority, `Fetch`, the pooled store, `Convert` and `Session`; the
sums, and with them `LevelTotals`, `BooksMatch`, `StoresAgree` and `LinesAccount`; the proofs
about the stream and the open-addressing store.

Next, most important first:

1. Proofs: `RowsOnce` and `NamesOfBatch` of `Batches`.
2. A manager over a store in one run, in place of the two that meet at `OrderMap`.
3. `Session` in place of `Tables` in `Batches`, over feeds that name live orders.
