# TLA+ models of ELM

ELM is the C++ library under the OTAWA tools: containers, allocators and
garbage collectors, streams, threads and a job scheduler, processes, sockets,
plugins, text formats. It is a library of many small parts that meet mostly
through the program that uses them, so this project has one module per part that
keeps state, a few abstract specifications of what several parts promise, and MC
modules that give them finite sizes.

Paths below are relative to the root of the repository.

## 1. Inventory

### 1.1 Parts that are modelled

| Part | State it keeps | Operations | What is hard | What makes it correct |
|---|---|---|---|---|
| `sys::JobScheduler` | `state`, `prod`, the thread count, the mutex, the jobs in flight, the exception kept | `setProducer`, `setThreadCount`, `start`, `stop`, `run` in every thread | threads interleave, `stop()` writes without the mutex, callbacks throw, the producer grows when a job is harvested | every job run and harvested once, `next()`/`harvest()` never concurrent, `start()` returns, and only after all threads |
| `ListGC` (`AbstractGC`) | the list of blocks with mark bits, `cnt`, `lcnt`, `lim`, `dis` | `allocate`, `runGC`, `mark`, `clean`, `disable`, `enable` | a cycle runs callbacks of the application in the middle of an `allocate()` | nothing in use is deleted, everything else is, the list is exact |
| `GroupedGC` | chunks by bins, free lists, chunks in first use, `needGC` | `allocate`, `mark`, `doGC`, `clear` | bins that do not divide a chunk, chunks partly used | no overlap between living, free and fresh memory |
| `SimpleGC` | chunks, free list, bits, temporaries | `allocate`, `mark`, `doGC`, `clear` | the free list is rebuilt from bits | as above, in granules |
| `BlockAllocatorWithGC` | chunks, free list, counters, two collection modes | `allocate`, `mark`, `collectGarbage`, `clear` | collection on demand | no living block in the free list |
| `StackAllocator` | chunks, `top`, `max` | `allocate`, `mark`, `release`, `clear` | marks across chunks | blocks inside the chunks, disjoint; no byte lost |
| `SharedPtr`, `LockPtr` | cells and counts | copy, assign, destroy | a deletion may start another one | counts exact, no pointer to a deleted object |
| `VectorQueue` | `hd`, `tl`, `cap`, the ring | `put`, `get`, `reset` | wrap and enlargement | a FIFO |
| `avl::GenTree`, `Set`, `Map`, `Queue` | nodes with balance factors, `cnt` | `add`, `remove`, `join`, `meet`, `diff`, ... | rotations on removal | ordered, balanced, counted; a store of keys |
| `HashTable`, `HashMap`, `HashSet` | chains | `put`, `get`, `remove`, iterators | look-ups move nodes, also under an iterator | one node per key, in its chain; a store of keys |
| `BinomialQueue` | a forest | `put`, `get`, `head` | three trees of a degree in a merge | a priority queue |
| `stree::Tree`, `Builder`s | sorted segments, array of nodes | `add`, `make`, `get` | size of the array, holes between segments | the value of the segment of each key |
| `BufferedOutStream` | `top`, `buf`, the stream | `write`, `flush`, `reset`, `setStream` | the stream fails or takes a part | order, bounds, right stream |
| `BufferedInStream` | `pos`, `top`, `state` | `read`, `reset`, `setStream` | refill fails between two reads | each byte once |
| `StreamPipe`, `TeeOutStream` | a block in flight | `proceed`, `write` | a sink fails | both copies are what was read |
| `BitVector`, `WAHVector` | words with unused bits; fills and literals | all set operations and queries | unused bits, fills that split and join | the set the calls describe |
| `Thread`, `Runnable`, `Mutex` | `running`, the key of the thread, `thr` | `start`, `join`, `kill`, `stop`, `lock`, `unlock`, `tryLock` | races of join, kill and locks | flags true of the threads, `join()` ends |
| `ProcessBuilder`, `Process`, `System::pipe` | the table of descriptors, errno | `run`, `wait`, destruction of the streams | any system call fails in the middle of a redirection | the table is put back, readers see the end |
| `Server`, `ServerSocket`, `ClientSocket` | descriptors, `on`, streams | `open`, `manage`, `close`, `connect`, `disconnect` | descriptors closed twice, overwritten or abandoned by an exception, close during accept | held descriptors are open, open descriptors are held, `manage()` ends |
| `String` | buffers with a use count of 16 bits, offset and length of each variable | construction, assignment, `substring`, `concat`, `trim`, searches, `replace`, `toCString` | variables share a buffer that one of them may write | counts exact, a string keeps its value whatever happens to the others |
| `List`, `SortedList`, `ListSet`, `ListMap`, `ListQueue`, `BiDiList` | nodes and links, iterators | additions at either end and at an iterator, removals, `join`, `meet`, `diff` | removal under an iterator, merges of two sorted lists | the items in order, every node in one list or free |
| `Vector`, `AllocArray`, `FragTable`, `StaticStack` | buffers, counts and capacities, pages | `add`, `insert`, removals, growth, `alloc`, `copy`, `detach`, `push`, `pop` | growth and pages that fill exactly | the items given, writes inside the buffers, each buffer freed once |
| `TreeBag`, `TreeMap`, `SortedBinTree`, `BinTree`, `Tree` | binary trees that are not balanced, children and siblings | insertion, search, removal, walk, `clear`, `copy` | equal keys, relinking of the subtrees of a removed node | order of equal keys, nothing else removed, each node walked and freed once |
| `option::Manager` | options by name, values, free arguments | `manage`, `parse`, `processOption` | short options in a group, arguments in the next word, exceptions of the program in the middle | each word of the command line is used once |
| `json::Saver`, `json::Parser` | state and stack of the saver; a recursive descent over tokens | begin, end, keys, values; `parse` | calls in a wrong order, a `Maker` that refuses | accepted calls give a text the parser reads back as the same calls, but for strings with escaped characters (section 7) |
| `dtd::Parser` | place among the children, attributes, saved places | `parse`, `test`, contents, attributes | backtracking over alternatives that have side effects | what is accepted conforms to the description, exact identifiers and references |
| `serial2::XOMSerializer`, `XOMUnserializer` | queue of objects, identifiers; table of references with pending places | `serialize`, `unserialize` of classes, pointers, lists, enumerations | a pointer met before its object, cycles | the graph read is the graph written |
| `io::Input`, `io::Output` | one character in hand, `state` flags | scanning and formatting of integers, floats, strings, booleans | one character of look-ahead, the ends of the ranges, exceptions of the stream | what is printed is read back, no character is lost |
| `Plugger`, `Plugin` | tables, use counts and ages, paths, `err` | `plug`, `unplug`, `addPath`, iteration | ageing during a plug, a failure among several files | counts exact, tables of loaded plugins |

Interactions: the containers take allocators and comparators as template
parameters and call them synchronously; the collectors call the program back
(`collect`, `destroy`); the scheduler calls the producer and the jobs back from
several threads and uses `Thread` and `Mutex`; `StreamPipe` pulls from an
`InStream` and pushes to an `OutStream`, here a buffered one and a tee;
`ProcessBuilder` takes the streams of `System::pipe()`; two `Plugger`s share the
plugins of the program; the unserializer and the `dtd` parser walk the elements
of an XML document that libxml2 has read. Nothing is persisted: there is no recovery to model.

### 1.2 Parts that are not modelled

`PROJECT.json` lists every part with its sources. Those without a module are:

- small text machines, candidates for later modules: `VarExpander`, the reader of
  `ini::File`, `Path::canonical` and `relativeTo`, the decoders of `utf8` and
  `utf16`, `TextSerializer`;
- pure functions and arithmetic: the immutable lists (their cells live in the
  collectors, which are modelled), quicksort, MD5 and Fletcher, `Version`;
- thin wrappers of system calls or of another part: unbuffered streams, files and
  directories, `dyndata`, `UniquePtr`, the classes of `xom`, each method of which
  is one call of libxml2. The models take them as their environment;
- layout and messages: `StructuredOutput`, `ansi`, `Monitor`, `log`, the pages of
  help, the test framework;
- code of another build (Windows), or no code at all: `src/concepts.h`,
  `src/data.h` and the `genstruct` sources are pages of documentation.

About 17,900 of the 57,000 lines of the implementation files are code with a body;
the others are comments of documentation, declarations and templates that forward.
That is why the lines of `map` stay a small part of all of them: a definition
names the lines it translates and no comment above them.

## 2. Plan

Order: first what several threads or callbacks share (scheduler, collectors,
threads, sockets, processes), then the containers and streams everything else
stands on, then the text formats.

1. *Done.* `JobScheduler` with `WorkPool`; `ListGC`, `GroupedGC`, `SimpleGC`,
   `BlockAllocatorWithGC` with `CooperativeGC`; `StackAllocator`; `CountedPtr`;
   `VectorQueue` with `Fifo`; `AVLTree`, `HashTable` with `MapStore`;
   `BinomialQueue` with `PriorityQueue`; `SegmentTree`; the buffered streams;
   `BitVector`, `WAHVector`; `Thread`, `Process`, `Sockets`; `Plugger`.
   First theorems: see section 6.
2. *Text, done but for `Ini` and `VarExpander`.* `Options`, `Json`, `Formats`.
3. *Objects, done but for the classes of RTTI.* `Serial`, `Dtd`.
4. *More containers and values, done but for quicksort, UTF, `Path`, `Initializer`
   and checksums.* `Lists`, `Vectors`, `Trees`, `Strings`.
5. *Proofs, done (section 6).* The scheduler delivers each job once and refines
   `WorkPool`; the four collectors refine `CooperativeGC` and keep their memory exact; the buffered streams and the pipe lose and repeat no byte; the
   bit vectors compare exactly; `run()` restores the descriptors; the flags of the
   threads are true; a program that closes its sockets before it opens others loses none.

## 3. Modules and the code

`map` in `PROJECT.json` gives the lines of every definition. In short:

| Module | Code | State and actions |
|---|---|---|
| `JobScheduler` | `src/sys_JobScheduler.cpp`, `include/elm/sys/JobScheduler.h` | one action per step of `start()` (`StartBadCount`, `StartMake`, `StartArm`, `StartSpawn`, the caller's own `run`, `StartJoin`, `StartOutput`, `StartEnd`), per segment of `run()` between lock and unlock, `stop` of another thread; `Faults` says which callbacks throw |
| `WorkPool` | abstract | jobs are waiting, taken, done; a start ends |
| `ListGC` | `src/alloc_ListGC.cpp`, `src/alloc_AbstractGC.cpp` | `allocate`, then marking and sweeping block by block since both call the program back |
| `GroupedGC`, `SimpleGC`, `BlockAllocatorWithGC` | `src/alloc_*.cpp` | memory as sets of granules or blocks; a collection is one step, or steps where the program is called |
| `CooperativeGC` | abstract | blocks handed out are fresh, kept while owned; a collection may only take the others |
| `StackAllocator` | `src/alloc_StackAllocator.cpp` | chunks, `top`, `max` as addresses |
| `CountedPtr` | `include/elm/util/SharedPtr.h`, `LockPtr.h` | `Intrusive` chooses the class; a deletion cascades inside the action |
| `VectorQueue`, `Fifo` | `include/elm/data/VectorQueue.h` | the ring; a sequence |
| `AVLTree`, `HashTable`, `MapStore` | `src/avl_GenTree.cpp`, `include/elm/avl`, `include/elm/data/Hash*.h` | trees with stored balance, chains; a function from keys to values |
| `BinomialQueue`, `PriorityQueue` | `include/elm/data/BinomialQueue.h` | forest; a bag |
| `SegmentTree` | `include/elm/stree`, `src/stree_Tree.cpp` | the builders, the array and `get()` |
| `BufferedOutStream`, `StreamPipe` | `src/io_Buffered*.cpp`, `src/io_StreamPipe.cpp`, `src/io_TeeOutStream.cpp` | bytes are the numbers of their order of writing; a call is a sequence of steps, one per call of the stream. `StreamPipe` holds the `BufferedInStream` it reads from and the `TeeOutStream` it writes to |
| `BitVector`, `WAHVector` | `src/util_BitVector.cpp`, `src/util_WAHVector.cpp` | words of `W` bits as sets; the set the calls describe is kept beside |
| `Thread` | `src/system_Thread.cpp` | POSIX threads from how the code uses them |
| `Process` | `src/system_ProcessBuilder.cpp`, `src/system_System.cpp` | one step per system call; the redirection (dup and dup2) is one |
| `Sockets` | `src/net_ServerSocket.cpp`, `src/net_ClientSocket.cpp` | descriptors by number, marked `dropped` when the program overwrites or abandons the number of an open socket; a deletion is two steps, one per close; a port is two bytes |
| `Plugger` | `src/system_Plugger.cpp`, `src/system_Plugin.cpp` | the search of a plugin as a machine over directories, files and dependencies |
| `Strings` | `include/elm/string/String.h`, `src/string_String.cpp` | heap of counted buffers, one action per operation; the value given to each variable is kept beside |
| `Lists` | `include/elm/data/List.h`, `SortedList.h`, `ListSet.h`, `ListMap.h`, `ListQueue.h`, `BiDiList.h`, `include/elm/inhstruct` | nodes by number, links as functions; a merge of two sets goes step by step |
| `Vectors` | `include/elm/data/Vector.h`, `Array.h`, `FragTable.h`, `StaticStack.h` | buffers as resources with their cells, also those that are stale |
| `Trees` | `include/elm/data/TreeBag.h`, `TreeMap.h`, `Tree.h`, `include/elm/inhstruct`, `src/inhstruct_*Tree.cpp` | trees as nested tuples; the log of what was put is kept beside |
| `Formats` | `src/io_Input.cpp`, `src/io_Output.cpp` | integers of a small width, characters by class; printing and scanning as operators, the scanner as a machine with one character in hand |
| `Json` | `src/json.cpp`, `src/json_Parser.cpp`, `include/elm/json` | the saver as its states and stack, the parser as a machine over tokens |
| `Dtd` | `src/xom_dtd.cpp`, `include/elm/xom/dtd.h` | descriptions as nested terms, documents as small trees; a reference says what conforms |
| `Serial` | `src/serial2_XOM*.cpp`, `include/elm/serial2`, `src/rtti.cpp` (`Enum`) | objects with values, an object inside, pointers and lists of pointers; the document as a sequence of elements |
| `Options` | `src/option_Manager.cpp`, `include/elm/option` | words of small kinds, one action per word |

The MC modules compose instances:
`MCMemory`, `MCContainers`, `MCIO`, `MCData` and `MCSystem` have a variable
`subject`, chosen in the first state: a behaviour exercises one part, or one way
of using it, and the others stay as they were made. This is a disjoint union of
the state spaces, not a product; a property about one part starts with
`subject = ...` where the other parts would not satisfy its definition. The parts
of such a group share no state in the code either.

## 4. Runs

| Run | Shows | Bounds and why they are enough |
|---|---|---|
| `jobsched` | type; two threads never together inside the mutex; each job run and harvested once; a return of `start()` finds every thread joined and no job held; the scheduler is a `WorkPool`; `start()` returns | 1 to 3 threads (two race while the third is the caller), 3 jobs of which one is produced by a harvest, harvests that throw, any number of starts |
| `jobsched_endless` | a `stop()` within a `start()` makes it return though the producer never ends and any callback throws | 3 threads, 2 jobs delivered for ever |
| `memory` | the collectors keep living blocks, their lists and free memory are exact, a cycle is complete and ends, all four refine `CooperativeGC`; counts of pointers and of string buffers are exact, a string keeps its value | `ListGC` 3 blocks and 4 allocations with limit 1: automatic cycles at every length of the list, at a deleted head, middle and tail. `GroupedGC` 3 chunks of 5 granules, bins 0, 2, 3, 5: dividing and not. `SimpleGC` 2 chunks of 3 granules: free runs at either end, in the middle and across none. `BlockAllocatorWithGC` 2 chunks of 2. `CountedPtr` 2 variables, 3 objects that point to each other: chains of deletions. `Strings` 2 variables, texts of 3 characters with a blank or a pattern twice, a count of 8 values |
| `stackalloc` | blocks inside the chunks and disjoint, allocation pointer right behind the youngest | chunks of 3 bytes, 3 of them, requests 0 to 3, 5 blocks, 2 marks |
| `containers` | `VectorQueue` is a `Fifo`; trees ordered, balanced, counted, walkable; hash chains exact under look-ups and iterators; trees and tables are `MapStore`s; the heap is a `PriorityQueue`; trees that are not balanced keep the order of equal keys, lose nothing else in a removal and free each node once; the segment tree finds each segment within its array | ring from 1 or 2 to 8; one tree of 8 keys (every rotation of a removal), two sets of 4; tables of 2 and 1 chains, 3 keys; 9 items of 3 values (four trees, a carry over three); bags of 4 items with equal keys, sorted trees of 5 (with fewer, `relink()` has no case that changes the order), 4 nodes in trees of any degree; keys 0 to 6 |
| `io` | buffer never overrun, bytes leave in order and to the right stream, nothing lost over sound streams, input bytes once, copies exact; what is printed is scanned back; what is saved in JSON is parsed back call by call, strings with an escaped character excepted (section 7), and a text is accepted when it is one; accepted XML conforms; the graph read is the graph written; each word of a command line used once | buffer of 2, blocks of 1, 2, 3, 5: less than, as, more than, and more than twice the buffer; 5 bytes; sources of 4 bytes, or two of 2, pipe blocks of 2. Integers of 4 and 8 bits: their ends and the digits beside, texts of up to 3 characters. 6 calls of the saver and every text of 4 tokens. Documents of up to 3 children with all kinds of contents and attributes. 3 objects of 2 classes that point to each other, 2 or 3 calls. Up to 4 words of every kind |
| `data` | vectors hold the set; equality of vectors with clean padding; bits, counts, equality, inclusion of compressed vectors; lists hold their items in order, nodes in one list only; vectors, tables and stacks hold their items and write inside their buffers | words of 2 bits, sizes 1, 3, 4, 5; WAH words of 3 with 7 and 6 bits, of 5 with 4: whole words, a part of one, none; two lists over 3 or 4 nodes: one long or two short; vectors from a capacity of 1, pages of 2 and up to 5 items, stacks of 3: growth, pages that fill exactly and pages given back |
| `system` | flags, keys and owners of threads; held descriptors open and no dead object in one thread, no open socket lost between threads but by the three ways of section 7, and none at all in a careful program; descriptor table restored whatever fails; uses of plugins counted, unused list exact, tables hold loaded plugins, a plugin returned is of the right version with no error kept; `join()` and `manage()` end | 2 threads, 2 mutexes, 2 operations each. Sockets: 2 clients in one thread and descriptors 3 to 6; 1 client, a server and other threads and descriptors 3 to 5, or 3 to 6 for the careful program: an object may hold a number that was closed and given to another one. 3 processes one after the other, descriptors to 7. Plugins, three programs: a static and two loadable plugins, one depending on the other, with 2 pluggers or with 2 directories in any order, age limit 1 and `MaxUse = 1` (a plugin has one user, who leaves before the next one comes, and its library is opened once); and two pluggers that share a plugin and its dependent, `MaxUse = 3` and age limit 2: up to three users, among them the dependent, up to three openings of a library, and plugins in both tables that become too old |
| `jobsched_lost_stop` | **violation**: a `stop()` made before `start()` writes its state is lost, see section 7 | 2 threads, endless producer |
| `blockgc_anytime` | **violation**: a collection while the free list is not empty, see section 7 | 2 chunks of 2 |
| `fragtable_fill` | **violation**: a page filled exactly by `insert()` or `alloc()`, see section 7 | pages of 2 |
| `string_tocstring` | **violation**: `toCString()` of a part of a buffer, see section 7 | 2 strings |

Deadlock is checked in `jobsched` and `memory` and in three violation runs. Elsewhere a
behaviour really may stop: the program has called every destructor, used its
bounded number of calls, or has failed an assertion.

Fairness. `JobScheduler`: weak fairness of the steps of `start()` and of each
thread's `run()`, that is, the system schedules threads that can run, and the
callbacks return. No fairness of the mutex is assumed: a thread that never gets it
leaves the jobs to the others, until they are at rest and the mutex stays free. `ListGC`: a cycle
is sequential code and goes on. `Thread`: started threads run, and release the
mutexes they hold (only in the program `CalmThreads`). `Sockets`: the loop of
`manage()` goes on; no fairness is assumed of clients. Both are stated in
`MCSystem` (`ThreadsGoOn`, `ServerGoesOn`), for the subjects they are about.
Nothing is assumed of `stop()`, `close()` or any caller.

Each property has a mutant in `PROJECT.json`: a plausible error in a mapped
definition under which TLC finds it violated.

## 5. Assumptions on the callers

Constants restrict how a part is used where the code is known not to hold up;
section 7 lists what happens otherwise.

- `StackAllocator`: `SameChunk` (a mark is released while its chunk is current),
  `MarkInside` (a mark is not taken at the end of a full chunk).
- `VectorQueue`: `~AliasedFull` (no `put()` of a reference into a full queue).
- `CountedPtr`, `Plugger`: `Careful` (no assignment from what the target keeps
  alive; no plugin plugged by name while another one is due to leave).
- `BlockAllocatorWithGC`: `~AnyTime` (a collection when `needsCollect()` says so).
- `HashTable`: `Interfere` adds look-ups in the middle of loops.
- `BitVector`, `WAHVector`: `Avoid` names the calls that are not made.
- `Thread`: `CanFail`, `CanKill`, `CanTry`, `Misuse`; `Sockets`: `Preempt`,
  `OtherCloses`, `Reconnect`, `CloseTwice`, `Careful` (`open()` and `connect()` find
  no open descriptor in their object, and no exception leaves `onConnection()`).
  `MCSystem` has programs with and without. `Server::open()` is called out of `manage()`.
- `Plugger`: `MaxUse` bounds the users, openings and pluggings as a dependency of one
  plugin: a call that would pass it is not made. `StaticAssumption` (no library holds a static plugin), dependencies
  without cycles (the code would recurse for ever); `Rearrange` lets paths change.
- `Process`: errno is 0 when the program starts; dup and dup2 of a redirection are
  one step.
- `Strings`: `Careful` (no `toCString()` or `replace()` of the strings for which
  they are wrong); fewer strings on a buffer than its count can tell apart.
- `Lists`: no `s -= s` of a set, no `addAll()` on a sorted list; iterators
  are used while the node they are on is in the list.
- `Vectors`: a `FragTable` of kind "frag" is not filled to the end of a page by
  `insert()` or `alloc()`; "anyfrag" has no such limit and is the subject of
  `fragtable_fill`. A vector that was detached gets a new buffer (`grow()`, `copy()`)
  before an `add()`. A `StaticStack` is not pushed when it is full, and a vector is
  not built with a capacity of 0.
- `Trees`: `twisted` records that `relink()` met its third case, after which no
  order is claimed. A `TreeBag` is not used after `clear()`.
- `Formats`: numbers fit the buffer of their format; an exponent is scanned as the code does, without its sign.
- `Json`, `Serial`: the classes given to the reader are those of the writer; XML
  comes from libxml2 as a well-formed tree. What is claimed of a written graph
  (`RoundTrip`) is for a program that writes an object once, has no empty array and
  keeps to the other conditions of `Supported`.
- `Dtd`: links and pending references are told of a parser that is used for the first
  time. Of a document refused for a pending reference, `PendingIsUnknown` says that
  the identifier is defined nowhere after it, or by the element that refers to it.
- `JobScheduler`: the producer delivers a job once (`EachJobOnce` only).

## 6. Proofs

All theorems hold for every value of the constants that satisfies the named
assumptions of the modules (`ASSUME`, or `Parameters`, `InParameters` and
`PipeParameters` where the theorem assumes them) and the hypotheses given in the
table. Each invariance proof has one step per action. The inductive invariants of
the scheduler were first checked with TLC on the instance of `JobScheduler.cfg`.
The proofs about `BlockAllocatorWithGC` and `VectorQueue` are in the last section of
those modules; `CollectorProofs` holds those about `ListGC` and the instances of
`GroupedGC` and `SimpleGC`, with the lemmas on sequences they share; `StreamProofs` holds those about the buffered streams and the pipe, an
instance of `StreamPipe`, and `SystemProofs` those about `Process` and the instances of
`Thread` and `Sockets`.

| Module | Theorem | Inductive invariant and why it is needed |
|---|---|---|
| `JobSchedulerProofs` | `TypeCorrect`, `HarvestsExclude`, `ReturnIsJoined` | `ThreadInv`: the type; the mutex names the one thread in a critical section; a thread holds a job exactly at the places of `run()` where the variable is set; threads that were not spawned, or are joined, are at rest; the counter of the spawning and joining loops separates them. Exclusion alone says nothing of the thread that holds the mutex when an exception crosses the section. |
| | `JobsOnce` | `OnceInv` adds `OriginInv`, every job that was delivered is a root or comes from a job whose harvest is complete, and `ApartInv`, the jobs to deliver, held and ended are apart. A job is delivered once because the harvest that adds it happens once: without the origins, a second delivery by another harvest could not be excluded |
| | `SchedulerIsPool` (if `DeliveredOnce` and only `harvest()` throws) | `PoolInv` adds to `OnceInv` what the state word says of stops and failures (`StateInv`), that while it is RUN a producer with jobs has a thread in `run()` (`AttendedInv`), and what `start()` is about to report (`OutcomeInv`): without them `start()` could report success with jobs left. Each step is an action of `WorkPool` or a stutter: `MapClient`, `MapStart`, `MapRun`. An exception of `next()` or `run()` leaves `start()` with the workers unjoined, or ends the program from a worker: the pool describes neither |
| `CollectorProofs` | `LivingBlocksKept`, `ListIsExact`, `CyclesComplete` | `GCInv`: each block has a stamp of allocation; pointers go to the next older block of the heap, which says that the list is exact without a recursive definition; marks are of the phase; during a sweep, `SweepInv` places the cursor between the blocks kept and those not visited, and `CountInv` counts them |
| | `ListGCKeepsPromise` | `GCInv` and `FreshInv`: the block that `allocate()` is about to return is not yet in use. Refinement of `CooperativeGC`; while a cycle runs inside `allocate()` the new block is in the heap and not yet owned |
| | `GroupedGCKeepsPromise`, `GroupedGCMemoryExact`, `GroupedGCAssertions` (the last if `Indexes \subseteq 0 .. MaxIndex`, as the assertion asks of the caller) | `GInv`: what is left of a chunk in first use is a multiple of its bin; free blocks are slots of chunks used up, blocks in use are slots of any chunk past what was not served; free and used are apart, and no slot is missing while no chunk was deleted. A sweep only visits the chunks used up: without the first facts a free block could lie in the part a chunk still serves |
| | `SimpleGCKeepsPromise`, `SimpleGCMemoryExact`, `SimpleGCMarks` (if `0 \notin Requests`; `allocate(0)` may return the end of a chunk, section 7) | `SInv`: in every chunk not deleted, free runs and blocks lie inside, share nothing and cover it; `SMarked` says what is marked at each step of a collection, so that the runs of unset bits the sweep makes free are exactly what no living block covers; after `clear()` every chunk is deleted and no collection is under way. The sweep is a concatenation of lists over the chunks: its lemmas are proved by induction on a set of numbers (`NatSetInduction`) |
| `BlockAllocatorWithGC` | `BlocksKeepPromise`, `FreeListSound` (if `~AnyTime`) | `BlockInv` and `ListInv`: the links go from each free block to the next lower one, which says that the free list is exact without following it, and a collection is only due while the list is empty. With `AnyTime` this last fact fails, and so does the promise (section 7) |
| `StackAllocatorProofs` | `BlocksStaySound` (if `SameChunk`), `NoByteLost` (if also `MarkInside`) | `StackAllocInv`: chunks distinct, `top` in the current chunk, blocks of the current chunk below `top`, marks not above it; `EndInv` for the second |
| `VectorQueue` | `RingIsFifo` (if `~AliasedFull`), `SizeCounts` | `QueueInv`: the places between `hd` and `tl` modulo `cap` hold items. Refinement of `Fifo`, with the sequence read along the ring |
| `StreamProofs` | `NoOverrun`, `OrderKept`, `StreamKept` | `OutInv`: the place in the call says what is buffered and what is left of the block; the bytes out, buffered and left are increasing |
| | `NoByteLost` (if `~MayFail` and `~MayBeShort`) | `PlacedInv`: every byte written so far is in a stream, in the buffer, in the block, or was dropped by `reset()` |
| | `PipeIsExact` | `InInv`: the buffer holds the last bytes taken from the stream, and what was read or dropped are the bytes before the unread ones; `PipeInv`, `CopyInv`: between the two writes of the tee the first stream is one block ahead, and the block was given by the input |
| `BitVectorProofs` | `BitsAlwaysExact` | `BitsInv`: bits of the words are those of the set, whatever the padding; it also holds with the calls `Avoid` excludes |
| | `ComparisonsExact` | `BitsInv`: the comparisons mask their own last word, so that a clean argument is enough |
| | `OnlyThreeMisuses` (if `Avoid` has the three) | `BitsInv` and `Allocated`: the array has the words of the size |
| `SystemProofs` | `ProcessReapedOnce` | `ThreadInv`: for every thread, whatever the others do to the descriptors, the types, and what the place in the builder and the object says of the process and of the code that was read |
| | `ProcessesAreSound` (if one thread builds processes) | `ProcessInv` adds `TableOk`, what each standard descriptor, the three saved ones and the ends of the pipe are at every step of `run()`, failures included, and `HeldOk`, which ends the child holds. `TableRestored` and `EndOfFileComes` speak of the states between two runs: without the table at each step nothing could be said of them. With two threads the redirections mix, as `ChildAsAsked` shows (section 7) |
| | `ThreadFlagTrue`, `ThreadSelfKnown` (if no runnable is given to two threads), `EndsHoldNothing` (if `~CanKill`) | `LifeInv`: the flag, the key and `joined` follow the life of the thread; `KnownInv`: its runnable points to it; `HoldInv`: the owner of a mutex is in its body and nobody is cancelled |
| | `NoSocketIsLost` | with the types it is inductive, for any number of clients and any interleaving: a socket is lost only where the model marks it `dropped`, by an `open()` or a `connect()` over an open descriptor or by an exception of a handler |
| | `CarefulHoldsAll` (if `Careful`) | `CarefulInv` adds to it that nothing is dropped and that an output stream that is alive belongs to a client that is connected or in the middle of `disconnect()`: otherwise the next `connect()` could lose the descriptor of the stream |
| | `SocketsAreSound` (if `OneThread`: no `Preempt`, `OtherCloses`, `Reconnect` or `CloseTwice`) | `SocketsInv` adds where a deletion stands (`DeletionOk`), that two clients never have the same descriptor (`ClientsOk`), and that `manage()` goes on with a socket that is not deleted (`ServerOk`): a number that was closed can be given to another object, and only this order keeps the second close of a deletion from hitting it |
| | `PortIsKept` (if the port is given) | a bound socket is alive and has the port given |

Only model-checked: liveness (`StartReturns`, `StopEndsStart`, `CycleEnds`,
and `JoinEnds` and `ManageEnds` in `CallsEnd`), which the prover does not handle; everything of
`AVLTree`, `BinomialQueue`, `SegmentTree`, `CountedPtr`, `Plugger`, `Trees`,
`Strings`, `Formats`, `Json`, `Dtd` and `Serial`, which use RECURSIVE operators,
and of `HashTable`, `WAHVector`, `Lists`, `Vectors` and `Options`, whose properties
are equalities with recursive definitions over the data. The theorem of induction takes
an operator as parameter, which the provers cannot instantiate; the lemmas of
`CollectorProofs` on concatenation use the least element of a set of numbers instead,
a way that was not followed for those modules. `FreeListExact` follows the
free list with a recursive function; `FreeListSound` proves its content without it.
The MC modules state some properties for several components at once
(`SoundLosesNothing`, `CopyIsExact`, `FreeMemoryExact`, `CollectorsKeepPromise`,
`WrappersSound`): the theorems are about the parts that belong to `BufferedOutStream`,
`StreamPipe`, the four collectors and, in `SystemProofs`, the wrappers of the system.
They are about the modules the run composes, with the same definitions, and do not name
the property of the run. The refinements of `MapStore` and `PriorityQueue` are
model-checked only.

## 7. Deviations

What the code does differs in places from what its comments, assertions or tests
say. Four differences are runs of the project and are reproduced by TLC with their
configurations:

- `jobsched_lost_stop`, `src/sys_JobScheduler.cpp:168`: `start()` writes
  `state = RUN` after it has allocated its threads, and a `stop()` made before is
  lost; the comment of line 155 says that `start()` returns after a `stop()`.
- `blockgc_anytime`, `src/alloc_BlockAllocatorWithGC.cpp:135`:
  `collectGarbage()` pushes blocks that are already in the free list; the class
  comment says that the user may call it at any safe point.
- `fragtable_fill`, `include/elm/data/FragTable.h:148`: an `insert()` or `alloc()`
  that fills the last page exactly leaves an empty page behind it; after a removal
  the count of used cells is negative and the next `add()` writes before the page.
- `string_tocstring`, `src/string_String.cpp:215`: `toCString()` of a string alone
  on its buffer writes the final '\0' at its length and not at offset + length: the
  string changes, or its C string does not end where it does.

The others are stated in the modules as properties of what the repository says.
They are not among the properties of the runs; to see one, check the property of
the last columns in the module, with the values shown and small sets for the
other constants, under `Spec`, or `FairSpec` for the temporal ones (a
violated property is the result to expect); those of `Thread` and `Sockets` need the
fairness conditions of `MCSystem` for their instance.

| Source | What the code does, and what the repository says | Module, property | Constants |
|---|---|---|---|
| src/sys_JobScheduler.cpp:195 | stop() writes state = STOP whether or not a start() is in progress; called before start() or just after its last line, the scheduler is idle with state = STOP and setProducer()/setThreadCount() abort. Their assertion (src/sys_JobScheduler.cpp:133) says "forbidden operation when scheduler is running". | JobScheduler, `AssertOnlyWhenRunning` | `MaxThreads = 2, Faults = {}` |
| src/sys_JobScheduler.cpp:207 | Only harvest() is called inside a try block: an exception of prod->next() (or job->run()) in the calling thread unwinds start() while the mutex is locked and the other threads are in run(), which then wait for ever. The class comment (src/sys_JobScheduler.cpp:69) says "Thread management is transparent for the user". | JobScheduler, `NoThreadLeftBehind` | `MaxThreads = 2, Faults = {"next"}` |
| include/elm/stree/Tree.h:64 | Tree::contains() accepts a key equal to the upper bound of the root, so get() returns the value of the last segment for its exclusive end. The comment of SegmentBuilder::add() (src/stree_Tree.cpp:180) says "High value of the segment (exclusive)". | SegmentTree, `UpperEndExclusive` | `MaxKey = 4` |
| src/alloc_ListGC.cpp:87 | allocate() doubles lim at each automatic cycle, so the trigger is not the configured limit. The class comment (src/alloc_ListGC.cpp:31) says "The GC is automatically triggered when the difference of the number of allocated object since the last GC cycle is bigger than a configuration limit". | ListGC, `GarbageBounded` | `Limit = 1, MaxAllocs = 5` |
| src/alloc_ListGC.cpp:151 | clean() resets head, cnt and lcnt but neither lim, doubled by the automatic cycles, nor dis. The comment of AbstractGC::clean() (src/alloc_AbstractGC.cpp:158) says it will "reset it to its initial state". | ListGC, `CleanResets` | `Limit = 1, MaxAllocs = 5` |
| src/alloc_GroupedGC.cpp:174 | clear() deletes the chunks but keeps them in chunks and chunk_list, and resets only the free list of bin 0; the next allocate() hands out deleted memory. The comment of clear() (src/alloc_GroupedGC.cpp:169) says "Reset the allocator." | GroupedGC, `ClearedIsUsable` | `CS = 4, Indexes = {1, 2}, MaxIndex = 5` |
| src/alloc_GroupedGC.cpp:212 | The tables have maxAllocatableIndex entries, so that index == maxAllocatableIndex, reachable with chunks larger than 128 KB, is out of bounds. The assertion (src/alloc_GroupedGC.cpp:212) says "ASSERT(index <= maxAllocatableIndex);" | GroupedGC, `IndexInTables` | `CS = 4, Indexes = {1, 3}, MaxIndex = 3` |
| src/alloc_SimpleGC.cpp:114 | clear() deletes every chunk but leaves it in the list chunks; the next allocate() finds no free block, starts a collection and beginGC() writes in the deleted chunks. The comment of clear() (src/alloc_SimpleGC.cpp:110) says "Reset the allocator." | SimpleGC, `ClearedIsUsable` | `Granule = 2, Size = 6, Requests = {1, 4}` |
| src/alloc_SimpleGC.cpp:138 | allocate(0) returns the address one past a free block, possibly the end of its chunk, which belongs to no segment of the tree of chunks: mark() of that living block fails. Its assertion (src/alloc_SimpleGC.cpp:186) says "during GC, block out of chunks". | SimpleGC, `MarkFindsChunk` | `Granule = 2, Size = 6, Requests = {0, 4}` |
| src/alloc_StackAllocator.cpp:154 | release() of a mark of an older chunk deletes the chunks above it and sets top, but max still points to the end of a deleted chunk: allocate() compares with it and grants a block that runs past the end of the current chunk. The class comment (src/alloc_StackAllocator.cpp:35) says "time a chunk is full, a new one is allocated." | StackAllocator, `BlocksInChunks` | `MarkInside = TRUE, SameChunk = FALSE` |
| src/alloc_StackAllocator.cpp:153 | A mark equal to the end of a full chunk, or taken before any allocation, lies in no chunk for release(), which deletes all the chunks and fails the assertion at line 163. The comment of mark() (src/alloc_StackAllocator.cpp:138) says "The returned mark may be used to free the next allocated object after" | StackAllocator, `MarkIsFound` | `MarkInside = FALSE, SameChunk = FALSE` |
| include/elm/data/VectorQueue.h:97 | size() returns the capacity when hd == tl, that is when the queue is empty. Its comment (src/genstruct_VectorQueue.cpp:53) says "Get the current size of the queue." | VectorQueue, `SizeIsCount` | `AliasedFull = FALSE` |
| include/elm/data/VectorQueue.h:107 | put() takes a reference and enlarge() deletes the buffer before it is read: put(head()) on a full queue stores the content of deleted memory. The comment of put() (src/genstruct_VectorQueue.cpp:68) says of its parameter "Item to put." | VectorQueue, `ImplementsFifo` | `AliasedFull = TRUE` |
| src/system_Thread.cpp:224 | pthread_create() returns a positive code on failure, the code tests rc < 0: start() returns as if the thread ran, and join() then uses a pthread_t that was never set. The comment (src/system_Thread.cpp:130) says "@throw ThreadException If no more resources are available for the thread." | Thread, `StartReports` | `CanFail = TRUE` |
| src/system_Thread.cpp:236 | pthread_cancel() returns a positive code for a thread that is gone, the code tests rc < 0 and throws nothing. The comment (src/system_Thread.cpp:148) says "@throw ThreadException Thrown if the thread is already dead." | Thread, `KillReports` | `CanKill = TRUE` |
| src/system_Thread.cpp:315 | pthread_mutex_trylock() returns EBUSY and does not set errno, but the code switches on errno: unless it happens to be EBUSY the call asserts, or throws when it is EAGAIN. The comment (src/system_Thread.cpp:193) says "If the mutex is free, acquire it. Else return immediately without blocking." | Thread, `TryLockReturns` | `CanTry = TRUE` |
| src/system_Thread.cpp:300 | The mutex is of the default kind, for which pthread_mutex_unlock() does not check the owner (test/test_mutex.cpp unlocks mutexes of another thread). The comment (src/system_Thread.cpp:188) says "@throw SystemException Mutex not owned by the current thread." | Thread, `UnlockReports` | `Misuse = TRUE` |
| src/system_Thread.cpp:235 | Cancellation is deferred, pthread_mutex_lock() is no cancellation point and nothing releases the mutexes of a killed thread: a thread waiting for one is never killed. The comment (src/system_Thread.cpp:146) says "allow any synchronization, the thread will be killed but" | Thread, `KillEnds` | `CanKill = TRUE` |
| src/system_Thread.cpp:108 | The constructor of Thread overwrites thr: when two threads are made for a runnable, thread() names the last one in both. The comment (src/system_Thread.cpp:81) says "Get the current thread executing the runnable." | Thread, `SelfKnown` | `one runnable for both threads` |
| include/elm/util/SharedPtr.h:51 | operator= releases the old cell before it reads the new one: h = h and h = h->next delete the object, then read and count in deleted memory when h was its last owner. The class comment (src/utility.cpp:169) says assignment "induces the decrementation of the previous pointer and the incrementation" | CountedPtr, `AssignKeeps` | `Intrusive = FALSE, Careful = FALSE` |
| include/elm/util/LockPtr.h:48 | operator= unlocks first: for a self-assignment of the last pointer the object is deleted and the pointer becomes null. The class comment (src/utility.cpp:183) says the pointed object is deleted "a pointer and that automatically delete a pointed object when it" is no more used | CountedPtr, `AssignKeeps` | `Intrusive = TRUE, Careful = FALSE` |
| src/system_Plugger.cpp:210 | plug(name) calls plugins[i]->plug(nullptr), whose ageing may remove an older unused plugin from the same table through Plugger::leave(), then returns plugins[i], now another entry or none; its comment (src/system_Plugger.cpp:194) says "Get a plugin by its name." | Plugger, `PlugReturnsFound` | `Pluggers = {main}, MAX_AGE = 2, Careful = FALSE` |
| src/system_Plugin.cpp:340 | unplug() calls cleanup() at MAX_AGE but leaves the state negative, so the next plug() of a plugin still in memory takes the revival branch and never calls startup(); src/system_Plugin.cpp:377 says "This method is called just after the plugin has been plugged into the user" | Plugger, `UsedIsStarted` | `Pluggers = {main}, MAX_AGE = 2, Careful = TRUE` |
| src/system_Plugger.cpp:427 | plugFile() returns null with err = OK when the file does not exist, so plug() of an unknown name fails and getLastError() answers "Success." (and an error of an earlier directory is erased); src/system_Plugin.cpp:84 says "If there is an error, a null", and the next line that lastErrorMessage() may give some information about the error | Plugger, `FailureHasError` | `Pluggers = {main, other}, MAX_AGE = 2, Careful = TRUE` |
| src/system_Plugger.cpp:581 | getLastError() has no case for MISSING_DEP, which lookELD() sets, and reaches its default case: src/system_Plugger.cpp:581 asserts "ASSERTP(0, "unknown error");" | Plugger, `ErrorsAreKnown` | `Pluggers = {main, other}, MAX_AGE = 2, Careful = TRUE` |
| src/system_Plugger.cpp:216 | plug(name) plugs the static plugin Plugin::get() finds by hook and name, without the version check of plugFile(); src/system_Plugin.cpp:83 says "If the plugin is found, is loadable and has a compatible version, it is loaded," | Plugger, `SuccessIsClean` | `Pluggers = {main}, MAX_AGE = 2, Careful = TRUE; the static plugin of an old version` |
| include/elm/avl/GenTree.h:225 | add() inserts only when lookup() finds nothing; src/avl_GenTree.cpp:522 says "Add an item to the tree. Note that the item is still added even if it is already" | AVLTree, `AddAdds` | `Keys = {1, 2, 3}, IsMap = FALSE` |
| include/elm/avl/Map.h:105 | Map::put() calls GenTree::set(), which calls add(), which leaves an existing pair alone; src/concepts.h:1130 says " * Put a new value in the map." | AVLTree, `PutIsFound` | `Keys = {1, 2, 3}, IsMap = TRUE` |
| include/elm/avl/Map.h:50 | Map::contains(x) returns false at the first value different from x and true otherwise, so it is true of every x in an empty map; src/concepts.h:250 says " * @return True if the item is in the collection, false else." | AVLTree, `ContainsIsMembership` | `Keys = {1, 2, 3}, IsMap = TRUE` |
| include/elm/data/HashTable.h:49 | containsAll() iterates its argument and calls contains(), whose find() moves the node to the head of its chain; when the argument is the table itself the iterator goes back to the old head for ever; src/concepts.h:308 says " * Test if both collections are equal." | HashTable, `SelfEqualsReturns` | `Keys = {1, 3}, Interfere = TRUE` |
| include/elm/data/HashTable.h:191 | remove(const Iter&) frees the node and leaves the iterator on it; src/data_HashTable.cpp:381 says "@warning The iterator is pushed to the next item." | HashTable, `IterStaysValid` | `Keys = {1, 3}, Interfere = TRUE` |
| include/elm/data/HashMap.h:117 | the loop condition of containsAll() is the collection c instead of the iterator i, so the loop never stops at the last item; src/data_HashTable.cpp:266 says "@return True if all collection items are in the map, false else." | HashTable, `ContainsAllReturns` | `Keys = {1, 3}, Interfere = FALSE` |
| src/io_BufferedOutStream.cpp:73 | write() ignores the result of the flush() it makes and returns the size of the block although buffered bytes have been lost. src/io_OutStream.cpp:46 says "Number of transferred bytes or less than 0 for an error." | BufferedOutStream, `LossReported` | `MayFail = TRUE, MayBeShort = FALSE` |
| src/io_BufferedOutStream.cpp:96 | write(char) returns 0 when the byte is stored. src/io_OutStream.cpp:52 says "1 for success or less than 0 for an error." | BufferedOutStream, `CharReturnsOne` | `MayFail = FALSE, MayBeShort = FALSE` |
| src/io_StreamPipe.cpp:70 | proceed() compares the result of read(buffer, size) with ENDED, which is -2, but every stream returns 0 at its end: the loop never ends, even when no stream fails. The class comment (src/io_StreamPipe.cpp:33) says "is read to the end and write back to the output stream." | StreamPipe, `ProceedReturns` | `MayFail = FALSE, SinksMayFail = FALSE` |
| src/system_ProcessBuilder.cpp:147 | run() tests errno, which no call resets, instead of its variable error: once any call has failed (the second close() of a pipe stream does), output and error are not redirected and nothing is reported. src/system_ProcessBuilder.cpp:110 says "Set the output stream of the built process." | Process, `ChildAsAsked` | `Threads = {t1}, MaxRuns = 2, MayFail = FALSE` |
| src/system_ProcessBuilder.cpp:152 | run() redirects the descriptors 0 to 2 of the whole program until the fork: with two threads in run() a process is built with the streams of the other builder. src/system_ProcessBuilder.cpp:119 says "Set the error stream of the built process." | Process, `ChildAsAsked` | `Threads = {t1, t2}, MaxRuns = 1, MayFail = FALSE` |
| src/system_System.cpp:178 | ~PipeOutStream() closes the descriptor and ~UnixOutStream() closes it again, since _fd is left as it is: between the two, another thread may have opened it. src/io_UnixOutStream.cpp:55 says "Close an Unix output stream." | Process, `StreamStaysOpen` | `Threads = {t1, t2}, MaxRuns = 1, MayFail = FALSE` |
| src/util_WAHVector.cpp:133 | fix() tests isOnes()/isZeroes() of the word before without isFill(), and counts up a literal as if it were a fill: bits of the literal change and the last word is lost; src/util_WAHVector.cpp:405 says "Set a bit." | WAHVector, `BitIsMember` | `W = 3, N = 5, Avoid = {"make", "all"}` |
| include/elm/util/WAHVector.h:57 | makeAnd(), makeOr(), makeReset() and makeNot() build the result in a default vector whose rem stays 0; src/util_WAHVector.cpp:356 says "Compute the number of bits in the vector." | WAHVector, `CountsExact` | `W = 3, N = 5, Avoid = {"fix", "all"}` |
| src/util_WAHVector.cpp:522 | set(void) and clear(void) compute the length of the fill from _size, which is a number of words, and keep the other words; src/util_WAHVector.cpp:519 says "Set all vector bits to 1." | WAHVector, `BitIsMember` | `W = 3, N = 6, Avoid = {"fix", "make"}` |
| src/util_WAHVector.cpp:274 | isEmpty() and isFull() take the first word for a fill and look at its bit 30 only; src/util_WAHVector.cpp:285 says "Test if all bits are at 1" | WAHVector, `EmptyFullExact` | `W = 3, N = 3, Avoid = {"fix", "make", "all"}` |
| src/util_WAHVector.cpp:535 | copy() of a vector without words deletes the array and keeps its pointer, which the next copy() or the destructor deletes again; src/util_WAHVector.cpp:527 says "Copy the given vector into the current one." | WAHVector, `FreedOnce` | `W = 3, N = 3, Avoid = {"fix", "make", "all"}` |
| src/util_BitVector.cpp:170 | equals() masks its own vector and not its argument: a vector whose padding holds ones (built with ones, or negated) differs from one with the same bits; src/util_BitVector.cpp:164 says "Test if two vectors are equals." | BitVector, `EqualsExact` | `W = 2, Sizes = {3}, Avoid = {"extend", "assign", "null"}` |
| src/util_BitVector.cpp:465 | meets() compares whole words: two vectors with ones in their padding meet without a common bit; src/util_BitVector.cpp:458 says "Test if vectors have some bit to 1 in common." | BitVector, `MeetsExact` | `W = 2, Sizes = {3}, Avoid = {"extend", "assign", "null"}` |
| src/util_BitVector.cpp:496 | countOnes() counts the ones of the padding; src/util_BitVector.cpp:490 says "Count the number of ones in the vector." | BitVector, `OnesExact` | `W = 2, Sizes = {3}, Avoid = {"extend", "assign", "null"}` |
| src/util_BitVector.cpp:75 | the constructor that extends a vector gives memcpy() the size in bits as a number of bytes and writes beyond the new array; src/util_BitVector.cpp:67 says "Build a vector by extending or reducing the given one." | BitVector, `WritesInBounds` | `W = 2, Sizes = {2, 3}, Avoid = {"assign", "null"}` |
| src/util_BitVector.cpp:90 | operator=() resizes its vector when the number of words differs but calls copy(), which asserts equal sizes, when only the number of bits does; src/util_BitVector.cpp:208 says "Copy the giuven vector in the current vector." | BitVector, `AssignNeverAborts` | `W = 2, Sizes = {3, 4}, Avoid = {"extend", "null"}` |
| include/elm/util/BitVector.h:97 | countZeroes() is countBits() - countOnes(), and both count ones; src/util_BitVector.cpp:503 says "Count the number of zeroes in the vector." | BitVector, `ZeroesExact` | `W = 2, Sizes = {3}, Avoid = {"extend", "assign", "null"}` |
| src/util_BitVector.cpp:95 | operator=() from a default vector sets bits to null and leaves _size, so that size() still gives the old size of a vector without words; src/util_BitVector.cpp:109 says "Get the size in bits of the vector." | BitVector, `Allocated` | `W = 2, Sizes = {2, 3}, Avoid = {"extend", "assign"}` |
| src/net_ServerSocket.cpp:188 | ~Connection() closes its descriptor and the destructor of its UnixOutStream closes the same number again, as disconnect() does in a client: a descriptor opened between by another thread is closed; src/net_ServerSocket.cpp:93 says "Close the connection" | Sockets, `HeldIsOpen` | `Clients = {c1, c2}, Preempt = TRUE` |
| src/net_ServerSocket.cpp:426 | Server::open() makes a new socket and overwrites sock, whatever it holds: the socket listening before, or the one whose descriptor stays open when setsockopt() fails (line 134), is never closed; src/net_ServerSocket.cpp:434 says "Close the connection and stop the managing of the server" | Sockets, `EverySocketHeld` | `Clients = {}, Careful = FALSE` |
| src/net_ClientSocket.cpp:83 | connect() of a connected client overwrites _fd, and the first descriptor is only closed if an output stream was made on it; so that a later disconnect() leaves it open; src/net_ClientSocket.cpp:288 says "Disconnect from the server." | Sockets, `EverySocketHeld` | `Clients = {c1}, Careful = FALSE` |
| src/net_ServerSocket.cpp:452 | an exception of onConnection() leaves manage() before delete(con): the connection is never closed and nobody knows it any more; src/net_ServerSocket.cpp:93 says "Close the connection" | Sockets, `EverySocketHeld` | `Clients = {}, Careful = FALSE` |
| src/json_Parser.cpp:421 | parseString() puts an escaped character in the former text instead of the buffer, so that it is lost, and line 432 emits a character for each of the four digits of a \u escape; src/json_Parser.cpp:407 says "Parse a string with support of escapes." | Json, `EscapesAreRead` | `Strings` with a character that is escaped |
| src/net_ClientSocket.cpp:99 | disconnect() deletes _in and _out and keeps the pointers: after another connect(), in() gives the deleted stream; src/net_ClientSocket.cpp:295 says "Obtain the input channel for the connection." | Sockets, `NoDeadObject` | `Clients = {c1}, Reconnect = TRUE` |
| src/net_ServerSocket.cpp:440 | Server::close() deletes sock and keeps the pointer, and ~Server() calls close() again; src/net_ServerSocket.cpp:434 says "Close the connection and stop the managing of the server" | Sockets, `NoDeadObject` | `Clients = {}, CloseTwice = TRUE` |
| src/net_ServerSocket.cpp:438 | close() resets on and deletes the socket, but accept() goes on waiting on the closed descriptor until somebody connects, and nobody can; src/net_ServerSocket.cpp:435 says "(end of function manage())." | Sockets, `ManageEnds` | `Clients = {}, Preempt = TRUE, OtherCloses = TRUE` |
| src/net_ServerSocket.cpp:159 | open() stores sin_port as getsockname() gives it, in network order, without ntohs(); src/net_ServerSocket.cpp:366 says "Get the current port. This information is only meaningful once" | Sockets, `PortIsBound` | `Clients = {}; GivenPort = NoPort` |

The newer modules translate the following as it is, or leave the call out where
section 5 says so; no property states them, since the repository promises nothing
more precise of the call, or the part has no module:

- Strings: the searches and `replace()` may match characters beyond the end of a
  substring, which are still in its buffer; the use count has 16 bits and wraps;
  `operator=(const char *)` releases its buffer before it reads its argument; the
  comparisons of `include/elm/string.h:58-61, 79-89` with a C string on the left
  exchange strict and large: `<` is true of equal strings and `<=` is not.
- Lists: `SortedList::addAll()` (`SortedList.h:94`) adds without sorting; a
  `List::copy()` from itself empties the list; the non-const `BiDiList::last()`
  (`BiDiList.h:130`) gives the first item and `remove()` does not free the node;
  `ListQueue::reset()` leaves its two pointers on the freed nodes; `s -= s` of a
  `ListSet` reads the nodes it frees.
- Vectors: a `Vector` of capacity 0 never grows; `setLength()` shows the items that
  were removed; `FragTable::containsAll()` (`FragTable.h:75`) is always false;
  `StaticStack::contains()` (`StaticStack.h:62`) looks at one cell too many.
- Trees: the third case of `SortedBinTree::relink()` breaks the order;
  `TreeBag::clear()` leaves the root on freed nodes and `equals()` calls a method
  that does not exist; a second `TreeMap::put()` adds a pair behind the first, which
  `get()` still gives; the pre- and post-order visits of `BinTree` go on in order
  below the root; `inhstruct::Tree::hasChild()` (`Tree.h:39`) ignores its argument
  and `appendChild()` keeps an old sibling; `operator bool` of
  `elm::Tree` (`Tree.h:54-55`) is true of a tree without children. `avl::Tree` declares a virtual destructor
  that is defined nowhere, so that no program can use it.
- Input and output: a failed `swallow` puts back the character it expected
  (`io_Input.cpp:554`), the sign of an exponent is ignored (477-480), `scanBool()`
  sets all the flags (214); an `IntFormat` of base 2 fits its buffer only up to 32
  characters (`io_Output.cpp:355-361`); the digits of a float come from `log10`, also
  of zero (426); `BlockInStream::read(block)` gives 0 at its end.
- Plugins: `plugFile()` opens the library at each call, and it is closed once, when its
  plugin is too old: opened twice, it stays in memory.
- JSON and serialization: `Maker::endObject()` and `endArray()` are documented and
  never called; `CollectionSerializer::unserialize()` never calls `nextItem()`, and
  `collections.h:79` has its effect inside an `ASSERT`.
- Parts without a module: `Version::compare()` (`Version.h:113`) looks at the minor number
  only when the major ones differ;
  `Path::canonical()` does not look at its last component (`system_Path.cpp:161`) and
  `relativeTo()` may not end (118-121); `VarExpander` stays in its escape state after
  a second escape (145-146); `MD5::put()` does not advance in its loop (126-129).

## 8. What is left out

- The memory of nodes of containers, and the growth of the arrays of `WAHVector`.
- Statistics counters of `GroupedGC`, which are written and never read.
- Deletion of the buffered stream by a closing destructor.
- Arguments and sessions of processes, bytes on sockets, messages and file names
  of plugins, hash functions (a constant).
- The Windows implementations of threads, processes, streams and sockets.
- The shifts and rotations of `BitVector`, compiled only with `EXPERIMENTAL`.
- Bytes and characters are classes of characters in `Formats`, `Json` and `Strings`;
  floating point arithmetic, scientific notation and pointers are not printed.
- Sorting of vectors and arrays; slices and ranges, which have no state.
- The layout of help messages, the conversions of `ValueOption`, `removeOption()`.
- `TextSerializer`, the serializers of collections, external references.
- Weak memory: fields written by several threads without a lock (`state` of the
  scheduler, `running` of a thread, `on` of a server) are words read and written in
  one step, in an order all threads agree on.
