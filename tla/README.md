# freedb in TLA+

freedb is a key-value server: one process, one thread, an event loop over
kqueue, a RESP-like protocol, and LMDB as the store. This directory holds its
verification project: TLA+ models of its components, TLC configurations that
check them on small instances, and TLAPS proofs of the properties that matter
most, for every value of the constants. Line numbers refer to the commit the
models were written from; `PROJECT.json` maps every definition to its lines.

## 1. The system

| Part | Files | State | Operations |
|---|---|---|---|
| storage engine | `src/src/dbEngine.c` | the LMDB environment, the table handle `dbi`, LMDB's single write transaction, the local `txn` | `dbEngineOpen`, `Set`, `Get`, `Remove`, `db_engine_drop`, `db_engine_close` |
| client connection | `src/src/client.c` | per connection: receive `buffer` and `pos`, parser state, `replyBuffer` and `replyPos`, `err`, descriptor | `commandParseProc`, `commandParseAndExec`, `commandExec`, `reply`, `addReply*`, `clientNew`, `clientFree` |
| RESP parser | `src/resp/unmarshal.c` | `respFSM`: `ridx`, 16 tasks, `value`, `err` | `respUnmarshal`, `respFsmRest` |
| RESP marshaller | `src/resp/marshal.c` | none | `respMarshal` |
| event loop | `src/bees/driver.c`, `kqueue.ch` | per descriptor a mask, callbacks and data; kqueue's filters; the batch `fired` | `driverRegEvent`, `driverDelEvent`, `driverProcessEvents`, `driverRun` |
| accept handler | `src/src/server.c` | the listening socket | `acceptProcHandler`, `serverMain` |
| commands | `src/src/command.c` | none | `setCommand`, `getCommand` |
| string2ll | `src/util/util.c` | none | decimal numeral to `long long` |
| command line client | `src/freedb-cli/main.c` | a socket, a parser | one loop |
| command table | `src/third/hashmap.h/hashmap.h` | slots and the field `size`; while it grows, one more table per nested rehash | `hashmap_create`, `put`, `get`, `remove`, `remove_and_return_key`, `iterate`, `iterate_pairs`, `rehash`, `destroy` |
| string library | `src/third/bstrlib/bstrlib.c` | per string `data`, `slen`, `mlen`; per stream a buffer, `isEOF`, `maxBuffSz` | functions that write, search, compare, split and join, and read streams |

How they interact. `serverMain` opens the engine, registers the listening
socket and runs the loop. The loop calls `acceptProcHandler`, which makes a
`client_t` and registers `commandParseProc` with it as data. That callback
appends what `recv` returns to `buffer` and hands the bytes from `pos` on to
`respUnmarshal`; a complete item is executed by `commandExec`, whose command
calls the engine and appends a reply to `replyBuffer`; `reply` writes what the
socket takes and otherwise registers `replyBufferProc` for writing.
`clientFree` unregisters, closes the descriptor and frees the `client_t`.
The buffers are strings of bstrlib, and `commandExec` looks the command up in a
table of hashmap.h that `serverMain` fills. All calls are synchronous on one
thread: a call of the engine that waits stops the whole server. `freedb-cli`
connects over the socket, sends each line as an array of strings and parses what
comes back with the same parser.

What is hard here: byte streams cut anywhere, on both sides, with buffers that
are compacted behind an index; a parser that must resume in the middle of
nested arrays; a batch of events that goes stale while it is dispatched, with
descriptors closed and reused; LMDB calls that fail one by one, with a `goto
EXIT` that has to put things right; crashes between `mdb_put` and the reply;
requests of any shape, whose types the commands check in part; a table whose
moves to a larger one make that grow in turn; string functions whose operands
are parts of the string they move; and the limits (tasks, descriptors, table
slots, lengths in C integers). The list of hazards with their lines is in
`PROJECT.json`.

## 2. The modules

| Module | Models | Checked by | Proved in |
|---|---|---|---|
| `StoreInterface` | calls and results of `dbEngine.h` | (extended) | |
| `KVStore` | the abstract durable map | as `KVSpec` | `EngineProofs` |
| `Engine` | `dbEngine.c`, one action per LMDB call | `MCEngine` | `EngineProofs` |
| `Client` | `client.c` with socket and peer | `MCClient` | `ClientProofs` |
| `RespBytes` | bytes, items (`resp.h`), numerals | (extended) | |
| `String2ll` | `util.c`: the digit loop, in any width | `MCResp` | `RespProofs` |
| `RespFSM` | `unmarshal.c` | `MCResp` | `RespProofs` |
| `RespWire` | what the writers of the protocol send, and `RoundTrip` | `MCResp` | `RespWireProofs` |
| `Marshal` | `marshal.c` (recursive; TLC only) | `MCResp` | |
| `EventLoop` | `driver.c`, `kqueue.ch`, `acceptProcHandler`, and what client callbacks do to registrations | `MCEventLoop` | `EventLoopProofs` |
| `KVService` | the abstract service to several programs | as `ServiceSpec` | `FreedbProofs` |
| `Freedb` | `serverMain`, `commandExec`, `command.c`, `freedb-cli`, over an instance of `Engine` | `MCFreedb` | `FreedbProofs` |
| `MapInterface` | the map a user of hashmap.h expects | as `MapSpec` | `HashMapProofs` |
| `HashMap` | `hashmap.h` | `MCHashMap` | `HashMapProofs` |
| `BstrText` | `bstrlib.c`: texts, positions, case, sizes | (extended) | |
| `BstrQuery` | searching and comparing, as the loops run | `MCStrings` | `BstrProofs` |
| `BstrList` | splitting, joining and lists | `MCStrings` | `BstrProofs` |
| `StringState` | the state of a program that calls bstrlib on a string; `SearchesAgree`, `SplitsJoinBack` | `MCStrings` | `BstrProofs` |
| `Bstr` | the functions that write, with their memory (recursive; TLC only) | `MCStrings` | |
| `Strings` | programs that call them on a string (recursive; TLC only) | `MCStrings` | |
| `BstrStream` | streams, and programs that read and split one (recursive; TLC only) | `MCStrings` | |

Each module with behaviour also has, before the definition it changes, a few
*mutants*: the definition with a plausible mistake in it (`PutReturns` for `Put`,
and so on). They are used by no specification. `PROJECT.json` names, for each
property, the mutant that violates it.

**Engine.** `pc` is the next LMDB call of the function in progress. `TxnBegin`
has no step while another write transaction exists, since `mdb_txn_begin(env,
NULL, 0, ...)` waits for the writer lock; every LMDB call may fail and goes to
`Exit`, the code at the `EXIT` label. `writer` says whose the write transaction
is: the call's, or nobody's ("orphan") after a `dbEngineGet` that found its key
and returned (`dbEngine.c:93`). `txn` is the local variable, which after a failed
commit still holds an ended handle; passing that to `mdb_txn_abort` leads to
`undefined`, from which only a crash leads out. `dbEngineOpen` allocates its struct
with the size of a pointer to it (`dbEngine.c:46`), so that `dbi` lies behind the
memory obtained: `DbiFits` says whether the smallest block of `malloc` has room for
it all the same, and where it has not `Open` may end in `undefined` too. `Crash` may
happen at any point and keeps `disk`. LMDB is external and modelled from its use: at
most one write transaction, atomic durable commit.

**KVStore** is the promise: a call takes effect in one step or is refused
without effect; a crash loses the call in progress and nothing acknowledged.
`Engine` maps to it with `store <- disk` and a phase computed from `up` and `pc`.
`SilentOps` are the calls that return `DB_OK` from `EXIT` whatever happened
there: for `dbEngineRemove` and `db_engine_drop` the promise is weaker, and a
user of them cannot tell a refusal. What a call does to the map (`Effect`) and
the results are in `StoreInterface`, which the engine and both abstractions share.

**Client.** The two streams are positions: a byte is its place in what the peer
sends, or in what the server produces, so `buffer` and `replyBuffer` are
intervals and "the right byte" is arithmetic. `CmdEnds` and `ElemEnds` say where
commands and elements end in the request stream; `Takes` is the parser's
contract (all complete elements, up to the end of one command), which is what
`RespFSM` models in full. A parser that has lost its place may find anything: it does
after a compaction, and after a `bcatblk` whose result nobody looks at found no
memory for what `recv` had returned (`client.c:162`; `NothingLost`). An append to the
reply buffer may find none either, and then what is left of the reply has a length of
`CutLens`. `Hang` is a command that does not return: it waits in `mdb_txn_begin` for a
transaction that a get has left open.
`consumed` and `written` are the ghosts that say what the parser and the kernel
expect next. One callback's code is a sequence of actions (`recv`, `parse`,
`exec`, `write`, ...), since the peer acts meanwhile.

**RespFSM.** One action per activation of `procItem`, `movePreTask` or
`moveNextTask`. They are tail calls that add up what they took, so the C stack
is the number `len`. `ridx` and `tasks` survive between calls. Header numbers
keep their C widths: `LLMax`, `IntMax` and `SizeWrap` stand for `LLONG_MAX`,
`INT_MAX` and 2^60 (the number of 16-byte items whose size wraps to 0 in 64 bits),
so that `(int) ll` and the size passed to `zcalloc` wrap. A size that has not
wrapped to at most `MaxLen` items is taken to be more than `malloc` grants. The length
of a bulk string with its header and terminators is a sum of ints (`unmarshal.c:99`,
`IntSum`): near `INT_MAX` it wraps, the test of what has arrived passes, and the
content is copied from behind the buffer (`Overread`, from which nothing follows).

**String2ll.** One operator per test of the loop, over numbers modulo the width;
the parser reads its headers with it. `RespBytes` says what a numeral means and is
the reference for it.

**RespWire.** A message is items, the bytes that stand for them, and their layout: a
node for each item and each element of an array, which says where its bytes begin
and end. A layout is judged node by node (`Written`), against the forms that
`marshal.c` and the clients write. `MCResp` builds messages with `Marshal`, and the
assumption `SentAssumption` has TLC verify that they are `Written`.

**EventLoop.** `events` is the driver's table, `kq` kqueue's filters, `owner` and
`heap` what descriptors and `client_t` objects really are. `evApiPool` returns
every ready filter, in any order. `Dispatch` looks at the first entry of the batch
each time (`driver.c:27` never advances `fired`). Callbacks are one action each:
the ways they can end, with respect to registrations, or `Stop`, for one that never
does. Input arrives on a live connection without end; connections are `NumConns`.

**Freedb.** The composition: programs, one connection each, the command layer and
the engine, which is `INSTANCE Engine` with its own variables, so that every LMDB
call, failure and crash of `Engine` is a step of `Freedb`. A program has one
request outstanding, and connections carry whole requests and whole replies:
bytes are `Client`'s and `RespFSM`'s matter, but for how many of them have been parsed
on a connection (`pos`): a call of the parser takes one of the `Lengths` of its program.
Past `CompactAt` the program is astray. The buffer has been cut and `client->pos` was
not reset, so that the parser goes on in the wrong place: it never sees the rest of a
request (`CutShort`), finds requests that nobody sent (`Misread`), or nothing
that it can read (`Unreadable`). Requests are items of every shape.
`Found` is what a command reads in the member `string` of each element: an
integer's element keeps the union of the element before it, and an array's count
and padding stand where a string has its length (`ValueIn`). An empty array or an
array for a name passes the test of `client.c:106` and leads to `Derail`, of
whose outcome nothing is known. Of the lines typed into `freedb-cli` the first is
read; `scanf("%[^\n]")` leaves the newline, so that all others are empty.
`Receive` and `TornRead` are what it makes of a reply in one chunk and in two. Empty
keys, which LMDB refuses, are left out. **KVService** is what the programs see: each request
takes effect at one instant between its submission and its answer, or is refused;
answers may be lost with a connection, and a request may outlive its program. Of a
program that is `Adrift` it says only that calls of any kind may be made in its name.

**HashMap.** `tables` is the C stack of tables: the caller's, and above each the
`new_hash` its elements are being moved to. A put that finds no slot in the
topmost one grows it (`Grow`) or fails (`NoMemory`), be it the caller's put or that
of an element on the move; `Move` is one call of `hashmap_rehash_iterator`. The
hash function is arbitrary: a value for each key, chosen at the start. The two iterating
functions are told apart by when they stop and what they return (`Iterate`,
`IteratePairs`). The map of **MapInterface** is what all tables together hold. A put on
its way may carry keys off one by one (`moved`); one that fails loses exactly those.

**Bstr and Strings.** Memory is a sequence `data` of characters, some of them `Any`;
`slen` and `mlen = Len(data)`. A function is the set of its outcomes, a result and the
memory after it, since each of its allocations may succeed with the size it asks
for first, succeed only with the least size, or fail. `ev` records what happened:
the memory has *moved*, an allocation came out *short* or *tight*, a write was
*overrun*. An operand is a text of its own, a slice of the string itself, or the
string. Lengths and sizes are ints and wrap (`Wrap`); `blk2bstr` is also given a block
that is as long as an int can say. `Strings` chooses a call in one step and lets it
return in the next.
`BstrQuery` and `BstrList` follow the loops of the searches and of the splits, down
to the unrolled one of `binstr`, over characters that are signed or not, as in the
code; each loop is a recursive function. What they are to return is asked in every
state, of the text that the program has made and of parts of it (`Probed`, `Probes`).

**BstrStream.** A stream is what has been read ahead and what the core stream still
holds; the `bNread` function hands over any part of that. Each function is a set
of outcomes as above, and each action applies one. A callback of the splitting
functions may stop and leaves the stream alone. A stream for whose buffer
`bsopen` had no memory is not among the states.

## 3. What the runs check

| Run | Question | Bounds |
|---|---|---|
| `engine` | types; `LockDiscipline`; `DroppedStaysEmpty`; `CallReturns`; `KVSpec`: the engine implements the map | all functions, 2 keys, 2 values; the struct may not fit |
| `client` | types; `ReplyStreamIntact`; `SyncUntilCompaction`; `OneReplyEach`; `WriteInterest`; `LostOnlyBacklog`; `RepliesFlushed`; `CommandsAnswered` | 3 commands that end at 2, 3 and 5 of 5 bytes; `recv` of at most 2, send buffer 1, compaction beyond 3; registrations and appends may fail, commands may hang |
| `resp` | types; `InBounds`; `StackShape`; `TakesWhatIsThere`; `RoundTrip`; `CallEnds`; `NumbersRead` of `string2ll` | all 6^5 streams of 5 significant bytes, the written streams, nesting past 3 tasks, lengths and a sum that wrap (`int` of 6 bits and a sign); widths that TLC can cover |
| `loop` | `CallbackOnLiveClient`; `TableMatchesKernel`; `LiveConnectionsHeard`; `InputServed`; `OutputServed`; `ConnectionsAccepted` | 3 connections on 2 descriptors, input without end, up to 2 pending bytes; registrations may fail, callbacks may not return |
| `freedb` | `ServiceSpec`: the server implements the service; `CliNeverDerails`; `CliRunsOneCommand`; `RequestAnswered` | a program with 6 kinds of items, whose second request takes it past `CompactAt`, and a session of `freedb-cli` that stays below; 2 requests each, 1 key, 3 values |
| `hashmap` | types with `size`; `WithinReach`; `HeldOnce`; `GrowsForCause`; `MapSpec`; `PutReturns` | 4 keys, one with two entries, every hash function into 2 neighbouring values, chains of 2, tables of 1 to 16 slots |
| `strings` | `CallsAsDocumented`; `SearchesAgree`; `SplitsJoinBack`; `ReadsInOrder` | strings of up to 3 characters, `int` of 5 bits and a sign, every slice as an operand, a block of `INT_MAX` characters; streams of up to 4 characters, buffers of 1 to 3 |

Why the bounds are enough. Engine: two keys and two values tell "this key" from
"another", and an old value from a new one; calls are unbounded in number. Client:
every threshold (`recv` size, send buffer, compaction) lies inside the streams, so
each is crossed in the middle of an element, of a command and of a reply, and a
compaction is followed by more traffic. The first two commands end before the buffer is
ever compacted, and one `recv` may bring the end of the one and all of the other, so
that the second waits in the buffer for what comes next; the third is behind the
compaction. Parser: three tasks make "at", "below"
and "beyond" the limit distinct; streams of five bytes hold any header with its
terminator and part of what follows, and the written streams are cut at every
byte. Loop: three connections over two descriptors force reuse and leave one connection
without a descriptor, a batch may hold several entries for one descriptor, and since
input never runs dry a connection may be first in every batch. That `NumConns` is
finite takes one thing away, a listening socket that starves the others by accepting
for ever. Freedb: two programs suffice for the
order of two requests, a set seen by another and a get that stops the other; the
second request of a session is the first that goes wrong. The program's requests are
parsed in steps of two bytes and `CompactAt` is 2, so that its first is parsed in place
and what follows, be it the rest of that request or the next, is not. HashMap: with chains
of two, three keys of one hash value force growth, neighbouring values wrap
around in a table of four slots and not in one of eight, and the move to a table
that itself must grow is reached with four keys. Strings: sizes straddle the
least allocation (2 here, 8 in the code), the powers of two it rounds up to and
`INT_MAX` (31); a slice may lie before, across and behind the position a call
works at. Streams hold more than the buffer, with terminators next to
each other and at the end.

`CHECK_DEADLOCK FALSE` is set where the system may come to rest: a client or a
server that waits for input that is never sent, a parser at the end of its
stream.

**Fairness.** Weak fairness of `Step`: the one thread goes on as long as it has
something to do, be it in a call or in the loop. Weak fairness of `PeerReads`,
where a property speaks of replies arriving: the peer keeps reading. Peers are
never assumed to send, to stay, or to connect, and kqueue's order is free. In
`Freedb`, the engine's steps and the end of a command are fair as in `Engine`, and
programs read what is sent to them and notice the end of a connection. A request that
arrived and is found is taken up in the end: that is right for the finitely many
requests of this model, and `EventLoop`, which says what becomes of one behind input
that never ends, does not promise more. In `HashMap`, a put in progress goes on.
`Strings` and `BstrStream` state no fairness.

**What ends a promise.** No fairness makes a thread go on that waits in `mdb_txn_begin`,
and the liveness properties name that: `CallReturns` excepts a transaction that a get
has orphaned, `RepliesFlushed` and `CommandsAnswered` a connection whose command hangs,
`InputServed`, `OutputServed` and `ConnectionsAccepted` a loop that has stopped,
`RequestAnswered` a server that hangs. Since `driver.c:27` serves the first entry of a
batch only, `InputServed` says no more than this of a connection whose input waits:
that it waits for ever only behind input of others that never ends, behind an
`accept()` that fails for lack of descriptors time and again, or behind a callback that
does not return. `OutputServed` says the same of replies, where the connection's own
input counts too, and `ConnectionsAccepted` of peers that wait while a descriptor is free.
`RequestAnswered` also excepts a program that is astray, when the server does not see
its request; `CommandsAnswered` promises nothing after the first compaction, loss of
memory or failed registration.

## 4. Where the code differs from what is said of it

Five runs expect a violation; each checks one property that a comment or a test of
the repository states.

* `engine_get` / `EveryCallReturns`: a `dbEngineGet` that finds its key leaves its
  write transaction open, and the next call waits forever
  (`utest/db_engine_test.c:40-41` expects `dbEngineRemove` to return).
* `client_compact` / `PosIsIndex`: after compaction `pos` keeps its value, and the
  connection is parsed out of step from then on.
* `client_error` / `ErrorIsReplied`: a protocol error is answered by a lone `-`.
* `loop_slots` / `SlotInTable`: the table is allocated with the size of the wrong
  struct; a quarter of the descriptors it should hold have a slot.
* `resp_length` / `ContentAwaited`: a bulk string whose length is near `INT_MAX`
  (`$-2147483649` is truncated to it) is taken to have arrived.

A disagreement without a run of its own: `setCommand` tests `argv[1].type` twice and
`argv[2].type` never (`command.c:13`; its message at line 14 asks for strings), and
stores integers, arrays and errors as what their union holds. `Freedb` has it (`ValueIn`,
`Accepted`) and `ServiceSpec` takes what is stored for what was asked.

Further behaviour that the models contain, so that the passing properties are true
with it: a pipelined command that arrives in the same `recv` as its predecessor
waits in the buffer for more input (`CommandsAnswered` says which commands are
answered); a reply whose event cannot be registered waits for the next reply
(`WriteInterest` assumes registrations do not fail); out of descriptors, the
listening socket may take the first place in every batch and no connection is
served (`InputServed` excepts it); the value of a RESP
integer is dropped; a write to a reset connection may end the process by SIGPIPE;
`dbEngineRemove` aborts its own deletion and returns `DB_OK`, as does a
`db_engine_drop` that fails (`SilentOps`); after a drop that succeeded `dbi` is 0 and
nothing can be stored until the engine is opened again (`DroppedStaysEmpty`); what a
failed rehash had moved is lost with the new table (`FailToBind` of `MapInterface`).

Of hashmap.h, the convention of `hashmap_iterate`: it stops when its callback returns 0,
and then returns 1 (`hashmap.h:350`), where line 156 says that it stops for non-zero;
`hashmap_iterate_pairs` returns 1 when it stops, whatever the callback returned
(line 167 says that the positive value is returned).

Of bstrlib, `CallsAsDocumented` and `ReadsInOrder` hold with exactly the following
exceptions, each a named definition; the lines of `bstrlib.txt` (txt) say otherwise:

* `Accepted`: `btoupper`, `btolower` and the three trims return `BSTR_OK` for an empty
  string; txt 1298-1330 has them refuse it.
* `RoomGiven`: `bfromcstralloc` that finds no memory halves an odd size down
  (`bstrlib.c:254`) and may settle for one byte less than the `mlen` of txt 691.
* `Told`: `bgetsa` returns 1 only if the string is empty afterwards (2002), txt 1654
  asks for it whenever nothing was read.
* `MayBeStale`: `bcatblk` reads its block after it has moved, if that is a part of the
  string (440), and `bfindreplace` a longer replacement in front of `pos`; txt 255-262
  says that aliasing is handled. `bassignblk`, which freedb gives parts of its own
  buffers (`client.c:48` and 136), does not move a terminated string for one.
* `MayBePartial`: `breada`, `bgetsa`, `bassigngets`, `bcatcstr` and `bassigncstr` that
  find no memory half-way leave part of the text in the string; txt 279 says that an
  error does not modify it. `bcatcstr` and `bassigncstr` may leave it full and without a
  terminator, and a later call writes behind it.
* `MayOverrun` (txt 325 excludes anything undefined): `blk2bstr` with `len` at `INT_MAX`
  allocates the least size (290); so do `bassign` and `bstrcpy`; `bconcat` of two strings
  of that length together skips `balloc` (366); `bdelete` with `pos + len` beyond it
  wraps; after a tight allocation there is no byte for the terminator in `bassign`,
  `bassignmidstr`, `bassignformat`, `breplace`, `bvcformata` and `bfromcstralloc`.
* `HandedTwice`: a read of a line that fails between two of its parts hands out again
  what had been read ahead (2130).
* `Dropped`: `bssplitstrcb` loses what it has read ahead when its callback stops
  (2554, 2567; the comment at 2516-2520 says that the stream stands right behind the
  separator); `bssplitscb` loses the entry at hand, and what it read behind it, when
  `bsunread` finds no memory (2490, 2504).
* `ReadsInOrder` also allows for what `bssplitstrcb` does not search, what it reads
  together with the end of the stream, for its one call per chunk when the separator is
  empty (2512 speaks of each character), and for a `bsreada` that takes the stream for
  ended when an allocation fails.

`SplitsJoinBack` leaves `bsplitstr` with an empty separator out: the code makes an entry
of each character (2761, and none of an empty string), where txt 1402-1404 and the
comment at 2742 speak of one entry, a copy of the string. A separator that follows
another at once is not seen (2775; `Unseen`), though txt 1402 divides by every one.
`SearchesAgree` takes `bstrcmp` and its like for orders by signed `char`, as compiled,
where txt 956-958 likens them to `strcmp`, which compares unsigned. Further: `bninchr`
with an empty set returns `BSTR_ERR`; `bjoinblk` has no test for an entry or a header
that is missing; `bspeek` assigns (2359), where txt 1773-1775 says that it appends.

## 5. What is proved

For all values of the constants that satisfy the named assumptions, which TLC also
evaluates on each instance.

* **EngineProofs** (`InterfaceAssumption`, `DbiFitsAssumption`). The inductive invariant `IInv` joins
  `TypeOK`, `LockDiscipline`, `TransactionIsCall` (a transaction holds the committed data
  and its own call's effect) and `OrphanBlocksAll` (behind an orphaned transaction no call
  gets past `mdb_txn_begin`): that a commit writes the call's effect and no other needs
  that nobody else can commit between begin and commit, which is the lock discipline.
  The latter two are proved and in no run. From it
  `EngineImplementsStore`: each engine step is a `KVStore` step or a stutter,
  whichever functions are used; of remove and drop the store promises less.
  `DroppedIsEmpty`: with `dbi` at 0 the table is empty and stays so.
* **ClientProofs** (`ClientAssumption`). `ReplyStreamIntact` is inductive with the
  types. `InputSync` needs `Drift`: the parser reads where it should until the first
  compaction, and beyond that place ever after; bytes that found no memory are never
  made up for either. `InterestMatches` needs `Interest`,
  which also says what is pending inside `reply`; `OnlyBacklogLost` (`LostOnlyBacklog`)
  follows from it: wherever a connection is closed, the last `reply` on it has asked for
  what it could not write to be written later. `RepliesCounted` (`OneReplyEach`)
  counts: a call of the parser passes the end of one command if it returns an item and
  of none otherwise, and each reply ends behind all earlier ones; `Drift`
  says that a parser in step was in step before.
* **RespProofs** (`RespAssumption`: an `int` is no wider than a `long long`, and the
  items that `malloc` grants are fewer than wrap a size). `IInv` adds to `StackShape` (enclosing tasks
  are arrays that miss an element, unused ones are free) that the tasks are
  well-formed records and that `ridx` is a task while a call runs or is awaited.
  `InBounds` follows: the nesting check and the shape together keep every access to
  `tasks` and `argv` inside, for every input and every cut. `TakesOnlyArrived`
  (`TakesWhatIsThere`): a call takes bytes that have not arrived only where the sum of a
  bulk length wraps. `NumbersAlwaysRead`
  (`NumbersRead`): the accumulator of `string2ll` is the value of the digits read as
  long as the two tests of the loop pass, and where one fails the numeral's value does
  not fit, whatever digits follow; so for numerals of any length and any width.
* **RespWireProofs** (`RespAssumption`, `SentAssumption`). An item is a tree and the parser
  keeps a stack. `Reading`, the invariant, says that the tasks lie along a path of the
  message's layout (`Along`), from the item being read down to the node that the next byte
  belongs to: each array on the path holds its elements before the next node and none
  after it, and the position in the stream is where the layout says (`Here`). A step moves
  the end of the path down, to the next node, or up. `ReadsWhatWasSent` (`RoundTrip`)
  follows, for any nesting within the parser's limit and any cuts.
* **EventLoopProofs** (`LoopAssumption`). `IInv` joins the types, `Ownership` (a
  connection's descriptor is its own, carries it as data and is listened to; live
  connections have exactly one; connections to come have none) and
  `TableMatchesKernel`. Why no callback meets a freed `client_t`: `clientFree`
  empties the mask, so later entries of the batch for that descriptor are skipped;
  if the descriptor is handed out again, its data is the new connection.
  `TypeCorrect` adds the sockets and the bounds of the counters.
* **HashMapProofs** (`HashMapAssumption`). `TablesSound`: the types, `WithinReach` and
  `HeldOnce` are inductive together, for every hash function, chain length and
  nesting of rehashes. A move cannot duplicate a key because the tables of the stack hold
  disjoint keys and the element leaves one as it enters the next; a get finds an
  element behind a hole because probes look at the whole chain. From it `HashMapIsMap`: a step of the table is a step of the map or
  a stutter: a move carries one key off or puts all of them down again, growth stutters,
  and a failure loses exactly the keys that the tables above the caller's hold.
  `GrowsForCauseAlways` counts over all tables at once: while a map grows, the elements
  of the tables together are those of the map, none lost and none twice, and the
  lowest table was left for a window without a free slot, each of whose slots is one
  element of them, or because it was full.
* **BstrProofs** (`BstrTextAssumption`, `StringStateAssumption`: the texts of a program are
  strings of bytes). For all texts and positions, and so in every state:
  `SearchesForStrings`, `SearchesForCharacters` and `Comparisons` make up `SearchesAgree`,
  `SplitsByStrings` (for separators that are not empty), `SplitsByCharacters` and
  `ListsOfParts` make up `SplitsJoinBack`. The
  loops are recursive functions, and the induction is done by hand: a function that
  satisfies the equation exists, and whatever satisfies it has the property, for else
  there would be a least round without it. For the unrolled loop of `binstr` the property
  is a closed form (`Found`): what has been matched so far is a prefix of the string
  sought, and it stands at `start` if no place was passed over since; otherwise no
  occurrence begins before it. A split is a chain of pieces with a separator in each gap (`Chain`),
  each piece free of separators but where it begins; joined up to a piece, the
  parts are the text up to its end.
* **FreedbProofs** (`InterfaceAssumption`, `FreedbAssumption`, `ServiceAssumption`: an
  accepted request is a call, no line has the placeholder `Wild` for a word and
  `Nobody` is no program). The inductive invariant `Inv` says of a request the
  server holds that its connection is open and nothing else is under way on it (`Held`), of
  replies that only the last is a fragment and then the connection is shut
  (`Outgoing`), and of the engine that it works on the request of the program being
  served, in a transaction that sees the committed data (`Working`). From it
  `FreedbImplementsService`, with the scope of `ServiceSpec`: a program is promised the map
  until more than `CompactAt` bytes have been parsed on its connection, and the others
  are promised it still. A step moves what one program sees, loses connections, or
  is not seen. Requests take effect in `Commit` and `Get`. `Sessions` adds, for
  `CliOneCommand` and `CliSafe`, that after the first request of a session the server
  holds only empty lines of it, which name no command, and that a handle left by an
  ended transaction is a set's.

**Only model-checked**: all liveness (`CallReturns`, `RepliesFlushed`,
`CommandsAnswered`, `CallEnds`, `InputServed`, `OutputServed`, `ConnectionsAccepted`,
`RequestAnswered`, `PutReturns`), which is beyond the prover; and `CallsAsDocumented` and `ReadsInOrder`,
whose modules `Bstr`, `Strings` and `BstrStream` use recursive operators.

## 6. Not modelled, and why

* `bstraux.c`, `buniutil.c`, `utf8util.c`, `bstrwrap.cpp` and `bsafe.c`: nothing in
  freedb calls a function of them, and the C++ file is not built. `cutest/` and the
  unit tests are read for what they assert.
* `zmalloc.c` beyond the fact that it ends the process, the values in `config.c`, socket
  options in `znet.c`, start-up checks that `DIE` other than as a crash,
  `driver_stop` and `driver_close` (never called).
* Memory that is never freed (parsed items, parser errors): no bound in the code
  depends on it.
* The arithmetic of the hash function: `HashMap` holds for every function. What
  `vsnprintf` prints: any text.
* Two requests of one program on the way at the same time: pipelining is in `Client`,
  where commands are intervals of a stream, and not in `Freedb`.
* Bytes torn between the programs of `Freedb` and the server: `Client` and `RespFSM`.

## 7. Plan

1. *(done)* Engine and its abstract store, connection, parser, event loop; types
   and main safety invariants proved, refinement of the store proved.
2. *(done)* `String2ll`; the commands and `freedb-cli`, with `Freedb` composing them
   with the engine, and the service they implement.
3. *(done)* The command table with the map it implements, and its proofs; the string
   library.
4. Proofs: *(done)* `Freedb`'s refinement of `KVService` and its invariants;
   `String2ll` for every width; the parser on what was written; growth of the command
   table; searching, comparing and splitting of strings.
5. Open: the calls that write strings and read streams (`CallsAsDocumented`,
   `ReadsInOrder`), by recursive functions in the place of their operators; `RespFSM`
   as an implementation of `Client`'s `Takes`.
