# plcstub in TLA+

plcstub is a C library that stands in for libplctag: a process links it in
place of the real library and talks to a simulated PLC, a table of tags in
memory, through the same API. The library starts no thread of its own. Any
number of client threads call it at once, and everything hard about it is in
how those calls interleave on one shared tree and its locks.

## Inventory

| Part | Code | State | Operations | How it interacts |
|---|---|---|---|---|
| Tag tree | `src/src/tagtree.c` | `tag_tree_mtx` (rwlock), `tag_tree` (red-black tree of nodes by id), `tree_size`, `tag_tree_inited` | `tag_tree_init`, `_insert`, `_remove`, `_lookup`; inside: `_node_create`, `_node_destroy`, `_metanode_create` | called by every API call; returns raw node pointers |
| One tag | `struct tag_tree_node`, `src/src/plcstub.c` | id, name, type, data bytes, callback, mutex | get/set of 11 scalar types, read, write, lock, unlock, status, get_size, (un)register callback | looks the tag up, then locks its mutex *after* the tree's lock is gone; calls the client's callback under that mutex |
| Tag creation | `plc_tag_create` | none | parses `key=value&...`, finds the name, inserts a `LINT` tag | `"@tags"` rebuilds the metatag instead |
| Metatag | `tag_tree_metanode_create`, tag id 1 | a tag whose data is one record per tag | built by a lookup of id 1 or by a creation of `"@tags"`; invalidated by each creation | takes the tree's write lock |
| Tag types | `src/src/types.c` | heap-allocated type trees | constructors, `type_dup`, `type_free`, `type_size_bytes`, `type_to_enum` | sizes the data of a tag |
| Red-black tree | `src/include/sys/tree.h` | links and colours in the nodes | insert, remove, find, min/max | vendored from FreeBSD, expanded by the tag tree |
| Debug log | `src/src/debug.c` | `debug_level` (atomic), `debug_mtx` | `pdebug`, get/set level | leaf lock, taken around one message |
| Error strings, version | `plc_tag_decode_error`, `plc_tag_check_lib_version` | none | constant tables | none |

What is hard, and what makes each part correct:

- **Tag tree.** Lazy initialisation is double-checked under two lock modes.
  A destroy takes three locks in sequence and frees in the last. A creation
  frees another node (the metatag) on the way. Correct means: the global lock
  is balanced on every path; the tree is built once; ids are unique; every node
  is in the tree or about to be freed by one thread; the metatag lists what
  exists; each call behaves as one atomic operation on a set of ids; and no
  set of calls blocks for ever.
- **One tag.** The pointer a lookup returns is used outside every lock. Correct
  means: two threads never have one tag at once; the tag a call works on is the
  one the client named, and allocated; a callback sees both ends of an
  operation or neither; error paths release the mutex.
- **Callbacks.** The library calls the client in the middle of a call, with the
  tag's mutex held, and the client may call the library again. Correct means: the
  interrupted call finds its tag as it was, and nobody waits for ever.
- **Data, creation, metatag contents.** Offsets, widths and sizes: an access
  stays inside the tag's bytes and returns what was written last, an attribute
  string is accepted or refused without touching memory it does not own, the
  metatag's records are where a client looks for them.
- **Types.** A type is a tree of heap blocks. Correct means: a type shares
  nothing with those it was made of, a block is as large as what is written to
  it, every block is freed once, the size is the sum of its scalars' sizes.
- **Red-black tree.** Balance is two bits per node, hidden in the parent
  pointer, and each step is written once for the left and once for the right.
  Correct means: links, order and ranks hold, and to its user it is a set.

`PROJECT.json` lists every hazard with the line at which it bites.

## Modules

| Module | Models | Extends / instances |
|---|---|---|
| `TagTree` | the tree, its lock and the lock protocol of every API call | `TagRegistry` (as `Registry`) |
| `TagRegistry` | what the API promises about which tags exist (abstract) | |
| `MCTagTree` | symmetry set for TLC | `TagTree` |
| `NumberLemmas` | lemmas about `Min`, `Max` and least numbers | TLAPS |
| `TagTreeProofs` | theorems of `TagTree`: its invariants, and that it implements `TagRegistry` | `TagTree`, `NumberLemmas` |
| `TagUseProofs` | theorems of careful clients: the use of one tag | `TagTreeProofs` |
| `Callbacks` | callbacks that call the library, composed with every call of `TagTree` | `TagTree` |
| `CallbackProofs` | theorems of `Callbacks` | `Callbacks`, `TagUseProofs` |
| `Metatag` | the records of `@tags` and a client that walks them | |
| `MetatagProofs` | theorems of `Metatag` | `Metatag`, `NumberLemmas` |
| `TagData` | the bytes of every tag: creation, initial values, accessors | |
| `MCTagData` | offsets and attributes for TLC | `TagData` |
| `TagDataProofs` | theorems of `TagData` | `TagData`, `NumberLemmas` |
| `TypeBlocks` | what a `type_t` and the blocks behind it are | |
| `TypeOwnership` | which blocks belong to which type, one step per call (abstract) | `TypeBlocks` |
| `TypeOwnershipProofs` | theorems of `TypeOwnership` | `TypeOwnership` |
| `TagTypes` | constructors, copy, free and size, down every pointer; implements `TypeOwnership` | `TypeOwnership` |
| `RankTree` | insert, remove and lookups of `sys/tree.h` on pointers and bits | `KeySet` (as `Set`) |
| `RankTreeProofs` | theorems of `RankTree` | `RankTree`, `NumberLemmas` |
| `KeySet` | what a user of `sys/tree.h` relies on (abstract): the set of nodes `TagTree` works with | |

`TagTree` takes two things from the modules below it: that the tree is a set of
ids with a maximum (`RankTree` implements `KeySet`; `RB_FIND`, `RB_MAX` are
`LookupsRight`), and nothing of the bytes, which `TagData` and `Metatag` have
one call at a time, since all accesses to a tag are under its mutex
(`TagExclusion`).

### TagTree

One action is one stretch of a call between two lock operations, so TLC
interleaves threads exactly where the code lets them. A thread's place in the
code is `pc[t]`; its C locals are `ptr[t]` (`tag`, `t` or `ret` of the source),
`old[t]` (the metatag being freed), `ret[t]`, and `seen[t]` (the callback events
delivered). The tree is a set of nodes, a node an address; `tag_id`, `mtx`, `cb`
and `listing` are functions from addresses.

| `pc` | Actions | Code |
|---|---|---|
| `idle` | `Start`, `EarlyReturn` | the API entry points and their checks before any lock |
| `init_*` | `InitRdlock`, `InitCheck`, `InitWrlock`, `InitBody` | `tag_tree_init` |
| `insert_lock` ... `finish` | `InsertLock`, `NodeCreate`, `MetaDrop`, `TagLock`, `TagUnlock`, `MetaCreate`, `MetaFill`, `Finish` | `tag_tree_insert`, `_node_create`, `_metanode_create`, `_node_destroy` |
| `remove_*` | `RemoveLock` ... `RemoveDestroy` | `tag_tree_remove` |
| `lookup_*` | `LookupLock`, `LookupFind`, `LookupUnlock` | `tag_tree_lookup` |
| `mtx_lock` ... `mtx_unlock` | `MtxLock`, `Started`, `Access`, `SetCb`, `GetSize`, `MtxUnlock` | the calls on one tag in `plcstub.c` |

Three choices about memory and locks matter.

- `malloc` returns any address not allocated, so addresses are reused. A freed
  node keeps its fields and lock word until the address is handed out again:
  using it is undefined in C, and this is the mildest outcome. What the
  violated runs show begins with a call at work on a node that is unlinked or
  freed, which no other outcome makes right.
- `tag_tree_node_destroy` frees a *locked* mutex and unlocks a copy, so a
  thread already waiting on the freed one stays blocked until the address is
  reused and the mutex initialised afresh.
- The locks are glibc's defaults: a mutex without owner check (any thread may
  unlock it; locking it twice blocks), and an rwlock that prefers readers.

`Nodes` bounds `malloc`. When it is exhausted a creation waits, where the
program would exit; runs have enough addresses for all their creations, or
check properties a waiting thread cannot falsify. In `TagTree` a callback returns
and calls nothing; what it may call is in `Callbacks`.

`Spec` lets every client make any call at any time. `CarefulSpec` is a client
that blocks on no mutex of its own: it unlocks what it locked, only that, and
between the two makes no other call on the tag. This is less than the header
allows: its lock, operate, unlock (`libplctag.h:294-295`) is forbidden, since in this
code the operation waits for ever for the mutex that the thread itself has.

### TagRegistry

A set of ids on which each call acts once between its invocation and its
return. `TagTree`'s mapping: a call has acted when it has searched or changed
the tree (`Acted`); the predefined tags exist from the start although the first
call makes them; the metatag is not in the set, since it always exists to a
client. A get or set decides between `PLCTAG_STATUS_OK` and
`PLCTAG_ERR_BAD_PARAM` after it acted, which is what `may` and `Decide` are for. `plc_tag_get_size` returns the address of
the tag's node, so it may return any of `Sizes`, the addresses; which one
is open until the call has read it.

### Metatag

Calls here do not overlap: the module is about a client that spreads one reading
of `@tags` over many gets. The data is a function from offsets to records
(header of 22 bytes, then the name); only id and name length are kept of a
record, and reading anywhere but at a record gives `GARBAGE`. A record's offset
is the number of `Bytes` of the records of smaller ids, which is the sum that the code's
loop forms. The walk is the
loop that `test/04-metatag_lookup.c` makes the first pass of. `destroyed` and
`upset` are history variables: they say when the records may have moved under
the walk for the two reasons the code does not guard against.

### Callbacks

`CbStep` is a step of `TagTree`; when it delivers an event (`seen` changes) the
thread is `entering` the client's function. `Enter` pushes the interrupted
call's place and locals on `frames[t]`, and the thread is idle again: free to
make any call, whose events may nest further. `Resume` is the function's return.
The tag's mutex stays held throughout, as in `plcstub_get_impl`.

`FairCbSpec` lets callbacks call anything. `OrderedSpec` is
a client that takes mutexes in the order of ids, counting those of the tags
whose callbacks it is in (`Around`); no client can do with less, since two
callbacks that use each other's tag wait for each other.

### TagData

A tag is its name's length, whether its type is the metatag's byte array, that
array's 16-bit length, and a function from offsets to bytes. What C leaves
undefined stops the client: `fault` says what happened. `plc_tag_create` goes
through the attributes of the string with `Parse`: an attribute has a key and a value,
or no `=`. Every accessor is `plc_tag_get` or `plc_tag_set` with a width in
bytes: `offset > 0` is refused for scalars whatever the width, `offset >= len` for
the metatag, and a negative offset is not. (`get_bit`/`set_bit` are the
4-byte accessors here: the TYPEMAP gives them `int`, and no bit is picked.)
`writes` is a history of the accepted sets since a tag was made.

### TypeOwnership and TagTypes

`TypeBlocks` has what both modules work on. A type is a number up to `TAG_LINT` or an address, as the pointer in C is; a block has
a length, the types `of` which it is made (one for an array, one per field for a
struct), and the `room` it was asked for. `Usable` rounds as glibc's `malloc`
does, so that an overrun is one that leaves the memory given; after one, what
the heap holds is undefined and the client makes no more calls.

`TypeOwnership` says what each call does to blocks, without the recursion that
gets there. The blocks of a type are the least set that has its own and is closed
under following pointers. A constructor, and `type_dup`, take new addresses: one for the new
block, and for each field one for every block of the field's type; the copies point to
each other as the originals do. `type_free` takes away the arrays among the blocks of its
type, and is in order if the type is `Whole`: a tree of allocated blocks, so that
going down every pointer comes to each block once.

`TagTypes` has the recursion: constructors, `type_dup` and `type_free` are recursive
operators on the heap, in the order of the code, and a step is a client's call of one of
them (`NewArrayCall`, `NewStructCall`, `DupCall`, `FreeCall`). It has the variables of `TypeOwnership`,
whose `Spec` is its property `KeepsOwnership`, and one more: `mine`, the client's own idea of each
type it has, a tree apart from any heap. `MaxTypes` bounds how many types it has at a
time. `SizeMod` stands for the 2^64 of `size_t`, in which sizes wrap. An array type
made with a simple type outside `TAG_BOOL..TAG_LINT` has `TAG_ERROR` elements
(`type_new_simple`); the run has INTs only, since such elements differ in their size alone.

### RankTree

The code's left and right halves are one definition with a side as its
parameter, which `Other` mirrors. A call is one action up to its rebalancing
(`Insert`, `Remove`), then one action per pass of the loop (`InsertColor`,
`RemoveLeaf`, `RemoveColor`). The red bits are a set of sides per node. A node
is its key: `RB_INSERT` refuses a second node with the key of one that is there.

## Runs

| Run | Question | Bounds |
|---|---|---|
| `tree_calls` | Is the global lock balanced, every node accounted for, none freed under a call that has entered it, the metatag complete and the tree stable under its lock; does each call act atomically, the tree being built once and no id in use given again? | 2 threads, 2 calls each, over existing, missing and metatag ids; 6 addresses, enough for every creation |
| `tree_progress` | Does every creation and destruction return, although it waits, with the write lock held, for the mutexes of calls inside? | 3 threads, 1 call each of create, destroy and get, a predefined tag and `@tags` |
| `calls_return` | With callbacks that make calls, without destroys: does every call return, error paths included; has one thread at a time a tag, callbacks and `plc_tag_lock` included; are events paired? | 2 threads, 2 calls each and unlocks, 2 tags and addresses |
| `metatag_walk` | Is a walk of `@tags` interleaved with creations sound and complete? | 2 predefined tags, 4 more, names of two lengths, 5 calls in between |
| `rank_tree` | Do the rebalancing steps keep links, order and ranks, do they end, and is the tree a set? | 9 keys, any number of calls |
| `type_blocks` | Do types share blocks, is every block freed once, what leaks or overruns; does a type stay what its maker asked for, do sizes add up; does the recursion do to blocks what `TypeOwnership` says? | arrays of 3 and structs of up to 2 fields, 5 blocks, 2 types at a time, any number of calls |
| `tag_data` | Where can an access go, what does it return, what does an attribute string make? | 1 predefined tag, 4 calls, widths 1, 2 and 8, offsets before, at the start and around the end of the data, strings of 2 out of 6 attributes |
| `unlock_blocked` | *violated*: an unlock returns | 2 threads |
| `metatag_freed` | *violated*: a call works on the tag it named | 2 threads |
| `callback_calls` | *violated*: a callback that makes calls returns | 1 thread |
| `bare_protocol` | *violated*: a string with a name and a bare `protocol` makes a tag | as `tag_data` |
| `predefined_value` | *violated*: an INT of `tags.inc` has its value | as `tag_data` |

Why the bounds are enough: a race in this code is between the holder of a stale
pointer or of a lock and one or two others, so two threads show every pair of
calls at every pair of points, and the third plays the one that reuses an id, or
that waits in line. Two calls per thread let a thread make something and then
use, rebuild or destroy it. The safety properties of `tree_calls` are also proved
for any number of each. `NInit` is 1 or 2 where the code has 10 predefined
tags: more of them add ids and no behaviour. `SizeMod` stands for 2^64: in the runs of
`TagTree` it is small enough for `tree_size` to drift and wrap below zero, which it does, and
in `type_blocks` a third level of arrays has a size that wraps.
`tree_calls` has no `plc_tag_unlock`, for the reason given with `AloneInside` below.
`calls_return` has clients that take mutexes in order because two that
lock two tags in opposite order deadlock themselves, which is no fault of the
library; and it creates a tag only where there is an address for it (`Room`).
Nine keys reach every branch of both loops, left and right, with each setting of
the bits it reads, and removals that climb two levels; the one path they leave out is a
removal that clears both bits of a sibling and then climbs, which is the climb
of the other branch. The number of calls has no bound; the invariants are also proved for any keys. Two
fields are the fewest at which a copy of a struct overruns its block, five
blocks the fewest for a type of a type of a type, whose copy has pointers inside; sharing is between two
types. All that `TypeOwnership` states is proved for any number of each. Four calls
of `tag_data` are a set, a destroy or creation, another set, and the get that
looks; offsets 38 and 39 are the last byte of the metatag of one tag and the first
after it.

**Fairness.** `Fairness` is weak fairness of each thread's next step, which is
what the scheduler gives a thread that can run, and of a careful client's
unlock: a client that never unlocks blocks others by the meaning of a lock.
Weak fairness is enough in the runs because calls are finite in number: a lock
waited for is not taken away for ever. It would not be enough with an unbounded
stream of readers, where glibc's rwlock may starve a writer; no property here
claims otherwise. Calls are bounded, so the runs stop (`CHECK_DEADLOCK FALSE`);
that no thread is stuck when they do is what `TreeCallsReturn` and `CallsReturn` say.
`CbFairness` adds that a callback is entered and returns in the end: one that
never does holds its tag by its own choice. `RankTree` has weak fairness of its
rebalancing passes, which run in one call and wait for nothing.

## What the code does against its documentation

Each is a run that TLC refutes, with the line of the source in `PROJECT.json`.

1. `unlock_blocked`: a destroy waits for the tag's mutex while it holds the
   global write lock; the mutex's holder needs the global read lock to unlock. The
   whole library blocks.
2. `metatag_freed`: creating any tag frees the metatag, which another thread may
   have looked up and be about to lock.
3. `callback_calls`: callbacks run under the tag's mutex, where the header says
   they do not; one that uses its own tag blocks.
4. `bare_protocol`: the attribute `protocol` without `=` is let through by the check
   that is there for it, and then written through as if it had a value, which is NULL:
   the program stops.
5. `predefined_value`: the INTs of `tags.inc` get one byte of their value.

What the models also show, without a run of its own:

- a thread that locked a tag with `plc_tag_lock` blocks on its own next get, set,
  read or write of it, as in `callback_calls`; `CarefulSpec` forbids this use, so no
  passing run includes it;
- when a tag is destroyed while a thread waits for its mutex and its id is
  given again, two threads have "the" lock of one id, so `TagExclusion` is stated without destroys;
- a destroy leaves the metatag in place, which goes on listing the tag:
  `MetaListsAll` says that a metatag lists all tags, not that all it lists exist;
- creating `@tags` over an existing metatag leaves 27 bytes after the records that
  are never written (`WalkParses` excepts it, by `upset`);
- an offset past the metatag's end is refused without an ABORTED event, where
  the scalar branch sends one (`EventsBracketed` is checked on scalars);
- a negative offset is accepted, although the message of the check says
  `[0, %d)`; `StraysKnown` names this and the other way out of the data;
- a copy of a struct type with two or more fields overruns its block, and
  `type_free` leaves every struct's block: `OnlyCopiesOverrun`, `OnlyStructsLeak`.

## Proofs

Each theorem holds for every value of the constants that the module's
`ConstantsAssumption` admits, which TLC evaluates in the runs; a further
hypothesis is in the theorem's statement. `NumberLemmas` has what several proofs
need about `Min` and `Max`, which are CHOOSEs and exist only where proved to.

### The tag tree: `TagTreeProofs`

For every set of threads, addresses, calls and ids (`NULL` is neither a thread nor an
address; calls are among those modelled; numbers are naturals):

- `TypeCorrect`, `LockDiscipline` (`RwBalanced`), `NoLeakNoDoubleFree`
  (`NodesAccounted`), `MetatagComplete` (`MetaListsAll`);
- `TreeStable`: the action property `TreeStableUnderLock`;
- `CarefulIsSpec`: a careful client's behaviours are behaviours of `Spec`, so all of
  the above hold for the careful runs too.

The argument: none of these is inductive alone. `Inductive` proves

    IInv == TypeOK /\ IdsBounded /\ RwInv /\ TreeInv

- `IdsBounded`: the ids in the tree have an upper bound, without which
  `RB_MAX` (a CHOOSE) need not exist when `Nodes` is infinite;
- `RwInv`: `RwBalanced`, and that a writer excludes every reader. It is what lets
  a step that changes the tree assume no other thread is inside it;
- `TreeInv`: `NodesAccounted` and `MetaListsAll` together with
  what a creation in progress knows (`Ready`: the tree is initialised
  past `tag_tree_init`; `Pending`: while the old metatag is being freed no
  metatag is in the tree) and `IdsUnique`: no two nodes of the tree have one id, without which
  a lookup (a CHOOSE) could find either. It needs `NextIdFresh`, and for the first tags
  `FirstAre`; `NodesAccounted` needs that only one
  thread can be about to free a node, hence the lock discipline.

`MaxOfTree`, `NextIdFresh` and `FindCorrect` are lemmas about the tree's
operators; the `...Keeps` lemmas are one per action that changes the tree.

### Calls are atomic: `TagTreeProofs`, second part

`ImplementsRegistry` proves that `Spec` implements `TagRegistry`: however threads
interleave, each call acts on the set of tags once, between its invocation and its
return, and returns what it decided there. It rests on

    RInv == IInv /\ CallInv /\ IdsAbove

`CallInv` is what each call knows at each place in the code: which calls get
there (`OpInv`), and what `ret` and `ptr` can be (`ResultInv`); `IdsAbove`, that no
tag has an id below the metatag's. The step lemmas then sort the steps: `Waits` (nothing of the call is visible
yet), the steps at which each call acts, `Continues` (its outcome stands) and `Returns`.
`MapStep` says that a step of one thread leaves the mapped state of the others.

### One tag: `TagUseProofs`

For clients that block on no mutex of their own (`CarefulSpec`), with

    NothingFreed == no destroys, and no creations beside uses of the metatag

- `Exclusion` (`TagExclusion`): two threads never have one tag at once;
- `EventsPaired` (`EventsBracketed`): a callback sees both ends of an operation or
  neither, if in addition the metatag is not used.

The hypotheses are necessary: without `NothingFreed` a destroyed tag's id can be given again
while a thread waits for the freed mutex; an out-of-range access of the metatag delivers no
ending event. `calls_return` satisfies them. The invariant is `UseInv`: per thread, that its call
is one a careful client may make (`Asked`), that its pointer is the node in the tree with the id it
asked for (`Good`), that inside a call it has the mutex (`InsideInv`), and that the tags it has
locked exist and their mutexes are its own (`HeldInv`). `NodesStay` says that no
step takes away or renames a tag that clients name; `MtxEffect`, that a step changes at most a mutex
that is free or the thread's own.

With destroys, rebuilds and reuse of ids and memory, and any client of `Spec` that does not call
`plc_tag_unlock`:

- `AloneInside` (`InsideAlone`): a call inside a tag's critical section works on an allocated
  node and is alone in it.

It is what is left of the use of a tag found under a lock that is dropped since: the node may have
become another tag's (`metatag_freed`), but it is not freed under the call. The invariant is
`AloneInv`: a call that has entered has the mutex of an allocated node; one that waits does so at
an allocated node or at one whose mutex is locked, as `tag_tree_node_destroy` leaves it,
so that it enters only once the address is a tag again; and a creation has its new node in the
tree. `NodeEffect` says what a step does to any one node. `plc_tag_unlock` must be left out: it
looks a tag up by its id, so where a locked tag was destroyed and its id given again, it releases the mutex of a tag that another
thread is in. That a waiting call stays blocked at a freed mutex is the mildest of the outcomes
that C allows, as said under `TagTree`.

### Callbacks: `CallbackProofs`

With callbacks that call the library, at any depth (`CbSpec`):
`CbInductive`, and from it `CbLockDiscipline` (`RwBalanced`) and `CbNoLeakNoDoubleFree`
(`NodesAccounted`): the invariants of the tree hold for any client, since a
callback is called only where its call holds no lock of the tree (`FrameInv`). For ordered
clients and `NothingFreed`: `CallbackOwns` (`CallbackOwnsTag`): while a callback runs, at
whatever depth, its tag's mutex is its thread's and the tag is there.
`CbUseInv` adds to `UseInv` what the interrupted calls keep: each has a tag in the
tree whose mutex is the thread's (`FrameUse`), no two the same one (`Distinct`), and the
call in progress yet another (`Apart`), which is what taking mutexes in the order of ids gives.

### Bytes and attribute strings: `TagDataProofs`

For any tags, offsets, widths, values and attribute
strings (widths are 1, 2, 4 or 8; the rest are numbers):

- `TypeCorrect` (`TypeOK`): a scalar's data are a word at least; the metatag's
  data are as long as the 16-bit length of its type, however many tags there are;
- `StraysAreKnown` (`StraysKnown`): an access leaves a tag's data only at a
  negative offset or in the metatag with a wide accessor;
- `LastWriteRead` (`ReadsLastWrite`): a get returns, byte by byte, what the last set
  that covers the byte wrote, through any mixture of widths;
- `CreateMakesIt` (`CreateRight`): an attribute other than `protocol` without `=` refuses a
  string of any length, wherever it stands; otherwise the last name names the new tag. It holds
  of calls that return: a bare `protocol` stops the program (`bare_protocol`).

Here `Inv == TreeFinite /\ TypeOK /\ StraysKnown`: that the tree is finite makes
the size of the metatag, a cardinality, a number (`SizeIsNat`), and its type's
length, that number modulo 2^16, no more than it (`Low16`). `StraysKnown` follows
from `TypeOK` before the call: an offset that the check lets through is, if not negative, 0 for a
scalar, whose word holds the widest accessor.

`LastWriteRead` needs `DataInv`: the bytes of every tag are at all times those
that its log of sets leaves (`Follows`), and a new tag's id is new (`IdsInv`), so that no log
is taken over. `CreateMakesIt` is an induction over the string, made by
hand as an argument about the shortest counterexample (`LeastOf` of `NumberLemmas`): `TurnsExist`
shows that the recursive function of `Parsed` exists at every length, `TurnRight` that one turn
of the loop keeps what is to be shown, `ParsedRight` joins them.

### The metatag: `MetatagProofs`

For any tags, names, lengths and calls:

- `MetatagTypes` (`TypeOK`);
- `WalkReadsRecords` (`WalkParses`): an undisturbed walk reads records and nothing else, in the order
  of ids, although creations rebuild the metatag under it;
- `WalkReadsAll` (`WalkComplete`): at its end it has read every tag there was when it began, if `NoWrap`.

`NoWrap` says that the listing of all ids has fewer bytes than the 16-bit length of an array type can count.
It is necessary: a longer listing gets a length that has wrapped, and the walk ends early
at it. The run satisfies it (6 records of at most 52 bytes), and a PLC with the names of
`tags.inc` does up to some 1600 tags. The invariant `MInv` says that the metatag, if there is one, lists the tags
`T` there were when it was built, which are all those there are and perhaps some destroyed
ones, and that the walk is at a record of `T` or its end, having read exactly the
ids before (`Walked`). A creation makes a longer listing: its record comes last, since its id is the
largest, so every offset stays what it was (`LongerListing`, `WalkedLonger`). Offsets are cardinalities:
`RecordsMore` and `SameOrder` say that they grow with the ids, `NextPlace` that a record ends
where the next one begins.

### The rank-balanced tree: `RankTreeProofs`

For any set of integer keys, trees of any size and any number of calls:

- `TreeTypes` (`TypeOK`), `PointersAgree` (`LinksMatch`) and `KeysInOrder` (`SearchOrder`), at
  every step, in the middle of a rebalancing too;
- `TreeBalanced` (`RankRule`): between calls the ranks read off the bits fit both sides of every node;
- `LookupsFind` (`LookupsRight`): `RB_FIND`, `RB_NFIND`, `RB_MIN`, `RB_MAX`, `RB_NEXT` and `RB_PREV` find
  what the set of keys says;
- `TreeIsSet`: the initial state and the steps of `KeySet`, that is `RefinesSet` without
  its last conjunct, that calls return.

The properties speak of what is below a node and of ranks through recursive functions, of which
nothing can be proved by induction here. The invariant says instead that there
is a function `d`, from each node to the finite set of nodes that hang from it, and a function
`r`, from each to its rank, that agree with the pointers and bits around every single node:

    IInv == ret \in Pointers /\ \E d, r : Links(tree, d) /\ Ranked(r) /\ Progress(d, r)

- `Links` has the shape: `Grown` (a node's set is the node and its children's sets),
  `Ordered` (keys on the right side of those above), `Paired` (up and down agree, and a node that is
  not in the tree has no links);
- `Balanced` says how long each edge is, the difference of two ranks, with one exception; `Progress` names
  it for the call under way. Inserting, the edge above `elm` is one too short, and `elm` is a new leaf or
  has just grown on one side (`Promoted`), without which the choice between one
  rotation and two would be wrong; removing, the edge on one side of `parent` is one
  too long. `LeafRule` says that no leaf has a red edge, save a parent that `RemoveLeaf` has
  yet to look at.

Induction over the tree is `Lowest`: of any nodes one has no child among them, since
sets shrink downwards; `Highest` is the same upwards. `BelowIs` and `RanksAre` so identify `d` and `r` with
the recursive functions of the properties, and `WalkExists`, `WalkEnds`, `NFindIs` and `ClimbsOn` say
that each loop of the lookups, a recursive function in the model, has a value and which. For each
macro a lemma lists the fields it writes (`RotateFields`, `SwapIs`, ...). `RotateLinks` says
what a rotation does to `d`; `SingleRests` and `DoubleRests`, that rotating evens out the edges; `CutLinks`
and `CutRanks`, what taking out a node with at most one child does. A node with two is,
in the end, the tree cut at the next node with that node in its place, although the
code writes the fields in another order: `ReplaceRenames`, `RenameLinks` and
`RenameRanks`. `InsertKeeps`, `InsertColorKeeps`, `RemoveKeeps`, `RemoveLeafKeeps` and `RemoveColorKeeps` are one per action.

### Who owns the blocks of types: `TypeOwnershipProofs`

For any lengths and numbers of fields (up to 65535, both being `uint16_t`) and addresses, types of any
depth, and any sequence of calls:

- `TypeCorrect` (`TypeOK`);
- `TypesApart` (`Apart`): every type is a tree of allocated blocks, and no two types share one;
- `FreesOnce` (`FreeSafe`): no block is freed, or looked into, that is not allocated;
- `LeaksAreStructs` (`OnlyStructsLeak`): every block that belongs to no type of the client is a struct's;
- `OverrunsAreCopies` (`OnlyCopiesOverrun`): a struct that is larger than its block is a copy;
- `TypesUntouched`: the action property `LeftAlone`, that a call leaves alone every type but the
  one it frees.

`OwnershipInductive` proves the five invariants together. `FreeSafe` and `OnlyStructsLeak` are not
inductive alone: a free must find a tree, and one that no other type
reaches into, which is `Apart`; and the constructors keep `Apart` only if the types they are given
are trees. No induction over types is needed, since
`Blocks` is defined as a least set: to bound it, exhibit a closed set (`BlocksLeast`). `Nested` says that a
type inside a tree is a tree; `Kept`, that a type depends on nothing but its own blocks, whatever
else is made or freed. For a new type, `NewBlocks` and `NewLeads` say which
blocks it has and who points to whom, `LeadsOnce` that no two pointers meet, because the addresses
given to the copies are an injection of pairs of a field and a block, so `NewWhole`: it is
a tree, of new blocks only, even where one type is used for several fields. `BuildKeeps` then
serves the three constructors and `FreeKeeps` the free; `RoomForPairs` is the arithmetic of
`type_new_struct`'s block, through the rounding of `malloc`.

These theorems are about `TypeOwnership`. That the recursion of the code does the same is
`KeepsOwnership`, which TLC checks.

### Only model-checked

- all liveness (`TreeCallsReturn`, `CallsReturn`, and that a call of `KeySet`, in
  `RefinesSet`, returns), which is outside the prover;
- `TagTypes`: `StaysAsAsked`, `SizeIsSum`, and that it implements `TypeOwnership`
  (`KeepsOwnership`). Its operators are recursive, which the prover does not support, and what
  they compute for every type is an induction over types.

## Not modelled, and the plan

Left out for good: `plc_tag_decode_error` and the version check (constant
tables), the debug log (a leaf lock around one message and an atomic word), out of memory (the
program exits), `RB_REINSERT` and the splay trees of `sys/tree.h` (not used), and
the functions `libplctag.h` declares but the stub does not define
(`plc_tag_abort`, `plc_tag_shutdown`, the loggers, the integer attributes). Ids
have no width: it takes 2^31 creations to run out of them.

What is left is the recursion of `TagTypes`, beyond the prover, and two missing
statements of the code that no property is about: the metatag's type is never freed, and a
second callback replaces the first.
