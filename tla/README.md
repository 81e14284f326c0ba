# Verification of the howto programs

The repository is a collection of 75 self-contained how-to programs, 37 in C
(`src/c`) and 38 in Odin (`src/odin`). Each file is one program with its own
`main`; none includes or links another. What they have in common is their
subject, the inside of a small database: page tables, buffer pools, pointer
swizzling, handles, arenas, parsing of `CREATE TABLE`, join ordering, and file
and event I/O. This directory models the programs that have state and control
worth checking, one TLA+ module per program (or per group of programs that are
the same program or share their central part), checks them with TLC, and proves with TLAPS the central
properties of the data structures.

## Inventory

| Component | Program | State | Operations | What is hard | What makes it correct |
|---|---|---|---|---|---|
| Robin Hood page table | `c/rbh.c`, twin `odin/hashtable2.odin` | slots with page, frame, distance; capacity; count | lookup, insert (update, grow), delete (backward shift) | unbounded loops that rest on the layout; migration; wrap-around; failed growth | is a map; layout between any two iterations; loops end |
| Linear probing table | `odin/hashtable1.odin` | buckets with state, page, frame; count | insert, search, delete_page | tombstones, full tables | is a map; refuses only when full |
| Handle pool | `c/handles2.c` | slots with generation, free list, capacity | create, get, destroy, grow, cleanup | reuse of slots; width of a generation; half-failed growth | free list exact; living handles found, stale ones not |
| Swizzling buffer pool | `c/pointersw4.c` | four frames, CLOCK hand, disk | fix_child, bp_alloc_frame, bp_evict, unswizzle | a raw pointer outliving the page under it | a swizzled slot leads to the page it stands for |
| Arena | `c/allocator1.c` | buffer, two offsets | alloc, resize, temp scopes, free_all | the last block resized in place; scopes | blocks disjoint, aligned, contents kept |
| CREATE TABLE parsers | `c/lexrdpast.c`, `c/flatast2.c`, `odin/lexparserast1.odin` | current token, tree, flat table, heap | parse_create_table, parse_column_def, lower_to_flat, frees | error paths that own heap blocks | exactly the statements; the table declared; every block freed once |
| DPhyp | `c/DPhyp.c`, `odin/dphyp.odin` | hypergraph, table of plans | Solve, EmitCsg, EnumerateCsgRec, EnumerateCmpRec, EmitCsgCmp | a recursion that reads the table it fills | every joinable pair once; best plan of each set |
| Selinger | `odin/sellinger.odin` | query, table of plans by set | enumerate_single_relations, enumerate_joins, find_best_plan | pruning by order | cheapest left-deep plan, in the order asked for |
| Ring I/O | `odin/uring.odin` | submission and completion rings, buffers | queue, submit, copy, print | completions in any order | no request lost; a result belongs to its request |
| epoll and AIO | `c/epoll.c` | descriptors, control block, signals | open, aio_read, epoll_wait | an asynchronous notification | a finished read is reported |
| Swizzling sketches | `c/pointersw1.c`, `c/pointersw3.c`; `c/pointersw2.c` | a word that is an id or an address; a saved and a restored list | resolve, evict; unswizzle, swizzle, free_list | one bit says what a word is; successors are matched by value | a reference leads to its page; the restored list is the one saved |
| Lexers | `c/lex.c`, and inside the parsers | text, position | next_token | end of input, prefixes of keywords | tokens tile the input; a keyword is a whole word |
| Flat AST | `c/flatast.c` | tree, node array, capacity | flat_push, lower, eval_flat | indices taken before the array moves | the array is the tree |
| Chained hash table | `c/HashTable.c` | buckets of lists of allocated nodes | insert, search, delete_key, free_table | lists under deletion, addresses used again | is a map; no node lost, freed early or reached twice |
| Hashing and bit packing | `c/hash4.c`, `c/hash5.c`, `c/bitpack1.c`, `c/bitpack2.c`, `c/handles1.c`, `c/poweroftwo.c` and Odin twins | none | mix, combine, pack | field widths, casts, cancellation | keys that differ in a column differ in their hash |
| Direct addressing | `odin/dirarrindex1.odin`, `odin/dirarrindex2.odin` | an array | index | bounds | the slot is the page's |
| Digests | `c/hash1..3.c`, `odin/hash1..4.odin` | none | hash | none | library digests |
| Files, maps, terminal | `c/file1..4.c`, `c/tempfile.c`, `odin/readfile.odin`, `odin/mmap1..3.odin`, `odin/commandline.odin`, `odin/term.odin` | descriptors | read, write, map | failed calls | resources released |
| Demonstrations | structs, slices, bit sets, SoA, library allocators, crypto | none worth a model | | | |

Components interact only inside a program: a parser pulls tokens from its lexer
and blocks from the heap; the page tables are called by `main`; the swizzling
pool reads and writes its simulated disk and patches pointers in the parent's
page; the two I/O programs talk to the kernel. All programs but these two are
sequential. The difficulty of the others lies in loops that rely on an
invariant of an array, in stale references (handles, swizzled pointers,
blocks), in calls that fail half-way, and in tables filled by recursion.

## Modules

| Module | Models | Extends |
|---|---|---|
| `PageMap` | what a page table promises: a finite map whose calls take effect at one instant | |
| `Probing` | positions, homes and distances in an open-addressing array | |
| `RobinHood` | `c/rbh.c` (and `hashtable2.odin`) | `Probing` |
| `LinearProbe` | `odin/hashtable1.odin` | `Probing` |
| `HandlePool` | `c/handles2.c` | |
| `SwizzlePool` | `c/pointersw4.c` | |
| `Chaining` | `c/HashTable.c` | `Probing` |
| `FlatTree` | `c/flatast.c` | |
| `TaggedRef` | `c/pointersw1.c`, `c/pointersw3.c` | |
| `SavedList` | `c/pointersw2.c` | |
| `Lexer` | `c/lex.c`, and the lexer of the three parsers | |
| `Mixing` | `c/hash4.c`, `c/hash5.c`, packing of ids, handles and slots | |
| `Arena` | `c/allocator1.c` and its callers | |
| `CreateTable` | the three parsers of `CREATE TABLE`, and lowering | |
| `DPhyp` | `c/DPhyp.c`, `odin/dphyp.odin` | |
| `Selinger` | `odin/sellinger.odin` | |
| `Uring`, `Epoll` | `odin/uring.odin`, `c/epoll.c` and the kernel's part | |
| `Programs` | the pool, the chained table, the flat tree, the two sketches, the lexers and the ring reader side by side, one of which runs; their properties | `SwizzlePool`, instances of `Chaining`, `FlatTree`, `TaggedRef`, `SavedList`, `Lexer`, `Uring` and `PageMap` |
| `MCPrograms` | small values for `Programs`, with `Mixing` beside it | `Programs`, `Mixing` |
| `MCRobinHood` | values for `RobinHood`, with the ring reader beside it, one of which runs: the two programs whose end is in question | `RobinHood`, an instance of `Uring` |
| other `MC...` | values for TLC | the module named |
| `RobinHoodProofs`, `LinearProbeProofs`, `ArenaProofs` | theorems | the module named |
| `HandlePoolProofs` | theorems about the handle pool and the mixers | `HandlePool`, `Mixing` |
| `ParsingProofs` | theorems about the parsers | `CreateTable` |
| `SelingerProofs` | theorems about the Selinger optimiser | `Selinger` |
| `DPhypProofs` | theorems about DPhyp | `DPhyp` |
| `ProgramsProofs` | theorems about the swizzling pool, the tagged references and the saved list, about the chained table, the lexers, the flat tree and the ring reader, and about running side by side | `Programs` |

**Page tables.** `RobinHood` has one action per iteration of a loop of the
source, with `pc` naming the loop: the probe of lookup, insert and delete
(`ProbeNext`, `Miss`, `LookupHit`, `InsertHit`, `DeleteHit`), the second scan of
an update (`UpdateNext`, `Update`), the load check and growth (`InsertMiss`,
`GrowFail`, `MigrateNext`, `MigrateStep`, `MigrateSettle`, `GrowDone`), the raw
insertion (`PlaceStep`, `PlaceSettle`) and the backward shift (`ShiftNext`,
`ShiftDone`). The program is sequential; the small steps are there because the
loops are written `while (true)` and are correct only if the array is right at
every iteration. Locals are reset on return so that states do not differ in
dead values. The hash mixer is the constant `Hash`, any function: the theorems
hold for SplitMix64 as for the worst possible hash. `allocate_slots` may fail at
any growth, and always does past `MaxCap`. `next_pow2` never returns less than
16; the instance uses 4 and 8 slots, and the theorems hold from 2 up. Callers
never pass `INVALID_PAGE_ID`, which the source reserves. `LinearProbe` does the
same for the table with tombstones; `pc = "enter"` is a call before its probe,
where insert checks for a full table. `PageMap` is the common abstraction: in
`RobinHood` the contents are the pairs stored plus the entry carried by a raw
insertion, minus the slot a backward shift has already copied forward; in
`LinearProbe`, the OCCUPIED buckets. `Chaining` is the third implementation:
the loops of insert, search and delete_key walk a chain of nodes, each with an
address that `malloc` may give again once it was freed. Its insert has no
capacity and so never refuses. What is reached from the buckets is what is in
every set of nodes closed under `next` that holds the heads (`From`).

**Handle pool.** One action per call, since the pool has one user and no call
waits. `uses` is a history variable: how often each slot's entity was
destroyed. A handle carries, as a history field, the use it was made for, so
that "stale" can be said without trusting the generation, which has `GenMod`
values. The two `realloc` calls of `grow_pool` each fail, extend in place or
move; a failed growth leaves in `gone` the arrays whose block was moved and
freed without the pool being told. The calls go on from there. A create on a
freed list pops any index and writes that slot, over a living entity if there
is one (`TornCreate`); a lookup in freed slots may succeed or not (`TornGet`),
and a destroy that succeeds there pushes its index on the intact list
(`TornDestroy`). A call that hands a freed block to `realloc`, writes outside the
slots or pushes beyond the list leaves nothing known of the pool (`Ruin`).
`FreeList`, `Answers` and `Undisturbed` are claimed of a pool that is whole and
promise nothing after the tear; that it happens is `StaleIsNull`.

**Swizzling pool.** One action per `fix_child`, split by its paths: fast path
(`Hit`), free frame (`MissFree`), eviction (`MissEvict`, with the sweep of the
CLOCK hand, unswizzling, the flush of a dirty page and the load). `Link` is the
driver's own write to the root. The driver fixes children in any order.

**Tagged references and saved lists.** `TaggedRef` keeps the tag as a bit of a
number, so that an address and an id that share their low bits are told apart
by it alone. `pointersw1.c` is the same without references in the pages and
without eviction. `RefLeads` says where references lead; it does not say that
no memory is lost: a page evicted while its own child is in memory leaves that
child to nobody, which `main` of `pointersw3.c` never does. `SavedList` has the
three calls of `pointersw2.c` on any list; `free_list` is one action a node.

**Flat AST.** `lower` is a stack with a frame per call, which keeps the index of
the left child while the right one is pushed; the array doubles in between.
At any moment the array is a copy of the part of the tree that was pushed: a
bijection from that part to the indices, under which every node is the tree's
with its children's indices in place of the children (`Copied`). The tree is
freed before `eval_flat`, and the value is compared with that of the tree.

**Words.** `Mixing` is arithmetic modulo `2^WordBits` and the source's shifts,
exclusive ors and multiplications; a step picks a function and two argument
lists that differ in one place. `poweroftwo.c` gives `hash_key`, on words of 32
bits. Width, shifts, multipliers and the columns of a row are constants: any
shifts but 0 and any odd multipliers (`MixingAssumption`), as the source's are.
Powers of two and operations on bits are recursive functions over halves
(`Pow2`, `BitByBit`) and not operators of the library, so that theorems can be
about them.

**Arena.** One action per call that does not return NULL, on a buffer with an
address, so that alignment is of addresses; `size_t` counts modulo `Word`. The
callers' blocks are part of the state: `mem` holds for each byte the name of
the block that wrote it. After `temp_arena_memory_end` a caller uses only blocks
it had before the scope began, at most as large as they were then.

**Parsers.** `CreateTable` reads any sequence of tokens. `version` says which of
the three programs it is; they differ in what they free when they give up and
in whether they test allocations. `heap` is the set of blocks allocated and not
freed, and `Owned` compares it with the blocks reached from where they will be
freed. `Translated` compares the columns with a declarative reading of the
tokens (`Declares`): a column starts after the fourth token or after a comma,
and its type, length and key are the tokens at fixed distances from there. Tokens are chosen; where they come from is `Lexer`, one action per turn
of a loop of next_token, in the version of `lex.c` and in that of the parsers.

**Join ordering.** The procedures of `DPhyp` do nothing but loop and call, so
its stack is that of the loops begun (`Loop`), each with the sets of nodes it
has left to take, and a step is an iteration of the innermost loop: the
recursion reads the table exactly as far as it has been filled. Sets are taken
in the order of their bit masks, upwards by the recursions (`Lowest`) and
downwards by `Solve` and `EmitCsg` (`Highest`). The hypergraphs, base
cardinalities and selectivities are constants. The code's doubles are integers
here; a selectivity is a divisor, and in the instance all divisions are exact.
In `Selinger` a step is one turn of the innermost loop over
tables, a pair of a set and the table of it that is joined last. `pending` holds
the turns the loops have not come to, and `ItsTurn` says which is next: by size,
then by mask, then by table. The two loops inside a turn, over the left and the
right plans, are recursive functions (`OfferJoins`, `OfferRights`, `Offer`). Row
counts and selectivities are powers of two, kept as exponents, so that the
logarithm of the sort cost and the code's weights are exact; fractions of a row
are exact down to `2^-Frac` and count as none below (`Amount`). The field
`sorted` of a plan is a history field: the columns the rows really are in the
order of, where the code keeps a column number alone.

**I/O.** In `Uring` the kernel takes all of the queue or the first entries of
it, and performs reads in any order, each read or failed. The wait ends when
enough of them have ended (`Copy`) or earlier, by a signal (`Interrupted`). `Whole`
is both assertions on the counts, of what was submitted and of what was copied;
without the second, an early return would have `main` print buffers that the
kernel still writes to, which is the mutant of `Quiet`. In `Epoll` the C library performs the read and notifies as the
control block says; descriptors are the least ones free.

## Runs

| Run | Question | Bounds, and why they are enough |
|---|---|---|
| `robinhood` | is the table a map, is its layout right between any two iterations, do all loops end; ring reader: does its `main` end | five pages that share homes 3, 7, 0 and wrap; two frames; growth from 4 to 8 slots and a refused one; one to four files on a ring of three |
| `linearprobe` | is the table a map, is its layout right between iterations, when does insert refuse | four pages, three buckets, two frames: full, tombstone-only and wrapped chains occur |
| `handlepool` | free list, answers to living and stale handles, growth and its failures | one slot growing to four, two generation values, three uses of each slot, so that the generation wraps; every call on a torn pool |
| `handlepool_torn` | can a lookup read a freed block | violated after a half-failed growth |
| `programs` | buffer pool: does a swizzled slot lead to its child until the first eviction, what is ever written back; chained table: is it a map, are its nodes owned; flattening: is the array the tree; references: do they lead to their page; lists: are they restored; lexers: do the tokens tile the text; keys: do different columns give different hashes; ring reader: is any request lost, any buffer printed too early, any failure missed | the four frames and five pages of `main`, children fixed in any order, five evictions; a chain of three pages and one of one, four addresses used again; trees of five nodes, capacity from 2 to 8; words of four bits with two bits of id under the tag; lists of up to four with room for three, data repeated or not; texts of four characters with a keyword of two in both cases; four columns of which one takes all values; one to four files on a ring of three, completed in any order, any of them failed: the ring overflows too |
| `arena` | are blocks disjoint, aligned, intact | five bytes at an odd address, sizes 0, 1 and 3, alignments 1 and 2, two blocks, one scope: padding, resizing of the last and of an earlier block, in and out of scopes |
| `createtable` | is the language right, the table the one declared, and every block freed | inputs of 14 tokens: two columns, one with a length and a key, or any error in them; any allocation of `flatast2.c` fails |
| `dphyp` | is every joinable pair joined once, after its sides are final, and the plan the cheapest | all 15276 hypergraphs of four relations and up to four edges |
| `selinger` | does pruning by order lose anything, is the plan returned the cheapest way to the order, is it delivered | 5832 queries: three tables, two kinds of table with clustered and unclustered indexes, up to one predicate between two tables, written either way |
| `swizzle_root` | does the root stay in its frame, as its comment says | violated at the first eviction |
| `uring_order` | is what is printed what was read | violated by two files |
| `epoll` | is a finished read reported | violated |

`programs` runs one program in each behaviour: the programs share no state, so
each is explored as if it were alone; so does `robinhood` with the table and the
ring reader. The largest runs are `handlepool` and `createtable` (about a
million states each); `selinger` and `dphyp` have few states and spend their time on
the reference enumerations (`AllPlans`), which list every plan of every set
without the code's loops.

Deadlock is checked except where the system really stops: handle pool after
`cleanup_pool`, the optimisers, the runs that end in a violation and the programs
of `programs` at their end. In `robinhood` a ring reader that is over stays as it is.

**Fairness.** `robinhood`: weak fairness of `Step`, the steps of a call that has
begun; the program is sequential and a call waits for nothing, so a loop that
can take another iteration does. Nothing is assumed of the caller. In the ring
reader of the same run, main takes the steps it can and the kernel finishes
every read; that the wait is interrupted, or a file refused, is not assumed. `epoll`: the read
completes, a signal is delivered, `epoll_wait` returns when it can. Nothing is
assumed elsewhere.

## Proofs

TLAPS proves, for every set of pages and frames, every hash function and every
capacity:

* `RobinHoodProofs`: `TypeOK`, `Layout`, `Counted`, `InFlight`. Their
  conjunction is inductive. `Layout` alone is not: an entry may be put down
  only because `InFlight` says the slots between its home and `idx` are taken
  by entries at least as far from their homes (`Path`), and the migration keeps
  the layout only because the new array is itself laid out and misses the page
  that is carried. `Counted` gives the empty slot at which every loop stops. And
  the table implements `PageMap`.
* `LinearProbeProofs`: `TypeOK`, `Layout`, `Counted`, `Scanned` (what a probe
  knows of the buckets behind it, the strengthening), `RefusedOnlyFull`, and that the table implements
  `PageMap`.
* `HandlePoolProofs`: `TypeOK`, `FreeList`, `Answers` and `Undisturbed`, for
  every growth and width of generation, with `Stored` (while the pool is whole, a
  slot in use holds the entity of its current use) as the strengthening. `TypeOK`
  holds of a torn pool too; the others end with the tear, which no call undoes. `Undisturbed` rests on
  `FreeList`: a creation writes to the slot on top of the list, which is idle.
* `HandlePoolProofs` again: `KeysSeparate` of the mixers, for every width of a
  word, shift, odd multiplier, seed and number of columns, where the run has words of
  four bits. Each step of a mixer can be undone: an addition modulo `2^WordBits`
  (`AddUndone`), an exclusive or on either side (`XorFirst`, `XorSecond`), a
  multiplication by an odd word, which has no factor in common with the modulus
  (`MulUndone`, from `OddOut`), and the exclusive or of a word with itself shifted
  right: of two words with the same result the halves have the same result too,
  and once the halves are equal what is shifted in is, so the last bits are as
  well (`FoldUndone`, by a least counterexample). So a column that differs
  makes the accumulators differ from there to the end (`ColumnsDiffer`), and the
  last argument of `hash_combine` is never lost (`CombineUndone`); its first is
  both in the exclusive or and in the shifted sum, and nothing is claimed of it.
  Parts that have room in a word do not overlap, so that or-ing them adds them
  (`OrAdds`) and a division takes them apart (`Unpacked`). That `Pow2`, `BitByBit`
  and the accumulator have the values their recursions name is proved
  (`RecursionSolved`), as the prover assumes no solution of a recursion.
* `ProgramsProofs`, for every number of frames and children: `TypeOK`,
  `OnlyRootWritten`, `Cached` and `RootGoesFirst`, which is why `RootStays` fails. Only the root's frame is
  ever marked dirty or a parent (`OnlyRoot`), which gives `OnlyRootWritten`. The
  other two are about the time before the first eviction, and their
  strengthening is `Fresh`: every
  slot holds the id of its child or the frame that holds it (`Paired`), every
  frame in use is some slot's (`Loaded`), and the root's ref_bit is clear, so
  that the first sweep of the hand stops at frame 0.
* `ProgramsProofs` again, for any number of files and length of the ring: the
  reader's `TypeOK`, `Accounted`, `Quiet` and `NoticesFailure`. The strengthening says for each
  part of `main` where every request is (`RingFilling`, `RingBegun`, `RingReading`,
  `RingPrinting`);
  `Covers` says that the completions are of all requests but the busy ones,
  once each, so that the assertion on the number copied leaves none busy.
* `ArenaProofs`: `TypeOK`, `Disjoint`, `Aligned` and `Intact`, for every buffer,
  under `NoWrap`: no size asked for makes the address computation wrap. The
  strengthening is `Topmost` (the block at `prev_offset` is above all others,
  which is what allows it to grow in place) and `Scopes` (what a scope will
  restore suits the blocks it keeps).
* `ProgramsProofs` again, for every size, hash function and set of addresses:
  `ChainOwned` and `ChainMaps` (the table implements `PageMap`). The strengthening:
  every node is reached from the bucket its key hashes to (`Chained`), no two
  nodes hold the same key (`Separate`), and of the chain a call walks nothing
  before `current` holds the call's key (`Walked`).
* `ProgramsProofs` again: `RefLeads`, for every width of word; here the
  property is inductive once addresses and ids are typed. `ListReloaded`, for
  lists of any length and data: the successor found by data is in the room and
  holds that data, and is the next node if no data occur twice.
* `ParsingProofs`, for inputs of every length: `Owned` and `Translated`. The
  strengthening places the parser in the text (`Counted`, `Placed`, `Current`:
  what the last tokens read were, for every value of `pc`), says of the columns
  that they are as written and complete from the first (`Wrote`, `Started`,
  `Ended`), and names for every `pc` the blocks that are held. The proof found
  that two arms of the CASE in `Reached` overlapped, which left the choice
  between them open; they are disjoint now.
* `ParsingProofs` again: `Recognised`, for inputs of every length. The language
  is first restated by places in the tokens: `ColumnsSeq` (a column token by
  token, `Fits` and `Complete`) and `BodyIs` (the parts between commas). The
  strengthening (`Progress`) says that what was read is the head, then whole
  columns, then a part that starts at some place `a` and fits so far (`Body`),
  with as many tokens as `pc` means (`At`); where an optional part was passed,
  the current token does not fit there. `Grow`, `Comma` and `Close` keep this
  from token to token, `Chain` leads from every such text to an ending of a
  statement, and `Viable` is the converse: any statement that goes on from it has
  as its next token one the parser takes, so where it gives up there is none.
* `ProgramsProofs` again: `TextTiled` of the lexers, for texts of every length
  and any keywords. The strengthening (`LexInv`) covers the text before
  `cursor` by the tokens, the white space and the token being read (`Covering`,
  `Scanned`), with the tokens in order.
* `ProgramsProofs` again: `FlatLowered`, for every tree and first capacity, the
  evaluation included. The strengthening (`FlatInv`) says that the calls of
  `lower` are a path down from the root (`IsPath`), that no node of a call is
  in the copy and every node in the copy is the root's, a child of a node in
  the copy or handed up to a call (`Known`); with one parent a node, the child
  of the next call is then never in the copy, which makes the new index fresh.
  When the last call returns, the copy holds the root and with a node its
  children, so it is the whole tree (`Whole`).
* `EachItsOwn`, in the same module: in `SideBySide`, which the run `programs`
  checks, every program is a behaviour of its own specification. The properties
  of `Programs` are those of the instances, so the theorems, which assume only
  the program's own specification, hold of the run's too.

* `SelingerProofs`, for any number of tables, catalogue, list of predicates and
  `Frac`: `NothingLost`, `BestReturned` and `Delivered`. `SelInv`, which TLC
  checked first, says of the table of plans what the search has done so far
  (`Searched`): every plan kept is one of `AllPlans`; the turns left of any
  size come after those of smaller sizes; and what each turn taken offered is
  covered by a plan kept, with its order and no dearer. The last is an invariant
  because the plans a turn read are final: those of smaller sets (`TurnTaken`),
  and an offer never loses what was covered (`PruneImproves`, lifted through
  the three loops by `LoopImproves`). `NothingLost` then goes up by the size of
  the set (`AllCovered`): the operators are monotone in the cost of their left
  side when the rows are the same (`OperatorsMonotone`), and the plans of one
  table are all kept or replaced by one with its order. `BestReturned` adds that there is a
  plan for the whole exactly when no split of the tables is without a predicate
  (`PlansConnect`; `PlanIfConnected` grows a set one table at a time). `Delivered`
  rests on a count: a plan of n tables has n - 1 predicates inside its set that
  it applied (`InsideMore`, `InsideEnough`), so with no more than those in the
  query every predicate between two of its tables is one it applied, and the
  columns its rows are in the order of are closed under all of them
  (`PlansOrdered`). That `AllPlans`, a recursive function over sets, and the
  loops have the solutions they name is itself proved (`Solution`, `LoopUnique`).
* `DPhypProofs`, for every number of relations, set of hypergraphs, base
  cardinality and selectivity: `AllPairsOnce`, `FoundIfConnected`,
  `OptimalIfUniform` and `UsedPlansFinal`. The invariant (`DPInv`) is in two
  parts. `Stack` says of each loop on the stack which pairs it leads to
  (`Leads`): those whose sets meet what the loop excludes in exactly what it has
  taken. What is led to comes in the order of the stack (`Later`) and after what
  has been joined (`Past`), and every pair has been joined or is led to.
  "After" is one order for all of it (`After`): by the least node of the first
  set, downwards, and from one node no set after one that contains it. It holds within a loop
  because bit masks come after those of their parts (`LoopOrdered`), and a call
  leads to what the iteration that makes it led to (`CsgCall`, `CmpCall`,
  `EmitCall`, `Iterated`); that the neighborhoods of the code lose no connected
  set is `Linked` and `Reaches`. `Table` says that the sets with a plan are those joins have
  made, that the plan is one of `AllPlans`, and that it is no dearer than any
  join made, from the sides as they are now. The two parts need each other: a
  loop skips a set without a plan, and that set is not connected because all the
  pairs that make it come earlier (`Before1`); a plan used is final for the same
  reason (`UsedKept`). At the end all pairs are joined, which gives the first two
  properties, and the third from the smallest set that would have a cheaper plan
  (`BestPlans`): a join is monotone in the costs of its sides when their
  cardinalities are the same (`JoinMonotone`). That `Connected`, `AllPlans` and
  the fold over the edges have the solutions they name is proved (`Recursion`,
  `FoldSolves`).

Induction over lengths, trees and sets (`Least`, `Whole`, `TreeMeans`,
`CopyMeans`, `AllCovered`, `LeastSet`, `Upwards`) is done by taking a minimal counterexample: `WFMin` of
the library, applied to the set of the numbers that fail.

Assumptions are those named in the modules; besides, each theorem about the
arena has `NoWrap` as its hypothesis.

Only model-checked is liveness (`Terminates`, `Ends`), which is out of the
prover's reach.

## Where the code and its comments disagree

Shown by runs:

* `handles2.c:71`: when only one of the two reallocs of `grow_pool` fails, the
  block the other one moved is lost and the pool points to freed memory
  (`handlepool_torn`).
* `pointersw4.c:102`: the root, loaded "permanently" (line 199), is the first page
  evicted (`swizzle_root`).
* `uring.odin:45`: completions are read as if they came in the order of the
  requests (`uring_order`).
* `epoll.c:51`: `SIGEV_SIGNAL` with the eventfd's number sends a signal and never
  writes to the eventfd (`epoll`).

Met while modelling; the property that says what the comment says is in the
module and fails under the constants given:

| Source | What happens | Property | Constants |
|---|---|---|---|
| `hashtable1.odin:82` | the full check precedes the probe, so a full table refuses to update a page it holds | `LinearProbe!UpdatesPresent` | those of `LinearProbe.cfg` |
| `handles2.c:127` | the generation wraps and a handle that old resolves to another entity | `HandlePool!StaleIsNull` | `Asked = 3, GenMod = 3, MaxCap = 3, MaxUses = 3`, both reallocs move |
| `pointersw4.c:190` | once the root is gone, pages are flushed with frame pointers in them | `SwizzlePool!DiskIds` | those of `Programs.cfg` |
| `allocator1.c`, `arena_resize_align` | a size near 2^64 wraps the test and is accepted | `Arena!NothingTooLarge` | `BufLen = 8, Base = 1, Word = 32, Sizes = {1, 31}, Aligns = {1, 4}` |
| `flatast2.c`, `main` | the tree is kept when lowering fails | `CreateTable!TreeDiscarded` | those of `CreateTable.cfg` |
| `lexrdpast.c:186` and twins | of the keywords only TABLE and KEY are allowed as names | `CreateTable!KeywordsAreNames` | those of `CreateTable.cfg` |
| `DPhyp.c:173` | a hyperedge between parts of both sides of a join is not applied, so the plan may not be the cheapest | `DPhyp!Optimal` (`OptimalIfUniform` holds) | those of `DPhyp.cfg` |

`sellinger.odin` applies only the first predicate between two sides (line 125),
takes an index for usable by `c2` even when the predicate is written the other
way round (line 234), and identifies an order by a column number of any table
(line 268). `NothingLost`, `BestReturned` and `Delivered` therefore carry the
condition under which they hold; without it each of them fails. The cost of a
sort is negative below one row. The comment at line 103 speaks of interesting
orders: the code keeps one plan for every order, and `is_order_interesting` is
never called.

`pointersw2.c` finds the successor of a node by its data (line 54): with two
nodes that hold the same, the list read back skips or loops, and `free_list`
frees a node twice. `hash5.c` casts an `INT32` column to one byte (line 135),
so that rows which differ above it collide. `ListReloaded` and `KeysSeparate`
state what holds apart from these.

## Not modelled

* Library digests (`hash1..3.c` and twins), and straight-line programs that print
  what a library call returns: no state of their own.
* Direct addressing: a table filled, written and read in a straight line.
* Declarations and the two empty headings `btree.c` and `bptree.c`.
* Of the page tables, the call that frees them at the end; of `epoll.c`, the
  seeding write and the closing of descriptors; of the hash programs, the
  buckets chosen from a hash. TLC sees words of four bits in `Mixing`, for 64 are
  out of its reach; the proof is for any width. The tables are proved for any hash.

## Plan

Done, in this order: page tables with proofs; handle pool with proofs; swizzling
pool with proofs; arena with proofs; parsers; ring I/O with proofs and epoll;
DPhyp; Selinger; lexers, chained table, flat AST, swizzling sketches, words.

Then proofs: both page tables and the chained one, pool, sketches and list,
handles, arena, ring, lexers, parsers, flat tree, Selinger, DPhyp, mixers.

What remains is to feed `CreateTable` with the tokens of `Lexer` in one run.
