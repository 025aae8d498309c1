# A verification of the containers of `anything`

The repository is a collection of C programs and header-only containers, each
file on its own, with notes around them.  This directory models the parts with
logic of their own in TLA+, checks the models with TLC on small instances, and
proves theorems about them with TLAPS for every value of the constants.

1. [Inventory](#1-inventory)
2. [Modules](#2-modules)
3. [Runs, bounds and fairness](#3-runs-bounds-and-fairness)
4. [What is proved](#4-what-is-proved)
5. [What the checks found](#5-what-the-checks-found)
6. [What is not modelled](#6-what-is-not-modelled)
7. [Plan](#7-plan)

## 1. Inventory

### Concurrent parts (modelled)

**MPMC ring**, `structure/mpmc.c`.
*State*: `prod.head`, `prod.tail`, `cons.head`, `cons.tail`, four free-running
`uint32_t`, and `buf`, a power of two of pointers.
*Operations*: `mpmc_ring_create`, `_enqueue`, `_dequeue`, `_destroy`.
*Interaction*: any number of threads share the ring; an operation claims an index
with a CAS on a head, uses the slot, waits until the tail reaches its index and
publishes with a store to the tail.
*Hard*: the head is loaded before the other side's tail and may be old when they
are compared; CAS after test; publication in order of claims; wrap at 2^32;
relaxed loads that a CPU may reorder.
*Correct if*: the counters keep their order, no slot is used by two threads,
`false` means full or empty, claims are served, and the ring is a FIFO queue.

**Memory pool**, `coding/pool.c`.
*State*: the global free list, linked through the first word of free objects,
under a spin lock; `waiters` and a condition variable under a mutex; in every
thread a stack of cached objects.
*Operations*: `mp_pool_create`, `mp_thread_init`, `mp_alloc` (with
`cache_refill`), `mp_free` (with `cache_flush`), the TLS destructor
`thread_cleanup_handler`, `mp_pool_destroy`.
*Interaction*: threads exchange objects through the free list and wait for each
other on the condition variable.
*Hard*: two locks that are never held together, the gap between them, wakeups
with and without a signal, threads that end with objects in their cache, and a
list whose links the program overwrites as soon as it owns an object.
*Correct if*: every object is in exactly one place, caches stay in their array,
`waiters` is exact, and every thread ends.

**SPSC ring and object pool**, `structure/ringbuf.h`, `structure/objpool.h`.
*State*: `in`, `out` (free-running `uint32_t`, each written by one side) and the
slots.  An object pool is the same ring, full at the start.
*Operations*: `ringbuf_init/push/pop/peek`, `objpool_init/acquire/release`, counts
and tests.
*Hard*: nothing but barriers between the two threads, and none between the load
of a slot and the `out++` that gives the slot back.
*Correct if*: the two sides are never at one slot and the ring is a FIFO queue.

**SPSC pipeline**, `structure/ringbuf_example.c`.
*State*: a ring, a pool, `running`, and the counters of two threads.
*Interaction*: the producer reads the pool and writes the ring, the consumer the
other way round; `running` stops the consumer.
*Hard*: the last packet against `running`; packets reused while the other thread
may still look at them.
*Correct if*: packets are conserved and arrive in order, the shutdown loses
nothing, `objpool_release` never meets a full pool, and both threads end.

### Sequential parts (modelled)

Each is used by one thread, packets by several owners of one thread each.  What is
hard to test in them is long sequences of calls, links that go stale, and
boundaries; `packet.c` adds reference counts that owners change at the same time.

| part | state and operations | hard | correct if |
|---|---|---|---|
| `coding/ringbuffer.c` | two indices with mirror bits; init, push, pop | full and empty differ in the mirrors alone | a FIFO queue for any size |
| `coding/packet.c` | chains of views of reference-counted buffers; alloc, append, clone, copy-on-write, pull, trim, copy_bits, header_pointer, free | a count read in one step and lowered in a later one; a clone that fails half way; empty views | a packet behaves as a value, counts equal views, reads return the bytes asked for |
| `structure/rbtree.h` | nodes with parent pointers and colours; insert, erase, replace, find, iteration, the loop that may erase | the links of the erased node and its successor; mirrored cases | a search tree with the colour rules that holds what was put in |
| `structure/skiplist.h` | nodes with lanes; insert, erase, find, find_le, first, last, the safe loop | every lane on the way must be changed alike | every lane a sorted sublist of the one below |
| `structure/dlist.h` | circular lists; add, delete, move, splice, the safe loops | stale links after a removal or splice | `next` and `prev` inverse, lists as sequences |
| `structure/patricia.c` | a prefix tree per address family, rule lists per protocol; insert, delete, range, lookup by any and by the longest prefix | six paths of insertion, collapses of deletion, 128-bit arithmetic on two words | a lookup finds a rule exactly if a prefix of the address was granted one |
| `structure/check_ip.c` | none of its own; header walk, protocol, port, verdict from the ACL table | lengths taken from the packet | bounds respected, only granted traffic passes |
| `coding/tiered_table.c` | a constant table; linear and binary search | equal limits, both ends | both searches give the rule the table means |
| `coding/table.c` | a constant table; dispatch | - | not modelled, see section 6 |
| `coding/packed_def.h`, `aligned_def.h`, `Macro/`, `structure/test_mem.c` | macros, constants, a test | - | not modelled |

`check_ip.c` calls the lookup of `patricia.c`; the others stand alone.

## 2. Modules

    RingIndex            counters modulo 2^32, slots, windows of a ring
      |-- MpmcRing       mpmc.c, one action per shared access
      |     implements BoundedQueue
      |-- SpscRing       ringbuf.h and objpool.h
      |     implements BoundedQueue
      |-- SpscPipeline   ringbuf_example.c = two INSTANCEs of SpscRing
    BoundedQueue         what a FIFO queue promises, whoever implements it
    Places               what a sequence holds, in which order it holds it once
      |-- MemPool        pool.c
    MCMpmcRing, MCMemPool    small instances of each
    MCBenchmarks         ringbuf_example.c and the main of pool.c; a behaviour runs one
    Entries              the caller's entries and their keys
      |-- RbTree         rbtree.h
      |-- SkipList       skiplist.h
    DList                dlist.h, implements Lists (a set of sequences)
    IrbRing              ringbuffer.c
    StepTable            tiered_table.c
    Mbuf                 packet.c, implements ByteStrings (packets as values)
    Prefixes             addresses, prefixes, the blocks of a range
      |-- Patricia       patricia.c
            |-- CheckIp  check_ip.c, on the trees of Patricia
    MCSequential         one instance of all of these and of SpscRing; a behaviour
                         exercises one
    RingIndex_proofs     lemmas on counters, slots and windows
      |-- MpmcRing_proofs    inductive invariant, MpmcRing implements BoundedQueue
      |-- SpscRing_proofs    inductive invariant, SpscRing implements BoundedQueue
      |       |-- SpscPipeline_proofs   packets conserved, in order, none lost
    Places_proofs        sets of numbers, cutting and joining sequences
      |-- SpscPipeline_proofs
      |-- Coding_proofs      MemPool: objects conserved, waiters exact, the pool roomy;
      |                      Mbuf: reference counts exact, packets are strings, reads exact
      |-- RbTree_proofs      the tree keeps its shape and colours, walks are in order
      |-- Sequential_proofs  the other sequential parts
    Sequential_proofs    IrbRing is exact for every size, the searches of
                         StepTable agree on every table, the lanes and
                         searches of SkipList are exact, the links of DList
                         are exact and DList implements Lists, the blocks of
                         a range in Patricia are exact

**RingIndex.**  `Inc`, `Sub` and `Slot` are `a + 1`, `a - b` and `i & mask` on
`uint32_t`, with `Modulus` for 2^32 and `Cap` for the capacity.  The code asks for
a power of two; all the rings need is that `Cap` divides `Modulus`, and this is
what `IndexAssumption` states.

**MpmcRing.**  A thread is an element of `Producers` or `Consumers` with its own
`pc`, local `head` and `tail`, and `item` for `ptr` and `*ptr_out`.  Every load,
CAS and store on the ring is an action (`EnqLoadHead`, `EnqAdmit`/`EnqRefuse` for
the load of the tail with the test on it, `EnqCas`/`EnqCasFail`, `EnqStore`,
`EnqTurn`, `EnqPublish`, and the same for dequeue).  A failed CAS may happen when it
need not, as `compare_exchange_weak` allows.  The order of memory: the atomic
accesses of the source are sequentially consistent in the model but for one
freedom.  The load of a head is relaxed (lines 88, 131 and the reload by a failed
CAS), so nothing stops a weakly ordered CPU from satisfying it after the acquire
load that follows; threads in `Reordering` run on such a CPU
(`EnqTailEarly`/`EnqHeadLate`).  The slot access cannot move before the CAS (its
address comes from the CAS), nor after the release store.

**SpscRing.**  `LateLoad` says whether the CPU may make `out++` visible before
the load of the slot has been satisfied; on x86 it may not, on ARM, where the
barrier of line 113 lies before the load, nothing forbids it.

**SpscPipeline.**  Both threads of the example over `Ring` and `Pool`, two
instances of SpscRing with `LateLoad`.  Loops that repeat a failing call
are actions that wait; the consumer's shutdown test is three steps (`Nothing`,
`StillRunning`/`Stopped`, `NotEmpty`/`Finish`), because pop, `running` and
`ringbuf_is_empty` are read at three different moments.

**MemPool.**  The free list is modelled by its pointers (`freeHead`, `next`), so
that a wrong link shows as a lost or doubled object; the first word of an object
in use is `Junk`.  Each critical section is one action.  A thread holds up to
`MaxHeld` objects: 1 is the benchmark, more is the use the API allows, and what
lets caches be flushed.  `Spurious` is the wakeup POSIX permits.

**RbTree.**  The mirrored halves of the code are one operator with a direction.
`RbInsert` and `RbEraseLinks` link the nodes; every iteration of the two fixup
loops is an action (`RbInsertStep`, `RbEraseStep`, with the code's cases 1, 3 and 4 as
`BlackSibling`, `RedFarChild` and `Rebalanced`), and `rbFix` is what the loop
keeps between two of them (`node`, and `parent`, which the code carries along
because `node` may be NULL).  The caller frees an erased entry, so its fields are
reset.  `RbAnyErase` says whether the erasure of section 5 is allowed; dereferencing
NULL is the state `crashed`.

**SkipList.**  `Descent(pass, stop)` is the loop all functions share; its result at
each level is `update[]`.  The level of a new node, `rand()` in the code, is any.
Links that the code does not initialise are `Junk`.

**DList.**  Nodes are live while their links may be followed.  `dlist_del` and
`dlist_splice` leave stale links: the node or head is no longer live, and only
`dlist_init` or an insertion brings it back.  `Lists` lets an insertion or a
splice take either end, so that it does not tell `dlist_add` from `dlist_add_tail`: each is
one call of `__dlist_add`, whose two arguments say which end it is.  The model calls nothing on a stale
node that the code could not survive; it does call everything else, also in the
body of the safe loops.

**IrbRing.**  A field for each of the struct; the history `irbHeld` is the queue the
ring stands for.

**StepTable.**  `rules[].limit` is any ascending table whose last limit is
`StepMax`, the code's UINT32_MAX; every loop iteration is an action.

**Mbuf.**  A view is a buffer with the positions `data` and `tail`.
`mbuf_append_large` is cut where it touches a shared count: `MbTest` loads it,
`MbCopy` copies and lowers it, `MbWrite` and `MbGrow` are the two branches of the
loop.  All other functions touch each count once and are one action, and
`mbThreads` says whether owners run at the same time.  Memory may run out in the
middle of a clone.  Elsewhere an action waits for a free buffer, for the code does
not test what malloc returns.

**Patricia.**  A tree is a function from paths to nodes, so that replacing a child
pointer is grafting a tree.  `InsertBelow` has one branch for each path of
`patricia_insert`, in its order; `Attach` is the part all the upgrades share, and like
the code it does not compare the prefix.  `CollapseUp` is the tail of
`patricia_delete`.  The loops over a range are one action per block (`Block4`,
`Block6`), with the pairs of words of the IPv6 code; `Pow2` is `1 << n`, a recursive
function because the provers know nothing of `^`.  `ptGranted` is a history: the
prefixes and rules added and not deleted.  `PtAnyOrder` says whether the insertions
of section 5 (`Lost`) are allowed.

**CheckIp.**  A packet is a record of what the code reads of it, lengths in words of
four bytes; the verdict is an operator on the tree in use.

**BoundedQueue** is the abstract specification.  It says nothing of *when* an
enqueue may fail: that is what `FullMeansFull` asks separately.

## 3. Runs, bounds and fairness

| run | instance | properties | question |
|---|---|---|---|
| `mpmc_fifo` | 2 producers, 2 consumers, 2 items, `Cap` 2, `Modulus` 8 | `TypeOK`, `CountersOrdered`, `SlotExclusion`, `IndInv`, `DataInv`, `EmptyMeansEmpty`, `ImplementsQueue` | is it a FIFO queue, and do the invariants behind the proofs hold? |
| `mpmc_weak` | 2 producers, 1 consumer, 2 items, `Cap` 2, `Modulus` 6, everybody reorders | `ClaimsArePublished`, `ImplementsQueue`, `ClaimCompletes` | is it still one on a weakly ordered CPU, and is every claim served? |
| `mpmc_full` | 2 producers, 1 consumer | `FullMeansFull`, violated | does `false` mean full? |
| `mpmc_stale_tail` | 1 producer, 2 consumers that reorder | `ClaimsArePublished`, violated | is dequeue safe for several consumers on such a CPU? |
| `pool_shared` | 3 threads, 5 objects, caches of 3, batches of 2, 4 allocations each | `PoolInv` (with `TypeOK`), `EveryObjectOnce`, `CacheFits`, `WaitersExact` | does a scarce pool keep its objects and its count of waiters? |
| `pool_lost_wakeup` | 2 threads, 2 objects, batches of 2 | `AllJoined`, violated | does every waiter of a scarce pool wake up? |
| `benchmarks` | `ringbuf_example.c`: `Cap` 4, `Modulus` 8, 20 packets, late loads; `main` of `pool.c`: 3 threads, 6 objects, batches of 2, one object at a time | `PacketsConserved`, `AllInOrder`, `AlwaysRoom`, `NothingLost`, `NeverEmpty`, `PipelineEnds`, `PoolEnds` | does the example hold what it prints, does nobody wait for an object, and do both programs end? |
| `sequential` | all sequential parts and the SPSC ring, each on its own instance (below) | `SeqTypeOK`, `RbShape`, `RbWalks`, `SlLevels`, `SlFinds`, `DlExact`, `DlImplementsLists`, `IrbExact`, `StepSearchesAgree`, `MbCounts`, `MbReadsExact`, `MbPacketsAreValues`, `PtTreeExact`, `PtLookupExact`, `RangesCut`, `VerdictExact`; of the SPSC ring `SlotExclusion`, `IndInv` (with `TypeOK`), `ImplementsQueue` | is every structure what it stands for, after any sequence of calls, and the SPSC ring a FIFO queue? |
| `rbtree_erase` | the red-black tree with every erasure | `RbShape`, violated | is erase right for a successor that is the erased node's own child? |
| `acl_order` | the ACL table with insertions in any order | `PtLookupExact`, violated | do lookups answer as granted whatever the order of insertion? |
| `acl_whole_v6` | the ACL table of `sequential` | `WholeSpaceRefused`, violated | is the whole IPv6 space refused? |
| `check_others` | the same, with its packets | `OthersPass`, violated | does everything pass that is not readable TCP or UDP? |

**Bounds.**  `Cap` 2 makes a ring full, empty and lapped within a few steps and a
`Modulus` of 6 or 8 lets the counters wrap again and again: the runs of MpmcRing
and SpscRing have no bound on the number of operations, their state spaces are
closed.  One bound is stated in the guards of MpmcRing: `NoHeadLap` and
`NoTailLap` keep a counter from coming round to within a ring's length of a value
that a thread has loaded and still uses.  In the code this is 2^32 - `Cap`
operations of others between two steps of one thread; without it the CAS is open
to the ABA problem that every ring of this design has.  Two threads a side are
what every property here talks about (two that claim, two that use slots), and
the theorems cover any number.  In the pool, 3 threads and caches of 3 are the
least where one thread flushes while another is between the two locks and a
third waits; in the pipeline 20 packets wrap both counters twice.

In `sequential` the part exercised is chosen at the start; its properties on the
parts that are at rest cost nothing.

| part | instance | why it is enough |
|---|---|---|
| red-black tree | 8 entries, two with one key | every case of both fixups, black height 3, replacement and refusal |
| skip list | 5 entries, two with one key, 3 levels | lanes that are empty, equal and nested; levels that grow, are clipped and shrink |
| lists | 2 heads, 3 nodes | splices of lists of every length into lists of every length, stale heads |
| ring | 3 slots, 2 items, no bound on the calls: a full ring refuses a push, so the queue it stands for is no longer than the ring | size not a power of two, mirrors in all four states |
| step table | all ascending tables of 1 to 5 limits, values 0 .. 3 | equal limits, both ends, odd and even lengths |
| packets | 2 owners, 3 buffers, one byte of payload, fragments of 2, at most 3 bytes | packets of several views, views that are empty, both owners in the copy at once |
| ACL table | addresses of 4 bits (two words of 2), nested and disjoint prefixes, 3 rules, at most 3 grants; every range | every path of insertion and deletion, borrow and carry between the words, both ends of the address space |
| packets checked | 2 versions and a wrong one, up to two extension headers, every length around each boundary, an IPv4 packet that ends before its protocol | each length test on both sides |
| SPSC ring | `Cap` 4, `Modulus` 8, 2 items, loads that are not late | full, empty, and counters that wrap again and again: a closed state space |

TLC's symmetry is used for threads of one side and for items, never in a run with
liveness.  Deadlock is checked for the MPMC ring and for the two programs of
`benchmarks`; the threads of a scarce pool may wait for ever, and its runs switch the
check off; so does `sequential`, where a caller may stop calling.

**Fairness.**  MpmcRing: weak fairness of each thread's steps inside a call, for
operating systems schedule every runnable thread; whether a thread calls again is
not assumed.  The wait loops are enabled when they would end, so this grants them
nothing but being scheduled.  MemPool: weak fairness of every thread without
`Spurious`: no program may count on it.  SpscPipeline: weak fairness of the two
threads, which are pinned to a core each.  In `benchmarks` both apply, each to the
program that runs (`BothSpec`).

## 4. What is proved

All theorems are for every value of the constants: arbitrary sets of threads and
items, any `Cap`, any `Modulus` it divides, a mirrored ring of any size, a step
table of any length.

* `TypeCorrect`: `Spec => []TypeOK` for the MPMC ring, with any reordering.
* `InductiveInvariant`, `CountersStayOrdered`, `SlotsAreExclusive`,
  `ClaimsStayPublished`, `EmptyIsEmpty`: the safety of the MPMC ring, from one
  assumption, `Reordering \cap Consumers = {}`.
* `ItemsStayInPlace`, `MpmcIsQueue`: under the same assumption the MPMC ring
  implements BoundedQueue.
* `SpscInvariant`, `SpscSlotsAreExclusive`, `SpscIsQueue`: the same for the SPSC
  ring, from `LateLoad = FALSE`.
* `PacketsAreConserved`, `PacketsStayInOrder`, `RingsHaveRoom`, `NothingIsLost`:
  the safety of the pipeline, for both values of `LateLoad`.
* `PoolInvariant`, `ObjectsAreConserved`, `CachesFit`, `WaitersAreExact`: the
  safety of the memory pool for any finite set of threads, any size of the pool,
  of the caches and of the batches that fit them; `PoolNeverEmpty` for
  the benchmark's proportions, the formula that `benchmarks` checks through its
  instance of `MemPool`.
* `DlIsExact`, `DlRefinesLists`: the lists, for any heads and any finite set of nodes.
* `LanesAreSublists`, `SlSearchesAreExact`: the skip list, for any entries with
  integer keys and any number of lanes.
* `CountsHold`: the reference counts of packets, for any finite set of owners that
  interleave in any order, any buffers, sizes and strings.
* `PacketsAreValues`: `Mbuf` implements `ByteStrings`.  Each owner's packet is a string
  of bytes that only its own calls change, while others append to clones of it.
* `ReadsHold`: `mbuf_copy_bits` and `mbuf_header_pointer` return the bytes asked for,
  or nothing if the packet does not have them, on any chain of views.
* `RangesAreCut`: the blocks a range of addresses is cut into, for words of any width.
* `RbTreeKeepsItsShape`, `RbTreeWalksInOrder`: the red-black tree, for any entries with
  integer keys, from `RbAnyErase = FALSE`.
* `IrbIsExact` and `SearchesAgree`, for two of the other sequential parts.

*The argument for the MPMC ring.*  `CountersOrdered` is not inductive: that a CAS
does not pass the tail depends on a test made earlier with a tail that has moved
since, on a head that may be older still.  `IndInv` adds three things, all measured
as distances from `consTail`, the oldest counter, where modular arithmetic turns
into ordinary order: `ClaimsInv` (each thread between claim and publication has an
index of its own, in the right interval, and whoever may publish is next),
`TestsInv` (whoever may still win the CAS has a test that still holds) and
`StaleInv` (what has been loaded is less than a lap old).  `SlotExclusion`
follows by arithmetic: two indices in one window of `Cap` fall into one slot only
if they are equal (lemma `SlotsDiffer`, from `Cap` dividing `Modulus`).  For the
refinement `DataInv` adds that published slots hold items; an enqueue maps to the
queue's step at its publication, a dequeue at its CAS, everything else to nothing,
and the lemmas `WindowAppend`, `WindowTail` and `WindowStore` say what these
steps do to the queue read out of the ring.

*The argument for the SPSC ring* is the same with two counters.

*The argument for the pool.*  `EveryObjectOnce` speaks of the list that
`FreeList` reads by following the links, and says nothing of the links of objects
in caches, which is what a thread relies on when it pops a cache into the list.
The invariant (`IInv`) turns it round: there *is* a sequence of objects, without
repetition, which the links follow from `freeHead` to null (`Linked`), and it, the
caches and the objects in use are `Apart` and hold everything.  Its steps then are
about sequences: a refill cuts the list (`HandOutApart`), a flush joins the top
half of a cache to it (`PrependLinked`), and a thread that writes into an object of
its own cannot touch the list, because the two are apart.  That `FreeList` reads
this sequence is `WalkList`, an induction along the chain.  `WaitersExact` counts
a set of threads that changes by one thread or not at all; `EmptyHanded` says
whose cache is empty, which a refill needs to fit.  `PoolNeverEmpty` adds up: if a
thread found the list empty, every object would be with the other threads, each
of which holds one object or less than a full cache.  Its hypotheses are the
benchmark's: `MaxHeld = 1`, and `PoolSize` larger than a batch for every other
thread (there: 100000 objects, 4 threads, batches of 32).

*The argument for the pipeline.*  With late loads neither ring is safe on its own
(`SpscIsQueue` has the assumption `LateLoad = FALSE`): the reader gives a slot back
before it has looked at it, and a writer that finds the ring one short of full
would overwrite it.  What saves the example is how the two rings are used
together.  `SpscRing_proofs` therefore has a second invariant, `LateInv`, kept by
every step of the reader and, as long as the ring has `Room` for the late packet,
by every step of the writer.  `SpscPipeline_proofs` instantiates these lemmas for
`Ring` and for `Pool` and supplies the room: the packets in the two rings and the
two in the threads' hands are all there are (`Shared`), so the packet being read
from a ring and the packet being written to it are both missing from it.  `Order`
says which numbers the packets on the way carry, `Control` what each label of a
thread implies, among others that a consumer past its last test of `running` has
an empty ring before it.  `PacketsAreConserved`, `PacketsStayInOrder`,
`RingsHaveRoom` (a release never meets a full pool) and `NothingIsLost` (the
shutdown) follow for any capacity, width of the counters and number of packets.

*The argument for the lists.*  `DlLinked` is not inductive: nothing in it says
that two heads have different rings, and a splice between two heads of one ring
breaks it.  `Shape` gives every head its list, a sequence without repetition
whose ring the links follow both ways (`Ring`), no two lists sharing a node, every
live node on none linked to itself; of the links of nodes and heads that are not
live it says nothing.  Every operation of `dlist.h` is a composition of three: a
chain is woven in between two neighbours (`WeaveShape`; one node for an insertion, a
whole list for a splice), a node is bypassed (`RemoveShape`), or something alone
is linked to itself (`SelfShape`).  Each writes to one ring only, the others are
framed (`RingFrame`).  `Stands` says how many nodes of its list a loop has left
behind; it moves on when the body keeps its node and stays when the body takes
it.  `AlongIs` shows that following `next` from the head reads the list, and with
it every step maps to a step of `Lists` (`Moves`).

*The ring with mirror bits* (`IrbIsExact`: `IrbSpec => []IrbExact`, for every
size).  That the slots hold the queue is not inductive without knowing where the
write index is: `IrbPlace` computes it, and the mirror, from the read index and the
number of items, and push and pop keep it because only one wrap can lie between the
two indices.

*The searches* (`SearchesAgree`: `StepSpec => []StepSearchesAgree`, for every
table).  `Bracket` says that all limits left of the interval are passed and that
`ans` is the rule right of it; with an empty interval this is the rule, and a value
has only one (`OneRule`).

*The skip list* (`LanesAreSublists`, `SlSearchesAreExact`, for any entries with
integer keys and any number of lanes).  `SlLevels` is inductive but for three things
it does not say: keys differ (`Unique`, which the refusal of a taken key keeps up), a
link above a node's height was never written (`SlUnwritten`), and the loop's entries to
come are those from its node on (`SlWalkRest`).  `Between` is the one fact about sorted
sets: an entry that joins a set changes what is behind its predecessor and before
its successor and nothing else; insert reads it forwards on each lane, erase
backwards.  The descent is a recursion over levels around a recursion over nodes, and
neither has a counter.  `RunIs` gives the inner one a solution, "the last entry of
the lane inside the cut", and shows it is the only one: the greatest entry on which
another solution differed would be followed by a greater one.  `DescentIs` does the
same over the levels.  That a lane is a sublist of the one below is what lets the
descent go on from where it left the lane above.

*The argument for the red-black tree* (`RbTreeKeepsItsShape`, `RbTreeWalksInOrder`; the
assumption `RbAnyErase = FALSE` leaves out the erasures of section 5, with which
`RbShape` is false).  `RbShape` speaks of what is above a node, which changes for whole
subtrees with every rotation; the invariant (`RbInv`) speaks of each node and its two
children only.  `RbTreeOf(t, I, S)` gives each node the set `S` of the entries below it
(itself, the set of the left child, all with smaller keys, the set of the right child,
all with greater ones), and `Heights(t, I, H, q, D)` a number `H` of black nodes below
it, equal on both sides, but for a node `q` whose side `D` may be one short.  Between two
calls the tree is `Sound`: no node is short, none is red below a red one, the root is
black.  While an insertion repairs, it is `Growing`: the one node of the loop may be red
below a red parent, or be a red root.  While an erasure repairs, it is `Lacking`: the
paths through the node of the loop are one black node short, which names its parent
even where the node is NULL, and the two may be red one below the other.  That
is also why the fixups cannot meet a NULL: a side that is not short has black nodes, so
the sibling exists (`SiblingIs`), and a red parent is not the root, so the grandparent
does (`GrowingFacts`).

Each of the four updates of the links is taken in four steps.  What each field is afterwards
(`Turned`, `Linked`, `Unlinked`, `Renamed`): here the aliases count, a child that may be
NULL, a parent that may be the root.  Then that `S`, changed at two nodes, fits again;
then that `H` does; then that nodes outside the tree were left alone (`Untouched`),
since an erased node is still written by nobody but the caller.  The rotations,
insertions, erasures and replacements of the code are compositions of these four, each
iteration of a fixup has a lemma that says which invariant it leaves
(`InsertRecolours`, `InsertTurns`, `ErasePasses`, `EraseTurns`), and `RbNextKeeps` puts
the actions together.

The walks (`RbEnd`, `RbStep`, `RbPlace`) are recursions along the links without a
counter.  That they have a solution follows from the size of `S`, which shrinks on the
way down and grows on the way up; the climb of `RbStep` ends at the nearest ancestor on
the other side, which is the next entry in order because everything between the two
keys would be in one of the sets passed (`StepIs`).  `WalkOK` says that the loop's
entries to come are those from its node on; it is kept when the body erases that node
because the next one was taken before, and is the next in order either way.

*The argument for the packet buffers* (`CountsHold`).  `Sound` ties the memory to the
packets: a buffer's count is the number of owners whose packet has it, no packet
views one buffer twice, every view lies in memory that exists, and the lengths of the
views add up to `pkt_len` (`Marks` is how far the first views reach, which turns
the sum over a chain into a function).  `MbCounts` counts views, not owners; as no
packet has a buffer twice it is the same number (`UsersAreHolders`).  Each of the ten
operations changes the packet of one owner and the memory to match (`Moved`: new
memory is counted once, old memory once more or once less for that packet, and only
memory that the packet alone held is freed), and `MovedSound` shows once that such a
change keeps `Sound`.  A copy takes two steps and reads a count in between, so the
count it read may be old: `Sound` does not depend on it, and the only harm is a
buffer that is left with count 0 (section 5).  Without concurrency this cannot be, because
`MbAlone` keeps another user for a buffer about to be copied.  `MbWorking` says that
whoever is in the middle of `append_large` has a packet and room for the rest.

*The argument for packets as values* (`PacketsAreValues`).  Sharing is harmless when
bytes are written only by an owner who is alone with the buffer, and the test that
says so is a step before the write.  `MbWriters` is what makes the step between them
safe: whoever is about to write is the only one whose packet has the buffer of its
last view.  It is kept because a buffer comes into a packet only from the packet of
the owner who clones (`Spreads`), and that owner is not in the middle of an append.
`Spells` says that a string is what a chain of views reads; it determines the
string (`SpellsOnce`), and a pure lemma per change of a chain says what the string
becomes: the same (`SpellsAlike`, `SpellsEmptyView`), longer by what was written
(`SpellsMore`), without its first bytes (`SpellsLater`), only its first bytes
(`SpellsCut`).  Each operation leaves what the other owners read as it is
(`Aside`).  An append maps to the string's step when it is called; the copies, the
fragments and the writes that follow move bytes from `mbWork` into the chain, which
does not show.

*The argument for reads* (`ReadsHold`).  Each view holds the piece of the value that
begins at its mark (`ViewsHold`).  `Locate` finds the one view whose piece contains
the offset, if there is one (`LocateIs`), and with each view the copy grows by the
next piece (`CopyStep`).  This one lemma serves twice: it shows that the pieces of the
value solve the recursion of `CopyBits` (`CopyExists`), and that whatever solves it
ends with the bytes asked for (`CopyEnds`).

*The argument for ranges* (`RangesAreCut`: `PtSpec => []RangesCut`, for any `Word`, 64
bits in the code).  The invariant (`RangeOK`) is what one expects: the blocks so far
are disjoint and cover what lies before `s`.  The work is in `Cuts`, what each of the
two loops computes for one block: a power of two that divides `s`, does not reach
beyond `e`, ends the loop exactly if it ends at `e`, and else moves `s` behind itself.
For IPv4 (`Block4Cuts`) it follows from the lowest bit of `s` (`LowestIs`) and the
greatest power below the span (`LogIs`).  For IPv6 (`Block6Cuts`) the words come first:
subtraction with borrow and addition with carry are those of the whole number as
long as it fits (`MinusIs`, `PlusIs`), the lowest bit of a pair of words is that of
the number (`Lowest6Is`), the mask is one less than a power of two (`Mask6Is`), and adding
one to it gives the block (`Block6Is`).  There is one case the words do not fit, the
whole address space, where the block is 2^128 and wraps to zero: `WholeBlocks` says
what the two loops do then: IPv4 asks for the bit length 0 and is refused, IPv6 inserts
`::` and returns 0, which `RangesCut` leaves open (section 5).

*Recursion.*  What a recursive function computes is proved by induction over a set
of numbers (`SetInduction`, from the well-foundedness of the naturals, and
`Iterated`, that a recursion has what it says), since the library's induction theorems take an operator as a parameter
and no prover here can instantiate them.

*Only model-checked*: everything about liveness (`ClaimCompletes`, `PoolEnds`,
`PipelineEnds`), because fairness and `ENABLED` are out of TLAPS's reach here; the
reordering single consumer (`mpmc_weak`); and the other parts (the Patricia tree and its
lookups, the verdicts of `check_ip.c`).

## 5. What the checks found

* **A full queue that is not** (`mpmc_full`).  `enqueue` compares a head it has
  loaded earlier with the tail of now.  When consumers have moved past that head,
  `head - tail` wraps to a huge number and the call returns `false`, even on an empty
  ring.  The comment at `mpmc.c:94` says the difference truly reflects the number of
  elements.  Only a spurious failure: `ImplementsQueue` holds all the same.
* **A claim of nothing** (`mpmc_stale_tail`).  With two consumers on a CPU that
  reorders the loads, `head` may be newer than `tail` in `dequeue`; `head == tail` then
  misses that the ring is empty, the CAS succeeds and the call returns what the slot
  happens to hold.  `enqueue` is not affected: there a stale tail errs on the side of a
  full ring.  With a single consumer the head is its own and cannot be stale.  The
  theorems' assumption `Reordering \cap Consumers = {}` is exactly this.
* **A lost wakeup** (`pool_lost_wakeup`).  `cache_refill` looks at the list under one
  lock and waits under another, without looking again; a thread that returns objects
  in between sees no waiter and does not broadcast.  The benchmark's sizes avoid it
  (`benchmarks`: no thread ever finds the list empty).
* **An erasure that repairs from the erased node** (`rbtree_erase`).  When the
  successor is the erased node's own right child, `parent = node->parent`
  (`rbtree.h:387`) is the erased node.  If that successor is black and has no child,
  the fixup starts there: it repaints and rotates a node that is out of the tree.
  The compiled code crashes on insert 1, 2, 3, 4, erase 4, erase 2.  With that one
  case excluded (`ParentGone`) the tree is right in `sequential`.
* **Rules on the wrong prefix** (`acl_order`).  `patricia_insert` takes a node that
  tests the new prefix's last bit for the node of that prefix (lines 198 and 236)
  and compares neither length nor key; and a prefix raised above the root (264-273)
  is not found again by the descent.  A prefix inserted after one it contains may so
  put its rule on another prefix's node, or lose it as a duplicate there.  In the
  compiled code, after 10.0.0.0/8, 11.1.0.0/16 and 11.0.0.0/8 the rule of the last
  is missing for 11.2.3.4 and applies to 10.2.3.4.  With these insertions excluded
  (`Lost`) both lookups are exact.

* **The whole IPv6 space** (`acl_whole_v6`).  `patricia.h:283-285` says that the range
  `::` - `ffff:...:ffff`, for which the size of the block wraps to zero, is refused with
  -1.  `patricia.c:672-761` has no such test: the bit length of a block of 0 comes out
  as 128, `::` alone is inserted and 0 returned.  `RangesCut` (`sequential`) holds of all
  other ranges, and the whole space of IPv4 is refused.
* **Packets that are none of its business** (`check_others`).  `check_ip.c:144`, `226` and
  `231` say that malformed packets, unknown protocols and everything but TCP and UDP
  pass.  Line 229 tests for the protocols 0, 1 and 58 only; another protocol, a later fragment
  (0xFF from the walk) and a chain of headers that cannot be followed go to
  `acl_lookup`, which knows no rules for them, and are dropped.  `VerdictExact` (`sequential`)
  speaks of the packets on which comments and code agree.

Smaller disagreements of comments and code, without a run of their own:

* `patricia.h:155` says that duplicates are told by their pointers; the code compares
  the ports only (20-35), so a second rule with the same ports on the same prefix and
  protocol is taken for inserted and is not.  `WithGrant` follows the code.
* `insert_ip_rules` reads the IPv6 mask and ignores it: always 64 bits (854-857).
* `check_ip.c:124` reads byte 9 of an IPv4 packet before any test of its length; for
  fewer than 10 bytes it lies outside the buffer.  In the model it is then any
  protocol, and the packet passes whatever was read, for it is shorter than 20 bytes
  (`VerdictExact`, on packets of 8 bytes); that the read itself may fault is not modelled.
* `tiered_table.c:40` says the fallback is never reached; UINT32_MAX reaches it.
* `packet.c:78`: two owners that copy one buffer at the same time lower its count to
  0 and neither frees it.  `MbCounts` allows the leak with concurrent owners only.
* `rbtree_example.c:110-112` replaces key 30 by 300, which breaks the order of the
  tree; `rbtree_replace` needs a key in the same place (`RbReplace`).
* The 3 mallocs of `packet.c:52, 57, 71` are not tested.
* `check_ip.c` includes `patricia_copy.h`, which the repository does not have.

## 6. What is not modelled

* The release sequence of line 111: in the C11 memory model the relaxed read in the
  wait loop does not make the first producer's store visible to who reads the second
  producer's tail.  On x86 and multi-copy-atomic ARM it is visible; a model of it
  needs views of memory per thread.
* `mpmc_ring_destroy`, `mp_pool_destroy`: called when no other thread is left.
* `ringbuf_peek`: a pop that changes nothing.
* Allocation failures of `create` and `init` functions: nothing exists afterwards.
* `coding/table.c`: one function without state that looks a message type up in a
  constant table and makes the two tests the table names; a model would repeat it.
* `packed_def.h`, `aligned_def.h`, `Macro/`, `test_mem.c`: attributes, constants and
  a test, which have no behaviour.
* `g_l3vpn_rules` (`patricia.c:805-822`): a list of rule objects that is only freed.
* Text: the parsing of addresses and ranges (`inet_pton`, `strchr`) is represented by
  its results, the prefixes and the pairs of addresses.
* Allocation failures in `patricia_insert` outside a range loop: they return -1
  before the tree is changed, but for the key of a node upgraded in place
  (203-214, 240-252), which then stays without effect because `is_end` is not set.
* `mbuf_headroom`: nothing uses the space before `data`.

## 7. Plan

Order by what is hardest to test.  Done: steps 1 to 14.

1. `RingIndex`, `MpmcRing`, `BoundedQueue`; invariants, refinement, proofs.
2. `MemPool`: pointer-level free list, wait protocol.
3. `SpscRing`, proofs; `SpscPipeline` over it.
4. `MpmcRing_proofs`: the MPMC ring implements the queue.
5. `Mbuf` against packets as values, `IrbRing`, proved.
6. `StepTable`, proved.
7. `RbTree`, `SkipList`, `DList` against a set of sequences.
8. `Prefixes`, `Patricia`, `CheckIp`.
9. Proofs of `MemPool` and `SpscPipeline`.
10. `DList`, proved exact and a refinement of `Lists`.
11. `SkipList`, its lanes and searches proved exact.
12. `Mbuf`, its reference counts and reads proved exact, and packets to be strings.
13. The range arithmetic of `Patricia`, proved.
14. `RbTree`, its shape, colours and walks proved exact.
15. To do: the tree of `Patricia` proved exact under insertion and deletion; from it
    the lookups, and from these the verdicts of `CheckIp`.
