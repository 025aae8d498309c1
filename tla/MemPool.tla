---- MODULE MemPool ----
(***************************************************************************)
(* coding/pool.c: a pool of equal objects with a stack of cached objects   *)
(* per thread.  Free objects that are in no cache are linked through their *)
(* own first word (free_node_t.next), which the program overwrites while   *)
(* it uses an object.  A thread whose cache is empty refills it from the   *)
(* list and waits on a condition variable when the list is empty.          *)
(*                                                                         *)
(* The list is only touched under pool->lock, the wait set and waiters     *)
(* only under wait_lock: a critical section is one action, together with   *)
(* the thread's own work around it.  pc is where a thread is between them: *)
(*   start   created, before mp_thread_init                                *)
(*   idle    outside the pool                                              *)
(*   refill  in cache_refill, about to take pool->lock                     *)
(*   park    has found the list empty and released pool->lock              *)
(*   parked  in pthread_cond_wait                                          *)
(*   woken   out of the wait set, about to take wait_lock again            *)
(*   signal  has put objects on an empty list, about to broadcast          *)
(*   bye     the same in the thread's cleanup handler                      *)
(*   done    ended                                                         *)
(***************************************************************************)
EXTENDS Integers, Sequences, FiniteSets, Places

CONSTANTS
  Threads,
  PoolSize,   \* objects of the pool
  CacheCap,   \* LOCAL_CACHE_CAPACITY
  Batch,      \* BATCH_SIZE
  Ops,        \* TOTAL_OPS, the allocations of each thread
  MaxHeld     \* how many objects a thread uses at a time; 1 in worker()

ASSUME PoolAssumption ==
  /\ IsFiniteSet(Threads)
  /\ PoolSize \in Nat \ {0}
  /\ CacheCap \in Nat \ {0}
  /\ Batch \in 1 .. CacheCap
  /\ Ops \in Nat
  /\ MaxHeld \in Nat \ {0}

Objects == 1 .. PoolSize
Null == 0
Junk == -1    \* an object's first word once the program has written to it

VARIABLES
  freeHead, next,   \* pool->free_head, the first word of each object
  waiters,          \* pool->waiters
  cache,            \* the objects of each thread's cache, bottom first
  held,             \* the objects each thread is using
  left,             \* the allocations each thread has yet to start
  pc

vars == <<freeHead, next, waiters, cache, held, left, pc>>

(* mp_pool_create pushes the objects in the order of their addresses. *)
Init ==
  /\ freeHead = PoolSize
  /\ next = [o \in Objects |-> o - 1]
  /\ waiters = 0
  /\ cache = [t \in Threads |-> <<>>]
  /\ held = [t \in Threads |-> {}]
  /\ left = [t \in Threads |-> Ops]
  /\ pc = [t \in Threads |-> "start"]

Goto(t, label) == pc' = [pc EXCEPT ![t] = label]

(* The first n objects of the list from o on; fewer if it ends before. *)
Walk(o, n) ==
  LET at[i \in Nat] == IF i = 0 THEN o
                       ELSE IF at[i - 1] \in Objects THEN next[at[i - 1]] ELSE Null
      length == CHOOSE k \in 0 .. n :
                  /\ \A i \in 0 .. k - 1 : at[i] # Null
                  /\ k = n \/ at[k] = Null
  IN  [i \in 1 .. length |-> at[i - 1]]

(* The last object of the chain keeps its link. *)
PrependOpen(chain) ==
  /\ freeHead' = chain[1]
  /\ next' = [o \in Objects |->
                IF \E i \in 1 .. Len(chain) - 1 : chain[i] = o
                THEN chain[1 + CHOOSE i \in DOMAIN chain : chain[i] = o]
                ELSE next[o]]

(* A chain of objects linked in order and put in front of the list. *)
Prepend(chain) ==
  /\ freeHead' = chain[1]
  /\ next' = [o \in Objects |->
                IF \E i \in DOMAIN chain : chain[i] = o
                THEN LET i == CHOOSE i \in DOMAIN chain : chain[i] = o
                     IN  IF i = Len(chain) THEN freeHead ELSE chain[i + 1]
                ELSE next[o]]

(* worker's call of mp_thread_init. *)
ThreadInit(t) ==
  /\ pc[t] = "start"
  /\ Goto(t, "idle")
  /\ UNCHANGED <<freeHead, next, waiters, cache, held, left>>

(***************************************************************************)
(* mp_alloc and cache_refill                                               *)
(***************************************************************************)

(* The object on top of s, a cache of t, is handed out and written to. *)
HandOut(t, s) ==
  LET o == s[Len(s)]
  IN  /\ cache' = [cache EXCEPT ![t] = SubSeq(s, 1, Len(s) - 1)]
      /\ held' = [held EXCEPT ![t] = @ \cup {o}]
      /\ next' = [next EXCEPT ![o] = Junk]

Alloc(t) ==
  /\ pc[t] = "idle"
  /\ left[t] > 0
  /\ Cardinality(held[t]) < MaxHeld
  /\ left' = [left EXCEPT ![t] = @ - 1]
  /\ \/ /\ cache[t] # <<>>
        /\ HandOut(t, cache[t])
        /\ UNCHANGED pc
     \/ /\ cache[t] = <<>>
        /\ Goto(t, "refill")
        /\ UNCHANGED <<next, cache, held>>
  /\ UNCHANGED <<freeHead, waiters>>

RefillEmpty(t) ==
  /\ pc[t] = "refill"
  /\ freeHead = Null
  /\ Goto(t, "park")
  /\ UNCHANGED <<freeHead, next, waiters, cache, held, left>>

(* The batch is not limited. *)
RefillAll(t) ==
  /\ pc[t] = "refill"
  /\ freeHead # Null
  /\ LET taken == Walk(freeHead, PoolSize)
     IN  /\ freeHead' = next[taken[Len(taken)]]
         /\ HandOut(t, cache[t] \o taken)
  /\ Goto(t, "idle")
  /\ UNCHANGED <<waiters, left>>

Refill(t) ==
  /\ pc[t] = "refill"
  /\ freeHead # Null
  /\ LET taken == Walk(freeHead, Batch)
     IN  /\ freeHead' = next[taken[Len(taken)]]
         /\ HandOut(t, cache[t] \o taken)
  /\ Goto(t, "idle")
  /\ UNCHANGED <<waiters, left>>

(* waiters++ and pthread_cond_wait; the list is not looked at again. *)
Park(t) ==
  /\ pc[t] = "park"
  /\ waiters' = waiters + 1
  /\ Goto(t, "parked")
  /\ UNCHANGED <<freeHead, next, cache, held, left>>

(* POSIX lets pthread_cond_wait return without a signal. *)
Spurious(t) ==
  /\ pc[t] = "parked"
  /\ Goto(t, "woken")
  /\ UNCHANGED <<freeHead, next, waiters, cache, held, left>>

(* The waiter is not counted out. *)
WakeCounted(t) ==
  /\ pc[t] = "woken"
  /\ Goto(t, "refill")
  /\ UNCHANGED <<freeHead, next, waiters, cache, held, left>>

Wake(t) ==
  /\ pc[t] = "woken"
  /\ waiters' = waiters - 1
  /\ Goto(t, "refill")
  /\ UNCHANGED <<freeHead, next, cache, held, left>>

(***************************************************************************)
(* mp_free, cache_flush and thread_cleanup_handler                         *)
(***************************************************************************)

(* One object too many is kept before the cache is flushed. *)
FreeLate(t, o) ==
  /\ pc[t] = "idle"
  /\ o \in held[t]
  /\ Len(cache[t]) <= CacheCap
  /\ cache' = [cache EXCEPT ![t] = Append(@, o)]
  /\ held' = [held EXCEPT ![t] = @ \ {o}]
  /\ UNCHANGED <<freeHead, next, waiters, left, pc>>

Free(t, o) ==
  /\ pc[t] = "idle"
  /\ o \in held[t]
  /\ Len(cache[t]) < CacheCap
  /\ cache' = [cache EXCEPT ![t] = Append(@, o)]
  /\ held' = [held EXCEPT ![t] = @ \ {o}]
  /\ UNCHANGED <<freeHead, next, waiters, left, pc>>

(* need_signal: the list was empty before objects were put on it. *)
Announce(t, label, otherwise) ==
  Goto(t, IF freeHead = Null THEN label ELSE otherwise)

(* count is not lowered to the target. *)
FreeFlushKept(t, o) ==
  LET s == cache[t]
      target == CacheCap \div 2
  IN  /\ pc[t] = "idle"
      /\ o \in held[t]
      /\ Len(s) = CacheCap
      /\ Prepend(SubSeq(s, target + 1, Len(s)))
      /\ cache' = [cache EXCEPT ![t] = Append(@, o)]
      /\ held' = [held EXCEPT ![t] = @ \ {o}]
      /\ Announce(t, "signal", "idle")
      /\ UNCHANGED <<waiters, left>>

(* The upper half of a full cache goes to the list.  Lowering count and      *)
(* storing ptr concern this thread only and are not delayed to the signal.   *)
FreeFlush(t, o) ==
  LET s == cache[t]
      target == CacheCap \div 2
  IN  /\ pc[t] = "idle"
      /\ o \in held[t]
      /\ Len(s) = CacheCap
      /\ Prepend(SubSeq(s, target + 1, Len(s)))
      /\ cache' = [cache EXCEPT ![t] = Append(SubSeq(s, 1, target), o)]
      /\ held' = [held EXCEPT ![t] = @ \ {o}]
      /\ Announce(t, "signal", "idle")
      /\ UNCHANGED <<waiters, left>>

(* The thread function returns and the TLS destructor gives its cache back. *)
Exit(t) ==
  /\ pc[t] = "idle"
  /\ left[t] = 0 /\ held[t] = {}
  /\ \/ /\ cache[t] = <<>>
        /\ Goto(t, "done")
        /\ UNCHANGED <<freeHead, next>>
     \/ /\ cache[t] # <<>>
        /\ Prepend(cache[t])
        /\ Announce(t, "bye", "done")
  /\ cache' = [cache EXCEPT ![t] = <<>>]
  /\ UNCHANGED <<waiters, held, left>>

Signal(t) ==
  /\ pc[t] \in {"signal", "bye"}
  /\ pc' = [u \in Threads |->
              IF u = t THEN (IF pc[t] = "bye" THEN "done" ELSE "idle")
              ELSE IF waiters > 0 /\ pc[u] = "parked" THEN "woken" ELSE pc[u]]
  /\ UNCHANGED <<freeHead, next, waiters, cache, held, left>>

(***************************************************************************)
(* The program                                                             *)
(***************************************************************************)
Step(t) ==
  \/ ThreadInit(t) \/ Alloc(t)
  \/ RefillEmpty(t) \/ Refill(t) \/ Park(t) \/ Wake(t)
  \/ \E o \in Objects : Free(t, o) \/ FreeFlush(t, o)
  \/ Exit(t) \/ Signal(t)

Next == \E t \in Threads : Step(t) \/ Spurious(t)

Spec == Init /\ [][Next]_vars

(* A thread that can run does; nobody may rely on a spurious wakeup. *)
FairSpec == Spec /\ \A t \in Threads : WF_vars(Step(t))

(***************************************************************************)
(* Properties                                                              *)
(***************************************************************************)
Labels == {"start", "idle", "refill", "park", "parked", "woken", "signal", "bye", "done"}

TypeOK ==
  /\ freeHead \in Objects \cup {Null}
  /\ next \in [Objects -> Objects \cup {Null, Junk}]
  /\ waiters \in 0 .. Cardinality(Threads)
  /\ cache \in [Threads -> Seq(Objects)]
  /\ held \in [Threads -> SUBSET Objects]
  /\ left \in [Threads -> 0 .. Ops]
  /\ pc \in [Threads -> Labels]

(* The list, read as far as a list without a cycle can reach. *)
FreeList == Walk(freeHead, PoolSize + 1)

(* Every object is in exactly one place: once in the free list, once in one  *)
(* cache, or in use by one thread; the list is never entered by an object    *)
(* the program writes to, never loses one and never closes into a cycle.     *)
EveryObjectOnce ==
  \A o \in Objects :
    Cardinality({i \in DOMAIN FreeList : FreeList[i] = o})
    + Cardinality({p \in Threads \X (1 .. CacheCap + 1) :
                     p[2] \in DOMAIN cache[p[1]] /\ cache[p[1]][p[2]] = o})
    + Cardinality({t \in Threads : o \in held[t]}) = 1

(* objects[] is never written past its end (lines 187, 283 and 288). *)
CacheFits == \A t \in Threads : Len(cache[t]) <= CacheCap

(* waiters counts the threads between lines 175 and 177: a broadcast is      *)
(* skipped only if nobody waits.                                             *)
WaitersExact ==
  waiters = Cardinality({t \in Threads : pc[t] \in {"parked", "woken"}})

(* The inductive invariant.  A thread on its way to the list has nothing in  *)
(* its cache; the list is a chain that ends; and no two places share an      *)
(* object, so that what one thread writes to its own objects cannot reach    *)
(* the links of the list or the cache of another thread.                     *)
Used(t) == Members(cache[t]) \cup held[t]

ToTheList == {"refill", "park", "parked", "woken"}
EmptyHanded == \A t \in Threads : pc[t] \in ToTheList => cache[t] = <<>>

Linked(list) ==
  /\ freeHead = IF list = <<>> THEN Null ELSE list[1]
  /\ \A i \in DOMAIN list : next[list[i]] = IF i = Len(list) THEN Null ELSE list[i + 1]

Apart(list) ==
  /\ Distinct(list)
  /\ \A t \in Threads : Distinct(cache[t]) /\ Members(cache[t]) \cap held[t] = {}
  /\ \A t \in Threads : Used(t) \cap Members(list) = {}
  /\ \A t, u \in Threads : t # u => Used(t) \cap Used(u) = {}
  /\ \A o \in Objects : o \in Members(list) \/ \E t \in Threads : o \in Used(t)

PoolInv ==
  /\ TypeOK /\ WaitersExact /\ CacheFits /\ EmptyHanded
  /\ FreeList \in Seq(Objects) /\ Linked(FreeList) /\ Apart(FreeList)

(* main joins every worker (line 319-320): all of them end. *)
AllJoined == <>(\A t \in Threads : pc[t] = "done")

(* With the benchmark's proportions (100000 objects, 4 threads, batches of   *)
(* 32) no thread ever finds the list empty.                                  *)
NeverEmpty == \A t \in Threads : pc[t] # "park"

====
