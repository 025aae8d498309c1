---- MODULE MCBenchmarks ----
(***************************************************************************)
(* Small instances of the two multi-threaded programs in the proportions   *)
(* of their own constants: ringbuf_example.c (SpscPipeline) and the main   *)
(* of pool.c (MemPool), whose pool has more objects than all threads can   *)
(* hold back.  A behaviour runs one of them; the other does not start.     *)
(***************************************************************************)
EXTENDS SpscPipeline, TLC

CONSTANTS
  t1, t2, t3,
  Workers,                             \* NUM_THREADS of pool.c
  PoolSize, CacheCap, Batch, Ops       \* see MemPool

VARIABLES
  program,
  freeHead, next, waiters, cache, held, left, pc    \* see MemPool

mpVars == <<freeHead, next, waiters, cache, held, left, pc>>

MemPool == INSTANCE MemPool WITH Threads <- Workers, MaxHeld <- 1

BothInit ==
  /\ program \in {"ringbuf_example", "pool"}
  /\ Init
  /\ MemPool!Init

(* main of pool.c returns from its joins. *)
PoolJoined ==
  /\ \A t \in Workers : pc[t] = "done"
  /\ UNCHANGED mpVars

RunPipeline == program = "ringbuf_example" /\ Next /\ UNCHANGED <<program, mpVars>>
RunPool == program = "pool" /\ (MemPool!Next \/ PoolJoined) /\ UNCHANGED <<program, vars>>

Alone(step, rest) == step /\ UNCHANGED <<program, rest>>
bothVars == <<program, vars, mpVars>>

(* The fairness of SpscPipeline and of MemPool, for the program that runs.  *)
BothSpec ==
  /\ BothInit /\ [][RunPipeline \/ RunPool]_bothVars
  /\ WF_bothVars(program = "ringbuf_example" /\ Alone(Producer, mpVars))
  /\ WF_bothVars(program = "ringbuf_example" /\ Alone(Consumer, mpVars))
  /\ \A t \in Workers : WF_bothVars(program = "pool" /\ Alone(MemPool!Step(t), vars))

(* The threads of ringbuf_example.c end and its main's joins return (lines *)
(* 155-156).                                                               *)
PipelineEnds == program = "ringbuf_example" => BothEnd

(* Every worker of pool.c ends and its main's joins return (lines 319-320), *)
(* in a pool of the benchmark's proportions.                               *)
PoolEnds == program = "pool" => MemPool!AllJoined

(* With the benchmark's proportions (100000 objects, 4 threads, batches of *)
(* 32) no thread ever finds the free list empty and waits (pool.c:164-176). *)
NeverEmpty == MemPool!NeverEmpty

====
