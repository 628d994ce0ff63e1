------------------------------ MODULE Mempool ------------------------------
(***************************************************************************)
(* A memory pool of librte_mempool: a common store of objects, the ring or *)
(* the stack of its operations, behind a cache for each lcore. A cache is  *)
(* its lcore's own, so a call is cut only where it reaches the store: in   *)
(* the ring an enqueue first reserves its entries and publishes them       *)
(* later, and the entries of a dequeue stay occupied until it returns.     *)
(***************************************************************************)
EXTENDS Integers, Sequences, FiniteSets, FiniteSetsExt

CONSTANTS
  Lcores,      \* threads with a cache of the pool
  Others,      \* threads with none: rte_lcore_id() is not below RTE_MAX_LCORE
  Objs,        \* the objects the pool was populated with
  CacheSizes,  \* cache_size of rte_mempool_create
  CacheMax,    \* RTE_MEMPOOL_CACHE_MAX_SIZE
  MaxBulk      \* bound on the objects of a call

VARIABLES
  mp,     \* the fields of the pool that are set when it is created
  store,  \* pool_data: what the ring or the stack holds
  cache,  \* objs[0 .. len - 1] of each lcore's cache
  held,   \* what each thread has been given and not put back
  call    \* for each thread, its call in progress

vars == <<mp, store, cache, held, call>>

Threads == Lcores \cup Others
PoolSize == Cardinality(Objs)

Stack == mp.stack
CacheSize == mp.cache_size

(* Mutant of FlushThresh: a multiplier of 2.5. *)
FlushThreshHigh == (5 * CacheSize) \div 2

(* CALC_CACHE_FLUSHTHRESH: truncated. *)
FlushThresh == (3 * CacheSize) \div 2

(* The powers of two up to RTE_RING_SZ_MASK, the sizes a ring may have. *)
RingSizes ==
  {1, 2, 4, 8, 16, 32, 64, 128, 256, 512, 1024, 2048, 4096, 8192, 16384, 32768, 65536,
   131072, 262144, 524288, 1048576, 2097152, 4194304, 8388608, 16777216, 33554432,
   67108864, 134217728}

(* rte_ring_create refuses the ring of a larger pool. *)
ASSUME MempoolAssumption ==
  /\ CacheSizes \subseteq Nat /\ CacheMax \in Nat /\ MaxBulk \in Nat
  /\ IsFiniteSet(Threads) /\ Lcores \cap Others = {}
  /\ IsFiniteSet(Objs) /\ PoolSize < 134217728

rte_align32pow2(n) == CHOOSE p \in RingSizes : p >= n /\ p < 2 * n

(* stack_alloc; common_ring_alloc, of whose ring one entry stays unused. *)
Capacity == IF Stack THEN PoolSize ELSE rte_align32pow2(PoolSize + 1) - 1

rte_mempool_default_cache(t) == CacheSize # 0 /\ t \in Lcores

Drop(s, n) == SubSeq(s, n + 1, Len(s))
Take(s, n) == SubSeq(s, 1, n)
Last(s, n) == [i \in 1..n |-> s[Len(s) + 1 - i]]

Idle == [pc |-> "idle", n |-> 0, objs |-> << >>]
At(t, pc) == call[t].pc = pc

(* rte_mempool_create: the operations are the stack's or the ring's; the   *)
(* tests are those of rte_mempool_create_empty. Calls with                 *)
(* MEMPOOL_F_SP_PUT or MEMPOOL_F_SC_GET go the way of a thread without a   *)
(* cache.                                                                  *)
Init ==
  /\ mp \in [stack : BOOLEAN, cache_size : CacheSizes]
  /\ CacheSize <= CacheMax /\ FlushThresh <= PoolSize
  /\ store \in Bijection(1..PoolSize, Objs)
  /\ cache = [t \in Lcores |-> << >>]
  /\ held = [t \in Threads |-> << >>]
  /\ call = [t \in Threads |-> Idle]

-----------------------------------------------------------------------------
(* __mempool_generic_put *)

(* Mutant of PutPassesCache: no limit on the objects put in the cache. *)
PutPassesCacheUnlimited(t, n) == ~rte_mempool_default_cache(t)

PutPassesCache(t, n) == ~rte_mempool_default_cache(t) \/ n > CacheMax

Put(t, n) ==
  LET objs == Take(held[t], n) IN
  /\ At(t, "idle") /\ n <= Len(held[t])
  /\ held' = [held EXCEPT ![t] = Drop(@, n)]
  /\ IF PutPassesCache(t, n)
     THEN /\ call' = [call EXCEPT ![t] = [pc |-> "enqueue", n |-> n, objs |-> objs]]
          /\ UNCHANGED cache
     ELSE /\ cache' = [cache EXCEPT ![t] = @ \o objs]
          /\ call' = [call EXCEPT ![t].pc =
               IF Len(cache[t]) + n >= FlushThresh THEN "spill" ELSE "idle"]
  /\ UNCHANGED <<mp, store>>

(* Mutant of Kept: the cache is cut to its flush threshold. *)
KeptThresh == FlushThresh

(* How much of the cache stays when it spills over. *)
Kept == CacheSize

Spill(t) ==
  /\ At(t, "spill")
  /\ call' = [call EXCEPT ![t] = [pc |-> "enqueue", n |-> Len(cache[t]) - CacheSize,
                                  objs |-> Drop(cache[t], CacheSize)]]
  /\ cache' = [cache EXCEPT ![t] = Take(@, Kept)]
  /\ UNCHANGED <<mp, store, held>>

(* rte_mempool_cache_flush *)
Flush(t) ==
  /\ At(t, "idle") /\ t \in Lcores
  /\ call' = [call EXCEPT ![t] = [pc |-> "enqueue", n |-> Len(cache[t]), objs |-> cache[t]]]
  /\ cache' = [cache EXCEPT ![t] = << >>]
  /\ UNCHANGED <<mp, store, held>>

(* Entries of the ring that calls in progress have reserved or not yet given back. *)
InRing == {t \in Threads : call[t].pc \in {"publish", "return", "fill"}}
InTransit == Cardinality(UNION {{t} \X DOMAIN call[t].objs : t \in InRing})

(* rte_mempool_ops_enqueue_bulk, all or nothing. Its result is not looked at: *)
(* what does not fit is gone.                                                 *)
Enqueue(t) ==
  LET objs == call[t].objs
      used == Len(store) + (IF Stack THEN 0 ELSE InTransit)
  IN /\ At(t, "enqueue")
     /\ IF used + Len(objs) > Capacity
        THEN call' = [call EXCEPT ![t] = Idle] /\ UNCHANGED store
        ELSE IF Stack
        THEN call' = [call EXCEPT ![t] = Idle] /\ store' = store \o objs
        ELSE call' = [call EXCEPT ![t].pc = "publish"] /\ UNCHANGED store
     /\ UNCHANGED <<mp, cache, held>>

Publish(t) ==
  /\ At(t, "publish")
  /\ store' = store \o call[t].objs
  /\ call' = [call EXCEPT ![t] = Idle]
  /\ UNCHANGED <<mp, cache, held>>

-----------------------------------------------------------------------------
(* __mempool_generic_get *)

GetPassesCache(t, n) == ~rte_mempool_default_cache(t) \/ n >= CacheSize

Get(t, n) ==
  /\ At(t, "idle")
  /\ IF ~GetPassesCache(t, n) /\ n <= Len(cache[t])
     THEN /\ held' = [held EXCEPT ![t] = @ \o Last(cache[t], n)]
          /\ cache' = [cache EXCEPT ![t] = Take(@, Len(@) - n)]
          /\ UNCHANGED call
     ELSE /\ call' = [call EXCEPT ![t].n = n,
                        ![t].pc = IF GetPassesCache(t, n) THEN "direct" ELSE "backfill"]
          /\ UNCHANGED <<held, cache>>
  /\ UNCHANGED <<mp, store>>

(* rte_mempool_ops_dequeue_bulk of req objects, which the call then holds  *)
(* at pc; otherwise it goes on from failed.                                *)
Dequeue(t, req, pc, failed) ==
  /\ IF req > Len(store)
     THEN call' = [call EXCEPT ![t] = failed] /\ UNCHANGED store
     ELSE /\ call' = [call EXCEPT ![t].pc = pc,
                        ![t].objs = IF Stack THEN Last(store, req) ELSE Take(store, req)]
          /\ store' = IF Stack THEN Take(store, Len(store) - req) ELSE Drop(store, req)
  /\ UNCHANGED <<mp, cache, held>>

(* The request and what fills the cache. *)
Wanted(t) == call[t].n + (CacheSize - Len(cache[t]))

Backfill(t) ==
  /\ At(t, "backfill")
  /\ Dequeue(t, Wanted(t), "fill", [call[t] EXCEPT !.pc = "direct"])

Fill(t) ==
  LET full == cache[t] \o call[t].objs IN
  /\ At(t, "fill")
  /\ held' = [held EXCEPT ![t] = @ \o Last(full, call[t].n)]
  /\ cache' = [cache EXCEPT ![t] = Take(full, Len(full) - call[t].n)]
  /\ call' = [call EXCEPT ![t] = Idle]
  /\ UNCHANGED <<mp, store>>

Direct(t) == At(t, "direct") /\ Dequeue(t, call[t].n, "return", Idle)

Return(t) ==
  /\ At(t, "return")
  /\ held' = [held EXCEPT ![t] = @ \o call[t].objs]
  /\ call' = [call EXCEPT ![t] = Idle]
  /\ UNCHANGED <<mp, store, cache>>

-----------------------------------------------------------------------------
Next ==
  \E t \in Threads :
    \/ \E n \in 1..MaxBulk : Put(t, n) \/ Get(t, n)
    \/ Spill(t) \/ Flush(t) \/ Enqueue(t) \/ Publish(t)
    \/ Backfill(t) \/ Fill(t) \/ Direct(t) \/ Return(t)

Spec == Init /\ [][Next]_vars

-----------------------------------------------------------------------------
(* Where objects are: the store, a cache, a thread's hands, a call in progress. *)
Store == <<"store", "pool_data">>
Places == {Store} \cup ({"cache"} \X Lcores) \cup ({"held", "call"} \X Threads)

Where == [x \in Places |->
  CASE x[1] = "store" -> store
    [] x[1] = "cache" -> cache[x[2]]
    [] x[1] = "held"  -> held[x[2]]
    [] x[1] = "call"  -> call[x[2]].objs]

(* Every object is in one place and there once. None is lost in an enqueue *)
(* whose failure nobody looks at ("adding in mempool always success"), and *)
(* none is given to two threads.                                           *)
OnePlace ==
  /\ \A x \in Places : IsInjective(Where[x])
  /\ \A x, y \in Places : x # y => Range(Where[x]) \cap Range(Where[y]) = {}
  /\ \A o \in Objs : \E x \in Places : o \in Range(Where[x])

(* The most that one lcore's cache keeps from the others between its calls: *)
(* it spills at one and a half times its size.                              *)
Settled == IF CacheSize > 1 THEN (3 * CacheSize) \div 2 - 1 ELSE CacheSize

(* What a call writes into a cache stays inside objs[], which has three    *)
(* times the entries of the largest cache: also between adding the objects *)
(* and spilling them, and while a backfill lands behind what is there. It  *)
(* is never more than a cache keeps between calls and one call may add.    *)
CacheFits ==
  \A t \in Lcores :
    LET written == Len(cache[t]) + (IF At(t, "fill") THEN Len(call[t].objs) ELSE 0)
    IN written <= Settled + CacheMax /\ written <= 3 * CacheMax

(* A thread's objects: in its hands, in its call, or about to spill. *)
InUse(t) == Len(held[t]) + Len(call[t].objs)
              + (IF At(t, "spill") THEN Len(cache[t]) - CacheSize ELSE 0)

(* A get of one object fails only when all objects are in use but those    *)
(* the caches of the other lcores may keep: a pool that is larger than the *)
(* objects in use by one settled cache for each other lcore never fails.   *)
FailsOnlyWhenUsed ==
  [][\A t \in Lcores :
       At(t, "direct") /\ call[t].n = 1 /\ CacheSize > 1 /\ At(t, "idle")' =>
         MapThenSumSet(InUse, Threads) + (Cardinality(Lcores) - 1) * Settled >= PoolSize]_vars
=============================================================================
