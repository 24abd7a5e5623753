-------------------------------- MODULE ApcPool --------------------------------
(* The block pool of the automatic prefix cache (apc/manager.py) and the thread *)
(* that uses it (generate/batch): a batch of prompts is looked up block by      *)
(* block, prefilled, harvested into the pool and released.  Every method of the *)
(* pool runs under its lock; the loops inside a method are steps here, so that  *)
(* what is left behind when one of them raises can be seen.                     *)
EXTENDS Integers, Sequences, FiniteSets

CONSTANTS NumBlocks,  \* the size of the pool
          Keys,       \* chained hashes of full blocks of prompts
          NoKey,      \* block_hash None
          Prompts,    \* prompts, as the keys of their full blocks in order
          MaxLen,     \* full blocks of the longest prompt (a bound)
          NumRows,    \* prefill_batch_size
          HashLimit,  \* hashed blocks the tensor limit of the device allows
          DiskTier,   \* the pool has a disk tier, as the one from_env makes
          Faults,     \* the disturbances considered
          LeakBound   \* references a block may have when a batch is dropped
                      \* (a bound)

ASSUME ConstantsAssumption ==
  /\ NumBlocks \in Nat \ {0} /\ NumRows \in Nat \ {0} /\ MaxLen \in Nat
  /\ HashLimit \in Nat /\ LeakBound \in Nat /\ NoKey \notin Keys
  /\ DiskTier \in BOOLEAN
  /\ Prompts \subseteq {p \in Seq(Keys) : Len(p) <= MaxLen}
  /\ Faults \subseteq {"remove", "raise", "harvest", "reset"}

Blocks == 1 .. NumBlocks
Nil    == 0                     \* None, of a link or of a table entry
Rows   == 1 .. NumRows
Slots  == Rows \X (1 .. MaxLen) \* a row and the position of a block in it

VARIABLES ref,    \* ref[b]: b.ref_cnt
          hash,   \* hash[b]: b.block_hash, and the tokens that go with it
          table,  \* hash_table: key -> block
          head, tail, prev, next, \* the free queue
          pc, row, pos,           \* where the generation thread is
          lock,   \* the thread is inside a method of the pool
          prompt, \* prompt[r]: the prompt of row r of the batch
          meta,   \* meta[<<r, i>>]: the block recorded for position i of row r
          prefix, \* prefix[r]: how many of them the lookup returned
          skip,   \* skip[r]: the full blocks of row r that are not harvested
          held    \* history: the slots the thread has yet to release

links == <<head, tail, prev, next>>
pool  == <<ref, hash, table, links>>
batch == <<prompt, meta, prefix, skip, held>>
vars  == <<pool, pc, row, pos, lock, batch>>

NoRow == <<>>

\* What __init__ builds and clear() builds again: every block in pool order.
NoRefs    == [b \in Blocks |-> 0]
NoHashes  == [b \in Blocks |-> NoKey]
NoEntries == [k \in Keys |-> Nil]
PoolPrev  == [b \in Blocks |-> b - 1]
PoolNext  == [b \in Blocks |-> IF b = NumBlocks THEN Nil ELSE b + 1]

NoBlocks == [s \in Slots |-> Nil]

Init ==
  /\ ref = NoRefs /\ hash = NoHashes /\ table = NoEntries
  /\ head = 1 /\ tail = NumBlocks /\ prev = PoolPrev /\ next = PoolNext
  /\ pc = "idle" /\ row = 1 /\ pos = 1 /\ lock = FALSE
  /\ prompt = [r \in Rows |-> NoRow]
  /\ meta = NoBlocks
  /\ prefix = [r \in Rows |-> 0] /\ skip = [r \in Rows |-> 0]
  /\ held = {}

--------------------------------------------------------------------------------
(* The free queue and the reference counts *)

\* A slip: a released block becomes the next victim.
FreePushFront(b) ==
  /\ next' = [next EXCEPT ![b] = head]
  /\ prev' = [x \in Blocks |-> IF x = head THEN b
                               ELSE IF x = b THEN Nil ELSE prev[x]]
  /\ tail' = IF head = Nil THEN b ELSE tail
  /\ head' = b

\* A slip: the block that was last is not linked to the new last one.
FreePushUnlinked(b) ==
  /\ prev' = [prev EXCEPT ![b] = tail]
  /\ next' = [next EXCEPT ![b] = Nil]
  /\ head' = IF tail = Nil THEN b ELSE head
  /\ tail' = b

FreePush(b) ==
  /\ prev' = [prev EXCEPT ![b] = tail]
  /\ next' = [x \in Blocks |-> IF x = tail THEN b
                               ELSE IF x = b THEN Nil ELSE next[x]]
  /\ head' = IF tail = Nil THEN b ELSE head
  /\ tail' = b

FreeRemove(b) ==
  /\ next' = [x \in Blocks |-> IF x = b THEN Nil
                               ELSE IF x = prev[b] THEN next[b] ELSE next[x]]
  /\ prev' = [x \in Blocks |-> IF x = b THEN Nil
                               ELSE IF x = next[b] THEN prev[b] ELSE prev[x]]
  /\ head' = IF prev[b] = Nil THEN next[b] ELSE head
  /\ tail' = IF next[b] = Nil THEN prev[b] ELSE tail

AcquireExisting(b) ==
  /\ ref' = [ref EXCEPT ![b] = @ + 1]
  /\ IF ref[b] = 0 THEN FreeRemove(b) ELSE UNCHANGED links
  /\ UNCHANGED <<hash, table>>

\* A slip: the block is queued while one more user is left.
ReleaseOneEarly(b) ==
  /\ ref' = [ref EXCEPT ![b] = IF @ <= 1 THEN 0 ELSE @ - 1]
  /\ IF ref[b] <= 2 THEN FreePush(b) ELSE UNCHANGED links
  /\ UNCHANGED <<hash, table>>

\* ref_cnt never goes below zero, but the block is queued each time.
ReleaseOne(b) ==
  /\ ref' = [ref EXCEPT ![b] = IF @ <= 1 THEN 0 ELSE @ - 1]
  /\ IF ref[b] <= 1 THEN FreePush(b) ELSE UNCHANGED links
  /\ UNCHANGED <<hash, table>>

\* A slip: the entry of the content that is thrown away stays in the table.
TableWithoutNothing(b) == table

TableWithout(b) ==
  [k \in Keys |-> IF k = hash[b] /\ table[k] = b THEN Nil ELSE table[k]]

\* _evict_lru and the stores that follow it: block b caches k, for one user.
EvictFor(b, k) ==
  /\ b = head /\ b # Nil
  /\ FreeRemove(b)
  /\ hash' = [hash EXCEPT ![b] = k]
  /\ table' = [TableWithout(b) EXCEPT ![k] = b]
  /\ ref' = [ref EXCEPT ![b] = 1]

\* The copy of the tensors raises: b is in no queue and in no table.
EvictForNothing(b) ==
  /\ b = head /\ b # Nil
  /\ FreeRemove(b)
  /\ hash' = [hash EXCEPT ![b] = NoKey]
  /\ table' = TableWithout(b)
  /\ UNCHANGED ref

Clear == /\ ref' = NoRefs /\ hash' = NoHashes /\ table' = NoEntries
         /\ head' = 1 /\ tail' = NumBlocks /\ prev' = PoolPrev /\ next' = PoolNext

--------------------------------------------------------------------------------
(* The generation thread: lookups *)

At(p, r, i, inside) == pc' = p /\ row' = r /\ pos' = i /\ lock' = inside

Here       == <<row, pos>>
Key        == prompt[row][pos]
InPrompt   == pos <= Len(prompt[row])
Found      == InPrompt /\ table[Key] # Nil
Records(b) == /\ meta' = [meta EXCEPT ![Here] = b]
              /\ held' = held \cup {Here}

\* The next batch of waiting prompts; a row may stay empty.
Admit ==
  /\ pc = "idle"
  /\ \E f \in [Rows -> Prompts \cup {NoRow}]: prompt' = f
  /\ At("lookup", 1, 1, FALSE)
  /\ UNCHANGED <<pool, meta, prefix, skip, held>>

NextPick == IF row < NumRows THEN At("lookup", row + 1, 1, FALSE)
                             ELSE At("prefill", 1, 1, FALSE)

\* lookup_prefix walks the chain of keys while they are in the table.
LookupHit ==
  /\ pc = "lookup" /\ Found
  /\ AcquireExisting(table[Key])
  /\ Records(table[Key])
  /\ prefix' = [prefix EXCEPT ![row] = pos]
  /\ At("lookup", row, pos + 1, TRUE)
  /\ UNCHANGED <<prompt, skip>>

Skips(n) == skip' = [skip EXCEPT ![row] = n]

\* The hit is used, or given up: it ends inside media, it leaves no suffix, or
\* another tier has a longer prefix.  The harvest skips what the row starts with.
LookupEnds ==
  /\ pc = "lookup" /\ ~Found
  /\ \/ prefix[row] > 0 /\ NextPick /\ Skips(prefix[row])
     \/ prefix[row] > 0 /\ At("unpick", row, 1, FALSE) /\ UNCHANGED skip
     \/ /\ prefix[row] = 0 /\ NextPick
        /\ \E n \in 0 .. Len(prompt[row]): Skips(n)
  /\ UNCHANGED <<pool, prompt, meta, prefix, held>>

Unpick ==
  /\ pc = "unpick"
  /\ ReleaseOne(meta[Here])
  /\ meta' = [meta EXCEPT ![Here] = Nil]
  /\ held' = held \ {Here}
  /\ \/ /\ pos < prefix[row]
        /\ At("unpick", row, pos + 1, TRUE)
        /\ UNCHANGED <<prefix, skip>>
     \/ /\ pos = prefix[row]
        /\ NextPick
        /\ prefix' = [prefix EXCEPT ![row] = 0]
        /\ \E n \in {0} \cup (pos .. Len(prompt[row])): Skips(n)
  /\ UNCHANGED prompt

--------------------------------------------------------------------------------
(* The generation thread: the prefill and the harvest of its blocks *)

BatchEnds ==
  /\ At("idle", 1, 1, FALSE)
  /\ prompt' = [r \in Rows |-> NoRow]
  /\ meta' = NoBlocks
  /\ prefix' = [r \in Rows |-> 0] /\ skip' = [r \in Rows |-> 0]
  /\ held' = {}

Prefilled ==
  /\ pc = "prefill"
  /\ At("store", 1, skip[1] + 1, FALSE)
  /\ UNCHANGED <<pool, batch>>

\* A cache without prepare() or finalize(): every row is released.
CacheRefused ==
  /\ pc = "prefill"
  /\ At("cleanup", 1, 1, FALSE)
  /\ UNCHANGED <<pool, batch>>

Hashed == {k \in Keys : table[k] # Nil}
HasRoom == head # Nil /\ Cardinality(Hashed) < HashLimit

\* store_kv_blocks: a block another request has stored meanwhile is shared.
StoreShared ==
  /\ pc = "store" /\ Found
  /\ AcquireExisting(table[Key])
  /\ Records(table[Key])
  /\ At("store", row, pos + 1, TRUE)
  /\ UNCHANGED <<prompt, prefix, skip>>

StoreNew ==
  /\ pc = "store" /\ InPrompt /\ ~Found /\ HasRoom
  /\ EvictFor(head, Key)
  /\ Records(head)
  /\ At("store", row, pos + 1, TRUE)
  /\ UNCHANGED <<prompt, prefix, skip>>

\* With a disk tier a full pool is passed over: the block goes to the disk only,
\* and one of the prompt's later blocks may be found in the pool again.
StoreSkips ==
  /\ DiskTier
  /\ pc = "store" /\ InPrompt /\ ~Found /\ ~HasRoom
  /\ At("store", row, pos + 1, TRUE)
  /\ UNCHANGED <<pool, batch>>

\* Out of prompt, nothing to store as the cache kept no keys, or, for a pool of
\* its own, out of blocks.
StoreEnds ==
  /\ pc = "store"
  /\ \/ ~InPrompt
     \/ ~DiskTier /\ ~Found /\ ~HasRoom
     \/ ~lock
  /\ At("release", row, 1, FALSE)
  /\ UNCHANGED <<pool, batch>>

MayLeak == \A b \in Blocks: ref[b] <= LeakBound

\* The copy of a block's tensors raises: the blocks stored so far for this
\* row are forgotten and every row's prefix is released.
StoreRaises ==
  /\ "harvest" \in Faults
  /\ pc = "store" /\ InPrompt /\ ~Found /\ HasRoom
  /\ MayLeak
  /\ EvictForNothing(head)
  /\ At("cleanup", 1, 1, FALSE)
  /\ UNCHANGED batch

\* release() of the row's prefix and of what was harvested for it, in order; a
\* position without a block is in neither list.
Release ==
  /\ pc = "release" /\ InPrompt /\ meta[Here] # Nil
  /\ ReleaseOne(meta[Here])
  /\ held' = held \ {Here}
  /\ At("release", row, pos + 1, TRUE)
  /\ UNCHANGED <<prompt, meta, prefix, skip>>

ReleasePasses ==
  /\ pc = "release" /\ InPrompt /\ meta[Here] = Nil
  /\ At("release", row, pos + 1, TRUE)
  /\ UNCHANGED <<pool, batch>>

ReleaseEnds ==
  /\ pc = "release" /\ ~InPrompt
  /\ IF row < NumRows
     THEN At("store", row + 1, skip[row + 1] + 1, FALSE) /\ UNCHANGED batch
     ELSE BatchEnds
  /\ UNCHANGED pool

\* The prefixes of all rows, the ones that were released before included.
Cleanup ==
  /\ pc = "cleanup" /\ pos <= prefix[row]
  /\ ReleaseOne(meta[Here])
  /\ held' = held \ {Here}
  /\ At("cleanup", row, pos + 1, TRUE)
  /\ UNCHANGED <<prompt, meta, prefix, skip>>

CleanupEnds ==
  /\ pc = "cleanup" /\ pos > prefix[row]
  /\ IF row < NumRows
     THEN At("cleanup", row + 1, 1, FALSE) /\ UNCHANGED batch
     ELSE BatchEnds
  /\ UNCHANGED pool

--------------------------------------------------------------------------------
(* Disturbances, and the clearing of the pool *)

\* remove() of the only request of the batch while it is prefilled: the batch
\* object is dropped as it is.
Remove ==
  /\ "remove" \in Faults /\ pc = "prefill"
  /\ Cardinality({r \in Rows : prompt[r] # NoRow}) <= 1
  /\ MayLeak /\ BatchEnds
  /\ UNCHANGED pool

\* Building or prefilling the batch raises: the loop drops its generator.
StepRaises ==
  /\ "raise" \in Faults /\ pc = "prefill"
  /\ MayLeak /\ BatchEnds
  /\ UNCHANGED pool

\* _release_idle_kv: the thread drops its generator and clears the pool.
ReleaseIdleKv ==
  /\ pc \in {"idle", "prefill"}
  /\ Clear /\ BatchEnds

\* POST /v1/cache/reset: the server's thread clears the pool.
Reset ==
  /\ "reset" \in Faults /\ ~lock
  /\ Clear
  /\ UNCHANGED <<pc, row, pos, lock, batch>>

Next ==
  \/ Admit \/ LookupHit \/ LookupEnds \/ Unpick
  \/ Prefilled \/ CacheRefused
  \/ StoreShared \/ StoreNew \/ StoreSkips \/ StoreEnds \/ StoreRaises
  \/ Release \/ ReleasePasses \/ ReleaseEnds \/ Cleanup \/ CleanupEnds
  \/ Remove \/ StepRaises \/ ReleaseIdleKv \/ Reset

Spec == Init /\ [][Next]_vars

--------------------------------------------------------------------------------
(* Properties *)

TypeOK ==
  /\ ref \in [Blocks -> Nat]
  /\ hash \in [Blocks -> Keys \cup {NoKey}]
  /\ table \in [Keys -> Blocks \cup {Nil}]
  /\ head \in Blocks \cup {Nil} /\ tail \in Blocks \cup {Nil}
  /\ prev \in [Blocks -> Blocks \cup {Nil}]
  /\ next \in [Blocks -> Blocks \cup {Nil}]
  /\ pc \in {"idle", "lookup", "unpick", "prefill", "store", "release",
             "cleanup"}
  /\ row \in Rows /\ pos \in 1 .. MaxLen + 1 /\ lock \in BOOLEAN
  /\ prompt \in [Rows -> Prompts \cup {NoRow}]
  /\ meta \in [Slots -> Blocks \cup {Nil}]
  /\ prefix \in [Rows -> 0 .. MaxLen] /\ skip \in [Rows -> 0 .. MaxLen]
  /\ held \subseteq Slots

\* The free queue read from its head along the links: it ends within the pool,
\* holds each block without a user once and no other, and tail is its end.
Walk == [i \in 0 .. NumBlocks |->
           LET f[j \in 0 .. NumBlocks] ==
                 IF j = 0 THEN head
                 ELSE IF f[j - 1] = Nil THEN Nil ELSE next[f[j - 1]]
           IN  f[i]]
QueueLength == Cardinality({i \in 0 .. NumBlocks : Walk[i] # Nil})
FreeQueue   == [i \in 1 .. QueueLength |-> Walk[i - 1]]
Queued      == {FreeQueue[i] : i \in 1 .. QueueLength}

QueueIsFree ==
  /\ Walk[NumBlocks] = Nil
  /\ Cardinality(Queued) = QueueLength
  /\ Queued = {b \in Blocks : ref[b] = 0}
  /\ tail = IF QueueLength = 0 THEN Nil ELSE FreeQueue[QueueLength]

Holders(b) == {s \in held : meta[s] = b}

\* A block that some request still holds has a reference for each of its holders.
RefsCoverHolders == \A b \in Blocks: ref[b] >= Cardinality(Holders(b))

\* Until it is released a block keeps the content it was acquired for: eviction
\* never takes it and nothing else is stored in it.
KeptAlive == \A s \in held: /\ meta[s] # Nil
                            /\ hash[meta[s]] = prompt[s[1]][s[2]]

\* The table leads from a key to the one block that caches it, and to every
\* block that caches something: a lookup never returns other content.
LookupIsExact ==
  /\ \A k \in Keys: table[k] # Nil => hash[table[k]] = k
  /\ \A b \in Blocks: hash[b] # NoKey => table[hash[b]] = b

\* A reference exists only for a request that will release it.
AcquiredIsReleased == \A b \in Blocks: ref[b] = Cardinality(Holders(b))

\* The linked blocks and the table implement the queue and the uses of LruCache.
Lru == INSTANCE LruCache
         WITH users <- ref, content <- hash, free <- FreeQueue
ImplementsLru == Lru!Spec
================================================================================
