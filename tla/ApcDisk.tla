------------------------------ MODULE ApcDisk ------------------------------
(***************************************************************************)
(* The disk tier of the prefix cache (apc/disk_store): the generation      *)
(* thread queues shards of cache blocks, writer threads write them, index  *)
(* their blocks and evict old shards, and a restart rebuilds the index     *)
(* from the files.  A shard file is named by the hash of its blocks, so it *)
(* is the same file whenever the same blocks are stored.  Left out are a   *)
(* store of more blocks than one shard takes, the temporary files, which   *)
(* are neither counted nor indexed, the exact-cache files, and which of    *)
(* the files is the oldest: the order of eviction is left to choice.       *)
(***************************************************************************)
EXTENDS Integers, Sequences, FiniteSets, FiniteSetsExt

CONSTANTS
    Hashes,        \* hashes of blocks
    Prefixes,      \* the prompts: the hashes of their blocks
    Shards,        \* the shards: what a prompt may lack of its blocks
    BlocksOf,        \* the blocks of each shard
    Size,          \* bytes of its file
    Writers,       \* writer threads, num_workers
    DiskCap,       \* max_bytes
    DiskTarget,    \* int(max_bytes * _EVICT_LOW_WATERMARK)
    DiskQueue,     \* maxsize of the write queue
    NoShard,
    DiskFaults,    \* kinds of faults that may happen
    MaxDiskFaults, \* bound: how many do
    MaxStores      \* bound: how many shards are stored

DiskFaultKinds == {"save", "unlink", "crash"}

ASSUME ShardsAssumption ==
    /\ IsFiniteSet(Shards) /\ IsFiniteSet(Hashes) /\ NoShard \notin Shards
    /\ Prefixes \subseteq SUBSET Hashes
    /\ BlocksOf \in [Shards -> SUBSET Hashes] /\ Size \in [Shards -> Nat \ {0}]

ASSUME CapAssumption ==
    /\ DiskCap \in Nat /\ DiskTarget \in 0 .. DiskCap /\ DiskQueue \in Nat \ {0}
    /\ Writers # {} /\ DiskFaults \subseteq DiskFaultKinds
    /\ MaxDiskFaults \in Nat /\ MaxStores \in Nat

VARIABLES
    files,      \* the shards whose file exists
    index,      \* _index
    inFlight,   \* the keys of _in_flight
    wq,         \* _q: the shards to write
    wpc, item,  \* each writer: where it is, the shard it has
    seen,       \* the _disk_bytes that a += has read
    victims,    \* candidates of _maybe_evict that are left
    victim,     \* the one whose file it has just unlinked
    diskBytes,  \* _disk_bytes
    dedup,      \* the shard whose file a store found, before the setdefault
    stores,     \* bound: shards stored so far
    diskFaults, \* bound: faults so far
    mishaps     \* history: what disturbed the store

evicting == <<victims, victim>>
writers == <<wpc, item, seen, evicting, diskBytes>>
diskVars == <<files, index, inFlight, wq, wpc, item, seen,
              victims, victim, diskBytes, dedup, stores, diskFaults, mishaps>>

WriterSteps == {"idle", "write", "count", "add", "index", "evict", "unlink",
                "unindex", "finish"}

ShardSet(s) == {s[i] : i \in DOMAIN s}

\* The counts of bytes, seen and diskBytes, are left to CountCoversFiles.
DiskTypeOK ==
    /\ files \subseteq Shards
    /\ index \in [Hashes -> Shards \cup {NoShard}] /\ inFlight \subseteq Hashes
    /\ wq \in Seq(Shards) /\ Len(wq) <= DiskQueue
    /\ wpc \in [Writers -> WriterSteps]
    /\ item \in [Writers -> Shards \cup {NoShard}]
    /\ victims \in [Writers -> SUBSET Shards]
    /\ victim \in [Writers -> Shards \cup {NoShard}]
    /\ dedup \in Shards \cup {NoShard} /\ stores \in Nat /\ diskFaults \in Nat
    /\ mishaps \subseteq DiskFaultKinds \cup {"dedup"}

DiskInit ==
    /\ files = {}
    /\ index = [h \in Hashes |-> NoShard] /\ inFlight = {} /\ wq = <<>>
    /\ wpc = [w \in Writers |-> "idle"] /\ item = [w \in Writers |-> NoShard]
    /\ seen = [w \in Writers |-> 0] /\ victims = [w \in Writers |-> {}]
    /\ victim = [w \in Writers |-> NoShard]
    /\ diskBytes = 0 /\ dedup = NoShard /\ stores = 0 /\ diskFaults = 0
    /\ mishaps = {}

BytesOf(S) == MapThenSumSet(LAMBDA s : Size[s], S)

Fault(kind) ==
    /\ kind \in DiskFaults /\ diskFaults < MaxDiskFaults
    /\ diskFaults' = diskFaults + 1 /\ mishaps' = mishaps \cup {kind}

NoFault == UNCHANGED <<diskFaults, mishaps>>

-----------------------------------------------------------------------------
(* The generation thread.                                                  *)

QueueHasRoom == Len(wq) < DiskQueue

\* The manager stores blocks that are not indexed; _enqueue_shard looks for
\* the file, else marks the blocks and queues the shard, or drops it.
SaveShard(s) ==
    /\ dedup = NoShard /\ stores < MaxStores
    /\ BlocksOf[s] # {}
    /\ \E p \in Prefixes : BlocksOf[s] = {h \in p : index[h] = NoShard}
    /\ stores' = stores + 1
    /\ \/ /\ s \in files
          /\ dedup' = s
          /\ UNCHANGED <<inFlight, wq>>
       \/ /\ s \notin files /\ QueueHasRoom
          /\ inFlight' = inFlight \cup BlocksOf[s]
          /\ wq' = Append(wq, s)
          /\ UNCHANGED dedup
       \/ /\ s \notin files /\ ~QueueHasRoom
          /\ inFlight' = inFlight \ BlocksOf[s]
          /\ UNCHANGED <<wq, dedup>>
    /\ UNCHANGED <<files, index, writers>> /\ NoFault

\* setdefault, for a file that an eviction may have taken by now.
Dedup ==
    /\ dedup # NoShard
    /\ index' = [h \in Hashes |->
                   IF h \in BlocksOf[dedup] /\ index[h] = NoShard THEN dedup ELSE index[h]]
    /\ mishaps' = IF dedup \in files THEN mishaps ELSE mishaps \cup {"dedup"}
    /\ dedup' = NoShard
    /\ UNCHANGED <<files, inFlight, wq, writers, stores, diskFaults>>

-----------------------------------------------------------------------------
(* A writer thread: _writer_loop and _save_layer_major_shard.              *)

Goes(w, step) == wpc' = [wpc EXCEPT ![w] = step]

TakeItem(w) ==
    /\ wpc[w] = "idle" /\ wq # <<>>
    /\ item' = [item EXCEPT ![w] = Head(wq)] /\ wq' = Tail(wq)
    /\ Goes(w, "write")
    /\ UNCHANGED <<files, index, inFlight, seen, evicting, diskBytes, dedup, stores>>
    /\ NoFault

\* A temporary file, then os.replace.
WriteShard(w) ==
    /\ wpc[w] = "write"
    /\ files' = files \cup {item[w]}
    /\ Goes(w, "count")
    /\ UNCHANGED <<index, inFlight, wq, item, seen, evicting, diskBytes, dedup, stores>>
    /\ NoFault

\* An exception before the replace leaves at most the temporary file.
WriteFails(w) ==
    /\ wpc[w] = "write"
    /\ Fault("save")
    /\ Goes(w, "finish")
    /\ UNCHANGED <<files, index, inFlight, wq, item, seen, evicting, diskBytes, dedup, stores>>

\* _disk_bytes += ... reads, asks for the size of the file, and assigns.
Count(w) ==
    /\ wpc[w] = "count"
    /\ IF item[w] \in files
       THEN Goes(w, "add") /\ seen' = [seen EXCEPT ![w] = diskBytes]
       ELSE Goes(w, "index") /\ UNCHANGED seen
    /\ UNCHANGED <<files, index, inFlight, wq, item, evicting, diskBytes, dedup, stores>>
    /\ NoFault

\* A slip: the size of a file whose blocks are indexed is not added.
AddedIfNew(w) == IF \E h \in Hashes : index[h] = item[w] THEN 0 ELSE Size[item[w]]

\* A file that was there before is counted again.
Added(w) == Size[item[w]]

AddBytes(w) ==
    /\ wpc[w] = "add"
    /\ diskBytes' = seen[w] + Added(w)
    /\ Goes(w, "index")
    /\ UNCHANGED <<files, index, inFlight, wq, item, seen, evicting, dedup, stores>>
    /\ NoFault

IndexBlocks(w) ==
    /\ wpc[w] = "index"
    /\ index' = [h \in Hashes |-> IF h \in BlocksOf[item[w]] THEN item[w] ELSE index[h]]
    /\ Goes(w, "evict")
    /\ UNCHANGED <<files, inFlight, wq, item, seen, evicting, diskBytes, dedup, stores>>
    /\ NoFault

\* The files of blocks in flight are not evicted.
Protected == {index[h] : h \in inFlight} \ {NoShard}

EvictStart(w) ==
    /\ wpc[w] = "evict"
    /\ IF diskBytes <= DiskCap
       THEN Goes(w, "finish") /\ UNCHANGED victims
       ELSE Goes(w, "unlink") /\ victims' = [victims EXCEPT ![w] = files \ Protected]
    /\ UNCHANGED <<files, index, inFlight, wq, item, victim, seen, diskBytes, dedup, stores>>
    /\ NoFault

\* A slip: the first file is thought to be enough.
EnoughAtCap(w) == diskBytes <= DiskCap + 1 \/ victims[w] = {}

EnoughFreed(w) == diskBytes <= DiskTarget \/ victims[w] = {}

\* unlink and the bytes; an unlink that fails goes on with the next file.
EvictOne(w) ==
    /\ wpc[w] = "unlink" /\ ~EnoughFreed(w)
    /\ \E s \in victims[w] :
          /\ victims' = [victims EXCEPT ![w] = @ \ {s}]
          /\ \/ /\ s \in files
                /\ files' = files \ {s} /\ diskBytes' = diskBytes - Size[s]
                /\ victim' = [victim EXCEPT ![w] = s]
                /\ Goes(w, "unindex") /\ NoFault
             \/ /\ IF s \in files THEN Fault("unlink") ELSE NoFault
                /\ UNCHANGED <<files, diskBytes, victim, wpc>>
    /\ UNCHANGED <<index, inFlight, wq, item, seen, dedup, stores>>

EvictEnds(w) ==
    /\ wpc[w] = "unlink" /\ EnoughFreed(w)
    /\ victims' = [victims EXCEPT ![w] = {}]
    /\ Goes(w, "finish")
    /\ UNCHANGED <<files, index, inFlight, wq, item, victim, seen, diskBytes, dedup, stores>>
    /\ NoFault

\* A slip: blocks that are wanted again keep their entry.
IndexWithoutIdle(s) ==
    [h \in Hashes |-> IF index[h] = s /\ (\A x \in Shards \ {s} : h \notin BlocksOf[x])
                      THEN NoShard ELSE index[h]]

IndexWithout(s) == [h \in Hashes |-> IF index[h] = s THEN NoShard ELSE index[h]]

DropIndex(w) ==
    /\ wpc[w] = "unindex"
    /\ index' = IndexWithout(victim[w])
    /\ victim' = [victim EXCEPT ![w] = NoShard]
    /\ Goes(w, "unlink")
    /\ UNCHANGED <<files, inFlight, wq, item, victims, seen, diskBytes, dedup, stores>>
    /\ NoFault

\* A slip: the blocks of a shard that could not be written are forgotten.
SettledIfWritten(w) == IF item[w] \in files THEN BlocksOf[item[w]] ELSE {}

Settled(w) == BlocksOf[item[w]]

\* The finally clause, whatever happened.
Finish(w) ==
    /\ wpc[w] = "finish"
    /\ inFlight' = inFlight \ Settled(w)
    /\ item' = [item EXCEPT ![w] = NoShard]
    /\ Goes(w, "idle")
    /\ UNCHANGED <<files, index, wq, seen, evicting, diskBytes, dedup, stores>>
    /\ NoFault

Write(w) == \/ TakeItem(w) \/ WriteShard(w) \/ Count(w) \/ AddBytes(w)
            \/ IndexBlocks(w) \/ EvictStart(w) \/ EvictOne(w) \/ EvictEnds(w)
            \/ DropIndex(w) \/ Finish(w)

-----------------------------------------------------------------------------
(* The process ends at any point, and the next one scans the directory.    *)

\* A file that cannot be read is counted before it is removed.
Restart ==
    /\ Fault("crash")
    /\ \E unread \in SUBSET files :
          LET read == files \ unread IN
          /\ Cardinality(unread) <= 1
          /\ files' = read
          /\ index' \in {ix \in [Hashes -> read \cup {NoShard}] :
                \A h \in Hashes :
                    IF ix[h] = NoShard THEN \A s \in read : h \notin BlocksOf[s]
                    ELSE h \in BlocksOf[ix[h]]}
    /\ diskBytes' = BytesOf(files)
    /\ inFlight' = {} /\ wq' = <<>> /\ dedup' = NoShard
    /\ wpc' = [w \in Writers |-> "idle"] /\ item' = [w \in Writers |-> NoShard]
    /\ seen' = [w \in Writers |-> 0] /\ victims' = [w \in Writers |-> {}]
    /\ victim' = [w \in Writers |-> NoShard]
    /\ UNCHANGED stores

DiskNext ==
    \/ \E s \in Shards : SaveShard(s)
    \/ Dedup
    \/ \E w \in Writers : Write(w) \/ WriteFails(w)
    \/ Restart

DiskSpec == DiskInit /\ [][DiskNext]_diskVars

\* A writer goes on with what it has and takes what is queued.
DiskFairness == \A w \in Writers : WF_diskVars(Write(w))

-----------------------------------------------------------------------------
(* Properties.                                                             *)

\* The shards that wait for a writer, or that one is writing.
Unwritten == (ShardSet(wq) \cup {item[w] : w \in Writers}) \ {NoShard}

\* A lookup that waits for a block in flight waits for a write to come: no
\* block stays in flight when its shard was dropped, failed or written.
InFlightIsPending == inFlight \subseteq UNION {BlocksOf[s] : s \in Unwritten}

\* With one writer _disk_bytes never falls below the bytes of the files, but
\* for the file just written, however often a shard is written again, evicted
\* or found unreadable at the start: the cap is not overrun unnoticed.
CountCoversFiles ==
    diskBytes + MapThenSumSet(LAMBDA w : IF wpc[w] \in {"count", "add"}
                                        THEN Size[item[w]] ELSE 0, Writers)
        >= BytesOf(files)

\* Once all shards are written the files are within max_bytes, unless a write
\* or an unlink failed or the process has just started.  max_bytes may be any
\* positive number and a writer does not evict what it has just written, so one
\* shard that is larger may be left, but then alone.
AtRestWithinCap ==
    (\A w \in Writers : wpc[w] = "idle") /\ wq = <<>> /\ mishaps \subseteq {"dedup"}
        => BytesOf(files) <= DiskCap \/ \E s \in Shards : files = {s}

\* What the index names is there, but for the file that is being evicted and
\* until a store found a file that was evicted before it could index it.
IndexLeadsToFile ==
    "dedup" \notin mishaps =>
        \A h \in Hashes :
            index[h] # NoShard =>
                \/ index[h] \in files
                \/ \E w \in Writers : wpc[w] = "unindex" /\ index[h] = victim[w]

\* Every block in flight comes to its end: its event is set.
WritesSettle == \A h \in Hashes : h \in inFlight ~> h \notin inFlight

=============================================================================
