----------------------------- MODULE BlobStore ------------------------------
(***************************************************************************)
(* The life of blob sidecars: the pool stores them (pool/mod.rs), the disk *)
(* store keeps them in an LRU cache and in files and deletes them later    *)
(* (blobstore/disk.rs), the tracker remembers the blob transactions of     *)
(* canonical blocks (blobstore/tracker.rs) and the pool's maintenance task *)
(* deletes the finalized ones and re-injects the reorged ones              *)
(* (maintain.rs).                                                          *)
(*                                                                         *)
(* The pool, the store and the cleanup have locks of their own and run on  *)
(* different threads, so the steps between two locks are actions.          *)
(***************************************************************************)
EXTENDS Naturals, Sequences, FiniteSets, SequencesExt

CONSTANTS Blobs,           \* blob transactions, by hash
          CacheSize,       \* max_cached_entries
          MaxBlocks,       \* bound on the chain
          MaxReorgs,       \* bound on reorgs
          MaxAdds          \* bound on transactions received

VARIABLES pool,        \* blob transactions in the pool
          adding,      \* sidecars on their way: t -> "cache" (not in the cache yet) or "file"
          discarding,  \* removed from the pool, to be marked as deleted
          cache,       \* blob_cache, the most recently used last
          files,       \* sidecars on disk
          toDelete,    \* txs_to_delete
          cleaning,    \* taken by a running cleanup
          cleanups,    \* cleanup tasks spawned
          len,         \* size_tracker.num_blobs
          chain,       \* canonical blocks, each with its blob transactions
          events,      \* canonical state notifications
          final,       \* the client's finalized block
          pc,          \* the maintenance loop: "top", "select" or "await"
          lastFinal,   \* FinalizedBlockTracker
          tracked,     \* blob_txs_in_blocks
          injected,    \* reorged transactions the task waits for
          missing,     \* reorged transactions whose stored sidecar was gone
          reorgs, adds,
          returned,    \* history: in the pool again with a deletion of its old sidecar to come
          dropped      \* history: gone from the pool with no one to delete its sidecar

store == <<cache, files, toDelete, cleaning, cleanups, len>>
node == <<chain, events, final, reorgs>>
task == <<pc, lastFinal, tracked, injected, missing>>
history == <<returned, dropped>>
vars == <<pool, adding, discarding, store, node, task, adds, history>>

CONSTANT Absent
-----------------------------------------------------------------------------
\* DiskFileBlobStore.

LruInsert(c, t) ==
  LET d == Append(SelectSeq(c, LAMBDA x : x # t), t)
  IN  IF Len(d) > CacheSize THEN Tail(d) ELSE d

Stored(t) == Contains(cache, t) \/ t \in files

\* get_one: a sidecar read from its file enters the cache.
GetOne(c, t) == IF Contains(c, t) \/ t \in files THEN LruInsert(c, t) ELSE c

\* delete_all: what exists is marked, and stays until the cleanup.
DeleteAll(S) ==
  /\ toDelete' = toDelete \cup {t \in S : Stored(t)}
  /\ files' = files

\* insert_one: first the cache, then the file unless there is one.
InsertCache(t) ==
  /\ adding[t] = "cache"
  /\ cache' = LruInsert(cache, t)
  /\ adding' = [adding EXCEPT ![t] = "file"]
  /\ UNCHANGED <<pool, discarding, files, toDelete, cleaning, cleanups, len, node, task, adds, history>>

InsertFile(t) ==
  /\ adding[t] = "file"
  /\ files' = files \cup {t}
  /\ len' = len + 1
  /\ adding' = [adding EXCEPT ![t] = Absent]
  /\ UNCHANGED <<pool, discarding, cache, toDelete, cleaning, cleanups, node, task, adds, history>>

\* cleanup, as a task of its own: it takes the marked sidecars, then removes
\* their files.
CleanupTake ==
  /\ cleanups > 0 /\ cleaning = {}
  /\ IF toDelete = {} THEN cleanups' = cleanups - 1 ELSE UNCHANGED cleanups
  /\ cleaning' = toDelete
  /\ toDelete' = {}
  /\ UNCHANGED <<pool, adding, discarding, cache, files, len, node, task, adds, history>>

CleanupRemove ==
  /\ cleaning # {}
  /\ files' = files \ cleaning
  /\ len' = LET n == Cardinality(cleaning \cap files) IN IF n > len THEN 0 ELSE len - n
  /\ cleaning' = {}
  /\ cleanups' = cleanups - 1
  /\ UNCHANGED <<pool, adding, discarding, cache, toDelete, node, task, adds, history>>
-----------------------------------------------------------------------------
\* PoolInner.

Mined(t) == \E i \in 1..Len(chain) : t \in chain[i]
Marked == toDelete \cup cleaning \cup discarding

\* Transactions enter the pool, others are dropped: which of them enter with the
\* deletion of an earlier sidecar still to come.
Enters(S, out) == /\ returned' = (returned \ S) \cup (S \cap Marked)
                  /\ dropped' = (dropped \ S) \cup out

\* add_transaction: the pool first, the sidecar after the pool's lock.  One sidecar
\* of a transaction is being stored at a time.
AddTransaction(t) ==
  /\ adds < MaxAdds /\ t \notin pool /\ adding[t] = Absent /\ ~Mined(t)
  /\ pool' = pool \cup {t}
  /\ adding' = [adding EXCEPT ![t] = "cache"]
  /\ adds' = adds + 1
  /\ Enters({t}, {})
  /\ UNCHANGED <<discarding, store, node, task>>

\* The pool discards a transaction (a limit, a replacement, a nonce that was
\* used), and its sidecar is marked after the pool's lock.
Discard(t) ==
  /\ t \in pool
  /\ pool' = pool \ {t}
  /\ discarding' = discarding \cup {t}
  /\ Enters({}, {x \in {t} : adding[x] # Absent})
  /\ UNCHANGED <<adding, store, node, task, adds>>

DeleteDiscarded(t) ==
  /\ t \in discarding
  /\ discarding' = discarding \ {t}
  /\ DeleteAll({t})
  /\ UNCHANGED <<pool, adding, cache, cleaning, cleanups, len, node, task, adds, history>>

\* A peer asks for a pooled transaction.
GetPooled(t) ==
  /\ t \in pool
  /\ cache' = GetOne(cache, t)
  /\ UNCHANGED <<pool, adding, discarding, files, toDelete, cleaning, cleanups, len, node, task, adds, history>>
-----------------------------------------------------------------------------
\* The node: new blocks include transactions of the pool, a reorg replaces the
\* last blocks by others, and blocks are finalized.

Commit ==
  /\ Len(chain) < MaxBlocks
  /\ \E S \in SUBSET {t \in pool : ~Mined(t)} :
       /\ chain' = Append(chain, S)
       /\ events' = Append(events, [old |-> {}, number |-> Len(chain) + 1, new |-> <<S>>])
  /\ UNCHANGED <<pool, adding, discarding, store, final, reorgs, task, adds, history>>

\* TreeState::on_new_head: the new chain is not lower than the old one.
Reorg ==
  /\ reorgs < MaxReorgs
  /\ \E n \in final + 1..Len(chain) :
       LET old == UNION {chain[i] : i \in n..Len(chain)}
       IN  \E new \in [1..Len(chain) - n + 1 -> SUBSET old] :
             /\ \A i, j \in DOMAIN new : i # j => new[i] \cap new[j] = {}
             /\ chain' = SubSeq(chain, 1, n - 1) \o new
             /\ events' = Append(events, [old |-> old, number |-> n, new |-> new])
  /\ reorgs' = reorgs + 1
  /\ UNCHANGED <<pool, adding, discarding, store, final, task, adds, history>>

Finalize ==
  /\ \E n \in final + 1..Len(chain) : final' = n
  /\ UNCHANGED <<pool, adding, discarding, store, chain, events, reorgs, task, adds, history>>
-----------------------------------------------------------------------------
\* The maintenance task.

\* on_finalized_block.
FinalizedBlobs(n) == UNION {tracked[i] : i \in {j \in DOMAIN tracked : j <= n}}

MaintainFinalized ==
  /\ pc = "top"
  /\ pc' = "select"
  /\ IF final > lastFinal
     THEN /\ lastFinal' = final
          /\ tracked' = [i \in {j \in DOMAIN tracked : j > final} |-> tracked[i]]
          /\ IF FinalizedBlobs(final) # {}
             THEN DeleteAll(FinalizedBlobs(final)) /\ cleanups' = cleanups + 1
             ELSE UNCHANGED <<files, toDelete, cleanups>>
          /\ returned' = returned \cup {t \in pool \cap FinalizedBlobs(final) : \E i \in 1..Len(events) : t \in events[i].old}
     ELSE UNCHANGED <<lastFinal, tracked, files, toDelete, cleanups, returned>>
  /\ UNCHANGED <<pool, adding, discarding, cache, cleaning, len, node, injected, missing, adds, dropped>>

\* A reorged transaction comes back with the sidecar that is found for it, unless
\* validation or the pool rejects it.
MaintainEvent ==
  /\ pc = "select" /\ events # <<>>
  /\ pc' = "await"
  /\ LET e == Head(events)
         new == UNION ToSet(e.new)
         pruned == e.old \ new
         found == {t \in pruned : Stored(t)}
     IN  /\ cache' = FoldLeft(GetOne, cache, SetToSeq(pruned))
         /\ missing' = missing \cup (pruned \ found)
         /\ \E ok \in SUBSET (found \ pool) :
              /\ pool' = (pool \ new) \cup ok
              /\ injected' = ok
              /\ adding' = [t \in Blobs |-> IF t \in ok THEN "cache" ELSE adding[t]]
              /\ Enters(ok, ((found \ pool) \ ok) \cup {t \in pool \cap new : adding[t] # Absent})
  /\ UNCHANGED <<discarding, files, toDelete, cleaning, cleanups, len, node, lastFinal, tracked, adds>>

Heights(e) == e.number..e.number + Len(e.new) - 1

\* Fault: a block that is already tracked at this height stays.
TrackKeepsOld(e) ==
  [i \in DOMAIN tracked \cup Heights(e) |-> IF i \in DOMAIN tracked THEN tracked[i] ELSE e.new[i - e.number + 1]]

\* add_new_chain_blocks: the blocks of the same heights are replaced.
Track(e) == [i \in DOMAIN tracked \cup Heights(e) |-> IF i \in Heights(e) THEN e.new[i - e.number + 1] ELSE tracked[i]]

\* The task waits for the re-injected transactions before it tracks the blocks.
MaintainTrack ==
  /\ pc = "await" /\ \A t \in injected : adding[t] = Absent
  /\ pc' = "top"
  /\ injected' = {}
  /\ tracked' = Track(Head(events))
  /\ events' = Tail(events)
  /\ UNCHANGED <<pool, adding, discarding, store, chain, final, lastFinal, missing, reorgs, adds, history>>

Init ==
  /\ pool = {} /\ adding = [t \in Blobs |-> Absent] /\ discarding = {}
  /\ cache = <<>> /\ files = {} /\ toDelete = {} /\ cleaning = {} /\ cleanups = 0 /\ len = 0
  /\ chain = <<>> /\ events = <<>> /\ final = 0
  /\ pc = "top" /\ lastFinal = 0 /\ tracked = <<>> /\ injected = {} /\ missing = {}
  /\ reorgs = 0 /\ adds = 0 /\ returned = {} /\ dropped = {}

Next ==
  \/ \E t \in Blobs : InsertCache(t) \/ InsertFile(t) \/ AddTransaction(t) \/ Discard(t)
                      \/ DeleteDiscarded(t) \/ GetPooled(t)
  \/ CleanupTake \/ CleanupRemove
  \/ Commit \/ Reorg \/ Finalize
  \/ MaintainFinalized \/ MaintainEvent \/ MaintainTrack

Spec == Init /\ [][Next]_vars
-----------------------------------------------------------------------------
\* A blob transaction of the pool has its sidecar on disk from the moment it is
\* stored, through mining, reorgs, finalization and the cleanups of others: peers
\* that ask for it and blocks built from it find it.  Not so of one that came back
\* while the deletion of its old sidecar was still to come, or because of a reorg
\* that the task handles after a finalization at the height of its old block.
SidecarStored == \A t \in pool \ returned : adding[t] = Absent => t \in files

\* "responsible for keeping track of blob data until it is no longer needed":
\* a file on disk belongs to a pooled transaction, to an unfinalized block or to
\* a pending deletion; none is left that nobody will delete.  Not so of a transaction
\* that left the pool before its sidecar was stored, or was reorged and rejected.
NoOrphans ==
  \A t \in files \ dropped :
     \/ t \in pool \cup Marked
     \/ \E n \in DOMAIN tracked : t \in tracked[n]
     \/ \E i \in 1..Len(events) : t \in UNION ToSet(events[i].new) \cup events[i].old

\* "Because the transactions are not finalized, the corresponding blobs are
\* still in blob store": the sidecar of a reorged transaction is found.
ReorgedFound == missing = {}

\* blobs_len: "How many blobs are in the blob store."
BlobsCounted == (\A t \in Blobs : adding[t] = Absent) => len = Cardinality(files)
=============================================================================
