--------------------------- MODULE StateHistory ---------------------------
(***************************************************************************)
(* The history of the state: reth/crates/storage/provider and prune.       *)
(* The plain tables hold the newest value of every key, the change sets    *)
(* the value each block overwrote, and the history tables, in shards of    *)
(* bounded length, the blocks that changed each key.  Blocks are written   *)
(* one by one (engine) or in a batch (pipeline), removed from the top, and *)
(* pruned from the bottom by a pruner that may be interrupted.             *)
(*                                                                         *)
(* The value a block gives a key is the stamp of that block, 0 is None or  *)
(* zero.  Every transaction of the database is one action.                 *)
(***************************************************************************)
EXTENDS Integers, Sequences, FiniteSets, FiniteSetsExt

CONSTANTS Accounts, Slots, \* keys of the two plain tables
          Holder,          \* the account that owns the slots
          Order,           \* the keys in the order of the tables
          Contents,        \* what a block may do: [sets, wipes]
          ShardSize,       \* NUM_OF_INDICES_IN_SHARD
          Distance,        \* segment -> blocks kept by its PruneMode::Distance
          Limit,           \* rows of a table one run may delete
          ZeroKey,         \* the key of all zero bytes
          MaxBlock, MaxMade\* bounds: height, blocks made in all

VARIABLES chain,   \* what the blocks from 0 on did: key -> stamp (ghost)
          plain,   \* PlainAccountState and PlainStorageState
          changes, \* AccountChangeSets and StorageChangeSets
          shards,  \* AccountsHistory, StoragesHistory: key -> highest -> blocks
          pruned,  \* segment -> block_number of its PruneCheckpoint, or Unset
          broken,  \* segments whose last run stopped inside a block (ghost)
          horizon, \* highest block a pruning has aimed at (ghost)
          skipped, \* segment -> block its index skipped to, the checkpoint left behind (ghost)
          dropped, \* has a backfill dropped the last shard of ZeroKey? (ghost)
          made     \* blocks made so far (ghost)

vars == <<chain, plain, changes, shards, pruned, broken, horizon, skipped, dropped, made>>

Keys == Accounts \cup Slots
Segments == {"AccountHistory", "StorageHistory"}
Last == 1000                    \* u64::MAX, the highest block of the last shard
Unset == -1
Missing == -1                   \* AccountChangesetNotFound
Refused == -2                   \* StateAtBlockPruned
Destroyed == -3                 \* RevertToSlot::Destroyed
Segment(k) == IF k \in Accounts THEN "AccountHistory" ELSE "StorageHistory"
Height == Len(chain) - 1
\* The newest value below block n, as the chain itself tells it.
ValueAt(n, k) == LET w == {i \in 1..(n + 1) : k \in DOMAIN chain[i]}
                 IN  IF w = {} THEN 0 ELSE chain[Max(w)][k]

\* A block that wipes the holder takes its slots along; what it sets it sets last.
Effect(state, c, stamp) ==
  LET cleared == IF c.wipes THEN {k \in {Holder} \cup Slots : state[k] # 0} ELSE {}
  IN  [k \in c.sets \cup cleared |-> IF k \in c.sets THEN stamp ELSE 0]
Applied(state, block) == [k \in Keys |-> IF k \in DOMAIN block THEN block[k] ELSE state[k]]
-----------------------------------------------------------------------------
\* revm's bundle of the blocks bs: what the i-th of them overwrote.  A slot that the
\* bundle wrote before is known to it; one that a wipe destroyed unseen is not.
StateBefore(bs, i) == [k \in Keys |-> LET w == {j \in 1..(i - 1) : k \in DOMAIN bs[j].new}
                                      IN  IF w = {} THEN plain[k] ELSE bs[Max(w)].new[k]]
Written(bs, i) == {s \in Slots : \E j \in 1..(i - 1) : bs[j].wipes \/ s \in DOMAIN bs[j].new}
BundleReverts(bs, i) ==
  [s \in {s \in Slots : \/ s \in bs[i].sets
                        \/ bs[i].wipes /\ s \in Written(bs, i) /\ StateBefore(bs, i)[s] # 0} |->
     IF bs[i].wipes /\ s \notin Written(bs, i) THEN Destroyed ELSE StateBefore(bs, i)[s]]
FirstWipe(bs, i) == bs[i].wipes /\ \A j \in 1..(i - 1) : ~bs[j].wipes

\* StorageRevertsIter: the reverts and the slots of the plain table in one, the
\* table's value where the bundle only knows that the slot was destroyed.
MergedReverts(reverts, wiped) ==
  [s \in DOMAIN reverts \cup DOMAIN wiped |->
     CASE s \notin DOMAIN reverts -> wiped[s]
       [] s \in DOMAIN reverts /\ reverts[s] # Destroyed -> reverts[s]
       [] s \in DOMAIN reverts /\ reverts[s] = Destroyed -> IF s \in DOMAIN wiped THEN wiped[s] ELSE 0]

\* write_state_reverts: the rows of the i-th block of a bundle whose first is first.
RevertRows(bs, i, first) ==
  LET stored == IF FirstWipe(bs, i) THEN {s \in Slots : plain[s] # 0} ELSE {}
      slots  == MergedReverts(BundleReverts(bs, i), [s \in stored |-> plain[s]])
  IN  {[block |-> first + i - 1, key |-> s, old |-> slots[s]] : s \in DOMAIN slots}
      \cup {[block |-> first + i - 1, key |-> a, old |-> StateBefore(bs, i)[a]] :
               a \in Accounts \cap DOMAIN bs[i].new}
-----------------------------------------------------------------------------
\* A history list is a set of block numbers, cut into shards of ShardSize; a shard is
\* stored under its highest block, the last one under Last.
Chunk(list, b) == {x \in list : Cardinality({y \in list : y < x}) \div ShardSize
                              = Cardinality({y \in list : y < b}) \div ShardSize}
Highest(list, chunk) == IF Max(list) \in chunk THEN Last ELSE Max(chunk)
Sharded(list) ==
  [h \in {Highest(list, Chunk(list, b)) : b \in list} |->
     Chunk(list, IF h = Last THEN Max(list) ELSE h)]
Stored(sh, h) == IF h \in DOMAIN sh THEN sh[h] ELSE {}
Without(sh, hs) == [h \in DOMAIN sh \ hs |-> sh[h]]
With(sh, more) == [h \in DOMAIN sh \cup DOMAIN more |->
                     IF h \in DOMAIN more THEN more[h] ELSE sh[h]]

\* changed_accounts_and_blocks_with_range, changed_storages_and_blocks_with_range.
Changed(rows, k, range) == {r.block : r \in {x \in rows : x.key = k /\ x.block \in range}}

\* append_history_index: the last shard is taken out and filled up.
append_history_index(sh, new) ==
  IF new = {} THEN sh
  ELSE With(Without(sh, {Last}), Sharded(Stored(sh, Last) \cup new))

\* collect_history_indices and load_history_indices.  A first sync starts from an
\* empty table; otherwise the list begins with the last shard of the table, except
\* for the key that equals the initial value of current_partial.
load_history_indices(sh, k, new) ==
  IF new = {} THEN sh
  ELSE With(sh, Sharded((IF k = ZeroKey THEN {} ELSE Stored(sh, Last)) \cup new))

\* unwind_account_history_indices, unwind_storage_history_indices: from the last shard
\* down, shards that begin at block n or later go, and what is left of the next one
\* becomes the last shard (unwind_history_shards).
unwind_history_shards(sh, n) ==
  LET gone == {h \in DOMAIN sh : Min(sh[h]) >= n}
      rest == DOMAIN sh \ gone
      left == {b \in sh[Max(rest)] : b < n}
  IN  IF Last \notin DOMAIN sh THEN sh
      ELSE IF rest = {} THEN Without(sh, gone)
      ELSE With(Without(sh, gone \cup {Max(rest)}), [h \in {Last} |-> left])
-----------------------------------------------------------------------------
\* prune_history_indices for one key: from the first shard that reaches to_block on,
\* each shard loses its blocks up to to_block.  A last shard that would be empty is
\* replaced by the shard before it, if there is one (prune_shard).
prune_history_indices(sh, to) ==
  LET seen  == {h \in DOMAIN sh : h >= to}
      empty == {h \in seen : \A b \in sh[h] : b <= to}
      below == {h \in DOMAIN sh \ empty : h < Last}
      kept  == [h \in DOMAIN sh \ empty |->
                  IF h \in seen THEN {b \in sh[h] : b > to} ELSE sh[h]]
  IN  IF Last \in empty /\ below # {}
      THEN With(Without(kept, {Max(below)}), [h \in {Last} |-> kept[Max(below)]])
      ELSE kept
-----------------------------------------------------------------------------
\* init_genesis, insert_genesis_history, insert_genesis_state: block 0 gives the
\* accounts their balances.
Init ==
  /\ chain = << [a \in Accounts |-> 1] >>
  /\ plain = [k \in Keys |-> IF k \in Accounts THEN 1 ELSE 0]
  /\ changes = {[block |-> 0, key |-> a, old |-> 0] : a \in Accounts}
  /\ shards = [k \in Keys |-> IF k \in Accounts THEN [h \in {Last} |-> {0}] ELSE [h \in {} |-> {}]]
  /\ pruned = [s \in Segments |-> Unset]
  /\ broken = {} /\ horizon = 0 /\ skipped = [s \in Segments |-> Unset] /\ dropped = FALSE /\ made = 1

\* Blocks with the contents cs on top of the plain state.
NewBlocks(cs) ==
  LET block(state, c, n) == [sets |-> c.sets, wipes |-> c.wipes, new |-> Effect(state, c, n)]
      one == block(plain, cs[1], made + 1)
  IN  IF Len(cs) = 1 THEN <<one>> ELSE <<one, block(Applied(plain, one.new), cs[2], made + 2)>>

Extend(bs) ==
  /\ Height + Len(bs) <= MaxBlock /\ made + Len(bs) <= MaxMade
  /\ chain' = chain \o [i \in 1..Len(bs) |-> bs[i].new]
  /\ made' = made + Len(bs)

\* UnifiedStorageWriter::save_blocks: write_to_storage, block by block, then
\* update_history_indices.
SaveBlock(c) ==
  \E b \in {NewBlocks(<<c>>)} : \E rows \in {changes \cup RevertRows(b, 1, Height + 1)} :
    /\ Extend(b)
    /\ plain' = Applied(plain, b[1].new)
    /\ changes' = rows
    /\ shards' = [k \in Keys |-> append_history_index(shards[k],
                                   Changed(rows, k, {Height + 1}))]
    /\ UNCHANGED <<pruned, broken, horizon, skipped, dropped>>

\* PruneMode::prune_target_block.
prune_target_block(s, tip) == IF Distance[s] > tip THEN Unset ELSE tip - Distance[s]

\* The pipeline: a bundle of blocks is written at once, then IndexAccountHistoryStage
\* and IndexStorageHistoryStage index them, except the blocks that will be pruned.  A
\* prune checkpoint is saved for these only if there is none.
Skipped(s, tip) == prune_target_block(s, tip) > Height
IndexedFrom(s, tip) == IF Skipped(s, tip) THEN prune_target_block(s, tip) ELSE Height
Backfill(cs) ==
  \E bs \in {NewBlocks(cs)} : \E tip \in {Height + Len(cs)} :
  \E rows \in {changes \cup UNION {RevertRows(bs, i, Height + 1) : i \in 1..Len(bs)}} :
    /\ Extend(bs)
    /\ plain' = [k \in Keys |-> IF k \in DOMAIN bs[Len(bs)].new THEN bs[Len(bs)].new[k]
                                ELSE StateBefore(bs, Len(bs))[k]]
    /\ changes' = rows
    /\ shards' = [k \in Keys |->
         LET from == IndexedFrom(Segment(k), tip)
             new  == Changed(rows, k, (IF from = 0 THEN 0 ELSE from + 1)..tip)
         IN  load_history_indices(IF from = 0 THEN [h \in {} |-> {}] ELSE shards[k], k, new)]
    /\ pruned' = [s \in Segments |-> IF Skipped(s, tip) /\ pruned[s] = Unset
                                     THEN prune_target_block(s, tip) ELSE pruned[s]]
    /\ skipped' = [s \in Segments |-> IF Skipped(s, tip) THEN prune_target_block(s, tip) ELSE skipped[s]]
    /\ dropped' = (dropped \/ \E from \in {IndexedFrom(Segment(ZeroKey), tip)} :
                                /\ from > 0 /\ Last \in DOMAIN shards[ZeroKey]
                                /\ Changed(rows, ZeroKey, (from + 1)..tip) # {})
    /\ horizon' = Max({horizon} \cup {prune_target_block(s, tip) : s \in {x \in Segments : Skipped(x, tip)}})
    /\ UNCHANGED broken

\* remove_block_and_execution_range: the indices are unwound by the change sets,
\* the change sets are taken and the oldest of each key goes back to the plain state.
RemoveBlocks(to) ==
  LET range == (to + 1)..Height
      taken == {r \in changes : r.block \in range}
      of(k) == Changed(changes, k, range)
  IN  /\ to \in horizon..(Height - 1)
      /\ chain' = SubSeq(chain, 1, to + 1)
      /\ plain' = [k \in Keys |-> IF of(k) = {} THEN plain[k]
                     ELSE (CHOOSE r \in taken : r.key = k /\ r.block = Min(of(k))).old]
      /\ changes' = changes \ taken
      /\ shards' = [k \in Keys |-> IF of(k) = {} THEN shards[k]
                                   ELSE unwind_history_shards(shards[k], Min(of(k)))]
      /\ UNCHANGED <<pruned, broken, horizon, skipped, dropped, made>>
-----------------------------------------------------------------------------
\* The rows of a segment in a range, and the n that a walk deletes first.
RowsIn(s, range) == {r \in changes : Segment(r.key) = s /\ r.block \in range}
Place(k) == CHOOSE i \in 1..Len(Order) : Order[i] = k
FirstRows(rows, n) ==
  {r \in rows : Cardinality({x \in rows : \/ x.block < r.block
                                          \/ x.block = r.block /\ Place(x.key) < Place(r.key)}) < n}

\* AccountHistory::prune, StorageHistory::prune on what prune_table_with_range deletes.
\* The walk is done when it finds no further row before the limit of rows or of time
\* is reached; cut short, it may have left rows of the last block it touched.
PrunedTo(deleted, done, target) ==
  IF deleted = {} THEN target
  ELSE Max({r.block : r \in deleted}) - (IF done \/ \A r \in deleted : r.block = 0 THEN 0 ELSE 1)

\* Pruner::run_with_provider for one segment: the next range, its deletion and the
\* new checkpoint.  The tip is the last block that was saved.
Prune(s) ==
  LET target == prune_target_block(s, Height)
      rows   == RowsIn(s, (pruned[s] + 1)..target)
  IN  /\ target # Unset /\ target > pruned[s]
      /\ \E n \in 0..Min({Cardinality(rows), Limit}) :
         \E done \in {FALSE} \cup {n = Cardinality(rows) /\ n < Limit} :
         \E deleted \in {FirstRows(rows, n)} : \E upTo \in {PrunedTo(deleted, done, target)} :
           /\ changes' = changes \ deleted
           /\ shards' = [k \in Keys |->
                LET mine == {r.block : r \in {x \in deleted : x.key = k}}
                IN  IF mine = {} THEN shards[k]
                    ELSE prune_history_indices(shards[k], Min({Max(mine), upTo}))]
           /\ pruned' = [pruned EXCEPT ![s] = upTo]
           /\ broken' = IF done \/ deleted = {} THEN broken \ {s} ELSE broken \cup {s}
      /\ horizon' = Max({horizon, target})
      /\ UNCHANGED <<chain, plain, skipped, dropped, made>>

Next == \/ \E c \in Contents : SaveBlock(c)
        \/ \E c \in Contents, d \in Contents : Backfill(<<c, d>>)
        \/ \E to \in 0..MaxBlock : RemoveBlocks(to)
        \/ \E s \in Segments : Prune(s)

Spec == Init /\ [][Next]_vars
-----------------------------------------------------------------------------
\* HistoricalStateProviderRef::history_info at block q: the change set to read, or
\* "plain" or "unwritten".
history_info(k, q) ==
  LET sh    == shards[k]
      found == {h \in DOMAIN sh : h >= q}
      chunk == sh[Min(found)]
      later == {b \in chunk : b >= q}
      alone == /\ \A b \in chunk : b >= q
               /\ q \notin chunk
               /\ \A h \in DOMAIN sh : h >= Min(found)
      cut   == pruned[Segment(k)] # Unset
  IN  CASE found = {} -> IF cut THEN <<"plain">> ELSE <<"unwritten">>
        [] found # {} /\ alone /\ ~(cut /\ later # {}) -> <<"unwritten">>
        [] found # {} /\ ~(alone /\ ~(cut /\ later # {})) ->
             IF later # {} THEN <<"changeset", Min(later)>> ELSE <<"plain">>

\* state_provider_by_block_number, basic_account, storage: key k at block b.
Read(b, k) ==
  IF b = Height THEN plain[k]
  ELSE IF pruned[Segment(k)] # Unset /\ b < pruned[Segment(k)] THEN Refused
  ELSE LET info == history_info(k, b + 1)
           rows == {r \in changes : r.key = k /\ r.block = info[2]}
       IN  CASE info[1] = "unwritten" -> 0
             [] info[1] = "plain" -> plain[k]
             [] info[1] = "changeset" -> IF rows = {} THEN Missing ELSE (CHOOSE r \in rows : TRUE).old

\* revert_state, HashedPostState::from_reverts: the state at block b that its root is
\* computed from, the first change of every key after b put over the plain state.
RevertedTo(b, k) ==
  LET later == {r \in changes : r.key = k /\ r.block > b}
  IN  IF later = {} THEN plain[k]
      ELSE (CHOOSE r \in later : \A x \in later : r.block <= x.block).old
-----------------------------------------------------------------------------
TypeOK ==
  /\ \A r \in changes : r.block \in 0..Height /\ r.key \in Keys /\ r.old \in 0..made
  /\ \A k \in Keys : \A h \in DOMAIN shards[k] : shards[k][h] # {} /\ shards[k][h] \subseteq 0..Height
  /\ pruned \in [Segments -> {Unset} \cup (0..MaxBlock)]

\* The blocks whose history a segment still claims: not those that a backfill after a
\* pruning skipped, until the next pruning reaches them.
Claimed(s, b) == b >= skipped[s]

\* A key read at a block that is not pruned has the value the chain gave it there,
\* whatever was removed, pruned or indexed in between; only the block at which an
\* interrupted pruning stopped may answer with an error.  Not so at a block that a
\* backfill skipped while the prune checkpoint stayed, nor for the zero address once
\* a backfill has dropped its last shard.
ReadsTrue ==
  \A b \in 0..Height, k \in Keys :
    \/ Read(b, k) = ValueAt(b, k)
    \/ Read(b, k) = Refused
    \/ Read(b, k) = Missing /\ b = pruned[Segment(k)] /\ Segment(k) \in broken
    \/ ~Claimed(Segment(k), b) \/ (dropped /\ k = ZeroKey)

\* And so has the state whose root is computed for an older block.
RootsTrue ==
  \A b \in 0..Height :
    (\A s \in Segments : b >= pruned[s] + (IF s \in broken THEN 1 ELSE 0))
      => \A k \in Keys : RevertedTo(b, k) = ValueAt(b, k)

\* The history list of a key names exactly the change sets that are there, above what
\* was pruned or skipped, and its shards are in order; not so that of the zero address
\* once a backfill has dropped its last shard.
IndexExact ==
  \A k \in Keys : (dropped /\ k = ZeroKey) \/
  \E sh \in {shards[k]} : \E low \in {Max({pruned[Segment(k)], skipped[Segment(k)]})} :
    /\ {b \in UNION {sh[h] : h \in DOMAIN sh} : b > low + 1}
         = {b \in Changed(changes, k, 0..Height) : b > low + 1}
    /\ \A h \in DOMAIN sh : \A b \in sh[h] : b <= h
    /\ \A h \in DOMAIN sh, j \in DOMAIN sh : h < j => \A b \in sh[j] : b > h
    /\ DOMAIN sh # {} => Last \in DOMAIN sh
=============================================================================
