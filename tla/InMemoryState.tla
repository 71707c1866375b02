---------------------------- MODULE InMemoryState ----------------------------
(***************************************************************************)
(* CanonicalInMemoryState of reth (chain-state, in_memory.rs): the         *)
(* canonical blocks that are not on disk yet.  The tree's thread is the    *)
(* only writer; RPC threads read at any time.  The maps of blocks and of   *)
(* numbers are behind two read-write locks that no operation takes in one  *)
(* step, so every acquisition is an action of its own.  An operation that  *)
(* holds both locks for writing does its work in one step: nothing can see *)
(* the maps in between.  A BlockState is the path of blocks from the block *)
(* down its parent pointers.                                               *)
(***************************************************************************)
EXTENDS Naturals, Sequences, FiniteSets, SequencesExt

CONSTANTS Blocks, Genesis, Parent, Number, Readers,
          Lineage    \* of every block: it and its ancestors, newest first

VARIABLES blocks,    \* hash -> BlockState, for the hashes in memory
          numbers,   \* number -> hash
          pending,   \* the pending BlockState, <<>> if there is none
          disk,      \* the last block on disk, known to the tree
          head,      \* the tree's canonical head
          lockN, lockB,   \* the locks: who writes, who reads
          handed,    \* the block persistence was asked to write up to, if any
          job,       \* the tree's operation in progress
          ask        \* each reader's operation in progress

data == <<blocks, numbers, pending, disk, head>>
vars == <<blocks, numbers, pending, disk, head, lockN, lockB, handed, job, ask>>

Tree == "tree"
Free(lock) == lock.w = {}
Idle == [op |-> "idle"]

Restrict0(f, S) == [x \in S |-> f[x]]

\* BlockState::with_parent: the parent pointer is a copy of the parent's state.
WithParent(b, f) == IF Parent[b] \in DOMAIN f THEN <<b>> \o f[Parent[b]] ELSE <<b>>

\* The blocks of S, lowest first, inserted into both maps.
Inserted(S, maps) ==
  FoldLeft(LAMBDA m, b : [blocks  |-> [x \in DOMAIN m.blocks \cup {b} |-> IF x = b THEN WithParent(b, m.blocks) ELSE m.blocks[x]],
                          numbers |-> [n \in DOMAIN m.numbers \cup {Number[b]} |-> IF n = Number[b] THEN b ELSE m.numbers[n]]],
           maps, SetToSortSeq(S, LAMBDA x, y : Number[x] < Number[y]))

\* The blocks of S taken out of both maps.
Removed(S) == [blocks  |-> Restrict0(blocks, DOMAIN blocks \ S),
               numbers |-> Restrict0(numbers, DOMAIN numbers \ {Number[b] : b \in S})]
-----------------------------------------------------------------------------
Init ==
  /\ blocks = <<>> /\ numbers = <<>> /\ pending = <<>>
  /\ disk = Genesis /\ head = Genesis /\ handed = {}
  /\ lockN = [w |-> {}, r |-> {}] /\ lockB = [w |-> {}, r |-> {}]
  /\ job = Idle /\ ask = [t \in Readers |-> Idle]

\* The blocks at which a new chain may leave the canonical one: those in memory,
\* the head, and the last block on disk if the head builds on it.
ForkPoints == DOMAIN blocks \cup {head} \cup ({disk} \cap ToSet(Lineage[head]))

\* A new head that is not below the current one, on a chain that leads back to
\* a canonical block: what TreeState::on_new_head can return.
NewHeads == {h \in Blocks \ (DOMAIN blocks \cup {disk, head}) :
               Number[h] >= Number[head] /\ ToSet(Lineage[h]) \cap ForkPoints # {}}

\* The nearest canonical ancestor of h.
ForkPoint(h) == Lineage[h][CHOOSE i \in DOMAIN Lineage[h] :
                  Lineage[h][i] \in ForkPoints /\ \A j \in 1..(i - 1) : Lineage[h][j] \notin ForkPoints]

\* The tree asks for the first lock of an operation.
StartUpdate(h) ==
  /\ job = Idle /\ h \in NewHeads
  /\ job' = [op |-> "update", to |-> h, second |-> FALSE]
  /\ UNCHANGED <<data, lockN, lockB, handed, ask>>

\* advance_persistence hands over canonical blocks; they may be reorged out
\* before they are reported on disk.
HandOver(b) ==
  /\ job = Idle /\ handed = {} /\ b \in DOMAIN blocks
  /\ handed' = {b}
  /\ UNCHANGED <<data, lockN, lockB, job, ask>>

StartPersisted(b) ==
  /\ job = Idle /\ b \in handed
  /\ handed' = {}
  /\ job' = [op |-> "persisted", to |-> b, second |-> FALSE]
  /\ UNCHANGED <<data, lockN, lockB, ask>>

StartClear(b) ==
  /\ job = Idle /\ handed = {} /\ b # disk /\ disk \in ToSet(Lineage[b])
  /\ job' = [op |-> "clear", to |-> b, second |-> FALSE]
  /\ UNCHANGED <<data, lockN, lockB, handed, ask>>

\* update_blocks takes numbers, then blocks; the other two the reverse.
NumbersFirst == job.op = "update"

FirstLock ==
  /\ job # Idle /\ ~job.second
  /\ IF NumbersFirst
     THEN Free(lockN) /\ lockN.r = {} /\ lockN' = [lockN EXCEPT !.w = {Tree}] /\ UNCHANGED lockB
     ELSE Free(lockB) /\ lockB.r = {} /\ lockB' = [lockB EXCEPT !.w = {Tree}] /\ UNCHANGED lockN
  /\ job' = [job EXCEPT !.second = TRUE]
  /\ UNCHANGED <<data, handed, ask>>

\* The second lock, the work under both, and their release.
SecondLock ==
  /\ job # Idle /\ job.second
  /\ IF NumbersFirst THEN Free(lockB) /\ lockB.r = {} ELSE Free(lockN) /\ lockN.r = {}
  /\ lockN' = [lockN EXCEPT !.w = {}] /\ lockB' = [lockB EXCEPT !.w = {}]
  /\ job' = Idle
  /\ UNCHANGED <<handed, ask>>

Above(b, f) == {x \in ToSet(Lineage[b]) : Number[x] > Number[f]}

\* Fault: the reorged blocks lose their numbers only.
UpdateBlocksKeeping ==
  LET f    == ForkPoint(job.to)
      maps == Inserted(Above(job.to, f), [blocks |-> blocks, numbers |-> Removed(Above(head, f)).numbers])
  IN  /\ job.op = "update" /\ SecondLock
      /\ blocks' = maps.blocks /\ numbers' = maps.numbers /\ pending' = <<>>
      /\ head' = job.to
      /\ UNCHANGED disk

UpdateBlocks ==
  LET f    == ForkPoint(job.to)
      maps == Inserted(Above(job.to, f), Removed(Above(head, f)))
  IN  /\ job.op = "update" /\ SecondLock
      /\ blocks' = maps.blocks /\ numbers' = maps.numbers /\ pending' = <<>>
      /\ head' = job.to
      /\ UNCHANGED disk

\* Everything up to the height of the block on disk goes, whichever block it is.
RemovePersistedBlocks ==
  LET left == {b \in DOMAIN blocks : Number[b] > Number[job.to]}
      maps == Inserted(left, [blocks |-> <<>>, numbers |-> <<>>])
  IN  /\ job.op = "persisted" /\ SecondLock
      /\ blocks' = maps.blocks /\ numbers' = maps.numbers
      /\ pending' = IF pending = <<>> THEN <<>> ELSE WithParent(pending[1], blocks')
      /\ disk' = job.to
      /\ UNCHANGED head

ClearState ==
  /\ job.op = "clear" /\ SecondLock
  /\ blocks' = <<>> /\ numbers' = <<>> /\ pending' = <<>>
  /\ disk' = job.to /\ head' = job.to

\* The parent of the pending block is canonical: insert_block_inner checks it.
SetPendingBlock(b) ==
  /\ job = Idle /\ b # head /\ Parent[b] = head /\ Free(lockB)
  /\ pending' = WithParent(b, blocks)
  /\ UNCHANGED <<blocks, numbers, disk, head, lockN, lockB, handed, job, ask>>
-----------------------------------------------------------------------------
ReadLock(lock, t) == [lock EXCEPT !.r = @ \cup {t}]
Unlock(lock, t) == [lock EXCEPT !.r = @ \ {t}]

\* state_by_number keeps the numbers locked while it takes the blocks.
StateByNumber(t, n) ==
  /\ ask[t].op \in {"idle", "done"} /\ Free(lockN)
  /\ lockN' = ReadLock(lockN, t)
  /\ ask' = [ask EXCEPT ![t] = [op |-> "number", hash |-> IF n \in DOMAIN numbers THEN {numbers[n]} ELSE {}]]
  /\ UNCHANGED <<data, lockB, handed, job>>

StateByNumberBlocks(t) ==
  /\ ask[t].op = "number" /\ Free(lockB)
  /\ lockN' = Unlock(lockN, t)
  /\ ask' = [ask EXCEPT ![t] = [op |-> "done", hash |-> ask[t].hash, p |-> <<>>, chain |-> <<>>, at |-> {}, on |-> FALSE,
                                state |-> {blocks[h] : h \in ask[t].hash \cap DOMAIN blocks}]]
  /\ UNCHANGED <<data, lockB, handed, job>>

\* canonical_chain: the pending block, then head_state, then a copy of the map.
\* at is a history of what was in memory when the head's state was read, on of
\* whether that head was still in memory when the map was copied.
ChainPending(t) ==
  /\ ask[t].op \in {"idle", "done"}
  /\ ask' = [ask EXCEPT ![t] = [op |-> "pending", p |-> pending]]
  /\ UNCHANGED <<data, lockN, lockB, handed, job>>

HeadState(t) ==
  /\ ask[t].op = "pending" /\ Free(lockN)
  /\ lockN' = ReadLock(lockN, t)
  /\ ask' = [ask EXCEPT ![t] = [op |-> "head", p |-> ask[t].p,
                                hash |-> IF numbers = <<>> THEN {}
                                         ELSE {numbers[CHOOSE n \in DOMAIN numbers : \A m \in DOMAIN numbers : m <= n]}]]
  /\ UNCHANGED <<data, lockB, handed, job>>

HeadStateBlocks(t) ==
  /\ ask[t].op = "head" /\ Free(lockB)
  /\ lockN' = Unlock(lockN, t)
  /\ ask' = [ask EXCEPT ![t] = [op |-> "copy", p |-> ask[t].p, hash |-> ask[t].hash \cap DOMAIN blocks,
                                at |-> DOMAIN blocks]]
  /\ UNCHANGED <<data, lockB, handed, job>>

RECURSIVE Walk(_, _)
Walk(b, f) == IF Parent[b] \in DOMAIN f THEN <<b>> \o Walk(Parent[b], f) ELSE <<b>>

CanonicalChain(t) ==
  /\ ask[t].op = "copy" /\ Free(lockB)
  /\ ask' = [ask EXCEPT ![t] =
       [op |-> "done", hash |-> {}, state |-> {}, p |-> ask[t].p, at |-> ask[t].at, on |-> ask[t].hash \subseteq DOMAIN blocks,
        chain |-> IF ask[t].hash = {} THEN <<>> ELSE Walk(CHOOSE h \in ask[t].hash : TRUE, blocks)]]
  /\ UNCHANGED <<data, lockN, lockB, handed, job>>

\* What the walk yields, and the block number transaction_by_hash_with_meta
\* reports for a transaction of its i-th block: the position, counted from 0.
Yielded(t) == (IF ask[t].p = <<>> THEN <<>> ELSE <<ask[t].p[1]>>) \o ask[t].chain

MetaBlockNumber(t, i) == i - 1
-----------------------------------------------------------------------------
Heights == {Number[b] : b \in Blocks}

TreeStep ==
  \/ \E b \in Blocks : StartUpdate(b) \/ HandOver(b) \/ StartPersisted(b) \/ StartClear(b) \/ SetPendingBlock(b)
  \/ FirstLock \/ UpdateBlocks \/ RemovePersistedBlocks \/ ClearState

Locks == FirstLock \/ UpdateBlocks \/ RemovePersistedBlocks \/ ClearState

Proceed(t) == StateByNumberBlocks(t) \/ HeadState(t) \/ HeadStateBlocks(t) \/ CanonicalChain(t)

ReaderStep(t) == ChainPending(t) \/ (\E n \in Heights : StateByNumber(t, n)) \/ Proceed(t)

Next == TreeStep \/ \E t \in Readers : ReaderStep(t)

Spec == Init /\ [][Next]_vars

\* Threads that are inside an operation are scheduled.
FairSpec == Spec /\ WF_vars(Locks) /\ \A t \in Readers : SF_vars(Proceed(t))
-----------------------------------------------------------------------------
Linked(s) == \A i \in 1..(Len(s) - 1) : Parent[s[i]] = s[i + 1]

\* The two maps describe one chain: at most one block of each number, the one
\* the number maps to, through reorgs, persistence and clearing (in_memory.rs,
\* update_blocks, remove_persisted_blocks, clear).
NumbersMatchBlocks ==
  /\ DOMAIN numbers = {Number[b] : b \in DOMAIN blocks}
  /\ \A b \in DOMAIN blocks : numbers[Number[b]] = b

\* Every state in memory, the pending one included, is a chain of parents down
\* to a child of the last block on disk: never a hole, never a block that is
\* already persisted ("can be traced back to a canonical block on disk"), unless a
\* reorg dropped the very block that was being written to disk.
AnchoredOnDisk ==
  \A s \in {blocks[b] : b \in DOMAIN blocks} \cup ({pending} \ {<<>>}) :
     Linked(s) /\ (disk \in ToSet(Lineage[head]) => Parent[Last(s)] = disk)

\* The pending block builds on the canonical head (set_pending_block's
\* assumption), also after the head moved or was persisted.
PendingOnHead == pending # <<>> => Parent[pending[1]] = head

\* canonical_chain reads the maps at three moments while the tree reorgs, persists
\* and clears.  What it walks after the pending block is nevertheless the chain of
\* one moment: it holds only blocks that were in memory when its head was read,
\* and if that head is not reorged out before the map is copied, every block of
\* that moment that is missing is below what is on disk by then.  (A reorg in
\* between may cut the walk short.)
WalkOfOneMoment ==
  \A t \in Readers : ask[t].op = "done" =>
    /\ ToSet(ask[t].chain) \subseteq ask[t].at
    /\ ask[t].on => \A b \in ask[t].at \ ToSet(ask[t].chain) : Number[b] <= Number[disk]

\* A lookup by number never finds the number and misses the block, and the state
\* it returns is a chain of parents (state_by_number).
LookupNotTorn ==
  \A t \in Readers : ask[t].op = "done" =>
    /\ Cardinality(ask[t].state) = Cardinality(ask[t].hash)
    /\ \A s \in ask[t].state : Linked(s)

\* Every lookup by number returns ("Returns the state for a given block
\* number"): no reader waits for ever (state_by_number, head_state).
LookupReturns == \A t \in Readers : (ask[t].op = "number") ~> (ask[t].op = "done")

\* The block number reported with a transaction is the number of the block it
\* is in ("Number of the block", TransactionMeta; transaction_by_hash_with_meta).
MetaNumberIsBlocks ==
  \A t \in Readers : ask[t].op = "done" =>
    \A i \in DOMAIN Yielded(t) : MetaBlockNumber(t, i) = Number[Yielded(t)[i]]
=============================================================================
