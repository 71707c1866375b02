----------------------------- MODULE BlockBuffer -----------------------------
(***************************************************************************)
(* The buffer of detached blocks of reth (blockchain-tree,                 *)
(* block_buffer.rs), which the engine tree keeps for payloads and          *)
(* downloads whose parent it does not have.  One buffer is a record of the *)
(* four collections the code keeps in step:                                *)
(*   blocks    the keys of the map of blocks                               *)
(*   children  parent_to_child; an absent key is the empty set             *)
(*   earliest  earliest_blocks; an absent key is the empty set             *)
(*   lru       the LRU list, oldest first                                  *)
(* A block is its hash; Parent and Number give the two header fields the   *)
(* buffer reads.                                                           *)
(***************************************************************************)
EXTENDS Naturals, Sequences, FiniteSets, SequencesExt

CONSTANTS Blocks,    \* blocks that may be buffered
          Roots,     \* parents that never are
          Parent,    \* Blocks -> Blocks \cup Roots
          Number,    \* Blocks -> Nat
          Limit      \* capacity of the LRU list

VARIABLES buffer,    \* the buffer
          out        \* the blocks the last removal returned, in order

vars == <<buffer, out>>

Heights == {Number[h] : h \in Blocks}

Empty == [blocks |-> {}, children |-> [h \in Blocks \cup Roots |-> {}],
          earliest |-> [n \in Heights |-> {}], lru |-> <<>>]

\* Fault: the children of the parent keep the hash of the removed block.
RemoveBlocksOnly(b, S) ==
  [blocks   |-> b.blocks \ S,
   children |-> b.children,
   earliest |-> [n \in Heights |-> b.earliest[n] \ (S \cap b.blocks)],
   lru      |-> SelectSeq(b.lru, LAMBDA x : x \notin S)]

\* remove_block for each hash of S that is buffered, in any order.
RemoveBlocks(b, S) ==
  [blocks   |-> b.blocks \ S,
   children |-> [p \in Blocks \cup Roots |-> b.children[p] \ {h \in S \cap b.blocks : Parent[h] = p}],
   earliest |-> [n \in Heights |-> b.earliest[n] \ {h \in S \cap b.blocks : Number[h] = n}],
   lru      |-> SelectSeq(b.lru, LAMBDA x : x \notin S)]

\* The least recently used hash, when a new one finds the list full.
Evicted(lru, h) ==
  IF h \notin ToSet(lru) /\ Limit <= Len(lru) THEN {lru[1]} ELSE {}

InsertBlock(b, h) ==
  LET gone   == Evicted(b.lru, h)
      listed == [b EXCEPT !.children[Parent[h]] = @ \cup {h},
                          !.earliest[Number[h]] = @ \cup {h},
                          !.blocks = @ \cup {h},
                          !.lru = Append(SelectSeq(@, LAMBDA x : x \notin gone \cup {h}), h)]
  IN  RemoveBlocks(listed, gone)

\* What remove_children may return: the children of a parent are a hash set,
\* walked in any order, and the parents still to do are a stack.
RECURSIVE RemoveChildren(_, _, _)
RemoveChildren(b, stack, removed) ==
  IF stack = <<>> THEN {[buffer |-> b, removed |-> removed]}
  ELSE LET p     == Last(stack)
           taken == b.children[p]
       IN  UNION {RemoveChildren(
                    RemoveBlocks([b EXCEPT !.children[p] = {}], taken),
                    Front(stack) \o order,
                    removed \o SelectSeq(order, LAMBDA h : h \in b.blocks))
                  : order \in SetToSeqs(taken)}

RemoveBlockWithChildren(b, p) ==
  RemoveChildren(RemoveBlocks(b, {p}), <<p>>, IF p \in b.blocks THEN <<p>> ELSE <<>>)

RemoveOldBlocks(b, n) ==
  LET old  == UNION {b.earliest[k] : k \in {k \in Heights : k <= n}}
      cut  == [b EXCEPT !.earliest = [k \in Heights |-> IF k <= n THEN {} ELSE b.earliest[k]]]
      left == RemoveBlocks(cut, old)
  IN  RemoveChildren(left, SetToSeq(old), <<>>)
-----------------------------------------------------------------------------
Init == buffer = Empty /\ out = <<>>

Insert(h) == buffer' = InsertBlock(buffer, h) /\ out' = <<>>

Connect(p) == \E r \in RemoveBlockWithChildren(buffer, p) :
                 buffer' = r.buffer /\ out' = r.removed

Finalize(n) == \E r \in RemoveOldBlocks(buffer, n) :
                  buffer' = r.buffer /\ out' = <<>>

Next == \/ \E h \in Blocks : Insert(h)
        \/ \E p \in Blocks \cup Roots : Connect(p)
        \/ \E n \in Heights : Finalize(n)

Spec == Init /\ [][Next]_vars
-----------------------------------------------------------------------------
\* Every collection has its type and the four hold the same blocks: each
\* buffered block is in the LRU list once, under its parent and under its
\* number, and nothing else is (block_buffer.rs, insert_block and remove_block;
\* the tests' assert_buffer_lengths).
CollectionsAgree ==
  /\ buffer.blocks \subseteq Blocks
  /\ ToSet(buffer.lru) = buffer.blocks /\ Len(buffer.lru) = Cardinality(buffer.blocks)
  /\ \A p \in Blocks \cup Roots : buffer.children[p] = {h \in buffer.blocks : Parent[h] = p}
  /\ \A n \in Heights : buffer.earliest[n] = {h \in buffer.blocks : Number[h] = n}

\* The buffer never holds more blocks than its limit, however insertions,
\* re-insertions and removals alternate (insert_block, insert_and_get_evicted).
WithinLimit == Cardinality(buffer.blocks) <= Limit

\* A removed block comes before every block that builds on it, so that the
\* caller can execute them in the order returned, whatever the order in which
\* the hash sets were walked (remove_block_with_children).
ParentsFirst ==
  \A i, j \in DOMAIN out : Parent[out[j]] = out[i] => i < j

\* When blocks leave the buffer by connecting or by finalization, everything
\* buffered on top of them leaves with them (remove_children): only an eviction
\* may leave a block whose buffered parent went away.
NoneLeftBehind ==
  \A h \in buffer.blocks \cap buffer'.blocks :
     Parent[h] \in buffer.blocks \ buffer'.blocks => Len(buffer.lru) >= Limit /\ Len(buffer'.lru) = Limit
=============================================================================
