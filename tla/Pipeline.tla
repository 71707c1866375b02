------------------------------ MODULE Pipeline ------------------------------
(***************************************************************************)
(* Staged sync: reth/crates/stages.  A pass over the twelve default stages *)
(* brings each table up to the block its predecessor reached, committing   *)
(* after every call of a stage; an error unwinds all stages, last to       *)
(* first.  The process may stop between any two commits.                   *)
(*                                                                         *)
(* A chain is a sequence of blocks, a block writes some keys of the state  *)
(* and holds some transactions; the value of a key is the block that last  *)
(* wrote it, so a state root is the state itself.  Static file and         *)
(* database commit together here; StaticFiles models the gap between them. *)
(***************************************************************************)
EXTENDS Integers, Sequences, FiniteSets, SequencesExt

CONSTANTS Genesis, none,
          ChainTo,        \* block -> the chain that ends in it
          Accounts, Slots,\* the keys of the plain state, by table
          Writes,         \* block -> the keys it changes
          TxsOf,          \* block -> its transactions, in order
          Cases,          \* what may be synced already and which block is bad
          Tips,           \* the heads the consensus layer may ask for
          CommitTxs,      \* SenderRecoveryStage::commit_threshold
          MaxBlocks,      \* ExecutionStageThresholds::max_blocks
          CleanThreshold, \* of the hashing and merkle stages
          CommitBlocks,   \* commit_threshold and chunk_size of the others
          ReorgDepth,     \* BEACON_CONSENSUS_REORG_UNWIND_DEPTH
          MaxStarts,      \* bound: backfill runs asked for
          MaxCrashes      \* bound: process stops

VARIABLES cp,        \* stage -> block number of its StageCheckpoint
          file,      \* rows of the headers static file, from block 1
          db,        \* the tables
          tip,       \* watch channel: the head to sync to
          pipe,      \* where the pipeline stands
          finalized, \* last_finalized_block_number, or Unset
          rejected,  \* bad blocks handed to the engine by ControlFlow::Unwind
          bad,       \* the invalid block of this behaviour and its defect
          etl,       \* the header stage's hash_collector and header_collector
          mixed,     \* history: some download was written together with what an
                     \* abandoned one had left in the collectors
          starts, crashes

collectors == <<etl, mixed>>
vars == <<cp, file, db, tip, pipe, finalized, rejected, bad, etl, mixed, starts, crashes>>

Stages == <<"Headers", "Bodies", "SenderRecovery", "Execution", "MerkleUnwind",
            "AccountHashing", "StorageHashing", "MerkleExecute",
            "TransactionLookup", "IndexStorageHistory", "IndexAccountHistory",
            "Finish">>
StageIds == Range(Stages)

Keys == Accounts \cup Slots
Unset == -1
Low(x, y) == IF x < y THEN x ELSE y
High(x, y) == IF x < y THEN y ELSE x

\* The state after the first n blocks of chain c.
StateAt(c, n) ==
    [k \in Keys |-> LET w == {i \in 1..n : k \in Writes[c[i]]}
                    IN  IF w = {} THEN Genesis ELSE c[Max(w)]]

\* AccountChangeSets and StorageChangeSets: what block n overwrote.
ChangesAt(c, n) == [k \in Writes[c[n]] |-> StateAt(c, n - 1)[k]]

\* The transactions of the first n blocks; their numbers start at 0.
TxList(c, n) == FlattenSeq([i \in 1..n |-> TxsOf[c[i]]])
NextTx(c, n) == Len(TxList(c, n))

\* StoredBlockBodyIndices::last_tx_num saturates at 0.
LastTx(c, n) == High(NextTx(c, n) - 1, 0)

SendersOf(c, n) == [t \in 0..NextTx(c, n) - 1 |-> TxList(c, n)[t + 1]]
LookupOf(c, n) == [x \in Range(TxList(c, n)) |->
                     (CHOOSE i \in 1..NextTx(c, n) : TxList(c, n)[i] = x) - 1]
IndexOf(c, n, keys) == [k \in keys |-> {i \in 1..n : k \in Writes[c[i]]}]

Flawed(b, kind) == bad = <<b, kind>>
Flawless(c) == \A i \in 1..Len(c) : c[i] # bad[1]

\* The tables of a store synced to all of chain c.
TablesOf(c) ==
    [numbers  |-> Range(c),  bodies |-> c,
     senders  |-> SendersOf(c, Len(c)),
     plain    |-> StateAt(c, Len(c)),
     changes  |-> [n \in 1..Len(c) |-> ChangesAt(c, n)],
     hashed   |-> StateAt(c, Len(c)),
     trie     |-> IF c = <<>> THEN <<>> ELSE StateAt(c, Len(c)),
     progress |-> none,
     lookup   |-> LookupOf(c, Len(c)),
     index    |-> IndexOf(c, Len(c), Keys)]

Idle == [at |-> "idle", stage |-> 0, target |-> 0, bad |-> none]
Down == [Idle EXCEPT !.at = "down"]
Dead == [Idle EXCEPT !.at = "dead"]

\* A Collector holds a buffer and the files it was flushed to, each sorted and
\* read once; the hashes are only read by a write that then succeeds or is fatal.
EmptyEtl == [hashes |-> <<>>, buffer |-> <<>>, files |-> <<>>]

Init == \E x \in Cases :
    /\ cp = [s \in StageIds |-> Len(x.synced)]
    /\ file = x.synced
    /\ db = TablesOf(x.synced)
    /\ bad = x.bad
    /\ tip = none /\ pipe = Idle /\ finalized = Unset
    /\ rejected = {} /\ etl = EmptyEtl /\ mixed = FALSE
    /\ starts = 0 /\ crashes = 0
-----------------------------------------------------------------------------
(* Control: run_loop, execute_stage_to_completion, on_stage_error.         *)

At(s) == pipe.at = "run" /\ Stages[pipe.stage] = s

\* The stage's call returned Ok: its checkpoint is saved and committed; when
\* done, the next stage runs towards the checkpoint this one reached.
Commit(s, n, done) ==
    /\ cp' = [cp EXCEPT ![s] = n]
    /\ pipe' = CASE ~done -> pipe
                 [] done /\ s = "Finish" -> Idle
                 [] OTHER -> [pipe EXCEPT !.stage = @ + 1, !.target = n]
    /\ UNCHANGED <<tip, finalized, rejected, bad, starts, crashes>>

UnwindFrom(to, b) ==
    pipe' = [at |-> "unwind", stage |-> Len(Stages), target |-> to, bad |-> b]

\* BlockErrorKind::Validation: the merkle stage's progress is dropped and its
\* checkpoint overwritten with the one of the stage that failed.
ValidationError(s, b, f) ==
    /\ cp' = [cp EXCEPT !["MerkleExecute"] = cp[s]]
    /\ db' = [db EXCEPT !.progress = none]
    /\ file' = f
    /\ UnwindFrom(cp[s], b)
    /\ UNCHANGED <<tip, finalized, rejected, bad, starts, crashes>>

\* Fault: the error is taken for one that goes away when the stage is called again.
RetreatRetried(to, b) ==
    UNCHANGED <<cp, file, db, tip, pipe, finalized, rejected, bad, starts, crashes>>

\* BlockErrorKind::Execution and DetachedHead only unwind.
Retreat(to, b) ==
    /\ UnwindFrom(to, b)
    /\ UNCHANGED <<cp, file, db, tip, finalized, rejected, bad, starts, crashes>>

\* A fatal error ends the pipeline task, and the node with it.
Fatal == /\ pipe' = Dead
         /\ UNCHANGED <<cp, file, db, tip, finalized, rejected, bad, starts, crashes>>

TargetReached(s) == cp[s] >= pipe.target

\* Nothing to do up to the target: the checkpoint is returned as it is.
Reached(s) == /\ TargetReached(s)
              /\ Commit(s, cp[s], TRUE)
              /\ UNCHANGED <<file, db>>
-----------------------------------------------------------------------------
(* The stages.                                                             *)

Number(b) == Len(ChainTo[b])

\* Collector::insert of downloaded headers.
Collected(blocks) == [etl EXCEPT !.hashes = @ \o blocks, !.buffer = @ \o blocks]

\* Collector::iter: everything not read yet, by number.
Iterated(e) ==
    SortSeq(FlattenSeq(e.files) \o e.buffer, LAMBDA x, y : Number(x) < Number(y))

\* What is left when the iteration stops at block b: the buffer was flushed, and
\* of each file the entries behind b, less the one already fetched.
Abandoned(e, b) ==
    LET behind(blocks) == SelectSeq(blocks, LAMBDA x : Number(x) > Number(b))
        rest(blocks) == IF behind(blocks) = <<>> THEN <<>> ELSE Tail(behind(blocks))
    IN  [e EXCEPT !.buffer = <<>>,
                  !.files = [i \in 1..Len(e.files) |-> rest(e.files[i])]
                              \o <<rest(Iterated([e EXCEPT !.files = <<>>]))>>]

\* HeaderStage::write_headers of a download that closes the gap after n blocks f:
\* a header that fails validation leaves the rows before it in the file; a header
\* whose number does not follow and a hash that is in the table are fatal.
WriteHeaders(f, n, got) ==
    LET queue == Iterated(got)
        flaws == {i \in 1..Len(queue) : Flawed(queue[i], "header")}
        misplaced == {i \in 1..Len(queue) : Number(queue[i]) # n + i}
        stop == Min(flaws \cup misplaced)
        fresh == /\ IsInjective(got.hashes)
                 /\ Range(got.hashes) \cap db.numbers = {}
    IN  /\ mixed' = (mixed \/ etl # EmptyEtl)
        /\ CASE flaws \cup misplaced # {} /\ stop \in flaws ->
                  /\ ValidationError("Headers", queue[stop], f \o SubSeq(queue, 1, stop - 1))
                  /\ etl' = Abandoned(got, queue[stop])
             [] flaws \cup misplaced = {} /\ fresh ->
                  /\ Commit("Headers", n + Len(queue), TRUE)
                  /\ file' = f \o queue
                  /\ db' = [db EXCEPT !.numbers = @ \cup Range(got.hashes)]
                  /\ etl' = EmptyEtl
             [] OTHER -> Fatal /\ etl' = got

\* HeaderStage: sync_gap first cuts rows beyond the checkpoint off the file.
\* The download, from the tip down, then either closes the gap or finds the local
\* head detached, having collected some of the headers; they stay collected.
Headers ==
    /\ At("Headers")
    /\ LET n == cp["Headers"]
           f == SubSeq(file, 1, n)
           c == ChainTo[tip]
           closed == n > 0 /\ f[n] = tip
           attached == n > 0 => c[n] = f[n]
       IN  \/ /\ closed
              /\ Commit("Headers", n, TRUE)
              /\ file' = f /\ UNCHANGED <<db, collectors>>
           \/ /\ ~closed /\ attached
              /\ WriteHeaders(f, n, Collected(SubSeq(c, n + 1, Len(c))))
           \/ /\ ~closed /\ ~attached
              /\ \E i \in n + 1..Len(c) : etl' = Collected(SubSeq(c, i + 1, Len(c)))
              /\ Retreat(High(n - ReorgDepth, 1), f[n])
              /\ UNCHANGED mixed

\* BodyStage: whatever contiguous batch the downloader has ready.
Bodies ==
    /\ At("Bodies")
    /\ \/ Reached("Bodies")
       \/ \E m \in cp["Bodies"] + 1..pipe.target :
            /\ db' = [db EXCEPT !.bodies = SubSeq(file, 1, m)]
            /\ Commit("Bodies", m, m = pipe.target)
            /\ UNCHANGED file

\* next_block_range_with_transaction_threshold: the last block of the batch
\* and whether it is the final one.
TxRange(n, to, threshold) ==
    LET first == NextTx(db.bodies, n)
        all == NextTx(db.bodies, to) - first
    IN  IF all <= threshold THEN <<to, TRUE>>
        ELSE <<Min({m \in n + 1..to : NextTx(db.bodies, m) > first + threshold}), FALSE>>

\* A row is appended: its number must exceed every number in the table.
Appends(table, rows) == \A i \in DOMAIN table, j \in DOMAIN rows : i < j

\* SenderRecoveryStage: a bad signature is blamed on the block that
\* TransactionBlocks, which only holds the last transaction of each block, names;
\* for any other transaction of a block (flaw "inner") the lookup fails.
SenderRecovery ==
    /\ At("SenderRecovery")
    /\ \/ Reached("SenderRecovery")
       \/ /\ ~TargetReached("SenderRecovery")
          /\ LET n == cp["SenderRecovery"]
                 range == TxRange(n, pipe.target, CommitTxs)
                 all == SendersOf(db.bodies, range[1])
                 rows == [t \in DOMAIN all \ DOMAIN SendersOf(db.bodies, n) |-> all[t]]
                 flaws(kind) == {i \in n + 1..range[1] : Flawed(db.bodies[i], kind)}
             IN  CASE flaws("sender") # {} ->
                        ValidationError("SenderRecovery", db.bodies[Min(flaws("sender"))], file)
                   [] flaws("sender") = {} /\ (flaws("inner") # {} \/ ~Appends(db.senders, rows)) ->
                        Fatal
                   [] OTHER -> /\ db' = [db EXCEPT !.senders = rows @@ @]
                               /\ Commit("SenderRecovery", range[1], range[2])
                               /\ UNCHANGED file

\* ExecutionStage: a batch ends at the target or where a threshold on blocks,
\* changes, gas or time says.
Execution ==
    /\ At("Execution")
    /\ \/ Reached("Execution")
       \/ \E m \in cp["Execution"] + 1..Low(pipe.target, cp["Execution"] + 1 + MaxBlocks) :
            LET n == cp["Execution"]
                flaws == {i \in n + 1..m : Flawed(db.bodies[i], "execution")}
                after(k) == {i \in n + 1..m : k \in Writes[db.bodies[i]]}
                old(i, k) == LET w == {j \in n + 1..i - 1 : k \in Writes[db.bodies[j]]}
                             IN  IF w = {} THEN db.plain[k] ELSE db.bodies[Max(w)]
            IN  IF flaws # {}
                THEN Retreat(n, db.bodies[Min(flaws)])
                ELSE /\ db' = [db EXCEPT
                           !.plain = [k \in Keys |-> IF after(k) = {} THEN @[k]
                                                     ELSE db.bodies[Max(after(k))]],
                           !.changes = [i \in n + 1..m |->
                                          [k \in Writes[db.bodies[i]] |-> old(i, k)]] @@ @]
                     /\ Commit("Execution", m, m = pipe.target)
                     /\ UNCHANGED file

\* MerkleStage::Unwind only follows when executed.
MerkleUnwind == /\ At("MerkleUnwind")
                /\ Commit("MerkleUnwind", pipe.target, TRUE)
                /\ UNCHANGED <<file, db>>

\* The keys that the change sets of some blocks name.
ChangedIn(blocks) == UNION {DOMAIN db.changes[n] : n \in blocks \cap DOMAIN db.changes}

\* To hash from scratch or, for a short range, only what it changed.
Clean(from, to) == to - from > CleanThreshold \/ from = 1

HashStage(s, keys) ==
    /\ At(s)
    /\ \/ Reached(s)
       \/ /\ ~TargetReached(s)
          /\ LET from == cp[s] + 1
                 dirty == IF Clean(from, pipe.target) THEN keys
                          ELSE keys \cap ChangedIn(from..pipe.target)
             IN  db' = [db EXCEPT !.hashed =
                          [k \in Keys |-> IF k \in dirty THEN db.plain[k] ELSE @[k]]]
          /\ Commit(s, pipe.target, TRUE)
          /\ UNCHANGED file

AccountHashing == HashStage("AccountHashing", Accounts)
StorageHashing == HashStage("StorageHashing", Slots)

\* Fault: the prefix sets of the changed storage slots are not loaded.
AccountsRoot(dirty) ==
    [k \in Keys |-> IF k \in dirty \cap Accounts \/ k \notin DOMAIN db.trie THEN db.hashed[k]
                    ELSE db.trie[k]]

\* The root over the hashed tables, reusing the stored nodes of the keys that
\* are not marked as changed.
IncrementalRoot(dirty) ==
    [k \in Keys |-> IF k \in dirty \/ k \notin DOMAIN db.trie THEN db.hashed[k]
                    ELSE db.trie[k]]

\* validate_state_root against the header of block n.
RootMatches(root, n) ==
    root = StateAt(ChainTo[file[n]], n) /\ \A i \in 1..n : ~Flawed(file[i], "root")

\* What a saved MerkleCheckpoint for the same target still holds.
Resumed == IF db.progress # none /\ db.progress.target = pipe.target
           THEN db.progress.root ELSE <<>>

\* StateRootProgress::Progress: the walk over the accounts is saved and the
\* stage called again; nodes of an abandoned walk are cleared first.
MerkleWalk ==
    /\ At("MerkleExecute")
    /\ ~TargetReached("MerkleExecute") /\ Clean(cp["MerkleExecute"] + 1, pipe.target)
    /\ Resumed = <<>>
    /\ LET part == [k \in Accounts |-> db.hashed[k]]
       IN  db' = [db EXCEPT !.trie = part,
                            !.progress = [target |-> pipe.target, root |-> part]]
    /\ Commit("MerkleExecute", cp["MerkleExecute"], FALSE)
    /\ UNCHANGED file

MerkleExecute ==
    /\ At("MerkleExecute")
    /\ LET from == cp["MerkleExecute"] + 1
           root == IF Clean(from, pipe.target) THEN Resumed @@ db.hashed
                   ELSE IncrementalRoot(ChangedIn(from..pipe.target))
       IN  IF TargetReached("MerkleExecute")
           THEN /\ db' = [db EXCEPT !.progress = none]
                /\ Commit("MerkleExecute", pipe.target, TRUE)
                /\ UNCHANGED file
           ELSE IF RootMatches(root, pipe.target)
           THEN /\ db' = [db EXCEPT !.progress = none, !.trie = root]
                /\ Commit("MerkleExecute", pipe.target, TRUE)
                /\ UNCHANGED file
           ELSE ValidationError("MerkleExecute", file[pipe.target], file)

\* TransactionLookupStage collects all hashes up to the target and inserts
\* them; a hash already in the table is a database error.
TransactionLookup ==
    /\ At("TransactionLookup")
    /\ \/ Reached("TransactionLookup")
       \/ /\ ~TargetReached("TransactionLookup")
          /\ LET n == cp["TransactionLookup"]
                 old == LookupOf(db.bodies, n)
                 all == LookupOf(db.bodies, pipe.target)
                 rows == [x \in DOMAIN all \ DOMAIN old |-> all[x]]
             IN  IF DOMAIN rows \cap DOMAIN db.lookup # {} THEN Fatal
                 ELSE /\ db' = [db EXCEPT !.lookup = rows @@ @]
                      /\ Commit("TransactionLookup", pipe.target, TRUE)
                      /\ UNCHANGED file

\* The history stages add the blocks of the range to each key they changed; a
\* first sync clears the table.
IndexStage(s, keys) ==
    /\ At(s)
    /\ \/ Reached(s)
       \/ /\ ~TargetReached(s)
          /\ LET n == cp[s]
                 new(k) == {i \in n + 1..pipe.target : k \in ChangedIn({i})}
             IN  db' = [db EXCEPT !.index =
                          [k \in Keys |-> IF k \notin keys THEN @[k]
                                          ELSE (IF n = 0 THEN {} ELSE @[k]) \cup new(k)]]
          /\ Commit(s, pipe.target, TRUE)
          /\ UNCHANGED file

IndexStorageHistory == IndexStage("IndexStorageHistory", Slots)
IndexAccountHistory == IndexStage("IndexAccountHistory", Accounts)

Finish == /\ At("Finish")
          /\ Commit("Finish", pipe.target, TRUE)
          /\ UNCHANGED <<file, db>>

Execute == \/ Headers
           \/ /\ \/ Bodies \/ SenderRecovery \/ Execution \/ MerkleUnwind
                 \/ AccountHashing \/ StorageHashing \/ MerkleWalk \/ MerkleExecute
                 \/ TransactionLookup \/ IndexStorageHistory \/ IndexAccountHistory
                 \/ Finish
              /\ UNCHANGED collectors
-----------------------------------------------------------------------------
(* Unwinding: Pipeline::unwind and the stages' unwind.                     *)

\* unwind_block_range_with_threshold: the first block of the next range.
UnwindStart(s, threshold) == High(pipe.target + 1, cp[s] - threshold)

\* Fault: the change sets are applied oldest first.
BeforeLast(k, blocks) ==
    LET w == {n \in blocks \cap DOMAIN db.changes : k \in DOMAIN db.changes[n]}
    IN  db.changes[Max(w)][k]

\* What the change sets of a range say the key held before it.
Before(k, blocks) ==
    LET w == {n \in blocks \cap DOMAIN db.changes : k \in DOMAIN db.changes[n]}
    IN  db.changes[Min(w)][k]

Reverted(table, keys, blocks) ==
    [k \in Keys |-> IF k \in keys \cap ChangedIn(blocks) THEN Before(k, blocks)
                    ELSE table[k]]

RestrictTo(f, S) == [x \in DOMAIN f \cap S |-> f[x]]

\* How many blocks one call of a stage's unwind undoes.
Threshold(s) == CASE s = "SenderRecovery" -> CommitTxs
                  [] s = "Execution" -> MaxBlocks
                  [] s \in {"AccountHashing", "StorageHashing", "TransactionLookup",
                            "IndexStorageHistory", "IndexAccountHistory"} -> CommitBlocks
                  [] OTHER -> cp[s]

\* The tables after each stage undid block `from' and up.
UnwoundHeaders(from) == [db EXCEPT !.numbers = @ \ {file[i] : i \in from..Len(file)}]
UnwoundBodies(from) == [db EXCEPT !.bodies = SubSeq(@, 1, from - 1)]
UnwoundSenders(from) ==
    [db EXCEPT !.senders = RestrictTo(@, 0..LastTx(db.bodies, from - 1))]
UnwoundExecution(range) ==
    [db EXCEPT !.plain = Reverted(@, Keys, range),
               !.changes = RestrictTo(@, DOMAIN @ \ range)]
UnwoundTrie(from, range) ==
    [db EXCEPT !.trie = IF from = 1 THEN <<>> ELSE IncrementalRoot(ChangedIn(range))]
UnwoundHashes(keys, range) == [db EXCEPT !.hashed = Reverted(@, keys, range)]
UnwoundLookup(range) ==
    [db EXCEPT !.lookup =
       RestrictTo(@, DOMAIN @ \ UNION {Range(TxsOf[db.bodies[i]]) : i \in range})]
UnwoundIndex(keys, from, range) ==
    [db EXCEPT !.index = [k \in Keys |-> IF k \in keys \cap ChangedIn(range)
                                         THEN @[k] \cap 0..from - 1 ELSE @[k]]]

Unwound(s, from) ==
    CASE s = "Headers" -> UnwoundHeaders(from)
      [] s = "Bodies" -> UnwoundBodies(from)
      [] s = "SenderRecovery" -> UnwoundSenders(from)
      [] s = "Execution" -> UnwoundExecution(from..cp[s])
      [] s = "MerkleUnwind" -> UnwoundTrie(from, from..cp[s])
      [] s = "AccountHashing" -> UnwoundHashes(Accounts, from..cp[s])
      [] s = "StorageHashing" -> UnwoundHashes(Slots, from..cp[s])
      [] s = "TransactionLookup" -> UnwoundLookup(from..cp[s])
      [] s = "IndexStorageHistory" -> UnwoundIndex(Slots, from, from..cp[s])
      [] s = "IndexAccountHistory" -> UnwoundIndex(Accounts, from, from..cp[s])
      [] OTHER -> db

\* One call of a stage's unwind and its commit, or on to the stage before it;
\* MerkleStage::Unwind refuses to leave a root the header does not name.
UnwindStep ==
    /\ pipe.at = "unwind" /\ UNCHANGED collectors
    /\ LET s == Stages[pipe.stage]
           from == UnwindStart(s, Threshold(s))
           undone == Unwound(s, from)
       IN  IF cp[s] <= pipe.target
           THEN /\ pipe' = IF pipe.stage > 1 THEN [pipe EXCEPT !.stage = @ - 1] ELSE Idle
                /\ rejected' = IF pipe.stage > 1 THEN rejected
                               ELSE rejected \cup ({pipe.bad} \ {none})
                /\ UNCHANGED <<cp, file, db, finalized, tip, bad, starts, crashes>>
           ELSE IF s = "MerkleUnwind" /\ from > 1 /\ ~RootMatches(undone.trie, from - 1)
           THEN Fatal
           ELSE /\ db' = undone
                /\ file' = IF s = "Headers" THEN SubSeq(file, 1, from - 1) ELSE file
                /\ cp' = [cp EXCEPT ![s] = from - 1]
                /\ finalized' = IF finalized = Unset \/ from - 1 < finalized
                                THEN from - 1 ELSE finalized
                /\ UNCHANGED <<pipe, tip, rejected, bad, starts, crashes>>
-----------------------------------------------------------------------------
(* The engine and the process.                                             *)

\* A chain the engine still believes in, ahead of the local headers.
Start == /\ pipe.at = "idle" /\ starts < MaxStarts
         /\ \E t \in Tips : /\ Len(ChainTo[t]) > cp["Headers"]
                            /\ Range(ChainTo[t]) \cap rejected = {}
                            /\ tip' = t
         /\ pipe' = [Idle EXCEPT !.at = "run", !.stage = 1]
         /\ starts' = starts + 1
         /\ UNCHANGED <<cp, file, db, finalized, rejected, bad, collectors, crashes>>

\* Persistence stores the finalized block the consensus layer names.
Finalize == /\ pipe.at = "idle"
            /\ cp["Finish"] > (IF finalized = Unset THEN 0 ELSE finalized)
            /\ finalized' = cp["Finish"]
            /\ UNCHANGED <<cp, file, db, tip, pipe, rejected, bad, collectors, starts, crashes>>

Crash == /\ pipe.at \notin {"down", "dead"} /\ crashes < MaxCrashes
         /\ crashes' = crashes + 1
         /\ pipe' = Down /\ tip' = none /\ rejected' = {} /\ etl' = EmptyEtl
         /\ UNCHANGED <<cp, file, db, finalized, bad, mixed, starts>>

\* check_consistency cuts the file back to the checkpoint, and
\* check_pipeline_consistency asks for the local head whenever a stage of
\* StageId::ALL is behind it - the prune stages, absent here, always are.
Restart ==
    /\ pipe.at = "down"
    /\ file' = SubSeq(file, 1, cp["Headers"])
    /\ IF cp["Headers"] > 0
       THEN pipe' = [Idle EXCEPT !.at = "run", !.stage = 1] /\ tip' = file'[cp["Headers"]]
       ELSE pipe' = Idle /\ UNCHANGED tip
    /\ UNCHANGED <<cp, db, finalized, rejected, bad, collectors, starts, crashes>>

Next == Execute \/ UnwindStep \/ Start \/ Finalize \/ Crash \/ Restart

Spec == Init /\ [][Next]_vars
                 /\ WF_vars(Execute) /\ WF_vars(UnwindStep) /\ WF_vars(Restart)
-----------------------------------------------------------------------------
\* Every table holds exactly what its stage's checkpoint claims, for the chain
\* in the headers file, at every commit: also in the middle of an unwind and
\* after a stop at any point.  Not claimed once a download was written together
\* with headers that an abandoned one had left in the collectors (mixed).
TablesMatchCheckpoints == ~mixed =>
    LET c == SubSeq(file, 1, cp["Headers"])
    IN  /\ \E b \in DOMAIN ChainTo \cup {Genesis} :
              c = IF b = Genesis THEN <<>> ELSE ChainTo[b]
        /\ db.numbers = Range(c)
        /\ db.bodies = SubSeq(c, 1, cp["Bodies"])
        /\ db.senders = SendersOf(c, cp["SenderRecovery"])
        /\ db.plain = StateAt(c, cp["Execution"])
        /\ db.changes = [n \in 1..cp["Execution"] |-> ChangesAt(c, n)]
        /\ \A k \in Accounts : db.hashed[k] = StateAt(c, cp["AccountHashing"])[k]
        /\ \A k \in Slots : db.hashed[k] = StateAt(c, cp["StorageHashing"])[k]
        /\ db.lookup = LookupOf(c, cp["TransactionLookup"])
        /\ \A k \in Accounts : db.index[k] = IndexOf(c, cp["IndexAccountHistory"], Keys)[k]
        /\ \A k \in Slots : db.index[k] = IndexOf(c, cp["IndexStorageHistory"], Keys)[k]

\* No stage is ahead of an earlier one, so whatever a stage reads is there.  The
\* checkpoints move alike whatever the headers are, so mixed is no exception.
StagesOrdered == \A i, j \in 1..Len(Stages) : i < j => cp[Stages[j]] <= cp[Stages[i]]

\* No chain of events leaves the pipeline with an error it cannot recover from,
\* save a write of mixed downloads and a bad signature on a transaction that is
\* not the last of its block.
NeverFatal == pipe.at = "dead" => mixed \/ bad[2] = "inner"

\* An unwind is blamed on a block only if that block is invalid, descends from
\* an invalid one, or is a local head that the chain asked for leaves behind.
BlamesTheBad ==
    pipe.bad # none => \/ bad[1] \in Range(ChainTo[pipe.bad])
                       \/ pipe.bad \notin Range(ChainTo[tip])

\* The stored finalized number always names a block of the header chain.
FinalizedExists == finalized # Unset => finalized <= cp["Headers"]

\* A pass ends: idle again, or the process is down or has met a fatal error,
\* whatever was downloaded.
PassesEnd == []<>(pipe.at \in {"idle", "down", "dead"})

\* What Finish announces grows by valid blocks and shrinks by unwinding only.
L == INSTANCE Ledger WITH
       ledger <- SubSeq(file, 1, cp["Finish"]),
       sound <- {<<>>} \cup {c \in Range(ChainTo) : Flawless(c)}
Implements == L!Spec
=============================================================================
