----------------------------- MODULE StaticFiles -----------------------------
(***************************************************************************)
(* The transactions segment of the static files and the database that      *)
(* says which transactions belong to which block (providers/static_file).  *)
(* Blocks are appended and unwound by the Bodies stage or, live, by the    *)
(* engine's storage writer; files and database are committed one after the *)
(* other, and a crash may fall between any two steps.  One file holds      *)
(* PerFile blocks and is, by itself, written atomically (NippyJar).        *)
(***************************************************************************)
EXTENDS Integers, Sequences, FiniteSets, SequencesExt, FiniteSetsExt

CONSTANTS PerFile,            \* BLOCKS_PER_STATIC_FILE
          MaxTxs,             \* transactions of a block
          MaxBlock, MaxMade, MaxCrashes, \* bounds
          DiskReorg           \* may the engine remove persisted blocks

VARIABLES disk,    \* the files: last block or -1, first transaction, rows
          w,       \* the writer: its file and the uncommitted contents
          trunc,   \* a truncation under way
          index,   \* static_files_max_block or -1, static_files_tx_index
          db, tx,  \* the database and the open transaction: checkpoint, block bodies
          pc, target,
          shifted, torn, \* histories: the engine appended to files with rows to spare;
                         \* a truncation by rows went wrong on empty blocks
          made, crashes

histories == <<shifted, torn>>
vars == <<disk, w, trunc, index, db, tx, pc, target, shifted, torn, made, crashes>>

Start(file) == file * PerFile
FileOf(block) == block \div PerFile
Sub(a, b) == IF a < b THEN 0 ELSE a - b
Empty == [last |-> -1, first |-> 0, rows |-> <<>>]
NoTrunc == [left |-> 0, num |-> 0, last |-> 0, then |-> "idle"]
Contents == [last |-> w.last, first |-> w.first, rows |-> w.rows]
Opened(file, record) == [file |-> file, last |-> record.last, first |-> record.first, rows |-> record.rows]
TxEnd(record) == record.first + Len(record.rows) - 1

\* StoredBlockBodyIndices: block b is bodies[b + 1].
LastTx(body) == Sub(body.first + body.n, 1)
NextTx(bodies) == IF \E i \in DOMAIN bodies : bodies[i].n > 0
                  THEN LastTx(bodies[Max({i \in DOMAIN bodies : bodies[i].n > 0})]) + 1 ELSE 0
\* get_highest_static_file_tx, -1 for none
HighestTx == IF index.txs = {} THEN -1 ELSE Max({e.end : e \in index.txs})
-----------------------------------------------------------------------------
\* StaticFileProviderRW::update_index
SegmentMax(record, file) == IF record.last # -1 THEN record.last ELSE Start(file) - 1

\* StaticFileProvider::update_index: the file of the highest block replaces what
\* the index has of it and of later files.
UpdateIndex(files, max) ==
  IF max = -1 THEN [max |-> -1, txs |-> {}]
  ELSE LET f == FileOf(max) IN
       [max |-> max,
        txs |-> IF files[f].rows # <<>> /\ files[f].last # -1
                THEN {e \in index.txs : e.file < f} \cup {[end |-> TxEnd(files[f]), file |-> f, last |-> files[f].last]}
                ELSE IF Cardinality(index.txs) = 1 /\ f = 0 THEN {} ELSE index.txs]

\* The writer's contents reach its file and the index; a missing file is an error.
Commit(record, file, then) ==
  LET files == [f \in DOMAIN disk \cup {file} |-> IF f = file THEN record ELSE disk[f]]
      max == SegmentMax(record, file)
  IN  /\ disk' = files
      /\ IF max = -1 \/ FileOf(max) \in DOMAIN files
         THEN index' = UpdateIndex(files, max) /\ pc' = then
         ELSE pc' = "error" /\ UNCHANGED index

\* initialize_index
InitialIndex(files) ==
  LET used == {f \in DOMAIN files : files[f].last # -1}
  IN  [max |-> IF used = {} THEN -1 ELSE files[Max(used)].last,
       txs |-> {[end |-> TxEnd(files[f]), file |-> f, last |-> files[f].last] :
                f \in {g \in used : files[g].rows # <<>>}}]

\* get_segment_ranges_from_transaction, and the row of the transaction.
Lookup(n) ==
  LET later == {e \in index.txs : e.end >= n}
      f == FileOf((CHOOSE e \in later : \A o \in later : e.end <= o.end).last)
  IN  IF later # {} /\ f \in DOMAIN disk /\ n >= disk[f].first /\ n <= TxEnd(disk[f])
      THEN disk[f].rows[n - disk[f].first + 1] ELSE -1
-----------------------------------------------------------------------------
\* The genesis block has no transactions.
Init ==
  /\ disk = [f \in {0} |-> [last |-> 0, first |-> 0, rows |-> <<>>]]
  /\ w = Opened(0, disk[0]) /\ trunc = NoTrunc /\ index = [max |-> 0, txs |-> {}]
  /\ db = [cp |-> 0, bodies |-> <<[id |-> 0, first |-> 0, n |-> 0]>>] /\ tx = db
  /\ pc = "idle" /\ target = 0 /\ shifted = FALSE /\ torn = FALSE /\ made = 0 /\ crashes = 0

\* Fault: the Bodies stage does not compare its transactions with the files.
BeginUnchecked ==
  /\ pc = "idle" /\ made < MaxMade /\ db.cp < MaxBlock /\ tx' = db /\ pc' = "append"
  /\ UNCHANGED <<disk, w, trunc, index, db, target, histories, made, crashes>>

\* BodyStage::execute first prunes what the files have more than the database;
\* append_transactions_from_blocks, for the engine, does not.
Begin ==
  /\ pc = "idle" /\ made < MaxMade /\ db.cp < MaxBlock /\ tx' = db
  /\ LET next == NextTx(db.bodies)
         spare == HighestTx + 1 - next
     IN  \/ /\ spare > 0 /\ pc' = "truncate" /\ UNCHANGED shifted
            /\ trunc' = [left |-> spare, num |-> spare, last |-> db.cp, then |-> "append"]
         \/ /\ spare < 0 /\ pc' = "error" /\ UNCHANGED <<trunc, shifted>>
         \/ /\ pc' = "append" /\ shifted' = (shifted \/ spare # 0) /\ UNCHANGED trunc
  /\ UNCHANGED <<disk, w, index, db, target, torn, made, crashes>>

\* increment_block: a full file is committed and the next one created.
Roll ==
  /\ pc = "append" /\ w.last = Start(w.file) + PerFile - 1 /\ tx.cp < MaxBlock
  /\ LET files == [f \in DOMAIN disk \cup {w.file + 1} |->
                     IF f = w.file THEN Contents ELSE IF f = w.file + 1 THEN Empty ELSE disk[f]]
     IN  disk' = files /\ index' = UpdateIndex(files, w.last)
  /\ w' = Opened(w.file + 1, Empty)
  /\ UNCHANGED <<trunc, db, tx, pc, target, histories, made, crashes>>

\* increment_block and append_transaction for every transaction of a block.
AppendBlock ==
  /\ pc = "append" /\ made < MaxMade /\ made' = made + 1 /\ tx.cp < MaxBlock
  /\ w.last # Start(w.file) + PerFile - 1
  /\ \E n \in 0..MaxTxs :
       LET block == tx.cp + 1
           first == NextTx(tx.bodies)
           next == IF w.last = -1 THEN Start(w.file) ELSE w.last + 1
       IN  IF block # next THEN pc' = "error" /\ UNCHANGED <<w, tx>>
           ELSE /\ w' = [w EXCEPT !.last = block, !.first = IF w.rows = <<>> THEN first ELSE w.first,
                                  !.rows = w.rows \o [k \in 1..n |-> made']]
                /\ tx' = [cp |-> block, bodies |-> Append(tx.bodies, [id |-> made', first |-> first, n |-> n])]
                /\ UNCHANGED pc
  /\ UNCHANGED <<disk, trunc, index, db, target, histories, crashes>>

\* UnifiedStorageWriter::commit: the static files first,
CommitFiles ==
  /\ pc = "append" /\ tx # db /\ Commit(Contents, w.file, "commitDb")
  /\ UNCHANGED <<w, trunc, db, tx, target, histories, made, crashes>>

\* then the database.
CommitDb ==
  /\ pc = "commitDb" /\ db' = tx /\ pc' = "idle"
  /\ UNCHANGED <<disk, w, trunc, index, tx, target, histories, made, crashes>>
-----------------------------------------------------------------------------
\* BodyStage::unwind, or remove_blocks_above: the database is committed first
\* (commit_unwind), the files are truncated afterwards.
Unwind ==
  /\ pc \in {"idle", "unwind"} /\ db.cp > 0
  /\ \E to \in IF pc = "unwind" THEN {target} ELSE 0..db.cp - 1,
        engine \in IF pc = "idle" /\ DiskReorg THEN BOOLEAN ELSE {FALSE} :
       LET kept == IF engine THEN to ELSE to + 1
           bodies == SubSeq(db.bodies, 1, kept)
           staticTx == IF HighestTx = -1 THEN 0 ELSE HighestTx
           num == IF engine THEN Sub(LastTx(Last(db.bodies)), db.bodies[to + 1].first)
                  ELSE staticTx - LastTx(Last(bodies))
       IN  /\ to > 0 \/ ~engine
           /\ db' = [cp |-> IF engine THEN db.cp ELSE to, bodies |-> bodies] /\ tx' = db'
           /\ IF num < 0 THEN pc' = "error" /\ UNCHANGED trunc
              ELSE pc' = "truncate" /\ trunc' = [left |-> num, num |-> num, last |-> to, then |-> "idle"]
  /\ UNCHANGED <<disk, w, index, target, histories, made, crashes>>

\* delete_current_and_open_previous
OpenPrevious ==
  /\ disk' = [f \in DOMAIN disk \ {w.file} |-> disk[f]]
  /\ w' = Opened(w.file - 1, disk[w.file - 1])

\* truncate: a file whose rows all go is deleted, except the first; prune_rows
\* freezes the header with the block range it still has.
TruncateRows ==
  /\ pc = "truncate" /\ trunc.left > 0
  /\ IF trunc.left >= Len(w.rows) /\ w.file # 0
     THEN /\ OpenPrevious /\ trunc' = [trunc EXCEPT !.left = trunc.left - Len(w.rows)]
          /\ torn' = (torn \/ trunc.last >= Start(w.file))
     ELSE /\ UNCHANGED torn
          /\ w' = [w EXCEPT !.rows = SubSeq(w.rows, 1, Sub(Len(w.rows), trunc.left))]
          /\ disk' = [disk EXCEPT ![w.file] = [last |-> w'.last, first |-> w'.first, rows |-> w'.rows]]
          /\ trunc' = [trunc EXCEPT !.left = 0]
  /\ UNCHANGED <<index, db, tx, pc, target, shifted, made, crashes>>

\* truncate: with no rows to remove, files of empty blocks go by their number; the
\* block range is set and everything is committed.
TruncateBlocks ==
  /\ pc = "truncate" /\ trunc.left = 0
  /\ IF trunc.num = 0 /\ trunc.last < Start(w.file)
     THEN OpenPrevious /\ UNCHANGED <<trunc, index, pc, torn>>
     ELSE /\ w' = [w EXCEPT !.last = trunc.last]
          /\ Commit([last |-> trunc.last, first |-> w.first, rows |-> w.rows], w.file, trunc.then)
          /\ trunc' = NoTrunc
          /\ torn' = (torn \/ trunc.last < Start(w.file) \/ \E e \in index'.txs : e.file > w.file)
  /\ UNCHANGED <<db, tx, target, shifted, made, crashes>>
-----------------------------------------------------------------------------
Crash ==
  /\ pc \notin {"down", "error"} /\ crashes < MaxCrashes /\ crashes' = crashes + 1 /\ pc' = "down"
  /\ w' = Opened(0, Empty) /\ trunc' = NoTrunc /\ tx' = db /\ index' = [max |-> -1, txs |-> {}]
  /\ UNCHANGED <<disk, db, target, histories, made>>

\* initialize_index, and the writer of the highest block is opened.
Restart ==
  /\ pc = "down" /\ index' = InitialIndex(disk)
  /\ LET f == FileOf(IF index'.max = -1 THEN 0 ELSE index'.max)
     IN  IF f \in DOMAIN disk THEN w' = Opened(f, disk[f]) /\ pc' = "check"
         ELSE pc' = "error" /\ UNCHANGED w
  /\ UNCHANGED <<disk, trunc, db, tx, target, histories, made, crashes>>

\* check_consistency: the highest block whose transactions the files hold.
HighestBlock ==
  LET max == IF index.max = -1 THEN 0 ELSE index.max
      fits(b) == b + 1 > Len(db.bodies) \/ LastTx(db.bodies[b + 1]) <= HighestTx
  IN  IF HighestTx = -1 \/ fits(max) THEN max
      ELSE Max({0} \cup {b \in 0..max : fits(b) /\ \A c \in b + 1..max : ~fits(c)})

\* check_consistency and ensure_invariants: files that are behind ask for an
\* unwind, files that are ahead are pruned.
Check ==
  /\ pc = "check"
  /\ LET high == HighestBlock
         highTx == IF HighestTx = -1 THEN 0 ELSE HighestTx
         num == highTx - LastTx(db.bodies[db.cp + 1])
     IN  CASE db.cp > high -> pc' = "unwind" /\ target' = high /\ UNCHANGED trunc
           [] db.cp < high /\ db.cp < Len(db.bodies) /\ num >= 0 ->
                /\ pc' = "truncate" /\ UNCHANGED target
                /\ trunc' = [left |-> num, num |-> num, last |-> db.cp, then |-> "idle"]
           [] db.cp < high /\ db.cp < Len(db.bodies) /\ num < 0 -> pc' = "error" /\ UNCHANGED <<trunc, target>>
           [] OTHER -> pc' = "idle" /\ UNCHANGED <<trunc, target>>
  /\ UNCHANGED <<disk, w, index, db, tx, histories, made, crashes>>

Next ==
  \/ Begin \/ Roll \/ AppendBlock \/ CommitFiles \/ CommitDb \/ Unwind
  \/ TruncateRows \/ TruncateBlocks \/ Crash \/ Restart \/ Check

Spec == Init /\ [][Next]_vars
-----------------------------------------------------------------------------
\* What is claimed below is claimed until the engine, which does not compare
\* transaction numbers, has appended to files with rows to spare (shifted: a chain
\* that went back to blocks without transactions leaves a row), or a truncation by
\* rows has met empty blocks (torn): it has deleted a file with blocks that stay,
\* stopped in a file that no block left belongs to, or left the index entry of a
\* deleted file; and only where the engine does not remove blocks from disk
\* (DiskReorg is FALSE).
Intact == ~shifted /\ ~torn

\* Whenever nothing is being written, every transaction of every block in the
\* database is found in the files, through the index
\* (get_segment_ranges_from_transaction), while Intact.
AllReadable ==
  pc = "idle" /\ Intact =>
    \A i \in DOMAIN db.bodies : \A k \in 0..db.bodies[i].n - 1 : Lookup(db.bodies[i].first + k) = db.bodies[i].id

\* Whenever nothing is being written, the files end at the database's last block
\* ("its highest block should match the stage checkpoint block number"), while Intact.
HeightsAgree == pc = "idle" /\ Intact => index.max = Len(db.bodies) - 1

\* Nothing of this ends in an error: the block numbers of files and database meet,
\* no count of rows is negative, and a file the index names exists, while Intact.
NoError == Intact => pc # "error"

\* A restart never drops a block that the database has committed: the order of the
\* two commits leaves the files ahead, and files that are ahead are pruned.  While
\* Intact.
NothingLost == (pc \in {"down", "check", "unwind"} /\ Intact) => (db' = db)
=============================================================================
