------------------------------ MODULE MCStorage -----------------------------
(***************************************************************************)
(* The storage components, checked side by side: the initial state picks   *)
(* one of them (focus), and only that one moves.                           *)
(***************************************************************************)
EXTENDS Integers, Sequences, FiniteSets, TLC

CONSTANTS none,             \* the value of a variable at rest
          LateFailure,      \* a bad signature after the first batch of senders
          g, a1, a2, a3, b2, b3, b4, c3,   \* blocks
          acct, zero, slot, t1, t2, t3, t4   \* keys of the state, transactions

\* A chain and two forks of it; the number of a block is its place.
Tree == a1 :> <<a1>> @@ a2 :> <<a1, a2>> @@ a3 :> <<a1, a2, a3>> @@ c3 :> <<a1, a2, c3>>
        @@ b2 :> <<a1, b2>> @@ b3 :> <<a1, b2, b3>> @@ b4 :> <<a1, b2, b3, b4>>

\* A first sync of valid blocks, or a synced block and one invalid block after it.
Flaws == {[synced |-> <<>>, bad |-> <<none, none>>]} \cup
         {[synced |-> <<a1>>, bad |-> x] :
            x \in {<<a3, "header">>, <<b2, "header">>, <<a2, "sender">>, <<a2, "inner">>, <<a3, "execution">>,
                   <<b3, "execution">>, <<a2, "root">>, <<b3, "root">>}}

\* What a block does to the history: it sets keys, destroys the account with its
\* slots, or both.
Effects == {[sets |-> {acct, zero, slot}, wipes |-> FALSE], [sets |-> {acct, slot}, wipes |-> TRUE],
            [sets |-> {}, wipes |-> TRUE]}

VARIABLES focus,
          data, offsets, dataSync, offsetsSync, config, buffer, jar, pending, step, cut, rows, safe, overcut, appends, stops,
          disk, w, trunc, index, db, tx, pc, target, shifted, torn, made, crashes,
          cp, file, tables, tip, pipe, finalized, rejected, bad, etl, mixed, starts, halts,
          chain, plain, changes, shards, pruned, broken, horizon, skipped, dropped, minted

jarVars == <<data, offsets, dataSync, offsetsSync, config, buffer, jar, pending, step, cut, rows, safe, overcut, appends, stops>>
filesVars == <<disk, w, trunc, index, db, tx, pc, target, shifted, torn, made, crashes>>
pipelineVars == <<cp, file, tables, tip, pipe, finalized, rejected, bad, etl, mixed, starts, halts>>
historyVars == <<chain, plain, changes, shards, pruned, broken, horizon, skipped, dropped, minted>>
vars == <<focus, jarVars, filesVars, pipelineVars, historyVars>>
-----------------------------------------------------------------------------
Jar == INSTANCE NippyJar WITH Columns <- 2, Sizes <- {0, 1}, MaxAppends <- 3, MaxCrashes <- 2,
  pc <- step, crashes <- stops

Files == INSTANCE StaticFiles WITH PerFile <- 2, MaxTxs <- 2, MaxBlock <- 4, MaxMade <- 5, MaxCrashes <- 2, DiskReorg <- FALSE

Sync == INSTANCE Pipeline WITH Genesis <- g, Accounts <- {acct}, Slots <- {slot}, CommitTxs <- 1, MaxBlocks <- 1, CleanThreshold <- 0,
  CommitBlocks <- 1, ReorgDepth <- 1, MaxStarts <- 3, MaxCrashes <- 1,
  ChainTo <- Tree, Writes <- (a1 :> {acct} @@ a2 :> {acct, slot} @@ a3 :> {slot} @@ b2 :> {slot} @@ b3 :> {acct} @@ b4 :> {slot} @@ c3 :> {slot}),
  TxsOf <- (a1 :> <<t1>> @@ a2 :> <<t2, t3>> @@ a3 :> <<t4>> @@ b2 :> <<t4>> @@ b3 :> <<t2>> @@ b4 :> <<>> @@ c3 :> <<>>),
  Cases <- IF LateFailure THEN {[synced |-> <<a1>>, bad |-> <<a3, "sender">>]} ELSE Flaws,
  Tips <- IF LateFailure THEN {a3, c3} ELSE {a3, b3, b4},
  db <- tables, crashes <- halts

History == INSTANCE StateHistory WITH Accounts <- {zero, acct}, Slots <- {slot}, Holder <- acct, Order <- <<zero, acct, slot>>,
  Contents <- Effects, ShardSize <- 2, Distance <- [AccountHistory |-> 2, StorageHistory |-> 1], Limit <- 3,
  ZeroKey <- zero, MaxBlock <- 4, MaxMade <- 4,
  made <- minted
-----------------------------------------------------------------------------
JarAtRest == /\ data = none /\ offsets = none /\ dataSync = none /\ offsetsSync = none /\ config = none
             /\ buffer = none /\ jar = none /\ pending = none /\ step = none /\ cut = none /\ rows = none
             /\ safe = none /\ overcut = none /\ appends = none /\ stops = none
FilesAtRest == /\ disk = none /\ w = none /\ trunc = none /\ index = none /\ db = none /\ tx = none /\ pc = none
               /\ target = none /\ shifted = none /\ torn = none /\ made = none /\ crashes = none
PipelineAtRest == /\ cp = none /\ file = none /\ tables = none /\ tip = none /\ pipe = none /\ finalized = none
                  /\ rejected = none /\ bad = none /\ etl = none /\ mixed = none /\ starts = none /\ halts = none
HistoryAtRest == /\ chain = none /\ plain = none /\ changes = none /\ shards = none /\ pruned = none /\ broken = none
                 /\ horizon = none /\ skipped = none /\ dropped = none /\ minted = none

Init ==
  \/ focus = "jar" /\ Jar!Init /\ FilesAtRest /\ PipelineAtRest /\ HistoryAtRest
  \/ focus = "files" /\ Files!Init /\ JarAtRest /\ PipelineAtRest /\ HistoryAtRest
  \/ focus = "pipeline" /\ Sync!Init /\ JarAtRest /\ FilesAtRest /\ HistoryAtRest
  \/ focus = "history" /\ History!Init /\ JarAtRest /\ FilesAtRest /\ PipelineAtRest

Steps ==
  \/ focus = "jar" /\ Jar!Next /\ UNCHANGED <<filesVars, pipelineVars, historyVars>>
  \/ focus = "files" /\ Files!Next /\ UNCHANGED <<jarVars, pipelineVars, historyVars>>
  \/ focus = "pipeline" /\ Sync!Next /\ UNCHANGED <<jarVars, filesVars, historyVars>>
  \/ focus = "history" /\ History!Next /\ UNCHANGED <<jarVars, filesVars, pipelineVars>>

Next == Steps /\ UNCHANGED focus

Spec ==
  /\ Init /\ [][Next]_vars
  /\ WF_pipelineVars(focus = "pipeline" /\ Sync!Execute)
  /\ WF_pipelineVars(focus = "pipeline" /\ Sync!UnwindStep)
  /\ WF_pipelineVars(focus = "pipeline" /\ Sync!Restart)

\* The pipeline alone.
SyncSpec == Init /\ focus = "pipeline" /\ [][Next]_vars
-----------------------------------------------------------------------------
\* Whatever a crash leaves of the files of a jar, opening them gives back the rows
\* of the last commit or pruning, with the first few of the rows being committed,
\* or without the rows being pruned; a jar at rest reads back exactly its rows, and
\* its user header counts them (NippyJarWriter, ensure_file_consistency).  Not
\* claimed, but for the header, once a pruning of uncommitted rows reached rows on
\* disk (overcut).
CrashSafe == focus = "jar" => Jar!CrashSafe /\ Jar!ReadsBack /\ Jar!HeaderCounts

\* Whenever nothing is being written, every transaction of every block in the
\* database is found in the static files and both end at the same block; the
\* writing, truncating and checking meet no error, and a restart never drops a
\* block that the database has committed (UnifiedStorageWriter::commit,
\* check_consistency, truncate).  Claimed until the engine has appended to files with
\* rows to spare (shifted) or a truncation by rows went wrong on blocks without
\* transactions (torn), and where the engine removes no blocks from disk (DiskReorg
\* is FALSE).
FilesMatchDatabase ==
  /\ [](focus = "files" => Files!AllReadable /\ Files!HeightsAgree /\ Files!NoError)
  /\ [][focus = "files" => Files!NothingLost]_vars

\* Every table holds exactly the blocks its stage's checkpoint claims, at every
\* commit, in the middle of an unwind and after a stop at any point; no stage is
\* ahead of an earlier one; the stored finalized number names a stored header; and
\* nothing that happens is an error the pipeline cannot recover from.  Two events
\* are excepted: the tables and errors are not judged once headers left in the
\* collectors by an abandoned download were written with a later one (mixed), and a
\* bad signature on a transaction that is not the last of its block is fatal
\* (Pipeline).  A key read at an older block that is not pruned has the value the
\* chain gave it there, and so has the state whose root is computed
\* (HistoricalStateProviderRef, revert_state); not claimed at a block that a
\* backfill skipped while the prune checkpoint stayed, nor for the zero address once
\* a backfill has dropped its last shard (StateHistory).
TablesTrue ==
  /\ focus = "pipeline" => /\ Sync!TablesMatchCheckpoints /\ Sync!StagesOrdered
                           /\ Sync!FinalizedExists /\ Sync!NeverFatal
  /\ focus = "history" => History!ReadsTrue /\ History!RootsTrue /\ History!IndexExact

\* An unwind is blamed on a block only if that block is invalid, descends from an
\* invalid one, or is a local head that the chain asked for leaves behind
\* (on_stage_error, ControlFlow::Unwind); the engine rejects what is blamed.
BlamesTheBad == focus = "pipeline" => Sync!BlamesTheBad

\* Seen by readers of the Finish checkpoint, a sync is the abstract ledger: it
\* grows by valid blocks and shrinks by unwinding, and every pass of the pipeline
\* ends, if only in a fatal error (run_loop, execute_stage_to_completion, unwind).
ImplementsLedger ==
  /\ focus = "pipeline" => Sync!L!Init
  /\ [][focus = "pipeline" => [Sync!L!Next]_(Sync!L!vars)]_vars
  /\ []<>(focus = "pipeline" => pipe.at \in {"idle", "down", "dead"})
=============================================================================
