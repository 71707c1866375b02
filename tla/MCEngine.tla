------------------------------ MODULE MCEngine ------------------------------
(***************************************************************************)
(* The components of the engine, checked side by side: the initial state   *)
(* picks one of them (focus), and only that one moves.  The tree is        *)
(* checked in four scenarios.                                              *)
(***************************************************************************)
EXTENDS Naturals, Sequences, TLC

CONSTANTS g, a1, a2, a3, a4, b1, b2, b3, b4, c2, lost, zero, \* blocks
          goal, none          \* a backfill target; no target, and the value of a variable at rest

VARIABLES focus,
          st, db, save, pipe, inbox, wanted, reply, restarts,
          pc, awake, wakers, syncPipe, fromTree, toTree, incoming, dl, treeState, events, requests,
          blocks, numbers, pending, disk, head, lockN, lockB, handed, job, ask,
          buffer, out

treeVars == <<st, db, save, pipe, inbox, wanted, reply, restarts>>
syncVars == <<pc, awake, wakers, syncPipe, fromTree, toTree, incoming, dl, treeState, events, requests>>
memoryVars == <<blocks, numbers, pending, disk, head, lockN, lockB, handed, job, ask>>
bufferVars == <<buffer, out>>
vars == <<focus, treeVars, syncVars, memoryVars, bufferVars>>
-----------------------------------------------------------------------------
\* Two branches on top of block a1; b3 fails its execution.
Tree == {a1, a2, a3, a4, b2, b3, b4}
ParentOf == (g :> g) @@ (a1 :> g) @@ (a2 :> a1) @@ (a3 :> a2) @@ (a4 :> a3) @@ (b2 :> a1) @@ (b3 :> b2) @@ (b4 :> b3)
NumberOf == (g :> 0) @@ (a1 :> 1) @@ (a2 :> 2) @@ (a3 :> 3) @@ (a4 :> 4) @@ (b2 :> 2) @@ (b3 :> 3) @@ (b4 :> 4)
Lines == LET up[b \in Tree \cup {g}] == IF b = g THEN <<b>> ELSE <<b>> \o up[ParentOf[b]] IN [b \in Tree \cup {g} |-> up[b]]
Ancestors == [b \in Tree \cup {g} |-> {Lines[b][i] : i \in DOMAIN Lines[b]}]
F(h, s, f) == [head |-> h, safe |-> s, fin |-> f]
Final == F(a4, a1, a3)
OnFaulty == {F(b2, zero, zero), F(b4, zero, zero)}
FarAhead == {F(a1, zero, zero), F(a3, a1, a2)}

\* The client follows one of two branches on the genesis and then the other, also
\* when the first block of the one it leaves is on disk or on its way there.
ShortParent == (g :> g) @@ (a1 :> g) @@ (a2 :> a1) @@ (b1 :> g) @@ (b2 :> b1)
ShortNumber == (g :> 0) @@ (a1 :> 1) @@ (a2 :> 2) @@ (b1 :> 1) @@ (b2 :> 2)
ShortAncestors == (g :> {g}) @@ (a1 :> {g, a1}) @@ (a2 :> {g, a1, a2}) @@ (b1 :> {g, b1}) @@ (b2 :> {g, b1, b2})
TwoBranches == {F(a2, b1, zero), F(b2, zero, b1)}
Live == INSTANCE EngineTree WITH Genesis <- g, Zero <- zero, Blocks <- {a1, a2, b1, b2}, Parent <- ShortParent, Number <- ShortNumber,
  Ancestry <- ShortAncestors, Forkchoices <- TwoBranches, Settled <- Final, Payloads <- {a1, a2, b1, b2}, Executed <- {a1}, Malformed <- {}, Faulty <- {},
  PersistenceThreshold <- 1, MemoryBlockBufferTarget <- 1, MaxExecuteBlockBatchSize <- 1, PipelineThreshold <- 32,
  MaxInbox <- 0, Restarts <- 0

\* Heads on top of a block that fails, and an ill-formed payload.
Invalid == INSTANCE EngineTree WITH Genesis <- g, Zero <- zero, Blocks <- Tree, Parent <- ParentOf, Number <- NumberOf,
  Ancestry <- Ancestors, Forkchoices <- OnFaulty, Settled <- Final, Payloads <- {a2, b3, b4}, Executed <- {a1}, Malformed <- {a2}, Faulty <- {b3},
  PersistenceThreshold <- 2, MemoryBlockBufferTarget <- 1, MaxExecuteBlockBatchSize <- 1, PipelineThreshold <- 1,
  MaxInbox <- 1, Restarts <- 0

\* The client starts far ahead of the node.
Sync == INSTANCE EngineTree WITH Genesis <- g, Zero <- zero, Blocks <- Tree, Parent <- ParentOf, Number <- NumberOf,
  Ancestry <- Ancestors, Forkchoices <- FarAhead, Settled <- Final, Payloads <- {a1}, Executed <- {}, Malformed <- {}, Faulty <- {b3},
  PersistenceThreshold <- 0, MemoryBlockBufferTarget <- 0, MaxExecuteBlockBatchSize <- 1, PipelineThreshold <- 0,
  MaxInbox <- 2, Restarts <- 1

\* The client settles on one head and keeps sending it.
Settle == INSTANCE EngineTree WITH Genesis <- g, Zero <- zero, Blocks <- Tree, Parent <- ParentOf, Number <- NumberOf,
  Ancestry <- Ancestors, Forkchoices <- {Final}, Settled <- Final, Payloads <- {a2, a4}, Executed <- {}, Malformed <- {}, Faulty <- {b3},
  PersistenceThreshold <- 1, MemoryBlockBufferTarget <- 1, MaxExecuteBlockBatchSize <- 1, PipelineThreshold <- 1,
  MaxInbox <- 1, Restarts <- 1

\* The orchestrator, with a single request and a range that share a block.
Heights == (a1 :> 1) @@ (a2 :> 2) @@ (a3 :> 3)
Orchestrator == INSTANCE EngineSync WITH Hashes <- {a1, a2, a3}, Number <- Heights, Singles <- {{a2}}, Ranges <- {{a1, a2, a3}},
  Targets <- {goal}, NoTarget <- none, Zero <- zero, MaxEvents <- 3, MaxRequests <- 3, MayFail <- TRUE, pipe <- syncPipe

\* The canonical in-memory state, with one reader.
Memory == INSTANCE InMemoryState WITH Genesis <- g, Blocks <- {a1, a2, a3, b2, b3}, Parent <- ParentOf, Number <- NumberOf,
  Readers <- {"rpc"}, Lineage <- Lines

\* The block buffer: a1 and b1 on a block that never comes, a2 and c2 on a1, a3 on a2.
BufferParent == (a1 :> lost) @@ (b1 :> lost) @@ (a2 :> a1) @@ (c2 :> a1) @@ (a3 :> a2)
BufferNumber == (a1 :> 1) @@ (b1 :> 1) @@ (a2 :> 2) @@ (c2 :> 2) @@ (a3 :> 3)
Buffer == INSTANCE BlockBuffer WITH Blocks <- {a1, b1, a2, c2, a3}, Roots <- {lost}, Parent <- BufferParent, Number <- BufferNumber,
  Limit <- 4
-----------------------------------------------------------------------------
TreeAtRest == st = none /\ db = none /\ save = none /\ pipe = none /\ inbox = none /\ wanted = none /\ reply = none /\ restarts = none
SyncAtRest == /\ pc = none /\ awake = none /\ wakers = none /\ syncPipe = none /\ fromTree = none /\ toTree = none
              /\ incoming = none /\ dl = none /\ treeState = none /\ events = none /\ requests = none
MemoryAtRest == /\ blocks = none /\ numbers = none /\ pending = none /\ disk = none /\ head = none
                /\ lockN = none /\ lockB = none /\ handed = none /\ job = none /\ ask = none
BufferAtRest == buffer = none /\ out = none

Init ==
  \/ focus \in {"live", "invalid", "sync", "settle"} /\ Live!Init /\ SyncAtRest /\ MemoryAtRest /\ BufferAtRest
  \/ focus = "orchestrator" /\ Orchestrator!Init /\ TreeAtRest /\ MemoryAtRest /\ BufferAtRest
  \/ focus = "memory" /\ Memory!Init /\ TreeAtRest /\ SyncAtRest /\ BufferAtRest
  \/ focus = "buffer" /\ Buffer!Init /\ TreeAtRest /\ SyncAtRest /\ MemoryAtRest

Steps ==
  \/ focus = "live" /\ Live!Next /\ UNCHANGED <<syncVars, memoryVars, bufferVars>>
  \/ focus = "invalid" /\ Invalid!Next /\ UNCHANGED <<syncVars, memoryVars, bufferVars>>
  \/ focus = "sync" /\ Sync!Next /\ UNCHANGED <<syncVars, memoryVars, bufferVars>>
  \/ focus = "settle" /\ Settle!Next /\ UNCHANGED <<syncVars, memoryVars, bufferVars>>
  \/ focus = "orchestrator" /\ Orchestrator!Next /\ UNCHANGED <<treeVars, memoryVars, bufferVars>>
  \/ focus = "memory" /\ Memory!Next /\ UNCHANGED <<treeVars, syncVars, bufferVars>>
  \/ focus = "buffer" /\ Buffer!Next /\ UNCHANGED <<treeVars, syncVars, memoryVars>>

\* The orchestrator and the in-memory state come to rest at their bounds.
Rest == focus \in {"orchestrator", "memory"} /\ UNCHANGED <<treeVars, syncVars, memoryVars, bufferVars>>

Next == (Steps \/ Rest) /\ UNCHANGED focus

\* The fairness of each component: what runs for it is scheduled, and a client
\* that settles on one forkchoice keeps sending it.
SettleFairness ==
  /\ []<>(focus # "settle" \/ inbox = <<>>) \/ []<><<focus = "settle" /\ Settle!Message>>_treeVars
  /\ WF_treeVars(focus = "settle" /\ Settle!Tick) /\ WF_treeVars(focus = "settle" /\ Settle!SaveBlocks)
  /\ WF_treeVars(focus = "settle" /\ \E S \in wanted : Settle!Deliver(S))
  /\ WF_treeVars(focus = "settle" /\ Settle!StartPipeline) /\ WF_treeVars(focus = "settle" /\ Settle!RunPipeline)
  /\ []<>(focus # "settle") \/ []<><<focus = "settle" /\ \E attrs \in BOOLEAN : Settle!ForkchoiceUpdated(Final, attrs)>>_treeVars

OrchestratorFairness ==
  /\ WF_syncVars(focus = "orchestrator" /\ Orchestrator!Task) /\ WF_syncVars(focus = "orchestrator" /\ Orchestrator!TreeTakes)
  /\ WF_syncVars(focus = "orchestrator" /\ Orchestrator!Answers) /\ WF_syncVars(focus = "orchestrator" /\ Orchestrator!PipelineEnds)

Spec == Init /\ [][Next]_vars /\ SettleFairness /\ OrchestratorFairness
-----------------------------------------------------------------------------
\* The canonical blocks in memory are exactly those between the last persisted
\* block and the head, through every reorg, one that drops a block on disk or on
\* its way there included, persistence, backfills and restarts.  As long as no
\* reorg has done that (HeadAboveDisk), a batch handed to the persistence service is
\* the next stretch of the chain on disk and every block in memory leads back to it
\* (EngineApiTreeHandler, get_canonical_blocks_to_persist).
MemoryIsCanonicalChain ==
  /\ focus = "live" => Live!MemoryIsCanonicalChain /\ Live!BatchExtendsDisk
  /\ focus = "sync" => Sync!MemoryIsCanonicalChain /\ Sync!BatchExtendsDisk

\* What the consensus client is told is true: a forkchoice answered VALID has its
\* finalized and safe block on the head's chain, as long as the head is above what
\* is on disk (HeadAboveDisk), and a payload is built on that head; a block known to be invalid, or on top of one, is never executed,
\* canonical or stored; the latestValidHash of an INVALID answer is the last valid
\* ancestor (on_forkchoice_updated, InvalidHeaderCache).
AnswersAreTrue ==
  /\ focus = "live" => Live!AcceptedForkchoiceConsistent
  /\ focus = "invalid" => Invalid!InvalidStaysOut /\ Invalid!LatestValidHashIsLatest

\* A backfill has the database to itself and is seen to begin and end once: no
\* batch is written from the moment the pipeline is asked for until the handler has
\* seen it finish, it is never asked for while a run is not yet reported, and the
\* orchestrator runs every target once, reports Started and Finished in turn and
\* delivers no block requested before it; downloaded blocks reach the tree by
\* ascending number and each once (emit_event: "mutually exclusive", PipelineSync,
\* ChainOrchestrator, BasicBlockDownloader).
BackfillExclusive ==
  /\ focus = "sync" => Sync!BackfillExcludesPersistence /\ Sync!PipelineStateTracked
  /\ focus = "orchestrator" => /\ Orchestrator!EachTargetRunOnce /\ Orchestrator!RunsAlternate
                               /\ Orchestrator!NoBlocksDuringBackfill /\ Orchestrator!BlocksAscending

\* The engine never stalls: a persistence task is always answered and taken note
\* of, a client that keeps asking for a valid head gets it, by single blocks,
\* ranges, the buffer or a backfill, through restarts and skipped backfills; every
\* backfill is run to its end and reported, and every request reaches the tree
\* although the task sleeps until a source wakes it; a block a peer has delivered
\* does too, unless the task sleeps after a poll that a NewDownloadStarted event
\* ended before the requests were polled (EngineHandler::poll).
EngineProgress ==
  /\ []<>(focus = "settle" => ~st.busy)
  /\ <>[](focus = "settle" => Final.head \in Settle!Canonical(st))
  /\ []<>(focus = "orchestrator" => (pc = "dead" \/ (treeState = "Idle" /\ incoming = 0)))
  /\ []<>(focus = "orchestrator" => (dl.ready = {} \/ Orchestrator!Overslept \/ pc = "dead"))

\* The in-memory state describes one chain, with the pending block on its head,
\* through reorgs, persistence and clearing, and anchored on disk unless a reorg
\* dropped the block that was being persisted; a reader that looks at its maps at
\* several moments walks the chain of one moment, short of a block only if it is on
\* disk by then or a reorg cut in, and never gets a number without its block (update_blocks, remove_persisted_blocks,
\* canonical_chain, state_by_number).
InMemoryConsistent ==
  focus = "memory" => /\ Memory!NumbersMatchBlocks /\ Memory!AnchoredOnDisk /\ Memory!PendingOnHead
                      /\ Memory!WalkOfOneMoment /\ Memory!LookupNotTorn

\* The four collections of the block buffer hold the same blocks, never more than
\* the limit; a removed block comes before every block that builds on it, and what
\* is buffered on top of it leaves with it unless the buffer was full
\* (insert_block, remove_block_with_children).
BufferConsistent ==
  /\ [](focus = "buffer" => Buffer!CollectionsAgree /\ Buffer!WithinLimit /\ Buffer!ParentsFirst)
  /\ [][focus = "buffer" => Buffer!NoneLeftBehind]_vars
=============================================================================
