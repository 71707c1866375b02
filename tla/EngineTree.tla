----------------------------- MODULE EngineTree -----------------------------
(***************************************************************************)
(* The engine API tree of reth (engine/tree, tree/mod.rs): the thread that *)
(* executes payloads, follows the consensus client's forkchoice and hands  *)
(* canonical blocks to the persistence service (persistence.rs), while the *)
(* orchestrator may run a backfill pipeline on the same database.          *)
(*                                                                         *)
(* st is the handler's own state: the functions of the handler call each   *)
(* other on it, so they are operators from a state to a state, and one     *)
(* step of the model is one iteration of the loop in `run`: one message,   *)
(* then advance_persistence.  A block is its hash; Parent and Number are   *)
(* its header, Malformed blocks fail validate_block and Faulty ones fail   *)
(* their execution.                                                        *)
(***************************************************************************)
EXTENDS Naturals, Sequences, FiniteSets, SequencesExt

CONSTANTS Blocks, Genesis, Parent, Number, Malformed, Faulty, Zero,
          Ancestry,               \* of every block: it and its ancestors
          PersistenceThreshold, MemoryBlockBufferTarget,   \* TreeConfig
          MaxExecuteBlockBatchSize,
          PipelineThreshold,      \* MIN_BLOCKS_FOR_PIPELINE_RUN
          Forkchoices,            \* the states the consensus client may send
          Executed,               \* blocks the payload builder may insert
          Settled,                \* the one it settles on
          Payloads,               \* the blocks it may send as payloads
          MaxInbox,               \* bound on the queued messages
          Restarts                \* bound on the restarts

VARIABLES st,        \* the handler
          db,        \* the blocks on disk
          save,      \* the persistence service: its request and its answer
          pipe,      \* the backfill pipeline: idle, requested or running
          inbox,     \* messages the orchestrator and the tree put in the queue
          wanted,    \* blocks the downloader was asked for
          reply,     \* the answer to the last message
          restarts

vars == <<st, db, save, pipe, inbox, wanted, reply, restarts>>

All == Blocks \cup {Genesis}

None == [ok |-> FALSE]
Some(x) == [ok |-> TRUE, val |-> x]
NoReply == [kind |-> "none"]
NoSave == [blocks |-> {}, done |-> FALSE]
-----------------------------------------------------------------------------
\* TreeState.

\* The first ancestor of h, h included, that is not in S.
MissingAncestor(h, S) ==
  LET up[x \in Ancestry[h]] == IF x \in S THEN up[Parent[x]] ELSE x IN up[h]

RemoveBefore(s, n) == [s EXCEPT !.tree = {b \in @ : Number[b] > n}]

\* The lockstep walk of on_new_head from the old head o and the new chain's
\* c: the fork point, if both walks stay inside the tree until they meet.
RECURSIVE MeetingPoint(_, _, _)
MeetingPoint(s, o, c) ==
  IF o = c THEN Some(c)
  ELSE IF o \notin s.tree THEN None
  ELSE IF Parent[o] = c THEN Some(c)
  ELSE IF c \notin s.tree THEN None
  ELSE MeetingPoint(s, Parent[o], Parent[c])

\* The blocks a new head adds to and removes from the canonical chain.
OnNewHead(s, h) ==
  IF h \notin s.tree THEN None
  ELSE LET above == {b \in Ancestry[h] : b # h /\ Number[b] > Number[s.head]}
           low   == CHOOSE b \in Ancestry[h] : b # h /\ Number[b] <= Number[s.head]
                                               /\ \A c \in Ancestry[h] : c # h /\ Number[c] > Number[b] => c \in above
           met   == MeetingPoint(s, s.head, low)
       IN  IF ~(above \subseteq s.tree) \/ ~met.ok THEN None
           ELSE Some([new |-> {b \in Ancestry[h] : Number[b] > Number[met.val]},
                      old |-> {b \in Ancestry[s.head] : Number[b] > Number[met.val]}])
-----------------------------------------------------------------------------
\* Lookups.  The provider sees the disk and the canonical blocks in memory.
Canonical(s) == db \cup s.mem
Known(s) == s.tree \cup Canonical(s)

\* state_provider: found, missing, or an error when the chain of h in the tree
\* ends in a block the provider does not have.
StateProvider(s, h) ==
  IF h \in s.tree THEN IF MissingAncestor(h, s.tree) \in Canonical(s) THEN "found" ELSE "error"
  ELSE IF h \in Canonical(s) THEN "found" ELSE "missing"

LowestBufferedAncestorOr(s, h) == IF h \in s.buffer THEN MissingAncestor(h, s.buffer) ELSE h

LatestValidHashForInvalidPayload(s, p) ==
  LET bad  == DOMAIN s.invalid
      up[x \in Ancestry[p]] == IF x \in bad THEN up[Parent[s.invalid[x]]] ELSE x
  IN  IF p \in Known(s) THEN Some(p)
      ELSE IF p \in bad /\ up[p] \in Known(s) THEN Some(up[p]) ELSE None


MarkInvalid(s, h, ancestor) ==
  IF h \in DOMAIN s.invalid THEN s
  ELSE [s EXCEPT !.invalid = [x \in DOMAIN s.invalid \cup {h} |-> IF x = h THEN ancestor ELSE s.invalid[x]]]

\* prepare_invalid_response: an unknown ancestor becomes the zero hash.
PrepareInvalidResponse(s, p) ==
  LET v == LatestValidHashForInvalidPayload(s, p) IN IF v.ok THEN v ELSE Some(Zero)
-----------------------------------------------------------------------------
\* Events the handler sends to the orchestrator and the downloader.
EmitDownload(s, S) == [s EXCEPT !.out = Append(@, [to |-> "download", blocks |-> S])]

\* Fault: a running persistence task does not stop a backfill.
EmitBackfillAlways(s, target) ==
  [s EXCEPT !.backfill = "Pending", !.out = Append(@, [to |-> "pipeline", blocks |-> {target}])]

EmitBackfill(s, target) ==
  IF s.busy THEN s
  ELSE [s EXCEPT !.backfill = "Pending", !.out = Append(@, [to |-> "pipeline", blocks |-> {target}])]

\* Fault: the reorged blocks stay in the in-memory state.
OnCanonicalChainUpdateAdd(s, h, u) == [s EXCEPT !.head = h, !.mem = @ \cup u.new]

OnCanonicalChainUpdate(s, h, u) == [s EXCEPT !.head = h, !.mem = (@ \ u.old) \cup u.new]

MakeCanonical(s, h) ==
  LET u == OnNewHead(s, h) IN IF u.ok THEN OnCanonicalChainUpdate(s, h, u.val) ELSE s

IsSyncTargetHead(s, h) == s.syncing.ok /\ s.syncing.val.head = h

\* insert_block: the new state, what became of the block, its missing ancestor.
InsertBlock(s, b) ==
  LET at(res, t) == [s |-> t, res |-> res, missing |-> MissingAncestor(Parent[b], s.buffer)]
  IN  IF b \in Known(s) THEN at("seen", s)
      ELSE IF b \in Malformed THEN at("consensus", s)
      ELSE IF StateProvider(s, Parent[b]) = "missing" THEN at("disconnected", [s EXCEPT !.buffer = @ \cup {b}])
      ELSE IF StateProvider(s, Parent[b]) = "error" THEN at("fatal", s)
      ELSE IF b \in Faulty THEN at("consensus", s)
      ELSE at("valid", [s EXCEPT !.tree = @ \cup {b}])

OnInsertBlockError(s, b, res) == IF res = "consensus" THEN MarkInvalid(s, b, b) ELSE s

\* try_connect_buffered_blocks: the buffered blocks on top of p leave the buffer
\* and are inserted, parents first.
TryConnectBufferedBlocks(s, p) ==
  LET above == {b \in s.buffer : p \in Ancestry[b]
                   /\ \A c \in Ancestry[b] : Number[c] > Number[p] => c \in s.buffer} \cup ({p} \cap s.buffer)
      one(t, b) == LET r == InsertBlock(t, b)
                   IN  IF r.res = "valid" /\ IsSyncTargetHead(r.s, b) THEN MakeCanonical(r.s, b)
                       ELSE OnInsertBlockError(r.s, b, r.res)
  IN  FoldLeft(one, [s EXCEPT !.buffer = @ \ above],
               SetToSortSeq(above, LAMBDA x, y : Number[x] < Number[y]))
-----------------------------------------------------------------------------
\* newPayload.


CheckInvalidAncestorWithHead(s, check, h) ==
  IF check \notin DOMAIN s.invalid THEN None
  ELSE Some([s |-> MarkInvalid(s, h, s.invalid[check]),
             lvh |-> PrepareInvalidResponse(s, Parent[s.invalid[check]])])

\* The answer and the state after newPayload.  The MakeCanonical event it
\* returns for the sync target is dropped by on_engine_message.
OnNewPayload(s, b) ==
  LET low == LowestBufferedAncestorOr(s, b)
      bad == CheckInvalidAncestorWithHead(s, IF low = b THEN Parent[b] ELSE low, b)
      ans(t, status, lvh) == [s |-> t, status |-> status, lvh |-> lvh]
      err(t) == ans(MarkInvalid(t, b, b), "INVALID", LatestValidHashForInvalidPayload(t, Parent[b]))
  IN  IF bad.ok THEN ans(bad.val.s, "INVALID", bad.val.lvh)
      ELSE IF s.backfill # "Idle"
      THEN IF b \in Malformed THEN err(s) ELSE ans([s EXCEPT !.buffer = @ \cup {b}], "SYNCING", None)
      ELSE LET r == InsertBlock(s, b)
           IN  CASE r.res \in {"seen", "valid"} -> ans(r.s, "VALID", Some(b))
                 [] r.res = "disconnected"      -> ans(r.s, "SYNCING", None)
                 [] r.res = "consensus"         -> err(r.s)
                 [] OTHER                       -> ans(r.s, "ERROR", None)
-----------------------------------------------------------------------------
\* forkchoiceUpdated.


\* Fault: any known block passes, canonical or not.
EnsureKnownForkchoiceState(s, f) ==
  LET ok == {f.fin, f.safe} \subseteq Known(s) \cup {Zero}
  IN  [ok |-> ok, s |-> IF ok THEN [s EXCEPT !.fin = f.fin, !.safe = f.safe] ELSE s]

\* The finalized and then the safe block are recorded when they are canonical;
\* the first that is not makes the whole state invalid.
EnsureConsistentForkchoiceState(s, f) ==
  LET finOk  == f.fin = Zero \/ f.fin \in Canonical(s)
      safeOk == f.safe = Zero \/ f.safe \in Canonical(s)
      t      == IF finOk /\ f.fin # Zero THEN [s EXCEPT !.fin = f.fin] ELSE s
  IN  IF ~finOk THEN [ok |-> FALSE, s |-> s]
      ELSE [ok |-> safeOk, s |-> IF safeOk /\ f.safe # Zero THEN [t EXCEPT !.safe = f.safe] ELSE t]

\* The target of the download a forkchoice with a missing head asks for.
SyncTarget(s, f) ==
  LowestBufferedAncestorOr(s, IF ~s.latest /\ f.safe # Zero /\ f.safe \notin Canonical(s) THEN f.safe ELSE f.head)

SetLatest(s, f, status) ==
  [s EXCEPT !.latest = TRUE,
            !.syncing = CASE status = "VALID" -> None [] status = "SYNCING" -> Some(f) [] OTHER -> @]

OnForkchoiceUpdated(s, f, attrs) ==
  LET low == LowestBufferedAncestorOr(s, f.head)
      u   == OnNewHead(s, f.head)
      ans(t, status, lvh, build) == [s |-> SetLatest(t, f, status), status |-> status, lvh |-> lvh, build |-> build]
      apply(t) == LET e == EnsureConsistentForkchoiceState(t, f)
                  IN  IF e.ok THEN ans(e.s, "VALID", Some(f.head), attrs) ELSE ans(e.s, "INVALID", None, FALSE)
  IN  IF f.head = Zero THEN ans(s, "INVALID", None, FALSE)
      ELSE IF low \in DOMAIN s.invalid
      THEN ans(s, "INVALID", PrepareInvalidResponse(s, Parent[s.invalid[low]]), FALSE)
      ELSE IF s.backfill # "Idle" THEN ans(s, "SYNCING", None, FALSE)
      ELSE IF s.head = f.head THEN apply(s)
      ELSE IF u.ok THEN apply(OnCanonicalChainUpdate(s, f.head, u.val))
      ELSE IF f.head \in Canonical(s) THEN ans(s, "VALID", Some(f.head), FALSE)
      ELSE ans(EmitDownload(s, {SyncTarget(s, f)}), "SYNCING", None, FALSE)
-----------------------------------------------------------------------------
\* Downloaded blocks.

ExceedsBackfillRunThreshold(tip, n) == n > tip /\ n - tip > PipelineThreshold

\* The block a backfill should sync to, if the gap is large enough and the
\* finalized block of the sync target is not on the canonical chain yet.
BackfillSyncTarget(s, tip, n, downloaded) ==
  LET fin == IF s.syncing.ok THEN s.syncing.val.fin ELSE Zero
      far == IF fin \in downloaded \cup s.buffer THEN ExceedsBackfillRunThreshold(tip, Number[fin])
             ELSE ExceedsBackfillRunThreshold(tip, n)
  IN  IF ~far \/ ~s.syncing.ok \/ fin \in Canonical(s) THEN None
      ELSE Some(IF fin = Zero THEN s.syncing.val.head ELSE fin)

\* on_disconnected_downloaded_block, and the event it returns handled.
OnDisconnectedDownloadedBlock(s, b, missing) ==
  LET target == BackfillSyncTarget(s, Number[s.head], Number[missing], {b})
      range  == {x \in Ancestry[missing] : Number[x] > Number[s.head]} \cup {missing}
  IN  IF target.ok THEN [s |-> EmitBackfill(s, target.val), backfill |-> TRUE]
      ELSE [s |-> EmitDownload(s, range), backfill |-> FALSE]


OnDownloadedBlock(s, b) ==
  LET bad == CheckInvalidAncestorWithHead(s, LowestBufferedAncestorOr(s, b), b)
      r   == InsertBlock(s, b)
      on(t) == [s |-> t, backfill |-> FALSE]
  IN  CASE bad.ok                 -> on(bad.val.s)
        [] ~bad.ok /\ s.backfill # "Idle" -> on(s)
        [] OTHER -> CASE r.res = "valid"        -> on(IF IsSyncTargetHead(r.s, b) THEN MakeCanonical(r.s, b)
                                                      ELSE TryConnectBufferedBlocks(r.s, b))
                      [] r.res = "disconnected" -> OnDisconnectedDownloadedBlock(r.s, b, r.missing)
                      [] OTHER                  -> on(OnInsertBlockError(r.s, b, r.res))

\* One batch of the blocks; a backfill ends it and drops the rest, otherwise
\* what exceeds the batch size goes back to the queue.
RECURSIVE OnDownloaded(_, _, _)
OnDownloaded(s, blocks, n) ==
  IF blocks = <<>> THEN [s |-> s, rest |-> <<>>]
  ELSE IF n = 0 THEN [s |-> s, rest |-> blocks]
  ELSE LET r == OnDownloadedBlock(s, Head(blocks))
       IN  IF r.backfill THEN [s |-> r.s, rest |-> <<>>] ELSE OnDownloaded(r.s, Tail(blocks), n - 1)
-----------------------------------------------------------------------------
\* Backfill.


\* The finished pipeline reached block `tip`, or unwound a bad one.
OnBackfillSyncFinished(s, ctrl) ==
  LET idle == [s EXCEPT !.backfill = "Idle"]
      n    == Number[ctrl.block]
      old  == {b \in s.buffer : \E x \in Ancestry[b] \cap s.buffer : Number[x] <= n
                 /\ \A y \in Ancestry[b] : Number[y] > Number[x] => y \in s.buffer}
      t    == [RemoveBefore(idle, n) EXCEPT !.buffer = @ \ old, !.mem = {}, !.head = ctrl.block,
                                            !.last = n, !.busy = FALSE]
      fin  == s.syncing.val.fin
      more == BackfillSyncTarget(t, n, Number[fin], {})
  IN  IF ctrl.unwind THEN MarkInvalid(idle, ctrl.block, ctrl.block)
      ELSE IF ~s.syncing.ok THEN t
      ELSE IF fin = Zero THEN t
      ELSE IF fin \in t.buffer /\ more.ok THEN EmitBackfill(t, more.val)
      ELSE TryConnectBufferedBlocks(t, t.head)
-----------------------------------------------------------------------------
\* Persistence.

Minus(a, b) == IF a > b THEN a - b ELSE 0

ShouldPersist(s) == s.backfill = "Idle" /\ Minus(Number[s.head], s.last) > PersistenceThreshold

GetCanonicalBlocksToPersist(s) ==
  {b \in Ancestry[s.head] : s.last < Number[b] /\ Number[b] <= Minus(Number[s.head], MemoryBlockBufferTarget)
     /\ \A c \in Ancestry[s.head] : Number[c] >= Number[b] => c \in s.tree}

OnNewPersistedBlock(s) == [RemoveBefore(s, s.last) EXCEPT !.mem = {b \in @ : Number[b] > s.last}]

Top(S) == CHOOSE b \in S : \A c \in S : Number[c] <= Number[b]

\* The end of every iteration: start a task, or take the answer of the one in
\* progress.
AdvancePersistence(s) ==
  LET batch == GetCanonicalBlocksToPersist(s)
      top   == Top(save.blocks)
      free  == [s EXCEPT !.busy = FALSE]
  IN  IF ShouldPersist(s) /\ ~s.busy /\ batch # {}
      THEN [s |-> [s EXCEPT !.busy = TRUE], save |-> [blocks |-> batch, done |-> FALSE]]
      ELSE IF s.busy /\ save.done
      THEN [s |-> IF top \in s.tree THEN OnNewPersistedBlock([free EXCEPT !.last = Number[top]]) ELSE free,
            save |-> NoSave]
      ELSE [s |-> s, save |-> save]
-----------------------------------------------------------------------------
\* The handler at start: everything is rebuilt from the tip on disk.
Fresh(tip) ==
  [tree |-> {}, head |-> tip, mem |-> {}, fin |-> Zero, safe |-> Zero, buffer |-> {}, invalid |-> <<>>,
   latest |-> FALSE, syncing |-> None, busy |-> FALSE, last |-> Number[tip], backfill |-> "Idle", out |-> <<>>]

NoPipe == [state |-> "idle", target |-> Genesis]

\* What the emitted events do to the downloader and the pipeline.
DownloaderAfter(out) ==
  FoldLeft(LAMBDA w, e : IF e.to = "pipeline" THEN {} ELSE w \cup {e.blocks}, wanted, out)

PipelineAfter(out) ==
  FoldLeft(LAMBDA q, e : IF e.to = "pipeline" THEN [state |-> "requested", target |-> CHOOSE x \in e.blocks : TRUE]
                         ELSE q, pipe, out)

\* One iteration of `run`: the message left the handler in state s.
Iteration(s, ans) ==
  LET a == AdvancePersistence([s EXCEPT !.out = <<>>])
  IN  /\ st' = a.s
      /\ save' = a.save
      /\ wanted' = DownloaderAfter(s.out)
      /\ pipe' = PipelineAfter(s.out)
      /\ reply' = ans
      /\ UNCHANGED <<db, restarts>>

NewPayload(b) ==
  LET r == OnNewPayload(st, b)
  IN  Iteration(r.s, [kind |-> "payload", parent |-> Parent[b], status |-> r.status, lvh |-> r.lvh]) /\ UNCHANGED inbox

\* A payload for b that is not well formed changes nothing.
IllFormedPayload(b) ==
  /\ \E lvh \in {None, LatestValidHashForInvalidPayload(st, Parent[b])} :
        Iteration(st, [kind |-> "payload", parent |-> Parent[b], status |-> "INVALID", lvh |-> lvh])
  /\ UNCHANGED inbox

ForkchoiceUpdated(f, attrs) ==
  LET r == OnForkchoiceUpdated(st, f, attrs)
  IN  /\ Iteration(r.s, [kind |-> "fcu", f |-> f, status |-> r.status, lvh |-> r.lvh, build |-> r.build,
                         again |-> reply.kind = "fcu" /\ ~reply.again])
      /\ UNCHANGED inbox

\* A block the local payload builder has executed already.
InsertExecutedBlock(b) ==
  /\ Parent[b] = st.head
  /\ Iteration([st EXCEPT !.tree = @ \cup {b}], NoReply)
  /\ UNCHANGED inbox

\* The first message of the queue.
Message ==
  /\ inbox # <<>>
  /\ LET e == Head(inbox)
         d == OnDownloaded(st, e.blocks, MaxExecuteBlockBatchSize)
     IN  \/ /\ e.kind = "started"
            /\ Iteration([st EXCEPT !.backfill = "Active"], NoReply)
            /\ inbox' = Tail(inbox)
         \/ /\ e.kind = "finished"
            /\ Iteration(OnBackfillSyncFinished(st, e), NoReply)
            /\ inbox' = Tail(inbox)
         \/ /\ e.kind = "downloaded"
            /\ Iteration(d.s, NoReply)
            /\ inbox' = IF d.rest = <<>> THEN Tail(inbox)
                        ELSE Append(Tail(inbox), [kind |-> "downloaded", blocks |-> d.rest])

\* The 500 ms timeout of try_recv_engine_message.
Tick == st.busy /\ Iteration(st, NoReply) /\ UNCHANGED inbox

\* The persistence service writes its blocks in one transaction and answers.
SaveBlocks ==
  /\ save.blocks # {} /\ ~save.done
  /\ db' = db \cup save.blocks
  /\ save' = [save EXCEPT !.done = TRUE]
  /\ UNCHANGED <<st, pipe, inbox, wanted, reply, restarts>>

\* The downloader delivers a request it was given, lowest block first.
Deliver(S) ==
  /\ Len(inbox) < MaxInbox
  /\ S \in wanted
  /\ wanted' = wanted \ {S}
  /\ inbox' = Append(inbox, [kind |-> "downloaded",
                             blocks |-> SetToSortSeq(S, LAMBDA x, y : Number[x] < Number[y])])
  /\ UNCHANGED <<st, db, save, pipe, reply, restarts>>

\* The orchestrator starts the pipeline and says so.
StartPipeline ==
  /\ pipe.state = "requested"
  /\ pipe' = [pipe EXCEPT !.state = "running"]
  /\ inbox' = Append(inbox, [kind |-> "started"])
  /\ UNCHANGED <<st, db, save, wanted, reply, restarts>>

DiskTip == Top(db)

\* The pipeline stores the chain of its target, or unwinds to where it was
\* because the chain has a bad block.  Targets are on top of the disk's tip.
RunPipeline ==
  /\ pipe.state = "running"
  /\ LET chain == Ancestry[pipe.target]
         bad   == {b \in chain : b \in Malformed \cup Faulty}
         low   == CHOOSE b \in bad : \A c \in bad : Number[b] <= Number[c]
     IN  IF bad # {} THEN /\ inbox' = Append(inbox, [kind |-> "finished", unwind |-> TRUE, block |-> low])
                          /\ UNCHANGED db
         ELSE /\ DiskTip \in chain
              /\ inbox' = Append(inbox, [kind |-> "finished", unwind |-> FALSE, block |-> pipe.target])
              /\ db' = db \cup chain
  /\ pipe' = NoPipe
  /\ UNCHANGED <<st, save, wanted, reply, restarts>>

\* The node stops, at any time, and starts again on what is on disk.
Restart ==
  /\ restarts < Restarts
  /\ restarts' = restarts + 1
  /\ st' = Fresh(DiskTip)
  /\ save' = NoSave /\ pipe' = NoPipe /\ inbox' = <<>> /\ wanted' = {} /\ reply' = NoReply
  /\ UNCHANGED db

Init ==
  /\ st = Fresh(Genesis)
  /\ db = {Genesis}
  /\ save = NoSave /\ pipe = NoPipe /\ inbox = <<>> /\ wanted = {} /\ reply = NoReply
  /\ restarts = 0

Service == SaveBlocks \/ (\E S \in wanted : Deliver(S)) \/ StartPipeline \/ RunPipeline

Next ==
  \/ \E b \in Payloads : NewPayload(b) \/ IllFormedPayload(b)
  \/ \E f \in Forkchoices, attrs \in BOOLEAN : ForkchoiceUpdated(f, attrs)
  \/ \E b \in Executed : InsertExecutedBlock(b)
  \/ Message \/ Tick \/ Service \/ Restart

Spec == Init /\ [][Next]_vars

\* Fairness: the persistence thread, the downloader, the pipeline and the
\* orchestrator make progress on what they were asked, and the handler's loop
\* takes the next message or times out.
FairSpec == Spec /\ ([]<>(inbox = <<>>) \/ []<><<Message>>_vars) /\ WF_vars(Tick) /\ WF_vars(SaveBlocks)
                 /\ WF_vars(\E S \in wanted : Deliver(S)) /\ WF_vars(StartPipeline) /\ WF_vars(RunPipeline)

\* And a consensus client that settles on one forkchoice and keeps sending it,
\* as it does every slot (every forkchoice changes reply.again).
FairClientSpec == FairSpec /\ []<><<\E attrs \in BOOLEAN : ForkchoiceUpdated(Settled, attrs)>>_vars
-----------------------------------------------------------------------------
\* The canonical blocks in memory are exactly those between the last persisted
\* block and the head, through reorgs, persistence, backfills and restarts.
MemoryIsCanonicalChain == st.mem = {b \in Ancestry[st.head] : Number[b] > st.last}

\* The head is on top of everything that is on disk or on its way there.  A reorg
\* of the batch being written ends this: the handler keeps that batch.
HeadAboveDisk == db \cup save.blocks \subseteq Ancestry[st.head]

\* As long as the head is above the disk, a batch handed to the persistence service
\* is the next stretch of the chain on disk (save_blocks appends to static files and
\* never looks for a gap), and the canonical blocks in memory "can be traced back to
\* a canonical block on disk".
BatchExtendsDisk ==
  HeadAboveDisk =>
     /\ (save.blocks # {} /\ ~save.done) =>
          \A b \in save.blocks : Parent[b] \in save.blocks \/ Parent[b] = DiskTip
     /\ \A b \in st.mem : MissingAncestor(b, st.mem) \in db

\* emit_event: "backfill sync and persisting data are mutually exclusive": no
\* batch is being written from the moment the pipeline is asked for until the
\* handler has seen it finish.
BackfillExcludesPersistence == (pipe.state # "idle" \/ st.backfill # "Idle") => save = NoSave

\* The handler's view of the pipeline follows it: the pipeline is never asked
\* for while a run is still going on or not yet reported.
PipelineStateTracked ==
  /\ pipe.state = "requested" => st.backfill = "Pending"
  /\ pipe.state = "running" => st.backfill \in {"Pending", "Active"}
  /\ st.backfill = "Idle" => \A i \in 1..Len(inbox) : inbox[i].kind = "downloaded"

\* As long as the head is above the disk, a forkchoice answered VALID on a new or
\* the current head has its finalized and safe block on that head's chain; and
\* always a payload is only built on the head that was asked for.
AcceptedForkchoiceConsistent ==
  (reply.kind = "fcu" /\ reply.status = "VALID") =>
     /\ HeadAboveDisk /\ st.head = reply.f.head => {reply.f.fin, reply.f.safe} \ {Zero} \subseteq Ancestry[st.head]
     /\ reply.build => st.head = reply.f.head

\* A block known to be invalid, or on top of one, is never executed, canonical
\* or stored, and nothing else is ever marked: every mark has a bad ancestor.
InvalidStaysOut ==
  \A h \in DOMAIN st.invalid : h \notin Known(st) /\ Ancestry[h] \cap (Malformed \cup Faulty) # {}

\* The latestValidHash of an INVALID answer is an ancestor of the payload that is
\* valid, and every ancestor above it descends from a bad block.
LatestValidHashIsLatest ==
  (reply.kind = "payload" /\ reply.status = "INVALID" /\ reply.lvh.ok /\ reply.lvh.val # Zero) =>
     LET good == {c \in Ancestry[reply.parent] : Ancestry[c] \cap (Malformed \cup Faulty) = {}}
     IN  reply.lvh.val \in good /\ \A c \in good : Number[c] <= Number[reply.lvh.val]

\* A persistence task is always answered and taken note of, even when no
\* message arrives (the timeout of try_recv_engine_message).
PersistenceEnds == []<>(~st.busy)

\* A client that keeps asking for a valid head gets it, by single blocks,
\* ranges, the buffer or a backfill, through restarts and skipped backfills.
Synced == <>[](Settled.head \in Canonical(st))

\* TreeState: "This only stores blocks that are connected to the canonical
\* chain."
TreeConnected == \A b \in st.tree : MissingAncestor(b, st.tree) \in Canonical(st)

\* on_new_payload: "if the block is valid and it is the sync target head, make
\* it canonical".
SyncTargetPayloadCanonical ==
       \A b \in Payloads : (NewPayload(b) /\ reply'.status = "VALID" /\ IsSyncTargetHead(st, b)) => st'.head = b
=============================================================================
