----------------------------- MODULE EngineSync -----------------------------
(***************************************************************************)
(* The task around the engine API tree: the ChainOrchestrator (chain.rs)   *)
(* polls the pipeline (backfill.rs) and the EngineHandler (engine.rs),     *)
(* which polls the tree's events, the consensus client's requests and the  *)
(* block downloader (download.rs).                                         *)
(*                                                                         *)
(* The task is a future: it sleeps until a source whose waker it has       *)
(* registered becomes ready.  A source that is polled and not ready keeps  *)
(* the waker; a source that is not polled does not.  pc is the source that *)
(* is polled next.                                                         *)
(***************************************************************************)
EXTENDS Naturals, Sequences, FiniteSets, SequencesExt

CONSTANTS Hashes, Number,        \* blocks and their numbers
          Singles, Ranges,       \* the downloads the tree may ask for
          NoTarget, Zero, Targets,
          MaxEvents,             \* bound on the tree's events
          MaxRequests,           \* bound on the client's requests
          MayFail                \* may the pipeline fail

VARIABLES pc,        \* "sleep", "backfill", "handler", "incoming", "downloader", "dead"
          awake,     \* the task was woken
          wakers,    \* the sources that hold its waker
          pipe,      \* PipelineSync: state, pending target, result; targets set and runs
          fromTree,  \* events the tree has sent
          toTree,    \* messages for the tree
          incoming,  \* requests of the consensus client not yet taken
          dl,        \* BasicBlockDownloader: in-flight requests, events, answered
          treeState, \* the tree's backfill state
          events, requests   \* counters for the bounds

vars == <<pc, awake, wakers, pipe, fromTree, toTree, incoming, dl, treeState, events, requests>>

\* A source becomes ready: the task wakes up if the source holds its waker.
Wake(source) ==
  /\ awake' = (awake \/ source \in wakers)
  /\ wakers' = wakers \ {source}

Register(source) == wakers' = wakers \cup {source} /\ UNCHANGED awake

Poll == pc = "sleep" /\ awake /\ pc' = "backfill" /\ awake' = FALSE
        /\ UNCHANGED <<wakers, pipe, fromTree, toTree, incoming, dl, treeState, events, requests>>
-----------------------------------------------------------------------------
\* PipelineSync.

SetPipelineSyncTarget(p, t) == IF t = Zero THEN p ELSE [p EXCEPT !.target = t, !.asked = @ + 1]

TrySpawnPipeline(p) == [p EXCEPT !.state = "running", !.result = "none", !.target = NoTarget, !.runs = @ + 1]

\* A pipeline that panics takes the sender of its result with it: TaskDropped.
TaskDropped ==
  /\ pipe.state = "running" /\ pipe.result = "failed"
  /\ pc' = "dead"
  /\ UNCHANGED <<pipe, toTree, awake, wakers>>

PollBackfill ==
  /\ pc = "backfill"
  /\ \/ /\ pipe.state = "idle" /\ pipe.target # NoTarget
        /\ pipe' = TrySpawnPipeline(pipe)
        /\ toTree' = Append(toTree, [kind |-> "started"])
        /\ UNCHANGED <<pc, awake, wakers>>
     \/ /\ pipe.state = "running" /\ pipe.result = "ok"
        /\ pipe' = [pipe EXCEPT !.state = "idle", !.result = "none"]
        /\ toTree' = Append(toTree, [kind |-> "finished"])
        /\ UNCHANGED <<pc, awake, wakers>>
     \/ TaskDropped
     \/ /\ pipe.state = "running" /\ pipe.result = "none"
        /\ pc' = "handler"
        /\ Register("pipeline")
        /\ UNCHANGED <<pipe, toTree>>
     \/ /\ pipe.state = "idle" /\ pipe.target = NoTarget
        /\ pc' = "handler"
        /\ UNCHANGED <<pipe, toTree, awake, wakers>>
  /\ UNCHANGED <<fromTree, incoming, dl, treeState, events, requests>>
-----------------------------------------------------------------------------
\* BasicBlockDownloader.

\* clear: the pending events stay.
Clear(d) == [d EXCEPT !.inflight = {}, !.ready = {}]

\* A single block already in flight is not requested again; a range asked for
\* twice, which is delivered twice, is one request here.
Download(d, r) ==
  IF Cardinality(r) = 1 /\ r \in d.inflight THEN d
  ELSE [d EXCEPT !.inflight = @ \cup {r}, !.events = @ + 1]

\* The buffered blocks leave the heap by number.
Drained(S) == SetToSortSeq(S, LAMBDA x, y : Number[x] < Number[y])

\* EngineHandler::poll takes only Blocks from the downloader: a poll that
\* returns a NewDownloadStarted event ends it with no request polled.
PollDownloader ==
  /\ pc = "downloader"
  /\ \/ /\ dl.events > 0
        /\ dl' = [dl EXCEPT !.events = @ - 1]
        /\ pc' = "sleep"
        /\ UNCHANGED <<toTree, awake, wakers>>
     \/ /\ dl.events = 0 /\ dl.ready = {}
        /\ pc' = "sleep"
        /\ IF dl.inflight = {} THEN UNCHANGED <<awake, wakers>> ELSE Register("download")
        /\ UNCHANGED <<dl, toTree>>
     \/ /\ dl.events = 0 /\ dl.ready # {}
        /\ dl' = [dl EXCEPT !.inflight = @ \ dl.ready, !.ready = {}]
        /\ toTree' = Append(toTree, [kind |-> "blocks", blocks |-> Drained(UNION dl.ready)])
        /\ pc' = "handler"
        /\ IF dl.inflight = dl.ready THEN UNCHANGED <<awake, wakers>> ELSE Register("download")
  /\ UNCHANGED <<pipe, fromTree, incoming, treeState, events, requests>>
-----------------------------------------------------------------------------
\* EngineHandler: the tree's events first, then the client's requests.

\* A download stays with the handler; a backfill request or an event ends its
\* poll, and the orchestrator starts again with the pipeline.
AfterEvent(kind) == IF kind = "download" THEN "handler" ELSE "backfill"

PollHandler ==
  /\ pc = "handler"
  /\ \/ /\ fromTree = <<>>
        /\ pc' = "incoming"
        /\ Register("tree")
        /\ UNCHANGED <<fromTree, dl, pipe>>
     \/ /\ fromTree # <<>>
        /\ LET e == Head(fromTree)
           IN  /\ fromTree' = Tail(fromTree)
               /\ dl' = CASE e.kind = "download" -> Download(dl, e.blocks)
                          [] e.kind = "backfill" -> Clear(dl)
                          [] OTHER -> dl
               /\ pipe' = IF e.kind = "backfill" THEN SetPipelineSyncTarget(pipe, e.target) ELSE pipe
               /\ pc' = AfterEvent(e.kind)
        /\ UNCHANGED <<awake, wakers>>
  /\ UNCHANGED <<toTree, incoming, treeState, events, requests>>

\* Fault: the poll goes on without it, and nobody wakes the task for the next one.
ForwardedOnce == "downloader"

\* The loop polls the handler again after a forwarded request.
Forwarded == "handler"

PollIncoming ==
  /\ pc = "incoming"
  /\ \/ /\ incoming > 0
        /\ incoming' = incoming - 1
        /\ toTree' = Append(toTree, [kind |-> "request"])
        /\ pc' = Forwarded
        /\ UNCHANGED <<awake, wakers>>
     \/ /\ incoming = 0
        /\ pc' = "downloader"
        /\ Register("client")
        /\ UNCHANGED <<incoming, toTree>>
  /\ UNCHANGED <<pipe, fromTree, dl, treeState, events, requests>>
-----------------------------------------------------------------------------
\* The surroundings.

\* The consensus client sends a request.
ClientRequest ==
  /\ requests < MaxRequests
  /\ requests' = requests + 1
  /\ incoming' = incoming + 1
  /\ Wake("client")
  /\ UNCHANGED <<pc, pipe, fromTree, toTree, dl, treeState, events>>

\* The tree thread takes a message and answers a request or downloaded blocks
\* with an event: a download or a backfill only while it is idle.
TreeTakes ==
  /\ toTree # <<>>
  /\ toTree' = Tail(toTree)
  /\ LET e == Head(toTree)
     IN  \/ /\ e.kind \in {"started", "finished"}
            /\ treeState' = IF e.kind = "started" THEN "Active" ELSE "Idle"
            /\ UNCHANGED <<fromTree, events, awake, wakers>>
         \/ /\ e.kind \in {"request", "blocks"}
            /\ UNCHANGED <<treeState, fromTree, events, awake, wakers>>
         \/ /\ e.kind \in {"request", "blocks"} /\ events < MaxEvents
            /\ events' = events + 1
            /\ Wake("tree")
            /\ \/ fromTree' = Append(fromTree, [kind |-> "event"]) /\ UNCHANGED treeState
               \/ /\ treeState = "Idle"
                  /\ \E r \in Singles \cup Ranges : fromTree' = Append(fromTree, [kind |-> "download", blocks |-> r])
                  /\ UNCHANGED treeState
               \/ /\ treeState = "Idle"
                  /\ treeState' = "Pending"
                  /\ \E t \in Targets : fromTree' = Append(fromTree, [kind |-> "backfill", target |-> t])
  /\ UNCHANGED <<pc, pipe, incoming, dl, requests>>

\* A peer answers a request.
NetworkAnswers(r) ==
  /\ r \in dl.inflight \ dl.ready
  /\ dl' = [dl EXCEPT !.ready = @ \cup {r}]
  /\ Wake("download")
  /\ UNCHANGED <<pc, pipe, fromTree, toTree, incoming, treeState, events, requests>>

\* The pipeline task ends, or panics.
PipelineEnds ==
  /\ pipe.state = "running" /\ pipe.result = "none"
  /\ \E res \in IF MayFail THEN {"ok", "failed"} ELSE {"ok"} : pipe' = [pipe EXCEPT !.result = res]
  /\ Wake("pipeline")
  /\ UNCHANGED <<pc, fromTree, toTree, incoming, dl, treeState, events, requests>>

\* The launcher may start the orchestrator with a backfill target.
Init ==
  /\ pc = "sleep" /\ awake = TRUE /\ wakers = {}
  /\ LET idle == [state |-> "idle", target |-> NoTarget, result |-> "none", asked |-> 0, runs |-> 0]
     IN  pipe = idle \/ \E t \in Targets : pipe = SetPipelineSyncTarget(idle, t)
  /\ fromTree = <<>> /\ toTree = <<>> /\ incoming = 0
  /\ dl = [inflight |-> {}, ready |-> {}, events |-> 0]
  /\ treeState = "Idle" /\ events = 0 /\ requests = 0

Task == Poll \/ PollBackfill \/ PollHandler \/ PollIncoming \/ PollDownloader
Answers == \E r \in Singles \cup Ranges : NetworkAnswers(r)

Next == Task \/ ClientRequest \/ TreeTakes \/ Answers \/ PipelineEnds

Spec == Init /\ [][Next]_vars

\* A woken task is polled and polls to the end, the tree thread takes its
\* messages, peers answer and the pipeline ends.  Nothing is assumed of the
\* client.
FairSpec == Spec /\ WF_vars(Task) /\ WF_vars(TreeTakes) /\ WF_vars(Answers) /\ WF_vars(PipelineEnds)
-----------------------------------------------------------------------------
\* Every target that was set is run once: the tree asks for no second one
\* before the first has ended, and none is started twice.
EachTargetRunOnce == pipe.runs + (IF pipe.target = NoTarget THEN 0 ELSE 1) = pipe.asked

\* Started and Finished reach the tree in turn, and once it has read them all
\* it knows whether the pipeline holds the database.
RunsAlternate ==
  LET runs == SelectSeq(toTree, LAMBDA e : e.kind \in {"started", "finished"})
  IN  /\ \A i \in 1..Len(runs) - 1 : runs[i].kind # runs[i + 1].kind
      /\ runs # <<>> => (Last(runs).kind = "started") = (pipe.state = "running")
      /\ runs = <<>> => (treeState = "Active") = (pipe.state = "running")

\* Blocks requested before a backfill are not delivered after it has started:
\* the backfill request clears the downloader.
NoBlocksDuringBackfill ==
  \A j \in 1..Len(toTree) : toTree[j].kind = "blocks" =>
     \A i \in 1..j - 1 : toTree[i].kind = "started" => \E k \in i..j : toTree[k].kind = "finished"

\* Downloaded blocks reach the tree by ascending number and each once, whatever
\* requests delivered them together.
BlocksAscending ==
  \A j \in 1..Len(toTree) : toTree[j].kind = "blocks" =>
     LET b == toTree[j].blocks IN \A i \in 1..Len(b) - 1 : Number[b[i]] < Number[b[i + 1]]

\* A backfill the tree asked for is run to its end, and the tree is told.
BackfillEnds == []<>(treeState = "Idle" \/ pc = "dead")

\* Every request of the consensus client reaches the tree.
RequestsForwarded == []<>(incoming = 0 \/ pc = "dead")

\* BlockDownloader::poll: "Advance in progress requests if any": a request a
\* peer has answered is delivered or cleared, unless the task sleeps because a
\* NewDownloadStarted event ended its last poll before the requests were polled
\* and nothing has woken it since.
Overslept == pc = "sleep" /\ ~awake /\ "download" \notin wakers
DownloadsAdvance == []<>(dl.ready = {} \/ Overslept \/ pc = "dead")
=============================================================================
