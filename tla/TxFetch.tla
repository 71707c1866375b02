------------------------------- MODULE TxFetch -------------------------------
(***************************************************************************)
(* How announced transactions are fetched: the TransactionFetcher          *)
(* (network/transactions/fetcher.rs) and the TransactionsManager's         *)
(* handling of announcements, responses and imports                        *)
(* (network/transactions/mod.rs).  One task; the sessions, the pool's      *)
(* imports and the remote peers answer at their own time.                  *)
(***************************************************************************)
EXTENDS Integers, FiniteSets

CONSTANTS Hashes, FetchPeers,
          MaxRetries,      \* DEFAULT_MAX_RETRIES
          MaxInflight,     \* max_inflight_requests
          MaxMessages,     \* bound on announcements, broadcasts and session events
          EmptyAnswers,    \* may a peer answer with none of the requested transactions
          FullChannel,     \* may the channel to a session be full or closed
          Departed,        \* may a session end before the answer it gave is handled
          BudgetSpent,     \* may the search for more hashes run out of budget
          Refused          \* may the pool refuse a transaction that is not bad

VARIABLES sessions,  \* peers
          seen,      \* seen_transactions of each peer
          meta,      \* hashes_fetch_inflight_and_pending_fetch: retries and fallback peers
          unfetched,   \* hashes_pending_fetch
          count,     \* active_peers: requests in flight of each peer
          fetching,  \* inflight_requests
          importing, \* transactions_by_peers: who sent what is being imported
          txpool, bad, \* the pool's transactions, bad_imports
          messages

fetchVars == <<sessions, seen, meta, unfetched, count, fetching, importing, txpool, bad, messages>>
fetcher == <<meta, unfetched, count, fetching>>

Spend == messages < MaxMessages /\ messages' = messages + 1
Without(f, S) == [x \in DOMAIN f \ S |-> f[x]]
-----------------------------------------------------------------------------
\* The fetcher's operations, on its state st = [meta, pending, count, inflight].

Fetcher == [meta |-> meta, pending |-> unfetched, count |-> count, inflight |-> fetching]

Becomes(st) == meta' = st.meta /\ unfetched' = st.pending /\ count' = st.count /\ fetching' = st.inflight

\* remove_hashes_from_transaction_fetcher.
Removed(st, hs) == [st EXCEPT !.meta = Without(@, hs), !.pending = @ \ hs]

\* What is known of a hash, with other fallback peers.
FallingBack(m, ps) == [m EXCEPT !.fallback = ps]

\* buffer_hashes with a fallback peer.
Buffered(st, hs, p) ==
  LET known == hs \cap DOMAIN st.meta
  IN  [st EXCEPT !.meta = [h \in DOMAIN @ |-> IF h \in known THEN FallingBack(@[h], @[h].fallback \cup {p}) ELSE @[h]],
                 !.pending = @ \cup known]

\* Fault: a hash that has used up its retries is only skipped.
RetriedKept(st, hs, p) ==
  LET known == hs \cap DOMAIN st.meta
      over == {h \in known : st.meta[h].retries >= MaxRetries}
  IN  [st EXCEPT !.meta = [h \in DOMAIN @ |-> IF h \in known \ over
                                              THEN [retries |-> @[h].retries + 1, fallback |-> @[h].fallback \ {p}]
                                              ELSE @[h]],
                 !.pending = @ \cup (known \ over)]

\* try_buffer_hashes_for_retry: the peer is no fallback any more, and a hash that
\* has used up its retries is forgotten.
Retried(st, hs, p) ==
  LET known == hs \cap DOMAIN st.meta
      over == {h \in known : st.meta[h].retries >= MaxRetries}
      kept == [st EXCEPT !.meta = [h \in DOMAIN @ |-> IF h \in known \ over
                                                      THEN [retries |-> @[h].retries + 1, fallback |-> @[h].fallback \ {p}]
                                                      ELSE @[h]],
                         !.pending = @ \cup (known \ over)]
  IN  Removed(kept, over)

\* is_idle: one request per peer.
Idle(st, p) == st.count[p] = 0

ActivePeers(st) == Cardinality({p \in FetchPeers : st.count[p] > 0})

\* request_transactions_from_peer: a request that cannot be made goes back to the
\* buffer; full says that the session's channel does not take it.
Requested(st, hs, p, full) ==
  IF ActivePeers(st) >= MaxInflight \/ ~Idle(st, p) THEN Buffered(st, hs, p)
  ELSE LET counted == [st EXCEPT !.count[p] = @ + 1]
       IN  IF full THEN Buffered(counted, hs, p)
           ELSE [counted EXCEPT !.inflight = @ \cup {[peer |-> p, hashes |-> hs]}]

\* filter_unseen_and_pending_hashes: what remains of an announcement is new or
\* was waiting; of a hash in flight the fallback peers with a session are removed.
Filtered(st, hs) ==
  LET new == {h \in hs : h \notin DOMAIN st.meta /\ h \notin bad}
      waiting == hs \cap st.pending
      flying == (hs \cap DOMAIN st.meta) \ waiting
  IN  [keep |-> new \cup waiting,
       st |-> [st EXCEPT !.pending = @ \ waiting,
                         !.meta = [h \in DOMAIN @ \cup new |->
                                     IF h \in new THEN [retries |-> 0, fallback |-> {}]
                                     ELSE IF h \in flying THEN FallingBack(@[h], @[h].fallback \ sessions)
                                     ELSE @[h]]]]

\* import_transactions: the transactions that are new go to the pool.
Imported(st, p, txs) ==
  IF p \notin sessions THEN Becomes(st) /\ UNCHANGED importing
  ELSE /\ Becomes(Removed(st, txs))
       /\ LET unknown == txs \ txpool
              new == {h \in unknown : h \notin DOMAIN importing /\ h \notin bad}
          IN  importing' = [h \in DOMAIN importing \cup new |->
                              IF h \in new THEN {p} ELSE IF h \in unknown THEN importing[h] \cup {p} ELSE importing[h]]
-----------------------------------------------------------------------------
\* on_new_pooled_transaction_hashes: a request for as many hashes as fit in a
\* message, the rest waits.
Announce(p) ==
  /\ p \in sessions /\ Spend
  /\ \E hs \in SUBSET Hashes \ {{}} :
       LET f == Filtered(Fetcher, (hs \ DOMAIN importing) \ txpool)
       IN  /\ seen' = [seen EXCEPT ![p] = @ \cup hs]
           /\ IF f.keep = {} THEN Becomes(f.st)
              ELSE IF ~Idle(f.st, p) THEN Becomes(Buffered(f.st, f.keep, p))
              ELSE \E pack \in SUBSET f.keep \ {{}}, full \in {FALSE} \cup {FullChannel} :
                      Becomes(Requested(Buffered(f.st, f.keep \ pack, p), pack, p, full))
  /\ UNCHANGED <<sessions, importing, txpool, bad>>

\* IncomingTransactions.
Broadcast(p) ==
  /\ p \in sessions /\ Spend
  /\ \E h \in Hashes : seen' = [seen EXCEPT ![p] = @ \cup {h}] /\ Imported(Fetcher, p, {h})
  /\ UNCHANGED <<sessions, txpool, bad>>

\* on_fetch_hashes_pending_fetch: an idle fallback peer is asked for a waiting
\* hash and for others it has announced.
FetchPending ==
  /\ \E h \in unfetched :
       \E p \in meta[h].fallback \cap sessions :
          /\ Idle(Fetcher, p)
          /\ \E more \in SUBSET ((unfetched \ {h}) \cap seen[p]),
                full \in {FALSE} \cup {FullChannel}, spent \in {FALSE} \cup {BudgetSpent} :
               LET st == [Fetcher EXCEPT !.pending = (@ \ {h}) \ (IF spent THEN {} ELSE more)]
               IN  Becomes(Requested(st, {h} \cup more, p, full))
  /\ UNCHANGED <<sessions, seen, importing, txpool, bad, messages>>

\* decrement_inflight_request_count_for.
Landed(req) ==
  [Fetcher EXCEPT !.inflight = @ \ {req}, !.count[req.peer] = IF @ > 0 THEN @ - 1 ELSE @]

\* on_resolved_get_pooled_transactions_request_fut: an answer with some of the
\* transactions; what is missing is retried, unless all of it is missing.
Fetched(req) ==
  /\ req.peer \notin sessions => Departed
  /\ \E txs \in SUBSET req.hashes :
        /\ txs = {} => EmptyAnswers
        /\ Imported(IF txs = {} THEN Landed(req) ELSE Retried(Landed(req), req.hashes \ txs, req.peer), req.peer, txs)
  /\ UNCHANGED <<sessions, seen, txpool, bad, messages>>

\* An error, a timeout or a closed channel.
FetchError(req) ==
  /\ Becomes(Retried(Landed(req), req.hashes, req.peer))
  /\ UNCHANGED <<sessions, seen, importing, txpool, bad, messages>>

\* on_good_import, on_bad_import.
ImportResult(h) ==
  /\ h \in DOMAIN importing
  /\ importing' = Without(importing, {h})
  /\ \E result \in {"good", "bad", "refused"} :
       /\ result = "refused" => Refused
       /\ txpool' = IF result = "good" THEN txpool \cup {h} ELSE txpool
       /\ bad' = IF result = "bad" THEN bad \cup {h} ELSE bad
  /\ UNCHANGED <<sessions, seen, fetcher, messages>>

\* on_network_event.
SessionEvent(p) ==
  /\ Spend
  /\ sessions' = IF p \in sessions THEN sessions \ {p} ELSE sessions \cup {p}
  /\ seen' = [seen EXCEPT ![p] = {}]
  /\ UNCHANGED <<fetcher, importing, txpool, bad>>

FetchInit ==
  /\ sessions = FetchPeers /\ seen = [p \in FetchPeers |-> {}]
  /\ meta = <<>> /\ unfetched = {} /\ count = [p \in FetchPeers |-> 0] /\ fetching = {}
  /\ importing = <<>> /\ txpool = {} /\ bad = {} /\ messages = 0

FetchNext ==
  \/ FetchPending
  \/ \E p \in FetchPeers : Announce(p) \/ Broadcast(p) \/ SessionEvent(p)
  \/ \E req \in fetching : Fetched(req) \/ FetchError(req)
  \/ \E h \in Hashes : ImportResult(h)

\* The fetcher's task runs whenever there is something to do and every request is
\* answered or times out.
FetchFairness ==
  /\ WF_fetchVars(FetchPending)
  /\ \A h \in Hashes : WF_fetchVars(ImportResult(h))
  /\ WF_fetchVars(\E req \in fetching : FetchError(req))

FetchSpec == FetchInit /\ [][FetchNext]_fetchVars
-----------------------------------------------------------------------------
Flying == UNION {req.hashes : req \in fetching}

\* A hash the fetcher tracks is waiting for a peer or in a request: none is kept
\* that nobody will ever fetch, which would also keep it from being fetched when
\* it is announced again.
NoneForgotten == DOMAIN meta \subseteq unfetched \cup Flying

\* "It's disjoint from the set of hashes which are awaiting an idle fallback
\* peer": a hash is not fetched while it waits.
WaitingNotFlying == unfetched \cap Flying = {}

\* The count of a peer's requests is that of the requests in flight: a count
\* that stays up makes the peer busy for ever.
CountsMatch == \A p \in FetchPeers : count[p] = Cardinality({req \in fetching : req.peer = p})

\* "store peer as fallback peer": who announces a hash in flight can be asked
\* when the request fails.
FallbackStored ==
       \A p \in FetchPeers, h \in Flying : (h \in seen'[p] \ seen[p] /\ h \in DOMAIN meta') => p \in meta'[h].fallback

\* The fetcher's books: a hash it tracks is waiting or in a request, unless a peer
\* answered with nothing (EmptyAnswers) or had gone by the time its answer was
\* handled (Departed); it does not wait while it is in a request, unless the search
\* for more hashes ran out of budget (BudgetSpent) or a refused transaction is
\* fetched again (Refused); and the counts of requests are right unless a session's
\* channel was full (FullChannel).
HashesTracked ==
  /\ EmptyAnswers \/ Departed \/ NoneForgotten
  /\ BudgetSpent \/ Refused \/ WaitingNotFlying
  /\ FullChannel \/ CountsMatch

\* A hash does not stay in flight and waiting for ever: it is fetched, given up or
\* left without a peer that could be asked (checked with EmptyAnswers, FullChannel,
\* Departed, BudgetSpent and Refused off).
Settles == []<>(\A h \in DOMAIN meta : h \in unfetched /\ meta[h].fallback \cap sessions = {})
=============================================================================
