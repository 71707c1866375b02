---------------------------- MODULE NetworkProofs ----------------------------
(***************************************************************************)
(* Proofs about the components of the peer-to-peer network, for any number *)
(* of peers, transactions and requests.                                    *)
(***************************************************************************)
EXTENDS TxFetch, TxGossip, FiniteSetTheorems, TLAPS

(***************************************************************************)
(* Fetching transactions.  The books are the tracked hashes D, those of    *)
(* them that wait W, the counts C and the requests in flight F; in the     *)
(* middle of a step X is being moved from one place to another.  K is what *)
(* is not asked for again: imported, pooled or bad.                        *)
(***************************************************************************)
Forms == [peer : FetchPeers, hashes : SUBSET Hashes]

BooksTyped(D, W, C, F) == W \subseteq D /\ D \subseteq Hashes /\ C \in [FetchPeers -> Nat] /\ F \subseteq Forms

BooksKept(D, W, F, X) == \A h \in D : h \in W \cup X \/ \E req \in F : h \in req.hashes

BooksApart(D, W, F, X, K) ==
  /\ X \subseteq D /\ X \cap W = {}
  /\ \A req \in F : req.hashes \cap W = {} /\ req.hashes \cap X = {} /\ req.hashes \subseteq D \cup K
  /\ \A req, other \in F : req.hashes \cap other.hashes # {} => req = other

BooksCounted(C, F) ==
  /\ \A p \in FetchPeers : C[p] = 0 \/ (C[p] = 1 /\ \E req \in F : req.peer = p)
  /\ \A req \in F : C[req.peer] = 1
  /\ \A req, other \in F : req.peer = other.peer => req = other

Books(D, W, C, F, X, K) ==
  /\ BooksTyped(D, W, C, F)
  /\ EmptyAnswers \/ Departed \/ BooksKept(D, W, F, X)
  /\ BudgetSpent \/ Refused \/ BooksApart(D, W, F, X, K)
  /\ FullChannel \/ BooksCounted(C, F)

BooksOf(st, X, K) ==
  /\ DOMAIN st = {"meta", "pending", "count", "inflight"}
  /\ Books(DOMAIN st.meta, st.pending, st.count, st.inflight, X, K)

\* What keeps a hash from being asked for.
Settled == DOMAIN importing \cup txpool \cup bad

FetchInv == sessions \subseteq FetchPeers /\ BooksOf(Fetcher, {}, Settled)

\* Moving some of X to the waiting hashes (buffer_hashes).
LEMMA BooksWait ==
  ASSUME NEW D, NEW W, NEW C, NEW F, NEW X, NEW K, NEW hs, hs \subseteq X, Books(D, W, C, F, X, K)
  PROVE  Books(D, W \cup (hs \cap D), C, F, X \ hs, K)
<1>1. BooksTyped(D, W \cup (hs \cap D), C, F)
  BY DEF Books, BooksTyped
<1>2. EmptyAnswers \/ Departed \/ BooksKept(D, W \cup (hs \cap D), F, X \ hs)
  BY DEF Books, BooksKept
<1>3. BudgetSpent \/ Refused \/ BooksApart(D, W \cup (hs \cap D), F, X \ hs, K)
  BY DEF Books, BooksApart
<1> QED
  BY <1>1, <1>2, <1>3 DEF Books

\* Moving some of X to a new request of an idle peer (request_transactions_from_peer).
LEMMA BooksRequest ==
  ASSUME NEW D, NEW W, NEW C, NEW F, NEW X, NEW K, NEW hs \in SUBSET Hashes, hs \subseteq X,
         NEW p \in FetchPeers, Books(D, W, C, F, X, K), C[p] = 0
  PROVE  Books(D, W, [C EXCEPT ![p] = @ + 1], F \cup {[peer |-> p, hashes |-> hs]}, X \ hs, K)
<1> DEFINE new == [peer |-> p, hashes |-> hs]
           G == F \cup {new}
           E == [C EXCEPT ![p] = @ + 1]
<1>1. new \in Forms /\ new.peer = p /\ new.hashes = hs
  BY DEF Forms
<1>2. E \in [FetchPeers -> Nat] /\ E[p] = 1 /\ \A q \in FetchPeers : q # p => E[q] = C[q]
  BY DEF Books, BooksTyped
<1> HIDE DEF new, E
<1>3. BooksTyped(D, W, E, G)
  BY <1>1, <1>2 DEF Books, BooksTyped
<1>4. EmptyAnswers \/ Departed \/ BooksKept(D, W, G, X \ hs)
  <2> SUFFICES ASSUME BooksKept(D, W, F, X), NEW x \in D, x \notin W, x \notin X \ hs
               PROVE  \E req \in G : x \in req.hashes
    BY DEF Books, BooksKept
  <2>1. CASE x \in hs
    BY <2>1, <1>1
  <2>2. CASE x \notin hs
    BY <2>2 DEF BooksKept
  <2> QED
    BY <2>1, <2>2
<1>5. BudgetSpent \/ Refused \/ BooksApart(D, W, G, X \ hs, K)
  <2> SUFFICES ASSUME BooksApart(D, W, F, X, K)
               PROVE  BooksApart(D, W, G, X \ hs, K)
    BY DEF Books
  <2>1. \A req \in G : /\ req.hashes \cap W = {} /\ req.hashes \cap (X \ hs) = {}
                       /\ req.hashes \subseteq D \cup K
    BY <1>1 DEF BooksApart
  <2>2. \A req, other \in G : req.hashes \cap other.hashes # {} => req = other
    BY <1>1 DEF BooksApart
  <2> QED
    BY <2>1, <2>2 DEF BooksApart
<1>6. FullChannel \/ BooksCounted(E, G)
  <2> SUFFICES ASSUME BooksCounted(C, F)
               PROVE  BooksCounted(E, G)
    BY DEF Books
  <2>1. \A req \in F : req.peer \in FetchPeers /\ req.peer # p
    BY DEF Books, BooksTyped, BooksCounted, Forms
  <2>2. \A q \in FetchPeers : E[q] = 0 \/ (E[q] = 1 /\ \E req \in G : req.peer = q)
    BY <1>1, <1>2 DEF BooksCounted
  <2>3. \A req \in G : E[req.peer] = 1
    BY <1>1, <1>2, <2>1 DEF BooksCounted
  <2>4. \A req, other \in G : req.peer = other.peer => req = other
    BY <1>1, <2>1 DEF BooksCounted
  <2> QED
    BY <2>2, <2>3, <2>4 DEF BooksCounted
<1> QED
  BY <1>3, <1>4, <1>5, <1>6 DEF Books, new, E

\* A request is taken out of flight with its tracked hashes in hand
\* (decrement_inflight_request_count_for).
LEMMA BooksLand ==
  ASSUME NEW D, NEW W, NEW C, NEW F, NEW K, NEW req \in F, Books(D, W, C, F, {}, K)
  PROVE  Books(D, W, [C EXCEPT ![req.peer] = IF @ > 0 THEN @ - 1 ELSE @], F \ {req},
               req.hashes \cap D, K)
<1> DEFINE p == req.peer
           E == [C EXCEPT ![p] = IF @ > 0 THEN @ - 1 ELSE @]
           G == F \ {req}
<1>1. p \in FetchPeers /\ C \in [FetchPeers -> Nat]
  BY DEF Books, BooksTyped, Forms
<1> HIDE DEF p
<1>2. /\ E \in [FetchPeers -> Nat] /\ E[p] = (IF C[p] > 0 THEN C[p] - 1 ELSE C[p])
      /\ \A q \in FetchPeers : q # p => E[q] = C[q]
  BY <1>1
<1> HIDE DEF E
<1>3. BooksTyped(D, W, E, G)
  BY <1>2 DEF Books, BooksTyped
<1>4. EmptyAnswers \/ Departed \/ BooksKept(D, W, G, req.hashes \cap D)
  BY DEF Books, BooksKept
<1>5. BudgetSpent \/ Refused \/ BooksApart(D, W, G, req.hashes \cap D, K)
  BY DEF Books, BooksApart
<1>6. FullChannel \/ BooksCounted(E, G)
  <2> SUFFICES ASSUME BooksCounted(C, F)
               PROVE  BooksCounted(E, G)
    BY DEF Books
  <2>1. C[p] = 1 /\ E[p] = 0 /\ \A other \in G : other.peer \in FetchPeers /\ other.peer # p
    BY <1>1, <1>2 DEF Books, BooksTyped, Forms, BooksCounted, p
  <2>2. \A q \in FetchPeers : E[q] = 0 \/ (E[q] = 1 /\ \E other \in G : other.peer = q)
    BY <1>2, <2>1 DEF BooksCounted, p
  <2>3. \A other \in G : E[other.peer] = 1
    BY <1>2, <2>1 DEF BooksCounted
  <2>4. \A other, third \in G : other.peer = third.peer => other = third
    BY DEF BooksCounted
  <2> QED
    BY <2>2, <2>3, <2>4 DEF BooksCounted
<1> QED
  BY <1>3, <1>4, <1>5, <1>6 DEF Books, E, p

\* Hashes are no longer tracked: they were in hand, or are settled.
LEMMA BooksForget ==
  ASSUME NEW D, NEW W, NEW C, NEW F, NEW X, NEW K, NEW L, NEW hs,
         Books(D, W, C, F, X, K), K \subseteq L, hs \subseteq X \/ hs \subseteq L
  PROVE  Books(D \ hs, W \ hs, C, F, X \ hs, L)
<1>1. BooksTyped(D \ hs, W \ hs, C, F)
  BY DEF Books, BooksTyped
<1>2. EmptyAnswers \/ Departed \/ BooksKept(D \ hs, W \ hs, F, X \ hs)
  BY DEF Books, BooksKept
<1>3. BudgetSpent \/ Refused \/ BooksApart(D \ hs, W \ hs, F, X \ hs, L)
  BY DEF Books, BooksApart
<1> QED
  BY <1>1, <1>2, <1>3 DEF Books

\* The hashes in hand of an announcement: new ones, which are neither tracked nor
\* settled, and waiting ones (filter_unseen_and_pending_hashes).
LEMMA BooksTake ==
  ASSUME NEW D, NEW W, NEW C, NEW F, NEW K, NEW new, NEW taken,
         Books(D, W, C, F, {}, K), new \subseteq Hashes, new \cap (D \cup K) = {}, taken \subseteq W
  PROVE  Books(D \cup new, W \ taken, C, F, new \cup taken, K)
<1>1. BooksTyped(D \cup new, W \ taken, C, F)
  BY DEF Books, BooksTyped
<1>2. EmptyAnswers \/ Departed \/ BooksKept(D \cup new, W \ taken, F, new \cup taken)
  BY DEF Books, BooksKept
<1>3. BudgetSpent \/ Refused \/ BooksApart(D \cup new, W \ taken, F, new \cup taken, K)
  <2> SUFFICES ASSUME BooksApart(D, W, F, {}, K), BooksTyped(D, W, C, F)
               PROVE  BooksApart(D \cup new, W \ taken, F, new \cup taken, K)
    BY DEF Books
  <2>1. \A req \in F : req.hashes \cap (new \cup taken) = {}
    BY DEF BooksApart
  <2> QED
    BY <2>1 DEF BooksApart, BooksTyped
<1> QED
  BY <1>1, <1>2, <1>3 DEF Books

\* What is in hand but not tracked does not count.
LEMMA BooksLess ==
  ASSUME NEW st, NEW X, NEW Y, NEW K, BooksOf(st, X, K), Y \subseteq X,
         X \cap DOMAIN st.meta \subseteq Y
  PROVE  BooksOf(st, Y, K)
<1> DEFINE D == DOMAIN st.meta
<1>1. EmptyAnswers \/ Departed \/ BooksKept(D, st.pending, st.inflight, Y)
  BY DEF BooksOf, Books, BooksKept
<1>2. BudgetSpent \/ Refused \/ BooksApart(D, st.pending, st.inflight, Y, K)
  BY DEF BooksOf, Books, BooksApart
<1> QED
  BY <1>1, <1>2 DEF BooksOf, Books

\* The same on the fetcher's state: what each of its operations does to the books.
LEMMA BufferedBooks ==
  ASSUME NEW st, NEW X, NEW K, NEW hs, hs \subseteq X, NEW p, BooksOf(st, X, K)
  PROVE  BooksOf(Buffered(st, hs, p), X \ hs, K)
<1> DEFINE b == Buffered(st, hs, p)
<1>1. /\ DOMAIN b = {"meta", "pending", "count", "inflight"}
      /\ DOMAIN b.meta = DOMAIN st.meta /\ b.pending = st.pending \cup (hs \cap DOMAIN st.meta)
      /\ b.count = st.count /\ b.inflight = st.inflight
  BY DEF Buffered, BooksOf
<1>2. Books(DOMAIN st.meta, st.pending \cup (hs \cap DOMAIN st.meta), st.count, st.inflight, X \ hs, K)
  BY BooksWait DEF BooksOf
<1> HIDE DEF b
<1>3. BooksOf(b, X \ hs, K)
  BY <1>1, <1>2 DEF BooksOf
<1> QED
  BY <1>3 DEF b

\* Hashes that are removed from the fetcher are no longer in hand.
LEMMA RemovedBooks ==
  ASSUME NEW st, NEW X, NEW K, NEW L, NEW hs, BooksOf(st, X, K), K \subseteq L,
         hs \subseteq X \/ hs \subseteq L
  PROVE  BooksOf(Removed(st, hs), X \ hs, L)
<1> DEFINE b == Removed(st, hs)
<1>1. /\ DOMAIN b = {"meta", "pending", "count", "inflight"}
      /\ DOMAIN b.meta = DOMAIN st.meta \ hs /\ b.pending = st.pending \ hs
      /\ b.count = st.count /\ b.inflight = st.inflight
  BY DEF Removed, Without, BooksOf
<1>2. Books(DOMAIN st.meta \ hs, st.pending \ hs, st.count, st.inflight, X \ hs, L)
  BY Zenon, BooksForget DEF BooksOf
<1> HIDE DEF b
<1>3. BooksOf(b, X \ hs, L)
  BY <1>1, <1>2 DEF BooksOf
<1> QED
  BY <1>3 DEF b

\* Hashes of a failed request wait again or are given up.
LEMMA RetriedBooks ==
  ASSUME NEW st, NEW X, NEW K, NEW hs, hs \cap DOMAIN st.meta \subseteq X, NEW p, BooksOf(st, X, K)
  PROVE  BooksOf(Retried(st, hs, p), X \ hs, K)
<1> DEFINE known == hs \cap DOMAIN st.meta
           over == {h \in known : st.meta[h].retries >= MaxRetries}
           b == [st EXCEPT !.meta = [h \in DOMAIN @ |-> IF h \in known \ over
                                                        THEN [retries |-> @[h].retries + 1, fallback |-> @[h].fallback \ {p}]
                                                        ELSE @[h]],
                           !.pending = @ \cup (known \ over)]
<1>1. /\ DOMAIN b = {"meta", "pending", "count", "inflight"}
      /\ DOMAIN b.meta = DOMAIN st.meta /\ b.pending = st.pending \cup ((known \ over) \cap DOMAIN st.meta)
      /\ b.count = st.count /\ b.inflight = st.inflight
  BY DEF BooksOf
<1>2. known \subseteq X /\ over \subseteq known /\ known = hs \cap DOMAIN st.meta
  OBVIOUS
<1>3. Retried(st, hs, p) = Removed(b, over)
  BY DEF Retried
<1> HIDE DEF b, over, known
<1>4. Books(DOMAIN st.meta, st.pending \cup ((known \ over) \cap DOMAIN st.meta), st.count, st.inflight,
            X \ (known \ over), K)
  BY Zenon, <1>2, BooksWait DEF BooksOf
<1>5. BooksOf(b, X \ (known \ over), K)
  BY <1>1, <1>4 DEF BooksOf
<1>6. BooksOf(Removed(b, over), (X \ (known \ over)) \ over, K)
  BY <1>2, <1>5, RemovedBooks
<1>7. (X \ (known \ over)) \ over = X \ known
  BY <1>2
<1>8. DOMAIN Removed(b, over) = {"meta", "pending", "count", "inflight"}
      /\ DOMAIN Removed(b, over).meta = DOMAIN st.meta \ over
  BY <1>1 DEF Removed, Without
<1>9. BooksOf(Removed(b, over), X \ hs, K)
  BY <1>2, <1>6, <1>7, <1>8, BooksLess
<1> QED
  BY <1>3, <1>9

\* Hashes in hand go into a request, or wait if it could not be sent.
LEMMA RequestedBooks ==
  ASSUME NEW st, NEW X, NEW K, NEW hs \in SUBSET Hashes, hs \subseteq X, NEW p \in FetchPeers,
         NEW full, full => FullChannel, BooksOf(st, X, K)
  PROVE  BooksOf(Requested(st, hs, p, full), X \ hs, K)
<1> DEFINE busy == ActivePeers(st) >= MaxInflight \/ ~Idle(st, p)
           counted == [st EXCEPT !.count[p] = @ + 1]
           made == [counted EXCEPT !.inflight = @ \cup {[peer |-> p, hashes |-> hs]}]
<1>1. Requested(st, hs, p, full) =
        IF busy THEN Buffered(st, hs, p) ELSE IF full THEN Buffered(counted, hs, p) ELSE made
  BY DEF Requested
<1>2. /\ DOMAIN st = {"meta", "pending", "count", "inflight"} /\ st.count \in [FetchPeers -> Nat]
      /\ Books(DOMAIN st.meta, st.pending, st.count, st.inflight, X, K)
  BY DEF BooksOf, Books, BooksTyped
<1>3. ~busy => st.count[p] = 0
  BY DEF Idle
<1>4. /\ DOMAIN counted = {"meta", "pending", "count", "inflight"} /\ counted.meta = st.meta
      /\ counted.pending = st.pending /\ counted.inflight = st.inflight
      /\ counted.count = [st.count EXCEPT ![p] = @ + 1]
  BY <1>2
<1> HIDE DEF counted, busy
<1>5. /\ DOMAIN made = {"meta", "pending", "count", "inflight"} /\ made.meta = st.meta
      /\ made.pending = st.pending /\ made.count = [st.count EXCEPT ![p] = @ + 1]
      /\ made.inflight = st.inflight \cup {[peer |-> p, hashes |-> hs]}
  BY <1>4
<1> HIDE DEF made
<1>6. CASE busy
  BY <1>1, <1>6, BufferedBooks
<1>7. CASE ~busy /\ full
  <2>1. [st.count EXCEPT ![p] = @ + 1] \in [FetchPeers -> Nat]
    BY <1>2
  <2>2. BooksTyped(DOMAIN st.meta, st.pending, [st.count EXCEPT ![p] = @ + 1], st.inflight)
    BY <1>2, <2>1 DEF Books, BooksTyped
  <2>3. Books(DOMAIN st.meta, st.pending, [st.count EXCEPT ![p] = @ + 1], st.inflight, X, K)
    BY <1>2, <1>7, <2>2 DEF Books
  <2>4. BooksOf(counted, X, K)
    BY <1>4, <2>3 DEF BooksOf
  <2> QED
    BY <1>1, <1>7, <2>4, BufferedBooks
<1>8. CASE ~busy /\ ~full
  <2>1. Books(DOMAIN st.meta, st.pending, [st.count EXCEPT ![p] = @ + 1],
              st.inflight \cup {[peer |-> p, hashes |-> hs]}, X \ hs, K)
    BY Zenon, <1>2, <1>3, <1>8, BooksRequest
  <2> QED
    BY <1>1, <1>5, <1>8, <2>1 DEF BooksOf
<1> QED
  BY <1>6, <1>7, <1>8

\* The hashes of a request that has landed are in hand.
LEMMA LandedBooks ==
  ASSUME NEW K, NEW req \in fetching, BooksOf(Fetcher, {}, K)
  PROVE  BooksOf(Landed(req), req.hashes \cap DOMAIN meta, K) /\ Landed(req).meta = meta
<1> DEFINE b == Landed(req)
           C == [count EXCEPT ![req.peer] = IF @ > 0 THEN @ - 1 ELSE @]
<1>1. Books(DOMAIN meta, unfetched, count, fetching, {}, K)
  BY DEF BooksOf, Fetcher
<1>2. Books(DOMAIN meta, unfetched, C, fetching \ {req}, req.hashes \cap DOMAIN meta, K)
  BY <1>1, BooksLand
<1>3. /\ DOMAIN b = {"meta", "pending", "count", "inflight"} /\ b.meta = meta
      /\ b.pending = unfetched /\ b.count = C /\ b.inflight = fetching \ {req}
  BY DEF Landed, Fetcher
<1> HIDE DEF b, C
<1>4. BooksOf(b, req.hashes \cap DOMAIN meta, K)
  BY <1>2, <1>3 DEF BooksOf
<1> QED
  BY <1>3, <1>4 DEF b

\* An announcement takes in hand what is new or waits for a peer.
LEMMA FilteredBooks ==
  ASSUME BooksOf(Fetcher, {}, Settled), NEW hs \in SUBSET Hashes, hs \cap (DOMAIN importing \cup txpool) = {}
  PROVE  /\ BooksOf(Filtered(Fetcher, hs).st, Filtered(Fetcher, hs).keep, Settled)
         /\ Filtered(Fetcher, hs).keep \subseteq Hashes
<1> DEFINE new == {h \in hs : h \notin DOMAIN meta /\ h \notin bad}
           taken == hs \cap unfetched
           b == Filtered(Fetcher, hs).st
<1>1. Books(DOMAIN meta, unfetched, count, fetching, {}, Settled)
  BY DEF BooksOf, Fetcher
<1>2. new \subseteq Hashes /\ new \cap (DOMAIN meta \cup Settled) = {} /\ taken \subseteq unfetched
  BY DEF Settled
<1>3. Filtered(Fetcher, hs).keep = new \cup taken
  BY Zenon DEF Filtered, Fetcher
<1>4. /\ DOMAIN b = {"meta", "pending", "count", "inflight"} /\ DOMAIN b.meta = DOMAIN meta \cup new
      /\ b.pending = unfetched \ taken /\ b.count = count /\ b.inflight = fetching
  BY Zenon DEF Filtered, Fetcher
<1> HIDE DEF b, new
<1>5. Books(DOMAIN meta \cup new, unfetched \ taken, count, fetching, new \cup taken, Settled)
  BY Zenon, <1>1, <1>2, BooksTake
<1>6. BooksOf(b, new \cup taken, Settled)
  BY <1>4, <1>5 DEF BooksOf
<1> QED
  BY <1>2, <1>3, <1>6 DEF b

\* What is settled may grow, and anything may once a refusal is possible; what is
\* in hand may be lost once an answer may be lost.
LEMMA BooksChange ==
  ASSUME NEW st, NEW X, NEW Y, NEW K, NEW L, BooksOf(st, X, K), K \subseteq L \/ Refused,
         Y = X \/ (Y = {} /\ (EmptyAnswers \/ Departed))
  PROVE  BooksOf(st, Y, L)
<1>1. EmptyAnswers \/ Departed \/ BooksKept(DOMAIN st.meta, st.pending, st.inflight, Y)
  BY DEF BooksOf, Books
<1>2. BudgetSpent \/ Refused \/ BooksApart(DOMAIN st.meta, st.pending, st.inflight, Y, L)
  BY DEF BooksOf, Books, BooksApart
<1> QED
  BY <1>1, <1>2 DEF BooksOf, Books

\* The books with nothing in hand are those of the next state.
LEMMA BecomesBooks ==
  ASSUME NEW st, NEW K, Becomes(st), BooksOf(st, {}, K)
  PROVE  BooksOf(Fetcher', {}, K)
<1>1. /\ DOMAIN Fetcher' = {"meta", "pending", "count", "inflight"} /\ Fetcher'.meta = meta'
      /\ Fetcher'.pending = unfetched' /\ Fetcher'.count = count' /\ Fetcher'.inflight = fetching'
  BY DEF Fetcher
<1> QED
  BY <1>1 DEF Becomes, BooksOf, Books, BooksTyped, BooksKept, BooksApart, BooksCounted

\* Transactions that arrived are imported, and their hashes forgotten.
LEMMA ImportedBooks ==
  ASSUME NEW st, NEW X, NEW p, NEW txs, BooksOf(st, X, Settled), X \subseteq txs \/ EmptyAnswers \/ Departed,
         p \notin sessions => X = {} \/ Departed, Imported(st, p, txs), UNCHANGED <<txpool, bad>>
  PROVE  BooksOf(Fetcher', {}, Settled')
<1>1. CASE p \notin sessions
  <2>1. Becomes(st) /\ Settled' = Settled
    BY <1>1 DEF Imported, Settled
  <2>2. BooksOf(st, {}, Settled)
    BY <1>1, BooksChange
  <2> QED
    BY <2>1, <2>2, BecomesBooks
<1>2. CASE p \in sessions
  <2>1. Becomes(Removed(st, txs))
    BY <1>2 DEF Imported
  <2>2. Settled \subseteq Settled' /\ txs \subseteq Settled'
    BY <1>2 DEF Imported, Settled
  <2>3. BooksOf(Removed(st, txs), X \ txs, Settled')
    BY <2>2, RemovedBooks
  <2>4. X \ txs = {} \/ EmptyAnswers \/ Departed
    OBVIOUS
  <2>5. BooksOf(Removed(st, txs), {}, Settled')
    BY <2>3, <2>4, BooksChange
  <2> QED
    BY <2>1, <2>5, BecomesBooks
<1> QED
  BY <1>1, <1>2

\* Every step of the fetcher keeps the books.
LEMMA AnnounceBooks ==
  ASSUME FetchInv, NEW p \in FetchPeers, Announce(p)
  PROVE  FetchInv'
<1>1. PICK hs \in SUBSET Hashes \ {{}} :
        LET f == Filtered(Fetcher, (hs \ DOMAIN importing) \ txpool)
        IN  IF f.keep = {} THEN Becomes(f.st)
            ELSE IF ~Idle(f.st, p) THEN Becomes(Buffered(f.st, f.keep, p))
            ELSE \E pack \in SUBSET f.keep \ {{}}, full \in {FALSE} \cup {FullChannel} :
                    Becomes(Requested(Buffered(f.st, f.keep \ pack, p), pack, p, full))
  BY Zenon DEF Announce
<1> DEFINE f == Filtered(Fetcher, (hs \ DOMAIN importing) \ txpool)
<1>2. BooksOf(f.st, f.keep, Settled) /\ f.keep \subseteq Hashes
  BY FilteredBooks DEF FetchInv
<1>3. Settled' = Settled /\ sessions' = sessions
  BY DEF Announce, Settled
<1> HIDE DEF f
<1>4. \E st : Becomes(st) /\ BooksOf(st, {}, Settled)
  <2>1. CASE f.keep = {}
    BY Zenon, <1>1, <1>2, <2>1 DEF f
  <2>2. CASE f.keep # {} /\ ~Idle(f.st, p)
    <3>1. BooksOf(Buffered(f.st, f.keep, p), f.keep \ f.keep, Settled)
      BY <1>2, BufferedBooks
    <3>2. f.keep \ f.keep = {}
      OBVIOUS
    <3> QED
      BY Zenon, <1>1, <2>2, <3>1, <3>2 DEF f
  <2>3. CASE f.keep # {} /\ Idle(f.st, p)
    <3>1. PICK pack \in SUBSET f.keep \ {{}}, full \in {FALSE} \cup {FullChannel} :
            Becomes(Requested(Buffered(f.st, f.keep \ pack, p), pack, p, full))
      BY Zenon, <1>1, <2>3 DEF f
    <3>2. BooksOf(Buffered(f.st, f.keep \ pack, p), f.keep \ (f.keep \ pack), Settled)
      BY <1>2, BufferedBooks
    <3>3. f.keep \ (f.keep \ pack) = pack /\ pack \in SUBSET Hashes /\ pack \ pack = {}
      BY <1>2
    <3>4. full => FullChannel
      BY Zenon
    <3>5. BooksOf(Requested(Buffered(f.st, f.keep \ pack, p), pack, p, full), pack \ pack, Settled)
      BY <3>2, <3>3, <3>4, RequestedBooks
    <3> QED
      BY Zenon, <3>1, <3>3, <3>5
  <2> QED
    BY <2>1, <2>2, <2>3
<1>5. BooksOf(Fetcher', {}, Settled)
  BY <1>4, BecomesBooks
<1> QED
  BY <1>3, <1>5 DEF FetchInv

\* Waiting hashes are requested from an idle peer.
LEMMA FetchPendingBooks ==
  ASSUME FetchInv, FetchPending
  PROVE  FetchInv'
<1>0. PICK h \in unfetched, p \in sessions :
        \E more \in SUBSET (unfetched \ {h}),
           full \in {FALSE} \cup {FullChannel}, spent \in {FALSE} \cup {BudgetSpent} :
        Becomes(Requested([Fetcher EXCEPT !.pending = (@ \ {h}) \ (IF spent THEN {} ELSE more)],
                          {h} \cup more, p, full))
  BY Zenon DEF FetchPending
<1>1. PICK more \in SUBSET (unfetched \ {h}),
           full \in {FALSE} \cup {FullChannel}, spent \in {FALSE} \cup {BudgetSpent} :
        Becomes(Requested([Fetcher EXCEPT !.pending = (@ \ {h}) \ (IF spent THEN {} ELSE more)],
                          {h} \cup more, p, full))
  BY Zenon, <1>0
<1> DEFINE st == [Fetcher EXCEPT !.pending = (@ \ {h}) \ (IF spent THEN {} ELSE more)]
           hs == {h} \cup more
<1>2. Settled' = Settled /\ sessions' = sessions /\ p \in FetchPeers
  BY DEF FetchPending, Settled, FetchInv
<1>3. Books(DOMAIN meta, unfetched, count, fetching, {}, Settled)
  BY DEF FetchInv, BooksOf, Fetcher
<1>4. /\ DOMAIN st = {"meta", "pending", "count", "inflight"} /\ st.meta = meta
      /\ st.pending = (unfetched \ {h}) \ (IF spent THEN {} ELSE more)
      /\ st.count = count /\ st.inflight = fetching
  BY DEF Fetcher
<1>5. hs \subseteq unfetched /\ hs \in SUBSET Hashes /\ hs \ hs = {}
  BY <1>3 DEF Books, BooksTyped
<1>6. (spent => BudgetSpent) /\ (full => FullChannel)
  <2>1. \A x : x \in {FALSE} \cup {BudgetSpent} => (x => BudgetSpent)
    BY Zenon
  <2>2. \A x : x \in {FALSE} \cup {FullChannel} => (x => FullChannel)
    BY Zenon
  <2> QED
    BY Zenon, <2>1, <2>2
<1> HIDE DEF st
<1>7. BooksOf(st, hs, Settled)
  <2>1. CASE ~spent
    <3>1. Books(DOMAIN meta \cup {}, unfetched \ hs, count, fetching, {} \cup hs, Settled)
      BY Zenon, <1>3, <1>5, BooksTake
    <3>2. DOMAIN meta \cup {} = DOMAIN meta /\ {} \cup hs = hs /\ st.pending = unfetched \ hs
      BY <1>4, <2>1
    <3> QED
      BY <1>4, <3>1, <3>2 DEF BooksOf
  <2>2. CASE spent
    <3>1. BooksTyped(DOMAIN st.meta, st.pending, st.count, st.inflight)
      BY <1>3, <1>4 DEF Books, BooksTyped
    <3>2. EmptyAnswers \/ Departed \/ BooksKept(DOMAIN st.meta, st.pending, st.inflight, hs)
      BY <1>3, <1>4, <2>2 DEF Books, BooksKept
    <3> QED
      BY <1>3, <1>4, <1>6, <2>2, <3>1, <3>2 DEF Books, BooksOf
  <2> QED
    BY <2>1, <2>2
<1> HIDE DEF hs
<1>8. BooksOf(Requested(st, hs, p, full), hs \ hs, Settled)
  BY <1>2, <1>5, <1>6, <1>7, RequestedBooks
<1>9. BooksOf(Fetcher', {}, Settled)
  BY <1>1, <1>5, <1>8, BecomesBooks DEF st, hs
<1> QED
  BY <1>2, <1>9 DEF FetchInv

\* Transactions that are broadcast by a peer settle their hashes.
LEMMA BroadcastBooks ==
  ASSUME FetchInv, NEW p \in FetchPeers, Broadcast(p)
  PROVE  FetchInv'
<1>1. PICK h \in Hashes : Imported(Fetcher, p, {h})
  BY DEF Broadcast
<1>2. UNCHANGED <<sessions, txpool, bad>>
  BY DEF Broadcast
<1>3. BooksOf(Fetcher', {}, Settled')
  BY <1>1, <1>2, ImportedBooks DEF FetchInv
<1> QED
  BY <1>2, <1>3 DEF FetchInv

\* A response settles what it holds, and the rest waits again.
LEMMA FetchedBooks ==
  ASSUME FetchInv, NEW req \in fetching, Fetched(req)
  PROVE  FetchInv'
<1> DEFINE X == req.hashes \cap DOMAIN meta
           st(txs) == Retried(Landed(req), req.hashes \ txs, req.peer)
<1>1. PICK txs \in SUBSET req.hashes :
        /\ txs = {} => EmptyAnswers
        /\ Imported(IF txs = {} THEN Landed(req) ELSE st(txs), req.peer, txs)
  BY Zenon DEF Fetched
<1>2. UNCHANGED <<sessions, txpool, bad>> /\ (req.peer \notin sessions => Departed)
  BY DEF Fetched
<1>3. BooksOf(Landed(req), X, Settled) /\ Landed(req).meta = meta
  BY LandedBooks DEF FetchInv
<1>4. CASE txs = {}
  BY <1>1, <1>2, <1>3, <1>4, ImportedBooks DEF FetchInv
<1>5. CASE txs # {}
  <2>1. BooksOf(st(txs), X \ (req.hashes \ txs), Settled)
    BY <1>3, RetriedBooks
  <2>2. X \ (req.hashes \ txs) \subseteq txs
    OBVIOUS
  <2>3. Imported(st(txs), req.peer, txs)
    BY <1>1, <1>5
  <2> HIDE DEF X, st
  <2> QED
    BY <1>2, <2>1, <2>2, <2>3, ImportedBooks DEF FetchInv
<1> QED
  BY <1>4, <1>5

\* A failed request puts its hashes back.
LEMMA FetchErrorBooks ==
  ASSUME FetchInv, NEW req \in fetching, FetchError(req)
  PROVE  FetchInv'
<1> DEFINE X == req.hashes \cap DOMAIN meta
<1>1. BooksOf(Landed(req), X, Settled) /\ Landed(req).meta = meta
  BY LandedBooks DEF FetchInv
<1>2. BooksOf(Retried(Landed(req), req.hashes, req.peer), X \ req.hashes, Settled)
  BY <1>1, RetriedBooks
<1>3. X \ req.hashes = {} /\ sessions' = sessions /\ Settled' = Settled
  BY DEF FetchError, Settled
<1>4. BooksOf(Fetcher', {}, Settled)
  BY <1>2, <1>3, BecomesBooks DEF FetchError
<1> QED
  BY <1>3, <1>4 DEF FetchInv

\* The result of an import leaves the fetcher alone.
LEMMA ImportResultBooks ==
  ASSUME FetchInv, NEW h \in Hashes, ImportResult(h)
  PROVE  FetchInv'
<1>1. Settled \subseteq Settled' \/ Refused
  BY DEF ImportResult, Settled, Without
<1>2. Fetcher' = Fetcher /\ sessions' = sessions
  BY DEF ImportResult, fetcher, Fetcher
<1>3. BooksOf(Fetcher, {}, Settled')
  BY <1>1, BooksChange DEF FetchInv
<1> QED
  BY <1>2, <1>3 DEF FetchInv

\* Sessions that begin or end leave the tracked hashes alone.
LEMMA SessionEventBooks ==
  ASSUME FetchInv, NEW p \in FetchPeers, SessionEvent(p)
  PROVE  FetchInv'
<1>1. Fetcher' = Fetcher /\ Settled' = Settled
  BY DEF SessionEvent, fetcher, Fetcher, Settled
<1>2. sessions' \subseteq FetchPeers
  BY DEF SessionEvent, FetchInv
<1> QED
  BY <1>1, <1>2 DEF FetchInv

\* The fetcher starts with empty books.
LEMMA FetchStart ==
  ASSUME FetchInit
  PROVE  FetchInv
<1>1. /\ DOMAIN Fetcher = {"meta", "pending", "count", "inflight"} /\ DOMAIN Fetcher.meta = {}
      /\ Fetcher.pending = {} /\ Fetcher.inflight = {}
      /\ Fetcher.count = [p \in FetchPeers |-> 0] /\ sessions = FetchPeers
  BY DEF FetchInit, Fetcher
<1>2. BooksTyped({}, {}, [p \in FetchPeers |-> 0], {}) /\ BooksKept({}, {}, {}, {})
  BY DEF BooksTyped, BooksKept
<1>3. BooksApart({}, {}, {}, {}, Settled) /\ BooksCounted([p \in FetchPeers |-> 0], {})
  BY DEF BooksApart, BooksCounted
<1> QED
  BY <1>1, <1>2, <1>3 DEF FetchInv, BooksOf, Books

\* The books are what the run checks.
LEMMA FetchInvSuffices ==
  ASSUME FetchInv
  PROVE  HashesTracked
<1>1. Books(DOMAIN meta, unfetched, count, fetching, {}, Settled)
  BY DEF FetchInv, BooksOf, Fetcher
<1>2. EmptyAnswers \/ Departed \/ NoneForgotten
  BY <1>1 DEF Books, BooksKept, NoneForgotten, Flying
<1>3. BudgetSpent \/ Refused \/ WaitingNotFlying
  BY <1>1 DEF Books, BooksApart, WaitingNotFlying, Flying
<1>4. FullChannel \/ CountsMatch
  <2> SUFFICES ASSUME BooksCounted(count, fetching), NEW p \in FetchPeers
               PROVE  count[p] = Cardinality({req \in fetching : req.peer = p})
    BY <1>1 DEF Books, CountsMatch
  <2>1. CASE \E req \in fetching : req.peer = p
    <3>1. PICK req \in fetching : req.peer = p
      BY <2>1
    <3>2. {other \in fetching : other.peer = p} = {req} /\ count[p] = 1
      BY <3>1 DEF BooksCounted
    <3> QED
      BY Zenon, <3>2, FS_Singleton
  <2>2. CASE ~\E req \in fetching : req.peer = p
    <3>1. {other \in fetching : other.peer = p} = {} /\ count[p] = 0
      BY <2>2 DEF BooksCounted
    <3> QED
      BY <3>1, FS_EmptySet
  <2> QED
    BY <2>1, <2>2
<1> QED
  BY <1>2, <1>3, <1>4 DEF HashesTracked

(***************************************************************************)
(* The fetcher's books are right whatever the peers announce, answer or    *)
(* leave unanswered, for any number of peers, transactions and retries,    *)
(* but for the circumstances that HashesTracked names.                     *)
(***************************************************************************)
THEOREM HashesAreTracked == FetchSpec => []HashesTracked
<1>1. FetchInit => FetchInv
  BY FetchStart
<1>2. FetchInv /\ [FetchNext]_fetchVars => FetchInv'
  <2>1. ASSUME FetchInv, FetchNext
        PROVE  FetchInv'
    BY <2>1, AnnounceBooks, FetchPendingBooks, BroadcastBooks, FetchedBooks, FetchErrorBooks,
       ImportResultBooks, SessionEventBooks DEF FetchNext
  <2>2. ASSUME FetchInv, UNCHANGED fetchVars
        PROVE  FetchInv'
    <3>1. Fetcher' = Fetcher /\ Settled' = Settled /\ sessions' = sessions
      BY <2>2 DEF fetchVars, Fetcher, Settled
    <3> QED
      BY <2>2, <3>1 DEF FetchInv
  <2> QED
    BY <2>1, <2>2
<1>3. FetchInv => HashesTracked
  BY FetchInvSuffices
<1> QED
  BY <1>1, <1>2, <1>3, PTL DEF FetchSpec
-----------------------------------------------------------------------------
(***************************************************************************)
(* Telling the peers of transactions.  All that passed between a peer and  *)
(* us in a session is on its record.                                       *)
(***************************************************************************)
GossipTyped ==
  /\ listeners \subseteq GossipPeers /\ pool \subseteq Txs /\ fresh \subseteq Txs
  /\ seenBy \in [GossipPeers -> SUBSET Txs] /\ told \in [GossipPeers -> SUBSET Txs]
  /\ heard \in [GossipPeers -> SUBSET Txs] /\ lastFull \in [GossipPeers -> SUBSET Txs]

OnRecord == \A p \in GossipPeers : told[p] \cup heard[p] \subseteq seenBy[p]

RecordTrue == HashesTo \/ ~OneMessage \/ SeenIsKnown

GossipInv == GossipTyped /\ OnRecord /\ BlobsNotInFull /\ RecordTrue

(***************************************************************************)
(* A part of a finite set of the same size is all of it.                   *)
(***************************************************************************)
LEMMA WholeOf ==
  ASSUME NEW S, IsFiniteSet(S), NEW s \in SUBSET S, Cardinality(s) = Cardinality(S)
  PROVE  s = S
BY Zenon, FS_Subset

(***************************************************************************)
(* A message takes a part of its batch, and no blob in full; all of it     *)
(* when it fits.                                                           *)
(***************************************************************************)
LEMMA MessageTakes ==
  ASSUME NEW batch \in SUBSET Txs, NEW s
  PROVE  /\ s \in FullOf(batch) => s \subseteq batch \ Blobs
         /\ s \in HashesOf(batch) => s \subseteq batch
         /\ OneMessage /\ s \in FullOf(batch) => s = batch \ Blobs
         /\ OneMessage /\ s \in HashesOf(batch) => s = batch
<1> DEFINE plain == batch \ Blobs
<1>1. s \in FullOf(batch) => s \subseteq plain
  BY Zenon DEF FullOf
<1>2. s \in HashesOf(batch) => s \subseteq batch
  BY Zenon DEF HashesOf
<1>3. /\ IsFiniteSet(batch) /\ IsFiniteSet(plain)
      /\ Cardinality(batch) <= Cardinality(Txs)
      /\ Cardinality(plain) <= Cardinality(Txs \ Blobs)
      /\ Cardinality(batch) \in Nat /\ Cardinality(Txs) \in Nat
      /\ Cardinality(plain) \in Nat /\ Cardinality(Txs \ Blobs) \in Nat
  <2>1. plain \in SUBSET batch /\ plain \in SUBSET (Txs \ Blobs) /\ Txs \ Blobs \in SUBSET Txs
    OBVIOUS
  <2>2. IsFiniteSet(Txs) /\ IsFiniteSet(batch) /\ IsFiniteSet(Txs \ Blobs) /\ IsFiniteSet(plain)
    BY Zenon, <2>1, FS_Subset, GossipAssumption
  <2> HIDE DEF plain
  <2>3. Cardinality(batch) <= Cardinality(Txs) /\ Cardinality(plain) <= Cardinality(Txs \ Blobs)
    BY Zenon, <2>1, <2>2, FS_Subset
  <2> QED
    BY Zenon, <2>2, <2>3, FS_CardinalityType
<1>4. ASSUME OneMessage, s \in FullOf(batch)
      PROVE  s = plain
  <2>1. Cardinality(plain) <= MaxFull
    BY <1>3, <1>4, GossipAssumption DEF OneMessage
  <2>2. Cardinality(s) = Cardinality(plain)
    BY Zenon, <1>4, <2>1 DEF FullOf
  <2>3. s \in SUBSET plain /\ IsFiniteSet(plain)
    BY <1>1, <1>3, <1>4
  <2> HIDE DEF plain
  <2> QED
    BY <2>2, <2>3, WholeOf
<1>5. ASSUME OneMessage, s \in HashesOf(batch)
      PROVE  s = batch
  <2>1. Cardinality(batch) <= MaxHashes
    BY <1>3, <1>5, GossipAssumption DEF OneMessage
  <2>2. Cardinality(s) = Cardinality(batch)
    BY Zenon, <1>5, <2>1 DEF HashesOf
  <2> QED
    BY <1>2, <1>3, <1>5, <2>2, WholeOf
<1> QED
  BY <1>1, <1>2, <1>4, <1>5

\* A full broadcast.
LEMMA FullTakes ==
  ASSUME NEW batch \in SUBSET Txs, NEW s \in FullOf(batch)
  PROVE  s \subseteq batch \ Blobs /\ (OneMessage => s = batch \ Blobs)
BY Zenon, MessageTakes

\* An announcement.
LEMMA HashesTake ==
  ASSUME NEW batch \in SUBSET Txs, NEW s \in HashesOf(batch)
  PROVE  s \subseteq batch /\ (OneMessage => s = batch)
BY Zenon, MessageTakes

(***************************************************************************)
(* A propagation adds to the record of a connected peer what it is sent:   *)
(* only what it has not seen, no blob in full, and the whole batch when it *)
(* fits and is of one kind.                                                *)
(***************************************************************************)
LEMMA PropagateTells ==
  ASSUME GossipTyped, NEW batch \in SUBSET Txs, Propagate(batch)
  PROVE  /\ seenBy' \in [GossipPeers -> SUBSET Txs] /\ told' \in [GossipPeers -> SUBSET Txs]
         /\ lastFull' \in [GossipPeers -> SUBSET Txs]
         /\ \A p \in GossipPeers : lastFull'[p] \cap Blobs = {} /\ lastFull'[p] \cap seenBy[p] = {}
         /\ \A p \in GossipPeers : \E m \in SUBSET Txs :
              seenBy'[p] = seenBy[p] \cup m /\ told'[p] = told[p] \cup m
         /\ OneMessage /\ (batch \cap Blobs = {} \/ batch \subseteq Blobs)
              => \A p \in listeners : batch \subseteq seenBy'[p]
<1>1. PICK inFull \in SUBSET listeners, msg \in [listeners -> SUBSET batch] :
        /\ \A p \in inFull : FullOf(batch \ seenBy[p]) \ {{}} # {}
        /\ \A p \in listeners : msg[p] \in (IF p \in inFull THEN FullOf(batch \ seenBy[p]) ELSE HashesOf(batch \ seenBy[p]))
        /\ lastFull' = [p \in GossipPeers |-> IF p \in inFull THEN msg[p] ELSE {}]
        /\ told' = [p \in GossipPeers |-> IF p \in listeners THEN told[p] \cup msg[p] ELSE told[p]]
        /\ seenBy' = [p \in GossipPeers |-> IF p \in listeners THEN seenBy[p] \cup msg[p] ELSE seenBy[p]]
  <2>1. PICK lucky \in SUBSET listeners :
          LET inFull == {p \in lucky : FullOf(batch \ seenBy[p]) \ {{}} # {}}
          IN  \E msg \in [listeners -> SUBSET batch] :
                /\ \A p \in listeners : msg[p] \in (IF p \in inFull THEN FullOf(batch \ seenBy[p]) ELSE HashesOf(batch \ seenBy[p]))
                /\ lastFull' = [p \in GossipPeers |-> IF p \in inFull THEN msg[p] ELSE {}]
                /\ told' = [p \in GossipPeers |-> IF p \in listeners THEN told[p] \cup msg[p] ELSE told[p]]
                /\ seenBy' = [p \in GossipPeers |-> IF p \in listeners THEN seenBy[p] \cup msg[p] ELSE seenBy[p]]
    BY Zenon DEF Propagate
  <2> DEFINE full == {p \in lucky : FullOf(batch \ seenBy[p]) \ {{}} # {}}
  <2>2. full \in SUBSET listeners /\ \A p \in full : FullOf(batch \ seenBy[p]) \ {{}} # {}
    BY Zenon
  <2>3. PICK msg \in [listeners -> SUBSET batch] :
          /\ \A p \in listeners : msg[p] \in (IF p \in full THEN FullOf(batch \ seenBy[p]) ELSE HashesOf(batch \ seenBy[p]))
          /\ lastFull' = [p \in GossipPeers |-> IF p \in full THEN msg[p] ELSE {}]
          /\ told' = [p \in GossipPeers |-> IF p \in listeners THEN told[p] \cup msg[p] ELSE told[p]]
          /\ seenBy' = [p \in GossipPeers |-> IF p \in listeners THEN seenBy[p] \cup msg[p] ELSE seenBy[p]]
    BY Zenon, <2>1
  <2> HIDE DEF full
  <2> QED
    BY Zenon, <2>2, <2>3
<1>2. \A p \in listeners : p \in GossipPeers /\ msg[p] \subseteq Txs
  BY <1>1 DEF GossipTyped
<1>3. /\ seenBy' \in [GossipPeers -> SUBSET Txs] /\ told' \in [GossipPeers -> SUBSET Txs]
      /\ lastFull' \in [GossipPeers -> SUBSET Txs]
  BY <1>1, <1>2 DEF GossipTyped
<1>4. ASSUME NEW p \in GossipPeers
      PROVE  lastFull'[p] \cap Blobs = {} /\ lastFull'[p] \cap seenBy[p] = {}
  <2>1. CASE p \in inFull
    <3>1. lastFull'[p] \in FullOf(batch \ seenBy[p])
      BY <1>1, <2>1
    <3>2. batch \ seenBy[p] \in SUBSET Txs
      OBVIOUS
    <3> QED
      BY <3>1, <3>2, FullTakes
  <2>2. CASE p \notin inFull
    BY <1>1, <2>2
  <2> QED
    BY <2>1, <2>2
<1>5. ASSUME NEW p \in GossipPeers
      PROVE  \E m \in SUBSET Txs : seenBy'[p] = seenBy[p] \cup m /\ told'[p] = told[p] \cup m
  <2>1. CASE p \in listeners
    BY Zenon, <1>1, <1>2, <2>1
  <2>2. CASE p \notin listeners
    <3>1. seenBy'[p] = seenBy[p] /\ told'[p] = told[p]
      BY Zenon, <1>1, <2>2
    <3>2. {} \in SUBSET Txs /\ seenBy'[p] = seenBy[p] \cup {} /\ told'[p] = told[p] \cup {}
      BY <3>1
    <3> QED
      BY Zenon, <3>2
  <2> QED
    BY <2>1, <2>2
<1>6. ASSUME OneMessage, batch \cap Blobs = {} \/ batch \subseteq Blobs, NEW p \in listeners
      PROVE  batch \subseteq seenBy'[p]
  <2> DEFINE rest == batch \ seenBy[p]
  <2>1. rest \in SUBSET Txs /\ seenBy'[p] = seenBy[p] \cup msg[p]
    BY <1>1, <1>2
  <2>2. msg[p] = rest
    <3>1. CASE p \in inFull
      <4>1. msg[p] \in FullOf(rest) /\ FullOf(rest) \ {{}} # {}
        BY <1>1, <3>1
      <4>2. PICK s \in FullOf(rest) : s # {}
        BY Zenon, <4>1
      <4>3. s \subseteq rest \ Blobs /\ msg[p] = rest \ Blobs
        BY <1>6, <2>1, <4>1, <4>2, FullTakes
      <4> QED
        BY <1>6, <4>2, <4>3
    <3>2. CASE p \notin inFull
      <4>1. msg[p] \in HashesOf(rest)
        BY <1>1, <3>2
      <4> QED
        BY <1>6, <2>1, <4>1, HashesTake
    <3> QED
      BY <3>1, <3>2
  <2> QED
    BY <2>1, <2>2
<1> QED
  BY <1>3, <1>4, <1>5, <1>6

(***************************************************************************)
(* A step is right if it keeps the record, sends nothing that is known and *)
(* tells a batch to all.                                                   *)
(***************************************************************************)
Right == GossipInv' /\ NotTwice /\ (MixedBatches \/ ~OneMessage \/ AllTold)

\* A step that sends nothing in full is right if it keeps the record.
LEMMA QuietIsRight ==
  ASSUME lastFull' = Nothing, GossipTyped', OnRecord', RecordTrue',
         OnNewPendingTransactions => syncing
  PROVE  Right
<1>1. \A p \in GossipPeers : lastFull'[p] = {}
  BY Zenon DEF Nothing
<1> QED
  BY <1>1 DEF Right, GossipInv, BlobsNotInFull, NotTwice, AllTold

\* A propagation is right.
LEMMA PropagateIsRight ==
  ASSUME GossipInv, NEW batch \in SUBSET Txs, Propagate(batch), UNCHANGED <<listeners, heard>>,
         pool' \subseteq Txs, fresh' \subseteq Txs
  PROVE  GossipInv' /\ NotTwice
<1>0. GossipTyped
  BY Zenon DEF GossipInv
<1>1. /\ seenBy' \in [GossipPeers -> SUBSET Txs] /\ told' \in [GossipPeers -> SUBSET Txs]
      /\ lastFull' \in [GossipPeers -> SUBSET Txs]
      /\ \A p \in GossipPeers : lastFull'[p] \cap Blobs = {} /\ lastFull'[p] \cap seenBy[p] = {}
  BY Zenon, <1>0, PropagateTells
<1>2. \A p \in GossipPeers : \E m \in SUBSET Txs : seenBy'[p] = seenBy[p] \cup m /\ told'[p] = told[p] \cup m
  BY Zenon, <1>0, PropagateTells
<1>3. GossipTyped'
  BY <1>0, <1>1 DEF GossipTyped
<1>4. OnRecord'
  <2> SUFFICES ASSUME NEW p \in GossipPeers PROVE told'[p] \cup heard'[p] \subseteq seenBy'[p]
    BY Zenon DEF OnRecord
  <2>1. PICK m \in SUBSET Txs : seenBy'[p] = seenBy[p] \cup m /\ told'[p] = told[p] \cup m
    BY Zenon, <1>2
  <2>2. told[p] \cup heard[p] \subseteq seenBy[p] /\ heard'[p] = heard[p]
    BY Zenon DEF GossipInv, OnRecord
  <2> QED
    BY <2>1, <2>2
<1>5. RecordTrue'
  <2> SUFFICES ASSUME SeenIsKnown, NEW p \in listeners PROVE seenBy'[p] \subseteq told'[p] \cup heard'[p]
    BY Zenon DEF GossipInv, RecordTrue, SeenIsKnown
  <2>1. PICK m \in SUBSET Txs : seenBy'[p] = seenBy[p] \cup m /\ told'[p] = told[p] \cup m
    BY Zenon, <1>0, <1>2 DEF GossipTyped
  <2>2. seenBy[p] \subseteq told[p] \cup heard[p] /\ heard'[p] = heard[p]
    BY Zenon DEF SeenIsKnown
  <2> QED
    BY <2>1, <2>2
<1>6. NotTwice
  <2> SUFFICES ASSUME NEW p \in GossipPeers PROVE lastFull'[p] \cap (told[p] \cup heard[p]) = {}
    BY Zenon DEF NotTwice
  <2>1. told[p] \cup heard[p] \subseteq seenBy[p] /\ lastFull'[p] \cap seenBy[p] = {}
    BY Zenon, <1>1 DEF GossipInv, OnRecord
  <2> QED
    BY <2>1
<1> QED
  BY Zenon, <1>1, <1>3, <1>4, <1>5, <1>6 DEF GossipInv, BlobsNotInFull

\* A step puts on the record of peer p, now s, what it sent, t, and heard, h.
Recorded(p, s, t, h) ==
  /\ s \in SUBSET Txs /\ t \in SUBSET Txs /\ h \in SUBSET Txs
  /\ seenBy' = [seenBy EXCEPT ![p] = s] /\ told' = [told EXCEPT ![p] = t] /\ heard' = [heard EXCEPT ![p] = h]
  /\ t \cup h \subseteq s
  /\ HashesTo \/ ~OneMessage \/ s \subseteq t \cup h
  /\ listeners' \subseteq listeners \cup {p} /\ pool' = pool /\ fresh' = fresh
  /\ lastFull' \in [GossipPeers -> SUBSET Txs]

\* Such a step keeps the records.
LEMMA RecordAt ==
  ASSUME GossipInv, NEW p \in GossipPeers, NEW s, NEW t, NEW h, Recorded(p, s, t, h)
  PROVE  GossipTyped' /\ OnRecord' /\ RecordTrue'
<1>0. GossipTyped /\ OnRecord /\ RecordTrue
  BY DEF GossipInv
<1> USE DEF Recorded
<1>1. /\ seenBy'[p] = s /\ told'[p] = t /\ heard'[p] = h
      /\ \A q \in GossipPeers : q # p => seenBy'[q] = seenBy[q] /\ told'[q] = told[q] /\ heard'[q] = heard[q]
  BY Zenon, <1>0 DEF GossipTyped
<1>2. GossipTyped'
  BY <1>0 DEF GossipTyped
<1>3. OnRecord'
  BY Zenon, <1>0, <1>1 DEF OnRecord
<1>4. \A q \in listeners' : q = p \/ (q # p /\ q \in listeners /\ q \in GossipPeers)
  BY <1>0 DEF GossipTyped
<1>5. RecordTrue'
  BY Zenon, <1>0, <1>1, <1>4 DEF RecordTrue, SeenIsKnown
<1> QED
  BY <1>2, <1>3, <1>5

\* New and mined transactions, the end of the sync and of a session.
LEMMA PoolIsRight ==
  ASSUME GossipInv, lastFull' = Nothing, UNCHANGED <<seenBy, told, heard>>,
         pool' \subseteq Txs, fresh' \subseteq Txs, listeners' \subseteq listeners,
         OnNewPendingTransactions => syncing
  PROVE  Right
<1>1. lastFull' \in [GossipPeers -> SUBSET Txs]
  BY DEF Nothing
<1>2. GossipTyped'
  BY <1>1 DEF GossipInv, GossipTyped
<1>3. OnRecord' /\ RecordTrue'
  BY Zenon DEF GossipInv, OnRecord, RecordTrue, SeenIsKnown
<1> QED
  BY Zenon, <1>2, <1>3, QuietIsRight

\* A batch of the listener.
LEMMA BatchIsRight ==
  ASSUME GossipInv, OnNewPendingTransactions
  PROVE  Right
<1>1. PICK batch \in SUBSET fresh \ {{}} :
        /\ (batch \cap Blobs # {} /\ batch \ Blobs # {}) => MixedBatches
        /\ fresh' = fresh \ batch
        /\ IF syncing THEN Keep ELSE Propagate(batch \cap pool)
        /\ UNCHANGED <<syncing, pool, listeners, heard, events>>
  BY Zenon DEF OnNewPendingTransactions
<1>2. GossipTyped /\ pool' \subseteq Txs /\ fresh' \subseteq Txs /\ batch \cap pool \in SUBSET Txs
  BY <1>1 DEF GossipInv, GossipTyped
<1>3. CASE syncing
  BY <1>1, <1>2, <1>3, PoolIsRight DEF Keep
<1>4. CASE ~syncing
  <2>1. Propagate(batch \cap pool)
    BY Zenon, <1>1, <1>4
  <2>2. GossipInv' /\ NotTwice
    BY Zenon, <1>1, <1>2, <2>1, PropagateIsRight
  <2>3. ASSUME ~MixedBatches, OneMessage
        PROVE  AllTold
    <3>1. (batch \cap pool) \cap Blobs = {} \/ batch \cap pool \subseteq Blobs
      BY <1>1, <2>3
    <3>2. \A p \in listeners : batch \cap pool \subseteq seenBy'[p]
      BY Zenon, <1>2, <2>1, <2>3, <3>1, PropagateTells
    <3>3. (fresh \ fresh') \cap pool \subseteq batch \cap pool
      BY <1>1
    <3> QED
      BY Zenon, <3>2, <3>3 DEF AllTold
  <2> QED
    BY Zenon, <2>2, <2>3 DEF Right
<1> QED
  BY <1>3, <1>4

\* The commands of TransactionsHandle.
LEMMA CommandIsRight ==
  ASSUME GossipInv, Commands, ~OnNewPendingTransactions
  PROVE  Right
<1>0. GossipTyped
  BY Zenon DEF GossipInv
<1>1. ASSUME NEW t \in Txs, PropagateHash(t)
      PROVE  Right
  <2>1. /\ IF syncing THEN Keep ELSE Propagate({t} \cap pool)
        /\ UNCHANGED <<listeners, heard>> /\ pool' = pool /\ fresh' = fresh
    BY Zenon, <1>1 DEF PropagateHash
  <2>2. pool' \subseteq Txs /\ fresh' \subseteq Txs /\ {t} \cap pool \in SUBSET Txs
    BY <1>0, <2>1 DEF GossipTyped
  <2>3. CASE syncing
    BY <2>1, <2>2, <2>3, PoolIsRight DEF Keep
  <2>4. CASE ~syncing
    <3>1. GossipInv' /\ NotTwice
      BY Zenon, <2>1, <2>2, <2>4, PropagateIsRight
    <3> QED
      BY Zenon, <3>1 DEF Right, AllTold
  <2> QED
    BY <2>3, <2>4
<1>2. ASSUME NEW p \in GossipPeers, PropagateHashesTo(p)
      PROVE  Right
  <2>1. PICK txs \in SUBSET pool \ {{}} :
          /\ txs \subseteq seenBy[p] \/ HashesTo
          /\ seenBy' = [seenBy EXCEPT ![p] = seenBy[p] \cup txs]
          /\ told' = [told EXCEPT ![p] = told[p] \cup (txs \cap seenBy[p])]
    BY Zenon, <1>2 DEF PropagateHashesTo
  <2>2. /\ p \in listeners /\ lastFull' = Nothing
        /\ pool' = pool /\ fresh' = fresh /\ listeners' = listeners /\ heard' = heard
    BY Zenon, <1>2 DEF PropagateHashesTo
  <2> DEFINE record == seenBy[p] \cup txs
             passed == told[p] \cup (txs \cap seenBy[p])
  <2>3. /\ record \in SUBSET Txs /\ passed \in SUBSET Txs /\ heard[p] \in SUBSET Txs
        /\ heard' = [heard EXCEPT ![p] = heard[p]] /\ lastFull' \in [GossipPeers -> SUBSET Txs]
    BY <1>0, <2>1, <2>2 DEF GossipTyped, Nothing
  <2>4. told[p] \cup heard[p] \subseteq seenBy[p] /\ (HashesTo \/ ~OneMessage \/ seenBy[p] \subseteq told[p] \cup heard[p])
    BY Zenon, <2>2 DEF GossipInv, OnRecord, RecordTrue, SeenIsKnown
  <2>5. passed \cup heard[p] \subseteq record /\ (HashesTo \/ ~OneMessage \/ record \subseteq passed \cup heard[p])
    BY <2>1, <2>4
  <2>6. listeners' \subseteq listeners \cup {p}
    BY <2>2
  <2>7. seenBy' = [seenBy EXCEPT ![p] = record] /\ told' = [told EXCEPT ![p] = passed]
    BY Zenon, <2>1
  <2> HIDE DEF record, passed
  <2>8. GossipTyped' /\ OnRecord' /\ RecordTrue'
    <3>1. Recorded(p, record, passed, heard[p])
      BY Zenon, <2>2, <2>3, <2>5, <2>6, <2>7 DEF Recorded
    <3> QED
      BY Zenon, <3>1, RecordAt
  <2> QED
    BY Zenon, <2>2, <2>8, QuietIsRight
<1>3. ASSUME NEW p \in GossipPeers, PropagateTransactionsTo(p)
      PROVE  Right
  <2>0. PICK txs \in SUBSET (pool \ Blobs) \ {{}} :
          /\ seenBy' = [seenBy EXCEPT ![p] = seenBy[p] \cup txs]
          /\ \E msg \in FullOf(txs \ seenBy[p]) :
               /\ told' = [told EXCEPT ![p] = told[p] \cup msg]
               /\ lastFull' = [Nothing EXCEPT ![p] = msg]
    BY Zenon, <1>3 DEF PropagateTransactionsTo
  <2>1. PICK msg \in FullOf(txs \ seenBy[p]) :
          /\ seenBy' = [seenBy EXCEPT ![p] = seenBy[p] \cup txs]
          /\ told' = [told EXCEPT ![p] = told[p] \cup msg]
          /\ lastFull' = [Nothing EXCEPT ![p] = msg]
    BY Zenon, <2>0
  <2>2. /\ p \in listeners
        /\ pool' = pool /\ fresh' = fresh /\ listeners' = listeners /\ heard' = heard
    BY Zenon, <1>3 DEF PropagateTransactionsTo
  <2>3. /\ txs \subseteq Txs /\ txs \cap Blobs = {} /\ txs \ seenBy[p] \in SUBSET Txs
        /\ seenBy[p] \subseteq Txs /\ told[p] \subseteq Txs /\ heard[p] \in SUBSET Txs
        /\ heard' = [heard EXCEPT ![p] = heard[p]]
    BY <1>0, <2>1, <2>2 DEF GossipTyped
  <2>4. msg \subseteq (txs \ seenBy[p]) \ Blobs /\ (OneMessage => msg = (txs \ seenBy[p]) \ Blobs)
    <3> DEFINE rest == txs \ seenBy[p]
    <3>1. msg \in FullOf(rest) /\ rest \in SUBSET Txs
      BY Zenon, <2>1, <2>3
    <3> HIDE DEF rest
    <3>2. msg \subseteq rest \ Blobs /\ (OneMessage => msg = rest \ Blobs)
      BY Zenon, <3>1, FullTakes
    <3> QED
      BY Zenon, <3>2 DEF rest
  <2> DEFINE record == seenBy[p] \cup txs
             passed == told[p] \cup msg
  <2>5. told[p] \cup heard[p] \subseteq seenBy[p] /\ (HashesTo \/ ~OneMessage \/ seenBy[p] \subseteq told[p] \cup heard[p])
    BY Zenon, <2>2 DEF GossipInv, OnRecord, RecordTrue, SeenIsKnown
  <2>6. record \in SUBSET Txs /\ passed \in SUBSET Txs /\ msg \in SUBSET Txs /\ listeners' \subseteq listeners \cup {p}
    BY <2>2, <2>3, <2>4
  <2>7. passed \cup heard[p] \subseteq record /\ (HashesTo \/ ~OneMessage \/ record \subseteq passed \cup heard[p])
    BY <2>3, <2>4, <2>5
  <2>8. /\ lastFull' \in [GossipPeers -> SUBSET Txs] /\ lastFull'[p] = msg
        /\ \A q \in GossipPeers : q # p => lastFull'[q] = {}
    BY <2>1, <2>6 DEF Nothing
  <2>9. seenBy' = [seenBy EXCEPT ![p] = record] /\ told' = [told EXCEPT ![p] = passed]
    BY Zenon, <2>1
  <2> HIDE DEF record, passed
  <2>10. GossipTyped' /\ OnRecord' /\ RecordTrue'
    <3>1. Recorded(p, record, passed, heard[p])
      BY Zenon, <2>2, <2>3, <2>6, <2>7, <2>8, <2>9 DEF Recorded
    <3> QED
      BY Zenon, <3>1, RecordAt
  <2>11. msg \cap Blobs = {} /\ msg \cap (told[p] \cup heard[p]) = {}
    BY <2>4, <2>5
  <2>12. \A q \in GossipPeers : lastFull'[q] \cap Blobs = {} /\ lastFull'[q] \cap (told[q] \cup heard[q]) = {}
    BY <2>8, <2>11
  <2> QED
    BY Zenon, <2>10, <2>12 DEF Right, GossipInv, BlobsNotInFull, NotTwice, AllTold
<1> QED
  BY Zenon, <1>1, <1>2, <1>3 DEF Commands

\* A request or a message of a peer.
LEMMA MessageIsRight ==
  ASSUME GossipInv, NEW p \in GossipPeers, OnGetPooledTransactions(p) \/ Heard(p), ~OnNewPendingTransactions
  PROVE  Right
<1>0. GossipTyped
  BY Zenon DEF GossipInv
<1>1. PICK txs \in SUBSET Txs, more \in SUBSET Txs :
        /\ seenBy' = [seenBy EXCEPT ![p] = seenBy[p] \cup (txs \cup more)]
        /\ told' = [told EXCEPT ![p] = told[p] \cup txs]
        /\ heard' = [heard EXCEPT ![p] = heard[p] \cup more]
  <2>1. CASE OnGetPooledTransactions(p)
    <3>1. PICK txs \in SUBSET pool \ {{}} :
            seenBy' = [seenBy EXCEPT ![p] = seenBy[p] \cup txs] /\ told' = [told EXCEPT ![p] = told[p] \cup txs]
      BY Zenon, <2>1 DEF OnGetPooledTransactions
    <3>2. heard' = heard
      BY Zenon, <2>1 DEF OnGetPooledTransactions
    <3>3. txs \in SUBSET Txs /\ {} \in SUBSET Txs /\ txs = txs \cup {}
      BY <1>0 DEF GossipTyped
    <3>4. heard' = [heard EXCEPT ![p] = heard[p] \cup {}]
      BY <1>0, <3>2 DEF GossipTyped
    <3> QED
      BY Zenon, <3>1, <3>3, <3>4
  <2>2. CASE Heard(p)
    <3>1. PICK t \in Txs : /\ seenBy' = [seenBy EXCEPT ![p] = seenBy[p] \cup {t}]
                           /\ heard' = [heard EXCEPT ![p] = heard[p] \cup {t}]
      BY Zenon, <2>2 DEF Heard
    <3>2. told' = told
      BY Zenon, <2>2 DEF Heard
    <3>3. {t} \in SUBSET Txs /\ {} \in SUBSET Txs /\ {t} = {} \cup {t}
      OBVIOUS
    <3>4. told' = [told EXCEPT ![p] = told[p] \cup {}]
      BY <1>0, <3>2 DEF GossipTyped
    <3> QED
      BY Zenon, <3>1, <3>3, <3>4
  <2> QED
    BY Zenon, <2>1, <2>2
<1>2. /\ p \in listeners /\ lastFull' = Nothing
      /\ pool' = pool /\ fresh' = fresh /\ listeners' = listeners
  BY Zenon DEF OnGetPooledTransactions, Heard
<1> DEFINE record == seenBy[p] \cup (txs \cup more)
           passed == told[p] \cup txs
           back == heard[p] \cup more
<1>3. /\ record \in SUBSET Txs /\ passed \in SUBSET Txs /\ back \in SUBSET Txs
      /\ lastFull' \in [GossipPeers -> SUBSET Txs] /\ listeners' \subseteq listeners \cup {p}
  BY <1>0, <1>2 DEF GossipTyped, Nothing
<1>4. told[p] \cup heard[p] \subseteq seenBy[p] /\ (HashesTo \/ ~OneMessage \/ seenBy[p] \subseteq told[p] \cup heard[p])
  BY Zenon, <1>2 DEF GossipInv, OnRecord, RecordTrue, SeenIsKnown
<1>5. passed \cup back \subseteq record /\ (HashesTo \/ ~OneMessage \/ record \subseteq passed \cup back)
  BY <1>4
<1>6. /\ seenBy' = [seenBy EXCEPT ![p] = record] /\ told' = [told EXCEPT ![p] = passed]
      /\ heard' = [heard EXCEPT ![p] = back]
  BY Zenon, <1>1
<1> HIDE DEF record, passed, back
<1>7. Recorded(p, record, passed, back)
  BY Zenon, <1>2, <1>3, <1>5, <1>6 DEF Recorded
<1>8. GossipTyped' /\ OnRecord' /\ RecordTrue'
  BY Zenon, <1>7, RecordAt
<1> QED
  BY Zenon, <1>2, <1>8, QuietIsRight

\* A session starts with a record of its own: the announcement of the pool.
LEMMA EstablishedIsRight ==
  ASSUME GossipInv, NEW p \in GossipPeers, SessionEstablished(p), ~OnNewPendingTransactions
  PROVE  Right
<1>0. GossipTyped
  BY Zenon DEF GossipInv
<1>1. PICK msg \in IF syncing THEN {{}} ELSE HashesOf(pool) :
        seenBy' = [seenBy EXCEPT ![p] = msg] /\ told' = [told EXCEPT ![p] = msg]
  BY Zenon DEF SessionEstablished
<1>2. /\ listeners' = listeners \cup {p} /\ heard' = [heard EXCEPT ![p] = {}] /\ lastFull' = Nothing
      /\ pool' = pool /\ fresh' = fresh
  BY Zenon DEF SessionEstablished
<1>3. msg \in SUBSET Txs
  <2>1. CASE syncing
    BY <1>1, <2>1
  <2>2. CASE ~syncing
    <3>1. pool \in SUBSET Txs /\ msg \in HashesOf(pool)
      BY <1>0, <1>1, <2>2 DEF GossipTyped
    <3>2. msg \subseteq pool
      BY Zenon, <3>1, HashesTake
    <3> QED
      BY <3>1, <3>2
  <2> QED
    BY <2>1, <2>2
<1>4. /\ {} \in SUBSET Txs /\ msg \cup {} \subseteq msg /\ msg \subseteq msg \cup {}
      /\ listeners' \subseteq listeners \cup {p} /\ lastFull' \in [GossipPeers -> SUBSET Txs]
  BY <1>2 DEF Nothing
<1>5. Recorded(p, msg, msg, {})
  BY Zenon, <1>1, <1>2, <1>3, <1>4 DEF Recorded
<1>6. GossipTyped' /\ OnRecord' /\ RecordTrue'
  BY Zenon, <1>5, RecordAt
<1> QED
  BY Zenon, <1>2, <1>6, QuietIsRight

\* Every step is right.
LEMMA GossipStepIsRight ==
  ASSUME GossipInv, GossipNext
  PROVE  Right
<1>0. GossipTyped
  BY Zenon DEF GossipInv
<1>1. CASE OnNewPendingTransactions
  BY <1>1, BatchIsRight
<1>2. CASE ~OnNewPendingTransactions
  <2>1. CASE Commands
    BY Zenon, <1>2, <2>1, CommandIsRight
  <2>2. CASE Synced
    <3>1. /\ lastFull' = Nothing /\ UNCHANGED <<seenBy, told, heard>>
          /\ pool' = pool /\ fresh' = fresh /\ listeners' = listeners
      BY Zenon, <2>2 DEF Synced
    <3>2. pool' \subseteq Txs /\ fresh' \subseteq Txs /\ listeners' \subseteq listeners
      BY <1>0, <3>1 DEF GossipTyped
    <3> QED
      BY Zenon, <1>2, <3>1, <3>2, PoolIsRight
  <2>3. ASSUME NEW t \in Txs, NewPending(t) \/ Mined(t)
        PROVE  Right
    <3>1. lastFull' = Nothing /\ UNCHANGED <<seenBy, told, heard>> /\ listeners' = listeners
      BY Zenon, <2>3 DEF NewPending, Mined
    <3>2. pool' \subseteq Txs /\ fresh' \subseteq Txs /\ listeners' \subseteq listeners
      BY <1>0, <2>3, <3>1 DEF NewPending, Mined, GossipTyped
    <3> QED
      BY Zenon, <1>2, <3>1, <3>2, PoolIsRight
  <2>4. ASSUME NEW p \in GossipPeers, SessionClosed(p)
        PROVE  Right
    <3>1. /\ lastFull' = Nothing /\ UNCHANGED <<seenBy, told, heard>>
          /\ pool' = pool /\ fresh' = fresh /\ listeners' = listeners \ {p}
      BY Zenon, <2>4 DEF SessionClosed
    <3>2. pool' \subseteq Txs /\ fresh' \subseteq Txs /\ listeners' \subseteq listeners
      BY <1>0, <3>1 DEF GossipTyped
    <3> QED
      BY Zenon, <1>2, <3>1, <3>2, PoolIsRight
  <2> QED
    BY Zenon, <1>2, <2>1, <2>2, <2>3, <2>4, MessageIsRight, EstablishedIsRight DEF GossipNext
<1> QED
  BY <1>1, <1>2

(***************************************************************************)
(* What the peers are told, for any number of peers and transactions and   *)
(* any size of a message: no blob in full, nothing to a peer that knows    *)
(* it, the truth on the record and a batch to everyone, but for the        *)
(* circumstances that ToldOnce names.                                      *)
(***************************************************************************)
THEOREM PeersAreToldOnce == GossipSpec => ToldOnce
<1>1. GossipInit => GossipInv
  BY DEF GossipInit, GossipInv, GossipTyped, OnRecord, BlobsNotInFull, RecordTrue, SeenIsKnown, Nothing
<1>2. GossipInv /\ [GossipNext]_gossipVars => GossipInv'
  <2>1. ASSUME GossipInv, UNCHANGED gossipVars
        PROVE  GossipInv'
    BY Zenon, <2>1 DEF gossipVars, GossipInv, GossipTyped, OnRecord, BlobsNotInFull, RecordTrue, SeenIsKnown
  <2> QED
    BY Zenon, <2>1, GossipStepIsRight DEF Right
<1>3. GossipInv /\ [GossipNext]_gossipVars => [NotTwice /\ (MixedBatches \/ ~OneMessage \/ AllTold)]_gossipVars
  BY Zenon, GossipStepIsRight DEF Right
<1>4. GossipInv => BlobsNotInFull /\ (HashesTo \/ ~OneMessage \/ SeenIsKnown)
  BY Zenon DEF GossipInv, RecordTrue
<1> QED
  BY <1>1, <1>2, <1>3, <1>4, PTL DEF GossipSpec, ToldOnce
=============================================================================
