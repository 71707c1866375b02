------------------------------- MODULE TxGossip ------------------------------
(***************************************************************************)
(* How the TransactionsManager (network/transactions/mod.rs) tells its     *)
(* peers about pooled transactions: in full to a fraction of them, by hash *)
(* to the others, on request, and on the commands of TransactionsHandle.   *)
(* seenBy is the manager's record; told and heard are what really went     *)
(* over the wire in the session.                                           *)
(***************************************************************************)
EXTENDS Integers, FiniteSets

CONSTANTS Txs, Blobs,       \* transactions, and those of them with blobs
          GossipPeers,
          MaxHashes,        \* hashes in one announcement
          MaxFull,          \* transactions in one full broadcast
          MaxGossip,        \* bound on session events, commands and peers' messages
          MixedBatches,     \* may a batch hold both kinds
          HashesTo          \* may propagate_hashes_to name a transaction the peer has not seen

ASSUME GossipAssumption == IsFiniteSet(Txs) /\ MaxHashes \in Nat /\ MaxFull \in Nat

VARIABLES syncing,      \* the network's initial sync
          pool, fresh,  \* pooled transactions, those waiting in the pending listener
          listeners,    \* peers
          seenBy,       \* seen_transactions of each peer
          told, heard,  \* sent to the peer, received from the peer
          lastFull,     \* what the last step sent to each peer in full
          events

gossipVars == <<syncing, pool, fresh, listeners, seenBy, told, heard, lastFull, events>>

SpendEvent == events < MaxGossip /\ events' = events + 1
Nothing == [p \in GossipPeers |-> {}]

\* (n as f64).sqrt().round()
RoundedSqrt(n) == CHOOSE r \in 0..n : (r * r - r < n \/ n = 0) /\ n <= r * r + r

\* FullTransactionsBuilder: what a full broadcast takes of a batch, by size.
FullOf(txs) ==
  LET plain == txs \ Blobs
  IN  {s \in SUBSET plain : Cardinality(s) = IF Cardinality(plain) <= MaxFull THEN Cardinality(plain) ELSE MaxFull}

\* PooledTransactionsHashesBuilder, truncated.
HashesOf(txs) ==
  {s \in SUBSET txs : Cardinality(s) = IF Cardinality(txs) <= MaxHashes THEN Cardinality(txs) ELSE MaxHashes}

\* propagate_transactions: the first peers of the map, in no order, get what they
\* have not seen in full, unless it is only blobs; the others get hashes.
Propagate(batch) ==
  LET unseen(p) == batch \ seenBy[p]
      most == RoundedSqrt(Cardinality(listeners)) + 1
      first == IF most < Cardinality(listeners) THEN most ELSE Cardinality(listeners)
  IN  \E lucky \in SUBSET listeners :
        /\ Cardinality(lucky) = first
        /\ LET inFull == {p \in lucky : FullOf(unseen(p)) \ {{}} # {}}
           IN  \E msg \in [listeners -> SUBSET batch] :
                 /\ \A p \in listeners : msg[p] \in (IF p \in inFull THEN FullOf(unseen(p)) ELSE HashesOf(unseen(p)))
                 /\ lastFull' = [p \in GossipPeers |-> IF p \in inFull THEN msg[p] ELSE {}]
                 /\ told' = [p \in GossipPeers |-> IF p \in listeners THEN told[p] \cup msg[p] ELSE told[p]]
                 /\ seenBy' = [p \in GossipPeers |-> IF p \in listeners THEN seenBy[p] \cup msg[p] ELSE seenBy[p]]

\* Nobody is told of anything.
Keep == lastFull' = Nothing /\ UNCHANGED <<seenBy, told>>

\* A transaction becomes pending in the pool.
NewPending(t) ==
  /\ t \notin pool /\ pool' = pool \cup {t} /\ fresh' = fresh \cup {t}
  /\ lastFull' = Nothing /\ UNCHANGED <<syncing, listeners, seenBy, told, heard, events>>

\* A transaction leaves the pool.
Mined(t) ==
  /\ t \in pool /\ SpendEvent /\ pool' = pool \ {t}
  /\ lastFull' = Nothing /\ UNCHANGED <<syncing, fresh, listeners, seenBy, told, heard>>

\* on_new_pending_transactions: a batch of the listener; those gone from the pool
\* meanwhile are not found any more.
OnNewPendingTransactions ==
  \E batch \in SUBSET fresh \ {{}} :
    /\ (batch \cap Blobs # {} /\ batch \ Blobs # {}) => MixedBatches
    /\ fresh' = fresh \ batch
    /\ IF syncing THEN Keep ELSE Propagate(batch \cap pool)
    /\ UNCHANGED <<syncing, pool, listeners, heard, events>>

\* TransactionsCommand::PropagateHash.
PropagateHash(t) ==
  /\ SpendEvent
  /\ IF syncing THEN Keep ELSE Propagate({t} \cap pool)
  /\ UNCHANGED <<syncing, pool, fresh, listeners, heard>>

\* propagate_hashes_to: insert says whether the hash is new; the others are sent.
PropagateHashesTo(p) ==
  /\ SpendEvent /\ p \in listeners
  /\ \E txs \in SUBSET pool \ {{}} :
       /\ txs \subseteq seenBy[p] \/ HashesTo
       /\ seenBy' = [seenBy EXCEPT ![p] = @ \cup txs]
       /\ told' = [told EXCEPT ![p] = @ \cup (txs \cap seenBy[p])]
  /\ lastFull' = Nothing
  /\ UNCHANGED <<syncing, pool, fresh, listeners, heard>>

\* propagate_full_transactions_to_peer.
PropagateTransactionsTo(p) ==
  /\ SpendEvent /\ p \in listeners
  /\ \E txs \in SUBSET (pool \ Blobs) \ {{}} :
       /\ seenBy' = [seenBy EXCEPT ![p] = @ \cup txs]
       /\ \E msg \in FullOf(txs \ seenBy[p]) :
            /\ told' = [told EXCEPT ![p] = @ \cup msg]
            /\ lastFull' = [Nothing EXCEPT ![p] = msg]
  /\ UNCHANGED <<syncing, pool, fresh, listeners, heard>>

\* on_get_pooled_transactions.
OnGetPooledTransactions(p) ==
  /\ p \in listeners /\ SpendEvent
  /\ \E txs \in SUBSET pool \ {{}} :
       /\ seenBy' = [seenBy EXCEPT ![p] = @ \cup txs]
       /\ told' = [told EXCEPT ![p] = @ \cup txs]
  /\ lastFull' = Nothing
  /\ UNCHANGED <<syncing, pool, fresh, listeners, heard>>

\* The peer announces or broadcasts a transaction.
Heard(p) ==
  /\ p \in listeners /\ ~syncing /\ SpendEvent
  /\ \E t \in Txs : seenBy' = [seenBy EXCEPT ![p] = @ \cup {t}] /\ heard' = [heard EXCEPT ![p] = @ \cup {t}]
  /\ lastFull' = Nothing
  /\ UNCHANGED <<syncing, pool, fresh, listeners, told>>

\* Fault: the record of an earlier session is kept.
SessionEstablishedKeeps(p) ==
  /\ p \notin listeners /\ SpendEvent
  /\ listeners' = listeners \cup {p}
  /\ told' = [told EXCEPT ![p] = {}] /\ heard' = [heard EXCEPT ![p] = {}] /\ lastFull' = Nothing
  /\ UNCHANGED <<syncing, pool, fresh, seenBy>>

\* on_network_event, SessionEstablished: the pool is announced.
SessionEstablished(p) ==
  /\ p \notin listeners /\ SpendEvent
  /\ listeners' = listeners \cup {p}
  /\ \E msg \in IF syncing THEN {{}} ELSE HashesOf(pool) :
        seenBy' = [seenBy EXCEPT ![p] = msg] /\ told' = [told EXCEPT ![p] = msg]
  /\ heard' = [heard EXCEPT ![p] = {}] /\ lastFull' = Nothing
  /\ UNCHANGED <<syncing, pool, fresh>>

\* on_network_event, SessionClosed.
SessionClosed(p) ==
  /\ p \in listeners /\ SpendEvent
  /\ listeners' = listeners \ {p} /\ lastFull' = Nothing
  /\ UNCHANGED <<syncing, pool, fresh, seenBy, told, heard>>

\* The initial sync ends.
Synced ==
  /\ syncing /\ syncing' = FALSE /\ lastFull' = Nothing
  /\ UNCHANGED <<pool, fresh, listeners, seenBy, told, heard, events>>

GossipInit ==
  /\ syncing \in BOOLEAN /\ pool = {} /\ fresh = {} /\ listeners \in SUBSET GossipPeers
  /\ seenBy = Nothing /\ told = Nothing /\ heard = Nothing /\ lastFull = Nothing /\ events = 0

\* on_command.
Commands ==
  \/ \E t \in Txs : PropagateHash(t)
  \/ \E p \in GossipPeers : PropagateHashesTo(p) \/ PropagateTransactionsTo(p)

GossipNext ==
  \/ OnNewPendingTransactions \/ Synced \/ Commands
  \/ \E t \in Txs : NewPending(t) \/ Mined(t)
  \/ \E p \in GossipPeers : OnGetPooledTransactions(p) \/ Heard(p) \/ SessionEstablished(p) \/ SessionClosed(p)

GossipSpec == GossipInit /\ [][GossipNext]_gossipVars
-----------------------------------------------------------------------------
\* What is recorded as seen by a peer did pass between the two of us in this
\* session; otherwise the peer is never told of it.
SeenIsKnown == \A p \in listeners : seenBy[p] \subseteq told[p] \cup heard[p]

\* "EIP-4844 are disallowed from being broadcast in full".
BlobsNotInFull == \A p \in GossipPeers : lastFull[p] \cap Blobs = {}

\* No transaction is sent in full to a peer that knows it.
NotTwice == \A p \in GossipPeers : lastFull'[p] \cap (told[p] \cup heard[p]) = {}

\* "All other peers receive a notification of the transaction hash": after a
\* propagation every connected peer knows the batch.
AllTold ==
  OnNewPendingTransactions => syncing \/ \A p \in listeners : (fresh \ fresh') \cap pool \subseteq seenBy'[p]

\* Every batch of transactions fits in one message.
OneMessage == Cardinality(Txs) <= MaxHashes /\ Cardinality(Txs \ Blobs) <= MaxFull

\* What the peers are told: blobs are never sent in full, nor a transaction to a
\* peer that knows it; the record of what a peer has seen is true, unless
\* propagate_hashes_to names what the peer has not seen (HashesTo) or a message is
\* too small (~OneMessage); and after a propagation every connected peer knows the
\* batch, unless blobs are mixed with other transactions (MixedBatches) or a message
\* is too small (propagate_transactions).  A message that is too small is cut off
\* and the rest counts as told; Network.cfg has no such batch, the proof does.
ToldOnce ==
  /\ [](BlobsNotInFull /\ (HashesTo \/ ~OneMessage \/ SeenIsKnown))
  /\ [][NotTwice /\ (MixedBatches \/ ~OneMessage \/ AllTold)]_gossipVars

\* "send full transactions to a fraction of the connected peers (square root of
\* the total number of connected peers)".
FullToFraction == Cardinality({p \in listeners : lastFull[p] # {}}) <= RoundedSqrt(Cardinality(listeners))
=============================================================================
