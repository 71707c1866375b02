------------------------------- MODULE MCPool -------------------------------
(***************************************************************************)
(* The components of the transaction pool, checked side by side: the       *)
(* initial state picks one of them (focus), and only that one moves.  The  *)
(* pool itself is checked in three scenarios.                              *)
(***************************************************************************)
EXTENDS Integers, Sequences, TLC

CONSTANTS none,         \* the value of a variable at rest
          acct, other   \* two accounts, two blobs

VARIABLES focus,
          chain, fees, all, byHash, counter, pool, valid, owed, blocks, misled,
          pend, parked, basefee, changes, added, it, chan, yielded, mined, snapshot, listed, irregular,
          blobPool, adding, discarding, cache, files, toDelete, cleaning, cleanups, len, blobChain, events,
          final, pc, lastFinal, tracked, injected, missing, reorgs, adds, returned, dropped,
          canon, made, queue, seen, known, dirty, drifted, reload, polling, failures, raced

poolVars == <<chain, fees, all, byHash, counter, pool, valid, owed, blocks, misled>>
bestVars == <<pend, parked, basefee, changes, added, it, chan, yielded, mined, snapshot, listed, irregular>>
blobVars == <<blobPool, adding, discarding, cache, files, toDelete, cleaning, cleanups, len, blobChain, events,
              final, pc, lastFinal, tracked, injected, missing, reorgs, adds, returned, dropped>>
taskVars == <<canon, made, queue, seen, known, dirty, drifted, reload, polling, failures, raced>>
vars == <<focus, poolVars, bestVars, blobVars, taskVars>>
-----------------------------------------------------------------------------
\* A transaction is a record; the functions of the specification are its fields.
Tx(s, n, fee, cost) == [s |-> s, n |-> n, fee |-> fee, blobfee |-> 0, cost |-> cost, blob |-> FALSE, local |-> FALSE]
BlobTx(s, n, fee, blobfee, cost) == [Tx(s, n, fee, cost) EXCEPT !.blobfee = blobfee, !.blob = TRUE]

\* One sender with a gap to close, a transaction below the high base fee and a
\* replacement that pays it.
FeesTxs == {Tx("a", 0, 3, 1), Tx("a", 1, 2, 1), Tx("a", 1, 3, 2), Tx("a", 2, 3, 1)}
\* Two senders and tight limits: a fee below the minimum, one between the base
\* fees and its replacement, and one with too much gas.
LimitTxs == {Tx("a", 0, 1, 1), Tx("a", 0, 2, 1), Tx("a", 1, 3, 1), Tx("b", 0, 3, 1), Tx("b", 1, 2, 1), Tx("b", 1, 3, 1), Tx("b", 2, 3, 1)}
\* Blobs of one sender, with a replacement and a transaction without blobs.
BlobTxs == {BlobTx("a", 0, 3, 1, 1), BlobTx("a", 1, 2, 3, 1), BlobTx("a", 1, 3, 4, 2), Tx("a", 1, 3, 1)}
AllTxs == FeesTxs \cup LimitTxs \cup BlobTxs
SenderOf == [x \in AllTxs |-> x.s]
NonceOf == [x \in AllTxs |-> x.n]
FeeOf == [x \in AllTxs |-> x.fee]
BlobFeeOf == [x \in AllTxs |-> x.blobfee]
CostOf == [x \in AllTxs |-> x.cost]
HasBlob == [x \in AllTxs |-> x.blob]
Local == [x \in AllTxs |-> x.local]

FeesPool == INSTANCE TxPool WITH Txs <- FeesTxs, Senders <- {"a"}, Sender <- SenderOf, Nonce <- NonceOf, Fee <- FeeOf,
  BlobFee <- BlobFeeOf, Cost <- CostOf, IsBlob <- HasBlob, IsLocal <- Local, Fees <- {1, 3}, BlobFees <- {1}, Balances <- {2, 4},
  MinFee <- 1, Slots <- 3, PendingLimit <- 3, BaseFeeLimit <- 3, BlobLimit <- 3, QueuedLimit <- 3, MaxBlocks <- 3,
  MaxValidating <- 1, TooMuchGas <- {}, StaleEviction <- FALSE

LimitsPool == INSTANCE TxPool WITH Txs <- LimitTxs, Senders <- {"a", "b"}, Sender <- SenderOf, Nonce <- NonceOf, Fee <- FeeOf,
  BlobFee <- BlobFeeOf, Cost <- CostOf, IsBlob <- HasBlob, IsLocal <- Local, Fees <- {1, 3}, BlobFees <- {1}, Balances <- {4},
  MinFee <- 2, Slots <- 2, PendingLimit <- 1, BaseFeeLimit <- 1, BlobLimit <- 1, QueuedLimit <- 1, MaxBlocks <- 2,
  MaxValidating <- 1, TooMuchGas <- {Tx("b", 2, 3, 1)}, StaleEviction <- TRUE

BlobsPool == INSTANCE TxPool WITH Txs <- BlobTxs, Senders <- {"a"}, Sender <- SenderOf, Nonce <- NonceOf, Fee <- FeeOf,
  BlobFee <- BlobFeeOf, Cost <- CostOf, IsBlob <- HasBlob, IsLocal <- Local, Fees <- {1, 3}, BlobFees <- {1, 3}, Balances <- {2, 3},
  MinFee <- 1, Slots <- 3, PendingLimit <- 3, BaseFeeLimit <- 3, BlobLimit <- 1, QueuedLimit <- 3, MaxBlocks <- 2,
  MaxValidating <- 1, TooMuchGas <- {}, StaleEviction <- FALSE

\* Three nonces of one sender, the second below the higher base fee and with a
\* replacement that pays it, and another sender.
BestTxs == ("a0" :> Tx("a", 0, 4, 0)) @@ ("a1" :> Tx("a", 1, 2, 0)) @@ ("a1r" :> Tx("a", 1, 5, 0)) @@ ("a2" :> Tx("a", 2, 6, 0))
           @@ ("b0" :> Tx("b", 0, 3, 0))
BestSender == [x \in DOMAIN BestTxs |-> BestTxs[x].s]
BestNonce == [x \in DOMAIN BestTxs |-> BestTxs[x].n]
BestFee == [x \in DOMAIN BestTxs |-> BestTxs[x].fee]
NoBlob == [x \in DOMAIN BestTxs |-> FALSE]
BestTx == INSTANCE BestTransactions WITH Txs <- DOMAIN BestTxs, Senders <- {"a", "b"}, Sender <- BestSender, Nonce <- BestNonce, Fee <- BestFee,
  BlobFee <- BestFee, Cost <- BestNonce, IsBlob <- NoBlob, IsLocal <- NoBlob, Capacity <- 1, BaseFees <- {1, 3},
  MaxFeeChanges <- 1, seen <- listed

\* Two blob transactions and a block, and one with two blocks.
Store == INSTANCE BlobStore WITH Blobs <- {acct, other}, Absent <- none, CacheSize <- 1, MaxBlocks <- 1, MaxReorgs <- 1, MaxAdds <- 2,
  pool <- blobPool, chain <- blobChain
Deep == INSTANCE BlobStore WITH Blobs <- {acct}, Absent <- none, CacheSize <- 1, MaxBlocks <- 2, MaxReorgs <- 1, MaxAdds <- 2,
  pool <- blobPool, chain <- blobChain

Task == INSTANCE PoolMaintenance WITH Accounts <- {acct, other}, MaxBlocks <- 3, MaxUpdateDepth <- 1, MaxReload <- 1, MaxFailures <- 1, chain <- canon
-----------------------------------------------------------------------------
PoolAtRest == /\ chain = none /\ fees = none /\ all = none /\ byHash = none /\ counter = none /\ pool = none /\ valid = none
              /\ owed = none /\ blocks = none /\ misled = none
BestAtRest == /\ pend = none /\ parked = none /\ basefee = none /\ changes = none /\ added = none /\ it = none /\ chan = none
              /\ yielded = none /\ mined = none /\ snapshot = none /\ listed = none /\ irregular = none
BlobAtRest == /\ blobPool = none /\ adding = none /\ discarding = none /\ cache = none /\ files = none /\ toDelete = none
              /\ cleaning = none /\ cleanups = none /\ len = none /\ blobChain = none /\ events = none /\ final = none
              /\ pc = none /\ lastFinal = none /\ tracked = none /\ injected = none /\ missing = none /\ reorgs = none /\ adds = none
              /\ returned = none /\ dropped = none
TaskAtRest == /\ canon = none /\ made = none /\ queue = none /\ seen = none /\ known = none /\ dirty = none /\ drifted = none
              /\ reload = none /\ polling = none /\ failures = none /\ raced = none

Init ==
  \/ focus = "fees" /\ FeesPool!Init /\ BestAtRest /\ BlobAtRest /\ TaskAtRest
  \/ focus = "limits" /\ LimitsPool!Init /\ BestAtRest /\ BlobAtRest /\ TaskAtRest
  \/ focus = "blobs" /\ BlobsPool!Init /\ BestAtRest /\ BlobAtRest /\ TaskAtRest
  \/ focus = "best" /\ BestTx!Init /\ PoolAtRest /\ BlobAtRest /\ TaskAtRest
  \/ focus = "store" /\ Store!Init /\ PoolAtRest /\ BestAtRest /\ TaskAtRest
  \/ focus = "deep" /\ Deep!Init /\ PoolAtRest /\ BestAtRest /\ TaskAtRest
  \/ focus = "task" /\ Task!Init /\ PoolAtRest /\ BestAtRest /\ BlobAtRest

Steps ==
  \/ focus = "fees" /\ FeesPool!Next /\ UNCHANGED <<bestVars, blobVars, taskVars>>
  \/ focus = "limits" /\ LimitsPool!Next /\ UNCHANGED <<bestVars, blobVars, taskVars>>
  \/ focus = "blobs" /\ BlobsPool!Next /\ UNCHANGED <<bestVars, blobVars, taskVars>>
  \/ focus = "best" /\ BestTx!Next /\ UNCHANGED <<poolVars, blobVars, taskVars>>
  \/ focus = "store" /\ Store!Next /\ UNCHANGED <<poolVars, bestVars, taskVars>>
  \/ focus = "deep" /\ Deep!Next /\ UNCHANGED <<poolVars, bestVars, taskVars>>
  \/ focus = "task" /\ Task!Next /\ UNCHANGED <<poolVars, bestVars, blobVars>>

Next == Steps /\ UNCHANGED focus

\* The maintenance task is polled, and its blocking loads end.
Spec ==
  /\ Init /\ [][Next]_vars
  /\ WF_taskVars(focus = "task" /\ Task!Top) /\ WF_taskVars(focus = "task" /\ Task!Reloaded)
  /\ WF_taskVars(focus = "task" /\ (Task!OnReorg \/ Task!OnCommit))
-----------------------------------------------------------------------------
\* The sub-pools partition the pool and every transaction is in the one its bits ask
\* for; a sender's slots are counted right through replacements, evictions and
\* blocks; a pending transaction and all before it are covered by the sender's
\* balance; a sender has either blob transactions, with no nonce gap, or others.
\* Balance and gaps not of a sender whose account a block changed between the
\* validation and the insertion of a transaction, until a block changes it again
\* (TxPool::assert_invariants, tx_counter, insert_tx, update_accounts).
SubPoolsSound ==
  /\ focus = "fees" => FeesPool!SubPoolsPartition /\ FeesPool!PendingAffordable
  /\ focus = "limits" => LimitsPool!SubPoolsPartition /\ LimitsPool!SlotsCounted
  /\ focus = "blobs" => /\ BlobsPool!SubPoolsPartition /\ BlobsPool!PendingAffordable
                        /\ BlobsPool!BlobSendersExclusive /\ BlobsPool!BlobsGapless

\* When an insertion enforces the limits every sub-pool ends within its own, and no
\* transaction stays that waits for an evicted one (discard_worst).
LimitsEnforced == [][focus = "limits" => LimitsPool!LimitsEnforced]_vars

\* The iterator of best transactions yields the nonces of a sender in steps of one
\* ("the nonces of transactions with the same sender will _always_ increase by
\* exactly 1"), except of a sender that had a transaction replaced or promoted again,
\* a broadcast lost to a full channel, or a transaction passed over for its fee; once
\* drained, and without a base fee of its own, it has yielded all it was built from,
\* or what replaced it, whatever the pool did meanwhile (BestTransactions::next).
IteratorSound == focus = "best" => BestTx!YieldedInOrder /\ BestTx!SnapshotYielded

\* A stored sidecar of a pooled transaction is on disk, and a sidecar on disk
\* belongs to a pooled transaction, to an unfinalized block or to a pending
\* deletion, through mining, reorgs, finalization and cleanups (DiskFileBlobStore,
\* BlobStoreCanonTracker).  The first not of a transaction that came back before its
\* old sidecar was deleted or was reorged before a finalization the task handled
\* first; the second not of one that left the pool before its sidecar was stored, or
\* was rejected when a reorg brought it back.
SidecarsTracked ==
  /\ focus = "store" => Store!SidecarStored /\ Store!NoOrphans
  /\ focus = "deep" => Deep!SidecarStored /\ Deep!NoOrphans

\* A maintenance task with nothing left to do leaves the pool knowing the accounts
\* as the canonical tip has them, and when the chain stands still it gets there,
\* through reorgs, lost notifications and failed loads; all but an account that a
\* block changed while it was being reloaded from an earlier one, until the pool is
\* given it again (maintain_transaction_pool).
PoolCatchesUp ==
  [](focus = "task" => Task!PoolUpToDate) /\ <>[](focus = "task" => Task!AgreesWithTip)
=============================================================================
