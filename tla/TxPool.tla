------------------------------- MODULE TxPool -------------------------------
(***************************************************************************)
(* The transaction pool (txpool.rs, pool/mod.rs): the set of all           *)
(* transactions with the state bits of each, the four sub-pools derived    *)
(* from them, insertion with replacement, the update after a block, and    *)
(* the eviction of the worst.  Each action is one critical section of the  *)
(* pool's lock.  The chain is beside it: nonce and balance of each sender, *)
(* against which a transaction is validated before it is added.            *)
(***************************************************************************)
EXTENDS PendingPool

CONSTANTS Fees, BlobFees,            \* base fees and blob fees a block may have
          Balances,                  \* balances a block may leave
          MinFee,                    \* minimal_protocol_basefee
          Slots,                     \* max_account_slots
          PendingLimit, BaseFeeLimit, BlobLimit, QueuedLimit,
          MaxBlocks,                 \* bound on the blocks and fee updates
          MaxValidating,             \* bound on the transactions being validated
          TooMuchGas,                \* transactions above the block gas limit
          StaleEviction              \* does the maintenance task evict stale queued transactions

VARIABLES chain,     \* the senders' nonces and balances
          fees,      \* pending_fees
          all,       \* all_transactions.txs: state bits, sub-pool, cumulative cost
          byHash,    \* all_transactions.by_hash
          counter,   \* tx_counter
          pool,      \* the sub-pools
          valid,     \* transactions validated and not yet added, with what was read
          owed,      \* an insertion that has not yet enforced the limits
          blocks,
          misled     \* history: senders of whom a transaction was added with an account a
                     \* block had changed since its validation, until a block changes it again

vars == <<chain, fees, all, byHash, counter, pool, valid, owed, blocks, misled>>

SubPools == {"Pending", "BaseFee", "Blob", "Queued"}

PendingBits == {"NoParkedAncestors", "NoNonceGaps", "EnoughBalance", "NotTooMuchGas", "EnoughFeeCap", "EnoughBlobFeeCap"}
BaseFeeBits == {"NoParkedAncestors", "NoNonceGaps", "EnoughBalance", "NotTooMuchGas"}

IsPending(st) == PendingBits \subseteq st

\* From<TxState> for SubPool.
SubPoolOf(st) ==
  CASE IsPending(st) -> "Pending"
    [] ~IsPending(st) /\ "Blob" \in st -> "Blob"
    [] ~IsPending(st) /\ "Blob" \notin st /\ BaseFeeBits \subseteq st -> "BaseFee"
    [] OTHER -> "Queued"

With(st, bit, b) == IF b THEN st \cup {bit} ELSE st \ {bit}

\* A pool as a value: the fields an operation changes.
P == [all |-> all, byHash |-> byHash, counter |-> counter, pool |-> pool]

Apply(p) ==
  /\ all' = p.all /\ byHash' = p.byHash /\ counter' = p.counter /\ pool' = p.pool

Without(f, t) == [x \in DOMAIN f \ {t} |-> f[x]]
Set(f, t, v) == [x \in DOMAIN f \cup {t} |-> IF x = t THEN v ELSE f[x]]
-----------------------------------------------------------------------------
\* add_transaction_to_subpool.
ToSubPool(pl, name, t) ==
  [pl EXCEPT ![name] = CASE name = "Pending" -> PendingAdd(pl[name], t)
                         [] name = "Blob" -> BlobAdd(pl[name], t)
                         [] OTHER -> ParkedAdd(pl[name], t)]

\* remove_from_subpool, prune_from_subpool.
FromSubPool(pl, name, t) ==
  [pl EXCEPT ![name] = CASE name = "Pending" -> PendingRemove(pl[name], t)
                         [] name = "Blob" -> BlobRemove(pl[name], t)
                         [] OTHER -> ParkedRemove(pl[name], t)]

\* AllTransactions::remove_transaction and the sub-pool the transaction is in.
RemoveTransaction(p, t) ==
  IF t \notin DOMAIN p.all THEN p
  ELSE [all |-> Without(p.all, t), byHash |-> p.byHash \ {t},
        counter |-> [p.counter EXCEPT ![Sender[t]] = p.counter[Sender[t]] - 1],
        pool |-> FromSubPool(p.pool, p.all[t].sub, t)]

\* process_updates: discarded transactions leave, the others move from the
\* sub-pool they were in to the one their new bits ask for.
ProcessUpdates(p, new, discard) ==
  LET old == p.all
      move(acc, t) ==
        IF t \in discard THEN RemoveTransaction(acc, t)
        ELSE IF old[t].sub = new[t].sub THEN acc
        ELSE [all |-> acc.all, byHash |-> acc.byHash, counter |-> acc.counter,
              pool |-> ToSubPool(FromSubPool(acc.pool, old[t].sub, t), new[t].sub, t)]
  IN  FoldLeft(move, [all |-> new, byHash |-> p.byHash, counter |-> p.counter, pool |-> p.pool], ById(DOMAIN old))
-----------------------------------------------------------------------------
\* AllTransactions::update.

\* The first transaction of a sender that is not behind the chain's nonce.
UpdateFirst(e, t, info, changed, base) ==
  LET next == changed /\ Nonce[t] = info.nonce
      st1 == IF next THEN With(e.state \cup {"NoNonceGaps", "NoParkedAncestors"}, "EnoughBalance", Cost[t] <= info.balance)
             ELSE e.state
      st2 == With(st1 \cup {"NoParkedAncestors"}, "EnoughFeeCap", Fee[t] >= base)
      gap == "NoNonceGaps" \notin st1
      st == IF gap THEN st1 ELSE st2
  IN  [state |-> st, sub |-> IF gap THEN e.sub ELSE SubPoolOf(st), cum |-> IF next THEN 0 ELSE e.cum]

\* A later one: the parked flag of the ancestor and the cost so far.
UpdateNext(e, t, info, changed, base, parked, cum) ==
  LET st1 == With(With(e.state \cup {"NoNonceGaps"}, "EnoughBalance",
                       IF changed THEN cum + Cost[t] <= info.balance ELSE "EnoughBalance" \in e.state),
                  "NoParkedAncestors", ~parked)
      st == With(st1, "EnoughFeeCap", Fee[t] >= base)
  IN  [entry |-> [state |-> st, sub |-> SubPoolOf(st), cum |-> cum], parked |-> ~IsPending(st1)]

UpdateSender(txs, s, info, changed, base) ==
  LET step(acc, t) ==
        IF acc.stop THEN acc
        ELSE IF acc.first /\ changed /\ Nonce[t] < info.nonce
        THEN [all |-> acc.all, discard |-> acc.discard \cup {t}, first |-> TRUE, stop |-> FALSE, parked |-> FALSE, cum |-> 0, next |-> 0]
        ELSE IF acc.first
        THEN LET e == UpdateFirst(acc.all[t], t, info, changed, base)
             IN  [all |-> Set(acc.all, t, e), discard |-> acc.discard, first |-> FALSE, stop |-> "NoNonceGaps" \notin e.state,
                  parked |-> ~IsPending(e.state), cum |-> e.cum + Cost[t], next |-> Nonce[t] + 1]
        ELSE IF Nonce[t] # acc.next
        THEN [all |-> acc.all, discard |-> acc.discard, first |-> FALSE, stop |-> TRUE, parked |-> acc.parked, cum |-> acc.cum, next |-> acc.next]
        ELSE LET u == UpdateNext(acc.all[t], t, info, changed, base, acc.parked, acc.cum)
             IN  [all |-> Set(acc.all, t, u.entry), discard |-> acc.discard, first |-> FALSE, stop |-> FALSE,
                  parked |-> u.parked, cum |-> acc.cum + Cost[t], next |-> acc.next + 1]
  IN  FoldLeft(step, [all |-> txs, discard |-> {}, first |-> TRUE, stop |-> FALSE, parked |-> FALSE, cum |-> 0, next |-> 0],
               ById(Of(DOMAIN txs, s)))

\* update_accounts.
UpdateAccounts(p, infos, changed, base) ==
  LET one(acc, s) ==
        LET u == UpdateSender(acc.all, s, infos[s], s \in changed, base)
        IN  [all |-> u.all, discard |-> acc.discard \cup u.discard]
      process(r) == ProcessUpdates(p, r.all, r.discard)
  IN  process(FoldLeft(one, [all |-> p.all, discard |-> {}], SetToSeq(Senders)))
-----------------------------------------------------------------------------
\* AllTransactions::insert_tx.

\* is_underpriced, with a bump to the next fee.
IsUnderpriced(old, t) == Fee[t] <= Fee[old] \/ (IsBlob[old] /\ BlobFee[t] <= BlobFee[old])

CostUpTo(txs, s, from, n) == FoldSet(LAMBDA t, acc : Cost[t] + acc, 0, {t \in Of(txs, s) : from <= Nonce[t] /\ Nonce[t] <= n})

\* ensure_valid.  The conflict check reads the first transaction of the sender.
EnsureValid(t) ==
  /\ IsLocal[t] \/ counter[Sender[t]] < Slots
  /\ t \notin TooMuchGas
  /\ Of(DOMAIN all, Sender[t]) # {} => IsBlob[ById(Of(DOMAIN all, Sender[t]))[1]] = IsBlob[t]

\* ensure_valid_blob_transaction: no nonce gap, no overdraft, and a replacement
\* shifts no descendant into overdraft.
EnsureValidBlob(t, info) ==
  IF Nonce[t] = info.nonce THEN Cost[t] <= info.balance
  ELSE LET anc == Ancestor(DOMAIN all, t)
           replaced == AtNonce(DOMAIN all, Sender[t], Nonce[t])
       IN  /\ anc # {}
           /\ \A a \in anc : "NoNonceGaps" \in all[a].state /\ all[a].cum + Cost[a] + Cost[t] <= info.balance
           /\ replaced # {} =>
                \A a \in anc, d \in Descendants(DOMAIN all, t) :
                   all[a].cum + Cost[a] + Cost[t] + CostUpTo(DOMAIN all, Sender[t], Nonce[t] + 1, Nonce[d]) <= info.balance

Accepts(t, info) ==
  /\ EnsureValid(t)
  /\ IsBlob[t] => EnsureValidBlob(t, info)
  /\ Fee[t] >= MinFee
  /\ \A old \in AtNonce(DOMAIN all, Sender[t], Nonce[t]) : ~IsUnderpriced(old, t)

\* The bits known before the walk over the sender's transactions.
NewState(t, info) ==
  {"NotTooMuchGas"}
  \cup (IF IsBlob[t] THEN {"Blob"} ELSE {})
  \cup (IF ~IsBlob[t] \/ BlobFee[t] >= fees.blob THEN {"EnoughBlobFeeCap"} ELSE {})
  \cup (IF Nonce[t] = info.nonce THEN {"NoNonceGaps", "NoParkedAncestors"} ELSE {})
  \cup (IF Fee[t] >= fees.base THEN {"EnoughFeeCap"} ELSE {})

\* The walk over the sender's transactions from the chain's nonce on.
Walk(txs, t, info) ==
  LET line == ById({u \in Of(DOMAIN txs, Sender[t]) : Nonce[u] >= info.nonce})
      parked0 == Nonce[t] # info.nonce /\ ~(Nonce[line[1]] < Nonce[t] /\ IsPending(txs[line[1]].state))
      step(acc, u) ==
        IF acc.stop \/ Nonce[u] # acc.next
        THEN [all |-> acc.all, stop |-> TRUE, parked |-> acc.parked, cum |-> acc.cum, next |-> acc.next]
        ELSE LET st == With(With(acc.all[u].state \cup {"NoNonceGaps"}, "EnoughBalance", acc.cum + Cost[u] <= info.balance),
                            "NoParkedAncestors", ~acc.parked)
             IN  [all |-> Set(acc.all, u, [state |-> st, sub |-> SubPoolOf(st), cum |-> acc.cum]), stop |-> FALSE,
                  parked |-> ~IsPending(st), cum |-> acc.cum + Cost[u], next |-> Nonce[u] + 1]
  IN  FoldLeft(step, [all |-> txs, stop |-> FALSE, parked |-> parked0, cum |-> 0, next |-> info.nonce], line).all

CountInserted(t, replaced) == IF replaced = {} THEN [counter EXCEPT ![Sender[t]] = counter[Sender[t]] + 1] ELSE counter

\* Fault: the replaced transaction stays in its sub-pool.
SubPoolsOnInsertKeep(pl, replaced, name, t) == ToSubPool(pl, name, t)

\* add_new_transaction: the replaced one leaves its sub-pool first.
SubPoolsOnInsert(pl, replaced, name, t) ==
  ToSubPool(FoldSet(LAMBDA r, acc : FromSubPool(acc, all[r].sub, r), pl, replaced), name, t)

Insert(t, info) ==
  LET replaced == AtNonce(DOMAIN all, Sender[t], Nonce[t])
      st == NewState(t, info)
      kept == [x \in DOMAIN all \ replaced |-> all[x]]
      process(new) ==
        ProcessUpdates([all |-> Set(kept, t, new[t]),
                        byHash |-> (byHash \ replaced) \cup {t},
                        counter |-> CountInserted(t, replaced),
                        pool |-> SubPoolsOnInsert(pool, replaced, new[t].sub, t)], new, {})
  IN  process(Walk(Set(kept, t, [state |-> st, sub |-> SubPoolOf(st), cum |-> 0]), t, info))

\* Validation reads the sender's account; the pool is not locked.
Validate(t) ==
  /\ t \notin DOMAIN valid /\ t \notin byHash /\ Cardinality(DOMAIN valid) < MaxValidating
  /\ Nonce[t] >= chain[Sender[t]].nonce
  /\ Cost[t] <= chain[Sender[t]].balance
  /\ valid' = Set(valid, t, chain[Sender[t]])
  /\ UNCHANGED <<chain, fees, all, byHash, counter, pool, owed, blocks, misled>>

\* add_transaction with the balance and nonce that were read.
AddTransaction(t) ==
  /\ t \in DOMAIN valid
  /\ valid' = Without(valid, t)
  /\ \/ /\ t \notin byHash /\ Accepts(t, valid[t]) /\ Apply(Insert(t, valid[t])) /\ owed' = TRUE
        /\ misled' = misled \cup {s \in {Sender[t]} : valid[t] # chain[s]}
     \/ ~(t \notin byHash /\ Accepts(t, valid[t])) /\ UNCHANGED <<all, byHash, counter, pool, owed, misled>>
  /\ UNCHANGED <<chain, fees, blocks>>
-----------------------------------------------------------------------------
\* discard_worst, for each sub-pool in turn.

Limit(name) ==
  CASE name = "Pending" -> PendingLimit [] name = "BaseFee" -> BaseFeeLimit
    [] name = "Blob" -> BlobLimit [] OTHER -> QueuedLimit

\* Fault: the descendants of an evicted transaction stay.
EvictOnly(p, t) ==
  [all |-> Without(p.all, t), byHash |-> p.byHash \ {t},
   counter |-> [p.counter EXCEPT ![Sender[t]] = p.counter[Sender[t]] - 1], pool |-> p.pool]

\* An evicted transaction leaves the total set, its descendants the entire pool.
Evict(p, t) ==
  IF t \notin DOMAIN p.all THEN p
  ELSE FoldLeft(RemoveTransaction,
                [all |-> Without(p.all, t), byHash |-> p.byHash \ {t},
                 counter |-> [p.counter EXCEPT ![Sender[t]] = p.counter[Sender[t]] - 1], pool |-> p.pool],
                ById(Descendants(DOMAIN p.all, t)))

\* What is left of a sub-pool, and the eviction of what is not.
Discard(p, name, kept) ==
  FoldLeft(Evict, [all |-> p.all, byHash |-> p.byHash, counter |-> p.counter, pool |-> [p.pool EXCEPT ![name] = kept]],
           ById(p.pool[name].ids \ kept.ids))

DiscardParked(p, name) == Discard(p, name, TruncateParked(p.pool[name], Limit(name)))

\* The worst blob transaction may be any.
DiscardWorst ==
  /\ owed /\ owed' = FALSE
  /\ \E pend \in {TruncatePending(pool["Pending"], PendingLimit)} :
       /\ pend.ends
       /\ \E p2 \in {DiscardParked(Discard(P, "Pending", pend.pool), "BaseFee")} :
            \E kept \in SUBSET p2.pool["Blob"].ids :
              /\ Cardinality(kept) = Min({BlobLimit, Cardinality(p2.pool["Blob"].ids)})
              /\ Apply(DiscardParked(Discard(p2, "Blob", [ids |-> kept, order |-> <<>>]), "Queued"))
  /\ UNCHANGED <<chain, fees, valid, blocks, misled>>
-----------------------------------------------------------------------------
\* Blocks.

PruneMined(p, mined) == FoldLeft(RemoveTransaction, p, ById(mined \cap p.byHash))

\* on_canonical_state_change.  The new fees are set first and only the base fee
\* is applied to the transactions.
OnCanonicalStateChange(mined, new, base) ==
  LET changed == {s \in Senders : new[s] # chain[s]}
  IN  UpdateAccounts(PruneMined(P, mined), new, changed, base)

\* A block includes some transactions of a sender, from its nonce on, leaves
\* balances and fees as it will; the pool is told of the accounts that changed.
NewBlock ==
  \E s \in Senders, bal \in Balances, base \in Fees, blob \in BlobFees :
    \E mined \in SUBSET Of(Txs, s) :
      LET new == [chain EXCEPT ![s] = [nonce |-> chain[s].nonce + Cardinality(mined), balance |-> bal]]
      IN  /\ blocks < MaxBlocks
          /\ {Nonce[t] : t \in mined} = chain[s].nonce..new[s].nonce - 1
          /\ Apply(OnCanonicalStateChange(mined, new, base))
          /\ chain' = new
          /\ fees' = [base |-> base, blob |-> blob]
          /\ blocks' = blocks + 1
          /\ misled' = misled \ {x \in Senders : new[x] # chain[x]}
          /\ UNCHANGED <<valid, owed>>

\* update_basefee: a raised fee demotes from pending, a lowered one promotes.
UpdateBasefee(p, base) ==
  LET pays == {t \in Txs : Fee[t] >= base}
      drop == PendingDrop(p.pool["Pending"], pays)
      up == Satisfies(p.pool["BaseFee"].ids, pays)
      moved == IF base > fees.base THEN drop.removed ELSE IF base < fees.base THEN up ELSE {}
      new == [t \in DOMAIN p.all |->
                IF t \notin moved THEN p.all[t]
                ELSE LET st == With(p.all[t].state, "EnoughFeeCap", base < fees.base)
                     IN  [state |-> st, sub |-> SubPoolOf(st), cum |-> p.all[t].cum]]
      pl == IF base > fees.base THEN [p.pool EXCEPT !["Pending"] = drop.pool]
            ELSE FoldLeft(LAMBDA acc, t : FromSubPool(acc, "BaseFee", t), p.pool, ById(moved))
  IN  [all |-> new, byHash |-> p.byHash, counter |-> p.counter,
       pool |-> FoldLeft(LAMBDA acc, t : ToSubPool(acc, new[t].sub, t), pl, ById(moved))]

\* update_blob_fee, after the base fee.  A transaction without blobs has no blob
\* fee, which compares less than any.
UpdateBlobFee(p, base, blob) ==
  LET pays == {t \in Txs : IsBlob[t] /\ BlobFee[t] >= blob}
      payBoth == {t \in Txs : BlobFee[t] >= blob /\ Fee[t] >= base}
      less == blob < fees.blob \/ base < fees.base
      drop == PendingDrop(p.pool["Pending"], pays)
      moved == IF less THEN Satisfies(p.pool["Blob"].ids, payBoth)
               ELSE IF blob > fees.blob THEN drop.removed ELSE {}
      new == [t \in DOMAIN p.all |->
                IF t \notin moved THEN p.all[t]
                ELSE LET st == IF less THEN p.all[t].state \cup {"EnoughBlobFeeCap", "EnoughFeeCap"}
                               ELSE p.all[t].state \ {"EnoughBlobFeeCap"}
                     IN  [state |-> st, sub |-> SubPoolOf(st), cum |-> p.all[t].cum]]
      pl == IF less THEN FoldLeft(LAMBDA acc, t : FromSubPool(acc, "Blob", t), p.pool, ById(moved))
            ELSE IF blob > fees.blob THEN [p.pool EXCEPT !["Pending"] = drop.pool] ELSE p.pool
  IN  [all |-> new, byHash |-> p.byHash, counter |-> p.counter,
       pool |-> FoldLeft(LAMBDA acc, t : ToSubPool(acc, new[t].sub, t), pl, ById(moved))]

\* set_block_info: at the start and when the pool has drifted from the chain.
SetBlockInfo ==
  \E base \in Fees, blob \in BlobFees :
    /\ [base |-> base, blob |-> blob] # fees
    /\ Apply(UpdateBlobFee(UpdateBasefee(P, base), base, blob))
    /\ fees' = [base |-> base, blob |-> blob]
    /\ blocks < MaxBlocks /\ blocks' = blocks + 1
    /\ UNCHANGED <<chain, valid, owed, misled>>

\* remove_transactions, for queued transactions that have become stale.
RemoveStale(t) ==
  /\ StaleEviction
  /\ t \in pool["Queued"].ids
  /\ Apply(RemoveTransaction(P, t))
  /\ UNCHANGED <<chain, fees, valid, owed, blocks, misled>>

Init ==
  /\ chain \in [Senders -> [nonce : {0}, balance : Balances]]
  /\ fees \in [base : Fees, blob : BlobFees]
  /\ all = <<>> /\ byHash = {} /\ valid = <<>>
  /\ counter = [s \in Senders |-> 0]
  /\ pool = [n \in SubPools |-> IF n = "Pending" THEN EmptyPending ELSE EmptyParked]
  /\ owed = FALSE /\ blocks = 0 /\ misled = {}

Next ==
  \/ \E t \in Txs : Validate(t) \/ AddTransaction(t) \/ RemoveStale(t)
  \/ DiscardWorst \/ NewBlock \/ SetBlockInfo

Spec == Init /\ [][Next]_vars
-----------------------------------------------------------------------------
\* assert_invariants: the sub-pools partition the pool, every transaction is in
\* the one its bits ask for, the hash index names the same transactions, and no
\* two share a sender and a nonce.
SubPoolsPartition ==
  /\ byHash = DOMAIN all
  /\ \A n \in SubPools : pool[n].ids = {t \in DOMAIN all : all[t].sub = n}
  /\ \A t \in DOMAIN all : all[t].sub = SubPoolOf(all[t].state)
  /\ \A t, u \in DOMAIN all : Sender[t] = Sender[u] /\ Nonce[t] = Nonce[u] => t = u

\* The slots of a sender are counted right, through replacements, evictions and
\* blocks, and only local transactions exceed them.
SlotsCounted ==
  \A s \in Senders : /\ counter[s] = Cardinality(Of(DOMAIN all, s))
                     /\ Cardinality({t \in Of(DOMAIN all, s) : ~IsLocal[t]}) <= Slots

\* A pending transaction can be afforded: every transaction between the chain's
\* nonce and its own is in the pool, and the balance covers the cost of them all.
\* Not so of a sender whose account changed between validation and insertion, until
\* a block changes it again.
PendingAffordable ==
  \A t \in {u \in pool["Pending"].ids : Sender[u] \notin misled} :
    LET s == Sender[t]
    IN  /\ \A n \in chain[s].nonce..Nonce[t] : AtNonce(DOMAIN all, s, n) # {}
        /\ CostUpTo(DOMAIN all, s, chain[s].nonce, Nonce[t]) <= chain[s].balance

\* When an insertion enforces the limits every sub-pool ends within its own,
\* and no transaction stays that waits for an evicted one.
LimitsEnforced ==
       owed /\ ~owed' =>
       /\ \A n \in SubPools : Cardinality(pool'[n].ids) <= Limit(n)
       /\ \A t \in DOMAIN all \ DOMAIN all' : Descendants(DOMAIN all', t) = {}

\* A sender has either blob transactions or others, and its blob transactions
\* have no nonce gap (unless it is misled, as above).
BlobSendersExclusive ==
  \A t, u \in DOMAIN all : Sender[t] = Sender[u] => IsBlob[t] = IsBlob[u]

BlobsGapless ==
  \A t \in DOMAIN all : IsBlob[t] /\ Sender[t] \notin misled =>
     \A n \in chain[Sender[t]].nonce..Nonce[t] : AtNonce(DOMAIN all, Sender[t], n) # {}

\* TxPool::add_transaction: "this pool never contains transactions with nonce
\* gaps": the ancestors of a pending transaction are pending.
PendingGapless ==
  \A t \in pool["Pending"].ids :
     \A n \in chain[Sender[t]].nonce..Nonce[t] : AtNonce(pool["Pending"].ids, Sender[t], n) # {}

\* The same of the pool as a whole: a pending transaction waits for none that
\* has left it.
AncestorsInPool ==
  \A t \in pool["Pending"].ids :
     \A n \in chain[Sender[t]].nonce..Nonce[t] : AtNonce(DOMAIN all, Sender[t], n) # {}

\* basefee_pool: "Holds all parked transactions that currently violate the
\* dynamic fee requirement": one whose fee is all it lacks is there.
FeeParkedInBaseFee ==
  \A t \in DOMAIN all :
     (/\ ~IsBlob[t] /\ Fee[t] < fees.base
      /\ Nonce[t] = chain[Sender[t]].nonce /\ Cost[t] <= chain[Sender[t]].balance) => t \in pool["BaseFee"].ids

\* TxPool::add_transaction: pending "only contains transactions that are ready
\* to be included in the pending block", which pay its base fee.
PendingPaysFee == \A t \in pool["Pending"].ids : Fee[t] >= fees.base

\* PendingPool::best "never returns a transaction with an unsatisfied
\* dependency": it starts from the independent transactions.
IndependentsReady ==
  \A t \in pool["Pending"].independent : Ancestor(DOMAIN all, t) = {}

\* PendingPool::truncate_pool "first truncates all of the non-local
\* transactions": a local one goes only when the last of every sender is local.
LocalsLast ==
       owed /\ ~owed' =>
       \A t \in pool["Pending"].ids \ pool'["Pending"].ids :
          IsLocal[t] => \A u \in pool'["Pending"].ids : IsLocal[u] \/ Descendant(pool'["Pending"].ids, u) # {}

\* remove_to_limit: non_local_senders "serves as a termination condition for
\* the loop": it does not pass zero.
EvictionEnds == owed => TruncatePending(pool["Pending"], PendingLimit).ends

\* insert_tx: "Non-EIP4844 transaction always satisfy the blob fee cap
\* condition".
BlobFeeOnlyForBlobs == \A t \in DOMAIN all : ~IsBlob[t] => "EnoughBlobFeeCap" \in all[t].state

\* blob_pool: its transactions "either do not satisfy the dynamic fee
\* requirement or the blob fee requirement", the first of a sender at least.
BlobPoolParked ==
  \A t \in pool["Blob"].ids : Nonce[t] = chain[Sender[t]].nonce => Fee[t] < fees.base \/ BlobFee[t] < fees.blob

\* pending_pool: "Holds transactions that are ready to be executed on the
\* current state."
ReadyOnCurrentState == \A t \in pool["Pending"].ids : Nonce[t] >= chain[Sender[t]].nonce
=============================================================================
