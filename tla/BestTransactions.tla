--------------------------- MODULE BestTransactions ---------------------------
(***************************************************************************)
(* The iterators over pending transactions (best.rs) that a payload builder *)
(* walks while the pool goes on changing: a copy of the pool taken at the   *)
(* start, a bounded broadcast channel that brings what becomes pending      *)
(* later, and the marks of what the builder found invalid.                  *)
(***************************************************************************)
EXTENDS PendingPool

CONSTANTS Capacity,       \* of the broadcast channel, which drops its oldest
          BaseFees,       \* base fees of the pool, and an iterator may be asked for
          MaxFeeChanges   \* bound on the changes of the pool's base fee

VARIABLES pend,      \* the pending pool
          parked,    \* transactions of the base fee pool
          basefee,   \* the base fee the pool tracks
          changes,
          added,     \* how often each transaction was added to pending: its submission
          it,        \* the iterator, or NoIterator
          chan, yielded,
          mined,     \* transactions blocks have included
          snapshot,  \* what the iterator was built from
          seen,      \* history: transactions that were pending or in the iterator
          irregular  \* history: senders the order is not promised of, see YieldedInOrder

vars == <<pend, parked, basefee, changes, added, it, chan, yielded, mined, snapshot, seen, irregular>>

\* PendingTransaction: a transaction that becomes pending again is another entry.
Entry(t, n) == [tx |-> t, submission |-> n]
Current(S) == {Entry(t, added[t]) : t \in S}
TxsOf(entries) == {e.tx : e \in entries}

\* Its order: by priority, an earlier submission before a later one.
WorseEntry(e, f) == Worse(e.tx, f.tx) \/ (e.tx = f.tx /\ e.submission > f.submission)

NoIterator == [all |-> {}, independent |-> {}, invalid |-> {}, base |-> 0, open |-> FALSE]

\* best: a copy of the pool and a subscription.
Best(base) ==
  [all |-> Current(pend.ids), independent |-> Current(pend.independent), invalid |-> {}, base |-> base, open |-> TRUE]

Replacing(entries, e) == {x \in entries : Sender[x.tx] # Sender[e.tx] \/ Nonce[x.tx] # Nonce[e.tx]} \cup {e}

\* Fault: every new transaction is independent.
InsertNewIndependent(b, e) ==
  [b EXCEPT !.all = Replacing(b.all, e), !.independent = b.independent \cup {e}]

\* add_new_transactions and best_with_unlocked: a transaction without ancestor
\* is independent; one with the same id is replaced.
InsertNew(b, e) ==
  [b EXCEPT !.all = Replacing(b.all, e),
            !.independent = IF Ancestor(TxsOf(b.all), e.tx) = {} THEN b.independent \cup {e} ELSE b.independent]

Payers(base) == {t \in Txs : Fee[t] >= base}

\* best_transactions, and best_transactions_with_attributes: with a higher base fee
\* than the pool's, a lower one or the same.
Open ==
  /\ it = NoIterator
  /\ \E base \in BaseFees :
       LET unlocked == IF base < basefee THEN Satisfies(parked, Payers(base)) ELSE {}
       IN  /\ it' = FoldLeft(InsertNew, Best(IF base > basefee THEN base ELSE 0),
                             [i \in 1..Cardinality(unlocked) |-> Entry(ById(unlocked)[i], 0)])
           /\ snapshot' = pend.ids \cup unlocked
           /\ seen' = seen \cup unlocked
  /\ UNCHANGED <<pend, parked, basefee, changes, added, chan, yielded, mined, irregular>>
-----------------------------------------------------------------------------
\* Transactions become pending, one after the other; each is broadcast if an iterator
\* listens, and a full channel drops its oldest.
Broadcast(ts) ==
  LET all  == chan \o [i \in 1..Len(ts) |-> Entry(ts[i], added[ts[i]] + 1)]
      lost == IF it.open THEN Max({0, Len(all) - Capacity}) ELSE 0
  IN  /\ chan' = IF it.open THEN SubSeq(all, lost + 1, Len(all)) ELSE chan
      /\ added' = [t \in Txs |-> added[t] + (IF t \in ToSet(ts) THEN 1 ELSE 0)]
      /\ seen' = seen \cup ToSet(ts)
      /\ irregular' = irregular
           \cup {Sender[all[i].tx] : i \in 1..lost}
           \cup {Sender[t] : t \in {u \in ToSet(ts) : AtNonce(seen, Sender[u], Nonce[u]) # {}}}

\* A transaction arrives that is executable, or replaces a pending one that pays
\* less: the replaced one leaves first.
PoolAdd(t) ==
  /\ t \notin pend.ids /\ AtNonce(parked \cup mined, Sender[t], Nonce[t]) = {}
  /\ Nonce[t] = 0 \/ Ancestor(pend.ids \cup mined, t) # {}
  /\ Fee[t] >= basefee /\ \A r \in AtNonce(pend.ids, Sender[t], Nonce[t]) : Fee[t] > Fee[r]
  /\ pend' = PendingAdd(FoldSet(LAMBDA r, p : PendingRemove(p, r), pend, AtNonce(pend.ids, Sender[t], Nonce[t])), t)
  /\ Broadcast(<<t>>)
  /\ UNCHANGED <<parked, basefee, changes, it, yielded, mined, snapshot>>

\* update_basefee: a higher fee parks the transactions that do not pay and those
\* behind them, a lower one promotes what pays.
RaiseFee(base) ==
  LET drop == PendingDrop(pend, Payers(base))
  IN  /\ base > basefee /\ changes < MaxFeeChanges
      /\ basefee' = base /\ changes' = changes + 1
      /\ pend' = drop.pool /\ parked' = parked \cup drop.removed
      /\ UNCHANGED <<added, it, chan, yielded, mined, snapshot, seen, irregular>>

LowerFee(base) ==
  LET up == ById(Satisfies(parked, Payers(base)))
  IN  /\ base < basefee /\ changes < MaxFeeChanges
      /\ basefee' = base /\ changes' = changes + 1
      /\ pend' = FoldLeft(PendingAdd, pend, up) /\ parked' = parked \ ToSet(up)
      /\ Broadcast(up)
      /\ UNCHANGED <<it, yielded, mined, snapshot>>

\* A block takes the first of a sender's transactions out of the pool; the
\* iterator keeps its copy.
PoolRemove(t) ==
  /\ t \in pend.ids /\ Ancestor(pend.ids, t) = {}
  /\ it.open
  /\ pend' = PendingRemove(pend, t)
  /\ mined' = mined \cup {t}
  /\ UNCHANGED <<parked, basefee, changes, added, it, chan, yielded, snapshot, seen, irregular>>
-----------------------------------------------------------------------------
Unlock(b, t) == {e \in b.all : e.tx \in Descendant(TxsOf(b.all), t)}

\* BestTransactionsWithFees: what does not pay is marked and passed over.
Pays(b, t) == Fee[t] >= b.base

\* One turn of next: take what is new, pop the best, unlock its descendant, and
\* yield it unless it is marked or does not pay.
Pop ==
  LET b == FoldLeft(InsertNew, it, chan)
      best == Last(SetToSortSeq(b.independent, WorseEntry))
      rest == b.independent \ {best}
      pays == Pays(b, best.tx)
      skip == best.tx \in b.invalid
  IN  /\ it.open
      /\ b.independent # {}
      /\ chan' = <<>>
      /\ it' = [b EXCEPT !.independent = IF skip THEN rest ELSE rest \cup Unlock(b, best.tx),
                         !.invalid = IF skip \/ pays THEN b.invalid ELSE b.invalid \cup {best.tx}]
      /\ yielded' = IF ~skip /\ pays THEN Append(yielded, best.tx) ELSE yielded
      /\ irregular' = IF skip \/ pays THEN irregular ELSE irregular \cup {Sender[best.tx]}
      /\ UNCHANGED <<pend, parked, basefee, changes, added, mined, snapshot, seen>>

\* The builder could not execute what it was given.
MarkInvalid ==
  /\ yielded # <<>>
  /\ Last(yielded) \notin it.invalid
  /\ it' = [it EXCEPT !.invalid = it.invalid \cup {Last(yielded)}]
  /\ UNCHANGED <<pend, parked, basefee, changes, added, chan, yielded, mined, snapshot, seen, irregular>>

\* The pool starts with transactions of gapless nonces, those that do not pay and
\* those behind them parked.
Init ==
  /\ basefee \in BaseFees
  /\ \E S \in SUBSET Txs :
       /\ \A t \in S : Nonce[t] = 0 \/ Ancestor(S, t) # {}
       /\ \A t, u \in S : Sender[t] = Sender[u] /\ Nonce[t] = Nonce[u] => t = u
       /\ LET all  == FoldLeft(PendingAdd, EmptyPending, ById(S))
              drop == PendingDrop(all, Payers(basefee))
          IN  /\ pend = drop.pool /\ parked = drop.removed
              /\ seen = drop.pool.ids
              /\ added = [t \in Txs |-> IF t \in drop.pool.ids THEN 1 ELSE 0]
  /\ changes = 0
  /\ it = NoIterator /\ chan = <<>> /\ yielded = <<>> /\ mined = {} /\ snapshot = {} /\ irregular = {}

Next ==
  \/ Open \/ Pop \/ MarkInvalid
  \/ \E t \in Txs : PoolAdd(t) \/ PoolRemove(t)
  \/ \E base \in BaseFees : RaiseFee(base) \/ LowerFee(base)

Spec == Init /\ [][Next]_vars
-----------------------------------------------------------------------------
\* PendingPool::best: "the nonces of transactions with the same sender will _always_
\* increase by exactly 1".  Of every sender, but not of one that had a transaction
\* replaced or promoted again, that has lost a broadcast to a full channel, or whose
\* transaction was passed over because it does not pay the iterator's base fee:
\* what such a thing does to one sender never touches the order of another.
YieldedInOrder ==
  \A i \in 1..Len(yielded) : Sender[yielded[i]] \notin irregular =>
    LET before == {j \in 1..i - 1 : Sender[yielded[j]] = Sender[yielded[i]]}
    IN  Nonce[yielded[i]] = Cardinality(before)

Drained == it.open /\ it.independent = {} /\ chan = <<>> /\ it.base = 0

\* A drained iterator without a base fee of its own has yielded every transaction it
\* was built from, or the one that replaced it, whatever the pool did meanwhile:
\* replacements, changes of the base fee, blocks, and broadcasts that were lost.
SnapshotYielded ==
  Drained => \A t \in snapshot : AtNonce(ToSet(yielded), Sender[t], Nonce[t]) # {}

\* BestTransactions: "These new pending transactions are inserted into this
\* iterator's pool before yielding the next value": a drained iterator has
\* yielded them too.
NewYielded == Drained => pend.ids \subseteq ToSet(yielded)

\* mark_invalid: "Mark the transaction and it's descendants as invalid."
InvalidNotFollowed ==
       \A t \in it.invalid : yielded' # yielded => Last(yielded') \notin Descendants(Txs, t)
=============================================================================
