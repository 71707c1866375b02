---------------------------- MODULE PendingPool ----------------------------
(***************************************************************************)
(* The sub-pools of the transaction pool as values and operators:          *)
(* pending.rs (the executable transactions, with the sets of independent   *)
(* and of highest-nonce transactions kept beside them) and parked.rs (the  *)
(* transactions that wait, with their senders by last submission).         *)
(*                                                                         *)
(* A transaction is a model value with its fields as functions.  Its       *)
(* priority is its fee; transactions of equal priority are taken in a      *)
(* fixed order instead of by submission.  Sizes in bytes are left out:     *)
(* the limit of a sub-pool counts transactions.                            *)
(***************************************************************************)
EXTENDS Integers, Sequences, FiniteSets, SequencesExt, FiniteSetsExt

CONSTANTS Txs,
          Senders,
          Sender, Nonce,         \* TransactionId
          Fee, BlobFee,          \* max_fee_per_gas, max_fee_per_blob_gas
          Cost,
          IsBlob, IsLocal

\* BTreeMap<TransactionId, _>: by sender, then by nonce.
ById(S) ==
  LET rank(s) == CHOOSE i \in 1..Cardinality(Senders) : SetToSeq(Senders)[i] = s
  IN  SetToSortSeq(S, LAMBDA x, y : \/ rank(Sender[x]) < rank(Sender[y])
                                    \/ Sender[x] = Sender[y] /\ Nonce[x] < Nonce[y])

Of(S, s) == {t \in S : Sender[t] = s}
AtNonce(S, s, n) == {t \in S : Sender[t] = s /\ Nonce[t] = n}
Ancestor(S, t) == IF Nonce[t] = 0 THEN {} ELSE AtNonce(S, Sender[t], Nonce[t] - 1)
Descendant(S, t) == AtNonce(S, Sender[t], Nonce[t] + 1)
Descendants(S, t) == {u \in S : Sender[u] = Sender[t] /\ Nonce[u] > Nonce[t]}
-----------------------------------------------------------------------------
\* PendingPool: ids, independent_transactions and highest_nonces.

EmptyPending == [ids |-> {}, independent |-> {}, highest |-> {}]

\* update_independents_and_highest_nonces, for a transaction being added.
PendingAdd(p, t) ==
  LET anc == Ancestor(p.ids, t)
  IN  [ids |-> p.ids \cup {t},
       independent |-> IF anc = {} THEN p.independent \cup {t} ELSE p.independent,
       highest |-> (p.highest \ anc) \cup {t}]

\* Removing a transaction that is not there still marks its descendant.
PendingRemove(p, t) ==
  LET unlocked == p.independent \cup Descendant(p.ids, t)
  IN  IF t \notin p.ids THEN [p EXCEPT !.independent = unlocked]
      ELSE [ids |-> p.ids \ {t},
            independent |-> unlocked \ {t},
            highest |-> IF t \in p.highest THEN (p.highest \ {t}) \cup Ancestor(p.ids \ {t}, t) ELSE p.highest]

\* update_base_fee and update_blob_fee: the pool is rebuilt without the
\* transactions that no longer pay and the ones that depend on them.
PendingDrop(p, payers) ==
  LET out == {t \in p.ids : \E u \in p.ids : u \notin payers /\ (u = t \/ t \in Descendants(p.ids, u))}
  IN  [pool |-> FoldLeft(PendingAdd, EmptyPending, ById(p.ids \ out)), removed |-> out]

Worse(t, u) == Fee[t] < Fee[u]
ByPriority(S) == SetToSortSeq(S, Worse)

\* remove_to_limit: passes over the highest nonce of each sender, worst first,
\* until the limit is met.  n is non_local_senders; a negative one is the
\* counter that has wrapped, with which the loop does not end.
LimitPass(acc, limit, locals, size) ==
  LET scan(a, t) ==
        IF a.stop \/ size - a.total <= limit \/ a.n = 0
        THEN [stop |-> TRUE, n |-> a.n, total |-> a.total, out |-> a.out]
        ELSE IF ~locals /\ IsLocal[t]
        THEN [stop |-> FALSE, n |-> a.n - 1, total |-> a.total, out |-> a.out]
        ELSE [stop |-> FALSE, n |-> a.n, total |-> a.total + 1, out |-> Append(a.out, t)]
      senders == Cardinality(acc.pool.highest)
      r == FoldLeft(scan, [stop |-> FALSE, n |-> acc.n - (acc.senders - senders), total |-> acc.total, out |-> <<>>],
                    ByPriority(acc.pool.highest))
      q == FoldLeft(PendingRemove, acc.pool, r.out)
  IN  [pool |-> q, n |-> r.n, senders |-> senders, total |-> r.total,
       done |-> r.stop \/ Cardinality(q.ids) <= limit \/ r.n = 0]

RemoveToLimit(p, limit, locals) ==
  LET h == Cardinality(p.highest)
      pass[k \in Nat] ==
        IF k = 0 THEN [pool |-> p, n |-> h, senders |-> h, total |-> 0, done |-> FALSE]
        ELSE LET acc == pass[k - 1]
             IN  IF acc.done \/ acc.n < 0 THEN acc ELSE LimitPass(acc, limit, locals, Cardinality(p.ids))
  IN  pass[Cardinality(p.ids)]

\* truncate_pool: non-local transactions go first.  ends: the loops return.
TruncatePending(p, limit) ==
  IF Cardinality(p.ids) <= limit THEN [pool |-> p, ends |-> TRUE]
  ELSE LET one == RemoveToLimit(p, limit, FALSE)
           two == RemoveToLimit(one.pool, limit, TRUE)
       IN  IF Cardinality(one.pool.ids) <= limit \/ one.n < 0
           THEN [pool |-> one.pool, ends |-> one.n >= 0]
           ELSE [pool |-> two.pool, ends |-> TRUE]
-----------------------------------------------------------------------------
\* ParkedPool: ids and the senders by last submission, the oldest first.

EmptyParked == [ids |-> {}, order |-> <<>>]

WithoutSender(order, s) == SelectSeq(order, LAMBDA x : x # s)

ParkedAdd(q, t) == [ids |-> q.ids \cup {t}, order |-> Append(WithoutSender(q.order, Sender[t]), Sender[t])]

ParkedRemove(q, t) ==
  IF t \notin q.ids THEN q
  ELSE [ids |-> q.ids \ {t},
        order |-> IF Of(q.ids \ {t}, Sender[t]) = {} THEN WithoutSender(q.order, Sender[t]) ELSE q.order]

\* satisfy_base_fee_ids, satisfy_pending_fee_ids: the transactions that pay now
\* and are not behind one of the pool that does not.
Satisfies(S, payers) == {t \in S : \A u \in S : (u = t \/ t \in Descendants(S, u)) => u \in payers}

\* The sender that has been silent longest loses its highest nonces first.
TruncateParked(q, limit) ==
  LET step[k \in Nat] ==
        IF k = 0 THEN q
        ELSE LET r == step[k - 1]
             IN  IF Cardinality(r.ids) <= limit THEN r
                 ELSE ParkedRemove(r, CHOOSE t \in Of(r.ids, Head(r.order)) : Descendants(r.ids, t) = {})
  IN  step[Cardinality(q.ids)]
-----------------------------------------------------------------------------
\* BlobTransactions: the priority is a logarithm of the fees, left out.
BlobAdd(q, t) == [ids |-> q.ids \cup {t}, order |-> <<>>]
BlobRemove(q, t) == [ids |-> q.ids \ {t}, order |-> <<>>]
=============================================================================
