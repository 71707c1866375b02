--------------------------- MODULE PoolMaintenance ---------------------------
(***************************************************************************)
(* The task that keeps the transaction pool in step with the chain         *)
(* (transaction-pool/maintain.rs): it follows the canonical state          *)
(* notifications, whose stream drops the oldest ones when it lags, and     *)
(* reloads accounts in the background when it has lost track.  An account's*)
(* state is the identifier of the block that changed it last.              *)
(***************************************************************************)
EXTENDS Integers, Sequences, FiniteSets, SequencesExt

CONSTANTS Accounts,
          MaxBlocks,       \* bound on the blocks ever made
          MaxUpdateDepth,  \* max_update_depth
          MaxReload,       \* max_reload_accounts
          MaxFailures      \* bound on failed loads

VARIABLES chain,    \* the canonical chain: id and state of each block
          made,     \* blocks ever made
          queue,    \* the notifications
          seen,     \* the pool's last seen block: id and number
          known,    \* the pool's view of the accounts
          dirty, drifted, \* dirty_addresses, maintained_state
          reload,   \* accounts being reloaded and the block they are read at
          polling,  \* the loop waits in its select
          failures,
          raced     \* history: accounts a block changed while they were reloaded from an
                    \* earlier one, until the pool is given them again

vars == <<chain, made, queue, seen, known, dirty, drifted, reload, polling, failures, raced>>

Tip == chain[Len(chain)]
Genesis == [id |-> 0, state |-> [a \in Accounts |-> 0]]
NoReload == [accounts |-> {}, state |-> Genesis.state, on |-> FALSE]
Updated(accounts, state) == [a \in Accounts |-> IF a \in accounts THEN state[a] ELSE known[a]]
Fail == failures < MaxFailures /\ failures' = failures + 1

\* changed_accounts_iter
Changed(from, to) == {a \in Accounts : from[a] # to[a]}
-----------------------------------------------------------------------------
\* n blocks on top of the given chain, each changing some accounts.
Blocks(base, n) ==
  LET Child(c, accounts) == Append(c, [id |-> made + Len(c) - Len(base) + 1,
                                       state |-> [a \in Accounts |-> IF a \in accounts THEN made + Len(c) - Len(base) + 1
                                                                     ELSE c[Len(c)].state[a]]])
  IN  IF n = 1 THEN {Child(base, s) : s \in SUBSET Accounts}
      ELSE {Child(Child(base, s[1]), s[2]) : s \in (SUBSET Accounts) \X (SUBSET Accounts)}

\* A notification: the chain before it, the chain after it, and their common part.
Notify(old, new, common) ==
  queue' = Append(queue, [type |-> IF common = Len(old) THEN "commit" ELSE "reorg",
                          old |-> old, new |-> new, common |-> common])

Commit ==
  /\ \E n \in 1..2 :
       /\ made + n <= MaxBlocks /\ made' = made + n
       /\ \E new \in Blocks(chain, n) : chain' = new /\ Notify(chain, new, Len(chain))
  /\ UNCHANGED <<seen, known, dirty, drifted, reload, polling, failures, raced>>

Reorg ==
  /\ Len(chain) > 1 /\ made < MaxBlocks /\ made' = made + 1
  /\ \E new \in Blocks(Front(chain), 1) : chain' = new /\ Notify(chain, new, Len(chain) - 1)
  /\ UNCHANGED <<seen, known, dirty, drifted, reload, polling, failures, raced>>

\* The stream lags: the oldest notification is lost.
Lag ==
  /\ Len(queue) > 1 /\ queue' = Tail(queue)
  /\ UNCHANGED <<chain, made, seen, known, dirty, drifted, reload, polling, failures, raced>>
-----------------------------------------------------------------------------
\* The top of the loop: a drifted pool reloads every sender, and a reload is
\* started at the last seen block.
Top ==
  /\ ~polling /\ polling' = TRUE /\ drifted' = FALSE
  /\ LET all == IF drifted THEN Accounts ELSE dirty
     IN  IF all # {} /\ ~reload.on
         THEN \E accounts \in SUBSET all :
                /\ Cardinality(accounts) = (IF Cardinality(all) > MaxReload THEN MaxReload ELSE Cardinality(all))
                /\ reload' = [accounts |-> accounts, state |-> seen.state, on |-> TRUE]
                /\ dirty' = all \ accounts
                /\ raced' = raced \ accounts
         ELSE dirty' = all /\ UNCHANGED <<reload, raced>>
  /\ UNCHANGED <<chain, made, queue, seen, known, failures>>

\* load_accounts has ended: all or some accounts are loaded.
Reloaded ==
  /\ polling /\ reload.on /\ polling' = FALSE /\ reload' = NoReload
  /\ \E failed \in SUBSET reload.accounts :
       /\ IF failed = {} THEN UNCHANGED failures ELSE Fail
       /\ dirty' = dirty \cup failed
       /\ known' = Updated(reload.accounts \ failed, reload.state)
  /\ UNCHANGED <<chain, made, queue, seen, drifted, raced>>

\* The task that loads them has died.
ReloadDropped ==
  /\ polling /\ reload.on /\ polling' = FALSE /\ reload' = NoReload
  /\ Fail /\ drifted' = TRUE
  /\ UNCHANGED <<chain, made, queue, seen, known, dirty, raced>>

Event(type) == polling /\ queue # <<>> /\ Head(queue).type = type /\ queue' = Tail(queue) /\ polling' = FALSE

\* The accounts of a notification's new and old blocks.
NewAccounts(ev) == Changed(ev.new[ev.common].state, ev.new[Len(ev.new)].state)
OldAccounts(ev) == Changed(ev.old[ev.common].state, ev.old[Len(ev.old)].state)

\* The pool is given accounts; the reload in progress will overwrite some of them.
Given(accounts) == raced' = (raced \ accounts) \cup (accounts \cap reload.accounts)

\* A reorg: the accounts of the old blocks that the new ones do not change are
\* loaded at the new tip.
OnReorg ==
  /\ Event("reorg")
  /\ LET ev == Head(queue)
         tip == ev.new[Len(ev.new)]
         missing == OldAccounts(ev) \ NewAccounts(ev)
     IN  /\ \E failed \in SUBSET missing :
              /\ IF failed = {} THEN UNCHANGED failures ELSE Fail
              /\ dirty' = dirty \cup failed
              /\ known' = Updated(NewAccounts(ev) \cup (missing \ failed), tip.state)
              /\ Given(NewAccounts(ev) \cup (missing \ failed))
         /\ drifted' = (ev.new[ev.common].id # seen.id)
         /\ seen' = [id |-> tip.id, number |-> Len(ev.new) - 1, state |-> tip.state]
  /\ UNCHANGED <<chain, made, reload>>

\* Fault: a gap between the last seen block and the new ones is not noticed.
OnCommitGap ==
  /\ Event("commit")
  /\ LET ev == Head(queue)
         tip == ev.new[Len(ev.new)]
     IN  /\ seen' = [id |-> tip.id, number |-> Len(ev.new) - 1, state |-> tip.state]
         /\ dirty' = dirty \ NewAccounts(ev)
         /\ known' = Updated(NewAccounts(ev), tip.state)
         /\ Given(NewAccounts(ev))
  /\ UNCHANGED <<chain, made, drifted, reload, failures>>

\* A commit: a jump larger than max_update_depth only moves the block info.
OnCommit ==
  /\ Event("commit")
  /\ LET ev == Head(queue)
         tip == ev.new[Len(ev.new)]
         number == Len(ev.new) - 1
         depth == IF number > seen.number THEN number - seen.number ELSE seen.number - number
     IN  /\ seen' = [id |-> tip.id, number |-> number, state |-> tip.state]
         /\ IF depth > MaxUpdateDepth
            THEN drifted' = TRUE /\ UNCHANGED <<dirty, known, raced>>
            ELSE /\ dirty' = dirty \ NewAccounts(ev)
                 /\ known' = Updated(NewAccounts(ev), tip.state)
                 /\ Given(NewAccounts(ev))
                 /\ drifted' = (ev.new[ev.common].id # seen.id)
  /\ UNCHANGED <<chain, made, reload, failures>>

Init ==
  /\ chain = <<Genesis>> /\ made = 0 /\ queue = <<>>
  /\ seen = [id |-> 0, number |-> 0, state |-> Genesis.state] /\ known = Genesis.state
  /\ dirty = {} /\ drifted = FALSE /\ reload = NoReload /\ polling = FALSE /\ failures = 0
  /\ raced = {}

Maintain == Top \/ Reloaded \/ ReloadDropped \/ OnReorg \/ OnCommit

Next == Commit \/ Reorg \/ Lag \/ Maintain

Spec == Init /\ [][Next]_vars

\* The task is polled, and its blocking loads end.
FairSpec == Spec /\ WF_vars(Top) /\ WF_vars(OnReorg \/ OnCommit) /\ WF_vars(Reloaded)
-----------------------------------------------------------------------------
Idle == polling /\ queue = <<>> /\ dirty = {} /\ ~reload.on

AgreesWithTip == \A a \in Accounts \ raced : known[a] = Tip.state[a]

\* A pool that has nothing left to do knows the accounts as the canonical tip has
\* them, whatever was lost, reorganised or failed to load on the way.  Not so of an
\* account that a block changed while it was being reloaded, until it is given again.
PoolUpToDate == Idle => (AgreesWithTip /\ seen.id = Tip.id)

\* When the chain stands still the pool catches up with it, with the same exception.
CatchesUp == <>[]AgreesWithTip

\* "reorg is not canonical with the pool's block": one that starts from the pool's
\* last seen block is no reason to reload everything.
ReorgFromTipFollowed ==
       OnReorg /\ Head(queue).old[Len(Head(queue).old)].id = seen.id => ~drifted'
=============================================================================
