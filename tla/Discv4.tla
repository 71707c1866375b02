-------------------------------- MODULE Discv4 --------------------------------
(***************************************************************************)
(* The node discovery service (net/discv4): the routing table, the endpoint*)
(* proof by ping and pong, and recursive lookups.  The packets of the      *)
(* other nodes arrive in any order and may be lost; every request may time *)
(* out.  Peers are numbers, in the order of their distance to the target   *)
(* of every lookup.  A pong for a ping that is no longer pending is ignored*)
(* by its hash and left out.                                               *)
(***************************************************************************)
EXTENDS Integers, Sequences, FiniteSets, SequencesExt, FiniteSetsExt

CONSTANTS NumPeers, BootNodes,
          Lookups,             \* lookups that are made, each with a listener
          BucketSize,          \* MAX_NODES_PER_BUCKET; one bucket holds all peers
          Alpha, MaxPing, MaxQueued, \* ALPHA, MAX_NODES_PING, MAX_QUEUED_PINGS
          MaxFailures,         \* max_find_node_failures
          ListenerCapacity,    \* of the channel of update_stream
          MaxEvents            \* bound on commands, pings of peers and re-pings

Peers == 1..NumPeers
NoLookup == 0

VARIABLES table,   \* kbuckets: [in, connected, proven, failures]
          ping,    \* pending_pings: reason and lookup, reason "none" for no ping
          queue,   \* queued_pings
          find,    \* pending_find_nodes: lookup or NoLookup, response_count, answered
          wait,    \* pending_lookup: lookup or NoLookup
          ctx,     \* LookupContext: what is known of each peer
          result,  \* what the listener got: "idle", "open", or <<peers>>
          bonded,  \* received_pongs
          banned,
          updates, \* the channel of the listener of update_stream
          told,    \* nodes of the last Added update it got not followed by Removed
          events,  \* commands, pings of peers and re-pings so far
          ponged, asked, \* ghosts: nodes whose pong we got; that were sent a reply
          missed,    \* ghost: nodes whose last update found the channel full
          unstarted  \* ghost: nodes added while no ping for a proof could be started

vars == <<table, ping, queue, find, wait, ctx, result, bonded, banned, updates, told, events, ponged, asked, missed,
          unstarted>>
ghosts == <<ponged, asked>>
listener == <<updates, told, missed>>

Absent == [in |-> FALSE, connected |-> FALSE, proven |-> FALSE, failures |-> 0]
Event == events < MaxEvents /\ events' = events + 1
NoPing == [reason |-> "none", lookup |-> NoLookup]
NoFind == [lookup |-> NoLookup, count |-> 0, answered |-> FALSE]
Full == Cardinality({p \in Peers : table[p].in}) >= BucketSize
Pinged == {p \in Peers : ping[p].reason # "none"}
Asked == {p \in Peers : find[p].lookup # NoLookup}
-----------------------------------------------------------------------------
\* Drop of LookupContextInner: when no request refers to a lookup any more, the
\* peers that responded are sent to the listener.
Referenced(l) ==
  \/ \E p \in Peers : ping'[p].lookup = l \/ find'[p].lookup = l \/ wait'[p] = l
  \/ \E i \in DOMAIN queue' : queue'[i].lookup = l

Settle ==
  result' = [l \in Lookups |-> IF result[l] = <<"open">> /\ ~Referenced(l)
                               THEN <<"done", {p \in Peers : ctx'[l][p] = "responded"}>> ELSE result[l]]

\* try_ping, for the requests in order.
TryPing(state, r) ==
  IF \/ state.ping[r.peer].reason # "none" \/ find[r.peer].lookup # NoLookup
     \/ \E i \in DOMAIN state.queue : state.queue[i].peer = r.peer
  THEN state
  ELSE IF Cardinality({p \in Peers : state.ping[p].reason # "none"}) < MaxPing
       THEN [ping |-> [state.ping EXCEPT ![r.peer] = [reason |-> r.reason, lookup |-> r.lookup]], queue |-> state.queue]
       ELSE IF Len(state.queue) < MaxQueued THEN [ping |-> state.ping, queue |-> Append(state.queue, r)] ELSE state

TryPings(requests) ==
  LET new == FoldLeft(TryPing, [ping |-> ping, queue |-> queue], requests)
  IN  ping' = new.ping /\ queue' = new.queue

Request(p, reason, l) == [peer |-> p, reason |-> reason, lookup |-> l]

\* notify: an update that finds the listener's channel full is dropped.
Notify(kind, nodes) ==
  LET fit == {p \in nodes : Cardinality({q \in nodes : q < p}) < ListenerCapacity - Len(updates)}
  IN  /\ updates' = updates \o SetToSortSeq({<<kind, p>> : p \in fit}, LAMBDA u, v : u[2] < v[2])
      /\ missed' = IF kind = "capacity" THEN missed ELSE (missed \ fit) \cup (nodes \ fit)
      /\ UNCHANGED told

\* What the listener knows once it has read an update.
Heard(known, u) == CASE u[1] = "added" -> known \cup {u[2]} [] u[1] = "removed" -> known \ {u[2]} [] OTHER -> known

\* The nodes are inserted as unproven.  try_ping starts no proof while a request or a
\* ping for another reason is under way, or no more pings can be queued.
NoProof(p) ==
  \/ find[p].lookup # NoLookup \/ ping[p].reason \in {"bond", "reping"}
  \/ \E i \in DOMAIN queue : queue[i].peer = p /\ queue[i].reason \in {"bond", "reping"}
  \/ Cardinality(Pinged) = MaxPing /\ Len(queue) = MaxQueued

Insert(nodes) ==
  /\ table' = [p \in Peers |-> IF p \in nodes THEN [Absent EXCEPT !.in = TRUE] ELSE table[p]]
  /\ unstarted' = unstarted \cup {p \in nodes : NoProof(p)}

\* remove_node, with its Removed update
Removed(p) ==
  /\ table' = [table EXCEPT ![p] = Absent] /\ unstarted' = unstarted \ {p}
  /\ Notify("removed", {p} \cap {q \in Peers : table[q].in})

\* find_node: the peer is marked as queried and the request is pending.
Marked(c, nodes) == [p \in Peers |-> IF p \in nodes THEN "queried" ELSE c[p]]
Sent(nodes, l) == [p \in Peers |-> IF p \in nodes THEN [NoFind EXCEPT !.lookup = l] ELSE find[p]]
Nearest(nodes) == {p \in nodes : Cardinality({q \in nodes : q < p}) < Alpha}
-----------------------------------------------------------------------------
\* spawn: the bootnodes are in the table and pinged.
Init ==
  /\ table = [p \in Peers |-> [Absent EXCEPT !.in = p \in BootNodes]]
  /\ ping = [p \in Peers |-> IF p \in BootNodes THEN [NoPing EXCEPT !.reason = "insert"] ELSE NoPing]
  /\ queue = <<>>
  /\ find = [p \in Peers |-> NoFind] /\ wait = [p \in Peers |-> NoLookup]
  /\ ctx = [l \in Lookups |-> [p \in Peers |-> "unknown"]] /\ result = [l \in Lookups |-> <<"idle">>]
  /\ bonded = {} /\ banned = {} /\ told = {} /\ updates = <<>> /\ missed = {} /\ unstarted = {} /\ ponged = {}
  /\ asked = {} /\ events = 0

\* bootstrap, when a lookup finds nobody to ask.
Bootstrap ==
  LET room == BucketSize - Cardinality({p \in Peers : table[p].in})
      absent == {p \in BootNodes : ~table[p].in}
      new == {p \in absent : Cardinality({q \in absent : q < p}) < room}
  IN  /\ Insert(new)
      /\ TryPings(SetToSeq({Request(p, "insert", NoLookup) : p \in (BootNodes \ absent) \cup new}))

\* lookup_with
Lookup(l) ==
  /\ result[l] = <<"idle">>
  /\ LET known == {p \in Peers : table[p].in /\ table[p].proven /\ p \notin Asked}
         closest == Nearest(known)
     IN  IF closest = {}
         THEN /\ ctx' = ctx /\ result' = [result EXCEPT ![l] = <<"done", {}>>]
              /\ IF Asked = {} THEN Bootstrap ELSE UNCHANGED <<table, unstarted, ping, queue>>
              /\ UNCHANGED find
         ELSE /\ ctx' = [ctx EXCEPT ![l] = Marked([p \in Peers |-> IF p \in known THEN "fresh" ELSE "unknown"], closest)]
              /\ find' = Sent(closest, l) /\ result' = [result EXCEPT ![l] = <<"open">>]
              /\ UNCHANGED <<table, unstarted, ping, queue>>
  /\ UNCHANGED <<wait, bonded, banned, listener, ghosts, events>>

\* add_node
AddNode(p) ==
  /\ ~table[p].in /\ ~Full /\ Insert({p}) /\ TryPings(<<Request(p, "insert", NoLookup)>>)
  /\ UNCHANGED <<find, wait, ctx, result, bonded, banned, listener, ghosts>> /\ Event

\* remove_node, ban_node
RemoveNode(p) ==
  /\ Removed(p) /\ \E ban \in {banned, banned \cup {p}} : banned' = ban
  /\ UNCHANGED <<ping, queue, find, wait, ctx, result, bonded, ghosts>> /\ Event
-----------------------------------------------------------------------------
\* on_ping of a peer that is not in the table.
PingNew(p) ==
  /\ ~table[p].in
  /\ IF Full THEN Notify("capacity", {p}) /\ UNCHANGED <<table, unstarted>> ELSE Insert({p}) /\ UNCHANGED listener
  /\ TryPings(<<Request(p, IF Full THEN "bond" ELSE "insert", NoLookup)>>)
  /\ UNCHANGED <<find, wait, ctx, bonded, banned, ghosts>> /\ Event /\ Settle

\* on_ping of a peer that is: a proven one's waiting lookup goes on, since our pong
\* has proven our own endpoint.
PingKnown(p) ==
  /\ table[p].in /\ table[p].proven /\ wait[p] # NoLookup
  /\ wait' = [wait EXCEPT ![p] = NoLookup]
  /\ IF p \in Asked
     THEN ctx' = [ctx EXCEPT ![wait[p]][p] = IF @ = "queried" THEN "fresh" ELSE @] /\ UNCHANGED find
     ELSE ctx' = [ctx EXCEPT ![wait[p]] = Marked(@, {p})] /\ find' = Sent({p}, wait[p])
  /\ UNCHANGED <<table, unstarted, ping, queue, bonded, banned, listener, ghosts, events>> /\ Settle

\* on_pong and update_on_pong: the endpoint is proven, the node becomes connected
\* and is reported.
Pong(p) ==
  /\ p \in Pinged /\ bonded' = bonded \cup {p} /\ ponged' = ponged \cup {p}
  /\ LET r == ping[p]
         proves == r.reason \in {"insert", "lookup"} /\ table[p].in
     IN  /\ table' = IF proves THEN [table EXCEPT ![p].proven = TRUE, ![p].connected = TRUE] ELSE table
         /\ Notify("added", IF proves /\ ~table[p].connected THEN {p} ELSE {})
         /\ unstarted' = IF proves THEN unstarted \ {p} ELSE unstarted
         /\ wait' = IF r.reason = "lookup" THEN [wait EXCEPT ![p] = r.lookup] ELSE wait
  /\ ping' = [ping EXCEPT ![p] = NoPing]
  /\ UNCHANGED <<queue, find, ctx, banned, asked, events>> /\ Settle

\* on_find_node, on_enr_request: answered only for a bonded peer.
FindNode(p) ==
  /\ p \in bonded /\ asked' = asked \cup {p}
  /\ UNCHANGED <<table, unstarted, ping, queue, find, wait, ctx, result, bonded, banned, listener, ponged, events>>

\* on_neighbours: the closest of the peers not queried yet are asked, or pinged
\* first when their endpoint is not proven.
Neighbours(p) ==
  /\ p \in Asked
  /\ \E nodes \in SUBSET (Peers \ {p}) :
       LET l == find[p].lookup
           total == find[p].count + Cardinality(nodes)
           full == total = BucketSize
           open == IF full THEN [find EXCEPT ![p] = NoFind]
                   ELSE [find EXCEPT ![p] = [lookup |-> l, count |-> total, answered |-> TRUE]]
           known == [q \in Peers |-> IF q = p /\ full THEN "responded"
                                     ELSE IF q \in nodes \ banned /\ ctx[l][q] = "unknown" THEN "fresh" ELSE ctx[l][q]]
           closest == Nearest({q \in Peers : known[q] = "fresh" /\ open[q].lookup = NoLookup})
           new == {q \in closest : ~table[q].in}
           room == BucketSize - Cardinality({q \in Peers : table[q].in})
           fit == {q \in new : Cardinality({o \in new : o < q}) < room}
           ask == {q \in closest : table[q].in /\ table[q].proven}
       IN  /\ total <= BucketSize
           /\ ctx' = [ctx EXCEPT ![l] = Marked(known, new \cup ask)]
           /\ find' = [q \in Peers |-> IF q \in ask THEN [NoFind EXCEPT !.lookup = l] ELSE open[q]]
           /\ Insert(fit) /\ Notify("capacity", new \ fit)
           /\ TryPings([i \in 1..Cardinality(fit) |->
                          Request(CHOOSE q \in fit : Cardinality({o \in fit : o < q}) = i - 1, "lookup", l)])
  /\ UNCHANGED <<wait, bonded, banned, ponged, asked, events>> /\ Settle

\* on_neighbours of more records than a bucket holds: nothing but the answer counts.
TooManyNeighbours(p) ==
  /\ p \in Asked /\ ~find[p].answered /\ find' = [find EXCEPT ![p].answered = TRUE]
  /\ UNCHANGED <<table, unstarted, ping, queue, wait, ctx, result, bonded, banned, listener, ghosts, events>>
-----------------------------------------------------------------------------
\* Fault: a node that is still to be proven is kept when its ping times out.
EvictPingOfProven(p) ==
  /\ p \in Pinged /\ ping' = [ping EXCEPT ![p] = NoPing]
  /\ IF table[p].connected THEN Removed(p) ELSE UNCHANGED <<table, unstarted, listener>>
  /\ UNCHANGED <<queue, find, wait, ctx, bonded, banned, ghosts, events>> /\ Settle

\* evict_expired_requests: a ping without a pong,
EvictPing(p) ==
  /\ p \in Pinged /\ ping' = [ping EXCEPT ![p] = NoPing] /\ Removed(p)
  /\ UNCHANGED <<queue, find, wait, ctx, bonded, banned, ghosts, events>> /\ Settle

\* a lookup whose peer has not pinged us,
EvictLookup(p) ==
  /\ wait[p] # NoLookup /\ wait' = [wait EXCEPT ![p] = NoLookup] /\ Removed(p)
  /\ UNCHANGED <<ping, queue, find, ctx, bonded, banned, ghosts, events>> /\ Settle

\* evict_failed_neighbours: a request without an answer counts against the peer,
\* which is removed after several if the bucket is half full.
EvictFind(p) ==
  /\ p \in Asked /\ find' = [find EXCEPT ![p] = NoFind]
  /\ IF find[p].answered \/ ~table[p].in THEN UNCHANGED <<table, unstarted, listener>>
     ELSE IF table[p].failures >= MaxFailures
             /\ Cardinality({q \in Peers : table[q].in}) >= BucketSize \div 2
          THEN Removed(p)
          ELSE /\ table' = [table EXCEPT ![p].failures = Min({@ + 1, MaxFailures})] /\ UNCHANGED <<unstarted, listener>>
  /\ UNCHANGED <<ping, queue, wait, ctx, bonded, banned, ghosts, events>> /\ Settle

\* received_pongs.evict_expired
EvictBond(p) ==
  /\ p \in bonded /\ bonded' = bonded \ {p}
  /\ UNCHANGED <<table, unstarted, ping, queue, find, wait, ctx, result, banned, listener, ghosts, events>>

\* re_ping_oldest
RePing(p) ==
  /\ table[p].in /\ TryPings(<<Request(p, "reping", NoLookup)>>)
  /\ UNCHANGED <<table, unstarted, find, wait, ctx, bonded, banned, listener, ghosts>> /\ Event /\ Settle

\* ping_buffered
PingBuffered ==
  /\ queue # <<>> /\ Cardinality(Pinged) < MaxPing
  /\ LET new == TryPing([ping |-> ping, queue |-> Tail(queue)], Head(queue))
     IN  ping' = new.ping /\ queue' = new.queue
  /\ UNCHANGED <<table, unstarted, find, wait, ctx, bonded, banned, listener, ghosts, events>> /\ Settle

\* The listener reads an update.
Listen ==
  /\ updates # <<>> /\ updates' = Tail(updates) /\ told' = Heard(told, Head(updates))
  /\ UNCHANGED <<table, ping, queue, find, wait, ctx, result, bonded, banned, missed, unstarted, ghosts, events>>

\* poll: commands, packets and timers
Commands == \E p \in Peers : AddNode(p) \/ RemoveNode(p)
Packets == \E p \in Peers : PingNew(p) \/ PingKnown(p) \/ Pong(p) \/ FindNode(p) \/ Neighbours(p) \/ TooManyNeighbours(p)
Evictions == \E p \in Peers : EvictPing(p) \/ EvictLookup(p) \/ EvictFind(p) \/ EvictBond(p)
Next == (\E l \in Lookups : Lookup(l)) \/ Commands \/ Packets \/ Evictions \/ (\E p \in Peers : RePing(p)) \/ PingBuffered \/ Listen

Spec == Init /\ [][Next]_vars
\* The eviction interval and the poll loop run for ever.
FairSpec ==
  /\ Spec /\ WF_vars(PingBuffered)
  /\ \A p \in Peers : WF_vars(EvictPing(p)) /\ WF_vars(EvictLookup(p)) /\ WF_vars(EvictFind(p))
-----------------------------------------------------------------------------
\* A FindNode request goes only to a peer, and neighbours are sent only to a peer,
\* that has answered one of our pings ("CAUTION: This expects there's a valid
\* Endpoint proof to the given `node`").
OnlyProven == Asked \cup asked \subseteq ponged

\* A listener that has read its updates knows exactly the connected nodes, but for
\* those whose last update was dropped because its channel was full.
UpdatesMatch ==
  \A p \in Peers \ missed : p \in FoldLeft(Heard, told, updates) <=> table[p].in /\ table[p].connected

\* The proof of a node in the table whose endpoint is not proven is under way, also
\* when it was removed and added again meanwhile, unless none could be started when
\* it was added: it never stays in the table with no ping that could prove or remove
\* it.
ProofUnderWay ==
  \A p \in Peers \ unstarted : table[p].in /\ ~table[p].proven =>
     \/ ping[p].reason \in {"insert", "lookup"}
     \/ \E i \in DOMAIN queue : queue[i].peer = p /\ queue[i].reason \in {"insert", "lookup"}

\* The listener of every lookup gets its answer.
LookupEnds == \A l \in Lookups : []<>(result[l] # <<"open">>)
=============================================================================
