------------------------------ MODULE MCNetwork -----------------------------
(***************************************************************************)
(* The components of the peer-to-peer network, checked side by side: the   *)
(* initial state picks one of them (focus), and only that one moves.       *)
(***************************************************************************)
EXTENDS Connections, BlockFetch, TxFetch, TxGossip

CONSTANTS none,            \* the value of a variable at rest
          headers, bodies  \* kinds of requests

VARIABLES focus,
          phase, requests, awaited, outcome, out, remote, in, sent, serving, chan, reserved, waiting, taken, handled, replaced,
          table, ping, queue, find, wait, ctx, result, bonded, excluded, added, packets, ponged, asked,
          updates, missed, unstarted

sessionVars == <<phase, requests, awaited, outcome, out, remote, in, sent, serving, chan, reserved, waiting, taken,
                 handled, replaced>>
discoveryVars == <<table, ping, queue, find, wait, ctx, result, bonded, excluded, added, packets, ponged,
                   asked, updates, missed, unstarted>>
vars == <<focus, slotsVars, blocksVars, fetchVars, gossipVars, sessionVars, discoveryVars>>
-----------------------------------------------------------------------------
Active == INSTANCE ActiveSession WITH Kinds <- {headers, bodies}, MaxRequests <- 1, MaxIncoming <- 2, Capacity <- 2,
  inflight <- awaited

Discovery == INSTANCE Discv4 WITH NumPeers <- 2, BootNodes <- {1}, Lookups <- {1}, BucketSize <- 1, Alpha <- 1, MaxPing <- 1, MaxQueued <- 1,
  MaxFailures <- 1, MaxEvents <- 2, ListenerCapacity <- 1,
  banned <- excluded, told <- added, events <- packets
-----------------------------------------------------------------------------
GossipAtRest == GossipInit /\ syncing = FALSE /\ listeners = {}
SessionAtRest == /\ phase = none /\ requests = none /\ awaited = none /\ outcome = none /\ out = none /\ remote = none
                 /\ in = none /\ sent = none /\ serving = none /\ chan = none /\ reserved = none /\ waiting = none
                 /\ taken = none /\ handled = none /\ replaced = none
DiscoveryAtRest == /\ table = none /\ ping = none /\ queue = none /\ find = none /\ wait = none /\ ctx = none
                   /\ result = none /\ bonded = none /\ excluded = none /\ added = none /\ packets = none
                   /\ ponged = none /\ asked = none /\ updates = none /\ missed = none
                   /\ unstarted = none

Init ==
  \/ focus = "slots" /\ SlotsInit /\ BlocksInit /\ FetchInit /\ GossipAtRest /\ SessionAtRest /\ DiscoveryAtRest
  \/ focus = "blocks" /\ BlocksInit /\ SlotsInit /\ FetchInit /\ GossipAtRest /\ SessionAtRest /\ DiscoveryAtRest
  \/ focus = "txs" /\ FetchInit /\ SlotsInit /\ BlocksInit /\ GossipAtRest /\ SessionAtRest /\ DiscoveryAtRest
  \/ focus = "gossip" /\ GossipInit /\ SlotsInit /\ BlocksInit /\ FetchInit /\ SessionAtRest /\ DiscoveryAtRest
  \/ focus = "session" /\ Active!Init /\ SlotsInit /\ BlocksInit /\ FetchInit /\ GossipAtRest /\ DiscoveryAtRest
  \/ focus = "discovery" /\ Discovery!Init /\ SlotsInit /\ BlocksInit /\ FetchInit /\ GossipAtRest /\ SessionAtRest

Steps ==
  \/ focus = "slots" /\ SlotsNext /\ UNCHANGED <<blocksVars, fetchVars, gossipVars, sessionVars, discoveryVars>>
  \/ focus = "blocks" /\ BlocksNext /\ UNCHANGED <<slotsVars, fetchVars, gossipVars, sessionVars, discoveryVars>>
  \/ focus = "txs" /\ FetchNext /\ UNCHANGED <<slotsVars, blocksVars, gossipVars, sessionVars, discoveryVars>>
  \/ focus = "gossip" /\ GossipNext /\ UNCHANGED <<slotsVars, blocksVars, fetchVars, sessionVars, discoveryVars>>
  \/ focus = "session" /\ Active!Next /\ UNCHANGED <<slotsVars, blocksVars, fetchVars, gossipVars, discoveryVars>>
  \/ focus = "discovery" /\ Discovery!Next /\ UNCHANGED <<slotsVars, blocksVars, fetchVars, gossipVars, sessionVars>>

Next == Steps /\ UNCHANGED focus

\* The network's task is polled until it has nothing to do, a session checks its
\* deadlines on an interval and carries out a command to disconnect.
BlocksFairness ==
  /\ WF_blocksVars(focus = "blocks" /\ Drain) /\ WF_blocksVars(focus = "blocks" /\ Assign)
  /\ \A p \in PeerIds :
       /\ WF_blocksVars(focus = "blocks" /\ PollResponse(p)) /\ WF_blocksVars(focus = "blocks" /\ BlockSessionClosed(p))
       /\ WF_blocksVars(focus = "blocks" /\ RequestTimeout(p))
       /\ WF_blocksVars(focus = "blocks" /\ session[p] = "closing" /\ SessionEnds(p))

\* The session's task is woken for what it can do, its interval ticks, and the
\* manager empties its channel.
SessionFairness ==
  /\ WF_sessionVars(focus = "session" /\ Active!Session) /\ WF_sessionVars(focus = "session" /\ Active!Manager)
  /\ SF_sessionVars(focus = "session" /\ Active!PollTerminateMessage)
  /\ WF_sessionVars(focus = "session" /\ Active!Timeout(1))

\* The eviction interval and the poll loop of the discovery service run for ever.
DiscoveryFairness ==
  /\ WF_discoveryVars(focus = "discovery" /\ Discovery!PingBuffered)
  /\ \A x \in 1..2 :
       /\ WF_discoveryVars(focus = "discovery" /\ Discovery!EvictPing(x)) /\ WF_discoveryVars(focus = "discovery" /\ Discovery!EvictLookup(x))
       /\ WF_discoveryVars(focus = "discovery" /\ Discovery!EvictFind(x))

Spec == Init /\ [][Next]_vars /\ BlocksFairness /\ FetchFairness /\ SessionFairness /\ DiscoveryFairness
-----------------------------------------------------------------------------
\* While the session is open the manager gets what the remote sent, in the order it
\* was read, all but a message whose place in front of the full channel is taken by
\* a protocol breach; a breach is reported only while a request is out for too long,
\* so that a late answer clears the peer; a requester gets a response of the kind it
\* asked for or an error, and one without an outcome is still waited for
\* (ActiveSession).
SessionSound ==
  focus = "session" => /\ Active!ReceivedInOrder /\ Active!BreachDeserved
                       /\ Active!AnswersMatch /\ Active!NoRequestForgotten

\* A FindNode request goes only to a peer, and neighbours are sent only to a peer,
\* that has answered one of our pings.  A listener that has read its updates knows
\* exactly the connected nodes, but for those whose last update was dropped because
\* its channel was full.  The proof of an unproven node in the table is under way,
\* unless none could be started when the node was added, because another request or
\* ping to it was pending or the queue was full (Discv4Service).
DiscoverySound == focus = "discovery" => Discovery!OnlyProven /\ Discovery!UpdatesMatch /\ Discovery!ProofUnderWay

\* Nobody waits for ever: while a peer that answers to deadlines stays every download
\* request is answered; a hash is fetched, given up or left without a peer that
\* could be asked; every request to a session gets an outcome whatever the remote
\* does, and the manager learns of the session's end; every lookup has its answer.
\* The first two are checked with ChannelFull, EmptyAnswers, FullChannel, Departed,
\* BudgetSpent and Refused off.
NetworkProgress ==
  /\ []<>(focus = "blocks" => (peers = <<>> \/ \A r \in Requests : answer[r] # "none"))
  /\ Settles
  /\ []<>((focus = "session" /\ 1 \in DOMAIN outcome) => outcome[1] # <<"none">>)
  /\ []<>((focus = "session" /\ phase # "open") => \E k \in DOMAIN handled : handled[k].type = "closed")
  /\ []<>(focus = "discovery" => result[1] # <<"open">>)
=============================================================================
