----------------------------- MODULE BlockFetch -----------------------------
(***************************************************************************)
(* How a download request reaches a peer and how its answer comes back:    *)
(* the clients' channel and the StateFetcher (network/fetch), the          *)
(* NetworkState that hands requests to sessions and polls their answers    *)
(* (network/state.rs), and the session's side of a request                 *)
(* (network/session/active.rs).  Sessions run in tasks of their own; the   *)
(* rest is the network's task.                                             *)
(***************************************************************************)
EXTENDS Integers, FiniteSets, Sequences

CONSTANTS PeerIds,
          Requests,       \* download requests, each sent once
          Headers,        \* the requests for headers; the others are for bodies
          High,           \* the requests with high priority
          MaxSessions,    \* bound on the sessions opened
          ChannelFull     \* may other requests fill the channel to a session

NoRequest == "no request"

ASSUME BlocksAssumption == ChannelFull \in BOOLEAN /\ NoRequest \notin Requests

VARIABLES channel,   \* download_requests_rx
          queued,    \* queued_requests
          peers,     \* StateFetcher's peers: state and last_response_likely_bad
          inflight,  \* inflight requests of each peer, of either kind
          pending,   \* NetworkState's active peers: the pending_response of each
          session,   \* "none", "open", "closing", "ended" (its end not yet reported)
          held,      \* the requests a session holds: taken and waiting, or timed out
          oneshot,   \* the session's answer: "none", "ok", "bad", "error" or "closed"
          answer,    \* what the client received: "none", a result or "dropped"
          opened     \* sessions opened so far

blocksVars == <<channel, queued, peers, inflight, pending, session, held, oneshot, answer, opened>>

IdlePeer(p) == p \in DOMAIN peers /\ peers[p].state = "Idle"
Dropped(f, p) == [q \in DOMAIN f \ {p} |-> f[q]]
Placed(f, p, v) == [q \in DOMAIN f \cup {p} |-> IF q = p THEN v ELSE f[q]]
-----------------------------------------------------------------------------
\* The client and the queue.

\* get_headers_with_priority, get_block_bodies_with_priority.
SendRequest(r) ==
  /\ answer[r] = "unsent"
  /\ answer' = [answer EXCEPT ![r] = "none"]
  /\ channel' = Append(channel, r)
  /\ UNCHANGED <<queued, peers, inflight, pending, session, held, oneshot, opened>>

\* A high request goes before the first normal one, or to the very front.
Enqueued(q, r) ==
  IF r \notin High THEN Append(q, r)
  ELSE LET normal == {i \in 1..Len(q) : q[i] \notin High}
           first  == CHOOSE i \in normal : \A j \in normal : i <= j
       IN  IF normal = {} THEN <<r>> \o q ELSE SubSeq(q, 1, first - 1) \o <<r>> \o SubSeq(q, first, Len(q))

Drain ==
  /\ channel # <<>>
  /\ queued' = Enqueued(queued, Head(channel))
  /\ channel' = Tail(channel)
  /\ UNCHANGED <<peers, inflight, pending, session, held, oneshot, answer, opened>>

\* next_best_peer: a peer whose last answer was bad is asked only if no other is
\* idle; the timeouts decide among the rest.
BestPeers ==
  LET idle == {p \in DOMAIN peers : IdlePeer(p)}
      good == {p \in idle : ~peers[p].bad}
  IN  IF good # {} THEN good ELSE idle

\* prepare_block_request and handle_block_request: the peer becomes busy, the
\* request is offered to the session and its answer awaited.  A full channel or
\* a session that has ended drops it and with it the sender of its answer.
SentTo(p, r, prs, full) ==
  LET lost == full \/ session[p] \notin {"open", "closing"}
  IN  /\ peers' = [prs EXCEPT ![p].state = IF r \in Headers THEN "GetBlockHeaders" ELSE "GetBlockBodies"]
      /\ inflight' = Placed(inflight, p, r)
      /\ pending' = IF p \in DOMAIN pending THEN [pending EXCEPT ![p] = r] ELSE pending
      /\ held' = IF lost \/ p \notin DOMAIN pending THEN held ELSE [held EXCEPT ![p] = @ \cup {[req |-> r, late |-> FALSE]}]
      /\ oneshot' = IF lost THEN [oneshot EXCEPT ![r] = "closed"] ELSE oneshot

\* StateFetcher::poll.
Assign ==
  /\ queued # <<>>
  /\ \E p \in BestPeers, full \in {FALSE} \cup {ChannelFull} : SentTo(p, Head(queued), peers, full)
  /\ queued' = Tail(queued)
  /\ UNCHANGED <<channel, session, answer, opened>>
-----------------------------------------------------------------------------
\* The session's task.

\* on_response!: the remote answers; an answer of the wrong kind is an error, a
\* late one is discarded.
Respond(p) ==
  /\ session[p] = "open"
  /\ \E h \in held[p], res \in {"ok", "bad", "error"} :
       /\ held' = [held EXCEPT ![p] = @ \ {h}]
       /\ oneshot' = IF h.late THEN oneshot ELSE [oneshot EXCEPT ![h.req] = res]
  /\ UNCHANGED <<channel, queued, peers, inflight, pending, session, answer, opened>>

\* Fault: the requester is not told.
RequestTimeoutSilent(p) ==
  /\ session[p] = "open"
  /\ \E h \in held[p] : /\ ~h.late
                        /\ held' = [held EXCEPT ![p] = (@ \ {h}) \cup {[h EXCEPT !.late = TRUE]}]
  /\ UNCHANGED <<channel, queued, peers, inflight, pending, session, oneshot, answer, opened>>

\* check_timed_out_requests: the request stays known, so that a late answer is
\* not a breach.
RequestTimeout(p) ==
  /\ session[p] = "open"
  /\ \E h \in held[p] : /\ ~h.late
                        /\ held' = [held EXCEPT ![p] = (@ \ {h}) \cup {[h EXCEPT !.late = TRUE]}]
                        /\ oneshot' = [oneshot EXCEPT ![h.req] = "error"]
  /\ UNCHANGED <<channel, queued, peers, inflight, pending, session, answer, opened>>

\* The session ends, by itself or on a command: what it holds is dropped.
SessionEnds(p) ==
  /\ session[p] \in {"open", "closing"}
  /\ session' = [session EXCEPT ![p] = "ended"]
  /\ held' = [held EXCEPT ![p] = {}]
  /\ oneshot' = [r \in Requests |-> IF \E h \in held[p] : h.req = r /\ ~h.late THEN "closed" ELSE oneshot[r]]
  /\ UNCHANGED <<channel, queued, peers, inflight, pending, answer, opened>>
-----------------------------------------------------------------------------
\* The network's task.

\* on_session_activated.
Activate(p) ==
  /\ session[p] = "none" /\ opened < MaxSessions
  /\ session' = [session EXCEPT ![p] = "open"]
  /\ opened' = opened + 1
  /\ peers' = Placed(peers, p, [state |-> "Idle", bad |-> FALSE])
  /\ pending' = Placed(pending, p, NoRequest)
  /\ UNCHANGED <<channel, queued, inflight, held, oneshot, answer>>

\* Fault: the request of the closed session is forgotten.
CloseForgets(p) ==
  /\ pending' = Dropped(pending, p)
  /\ peers' = Dropped(peers, p)
  /\ inflight' = Dropped(inflight, p)
  /\ UNCHANGED answer

\* on_session_closed: the request in flight fails.
Close(p) ==
  /\ pending' = Dropped(pending, p)
  /\ peers' = Dropped(peers, p)
  /\ inflight' = Dropped(inflight, p)
  /\ answer' = IF p \in DOMAIN inflight THEN [answer EXCEPT ![inflight[p]] = "dropped"] ELSE answer

\* The session manager reports the end of a session.
BlockSessionClosed(p) ==
  /\ session[p] = "ended"
  /\ session' = [session EXCEPT ![p] = "none"]
  /\ Close(p)
  /\ UNCHANGED <<channel, queued, held, oneshot, opened>>

\* on_pending_disconnect, and the session is told to disconnect.
Disconnect(p) ==
  /\ session[p] = "open"
  /\ session' = [session EXCEPT ![p] = "closing"]
  /\ peers' = IF p \in DOMAIN peers THEN [peers EXCEPT ![p].state = "Closing"] ELSE peers
  /\ UNCHANGED <<channel, queued, inflight, pending, held, oneshot, answer, opened>>

\* on_request_finished.
Finished(s) == IF s = "Closing" THEN s ELSE "Idle"

\* on_block_headers_response, on_block_bodies_response: the client is answered
\* and a good peer gets the next request at once.
OnResponse(p, r, res, full) ==
  LET prs == [peers EXCEPT ![p] = [state |-> Finished(@.state), bad |-> res # "ok"]]
  IN  /\ answer' = [answer EXCEPT ![r] = res]
      /\ IF Finished(peers[p].state) = "Idle" /\ res = "ok" /\ queued # <<>>
         THEN SentTo(p, Head(queued), prs, full) /\ queued' = Tail(queued)
         ELSE peers' = prs /\ inflight' = Dropped(inflight, p) /\ pending' = [pending EXCEPT ![p] = NoRequest]
              /\ UNCHANGED <<queued, held, oneshot>>

\* NetworkState::poll: an answer whose sender was dropped means a closed session.
PollResponse(p) ==
  /\ p \in DOMAIN pending /\ pending[p] # NoRequest
  /\ oneshot[pending[p]] # "none"
  /\ IF oneshot[pending[p]] = "closed" THEN Close(p) /\ UNCHANGED <<queued, held, oneshot>>
     ELSE \E full \in {FALSE} \cup {ChannelFull} : OnResponse(p, pending[p], oneshot[pending[p]], full)
  /\ UNCHANGED <<channel, session, opened>>

BlocksInit ==
  /\ channel = <<>> /\ queued = <<>>
  /\ peers = <<>> /\ inflight = <<>> /\ pending = <<>>
  /\ session = [p \in PeerIds |-> "none"] /\ held = [p \in PeerIds |-> {}]
  /\ oneshot = [r \in Requests |-> "none"] /\ answer = [r \in Requests |-> "unsent"]
  /\ opened = 0

BlocksNext ==
  \/ Drain \/ Assign
  \/ \E r \in Requests : SendRequest(r)
  \/ \E p \in PeerIds : \/ Respond(p) \/ RequestTimeout(p) \/ SessionEnds(p)
                        \/ Activate(p) \/ BlockSessionClosed(p) \/ Disconnect(p) \/ PollResponse(p)

BlocksSpec == BlocksInit /\ [][BlocksNext]_blocksVars
-----------------------------------------------------------------------------
\* A request that was sent is in the channel, in the queue or in flight with one
\* active peer until its client has an answer; none is dropped or sent twice.
NoRequestLost ==
  \A r \in Requests :
     Cardinality({i \in 1..Len(channel) : channel[i] = r}) + Cardinality({i \in 1..Len(queued) : queued[i] = r})
       + Cardinality({p \in DOMAIN inflight : inflight[p] = r}) = (IF answer[r] = "none" THEN 1 ELSE 0)

\* "this will replace an already pending response": a peer has one request at a
\* time, and the response awaited from it is that of the request in flight.
ResponseMatches ==
  \A p \in DOMAIN pending : pending[p] = (IF p \in DOMAIN inflight THEN inflight[p] ELSE NoRequest)

\* "Caution: this expects that the peer is _not_ closed": once its session is to
\* end a peer is given no further request.
ClosingNotAsked ==
       \A p \in PeerIds : (p \in DOMAIN peers /\ peers[p].state = "Closing" /\ p \in DOMAIN peers') =>
        /\ peers'[p].state = "Closing"
        /\ (p \in DOMAIN inflight' => p \in DOMAIN inflight /\ inflight'[p] = inflight[p])

\* A high request is never behind a normal one.
HighFirst == \A i, j \in 1..Len(queued) : (queued[i] \notin High /\ queued[j] \in High) => j < i

\* "add this request to the back of the high-priority queue": high requests
\* keep their order.
HighInOrder ==
  LET high == SelectSeq(queued', LAMBDA r : r \in High)
  IN  (channel # <<>> /\ channel' = Tail(channel) /\ Head(channel) \in High) => Head(channel) = high[Len(high)]

\* "if the channel is closed, this means the peer session is also closed": a peer
\* is dropped only when its session has ended.
DroppedWhenClosed == \A p \in PeerIds : session[p] = "open" => p \in DOMAIN pending

\* A download request is in the channel, in the queue or in flight with one active
\* peer until its client has an answer, the response awaited from a peer is that
\* request's, a high request is never queued behind a normal one, and a peer is
\* given nothing once its session is to end, nor dropped before, unless the
\* channel to its session may be full (ChannelFull) (StateFetcher).
RequestsTracked ==
  /\ [](NoRequestLost /\ ResponseMatches /\ HighFirst /\ (ChannelFull \/ DroppedWhenClosed))
  /\ [][ClosingNotAsked]_blocksVars
=============================================================================
