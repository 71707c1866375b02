---------------------------- MODULE ActiveSession ----------------------------
(***************************************************************************)
(* An established session (network/session/active.rs): the task between    *)
(* the wire, the session manager's bounded channel and the requests of     *)
(* both sides.  The manager and the remote run concurrently with it.       *)
(***************************************************************************)
EXTENDS Integers, Sequences, FiniteSets, SequencesExt

CONSTANTS Kinds,        \* kinds of requests (headers, bodies, ...)
          MaxRequests,  \* requests made to the remote, identified 1..MaxRequests
          MaxIncoming,  \* messages the remote sends on its own
          Capacity      \* of the channel to the session manager

VARIABLES phase,      \* open, disconnecting, terminating, gone
          requests,   \* made so far: kind of each, in the order of next_id
          inflight,   \* id -> waiting or timedout
          outcome,    \* id -> what the requester got
          out,        \* queued_outgoing
          remote,     \* requests that have reached the remote and are unanswered
          in,         \* messages on the wire to us
          sent,       \* number of messages the remote has sent on its own
          serving,    \* received_requests_from_remote
          chan,       \* the channel to the session manager
          reserved,   \* whether this session holds a slot of it
          waiting,    \* pending_message_to_session
          taken, handled, \* broadcasts and requests read from the wire, got by the manager
          replaced    \* those of them whose place a breach took

vars == <<phase, requests, inflight, outcome, out, remote, in, sent, serving, chan, reserved, waiting, taken, handled, replaced>>

None == <<>>
Free == Len(chan) + (IF reserved THEN 1 ELSE 0) < Capacity
Drop(f, x) == [y \in DOMAIN f \ {x} |-> f[y]]
Valid(msgs) == SelectSeq(msgs, LAMBDA msg : msg.type \in {"broadcast", "request"})

\* Dropping the session closes the channels of everything that waits for it.
Closed == [id \in DOMAIN outcome |-> IF outcome[id] = <<"none">> THEN <<"closed">> ELSE outcome[id]]
-----------------------------------------------------------------------------
\* on_internal_peer_request.
OnInternalPeerRequest(kind) ==
  /\ phase = "open" /\ Len(requests) < MaxRequests
  /\ LET id == Len(requests) + 1
     IN  /\ requests' = Append(requests, kind)
         /\ inflight' = [i \in DOMAIN inflight \cup {id} |-> IF i = id THEN "waiting" ELSE inflight[i]]
         /\ outcome' = Append(outcome, <<"none">>)
         /\ out' = Append(out, [type |-> "request", id |-> id])
  /\ UNCHANGED <<phase, remote, in, sent, serving, chan, reserved, waiting, taken, handled, replaced>>

\* The queued messages are written to the connection.
Send ==
  /\ phase = "open" /\ out # <<>>
  /\ out' = Tail(out)
  /\ remote' = IF Head(out).type = "request" THEN remote \cup {Head(out).id} ELSE remote
  /\ UNCHANGED <<phase, requests, inflight, outcome, in, sent, serving, chan, reserved, waiting, taken, handled, replaced>>

\* A response of the node's handlers goes back to the remote.
HandleOutgoingResponse(id) ==
  /\ phase = "open" /\ id \in serving
  /\ serving' = serving \ {id}
  /\ out' = Append(out, [type |-> "response", id |-> id])
  /\ UNCHANGED <<phase, requests, inflight, outcome, remote, in, sent, chan, reserved, waiting, taken, handled, replaced>>

\* pending_message_to_session is delivered before anything else is read.
Deliver ==
  /\ phase = "open" /\ waiting # None /\ (reserved \/ Free)
  /\ chan' = Append(chan, waiting) /\ reserved' = FALSE /\ waiting' = None
  /\ UNCHANGED <<phase, requests, inflight, outcome, out, remote, in, sent, serving, taken, handled, replaced>>

\* Fault: the message that found the channel full is dropped.
EmitOrDrop(msg) ==
  /\ chan' = IF Free THEN Append(chan, msg) ELSE chan
  /\ UNCHANGED waiting

\* try_emit_broadcast, try_emit_request: a message that finds the channel full
\* waits.
Emit(msg) ==
  /\ chan' = IF Free THEN Append(chan, msg) ELSE chan
  /\ waiting' = IF Free THEN waiting ELSE msg

\* on_response!: the request gets its response, a bad one if the types differ; a
\* late one only counts for the timeout; an unexpected one is reported.
OnResponse(msg) ==
  IF msg.id \notin DOMAIN inflight
  THEN /\ chan' = IF Free THEN Append(chan, [type |-> "bad"]) ELSE chan
       /\ UNCHANGED <<inflight, outcome>>
  ELSE /\ inflight' = Drop(inflight, msg.id)
       /\ outcome' = [outcome EXCEPT ![msg.id] = IF inflight[msg.id] = "timedout" THEN @
                                                 ELSE IF requests[msg.id] = msg.kind THEN <<"ok", msg.kind>> ELSE <<"bad">>]
       /\ UNCHANGED chan

\* on_incoming_message: nothing is read while a message waits for the manager.
OnIncomingMessage ==
  /\ phase = "open" /\ waiting = None /\ in # <<>>
  /\ in' = Tail(in)
  /\ LET msg == Head(in)
     IN  CASE msg.type = "response" ->
                OnResponse(msg) /\ UNCHANGED <<phase, serving, waiting, taken, replaced>>
           [] msg.type = "broadcast" ->
                Emit(msg) /\ taken' = Append(taken, msg) /\ UNCHANGED <<phase, serving, inflight, outcome>>
           [] msg.type = "request" ->
                /\ Emit(msg) /\ taken' = Append(taken, msg) /\ serving' = serving \cup {msg.id}
                /\ UNCHANGED <<phase, inflight, outcome>>
           [] msg.type \in {"status", "eof"} ->  \* close_on_error, emit_disconnect
                phase' = "terminating" /\ UNCHANGED <<serving, inflight, outcome, chan, waiting, taken, replaced>>
  /\ UNCHANGED <<requests, out, remote, sent, reserved, handled, replaced>>

\* SessionCommand::Disconnect: the connection is closed first.
Disconnect ==
  /\ phase = "open" /\ \E p \in {"disconnecting", "terminating"} : phase' = p
  /\ UNCHANGED <<requests, inflight, outcome, out, remote, in, sent, serving, chan, reserved, waiting, taken, handled, replaced>>

\* poll_disconnect.
PollDisconnect ==
  /\ phase = "disconnecting" /\ phase' = "terminating"
  /\ UNCHANGED <<requests, inflight, outcome, out, remote, in, sent, serving, chan, reserved, waiting, taken, handled, replaced>>

\* poll_terminate_message: the task ends when the manager's channel has taken the
\* last message.
PollTerminateMessage ==
  /\ phase = "terminating" /\ Free /\ phase' = "gone"
  /\ chan' = Append(chan, [type |-> "closed"])
  /\ reserved' = FALSE /\ waiting' = None /\ outcome' = Closed /\ inflight' = <<>>
  /\ UNCHANGED <<requests, out, remote, in, sent, serving, taken, handled, replaced>>

\* check_timed_out_requests, first deadline: the requester is told.
Timeout(id) ==
  /\ phase = "open" /\ id \in DOMAIN inflight /\ inflight[id] = "waiting"
  /\ inflight' = [inflight EXCEPT ![id] = "timedout"]
  /\ outcome' = [outcome EXCEPT ![id] = <<"timeout">>]
  /\ UNCHANGED <<phase, requests, out, remote, in, sent, serving, chan, reserved, waiting, taken, handled, replaced>>

\* check_timed_out_requests, second deadline: a slot is reserved and the breach
\* put where the next delivery finds it, in the place of a message that waits there.
Breach(id) ==
  /\ phase = "open" /\ id \in DOMAIN inflight /\ inflight[id] = "timedout"
  /\ reserved \/ Free
  /\ reserved' = TRUE /\ waiting' = [type |-> "breach"]
  /\ replaced' = IF waiting \in Range(taken) THEN replaced \cup {waiting} ELSE replaced
  /\ UNCHANGED <<phase, requests, inflight, outcome, out, remote, in, sent, serving, chan, taken, handled>>
-----------------------------------------------------------------------------
\* The session manager takes a message from its channel; reports about the peer
\* only change its reputation.
Manager ==
  /\ chan # <<>> /\ chan' = Tail(chan) /\ handled' = IF Head(chan).type \in {"bad", "breach"} THEN handled ELSE Append(handled, Head(chan))
  /\ UNCHANGED <<phase, requests, inflight, outcome, out, remote, in, sent, serving, reserved, waiting, taken, replaced>>

\* The remote answers a request, rightly or not.
RemoteAnswers(id) ==
  /\ phase = "open" /\ id \in remote /\ remote' = remote \ {id}
  /\ \E kind \in Kinds : in' = Append(in, [type |-> "response", id |-> id, kind |-> kind])
  /\ UNCHANGED <<phase, requests, inflight, outcome, out, sent, serving, chan, reserved, waiting, taken, handled, replaced>>

\* The remote sends a broadcast, a request, an answer nobody asked for, or ends
\* the connection.
RemoteSends ==
  /\ phase = "open" /\ sent < MaxIncoming /\ sent' = sent + 1
  /\ \E type \in {"broadcast", "request", "response", "status"} :
       in' = Append(in, [type |-> type, id |-> IF type = "response" THEN 0 ELSE sent', kind |-> "none"])
  /\ UNCHANGED <<phase, requests, inflight, outcome, out, remote, serving, chan, reserved, waiting, taken, handled, replaced>>

Init ==
  /\ phase = "open" /\ requests = <<>> /\ inflight = <<>> /\ outcome = <<>> /\ out = <<>>
  /\ remote = {} /\ in = <<>> /\ sent = 0 /\ serving = {} /\ chan = <<>>
  /\ reserved = FALSE /\ waiting = None /\ taken = <<>> /\ handled = <<>> /\ replaced = {}

\* poll
Session ==
  \/ Send \/ Deliver \/ OnIncomingMessage \/ PollDisconnect \/ PollTerminateMessage
  \/ \E id \in 1..MaxIncoming : HandleOutgoingResponse(id)

Next ==
  \/ Session \/ Manager \/ RemoteSends \/ Disconnect
  \/ \E kind \in Kinds : OnInternalPeerRequest(kind)
  \/ \E id \in 1..MaxRequests : Timeout(id) \/ Breach(id) \/ RemoteAnswers(id)

\* The session's task is woken for what it can do, its interval ticks, and the
\* manager empties its channel.
Fairness ==
  /\ WF_vars(Session) /\ WF_vars(Manager) /\ SF_vars(PollTerminateMessage)
  /\ \A id \in 1..MaxRequests : WF_vars(Timeout(id))

Spec == Init /\ [][Next]_vars

FairSpec == Spec /\ Fairness
-----------------------------------------------------------------------------
\* While the session is open the manager gets what the remote sent, in the order it
\* was read, all but a message that waits for the channel when a breach is noticed.
ReceivedInOrder ==
  phase = "open" =>
    SelectSeq(taken, LAMBDA msg : msg \notin replaced)
      = Valid(handled) \o Valid(chan) \o Valid(IF waiting = None THEN <<>> ELSE <<waiting>>)

\* A breach is reported only while a request is out for longer than the second
\* deadline: an answer that was read late, but before, clears the peer.
BreachDeserved ==
  waiting # None /\ waiting.type = "breach" => \E id \in DOMAIN inflight : inflight[id] = "timedout"

\* A requester gets a response of the kind it asked for, or an error.
AnswersMatch == \A id \in DOMAIN outcome : outcome[id] \in {<<"none">>, <<"bad">>, <<"timeout">>, <<"closed">>, <<"ok", requests[id]>>}

\* A request without an outcome is one the session still waits for.
NoRequestForgotten == \A id \in DOMAIN outcome : outcome[id] = <<"none">> => id \in DOMAIN inflight /\ inflight[id] = "waiting"

\* Every request gets an outcome, whatever the remote does.
EveryRequestAnswered == \A id \in 1..MaxRequests : []<>(id \in DOMAIN outcome => outcome[id] # <<"none">>)

\* "to guarantee that the termination message is delivered": the manager learns of
\* the end of every session.
EndIsReported == []<>(phase # "open" => \E k \in DOMAIN handled : handled[k].type = "closed")
=============================================================================
