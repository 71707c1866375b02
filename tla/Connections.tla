---------------------------- MODULE Connections -----------------------------
(***************************************************************************)
(* Who the node is connected to: the PeersManager (network/peers.rs) picks *)
(* peers to dial and counts slots, the SessionManager (network/session)    *)
(* holds the sessions, and the Swarm (network/swarm.rs) and NetworkManager *)
(* (network/manager.rs) carry events from one to the other.  All of it is  *)
(* one task: an event is handled, and the actions it queued are carried    *)
(* out, before the next one.                                               *)
(***************************************************************************)
EXTENDS Integers, FiniteSets

CONSTANTS SlotPeers,
          Trusted,         \* peers configured as trusted
          Known,           \* peers in the table at the start
          MaxOutbound, MaxInbound, MaxDials,   \* ConnectionsConfig
          MaxBackoffs,     \* max_backoff_count
          MaxPending,      \* bound on pending incoming sessions
          MaxConnects,     \* bound on events from outside
          LateDial,        \* may a dial end after the peer's own connection was accepted, or
                           \* after the peer was removed
          RemoveTwice,     \* may a peer be removed again while its session ends
          PlainErrors      \* may a session end with an error that costs reputation only

ASSUME ConnectionsAssumption ==
  /\ IsFiniteSet(SlotPeers) /\ Known \subseteq SlotPeers /\ MaxInbound \in Nat
  /\ LateDial \in BOOLEAN /\ RemoveTwice \in BOOLEAN /\ PlainErrors \in BOOLEAN

VARIABLES entries,   \* the table: id -> state, reputation, flags
          num,       \* ConnectionInfo
          banned,    \* ban_list
          backedOff, \* backed_off_peers
          net,       \* NetworkConnectionState
          active,    \* sessions: "none", "In" or "Out"
          dialing,   \* pending outgoing sessions of each peer
          closing,   \* sessions that were told to disconnect
          recovered, \* history: banned peers whose reputation a tick raised above the threshold
          connects

slotsVars == <<entries, num, banned, backedOff, net, active, dialing, closing, recovered, connects>>

SpendConnect == connects < MaxConnects /\ connects' = connects + 1
-----------------------------------------------------------------------------
\* Peers.

DefaultReputation == 0
BannedReputation == -2
IsBanned(p) == p.reputation <= BannedReputation

NewPeer(state, trusted) ==
  [state |-> state, reputation |-> DefaultReputation, remove |-> FALSE, trusted |-> trusted, backed |-> FALSE, severe |-> 0]

Connected == {"In", "Out", "PendingOut"}

Disconnecting(s) == CASE s = "In" -> "DisconnectingIn" [] s = "Out" -> "DisconnectingOut" [] OTHER -> s

WithoutPeer(f, p) == [q \in DOMAIN f \ {p} |-> f[q]]
WithPeer(f, p, v) == [q \in DOMAIN f \cup {p} |-> IF q = p THEN v ELSE f[q]]

\* decr_state: the counter of the slot the peer holds.
DecrState(n, s) ==
  CASE s = "Idle" -> n
    [] s \in {"In", "DisconnectingIn"} -> [n EXCEPT !.inb = @ - 1]
    [] s \in {"Out", "DisconnectingOut"} -> [n EXCEPT !.out = @ - 1]
    [] s = "PendingOut" -> [n EXCEPT !.pout = @ - 1]

\* best_unconnected considers idle peers that are neither banned nor backed off.
Unconnected(t) == {p \in DOMAIN t : t[p].state = "Idle" /\ ~IsBanned(t[p]) /\ ~t[p].backed}

Rewarded(t, R) == [p \in DOMAIN t |-> IF p \in R THEN [t[p] EXCEPT !.reputation = @ + 1] ELSE t[p]]

Preference(p) == IF p.trusted THEN 1 ELSE p.reputation

\* The number of dials fill_outbound_slots has room for.
Dials(t, n) == IF net = "Active" /\ n.out < MaxOutbound THEN MaxDials - n.pout ELSE 0

\* fill_outbound_slots: the peers it takes, the preferred ones first; the map's
\* order decides among equals.
Filled(t, n) ==
  LET idle == Unconnected(t)
      k == IF Dials(t, n) < Cardinality(idle) THEN Dials(t, n) ELSE Cardinality(idle)
  IN  {S \in SUBSET idle : /\ Cardinality(S) = k
                           /\ \A p \in S, q \in idle \ S : Preference(t[p]) >= Preference(t[q])}

\* tick: a connected peer below the default reputation is rewarded for the time
\* since the last tick; whether that is a level more is left open.
Ticked(t) ==
  LET slashed == {p \in DOMAIN t : t[p].state \in Connected /\ t[p].reputation < DefaultReputation}
  IN  {Rewarded(t, R) : R \in SUBSET slashed}

Recoveries(t, u) == {p \in DOMAIN t : IsBanned(t[p]) /\ ~IsBanned(u[p])}

\* dial_outbound starts a pending session, disconnect tells an active one to end.
Dialed(dials, S) == [p \in SlotPeers |-> dials[p] + (IF p \in S THEN 1 ELSE 0)]
ToldToEnd(act, drop) == {p \in closing \cup drop : act[p] # "none"}

\* The end of a handler: fill_outbound_slots, if the handler calls it, ticks and
\* picks peers to dial, and the swarm carries out what was queued: these are
\* dialled and the sessions of the peers in drop told to disconnect.
CarryFrom(t, n, fill, drop, act, dials, back) ==
  \E u \in IF fill THEN Ticked(t) ELSE {t} : \E S \in IF fill THEN Filled(u, n) ELSE {{}} :
     /\ entries' = [p \in DOMAIN u |-> IF p \in S THEN [u[p] EXCEPT !.state = "PendingOut"] ELSE u[p]]
     /\ num' = [n EXCEPT !.pout = @ + Cardinality(S)]
     /\ dialing' = Dialed(dials, S)
     /\ active' = act
     /\ closing' = ToldToEnd(act, drop)
     /\ recovered' = back \cup Recoveries(t, u)

Carry(t, n, fill, drop, act, dials) == CarryFrom(t, n, fill, drop, act, dials, recovered)
-----------------------------------------------------------------------------
\* Incoming connections.

\* on_incoming_pending_session: a full node lets a connection in only to find out
\* whether it is a trusted peer's.
MayEnter == num.inb < MaxInbound \/ Trusted # {}

Incoming ==
  /\ net # "ShuttingDown" /\ num.pin < MaxPending /\ MayEnter
  /\ SpendConnect
  /\ num' = [num EXCEPT !.pin = @ + 1]
  /\ UNCHANGED <<entries, banned, backedOff, net, active, dialing, closing, recovered>>

\* The handshake failed, timed out or was ended.
IncomingClosed ==
  /\ num.pin > 0
  /\ num' = [num EXCEPT !.pin = @ - 1]
  /\ UNCHANGED <<entries, banned, backedOff, net, active, dialing, closing, recovered, connects>>

\* Fault: the pending dial keeps its slot.
OnIncomingKeepsDial(p) ==
  LET hadRoom == num.inb < MaxInbound
      n == [num EXCEPT !.pin = @ - 1, !.inb = @ + 1]
      act == [active EXCEPT ![p] = "In"]
  IN  IF p \in banned THEN Carry(entries, [num EXCEPT !.pin = @ - 1], FALSE, {p}, act, dialing)
      ELSE \E u \in Ticked(entries) :
        LET back == recovered \cup Recoveries(entries, u)
        IN  IF p \notin DOMAIN u
            THEN CarryFrom(WithPeer(u, p, [NewPeer("In", FALSE) EXCEPT !.remove = TRUE]), n, FALSE,
                           IF hadRoom \/ p \in Trusted THEN {} ELSE {p}, act, dialing, back)
            ELSE IF IsBanned(u[p]) THEN CarryFrom(u, n, FALSE, {p}, act, dialing, back)
            ELSE CarryFrom([u EXCEPT ![p].state = "In"],
                           n, FALSE,
                           IF hadRoom \/ p \in Trusted \/ u[p].trusted THEN {} ELSE {p}, act, dialing, back)

\* on_incoming_session_established: a peer that is being dialled gives its dial
\* slot back; one without a free slot is told to go, unless it is trusted.
OnIncoming(p) ==
  LET hadRoom == num.inb < MaxInbound
      n == [num EXCEPT !.pin = @ - 1, !.inb = @ + 1]
      act == [active EXCEPT ![p] = "In"]
  IN  IF p \in banned THEN Carry(entries, [num EXCEPT !.pin = @ - 1], FALSE, {p}, act, dialing)
      ELSE \E u \in Ticked(entries) :
        LET back == recovered \cup Recoveries(entries, u)
        IN  IF p \notin DOMAIN u
            THEN CarryFrom(WithPeer(u, p, [NewPeer("In", FALSE) EXCEPT !.remove = TRUE]), n, FALSE,
                           IF hadRoom \/ p \in Trusted THEN {} ELSE {p}, act, dialing, back)
            ELSE IF IsBanned(u[p]) THEN CarryFrom(u, n, FALSE, {p}, act, dialing, back)
            ELSE CarryFrom([u EXCEPT ![p].state = "In"],
                           IF u[p].state = "PendingOut" THEN DecrState(n, "PendingOut") ELSE n, FALSE,
                           IF hadRoom \/ p \in Trusted \/ u[p].trusted THEN {} ELSE {p}, act, dialing, back)

\* PendingSessionEvent::Established: a second session of a peer is refused.
IncomingEstablished(p) ==
  /\ num.pin > 0
  /\ IF active[p] # "none"
     THEN num' = [num EXCEPT !.pin = @ - 1] /\ UNCHANGED <<entries, active, dialing, closing, recovered>>
     ELSE OnIncoming(p)
  /\ UNCHANGED <<banned, backedOff, net, connects>>
-----------------------------------------------------------------------------
\* Outgoing connections.

OutgoingEstablished(p) ==
  /\ dialing[p] > 0
  /\ (p \notin DOMAIN entries /\ active[p] = "none") => LateDial
  /\ LET dials == [dialing EXCEPT ![p] = @ - 1]
         act == [active EXCEPT ![p] = "Out"]
     IN  IF active[p] # "none" THEN Carry(entries, num, FALSE, {}, active, dials)
         ELSE IF p \notin DOMAIN entries THEN Carry(entries, num, FALSE, {}, act, dials)
         ELSE LET n == DecrState(num, entries[p].state)
              IN  Carry([entries EXCEPT ![p].state = "Out"], [n EXCEPT !.out = @ + 1], FALSE, {}, act, dials)
  /\ UNCHANGED <<banned, backedOff, net, connects>>

\* on_connection_failure: err is "fatal", "plain", "backoff" or "severe".
Failure(p, err, act, dials) ==
  IF err = "fatal"
  THEN /\ CarryFrom(WithoutPeer(entries, p), IF p \in DOMAIN entries THEN DecrState(num, entries[p].state) ELSE num, TRUE, {},
                    act, dials, recovered \ {p})
       /\ banned' = banned \cup {p}
       /\ UNCHANGED backedOff
  ELSE /\ UNCHANGED banned
       /\ IF p \notin DOMAIN entries THEN Carry(entries, num, TRUE, {}, act, dials) /\ UNCHANGED backedOff
          ELSE LET old == entries[p]
                   severe == IF err = "severe" /\ old.severe <= MaxBackoffs THEN old.severe + 1 ELSE old.severe
                   gone == severe > MaxBackoffs /\ ~old.trusted
                   new == [old EXCEPT !.state = "Idle", !.severe = severe,
                                      !.backed = @ \/ err # "plain",
                                      !.reputation = IF err = "plain" /\ @ > BannedReputation THEN @ - 1 ELSE @]
               IN  /\ Carry(IF gone THEN WithoutPeer(entries, p) ELSE [entries EXCEPT ![p] = new], DecrState(num, old.state),
                            TRUE, {}, act, dials)
                   /\ backedOff' = IF err # "plain" /\ ~gone THEN backedOff \cup {p} ELSE backedOff

\* on_outgoing_pending_session_dropped: the handshake failed.
OutgoingDropped(p) ==
  /\ dialing[p] > 0
  /\ active[p] # "none" => LateDial
  /\ SpendConnect
  /\ \E err \in {"fatal", "backoff", "severe"} : Failure(p, err, active, [dialing EXCEPT ![p] = @ - 1])
  /\ UNCHANGED net

\* on_outgoing_connection_failure: ignored if the peer has connected meanwhile.
ConnectionError(p) ==
  /\ dialing[p] > 0 /\ SpendConnect
  /\ (active[p] # "none" /\ ~(p \in DOMAIN entries /\ entries[p].state = "In")) => LateDial
  /\ IF p \in DOMAIN entries /\ entries[p].state = "In"
     THEN Carry(entries, num, FALSE, {}, active, [dialing EXCEPT ![p] = @ - 1]) /\ UNCHANGED <<banned, backedOff>>
     ELSE \E err \in {"backoff", "severe"} : Failure(p, err, active, [dialing EXCEPT ![p] = @ - 1])
  /\ UNCHANGED net

\* on_outgoing_pending_session_gracefully_closed, after disconnect_all_pending.
OutgoingClosed(p) ==
  /\ dialing[p] > 0 /\ net = "ShuttingDown"
  /\ active[p] # "none" => LateDial
  /\ Carry(IF p \in DOMAIN entries THEN [entries EXCEPT ![p].state = "Idle"] ELSE entries,
           IF p \in DOMAIN entries THEN DecrState(num, entries[p].state) ELSE num,
           FALSE, {}, active, [dialing EXCEPT ![p] = @ - 1])
  /\ UNCHANGED <<banned, backedOff, net, connects>>
-----------------------------------------------------------------------------
\* The end of a session.

\* on_active_session_gracefully_closed.
ActiveSessionClosed(p) ==
  /\ active[p] # "none"
  /\ LET act == [active EXCEPT ![p] = "none"]
     IN  IF p \notin DOMAIN entries THEN Carry(entries, num, FALSE, {}, act, dialing)
         ELSE LET n == DecrState(num, entries[p].state)
              IN  IF entries[p].remove /\ ~entries[p].trusted
                  THEN Carry(WithoutPeer(entries, p), n, TRUE, {}, act, dialing)
                  ELSE Carry([entries EXCEPT ![p].severe = 0, ![p].state = "Idle"], n, FALSE, {}, act, dialing)
  /\ UNCHANGED <<banned, backedOff, net, connects>>

\* on_active_session_dropped.
ActiveSessionDropped(p) ==
  /\ active[p] # "none" /\ SpendConnect
  /\ \E err \in {"fatal", "plain", "backoff", "severe"} :
       (err = "plain" => PlainErrors) /\ Failure(p, err, [active EXCEPT ![p] = "none"], dialing)
  /\ UNCHANGED net
-----------------------------------------------------------------------------
\* Reputation, the table and the timers.

\* apply_reputation_change: a banned peer is disconnected.
ReputationChange(p) ==
  /\ p \in DOMAIN entries /\ SpendConnect
  /\ \E w \in {-1, BannedReputation} :
       LET cut == IF entries[p].trusted THEN -1 ELSE w
           rep == IF entries[p].reputation + cut < BannedReputation THEN BannedReputation ELSE entries[p].reputation + cut
           new == [entries[p] EXCEPT !.reputation = rep]
           drop == entries[p].state \in Connected /\ IsBanned(new)
           ban == drop \/ (IsBanned(new) /\ ~IsBanned(entries[p]))
       IN  /\ CarryFrom([entries EXCEPT ![p] = [new EXCEPT !.state = IF drop THEN Disconnecting(@) ELSE @]], num, FALSE,
                        IF drop THEN {p} ELSE {}, active, dialing, IF ban THEN recovered \ {p} ELSE recovered)
           /\ banned' = IF ban THEN banned \cup {p} ELSE banned
  /\ UNCHANGED <<backedOff, net>>

\* add_peer_kind: the kind of a known peer is replaced.
AddPeer(p) ==
  /\ p \notin banned /\ net # "ShuttingDown" /\ SpendConnect
  /\ \E trusted \in {FALSE} \cup {p \in Trusted} :
       entries' = WithPeer(entries, p, IF p \in DOMAIN entries
                               THEN [entries[p] EXCEPT !.trusted = trusted, !.remove = @ /\ entries[p].state # "In"]
                               ELSE NewPeer("Idle", trusted))
  /\ UNCHANGED <<num, banned, backedOff, net, active, dialing, closing, recovered>>

\* remove_peer: a connected peer stays until its session has ended.
RemovePeer(p) ==
  /\ p \in DOMAIN entries /\ ~entries[p].trusted /\ SpendConnect
  /\ entries[p].state \in {"DisconnectingIn", "DisconnectingOut"} => RemoveTwice
  /\ IF entries[p].state \in Connected
     THEN Carry([entries EXCEPT ![p].remove = TRUE, ![p].state = Disconnecting(@)], num, FALSE, {p}, active, dialing)
     ELSE Carry(WithoutPeer(entries, p), num, FALSE, {}, active, dialing)
  /\ UNCHANGED <<banned, backedOff, net>>

\* The refill interval.
Refill ==
  /\ Carry(entries, num, TRUE, {}, active, dialing)
  /\ UNCHANGED <<banned, backedOff, net, connects>>

\* The release interval: a ban or a back-off has expired.
ReleaseBan(p) ==
  /\ p \in banned
  /\ banned' = banned \ {p} /\ recovered' = recovered \ {p}
  /\ entries' = IF p \in DOMAIN entries THEN [entries EXCEPT ![p].reputation = DefaultReputation] ELSE entries
  /\ UNCHANGED <<num, backedOff, net, active, dialing, closing, connects>>

ReleaseBackoff(p) ==
  /\ p \in backedOff
  /\ backedOff' = backedOff \ {p}
  /\ entries' = IF p \in DOMAIN entries THEN [entries EXCEPT ![p].backed = FALSE] ELSE entries
  /\ UNCHANGED <<num, banned, net, active, dialing, closing, recovered, connects>>

\* SetNetworkState, Shutdown.
SetNetworkState ==
  /\ net # "ShuttingDown" /\ SpendConnect
  /\ \E s \in {"Active", "Hibernate", "ShuttingDown"} \ {net} :
       /\ net' = s
       /\ closing' = IF s = "ShuttingDown" THEN {p \in SlotPeers : active[p] # "none"} ELSE closing
  /\ UNCHANGED <<entries, num, banned, backedOff, active, dialing, recovered>>

SlotsInit ==
  /\ entries = [p \in Known |-> NewPeer("Idle", p \in Trusted)]
  /\ num = [out |-> 0, pout |-> 0, inb |-> 0, pin |-> 0]
  /\ banned = {} /\ recovered = {} /\ backedOff = {} /\ net = "Active"
  /\ active = [p \in SlotPeers |-> "none"] /\ dialing = [p \in SlotPeers |-> 0] /\ closing = {}
  /\ connects = 0

\* The events of pending and of active sessions, the commands of the handles and
\* the timers, as the manager's loop takes them.
PendingEvents(p) ==
  IncomingEstablished(p) \/ OutgoingEstablished(p) \/ OutgoingDropped(p) \/ ConnectionError(p) \/ OutgoingClosed(p)

ActiveEvents(p) == ActiveSessionClosed(p) \/ ActiveSessionDropped(p)

PeerCommands(p) == ReputationChange(p) \/ AddPeer(p) \/ RemovePeer(p)

Timers(p) == ReleaseBan(p) \/ ReleaseBackoff(p)

SlotsNext ==
  \/ Incoming \/ IncomingClosed \/ Refill \/ SetNetworkState
  \/ \E p \in SlotPeers : PendingEvents(p) \/ ActiveEvents(p) \/ PeerCommands(p) \/ Timers(p)

SlotsSpec == SlotsInit /\ [][SlotsNext]_slotsVars
-----------------------------------------------------------------------------
InState(S) == {p \in DOMAIN entries : entries[p].state \in S}

\* Every slot counter equals the number of peers that hold such a slot, through
\* simultaneous dials, failures, bans, removals and shutdowns; a counter that
\* ran below would wrap around, one above would lose a slot for ever.
SlotsCounted ==
  /\ num.pout = Cardinality(InState({"PendingOut"}))
  /\ num.out = Cardinality(InState({"Out", "DisconnectingOut"}))
  /\ num.inb = Cardinality(InState({"In", "DisconnectingIn"}))

\* A peer that waits for its dial has a dial in progress or a session that will
\* end: none is left pending for ever.
PendingHasDial == \A p \in InState({"PendingOut"}) : dialing[p] > 0 \/ active[p] # "none"

\* "there's a race condition where we accepted an incoming connection while we
\* were trying to connect ... we can ignore this error": an accepted session of
\* a peer keeps its slot until it ends.
SessionKeepsSlot ==
  \A p \in SlotPeers \ closing : active[p] # "none" =>
     p \in DOMAIN entries /\ entries[p].state \in {active[p], Disconnecting(active[p])}

\* max_outbound: "Maximum allowed outbound connections."
OutboundLimited == num.out <= MaxOutbound

\* Untrusted peers that connected beyond the inbound limit are on their way out.
InboundLimited == Cardinality({p \in SlotPeers \ (closing \cup Trusted) : active[p] = "In"}) <= MaxInbound

\* The peers on the ban list whose reputation no tick has raised since.
Listed == banned \ recovered

\* A peer on the ban list is not dialled, unless its reputation has recovered.
BannedNotDialed ==
       \A p \in SlotPeers : dialing'[p] > dialing[p] => p \notin Listed'

\* Peers that could not be reached "are put in time out": a backed-off peer is
\* not dialled before its time is over.
TimeOutKept ==
       \A p \in SlotPeers : dialing'[p] > dialing[p] => p \notin backedOff'

\* Every slot counter equals the number of peers that hold such a slot (unless
\* RemoveTwice or PlainErrors), a peer that waits for its dial has a dial in
\* progress or a session that will end, an accepted session keeps its slot until it
\* ends (unless LateDial), and untrusted peers beyond the inbound limit are on their
\* way out (unless LateDial, RemoveTwice or PlainErrors), through simultaneous
\* dials, failures, bans, removals and shutdowns; a peer on the ban list is not
\* dialled, unless a tick has raised its reputation since (PeersManager).
SlotsSound ==
  /\ [](PendingHasDial /\ (RemoveTwice \/ PlainErrors \/ SlotsCounted) /\ (LateDial \/ SessionKeepsSlot))
  /\ [](LateDial \/ RemoveTwice \/ PlainErrors \/ InboundLimited)
  /\ [][BannedNotDialed]_slotsVars
=============================================================================
