-------------------------- MODULE ConnectionProofs --------------------------
(***************************************************************************)
(* Connections and their slots, for any number of peers and any limits.    *)
(***************************************************************************)
EXTENDS Connections, InductionLemmas

States == {"Idle", "In", "Out", "PendingOut", "DisconnectingIn", "DisconnectingOut"}
Ins == {"In", "DisconnectingIn"}
Outs == {"Out", "DisconnectingOut"}

Entry == [state : States, reputation : Int, remove : BOOLEAN, trusted : BOOLEAN, backed : BOOLEAN, severe : Int]
Info == [out : Int, pout : Int, inb : Int, pin : Int]

TableOf(t) == t \in [DOMAIN t -> Entry] /\ DOMAIN t \subseteq SlotPeers
SlotsTyped(t, n, act, dl, cl) ==
  /\ TableOf(t) /\ n \in Info
  /\ act \in [SlotPeers -> {"none", "In", "Out"}] /\ dl \in [SlotPeers -> Nat] /\ cl \subseteq SlotPeers

StateOf(t, p) == IF p \in DOMAIN t THEN t[p].state ELSE "Idle"

\* The peers whose slots are of a kind.
Slots(t, C) == {p \in DOMAIN t : t[p].state \in C}

Counted(t, n) ==
  /\ n.pout = Cardinality(Slots(t, {"PendingOut"}))
  /\ n.out = Cardinality(Slots(t, Outs))
  /\ n.inb = Cardinality(Slots(t, Ins))

\* What holds of one peer: a slot of a session has its session, a session that is
\* being ended was told so, the ban list (ban) and the reputation agree, the flag
\* of a trusted peer is true, a pending dial has its dial, and a session that was
\* not told to end has its slot.
PeerSound(p, t, ban, act, dl, cl) ==
  /\ p \in DOMAIN t =>
       /\ t[p].state \in Ins \cup Outs => act[p] # "none"
       /\ t[p].state \in {"DisconnectingIn", "DisconnectingOut"} => p \in cl
       /\ p \in ban => IsBanned(t[p])
       /\ PlainErrors \/ (IsBanned(t[p]) => p \in ban)
       /\ t[p].trusted => p \in Trusted
       /\ t[p].state = "PendingOut" => dl[p] > 0 \/ act[p] # "none"
  /\ p \in cl => act[p] # "none"
  /\ \/ LateDial \/ p \in cl \/ act[p] = "none"
     \/ p \in DOMAIN t /\ t[p].state \in {act[p], Disconnecting(act[p])}

\* The untrusted peers that came in and may stay.
Guests(act, cl) == {p \in SlotPeers \ (cl \cup Trusted) : act[p] = "In"}

SlotsHold(t, n, ban, act, dl, cl) ==
  /\ SlotsTyped(t, n, act, dl, cl)
  /\ \A p \in SlotPeers : PeerSound(p, t, ban, act, dl, cl)
  /\ RemoveTwice \/ PlainErrors \/ Counted(t, n)
  /\ LateDial \/ RemoveTwice \/ PlainErrors \/ Cardinality(Guests(act, cl)) <= MaxInbound

SlotsInv == SlotsHold(entries, num, Listed, active, dialing, closing)

\* The ban list before the tick at the end of a handler.
Left(back) == banned' \ back

-----------------------------------------------------------------------------
(***************************************************************************)
(* The slots of a kind are finitely many.                                  *)
(***************************************************************************)
LEMMA SlotsFinite ==
  ASSUME NEW t, TableOf(t), NEW C
  PROVE  IsFiniteSet(Slots(t, C)) /\ Cardinality(Slots(t, C)) \in Nat
<1>1. Slots(t, C) \subseteq SlotPeers
  BY DEF Slots, TableOf
<1> QED
  BY <1>1, ConnectionsAssumption, FS_Subset, FS_CardinalityType

One(b) == IF b THEN 1 ELSE 0

\* The counters after a peer went from state r to state s.
Moved(m, n, r, s) ==
  /\ n.pout + One(r = "PendingOut") = m.pout + One(s = "PendingOut")
  /\ n.out + One(r \in Outs) = m.out + One(s \in Outs)
  /\ n.inb + One(r \in Ins) = m.inb + One(s \in Ins)

\* The tables differ at most at p.
SameBut(p, t, u) == \A q \in SlotPeers \ {p} : (q \in DOMAIN t <=> q \in DOMAIN u) /\ (q \in DOMAIN t => t[q] = u[q])

(***************************************************************************)
(* Sets that differ at most at p.                                          *)
(***************************************************************************)
LEMMA CountedAt ==
  ASSUME NEW S, NEW T, IsFiniteSet(S), IsFiniteSet(T), NEW p, S \ {p} = T \ {p}
  PROVE  Cardinality(T) + One(p \in S) = Cardinality(S) + One(p \in T)
<1>1. /\ Cardinality(S \ {p}) = IF p \in S THEN Cardinality(S) - 1 ELSE Cardinality(S)
      /\ Cardinality(T \ {p}) = IF p \in T THEN Cardinality(T) - 1 ELSE Cardinality(T)
  BY FS_RemoveElement
<1>2. Cardinality(S) \in Nat /\ Cardinality(T) \in Nat
  BY FS_CardinalityType
<1>3. Cardinality(S \ {p}) = Cardinality(T \ {p})
  OBVIOUS
<1>4. (p \in S => One(p \in S) = 1) /\ (p \notin S => One(p \in S) = 0)
  BY Zenon DEF One
<1>5. (p \in T => One(p \in T) = 1) /\ (p \notin T => One(p \in T) = 0)
  BY Zenon DEF One
<1> QED
  BY <1>1, <1>2, <1>3, <1>4, <1>5

\* A change at one peer changes the number of slots of a kind by that peer.
LEMMA SlotsMoved ==
  ASSUME NEW t, NEW u, TableOf(t), TableOf(u), NEW p \in SlotPeers, SameBut(p, t, u), NEW C, "Idle" \notin C
  PROVE  Cardinality(Slots(u, C)) + One(StateOf(t, p) \in C) = Cardinality(Slots(t, C)) + One(StateOf(u, p) \in C)
<1>1. Slots(t, C) \ {p} = Slots(u, C) \ {p}
  BY DEF Slots, SameBut, TableOf
<1>2. (p \in Slots(t, C) <=> StateOf(t, p) \in C) /\ (p \in Slots(u, C) <=> StateOf(u, p) \in C)
  BY DEF Slots, StateOf
<1>3. One(p \in Slots(t, C)) = One(StateOf(t, p) \in C) /\ One(p \in Slots(u, C)) = One(StateOf(u, p) \in C)
  BY <1>2 DEF One
<1>4. IsFiniteSet(Slots(t, C)) /\ IsFiniteSet(Slots(u, C))
  BY SlotsFinite
<1>5. Cardinality(Slots(u, C)) + One(p \in Slots(t, C)) = Cardinality(Slots(t, C)) + One(p \in Slots(u, C))
  BY <1>1, <1>4, CountedAt
<1> QED
  BY <1>3, <1>5

\* Counters that follow the change at one peer stay exact.
LEMMA CountersMoved ==
  ASSUME NEW t, NEW u, TableOf(t), TableOf(u), NEW p \in SlotPeers, SameBut(p, t, u),
         NEW m \in Info, NEW n \in Info, Counted(t, m), Moved(m, n, StateOf(t, p), StateOf(u, p))
  PROVE  Counted(u, n)
<1> DEFINE r == StateOf(t, p)
           s == StateOf(u, p)
<1>1. \A b : One(b) \in Int
  BY DEF One
<1>2. \A C : Cardinality(Slots(u, C)) \in Nat
  BY SlotsFinite
<1>3. Cardinality(Slots(u, Outs)) + One(r \in Outs) = Cardinality(Slots(t, Outs)) + One(s \in Outs)
  BY SlotsMoved DEF Outs
<1>4. Cardinality(Slots(u, Ins)) + One(r \in Ins) = Cardinality(Slots(t, Ins)) + One(s \in Ins)
  BY SlotsMoved DEF Ins
<1>5. Cardinality(Slots(u, {"PendingOut"})) + One(r \in {"PendingOut"}) = Cardinality(Slots(t, {"PendingOut"})) + One(s \in {"PendingOut"})
  BY SlotsMoved
<1>6. One(r \in {"PendingOut"}) = One(r = "PendingOut") /\ One(s \in {"PendingOut"}) = One(s = "PendingOut")
  BY DEF One
<1>7. n.pout \in Int /\ n.out \in Int /\ n.inb \in Int
  BY DEF Info
<1> HIDE DEF r, s
<1> QED
  BY <1>1, <1>2, <1>3, <1>4, <1>5, <1>6, <1>7 DEF Counted, Moved, r, s

-----------------------------------------------------------------------------
\* The table once the peers of S are dialled.
DialedIn(t, S) == [p \in DOMAIN t |-> IF p \in S THEN [t[p] EXCEPT !.state = "PendingOut"] ELSE t[p]]

\* The peers that are dialled were idle and not banned, and wait for their dial.
LEMMA DialedEntries ==
  ASSUME NEW t, TableOf(t), NEW S, S \subseteq Unconnected(t)
  PROVE  /\ TableOf(DialedIn(t, S)) /\ DOMAIN DialedIn(t, S) = DOMAIN t
         /\ \A p \in DOMAIN t \ S : DialedIn(t, S)[p] = t[p]
         /\ \A p \in S : /\ p \in DOMAIN t /\ t[p].state = "Idle" /\ ~IsBanned(t[p])
                         /\ DialedIn(t, S)[p].state = "PendingOut"
                         /\ DialedIn(t, S)[p].reputation = t[p].reputation /\ DialedIn(t, S)[p].trusted = t[p].trusted
<1>1. \A p \in S : p \in DOMAIN t /\ t[p].state = "Idle" /\ ~IsBanned(t[p])
  BY DEF Unconnected
<1>2. \A p \in DOMAIN t : t[p] \in Entry
  BY DEF TableOf
<1>3. \A p \in DOMAIN t : [t[p] EXCEPT !.state = "PendingOut"] \in Entry
  BY <1>2 DEF Entry, States
<1>4. \A e \in Entry : LET d == [e EXCEPT !.state = "PendingOut"]
                      IN  d.state = "PendingOut" /\ d.reputation = e.reputation /\ d.trusted = e.trusted
  BY DEF Entry
<1>5. DOMAIN DialedIn(t, S) = DOMAIN t /\ DialedIn(t, S) \in [DOMAIN t -> Entry]
  BY <1>2, <1>3 DEF DialedIn
<1>6. TableOf(DialedIn(t, S))
  BY <1>5 DEF TableOf
<1>7. \A p \in DOMAIN t \ S : DialedIn(t, S)[p] = t[p]
  BY DEF DialedIn
<1>8. \A p \in S : DialedIn(t, S)[p] = [t[p] EXCEPT !.state = "PendingOut"]
  BY <1>1 DEF DialedIn
<1>9. \A p \in S : /\ DialedIn(t, S)[p].state = "PendingOut"
                   /\ DialedIn(t, S)[p].reputation = t[p].reputation /\ DialedIn(t, S)[p].trusted = t[p].trusted
  <2> TAKE p \in S
  <2>1. t[p] \in Entry /\ DialedIn(t, S)[p] = [t[p] EXCEPT !.state = "PendingOut"]
    BY <1>1, <1>2, <1>8
  <2> QED
    BY <1>4, <2>1
<1> QED
  BY <1>1, <1>5, <1>6, <1>7, <1>9

\* Dialling a set of idle peers adds its size to the pending dials.
LEMMA DialedCounted ==
  ASSUME NEW t, TableOf(t), NEW S, S \subseteq Unconnected(t), NEW n \in Info, Counted(t, n)
  PROVE  Counted(DialedIn(t, S), [n EXCEPT !.pout = @ + Cardinality(S)])
<1> DEFINE u == DialedIn(t, S)
           P == Slots(t, {"PendingOut"})
<1>1. /\ TableOf(u) /\ DOMAIN u = DOMAIN t /\ \A p \in DOMAIN t \ S : u[p] = t[p]
      /\ \A p \in S : p \in DOMAIN t /\ t[p].state = "Idle" /\ u[p].state = "PendingOut"
  BY DialedEntries
<1> HIDE DEF u
<1>2. Slots(u, Outs) = Slots(t, Outs) /\ Slots(u, Ins) = Slots(t, Ins)
  BY <1>1 DEF Slots, Outs, Ins
<1>3. Slots(u, {"PendingOut"}) = P \cup S /\ P \cap S = {}
  BY <1>1 DEF Slots
<1>4. IsFiniteSet(P) /\ IsFiniteSet(S) /\ Cardinality(P) \in Nat /\ Cardinality(S) \in Nat
  <2>1. S \subseteq SlotPeers
    BY <1>1 DEF TableOf
  <2> QED
    BY <2>1, SlotsFinite, ConnectionsAssumption, FS_Subset, FS_CardinalityType
<1>5. Cardinality(Slots(u, {"PendingOut"})) = Cardinality(P) + Cardinality(S)
  <2>1. Cardinality(P \cup S) = Cardinality(P) + Cardinality(S) - Cardinality(P \cap S)
    BY <1>4, FS_Union, Zenon
  <2>2. Cardinality(P \cap S) = 0
    BY <1>3, FS_EmptySet
  <2>3. Cardinality(Slots(u, {"PendingOut"})) = Cardinality(P \cup S)
    BY Zenon, <1>3
  <2> HIDE DEF P
  <2> QED
    BY <1>4, <2>1, <2>2, <2>3
<1>6. LET m == [n EXCEPT !.pout = @ + Cardinality(S)]
      IN  m.pout = n.pout + Cardinality(S) /\ m.out = n.out /\ m.inb = n.inb
  BY DEF Info
<1>7. n.pout = Cardinality(P) /\ n.out = Cardinality(Slots(t, Outs)) /\ n.inb = Cardinality(Slots(t, Ins))
  BY DEF Counted
<1> QED
  BY <1>2, <1>5, <1>6, <1>7 DEF Counted, u

(***************************************************************************)
(* A tick changes reputations only, for the better, and who is no longer   *)
(* banned by it has recovered.                                             *)
(***************************************************************************)
LEMMA TickIsRight ==
  ASSUME NEW t, NEW n, NEW ban, NEW act, NEW dl, NEW cl, SlotsHold(t, n, ban, act, dl, cl), NEW u \in Ticked(t)
  PROVE  /\ SlotsHold(u, n, ban \ Recoveries(t, u), act, dl, cl) /\ DOMAIN u = DOMAIN t
         /\ \A p \in DOMAIN t : u[p].state = t[p].state
<1>1. PICK R \in SUBSET DOMAIN t : u = Rewarded(t, R)
  BY DEF Ticked
<1>2. TableOf(t) /\ SlotsTyped(t, n, act, dl, cl) /\ \A p \in DOMAIN t : t[p] \in Entry
  BY DEF SlotsHold, SlotsTyped, TableOf
<1>3. DOMAIN u = DOMAIN t
  BY <1>1 DEF Rewarded
<1>4. ASSUME NEW p \in DOMAIN t
      PROVE  /\ u[p] \in Entry /\ u[p].state = t[p].state /\ u[p].trusted = t[p].trusted
             /\ IsBanned(u[p]) => IsBanned(t[p])
  <2>1. t[p] \in Entry /\ t[p].reputation \in Int
    BY <1>2 DEF Entry
  <2>2. CASE p \in R
    <3> DEFINE e == [t[p] EXCEPT !.reputation = @ + 1]
    <3>1. u[p] = e
      BY <1>1, <2>2 DEF Rewarded
    <3>2. e \in Entry /\ e.state = t[p].state /\ e.trusted = t[p].trusted /\ e.reputation = t[p].reputation + 1
      BY <2>1 DEF Entry
    <3> HIDE DEF e
    <3> QED
      BY <2>1, <3>1, <3>2 DEF IsBanned, BannedReputation
  <2>3. CASE p \notin R
    BY <1>1, <2>1, <2>3 DEF Rewarded
  <2> QED
    BY <2>2, <2>3
<1>5. u = [p \in DOMAIN t |-> u[p]]
  BY <1>1 DEF Rewarded
<1>6. TableOf(u)
  BY <1>2, <1>3, <1>4, <1>5 DEF TableOf
<1>7. SlotsTyped(u, n, act, dl, cl)
  BY <1>2, <1>6 DEF SlotsTyped
<1>8. ASSUME NEW p \in SlotPeers
      PROVE  PeerSound(p, u, ban \ Recoveries(t, u), act, dl, cl)
  <2>1. PeerSound(p, t, ban, act, dl, cl)
    BY DEF SlotsHold
  <2>2. CASE p \in DOMAIN t
    <3>1. p \in ban \ Recoveries(t, u) => IsBanned(u[p])
      BY <2>1, <2>2 DEF PeerSound, Recoveries
    <3>2. PlainErrors \/ (IsBanned(u[p]) => p \in ban \ Recoveries(t, u))
      BY <1>4, <2>1, <2>2 DEF PeerSound, Recoveries
    <3>3. u[p].state = t[p].state /\ u[p].trusted = t[p].trusted
      BY <1>4, <2>2
    <3> QED
      BY <1>3, <2>1, <2>2, <3>1, <3>2, <3>3 DEF PeerSound
  <2>3. CASE p \notin DOMAIN t
    BY <1>3, <2>1, <2>3 DEF PeerSound
  <2> QED
    BY <2>2, <2>3
<1>9. \A C : Slots(u, C) = Slots(t, C)
  BY <1>3, <1>4 DEF Slots
<1>10. Counted(t, n) => Counted(u, n)
  BY <1>9 DEF Counted
<1> QED
  BY <1>3, <1>4, <1>7, <1>8, <1>10 DEF SlotsHold

(***************************************************************************)
(* The end of a handler keeps what holds, and no peer on the ban list is   *)
(* dialled.                                                                *)
(***************************************************************************)
LEMMA CarryIsRight ==
  ASSUME NEW t, NEW n, NEW fill \in BOOLEAN, NEW drop, NEW act, NEW dials, NEW back,
         SlotsHold(t, n, banned' \ back, act, dials, ToldToEnd(act, drop)),
         CarryFrom(t, n, fill, drop, act, dials, back)
  PROVE  /\ SlotsHold(entries', num', Listed', active', dialing', closing')
         /\ \A p \in SlotPeers : dialing'[p] > dials[p] => p \notin Listed'
<1>1. PICK u \in IF fill THEN Ticked(t) ELSE {t} : \E S \in IF fill THEN Filled(u, n) ELSE {{}} :
             /\ entries' = DialedIn(u, S) /\ num' = [n EXCEPT !.pout = @ + Cardinality(S)]
             /\ dialing' = Dialed(dials, S) /\ active' = act /\ closing' = ToldToEnd(act, drop)
             /\ recovered' = back \cup Recoveries(t, u)
  BY Zenon DEF CarryFrom, DialedIn
<1> DEFINE left == (banned' \ back) \ Recoveries(t, u)
<1>2. SlotsHold(u, n, left, act, dials, ToldToEnd(act, drop))
  <2>1. CASE fill
    BY <1>1, <2>1, TickIsRight
  <2>2. CASE ~fill
    <3>1. u = t
      BY <1>1, <2>2
    <3>2. left = banned' \ back
      BY <3>1 DEF Recoveries
    <3> QED
      BY <3>1, <3>2
  <2> QED
    BY <2>1, <2>2
<1>3. Listed' = left
  BY <1>1 DEF Listed
<1> HIDE DEF left
<1>4. PICK S \in IF fill THEN Filled(u, n) ELSE {{}} :
             /\ entries' = DialedIn(u, S) /\ num' = [n EXCEPT !.pout = @ + Cardinality(S)]
             /\ dialing' = Dialed(dials, S) /\ active' = act /\ closing' = ToldToEnd(act, drop)
  BY <1>1
<1>5. S \subseteq Unconnected(u)
  BY <1>4 DEF Filled
<1>6. SlotsTyped(u, n, act, dials, closing') /\ TableOf(u) /\ n \in Info /\ dials \in [SlotPeers -> Nat]
  BY <1>2, <1>4 DEF SlotsHold, SlotsTyped
<1>7. /\ TableOf(entries') /\ DOMAIN entries' = DOMAIN u
      /\ \A p \in DOMAIN u \ S : entries'[p] = u[p]
      /\ \A p \in S : /\ p \in DOMAIN u /\ u[p].state = "Idle" /\ ~IsBanned(u[p]) /\ entries'[p].state = "PendingOut"
                      /\ entries'[p].reputation = u[p].reputation /\ entries'[p].trusted = u[p].trusted
  BY <1>4, <1>5, <1>6, DialedEntries
<1>8. /\ dialing' \in [SlotPeers -> Nat] /\ \A p \in SlotPeers \ S : dialing'[p] = dials[p]
      /\ \A p \in SlotPeers : dialing'[p] >= dials[p] /\ (p \in S => dialing'[p] = dials[p] + 1)
  BY <1>4, <1>6 DEF Dialed
<1>9. S \subseteq SlotPeers /\ IsFiniteSet(S) /\ Cardinality(S) \in Nat
  <2>1. S \subseteq SlotPeers
    BY <1>6, <1>7 DEF TableOf
  <2> QED
    BY <2>1, ConnectionsAssumption, FS_Subset, FS_CardinalityType
<1>10. num' \in Info
  BY <1>4, <1>6, <1>9 DEF Info
<1>11. SlotsTyped(entries', num', active', dialing', closing')
  BY <1>4, <1>6, <1>7, <1>8, <1>10 DEF SlotsTyped
<1>12. ASSUME NEW p \in SlotPeers
      PROVE  PeerSound(p, entries', left, active', dialing', closing') /\ (dialing'[p] > dials[p] => p \notin left)
  <2>1. PeerSound(p, u, left, act, dials, closing')
    BY <1>2, <1>4 DEF SlotsHold
  <2>2. CASE p \notin S
    <3>1. dialing'[p] = dials[p] /\ dials[p] \in Nat /\ (p \in DOMAIN u => entries'[p] = u[p])
      BY <1>6, <1>7, <1>8, <2>2
    <3> QED
      BY <1>4, <1>7, <2>1, <3>1 DEF PeerSound
  <2>3. CASE p \in S
    <3>1. /\ p \in DOMAIN u /\ u[p].state = "Idle" /\ ~IsBanned(u[p]) /\ entries'[p].state = "PendingOut"
          /\ entries'[p].reputation = u[p].reputation /\ entries'[p].trusted = u[p].trusted
      BY <1>7, <2>3
    <3>2. p \notin left /\ ~IsBanned(entries'[p]) /\ (entries'[p].trusted => p \in Trusted)
      BY <2>1, <3>1 DEF PeerSound, IsBanned
    <3>3. dials[p] \in Nat /\ dialing'[p] = dials[p] + 1
      BY <1>6, <1>8, <2>3
    <3>4. act[p] \in {"none", "In", "Out"}
      BY <1>6 DEF SlotsTyped
    <3>5. (p \in closing' => act[p] # "none") /\ (LateDial \/ p \in closing' \/ act[p] = "none")
      BY <2>1, <3>1, <3>4 DEF PeerSound, Disconnecting
    <3>6. dialing'[p] > 0
      BY <3>3
    <3> QED
      BY <1>4, <1>7, <3>1, <3>2, <3>5, <3>6 DEF PeerSound, Ins, Outs
  <2> QED
    BY <2>2, <2>3
<1>13. RemoveTwice \/ PlainErrors \/ Counted(entries', num')
  <2>1. RemoveTwice \/ PlainErrors \/ Counted(u, n)
    BY <1>2 DEF SlotsHold
  <2>2. Counted(u, n) => Counted(entries', num')
    BY <1>4, <1>5, <1>6, DialedCounted
  <2> QED
    BY <2>1, <2>2
<1>14. LateDial \/ RemoveTwice \/ PlainErrors \/ Cardinality(Guests(active', closing')) <= MaxInbound
  BY <1>2, <1>4 DEF SlotsHold
<1> QED
  BY <1>11, <1>12, <1>13, <1>14, <1>3 DEF SlotsHold

-----------------------------------------------------------------------------
(***************************************************************************)
(* A guest more than before had room: the guests of before all hold a slot *)
(* of an incoming session, and these are counted.                          *)
(***************************************************************************)
LEMMA GuestsHoldSlots ==
  ASSUME NEW t, NEW ban, SlotsHold(t, num, ban, active, dialing, closing), ~LateDial, Counted(t, num)
  PROVE  /\ IsFiniteSet(Guests(active, closing)) /\ Cardinality(Guests(active, closing)) \in Nat
         /\ Cardinality(Guests(active, closing)) <= num.inb /\ num.inb \in Nat
<1> DEFINE G == Guests(active, closing)
<1>1. TableOf(t)
  BY DEF SlotsHold, SlotsTyped
<1>2. G \subseteq Slots(t, Ins)
  <2> SUFFICES ASSUME NEW q \in G
               PROVE  q \in Slots(t, Ins)
    OBVIOUS
  <2>1. q \in SlotPeers /\ q \notin closing /\ active[q] = "In"
    BY DEF Guests
  <2>2. PeerSound(q, t, ban, active, dialing, closing)
    BY <2>1 DEF SlotsHold
  <2> QED
    BY <2>1, <2>2 DEF PeerSound, Slots, Ins, Disconnecting
<1>3. IsFiniteSet(Slots(t, Ins)) /\ Cardinality(Slots(t, Ins)) \in Nat
  BY <1>1, SlotsFinite
<1> HIDE DEF G
<1>4. IsFiniteSet(G) /\ Cardinality(G) \in Nat /\ Cardinality(G) <= Cardinality(Slots(t, Ins))
  BY <1>2, <1>3, FS_Subset, FS_CardinalityType
<1> QED
  BY <1>3, <1>4 DEF G, Counted

(***************************************************************************)
(* What holds still holds when one peer is changed and that peer is sound. *)
(***************************************************************************)
LEMMA PeerChanged ==
  ASSUME NEW s, NEW old, SlotsHold(s, num, old, active, dialing, closing), NEW p \in SlotPeers, NEW t, NEW n, NEW ban, NEW act, NEW dl, NEW cl,
         SlotsTyped(t, n, act, dl, cl), SameBut(p, s, t),
         \A q \in SlotPeers \ {p} : /\ (q \in ban <=> q \in old) /\ (q \in cl <=> q \in closing)
                                    /\ act[q] = active[q] /\ dl[q] = dialing[q],
         PeerSound(p, t, ban, act, dl, cl),
         RemoveTwice \/ PlainErrors \/ Moved(num, n, StateOf(s, p), StateOf(t, p)),
         p \in Guests(act, cl) => p \in Guests(active, closing) \/ num.inb < MaxInbound
  PROVE  SlotsHold(t, n, ban, act, dl, cl)
<1>1. /\ SlotsTyped(s, num, active, dialing, closing) /\ TableOf(s) /\ num \in Info
      /\ TableOf(t) /\ n \in Info
  BY SMTT(90) DEF SlotsHold, SlotsTyped
<1>2. ASSUME NEW q \in SlotPeers, q # p
      PROVE  PeerSound(q, t, ban, act, dl, cl)
  <2>1. PeerSound(q, s, old, active, dialing, closing)
    BY DEF SlotsHold
  <2>2. (q \in DOMAIN s <=> q \in DOMAIN t) /\ (q \in DOMAIN s => s[q] = t[q])
    BY <1>2 DEF SameBut
  <2>3. (q \in ban <=> q \in old) /\ (q \in cl <=> q \in closing) /\ act[q] = active[q] /\ dl[q] = dialing[q]
    BY <1>2
  <2> QED
    BY SMTT(90), <2>1, <2>2, <2>3 DEF PeerSound
<1>3. RemoveTwice \/ PlainErrors \/ Counted(t, n)
  <2>1. RemoveTwice \/ PlainErrors \/ Counted(s, num)
    BY DEF SlotsHold
  <2>2. Counted(s, num) /\ Moved(num, n, StateOf(s, p), StateOf(t, p)) => Counted(t, n)
    BY <1>1, CountersMoved
  <2> QED
    BY <2>1, <2>2
<1>4. ASSUME ~LateDial, ~RemoveTwice, ~PlainErrors
      PROVE  Cardinality(Guests(act, cl)) <= MaxInbound
  <2> DEFINE G == Guests(active, closing)
             H == Guests(act, cl)
  <2>1. Counted(s, num) /\ Cardinality(G) <= MaxInbound
    BY <1>4 DEF SlotsHold
  <2>2. IsFiniteSet(G) /\ Cardinality(G) \in Nat /\ Cardinality(G) <= num.inb /\ num.inb \in Nat
    BY <1>4, <2>1, GuestsHoldSlots
  <2>3. H \ {p} \subseteq G
    BY DEF Guests
  <2>4. MaxInbound \in Nat
    BY ConnectionsAssumption
  <2>5. CASE p \in H => p \in G
    <3>1. H \subseteq G
      BY <2>3, <2>5
    <3> HIDE DEF G, H
    <3>2. Cardinality(H) <= Cardinality(G) /\ Cardinality(H) \in Nat
      BY SMTT(90), <2>2, <3>1, FS_Subset, FS_CardinalityType
    <3> QED
      BY SMTT(90), <2>1, <2>2, <2>4, <3>2 DEF H
  <2>6. CASE num.inb < MaxInbound
    <3>1. H \subseteq G \cup {p}
      BY <2>3
    <3> HIDE DEF G, H
    <3>2. IsFiniteSet(G \cup {p}) /\ Cardinality(G \cup {p}) = IF p \in G THEN Cardinality(G) ELSE Cardinality(G) + 1
      BY <2>2, FS_AddElement
    <3>3. Cardinality(H) <= Cardinality(G \cup {p}) /\ Cardinality(H) \in Nat
      BY <3>1, <3>2, FS_Subset, FS_CardinalityType
    <3>4. Cardinality(G \cup {p}) <= Cardinality(G) + 1 /\ Cardinality(G \cup {p}) \in Nat
      BY <2>2, <3>2
    <3> QED
      BY <2>2, <2>4, <2>6, <3>3, <3>4 DEF H
  <2> QED
    BY <2>5, <2>6
<1>5. \A q \in SlotPeers : PeerSound(q, t, ban, act, dl, cl)
  BY <1>2
<1> QED
  BY <1>3, <1>4, <1>5 DEF SlotsHold

(***************************************************************************)
(* A handler that changes one peer and then carries out what it queued.    *)
(***************************************************************************)

\* What a handler leaves to be carried out: it changed the table s at p only, to t,
\* and p is sound in t.
Handled(p, s, old, t, n, drop, act, dials, ban) ==
  /\ TableOf(t) /\ n \in Info /\ act \in [SlotPeers -> {"none", "In", "Out"}] /\ dials \in [SlotPeers -> Nat]
  /\ drop \in SUBSET {p} /\ SameBut(p, s, t) /\ dials[p] <= dialing[p]
  /\ \A q \in SlotPeers \ {p} : (q \in ban <=> q \in old) /\ act[q] = active[q] /\ dials[q] = dialing[q]
  /\ PeerSound(p, t, ban, act, dials, ToldToEnd(act, drop))
  /\ RemoveTwice \/ PlainErrors \/ Moved(num, n, StateOf(s, p), StateOf(t, p))
  /\ p \in Guests(act, ToldToEnd(act, drop)) => p \in Guests(active, closing) \/ num.inb < MaxInbound

\* Such a handler keeps what holds.
LEMMA HandledFrom ==
  ASSUME NEW s, NEW old, SlotsHold(s, num, old, active, dialing, closing),
         NEW p \in SlotPeers, NEW t, NEW n, NEW fill \in BOOLEAN, NEW drop, NEW act, NEW dials, NEW back,
         Handled(p, s, old, t, n, drop, act, dials, Left(back)),
         CarryFrom(t, n, fill, drop, act, dials, back)
  PROVE  SlotsInv' /\ BannedNotDialed
<1> DEFINE cl == ToldToEnd(act, drop)
           ban == Left(back)
<1>1. /\ closing \subseteq SlotPeers /\ dialing \in [SlotPeers -> Nat]
      /\ \A q \in SlotPeers : q \in closing => active[q] # "none"
  BY DEF SlotsHold, SlotsTyped, PeerSound
<1>2. cl \subseteq SlotPeers /\ \A q \in SlotPeers \ {p} : q \in cl <=> q \in closing
  BY <1>1 DEF ToldToEnd, Handled
<1>3. PeerSound(p, t, ban, act, dials, cl) /\ (p \in Guests(act, cl) => p \in Guests(active, closing) \/ num.inb < MaxInbound)
  BY Zenon DEF Handled
<1> HIDE DEF cl, ban
<1>4. \A q \in SlotPeers \ {p} : /\ (q \in ban <=> q \in old) /\ (q \in cl <=> q \in closing)
                                 /\ act[q] = active[q] /\ dials[q] = dialing[q]
  BY <1>2 DEF Handled, ban
<1>5. SlotsTyped(t, n, act, dials, cl) /\ SameBut(p, s, t)
  BY SMTT(120), <1>2 DEF SlotsTyped, Handled
<1>6. RemoveTwice \/ PlainErrors \/ Moved(num, n, StateOf(s, p), StateOf(t, p))
  BY Zenon DEF Handled
<1>7. SlotsHold(t, n, ban, act, dials, cl)
  BY ZenonT(60), <1>3, <1>4, <1>5, <1>6, PeerChanged
<1>8. SlotsHold(t, n, banned' \ back, act, dials, ToldToEnd(act, drop))
  BY <1>7 DEF cl, ban, Left
<1>9. /\ SlotsHold(entries', num', Listed', active', dialing', closing')
      /\ \A q \in SlotPeers : dialing'[q] > dials[q] => q \notin Listed'
  BY ZenonT(60), <1>8, CarryIsRight
<1>10. dialing' \in [SlotPeers -> Nat]
  BY <1>9 DEF SlotsHold, SlotsTyped
<1>11. \A q \in SlotPeers : dials[q] <= dialing[q] /\ dials[q] \in Nat /\ dialing[q] \in Nat /\ dialing'[q] \in Nat
  BY SMTT(120), <1>1, <1>10 DEF Handled
<1>12. \A q \in SlotPeers : dialing'[q] > dialing[q] => q \notin Listed'
  BY <1>9, <1>11
<1> QED
  BY SMTT(120), <1>9, <1>12 DEF SlotsInv, BannedNotDialed

\* The same of a handler that starts from the table of the state.
LEMMA HandledAt ==
  ASSUME SlotsInv, NEW p \in SlotPeers, NEW t, NEW n, NEW fill \in BOOLEAN, NEW drop \in SUBSET {p}, NEW act, NEW dials,
         TableOf(t), n \in Info, act \in [SlotPeers -> {"none", "In", "Out"}], dials \in [SlotPeers -> Nat],
         SameBut(p, entries, t), dials[p] <= dialing[p],
         \A q \in SlotPeers \ {p} : (q \in Left(recovered) <=> q \in Listed) /\ act[q] = active[q] /\ dials[q] = dialing[q],
         PeerSound(p, t, Left(recovered), act, dials, ToldToEnd(act, drop)),
         RemoveTwice \/ PlainErrors \/ Moved(num, n, StateOf(entries, p), StateOf(t, p)),
         p \in Guests(act, ToldToEnd(act, drop)) => p \in Guests(active, closing) \/ num.inb < MaxInbound,
         Carry(t, n, fill, drop, act, dials)
  PROVE  SlotsInv' /\ BannedNotDialed
<1>1. SlotsHold(entries, num, Listed, active, dialing, closing)
  BY DEF SlotsInv
<1>2. Handled(p, entries, Listed, t, n, drop, act, dials, Left(recovered))
  BY Zenon DEF Handled
<1>3. CarryFrom(t, n, fill, drop, act, dials, recovered)
  BY DEF Carry
<1> QED
  BY ZenonT(60), <1>1, <1>2, <1>3, HandledFrom

-----------------------------------------------------------------------------
(***************************************************************************)
(* The table with one entry set, added or removed.                         *)
(***************************************************************************)
LEMMA EntrySet ==
  ASSUME NEW t, TableOf(t), NEW p \in DOMAIN t, NEW e \in Entry
  PROVE  LET u == [t EXCEPT ![p] = e] IN TableOf(u) /\ SameBut(p, t, u) /\ p \in DOMAIN u /\ u[p] = e
BY DEF TableOf, SameBut

\* Adding an entry changes the table at that peer only.
LEMMA EntryAdded ==
  ASSUME NEW t, TableOf(t), NEW p \in SlotPeers, NEW e \in Entry
  PROVE  LET u == WithPeer(t, p, e) IN TableOf(u) /\ SameBut(p, t, u) /\ p \in DOMAIN u /\ u[p] = e
BY DEF TableOf, SameBut, WithPeer

\* Removing an entry changes the table at that peer only.
LEMMA EntryRemoved ==
  ASSUME NEW t, TableOf(t), NEW p \in SlotPeers
  PROVE  LET u == WithoutPeer(t, p) IN TableOf(u) /\ SameBut(p, t, u) /\ p \notin DOMAIN u
BY DEF TableOf, SameBut, WithoutPeer

(***************************************************************************)
(* decr_state takes the counter of the slot back.                          *)
(***************************************************************************)
LEMMA DecrMoves ==
  ASSUME NEW n \in Info, NEW s \in States
  PROVE  DecrState(n, s) \in Info /\ Moved(n, DecrState(n, s), s, "Idle")
<1>1. CASE s = "Idle"
  BY <1>1 DEF DecrState, Moved, Info, One, Ins, Outs
<1>2. CASE s \in Ins
  BY <1>2 DEF DecrState, Moved, Info, One, Ins, Outs
<1>3. CASE s \in Outs
  BY <1>3 DEF DecrState, Moved, Info, One, Ins, Outs
<1>4. CASE s = "PendingOut"
  BY <1>4 DEF DecrState, Moved, Info, One, Ins, Outs
<1> QED
  BY <1>1, <1>2, <1>3, <1>4 DEF States, Ins, Outs

\* A peer that stays in its kind of slot moves no counter.
LEMMA NotMoved ==
  ASSUME NEW m, NEW n, m.pout = n.pout, m.out = n.out, m.inb = n.inb,
         NEW r, NEW s, r = s \/ {r, s} \subseteq Ins \/ {r, s} \subseteq Outs
  PROVE  Moved(m, n, r, s)
<1>1. (r = "PendingOut" <=> s = "PendingOut") /\ (r \in Outs <=> s \in Outs) /\ (r \in Ins <=> s \in Ins)
  BY DEF Ins, Outs
<1> QED
  BY <1>1 DEF Moved, One

(***************************************************************************)
(* What the invariant says of one peer.                                    *)
(***************************************************************************)
LEMMA SlotsAt ==
  ASSUME NEW s, NEW old, SlotsHold(s, num, old, active, dialing, closing), NEW p \in SlotPeers
  PROVE  /\ TableOf(s) /\ num \in Info /\ active \in [SlotPeers -> {"none", "In", "Out"}]
         /\ dialing \in [SlotPeers -> Nat] /\ closing \subseteq SlotPeers
         /\ PeerSound(p, s, old, active, dialing, closing)
         /\ p \in DOMAIN s => s[p] \in Entry /\ s[p].state \in States
         /\ StateOf(s, p) \in States
BY DEF SlotsHold, SlotsTyped, TableOf, Entry, StateOf, States

\* The same of the state.
LEMMA SlotsOf ==
  ASSUME SlotsInv, NEW p \in SlotPeers
  PROVE  /\ TableOf(entries) /\ num \in Info /\ active \in [SlotPeers -> {"none", "In", "Out"}]
         /\ dialing \in [SlotPeers -> Nat] /\ closing \subseteq SlotPeers
         /\ PeerSound(p, entries, Listed, active, dialing, closing)
         /\ p \in DOMAIN entries => entries[p] \in Entry /\ entries[p].state \in States
         /\ StateOf(entries, p) \in States
BY Zenon, SlotsAt DEF SlotsInv

\* Who is told to end its session: who was before or is now, if it has one.
LEMMA ToldAt ==
  ASSUME NEW p, NEW act, NEW drop
  PROVE  p \in ToldToEnd(act, drop) <=> (p \in closing \/ p \in drop) /\ act[p] # "none"
BY DEF ToldToEnd

\* A session that has just begun, in its slot, of a peer that is not banned.
LEMMA FreshSession ==
  ASSUME NEW p, NEW t, NEW ban, NEW act, NEW dl, NEW cl, p \in DOMAIN t, act[p] \in {"In", "Out"}, t[p].state = act[p],
         p \notin ban, ~IsBanned(t[p]), t[p].trusted => p \in Trusted
  PROVE  PeerSound(p, t, ban, act, dl, cl)
<1>1. act[p] # "none" /\ t[p].state \notin {"DisconnectingIn", "DisconnectingOut", "PendingOut"}
  OBVIOUS
<1> QED
  BY Zenon, <1>1 DEF PeerSound

-----------------------------------------------------------------------------
(***************************************************************************)
(* on_connection_failure, of a peer whose session has ended or that has    *)
(* none, unless a dial may fail late.                                      *)
(***************************************************************************)
LEMMA FailureIsRight ==
  ASSUME SlotsInv, NEW p \in SlotPeers, NEW err \in {"fatal", "plain", "backoff", "severe"}, err = "plain" => PlainErrors,
         NEW act \in [SlotPeers -> {"none", "In", "Out"}], NEW dials \in [SlotPeers -> Nat],
         \A q \in SlotPeers \ {p} : act[q] = active[q] /\ dials[q] = dialing[q],
         act[p] = "none" \/ (LateDial /\ act[p] = active[p]), dials[p] <= dialing[p],
         Failure(p, err, act, dials)
  PROVE  SlotsInv' /\ BannedNotDialed
<1> DEFINE cl == ToldToEnd(act, {})
<1>1. /\ TableOf(entries) /\ num \in Info /\ StateOf(entries, p) \in States
      /\ PeerSound(p, entries, Listed, active, dialing, closing)
      /\ p \in DOMAIN entries => entries[p] \in Entry /\ entries[p].state \in States
  BY SlotsOf
<1>2. p \in cl <=> p \in closing /\ act[p] # "none"
  BY ToldAt
<1>3. p \in Guests(act, cl) => p \in Guests(active, closing) \/ num.inb < MaxInbound
  BY SMTT(90), <1>2 DEF Guests
<1> HIDE DEF cl
<1>4. ASSUME NEW t, NEW n, NEW back, TableOf(t), n \in Info, SameBut(p, entries, t),
             CarryFrom(t, n, TRUE, {}, act, dials, back),
             StateOf(t, p) = "Idle", Moved(num, n, StateOf(entries, p), "Idle"),
             \A q \in SlotPeers \ {p} : q \in Left(back) <=> q \in Listed,
             p \in DOMAIN t => /\ p \in Left(back) => IsBanned(t[p])
                               /\ PlainErrors \/ (IsBanned(t[p]) => p \in Left(back))
                               /\ t[p].trusted => p \in Trusted
      PROVE  SlotsInv' /\ BannedNotDialed
  <2>1. PeerSound(p, t, Left(back), act, dials, cl)
    <3>1. p \in DOMAIN t => t[p].state = "Idle"
      BY <1>4 DEF StateOf
    <3>2. p \in DOMAIN t => /\ t[p].state \notin Ins \cup Outs /\ t[p].state # "PendingOut"
                            /\ t[p].state \notin {"DisconnectingIn", "DisconnectingOut"}
      BY <3>1 DEF Ins, Outs
    <3>3. LateDial \/ p \in cl \/ act[p] = "none"
      OBVIOUS
    <3>4. p \in cl => act[p] # "none"
      BY SMTT(90), <1>2
    <3>5. p \in DOMAIN t => /\ p \in Left(back) => IsBanned(t[p])
                            /\ PlainErrors \/ (IsBanned(t[p]) => p \in Left(back))
                            /\ t[p].trusted => p \in Trusted
      BY <1>4
    <3> QED
      BY Zenon, <3>2, <3>3, <3>4, <3>5 DEF PeerSound
  <2>2. TRUE \in BOOLEAN /\ {} \in SUBSET {p}
    OBVIOUS
  <2>3. RemoveTwice \/ PlainErrors \/ Moved(num, n, StateOf(entries, p), StateOf(t, p))
    BY SMTT(90), <1>4
  <2>4. \A q \in SlotPeers \ {p} : (q \in Left(back) <=> q \in Listed) /\ act[q] = active[q] /\ dials[q] = dialing[q]
    BY <1>4
  <2>5. /\ PeerSound(p, t, Left(back), act, dials, ToldToEnd(act, {}))
        /\ p \in Guests(act, ToldToEnd(act, {})) => p \in Guests(active, closing) \/ num.inb < MaxInbound
    BY SMTT(90), <1>3, <2>1 DEF cl
  <2>6. SlotsHold(entries, num, Listed, active, dialing, closing)
    BY DEF SlotsInv
  <2>7. Handled(p, entries, Listed, t, n, {}, act, dials, Left(back)) /\ CarryFrom(t, n, TRUE, {}, act, dials, back)
    BY Zenon, <1>4, <2>2, <2>3, <2>4, <2>5 DEF Handled
  <2> QED
    BY ZenonT(60), <2>2, <2>6, <2>7, HandledFrom
<1>5. CASE err = "fatal"
  <2> DEFINE t == WithoutPeer(entries, p)
             n == IF p \in DOMAIN entries THEN DecrState(num, entries[p].state) ELSE num
  <2>1. CarryFrom(t, n, TRUE, {}, act, dials, recovered \ {p}) /\ banned' = banned \cup {p}
    BY Zenon, <1>5 DEF Failure
  <2>5. \A q \in SlotPeers \ {p} : q \in Left(recovered \ {p}) <=> q \in Listed
    BY <2>1 DEF Listed, Left
  <2>2. n \in Info /\ Moved(num, n, StateOf(entries, p), "Idle")
    BY ZenonT(120), <1>1, DecrMoves, NotMoved DEF StateOf
  <2>3. TableOf(t) /\ SameBut(p, entries, t) /\ p \notin DOMAIN t
    BY <1>1, EntryRemoved
  <2>4. StateOf(t, p) = "Idle"
    BY <2>3 DEF StateOf
  <2> HIDE DEF t, n
  <2> QED
    BY Zenon, <1>4, <2>1, <2>2, <2>3, <2>4, <2>5
<1>6. CASE err # "fatal" /\ p \notin DOMAIN entries
  <2>1. CarryFrom(entries, num, TRUE, {}, act, dials, recovered) /\ Left(recovered) = Listed
    BY ZenonT(60), <1>6 DEF Failure, Carry, Listed, Left
  <2>2. StateOf(entries, p) = "Idle" /\ Moved(num, num, StateOf(entries, p), "Idle") /\ SameBut(p, entries, entries)
    BY Zenon, <1>6, NotMoved DEF StateOf, SameBut
  <2> QED
    BY Zenon, <1>1, <1>4, <1>6, <2>1, <2>2
<1>7. CASE err # "fatal" /\ p \in DOMAIN entries
  <2> DEFINE old == entries[p]
             severe == IF err = "severe" /\ old.severe <= MaxBackoffs THEN old.severe + 1 ELSE old.severe
             gone == severe > MaxBackoffs /\ ~old.trusted
             backed == old.backed \/ err # "plain"
             reputation == IF err = "plain" /\ old.reputation > BannedReputation THEN old.reputation - 1 ELSE old.reputation
             new == [old EXCEPT !.state = "Idle", !.severe = severe, !.backed = backed, !.reputation = reputation]
             n == DecrState(num, old.state)
             t == IF gone THEN WithoutPeer(entries, p) ELSE [entries EXCEPT ![p] = new]
  <2>1. CarryFrom(t, n, TRUE, {}, act, dials, recovered) /\ Left(recovered) = Listed
    BY Zenon, <1>7 DEF Failure, Carry, Listed, Left
  <2>2. n \in Info /\ Moved(num, n, StateOf(entries, p), "Idle")
    BY <1>1, <1>7, DecrMoves DEF StateOf
  <2>3. /\ new \in Entry /\ new.state = "Idle" /\ new.trusted = old.trusted
        /\ (IsBanned(old) => IsBanned(new)) /\ (err # "plain" => new.reputation = old.reputation)
    <3>1. old \in Entry
      BY <1>1, <1>7
    <3> HIDE DEF old
    <3>2. /\ severe \in Int /\ reputation \in Int
          /\ (old.reputation <= BannedReputation => reputation <= BannedReputation)
          /\ (err # "plain" => reputation = old.reputation)
      BY <3>1 DEF Entry, BannedReputation
    <3>3. backed \in BOOLEAN
      BY Zenon
    <3> HIDE DEF severe, backed, reputation
    <3>4. /\ new \in Entry /\ new.state = "Idle" /\ new.trusted = old.trusted /\ new.reputation = reputation
      BY Zenon, <3>1, <3>2, <3>3 DEF Entry, States
    <3> QED
      BY <3>2, <3>4 DEF IsBanned
  <2>4. PlainErrors \/ (IsBanned(new) => IsBanned(old))
    BY <2>3 DEF IsBanned
  <2> HIDE DEF new, gone, n
  <2>5. TableOf(t) /\ SameBut(p, entries, t) /\ (p \in DOMAIN t => t[p] = new)
    BY SMTT(120), <1>1, <1>7, <2>3, EntryRemoved, EntrySet
  <2> HIDE DEF t
  <2>6. StateOf(t, p) = "Idle"
    BY SMTT(90), <2>3, <2>5 DEF StateOf
  <2>7. /\ p \in Listed => IsBanned(new)
        /\ PlainErrors \/ (IsBanned(new) => p \in Listed)
        /\ new.trusted => p \in Trusted
    BY SMTT(90), <1>1, <1>7, <2>3, <2>4 DEF PeerSound
  <2> QED
    BY Zenon, <1>4, <2>1, <2>2, <2>5, <2>6, <2>7
<1> QED
  BY SMTT(90), <1>5, <1>6, <1>7

(***************************************************************************)
(* An incoming session of a peer that has none.                            *)
(***************************************************************************)
LEMMA OnIncomingIsRight ==
  ASSUME SlotsInv, NEW p \in SlotPeers, active[p] = "none", OnIncoming(p), banned' = banned
  PROVE  SlotsInv' /\ BannedNotDialed
<1> DEFINE hadRoom == num.inb < MaxInbound
           n == [num EXCEPT !.pin = @ - 1, !.inb = @ + 1]
           act == [active EXCEPT ![p] = "In"]
<1>0. PICK s, old, back :
        /\ SlotsHold(s, num, old, active, dialing, closing) /\ old = Left(back)
        /\ IF p \in banned THEN CarryFrom(s, [num EXCEPT !.pin = @ - 1], FALSE, {p}, act, dialing, back)
           ELSE IF p \notin DOMAIN s
           THEN CarryFrom(WithPeer(s, p, [NewPeer("In", FALSE) EXCEPT !.remove = TRUE]), n, FALSE,
                          IF hadRoom \/ p \in Trusted THEN {} ELSE {p}, act, dialing, back)
           ELSE IF IsBanned(s[p]) THEN CarryFrom(s, n, FALSE, {p}, act, dialing, back)
           ELSE CarryFrom([s EXCEPT ![p].state = "In"],
                          IF s[p].state = "PendingOut" THEN DecrState(n, "PendingOut") ELSE n, FALSE,
                          IF hadRoom \/ p \in Trusted \/ s[p].trusted THEN {} ELSE {p}, act, dialing, back)
  <2>1. SlotsHold(entries, num, Listed, active, dialing, closing)
    BY DEF SlotsInv
  <2>2. CASE p \in banned
    <3>1. Listed = Left(recovered)
      BY DEF Listed, Left
    <3>2. CarryFrom(entries, [num EXCEPT !.pin = @ - 1], FALSE, {p}, act, dialing, recovered)
      BY Zenon, <2>2 DEF OnIncoming, Carry, act
    <3> HIDE DEF act, n
    <3> QED
      BY Zenon, <2>1, <2>2, <3>1, <3>2
  <2>3. CASE p \notin banned
    <3>1. PICK u \in Ticked(entries) :
            LET back == recovered \cup Recoveries(entries, u)
            IN  IF p \notin DOMAIN u
                THEN CarryFrom(WithPeer(u, p, [NewPeer("In", FALSE) EXCEPT !.remove = TRUE]), n, FALSE,
                               IF hadRoom \/ p \in Trusted THEN {} ELSE {p}, act, dialing, back)
                ELSE IF IsBanned(u[p]) THEN CarryFrom(u, n, FALSE, {p}, act, dialing, back)
                ELSE CarryFrom([u EXCEPT ![p].state = "In"],
                               IF u[p].state = "PendingOut" THEN DecrState(n, "PendingOut") ELSE n, FALSE,
                               IF hadRoom \/ p \in Trusted \/ u[p].trusted THEN {} ELSE {p}, act, dialing, back)
      BY Zenon, <2>3 DEF OnIncoming, act, n
    <3>2. SlotsHold(u, num, Listed \ Recoveries(entries, u), active, dialing, closing)
      BY Zenon, <2>1, TickIsRight
    <3>3. Listed \ Recoveries(entries, u) = Left(recovered \cup Recoveries(entries, u))
      BY DEF Listed, Left
    <3> HIDE DEF act, n, hadRoom
    <3> QED
      BY Zenon, <2>3, <3>1, <3>2, <3>3
  <2> QED
    BY Zenon, <2>2, <2>3
<1>1. /\ TableOf(s) /\ num \in Info /\ StateOf(s, p) \in States
      /\ active \in [SlotPeers -> {"none", "In", "Out"}] /\ dialing \in [SlotPeers -> Nat]
      /\ PeerSound(p, s, old, active, dialing, closing)
      /\ p \in DOMAIN s => s[p] \in Entry /\ s[p].state \in States
  BY Zenon, <1>0, SlotsAt
<1>2. act \in [SlotPeers -> {"none", "In", "Out"}] /\ act[p] = "In" /\ \A q \in SlotPeers \ {p} : act[q] = active[q]
  BY <1>1
<1>3. /\ n \in Info /\ n.pout = num.pout /\ n.out = num.out /\ n.inb = num.inb + 1
      /\ num.pout \in Int /\ num.out \in Int /\ num.inb \in Int
  <2>1. num.out \in Int /\ num.pout \in Int /\ num.inb \in Int /\ num.pin \in Int
    BY <1>1 DEF Info
  <2> DEFINE k == [num EXCEPT !.pin = @ - 1]
  <2>2. k \in Info /\ k.pout = num.pout /\ k.out = num.out /\ k.inb = num.inb
    BY <1>1 DEF Info
  <2>3. n = [k EXCEPT !.inb = num.inb + 1]
    BY <1>1 DEF Info
  <2> HIDE DEF k, n
  <2> QED
    BY <2>1, <2>2, <2>3 DEF Info
<1>4. /\ [num EXCEPT !.pin = @ - 1] \in Info /\ [num EXCEPT !.pin = @ - 1].pout = num.pout
      /\ [num EXCEPT !.pin = @ - 1].out = num.out /\ [num EXCEPT !.pin = @ - 1].inb = num.inb
  BY <1>1 DEF Info
<1>5. (p \notin DOMAIN s \/ s[p].state \in {"Idle", "PendingOut"}) /\ p \notin closing
  BY SMTT(90), <1>1 DEF PeerSound, States, Ins, Outs
<1>11. p \notin banned => p \notin old
  BY <1>0 DEF Left
<1> HIDE DEF act, n
<1>6. ASSUME NEW t, NEW m \in Info, NEW drop \in SUBSET {p}, TableOf(t), SameBut(p, s, t),
             CarryFrom(t, m, FALSE, drop, act, dialing, back),
             PeerSound(p, t, old, act, dialing, ToldToEnd(act, drop)),
             PlainErrors \/ Moved(num, m, StateOf(s, p), StateOf(t, p)),
             hadRoom \/ p \in Trusted \/ p \in drop
      PROVE  SlotsInv' /\ BannedNotDialed
  <2>1. p \in Guests(act, ToldToEnd(act, drop)) => p \in Guests(active, closing) \/ num.inb < MaxInbound
    BY <1>2, <1>6, ToldAt DEF Guests
  <2>2. \A q \in SlotPeers \ {p} : (q \in old <=> q \in old) /\ act[q] = active[q] /\ dialing[q] = dialing[q]
    BY <1>2
  <2>3. FALSE \in BOOLEAN /\ dialing[p] <= dialing[p] /\ PeerSound(p, t, old, act, dialing, ToldToEnd(act, drop))
    BY <1>1, <1>6
  <2>4. RemoveTwice \/ PlainErrors \/ Moved(num, m, StateOf(s, p), StateOf(t, p))
    BY <1>6
  <2>5. SlotsHold(s, num, old, active, dialing, closing) /\ old = Left(back)
    BY Zenon, <1>0
  <2>6. Handled(p, s, old, t, m, drop, act, dialing, old)
    BY Zenon, <1>1, <1>2, <1>6, <2>1, <2>2, <2>3, <2>4 DEF Handled
  <2>7. Handled(p, s, old, t, m, drop, act, dialing, Left(back))
    BY Zenon, <2>5, <2>6
  <2>8. CarryFrom(t, m, FALSE, drop, act, dialing, back)
    BY <1>6
  <2> QED
    BY ZenonT(60), <2>3, <2>5, <2>7, <2>8, HandledFrom
<1>7. CASE p \in banned
  <2>1. CarryFrom(s, [num EXCEPT !.pin = @ - 1], FALSE, {p}, act, dialing, back)
    BY Zenon, <1>0, <1>7
  <2>2. p \in ToldToEnd(act, {p})
    BY SMTT(90), <1>2, ToldAt
  <2>3. PeerSound(p, s, old, act, dialing, ToldToEnd(act, {p}))
    BY <1>1, <1>2, <2>2 DEF PeerSound
  <2>4. Moved(num, [num EXCEPT !.pin = @ - 1], StateOf(s, p), StateOf(s, p))
    BY Zenon, <1>4, NotMoved
  <2>5. SameBut(p, s, s) /\ {p} \in SUBSET {p}
    BY DEF SameBut
  <2> QED
    BY Zenon, <1>1, <1>4, <1>6, <2>1, <2>3, <2>4, <2>5
<1>8. CASE p \notin banned /\ p \notin DOMAIN s
  <2> DEFINE e == [NewPeer("In", FALSE) EXCEPT !.remove = TRUE]
             t == WithPeer(s, p, e)
             drop == IF hadRoom \/ p \in Trusted THEN {} ELSE {p}
  <2>1. CarryFrom(t, n, FALSE, drop, act, dialing, back)
    BY Zenon, <1>0, <1>8
  <2>2. e \in Entry /\ e.state = "In" /\ e.trusted = FALSE /\ ~IsBanned(e)
    <3> DEFINE d == NewPeer("In", FALSE)
    <3>1. d \in Entry /\ d.state = "In" /\ d.trusted = FALSE /\ d.reputation = 0
      BY DEF NewPeer, Entry, States, DefaultReputation
    <3> HIDE DEF d
    <3>2. [d EXCEPT !.remove = TRUE] \in Entry
      BY Zenon, <3>1 DEF Entry
    <3>3. LET f == [d EXCEPT !.remove = TRUE] IN f.state = d.state /\ f.trusted = d.trusted /\ f.reputation = d.reputation
      BY <3>1 DEF Entry
    <3>4. e = [d EXCEPT !.remove = TRUE]
      BY DEF d
    <3> HIDE DEF e
    <3> QED
      BY <3>1, <3>2, <3>3, <3>4 DEF IsBanned, BannedReputation
  <2> HIDE DEF e
  <2>3. TableOf(t) /\ SameBut(p, s, t) /\ p \in DOMAIN t /\ t[p] = e
    BY <1>1, <2>2, EntryAdded
  <2> HIDE DEF t
  <2>4. StateOf(t, p) = "In" /\ StateOf(s, p) = "Idle"
    BY <1>8, <2>2, <2>3 DEF StateOf
  <2>5. Moved(num, n, StateOf(s, p), StateOf(t, p))
    BY <1>3, <2>4 DEF Moved, One, Ins, Outs
  <2>6. drop \in SUBSET {p} /\ (hadRoom \/ p \in Trusted \/ p \in drop)
    OBVIOUS
  <2> HIDE DEF drop
  <2>7. PeerSound(p, t, old, act, dialing, ToldToEnd(act, drop))
    <3>1. act[p] \in {"In", "Out"} /\ t[p].state = act[p] /\ ~IsBanned(t[p]) /\ (t[p].trusted => p \in Trusted)
      BY Zenon, <1>2, <2>2, <2>3
    <3>2. p \in DOMAIN t /\ p \notin old
      BY Zenon, <1>8, <1>11, <2>3
    <3> QED
      BY Zenon, <3>1, <3>2, FreshSession
  <2> QED
    BY Zenon, <1>3, <1>6, <2>1, <2>3, <2>5, <2>6, <2>7
<1>9. CASE p \notin banned /\ p \in DOMAIN s /\ IsBanned(s[p])
  <2>1. CarryFrom(s, n, FALSE, {p}, act, dialing, back)
    BY ZenonT(120), <1>0, <1>9
  <2>2. p \in ToldToEnd(act, {p})
    BY <1>2, ToldAt
  <2>3. PeerSound(p, s, old, act, dialing, ToldToEnd(act, {p}))
    BY <1>1, <1>2, <2>2 DEF PeerSound
  <2>4. PlainErrors
    BY <1>1, <1>9, <1>11 DEF PeerSound
  <2>5. SameBut(p, s, s) /\ {p} \in SUBSET {p}
    BY DEF SameBut
  <2> QED
    BY Zenon, <1>1, <1>3, <1>6, <2>1, <2>3, <2>4, <2>5
<1>10. CASE p \notin banned /\ p \in DOMAIN s /\ ~IsBanned(s[p])
  <2> DEFINE e == [s[p] EXCEPT !.state = "In"]
             t == [s EXCEPT ![p] = e]
             m == IF s[p].state = "PendingOut" THEN DecrState(n, "PendingOut") ELSE n
             drop == IF hadRoom \/ p \in Trusted \/ s[p].trusted THEN {} ELSE {p}
  <2>1. CarryFrom(t, m, FALSE, drop, act, dialing, back)
    BY Zenon, <1>0, <1>10
  <2>2. e \in Entry /\ e.state = "In" /\ e.trusted = s[p].trusted /\ ~IsBanned(e)
    BY <1>1, <1>10 DEF Entry, States, IsBanned
  <2>3. e.trusted => p \in Trusted
    BY SMTT(120), <1>1, <1>10, <2>2 DEF PeerSound
  <2>4. m \in Info /\ Moved(num, m, StateOf(s, p), "In")
    <3>1. CASE s[p].state = "Idle"
      BY SMTT(90), <1>3, <1>10, <3>1 DEF StateOf, Moved, One, Ins, Outs
    <3>2. CASE s[p].state = "PendingOut"
      <4>1. m = [n EXCEPT !.pout = @ - 1]
        BY <3>2 DEF DecrState
      <4>2. m \in Info /\ m.pout = num.pout - 1 /\ m.out = num.out /\ m.inb = num.inb + 1
        BY <1>1, <1>3, <4>1 DEF Info
      <4> QED
        BY <1>1, <1>10, <3>2, <4>2 DEF StateOf, Moved, One, Ins, Outs, Info
    <3> QED
      BY SMTT(90), <1>5, <1>10, <3>1, <3>2
  <2>5. drop \in SUBSET {p} /\ (hadRoom \/ p \in Trusted \/ p \in drop)
    BY <2>2, <2>3
  <2> HIDE DEF e, m, drop
  <2>6. TableOf(t) /\ SameBut(p, s, t) /\ p \in DOMAIN t /\ t[p] = e
    BY ZenonT(60), <1>1, <1>10, <2>2, EntrySet
  <2> HIDE DEF t
  <2>7. StateOf(t, p) = "In"
    BY SMTT(120), <2>2, <2>6 DEF StateOf
  <2>8. PeerSound(p, t, old, act, dialing, ToldToEnd(act, drop))
    <3>1. act[p] \in {"In", "Out"} /\ t[p].state = act[p] /\ ~IsBanned(t[p]) /\ (t[p].trusted => p \in Trusted)
      BY Zenon, <1>2, <2>2, <2>3, <2>6
    <3>2. p \in DOMAIN t /\ p \notin old
      BY Zenon, <1>10, <1>11, <2>6
    <3> QED
      BY Zenon, <3>1, <3>2, FreshSession
  <2> QED
    BY Zenon, <1>6, <2>1, <2>4, <2>5, <2>6, <2>7, <2>8
<1> QED
  BY SMTT(90), <1>7, <1>8, <1>9, <1>10

(***************************************************************************)
(* The events of pending sessions.                                         *)
(***************************************************************************)
LEMMA OutgoingEstablishedIsRight ==
  ASSUME SlotsInv, NEW p \in SlotPeers, OutgoingEstablished(p)
  PROVE  SlotsInv' /\ BannedNotDialed
<1> DEFINE dials == [dialing EXCEPT ![p] = @ - 1]
           act == [active EXCEPT ![p] = "Out"]
<1>1. /\ TableOf(entries) /\ num \in Info /\ StateOf(entries, p) \in States
      /\ active \in [SlotPeers -> {"none", "In", "Out"}] /\ dialing \in [SlotPeers -> Nat]
      /\ PeerSound(p, entries, Listed, active, dialing, closing)
      /\ p \in DOMAIN entries => entries[p] \in Entry /\ entries[p].state \in States
  BY SlotsOf
<1>2. Left(recovered) = Listed /\ dialing[p] > 0 /\ ((p \notin DOMAIN entries /\ active[p] = "none") => LateDial)
  BY DEF OutgoingEstablished, Left, Listed
<1>3. dials \in [SlotPeers -> Nat] /\ dials[p] <= dialing[p] /\ \A q \in SlotPeers \ {p} : dials[q] = dialing[q]
  BY <1>1, <1>2
<1>4. act \in [SlotPeers -> {"none", "In", "Out"}] /\ act[p] = "Out" /\ \A q \in SlotPeers \ {p} : act[q] = active[q]
  BY <1>1
<1>5. FALSE \in BOOLEAN /\ {} \in SUBSET {p} /\ SameBut(p, entries, entries)
  BY DEF SameBut
<1> HIDE DEF dials, act
<1>6. CASE active[p] # "none"
  <2>1. Carry(entries, num, FALSE, {}, active, dials)
    BY Zenon, <1>6 DEF OutgoingEstablished, dials
  <2>2. p \in ToldToEnd(active, {}) <=> p \in closing
    BY SMTT(90), <1>6, ToldAt
  <2>3. PeerSound(p, entries, Left(recovered), active, dials, ToldToEnd(active, {}))
    BY <1>1, <1>2, <1>6, <2>2 DEF PeerSound
  <2>4. Moved(num, num, StateOf(entries, p), StateOf(entries, p))
    BY NotMoved
  <2>5. p \in Guests(active, ToldToEnd(active, {})) => p \in Guests(active, closing) \/ num.inb < MaxInbound
    BY <2>2 DEF Guests
  <2>6. \A q \in SlotPeers \ {p} : (q \in Left(recovered) <=> q \in Listed) /\ active[q] = active[q] /\ dials[q] = dialing[q]
    BY <1>2, <1>3
  <2> QED
    BY Zenon, <1>1, <1>3, <1>5, <2>1, <2>3, <2>4, <2>5, <2>6, HandledAt
<1>7. p \notin Guests(act, ToldToEnd(act, {}))
  BY SMTT(90), <1>4 DEF Guests
<1>8. \A q \in SlotPeers \ {p} : (q \in Left(recovered) <=> q \in Listed) /\ act[q] = active[q] /\ dials[q] = dialing[q]
  BY <1>2, <1>3, <1>4
<1>9. p \in ToldToEnd(act, {}) => act[p] # "none"
  BY ToldAt
<1>10. CASE active[p] = "none" /\ p \notin DOMAIN entries
  <2>1. Carry(entries, num, FALSE, {}, act, dials)
    BY ZenonT(60), <1>10 DEF OutgoingEstablished, dials, act
  <2>2. PeerSound(p, entries, Left(recovered), act, dials, ToldToEnd(act, {}))
    BY <1>2, <1>9, <1>10 DEF PeerSound
  <2>3. Moved(num, num, StateOf(entries, p), StateOf(entries, p))
    BY NotMoved
  <2> QED
    BY Zenon, <1>1, <1>3, <1>4, <1>5, <1>7, <1>8, <2>1, <2>2, <2>3, HandledAt
<1>11. CASE active[p] = "none" /\ p \in DOMAIN entries
  <2> DEFINE e == [entries[p] EXCEPT !.state = "Out"]
             t == [entries EXCEPT ![p] = e]
             n == DecrState(num, entries[p].state)
             m == [n EXCEPT !.out = @ + 1]
  <2>1. Carry(t, m, FALSE, {}, act, dials)
    BY Zenon, <1>11 DEF OutgoingEstablished, dials, act
  <2>2. e \in Entry /\ e.state = "Out" /\ e.trusted = entries[p].trusted /\ e.reputation = entries[p].reputation
    BY SMTT(120), <1>1, <1>11 DEF Entry, States
  <2>3. n \in Info /\ Moved(num, n, StateOf(entries, p), "Idle")
    BY <1>1, <1>11, DecrMoves DEF StateOf
  <2> HIDE DEF e, n
  <2>4. TableOf(t) /\ SameBut(p, entries, t) /\ p \in DOMAIN t /\ t[p] = e
    BY <1>1, <1>11, <2>2, EntrySet
  <2>5. m \in Info /\ m.pout = n.pout /\ m.inb = n.inb /\ m.out = n.out + 1 /\ n.pout \in Int /\ n.inb \in Int /\ n.out \in Int
    BY <2>3 DEF Info
  <2> HIDE DEF t, m
  <2>6. StateOf(t, p) = "Out"
    BY SMTT(90), <2>2, <2>4 DEF StateOf
  <2>7. Moved(num, m, StateOf(entries, p), "Out")
    <3>1. num.out \in Int /\ num.pout \in Int /\ num.inb \in Int
      BY <1>1 DEF Info
    <3>2. /\ One("Idle" = "PendingOut") = 0 /\ One("Idle" \in Outs) = 0 /\ One("Idle" \in Ins) = 0
          /\ One("Out" = "PendingOut") = 0 /\ One("Out" \in Outs) = 1 /\ One("Out" \in Ins) = 0
      BY DEF One, Ins, Outs
    <3>3. \A b : One(b) \in Int
      BY SMTT(120) DEF One
    <3> QED
      BY <2>3, <2>5, <3>1, <3>2, <3>3 DEF Moved
  <2>8. PeerSound(p, t, Left(recovered), act, dials, ToldToEnd(act, {}))
    BY SMTT(90), <1>1, <1>2, <1>4, <1>9, <1>11, <2>2, <2>4 DEF PeerSound, IsBanned
  <2>9. Moved(num, m, StateOf(entries, p), StateOf(t, p))
    BY <2>6, <2>7
  <2>10. m \in Info
    BY <2>5
  <2> QED
    BY ZenonT(120), <1>3, <1>4, <1>5, <1>7, <1>8, <2>1, <2>4, <2>8, <2>9, <2>10, HandledAt
<1> QED
  BY <1>6, <1>10, <1>11

\* A dial of the peer less.
LEMMA DialEnds ==
  ASSUME SlotsInv, NEW p \in SlotPeers, dialing[p] > 0
  PROVE  LET dials == [dialing EXCEPT ![p] = @ - 1]
         IN  dials \in [SlotPeers -> Nat] /\ dials[p] <= dialing[p] /\ \A q \in SlotPeers \ {p} : dials[q] = dialing[q]
<1>1. dialing \in [SlotPeers -> Nat]
  BY ZenonT(120), SlotsOf
<1> QED
  BY <1>1

(***************************************************************************)
(* A dial or a session that ended without blame gives its slot back.       *)
(***************************************************************************)
LEMMA EndedIsRight ==
  ASSUME SlotsInv, NEW p \in SlotPeers, NEW t, NEW act, NEW dials, StateOf(t, p) = "Idle",
         p \in DOMAIN t => /\ p \in DOMAIN entries /\ t[p].reputation = entries[p].reputation
                           /\ t[p].trusted = entries[p].trusted,
         act[p] = "none" \/ (LateDial /\ act[p] = active[p])
  PROVE  LET n == IF p \in DOMAIN entries THEN DecrState(num, entries[p].state) ELSE num
         IN  /\ n \in Info /\ Moved(num, n, StateOf(entries, p), StateOf(t, p))
             /\ PeerSound(p, t, Listed, act, dials, ToldToEnd(act, {}))
             /\ p \in Guests(act, ToldToEnd(act, {})) => p \in Guests(active, closing) \/ num.inb < MaxInbound
<1> DEFINE n == IF p \in DOMAIN entries THEN DecrState(num, entries[p].state) ELSE num
<1>1. /\ num \in Info /\ PeerSound(p, entries, Listed, active, dialing, closing)
      /\ p \in DOMAIN entries => entries[p].state \in States
  BY SlotsOf
<1>2. n \in Info /\ Moved(num, n, StateOf(entries, p), StateOf(t, p))
  <2>1. CASE p \in DOMAIN entries
    BY SMTT(120), <1>1, <2>1, DecrMoves DEF StateOf
  <2>2. CASE p \notin DOMAIN entries
    BY SMTT(120), <1>1, <2>2, NotMoved DEF StateOf
  <2> QED
    BY SMTT(120), <2>1, <2>2
<1> HIDE DEF n
<1>3. p \in ToldToEnd(act, {}) <=> p \in closing /\ act[p] # "none"
  BY SMTT(120), ToldAt
<1>4. p \in DOMAIN t => t[p].state = "Idle"
  BY SMTT(120) DEF StateOf
<1>5. PeerSound(p, t, Listed, act, dials, ToldToEnd(act, {}))
  BY SMTT(120), <1>1, <1>3, <1>4 DEF PeerSound, IsBanned, Ins, Outs
<1>6. p \in Guests(act, ToldToEnd(act, {})) => p \in Guests(active, closing) \/ num.inb < MaxInbound
  BY <1>3 DEF Guests
<1> QED
  BY <1>2, <1>5, <1>6 DEF n

\* Our handshake failed.
LEMMA OutgoingDroppedIsRight ==
  ASSUME SlotsInv, NEW p \in SlotPeers, OutgoingDropped(p)
  PROVE  SlotsInv' /\ BannedNotDialed
<1> DEFINE dials == [dialing EXCEPT ![p] = @ - 1]
<1>1. PICK err \in {"fatal", "backoff", "severe"} : Failure(p, err, active, dials)
  BY DEF OutgoingDropped
<1>2. dialing[p] > 0 /\ (active[p] # "none" => LateDial)
  BY DEF OutgoingDropped
<1>3. dials \in [SlotPeers -> Nat] /\ dials[p] <= dialing[p] /\ \A q \in SlotPeers \ {p} : dials[q] = dialing[q]
  BY <1>2, DialEnds
<1>4. active \in [SlotPeers -> {"none", "In", "Out"}] /\ (active[p] = "none" \/ (LateDial /\ active[p] = active[p]))
  BY <1>2, SlotsOf
<1>5. err \in {"fatal", "plain", "backoff", "severe"} /\ (err = "plain" => PlainErrors)
  OBVIOUS
<1> HIDE DEF dials
<1> QED
  BY <1>1, <1>3, <1>4, <1>5, FailureIsRight

\* Our connection failed; if the peer has come in meanwhile the error is ignored.
LEMMA ConnectionErrorIsRight ==
  ASSUME SlotsInv, NEW p \in SlotPeers, ConnectionError(p)
  PROVE  SlotsInv' /\ BannedNotDialed
<1> DEFINE dials == [dialing EXCEPT ![p] = @ - 1]
           came == p \in DOMAIN entries /\ entries[p].state = "In"
<1>1. dialing[p] > 0 /\ ((active[p] # "none" /\ ~came) => LateDial)
  BY DEF ConnectionError
<1>2. dials \in [SlotPeers -> Nat] /\ dials[p] <= dialing[p] /\ \A q \in SlotPeers \ {p} : dials[q] = dialing[q]
  BY <1>1, DialEnds
<1>3. /\ TableOf(entries) /\ num \in Info /\ active \in [SlotPeers -> {"none", "In", "Out"}]
      /\ PeerSound(p, entries, Listed, active, dialing, closing)
  BY SMTT(90), SlotsOf
<1>4. CASE came
  <2>1. Carry(entries, num, FALSE, {}, active, dials) /\ Left(recovered) = Listed
    BY Zenon, <1>4 DEF ConnectionError, Left, Listed
  <2> HIDE DEF dials
  <2>2. p \in ToldToEnd(active, {}) <=> p \in closing /\ active[p] # "none"
    BY SMTT(120), ToldAt
  <2>3. PeerSound(p, entries, Left(recovered), active, dials, ToldToEnd(active, {}))
    BY <1>3, <1>4, <2>1, <2>2 DEF PeerSound
  <2>4. Moved(num, num, StateOf(entries, p), StateOf(entries, p))
    BY NotMoved
  <2>5. p \in Guests(active, ToldToEnd(active, {})) => p \in Guests(active, closing) \/ num.inb < MaxInbound
    BY SMTT(120), <2>2 DEF Guests
  <2>6. \A q \in SlotPeers \ {p} : (q \in Left(recovered) <=> q \in Listed) /\ active[q] = active[q] /\ dials[q] = dialing[q]
    BY <1>2, <2>1
  <2>7. FALSE \in BOOLEAN /\ {} \in SUBSET {p} /\ SameBut(p, entries, entries)
    BY DEF SameBut
  <2> QED
    BY ZenonT(120), <1>2, <1>3, <2>1, <2>3, <2>4, <2>5, <2>6, <2>7, HandledAt
<1>5. CASE ~came
  <2>1. PICK err \in {"backoff", "severe"} : Failure(p, err, active, dials)
    BY Zenon, <1>5 DEF ConnectionError
  <2>2. active[p] = "none" \/ (LateDial /\ active[p] = active[p])
    BY <1>1, <1>5
  <2>3. err \in {"fatal", "plain", "backoff", "severe"} /\ (err = "plain" => PlainErrors)
    OBVIOUS
  <2> HIDE DEF dials
  <2> QED
    BY SMTT(90), <1>2, <1>3, <2>1, <2>2, <2>3, FailureIsRight
<1> QED
  BY SMTT(90), <1>4, <1>5

\* Our pending session was ended by the shutdown.
LEMMA OutgoingClosedIsRight ==
  ASSUME SlotsInv, NEW p \in SlotPeers, OutgoingClosed(p)
  PROVE  SlotsInv' /\ BannedNotDialed
<1> DEFINE dials == [dialing EXCEPT ![p] = @ - 1]
           e == [entries[p] EXCEPT !.state = "Idle"]
           t == IF p \in DOMAIN entries THEN [entries EXCEPT ![p] = e] ELSE entries
           n == IF p \in DOMAIN entries THEN DecrState(num, entries[p].state) ELSE num
<1>1. dialing[p] > 0 /\ (active[p] # "none" => LateDial) /\ Left(recovered) = Listed
  BY DEF OutgoingClosed, Left, Listed
<1>2. dials \in [SlotPeers -> Nat] /\ dials[p] <= dialing[p] /\ \A q \in SlotPeers \ {p} : dials[q] = dialing[q]
  BY <1>1, DialEnds
<1>3. Carry(t, n, FALSE, {}, active, dials)
  BY Zenon DEF OutgoingClosed
<1>4. /\ TableOf(entries) /\ active \in [SlotPeers -> {"none", "In", "Out"}]
      /\ p \in DOMAIN entries => entries[p] \in Entry
  BY SlotsOf
<1>5. p \in DOMAIN entries =>
        /\ e \in Entry /\ e.state = "Idle" /\ e.reputation = entries[p].reputation
        /\ e.trusted = entries[p].trusted
  BY <1>4 DEF Entry, States
<1> HIDE DEF dials, e
<1>6. /\ TableOf(t) /\ SameBut(p, entries, t)
      /\ p \in DOMAIN t => p \in DOMAIN entries /\ t[p] = e
  <2>1. CASE p \in DOMAIN entries
    BY <1>4, <1>5, <2>1, EntrySet
  <2>2. CASE p \notin DOMAIN entries
    BY <1>4, <2>2 DEF SameBut
  <2> QED
    BY <2>1, <2>2
<1> HIDE DEF t
<1>7. StateOf(t, p) = "Idle"
  BY <1>5, <1>6 DEF StateOf
<1>8. p \in DOMAIN t => p \in DOMAIN entries /\ t[p].reputation = entries[p].reputation /\ t[p].trusted = entries[p].trusted
  BY <1>5, <1>6
<1>9. active[p] = "none" \/ (LateDial /\ active[p] = active[p])
  BY <1>1
<1>10. \A q \in SlotPeers \ {p} : (q \in Left(recovered) <=> q \in Listed) /\ active[q] = active[q] /\ dials[q] = dialing[q]
  BY <1>1, <1>2
<1>11. /\ n \in Info /\ Moved(num, n, StateOf(entries, p), StateOf(t, p))
       /\ PeerSound(p, t, Left(recovered), active, dials, ToldToEnd(active, {}))
       /\ p \in Guests(active, ToldToEnd(active, {})) => p \in Guests(active, closing) \/ num.inb < MaxInbound
  BY Zenon, <1>1, <1>7, <1>8, <1>9, EndedIsRight
<1>12. FALSE \in BOOLEAN /\ {} \in SUBSET {p}
  OBVIOUS
<1> HIDE DEF n
<1> QED
  BY ZenonT(120), <1>2, <1>3, <1>4, <1>6, <1>10, <1>11, <1>12, HandledAt

-----------------------------------------------------------------------------
(***************************************************************************)
(* The ends of sessions.                                                   *)
(***************************************************************************)
LEMMA ActiveSessionDroppedIsRight ==
  ASSUME SlotsInv, NEW p \in SlotPeers, ActiveSessionDropped(p)
  PROVE  SlotsInv' /\ BannedNotDialed
<1> DEFINE act == [active EXCEPT ![p] = "none"]
<1>1. PICK err \in {"fatal", "plain", "backoff", "severe"} : (err = "plain" => PlainErrors) /\ Failure(p, err, act, dialing)
  BY DEF ActiveSessionDropped
<1>2. active \in [SlotPeers -> {"none", "In", "Out"}] /\ dialing \in [SlotPeers -> Nat]
  BY SlotsOf
<1>3. act \in [SlotPeers -> {"none", "In", "Out"}] /\ act[p] = "none" /\ \A q \in SlotPeers \ {p} : act[q] = active[q]
  BY <1>2
<1>4. dialing[p] <= dialing[p]
  BY <1>2
<1> HIDE DEF act
<1> QED
  BY <1>1, <1>2, <1>3, <1>4, FailureIsRight

\* A session ended in order: its entry is idle or, if it was to be removed, gone.
LEMMA ActiveSessionClosedIsRight ==
  ASSUME SlotsInv, NEW p \in SlotPeers, ActiveSessionClosed(p)
  PROVE  SlotsInv' /\ BannedNotDialed
<1> DEFINE act == [active EXCEPT ![p] = "none"]
           n == IF p \in DOMAIN entries THEN DecrState(num, entries[p].state) ELSE num
<1>1. /\ TableOf(entries) /\ active \in [SlotPeers -> {"none", "In", "Out"}] /\ dialing \in [SlotPeers -> Nat]
      /\ p \in DOMAIN entries => entries[p] \in Entry
  BY SlotsOf
<1>2. /\ act \in [SlotPeers -> {"none", "In", "Out"}] /\ act[p] = "none"
      /\ \A q \in SlotPeers \ {p} : act[q] = active[q] /\ dialing[q] = dialing[q]
  BY <1>1
<1>3. dialing[p] <= dialing[p] /\ Left(recovered) = Listed
  BY <1>1 DEF ActiveSessionClosed, Left, Listed
<1>4. PICK fill, t :
        /\ fill \in BOOLEAN /\ Carry(t, n, fill, {}, act, dialing)
        /\ \/ p \notin DOMAIN entries /\ t = entries
           \/ p \in DOMAIN entries /\ t = WithoutPeer(entries, p)
           \/ p \in DOMAIN entries /\ t = [entries EXCEPT ![p] = [entries[p] EXCEPT !.severe = 0, !.state = "Idle"]]
  <2>1. CASE p \notin DOMAIN entries
    <3>1. Carry(entries, n, FALSE, {}, act, dialing)
      BY Zenon, <2>1 DEF ActiveSessionClosed
    <3> QED
      BY Zenon, <2>1, <3>1
  <2>2. CASE p \in DOMAIN entries /\ entries[p].remove /\ ~entries[p].trusted
    <3>1. Carry(WithoutPeer(entries, p), n, TRUE, {}, act, dialing)
      BY Zenon, <2>2 DEF ActiveSessionClosed
    <3> QED
      BY Zenon, <2>2, <3>1
  <2>3. CASE p \in DOMAIN entries /\ ~(entries[p].remove /\ ~entries[p].trusted)
    <3>1. Carry([entries EXCEPT ![p].severe = 0, ![p].state = "Idle"], n, FALSE, {}, act, dialing)
      BY Zenon, <2>3 DEF ActiveSessionClosed
    <3>2. [entries EXCEPT ![p].severe = 0, ![p].state = "Idle"]
            = [entries EXCEPT ![p] = [entries[p] EXCEPT !.severe = 0, !.state = "Idle"]]
      BY Zenon, <1>1, <2>3 DEF TableOf
    <3> QED
      BY Zenon, <2>3, <3>1, <3>2
  <2> QED
    BY Zenon, <2>1, <2>2, <2>3
<1> HIDE DEF act
<1>5. /\ TableOf(t) /\ SameBut(p, entries, t) /\ StateOf(t, p) = "Idle"
      /\ p \in DOMAIN t => /\ p \in DOMAIN entries /\ t[p].reputation = entries[p].reputation
                           /\ t[p].trusted = entries[p].trusted
  <2>1. CASE p \notin DOMAIN entries /\ t = entries
    BY <1>1, <2>1 DEF SameBut, StateOf
  <2>2. CASE p \in DOMAIN entries /\ t = WithoutPeer(entries, p)
    BY <1>1, <2>2, EntryRemoved DEF StateOf
  <2>3. CASE p \in DOMAIN entries /\ t = [entries EXCEPT ![p] = [entries[p] EXCEPT !.severe = 0, !.state = "Idle"]]
    <3> DEFINE d == [entries[p] EXCEPT !.severe = 0]
               e == [d EXCEPT !.state = "Idle"]
    <3>1. d \in Entry /\ d.reputation = entries[p].reputation /\ d.trusted = entries[p].trusted
      BY <1>1, <2>3 DEF Entry
    <3>2. p \in DOMAIN entries /\ t = [entries EXCEPT ![p] = e]
      BY <2>3
    <3> HIDE DEF d
    <3>3. e \in Entry /\ e.state = "Idle" /\ e.reputation = d.reputation /\ e.trusted = d.trusted
      BY <3>1 DEF Entry, States
    <3> HIDE DEF e
    <3>4. TableOf(t) /\ SameBut(p, entries, t) /\ p \in DOMAIN t /\ t[p] = e
      BY ZenonT(120), <1>1, <3>2, <3>3, EntrySet
    <3> QED
      BY <3>1, <3>2, <3>3, <3>4 DEF StateOf
  <2> QED
    BY SMTT(90), <1>4, <2>1, <2>2, <2>3
<1>6. act[p] = "none" \/ (LateDial /\ act[p] = active[p])
  BY <1>2
<1>7. \A q \in SlotPeers \ {p} : (q \in Left(recovered) <=> q \in Listed) /\ act[q] = active[q] /\ dialing[q] = dialing[q]
  BY <1>2, <1>3
<1>8. /\ n \in Info /\ Moved(num, n, StateOf(entries, p), StateOf(t, p))
      /\ PeerSound(p, t, Left(recovered), act, dialing, ToldToEnd(act, {}))
      /\ p \in Guests(act, ToldToEnd(act, {})) => p \in Guests(active, closing) \/ num.inb < MaxInbound
  BY Zenon, <1>3, <1>5, <1>6, EndedIsRight
<1>9. {} \in SUBSET {p}
  OBVIOUS
<1>10. Carry(t, n, fill, {}, act, dialing) /\ fill \in BOOLEAN
  BY <1>4
<1> HIDE DEF n
<1> QED
  BY ZenonT(120), <1>1, <1>2, <1>3, <1>5, <1>7, <1>8, <1>9, <1>10, HandledAt

-----------------------------------------------------------------------------
(***************************************************************************)
(* The commands.                                                           *)
(***************************************************************************)

\* A session that is told to end stays in its kind of slot.
LEMMA DisconnectingKeepsKind ==
  ASSUME NEW s \in States
  PROVE  /\ Disconnecting(s) \in States
         /\ s = Disconnecting(s) \/ {s, Disconnecting(s)} \subseteq Ins \/ {s, Disconnecting(s)} \subseteq Outs
         /\ Disconnecting(s) \in Ins \cup Outs => s \in Ins \cup Outs
         /\ Disconnecting(s) = "PendingOut" => s = "PendingOut"
BY DEF States, Disconnecting, Ins, Outs

\* A peer that loses its reputation is banned and told to end its session.
LEMMA ReputationChangeIsRight ==
  ASSUME SlotsInv, NEW p \in SlotPeers, ReputationChange(p)
  PROVE  SlotsInv' /\ BannedNotDialed
<1> DEFINE Cut(w) == IF entries[p].trusted THEN -1 ELSE w
           Rep(w) == IF entries[p].reputation + Cut(w) < BannedReputation THEN BannedReputation
                     ELSE entries[p].reputation + Cut(w)
           New(w) == [entries[p] EXCEPT !.reputation = Rep(w)]
           Drop(w) == entries[p].state \in Connected /\ IsBanned(New(w))
           Ban(w) == Drop(w) \/ (IsBanned(New(w)) /\ ~IsBanned(entries[p]))
<1>1. PICK w \in {-1, BannedReputation} :
        /\ CarryFrom([entries EXCEPT ![p] = [New(w) EXCEPT !.state = IF Drop(w) THEN Disconnecting(@) ELSE @]], num, FALSE,
                     IF Drop(w) THEN {p} ELSE {}, active, dialing, IF Ban(w) THEN recovered \ {p} ELSE recovered)
        /\ banned' = IF Ban(w) THEN banned \cup {p} ELSE banned
  BY Zenon DEF ReputationChange
<1> DEFINE rep == Rep(w)
           new == New(w)
           drop == Drop(w)
           ban == Ban(w)
           e == [new EXCEPT !.state = IF drop THEN Disconnecting(@) ELSE @]
           t == [entries EXCEPT ![p] = e]
           D == IF drop THEN {p} ELSE {}
           back == IF ban THEN recovered \ {p} ELSE recovered
           left == Left(back)
<1>2. /\ TableOf(entries) /\ num \in Info /\ active \in [SlotPeers -> {"none", "In", "Out"}]
      /\ dialing \in [SlotPeers -> Nat] /\ p \in DOMAIN entries /\ entries[p] \in Entry /\ entries[p].state \in States
      /\ PeerSound(p, entries, Listed, active, dialing, closing)
  BY SlotsOf DEF ReputationChange
<1>3. rep \in Int /\ (IsBanned(entries[p]) => rep <= BannedReputation)
  BY <1>2 DEF Entry, IsBanned, BannedReputation
<1> HIDE DEF rep
<1>4. /\ new \in Entry /\ new.state = entries[p].state /\ new.reputation = rep /\ new.trusted = entries[p].trusted
  <2>1. new = [entries[p] EXCEPT !.reputation = rep]
    BY DEF rep
  <2> QED
    BY <1>2, <1>3, <2>1 DEF Entry
<1>5. drop <=> entries[p].state \in Connected /\ IsBanned(new)
  OBVIOUS
<1>6. ban <=> drop \/ (IsBanned(new) /\ ~IsBanned(entries[p]))
  OBVIOUS
<1>7. /\ CarryFrom(t, num, FALSE, D, active, dialing, back)
      /\ left = IF ban THEN Listed \cup {p} ELSE Listed
  <2>1. CarryFrom(t, num, FALSE, D, active, dialing, back) /\ banned' = IF ban THEN banned \cup {p} ELSE banned
    BY Zenon, <1>1
  <2> HIDE DEF ban, Ban
  <2> QED
    BY <2>1 DEF Listed, Left
<1> HIDE DEF left, back, new, drop, ban, New, Drop, Ban, Rep, Cut
<1>8. /\ e \in Entry /\ e.state = (IF drop THEN Disconnecting(entries[p].state) ELSE entries[p].state)
      /\ e.reputation = rep /\ e.trusted = entries[p].trusted
  <2>1. (IF drop THEN Disconnecting(new.state) ELSE new.state) \in States
    BY <1>2, <1>4, DisconnectingKeepsKind
  <2> QED
    BY SMTT(120), <1>4, <2>1 DEF Entry
<1> HIDE DEF e
<1>9. TableOf(t) /\ SameBut(p, entries, t) /\ p \in DOMAIN t /\ t[p] = e
  BY <1>2, <1>8, EntrySet
<1>10. D \in SUBSET {p} /\ (p \in D <=> drop)
  BY SMTT(90)
<1> HIDE DEF t, D
<1>11. Moved(num, num, StateOf(entries, p), StateOf(t, p))
  <2>1. StateOf(entries, p) = entries[p].state /\ StateOf(t, p) = e.state
    BY SMTT(90), <1>2, <1>9 DEF StateOf
  <2> QED
    BY ZenonT(120), <1>2, <1>8, <2>1, NotMoved, DisconnectingKeepsKind
<1>12. p \in ToldToEnd(active, D) <=> (p \in closing \/ drop) /\ active[p] # "none"
  BY SMTT(120), <1>10, ToldAt
<1>13. (IsBanned(e) <=> IsBanned(new)) /\ (IsBanned(entries[p]) => IsBanned(e))
  BY <1>3, <1>4, <1>8 DEF IsBanned
<1>14. PeerSound(p, t, left, active, dialing, ToldToEnd(active, D))
  <2>1. (p \in left => IsBanned(e)) /\ (PlainErrors \/ (IsBanned(e) => p \in left))
    BY ZenonT(60), <1>2, <1>5, <1>6, <1>7, <1>13 DEF PeerSound
  <2>2. CASE drop
    <3>1. e.state = Disconnecting(entries[p].state) /\ entries[p].state \in States
      BY SMTT(120), <1>2, <1>8, <2>2
    <3>2. e.state \in Ins \cup Outs => active[p] # "none"
      BY <1>2, <3>1, DisconnectingKeepsKind DEF PeerSound
    <3>3. e.state = "PendingOut" => dialing[p] > 0 \/ active[p] # "none"
      BY ZenonT(120), <1>2, <3>1, DisconnectingKeepsKind DEF PeerSound
    <3>4. e.trusted => p \in Trusted
      BY <1>2, <1>8 DEF PeerSound
    <3>5. p \in ToldToEnd(active, D) <=> active[p] # "none"
      BY <1>12, <2>2
    <3>6. e.state \in {"DisconnectingIn", "DisconnectingOut"} => e.state \in Ins \cup Outs
      BY ZenonT(60) DEF Ins, Outs
    <3> QED
      BY ZenonT(120), <1>9, <2>1, <3>2, <3>3, <3>4, <3>5, <3>6 DEF PeerSound
  <2>3. CASE ~drop
    BY ZenonT(120), <1>2, <1>8, <1>9, <1>12, <2>1, <2>3 DEF PeerSound
  <2> QED
    BY ZenonT(60), <2>2, <2>3
<1>15. p \in Guests(active, ToldToEnd(active, D)) => p \in Guests(active, closing) \/ num.inb < MaxInbound
  BY <1>12 DEF Guests
<1>16. \A q \in SlotPeers \ {p} : (q \in left <=> q \in Listed) /\ active[q] = active[q] /\ dialing[q] = dialing[q]
  BY <1>7
<1>17. FALSE \in BOOLEAN /\ dialing[p] <= dialing[p]
  BY <1>2
<1>18. SlotsHold(entries, num, Listed, active, dialing, closing)
  BY DEF SlotsInv
<1>19. Handled(p, entries, Listed, t, num, D, active, dialing, left)
  BY Zenon, <1>2, <1>9, <1>10, <1>11, <1>14, <1>15, <1>16, <1>17 DEF Handled
<1>20. Handled(p, entries, Listed, t, num, D, active, dialing, Left(back)) /\ CarryFrom(t, num, FALSE, D, active, dialing, back)
  BY Zenon, <1>7, <1>19 DEF left
<1> QED
  BY ZenonT(60), <1>17, <1>18, <1>20, HandledFrom

\* A removed peer keeps its entry while it is connected.
LEMMA RemovePeerIsRight ==
  ASSUME SlotsInv, NEW p \in SlotPeers, RemovePeer(p)
  PROVE  SlotsInv' /\ BannedNotDialed
<1>1. /\ TableOf(entries) /\ num \in Info /\ active \in [SlotPeers -> {"none", "In", "Out"}]
      /\ dialing \in [SlotPeers -> Nat] /\ p \in DOMAIN entries /\ entries[p] \in Entry /\ entries[p].state \in States
      /\ PeerSound(p, entries, Listed, active, dialing, closing)
  BY SlotsOf DEF RemovePeer
<1>2. /\ entries[p].state \in {"DisconnectingIn", "DisconnectingOut"} => RemoveTwice
      /\ Left(recovered) = Listed
  BY DEF RemovePeer, Left, Listed
<1>3. \A q \in SlotPeers \ {p} : (q \in Left(recovered) <=> q \in Listed) /\ active[q] = active[q] /\ dialing[q] = dialing[q]
  BY <1>2
<1>4. FALSE \in BOOLEAN /\ dialing[p] <= dialing[p] /\ {} \in SUBSET {p} /\ {p} \in SUBSET {p}
  BY <1>1
<1>5. CASE entries[p].state \in Connected
  <2> DEFINE d == [entries[p] EXCEPT !.remove = TRUE]
             e == [d EXCEPT !.state = Disconnecting(@)]
             t == [entries EXCEPT ![p] = e]
  <2>1. Carry(t, num, FALSE, {p}, active, dialing)
    <3>1. Carry([entries EXCEPT ![p].remove = TRUE, ![p].state = Disconnecting(@)], num, FALSE, {p}, active, dialing)
      BY Zenon, <1>5 DEF RemovePeer
    <3>2. [entries EXCEPT ![p].remove = TRUE, ![p].state = Disconnecting(@)] = t
      BY Zenon, <1>1 DEF TableOf
    <3> QED
      BY Zenon, <3>1, <3>2
  <2>2. d \in Entry /\ d.state = entries[p].state /\ d.reputation = entries[p].reputation /\ d.trusted = entries[p].trusted
    BY Zenon, <1>1 DEF Entry
  <2> HIDE DEF d
  <2>3. Disconnecting(d.state) \in States
    BY <1>1, <2>2, DisconnectingKeepsKind
  <2>4. /\ e \in Entry /\ e.state = Disconnecting(entries[p].state)
        /\ e.reputation = entries[p].reputation /\ e.trusted = entries[p].trusted
    BY <2>2, <2>3 DEF Entry
  <2> HIDE DEF e
  <2>5. TableOf(t) /\ SameBut(p, entries, t) /\ p \in DOMAIN t /\ t[p] = e
    BY ZenonT(60), <1>1, <2>4, EntrySet
  <2> HIDE DEF t
  <2>6. Moved(num, num, StateOf(entries, p), StateOf(t, p))
    <3>1. StateOf(entries, p) = entries[p].state /\ StateOf(t, p) = Disconnecting(entries[p].state)
      BY <1>1, <2>4, <2>5 DEF StateOf
    <3> QED
      BY ZenonT(120), <1>1, <3>1, NotMoved, DisconnectingKeepsKind
  <2>7. p \in ToldToEnd(active, {p}) <=> active[p] # "none"
    BY ZenonT(120), ToldAt
  <2>8. PeerSound(p, t, Left(recovered), active, dialing, ToldToEnd(active, {p}))
    <3>1. IsBanned(e) <=> IsBanned(entries[p])
      BY <2>4 DEF IsBanned
    <3>2. (p \in Left(recovered) => IsBanned(e)) /\ (PlainErrors \/ (IsBanned(e) => p \in Left(recovered)))
      BY ZenonT(60), <1>1, <1>2, <3>1 DEF PeerSound
    <3>3. e.state \in Ins \cup Outs => active[p] # "none"
      BY ZenonT(120), <1>1, <2>4, DisconnectingKeepsKind DEF PeerSound
    <3>4. e.state = "PendingOut" => dialing[p] > 0 \/ active[p] # "none"
      BY ZenonT(120), <1>1, <2>4, DisconnectingKeepsKind DEF PeerSound
    <3>5. e.trusted => p \in Trusted
      BY ZenonT(60), <1>1, <2>4 DEF PeerSound
    <3>6. e.state \in {"DisconnectingIn", "DisconnectingOut"} => e.state \in Ins \cup Outs
      BY ZenonT(60) DEF Ins, Outs
    <3> QED
      BY ZenonT(120), <2>5, <2>7, <3>2, <3>3, <3>4, <3>5, <3>6 DEF PeerSound
  <2>9. p \in Guests(active, ToldToEnd(active, {p})) => p \in Guests(active, closing) \/ num.inb < MaxInbound
    BY <2>7 DEF Guests
  <2> QED
    BY ZenonT(120), <1>1, <1>3, <1>4, <2>1, <2>5, <2>6, <2>8, <2>9, HandledAt
<1>6. CASE entries[p].state \notin Connected
  <2> DEFINE t == WithoutPeer(entries, p)
  <2>1. Carry(t, num, FALSE, {}, active, dialing)
    BY Zenon, <1>6 DEF RemovePeer
  <2>2. TableOf(t) /\ SameBut(p, entries, t) /\ p \notin DOMAIN t
    BY SMTT(90), <1>1, EntryRemoved
  <2> HIDE DEF t
  <2>3. entries[p].state = "Idle" \/ RemoveTwice
    BY ZenonT(120), <1>1, <1>2, <1>6 DEF States, Connected
  <2>4. RemoveTwice \/ PlainErrors \/ Moved(num, num, StateOf(entries, p), StateOf(t, p))
    BY <1>1, <2>2, <2>3, NotMoved DEF StateOf
  <2>5. p \in ToldToEnd(active, {}) <=> p \in closing /\ active[p] # "none"
    BY ToldAt
  <2>6. LateDial \/ p \in closing \/ active[p] = "none"
    BY SMTT(90), <1>1, <1>6 DEF PeerSound, Connected, Disconnecting
  <2>7. PeerSound(p, t, Left(recovered), active, dialing, ToldToEnd(active, {}))
    BY Zenon, <1>1, <2>2, <2>5, <2>6 DEF PeerSound
  <2>8. p \in Guests(active, ToldToEnd(active, {})) => p \in Guests(active, closing) \/ num.inb < MaxInbound
    BY <2>5 DEF Guests
  <2> QED
    BY Zenon, <1>1, <1>3, <1>4, <2>1, <2>2, <2>4, <2>7, <2>8, HandledAt
<1> QED
  BY <1>5, <1>6

\* A step that changes the entry of one peer, but neither its state nor a session.
LEMMA EntryChanged ==
  ASSUME SlotsInv, NEW p \in SlotPeers, TableOf(entries'), SameBut(p, entries, entries'),
         StateOf(entries', p) = StateOf(entries, p), UNCHANGED <<num, active, dialing, closing>>,
         \A q \in SlotPeers \ {p} : q \in Listed' <=> q \in Listed,
         PeerSound(p, entries', Listed', active, dialing, closing)
  PROVE  SlotsInv' /\ BannedNotDialed
<1>1. SlotsTyped(entries', num, active, dialing, closing) /\ dialing \in [SlotPeers -> Nat]
  BY DEF SlotsInv, SlotsHold, SlotsTyped
<1>2. Moved(num, num, StateOf(entries, p), StateOf(entries', p))
  BY SMTT(120), NotMoved
<1>3. \A q \in SlotPeers \ {p} : /\ (q \in Listed' <=> q \in Listed) /\ (q \in closing <=> q \in closing)
                                 /\ active[q] = active[q] /\ dialing[q] = dialing[q]
  BY SMTT(90)
<1>4. SlotsHold(entries', num, Listed', active, dialing, closing)
  BY Zenon, <1>1, <1>2, <1>3, PeerChanged DEF SlotsInv
<1>5. SlotsHold(entries', num', Listed', active', dialing', closing')
  BY <1>4
<1>6. BannedNotDialed
  BY <1>1 DEF BannedNotDialed
<1> QED
  BY SMTT(90), <1>5, <1>6 DEF SlotsInv

\* A peer that is added or whose kind is replaced keeps its state.
LEMMA AddPeerIsRight ==
  ASSUME SlotsInv, NEW p \in SlotPeers, AddPeer(p)
  PROVE  SlotsInv' /\ BannedNotDialed
<1>1. PICK trusted \in {FALSE} \cup {p \in Trusted} :
        entries' = WithPeer(entries, p, IF p \in DOMAIN entries
                               THEN [entries[p] EXCEPT !.trusted = trusted, !.remove = @ /\ entries[p].state # "In"]
                               ELSE NewPeer("Idle", trusted))
  BY DEF AddPeer
<1>2. trusted \in BOOLEAN /\ (trusted => p \in Trusted)
  BY Zenon
<1>3. /\ TableOf(entries) /\ PeerSound(p, entries, Listed, active, dialing, closing)
      /\ p \in DOMAIN entries => entries[p] \in Entry
  BY SlotsOf
<1>4. p \notin Listed /\ Listed' = Listed /\ UNCHANGED <<num, active, dialing, closing>>
  BY DEF AddPeer, Listed
<1>5. \A q \in SlotPeers \ {p} : q \in Listed' <=> q \in Listed
  BY <1>4
<1>6. CASE p \in DOMAIN entries
  <2> DEFINE d == [entries[p] EXCEPT !.trusted = trusted]
             stay == entries[p].remove /\ entries[p].state # "In"
             e == [d EXCEPT !.remove = stay]
  <2>1. entries' = WithPeer(entries, p, e)
    <3>1. entries' = WithPeer(entries, p, [entries[p] EXCEPT !.trusted = trusted, !.remove = @ /\ entries[p].state # "In"])
      BY <1>1, <1>6
    <3>2. [entries[p] EXCEPT !.trusted = trusted, !.remove = @ /\ entries[p].state # "In"] = e
      BY <1>3, <1>6 DEF Entry
    <3> QED
      BY <3>1, <3>2
  <2>2. /\ d \in Entry /\ d.state = entries[p].state /\ d.reputation = entries[p].reputation /\ d.trusted = trusted
    BY Zenon, <1>2, <1>3, <1>6 DEF Entry
  <2>3. stay \in BOOLEAN
    BY Zenon
  <2> HIDE DEF d, stay
  <2>4. e \in Entry /\ e.state = entries[p].state /\ e.reputation = entries[p].reputation /\ e.trusted = trusted
    BY ZenonT(120), <2>2, <2>3 DEF Entry
  <2> HIDE DEF e
  <2>5. TableOf(entries') /\ SameBut(p, entries, entries') /\ p \in DOMAIN entries' /\ entries'[p] = e
    BY SMTT(90), <1>3, <2>1, <2>4, EntryAdded
  <2>6. StateOf(entries', p) = StateOf(entries, p)
    BY SMTT(90), <1>6, <2>4, <2>5 DEF StateOf
  <2>7. PeerSound(p, entries', Listed', active, dialing, closing)
    BY ZenonT(120), <1>2, <1>3, <1>4, <1>6, <2>4, <2>5 DEF PeerSound, IsBanned
  <2> QED
    BY SMTT(90), <1>4, <1>5, <2>5, <2>6, <2>7, EntryChanged
<1>7. CASE p \notin DOMAIN entries
  <2> DEFINE e == NewPeer("Idle", trusted)
  <2>1. entries' = WithPeer(entries, p, e)
    BY <1>1, <1>7
  <2>2. e \in Entry /\ e.state = "Idle" /\ ~IsBanned(e) /\ e.trusted = trusted
    BY SMTT(120), <1>2 DEF NewPeer, Entry, States, DefaultReputation, BannedReputation, IsBanned
  <2> HIDE DEF e
  <2>3. TableOf(entries') /\ SameBut(p, entries, entries') /\ p \in DOMAIN entries' /\ entries'[p] = e
    BY SMTT(120), <1>3, <2>1, <2>2, EntryAdded
  <2>4. StateOf(entries', p) = StateOf(entries, p)
    BY SMTT(90), <1>7, <2>2, <2>3 DEF StateOf
  <2>5. PeerSound(p, entries', Listed', active, dialing, closing)
    BY ZenonT(120), <1>2, <1>3, <1>4, <1>7, <2>2, <2>3 DEF PeerSound, Ins, Outs
  <2> QED
    BY <1>4, <1>5, <2>3, <2>4, <2>5, EntryChanged
<1> QED
  BY <1>6, <1>7

\* The end of a ban restores the reputation, the end of a back-off the flag.
LEMMA TimersAreRight ==
  ASSUME SlotsInv, NEW p \in SlotPeers, Timers(p)
  PROVE  SlotsInv' /\ BannedNotDialed
<1>1. /\ TableOf(entries) /\ PeerSound(p, entries, Listed, active, dialing, closing)
      /\ p \in DOMAIN entries => entries[p] \in Entry
  BY SlotsOf
<1>2. UNCHANGED <<num, active, dialing, closing>> /\ \A q \in SlotPeers \ {p} : q \in Listed' <=> q \in Listed
  BY DEF Timers, ReleaseBan, ReleaseBackoff, Listed
<1>3. CASE p \notin DOMAIN entries
  <2>1. entries' = entries /\ (p \in Listed' => p \in Listed)
    BY <1>3 DEF Timers, ReleaseBan, ReleaseBackoff, Listed
  <2>2. TableOf(entries') /\ SameBut(p, entries, entries') /\ StateOf(entries', p) = StateOf(entries, p)
    BY SMTT(120), <1>1, <2>1 DEF SameBut
  <2>3. PeerSound(p, entries', Listed', active, dialing, closing)
    BY SMTT(90), <1>1, <1>3, <2>1 DEF PeerSound
  <2> QED
    BY <1>2, <2>2, <2>3, EntryChanged
<1>4. CASE p \in DOMAIN entries /\ ReleaseBan(p)
  <2> DEFINE e == [entries[p] EXCEPT !.reputation = DefaultReputation]
  <2>1. entries' = [entries EXCEPT ![p] = e] /\ p \notin Listed'
    BY <1>4 DEF ReleaseBan, Listed
  <2>2. e \in Entry /\ e.state = entries[p].state /\ ~IsBanned(e) /\ e.trusted = entries[p].trusted
    BY <1>1, <1>4 DEF Entry, DefaultReputation, BannedReputation, IsBanned
  <2> HIDE DEF e
  <2>3. TableOf(entries') /\ SameBut(p, entries, entries') /\ p \in DOMAIN entries' /\ entries'[p] = e
    BY ZenonT(120), <1>1, <1>4, <2>1, <2>2, EntrySet
  <2>4. StateOf(entries', p) = StateOf(entries, p)
    BY SMTT(120), <1>4, <2>2, <2>3 DEF StateOf
  <2>5. PeerSound(p, entries', Listed', active, dialing, closing)
    BY SMTT(120), <1>1, <1>4, <2>1, <2>2, <2>3 DEF PeerSound
  <2> QED
    BY <1>2, <2>3, <2>4, <2>5, EntryChanged
<1>5. CASE p \in DOMAIN entries /\ ReleaseBackoff(p)
  <2> DEFINE e == [entries[p] EXCEPT !.backed = FALSE]
  <2>1. entries' = [entries EXCEPT ![p] = e] /\ Listed' = Listed
    BY <1>5 DEF ReleaseBackoff, Listed
  <2>2. e \in Entry /\ e.state = entries[p].state /\ e.reputation = entries[p].reputation /\ e.trusted = entries[p].trusted
    BY Zenon, <1>1, <1>5 DEF Entry
  <2> HIDE DEF e
  <2>3. TableOf(entries') /\ SameBut(p, entries, entries') /\ p \in DOMAIN entries' /\ entries'[p] = e
    BY ZenonT(120), <1>1, <1>5, <2>1, <2>2, EntrySet
  <2>4. StateOf(entries', p) = StateOf(entries, p)
    BY SMTT(120), <1>5, <2>2, <2>3 DEF StateOf
  <2>5. PeerSound(p, entries', Listed', active, dialing, closing)
    BY <1>1, <1>5, <2>1, <2>2, <2>3 DEF PeerSound, IsBanned
  <2> QED
    BY <1>2, <2>3, <2>4, <2>5, EntryChanged
<1> QED
  BY <1>3, <1>4, <1>5 DEF Timers
-----------------------------------------------------------------------------
(***************************************************************************)
(* Steps that only change the number of pending incoming sessions, the     *)
(* refill and the state of the network.                                    *)
(***************************************************************************)
LEMMA PendingChanged ==
  ASSUME SlotsInv, NEW k \in Int, num' = [num EXCEPT !.pin = k], UNCHANGED <<entries, Listed, active, dialing, closing>>
  PROVE  SlotsInv' /\ BannedNotDialed
<1>1. num \in Info /\ dialing \in [SlotPeers -> Nat]
  BY DEF SlotsInv, SlotsHold, SlotsTyped
<1>2. num' \in Info /\ num'.pout = num.pout /\ num'.out = num.out /\ num'.inb = num.inb
  BY <1>1 DEF Info
<1>3. Counted(entries, num) => Counted(entries, num')
  BY <1>2 DEF Counted
<1>4. SlotsHold(entries, num', Listed, active, dialing, closing)
  BY <1>2, <1>3 DEF SlotsInv, SlotsHold, SlotsTyped
<1>5. SlotsHold(entries', num', Listed', active', dialing', closing')
  BY <1>4
<1>6. BannedNotDialed
  BY <1>1 DEF BannedNotDialed
<1> QED
  BY <1>5, <1>6 DEF SlotsInv

\* A pending connection from outside holds no slot of a peer.
LEMMA IncomingIsRight ==
  ASSUME SlotsInv, Incoming \/ IncomingClosed
  PROVE  SlotsInv' /\ BannedNotDialed
<1>1. num \in Info
  BY DEF SlotsInv, SlotsHold, SlotsTyped
<1>2. num.pin + 1 \in Int /\ num.pin - 1 \in Int
  BY <1>1 DEF Info
<1>3. UNCHANGED <<entries, Listed, active, dialing, closing>>
  BY DEF Incoming, IncomingClosed, Listed
<1>4. CASE Incoming
  <2>1. num' = [num EXCEPT !.pin = num.pin + 1]
    BY <1>4 DEF Incoming
  <2> QED
    BY <1>2, <1>3, <2>1, PendingChanged
<1>5. CASE IncomingClosed
  <2>1. num' = [num EXCEPT !.pin = num.pin - 1]
    BY <1>5 DEF IncomingClosed
  <2> QED
    BY <1>2, <1>3, <2>1, PendingChanged
<1> QED
  BY <1>4, <1>5

\* A peer has come in; its second session is refused.
LEMMA IncomingEstablishedIsRight ==
  ASSUME SlotsInv, NEW p \in SlotPeers, IncomingEstablished(p)
  PROVE  SlotsInv' /\ BannedNotDialed
<1>1. CASE active[p] = "none"
  BY <1>1, OnIncomingIsRight DEF IncomingEstablished
<1>2. CASE active[p] # "none"
  <2>1. num \in Info
    BY SlotsOf
  <2>2. num.pin - 1 \in Int
    BY <2>1 DEF Info
  <2>3. num' = [num EXCEPT !.pin = num.pin - 1] /\ UNCHANGED <<entries, Listed, active, dialing, closing>>
    BY <1>2 DEF IncomingEstablished, Listed
  <2> QED
    BY <2>2, <2>3, PendingChanged
<1> QED
  BY <1>1, <1>2

\* The refill dials idle peers that are not banned.
LEMMA RefillIsRight ==
  ASSUME SlotsInv, Refill
  PROVE  SlotsInv' /\ BannedNotDialed
<1>1. \A p \in SlotPeers : PeerSound(p, entries, Listed, active, dialing, closing)
  BY DEF SlotsInv, SlotsHold
<1>2. closing \subseteq SlotPeers
  BY SMTT(120) DEF SlotsInv, SlotsHold, SlotsTyped
<1>3. ToldToEnd(active, {}) = closing
  BY <1>1, <1>2 DEF ToldToEnd, PeerSound
<1>4. SlotsHold(entries, num, Listed, active, dialing, ToldToEnd(active, {}))
  BY <1>3 DEF SlotsInv
<1>5. CarryFrom(entries, num, TRUE, {}, active, dialing, recovered) /\ Listed = banned' \ recovered
  BY Zenon DEF Refill, Carry, Listed
<1>6. TRUE \in BOOLEAN
  OBVIOUS
<1>7. /\ SlotsHold(entries', num', Listed', active', dialing', closing')
      /\ \A p \in SlotPeers : dialing'[p] > dialing[p] => p \notin Listed'
  BY ZenonT(120), <1>4, <1>5, <1>6, CarryIsRight
<1> QED
  BY <1>7 DEF SlotsInv, BannedNotDialed

\* A shutdown tells every session to end.
LEMMA SetNetworkStateIsRight ==
  ASSUME SlotsInv, SetNetworkState
  PROVE  SlotsInv' /\ BannedNotDialed
<1> DEFINE all == {p \in SlotPeers : active[p] # "none"}
<1>1. UNCHANGED <<entries, num, Listed, active, dialing>> /\ (closing' = all \/ closing' = closing)
  BY DEF SetNetworkState, Listed
<1>2. dialing \in [SlotPeers -> Nat]
  BY DEF SlotsInv, SlotsHold, SlotsTyped
<1>3. SlotsHold(entries, num, Listed, active, dialing, all)
  <2>1. SlotsTyped(entries, num, active, dialing, all)
    BY SMTT(90) DEF SlotsInv, SlotsHold, SlotsTyped
  <2>2. ASSUME NEW p \in SlotPeers
        PROVE  PeerSound(p, entries, Listed, active, dialing, all)
    <3>1. PeerSound(p, entries, Listed, active, dialing, closing)
      BY SlotsOf
    <3> QED
      BY <3>1 DEF PeerSound
  <2>3. Guests(active, all) = {}
    BY DEF Guests
  <2>4. Cardinality(Guests(active, all)) <= MaxInbound
    BY <2>3, FS_EmptySet, ConnectionsAssumption
  <2>5. RemoveTwice \/ PlainErrors \/ Counted(entries, num)
    BY DEF SlotsInv, SlotsHold
  <2> QED
    BY <2>1, <2>2, <2>4, <2>5 DEF SlotsHold
<1> HIDE DEF all
<1>4. SlotsHold(entries, num, Listed, active, dialing, closing')
  BY <1>1, <1>3 DEF SlotsInv
<1>5. SlotsHold(entries', num', Listed', active', dialing', closing')
  BY <1>1, <1>4
<1>6. BannedNotDialed
  BY <1>1, <1>2 DEF BannedNotDialed
<1> QED
  BY <1>5, <1>6 DEF SlotsInv
-----------------------------------------------------------------------------
(***************************************************************************)
(* At the start nobody is connected.                                       *)
(***************************************************************************)
LEMMA SlotsAtStart ==
  ASSUME SlotsInit
  PROVE  SlotsInv
<1>1. /\ DOMAIN entries = Known /\ \A p \in Known : entries[p] = NewPeer("Idle", p \in Trusted)
      /\ entries = [p \in Known |-> entries[p]]
  BY DEF SlotsInit
<1>2. \A p : (p \in Trusted) \in BOOLEAN
  OBVIOUS
<1>3. ASSUME NEW p \in Known
      PROVE  /\ entries[p] \in Entry /\ entries[p].state = "Idle" /\ ~IsBanned(entries[p])
             /\ entries[p].trusted => p \in Trusted
  <2> DEFINE b == p \in Trusted
  <2>1. entries[p] = NewPeer("Idle", b) /\ b \in BOOLEAN
    BY <1>1, <1>2, Zenon
  <2>2. b => p \in Trusted
    OBVIOUS
  <2> HIDE DEF b
  <2> QED
    BY <2>1, <2>2 DEF NewPeer, Entry, States, IsBanned, BannedReputation, DefaultReputation
<1>4. TableOf(entries)
  BY SMTT(90), <1>1, <1>3, ConnectionsAssumption DEF TableOf
<1>5. SlotsTyped(entries, num, active, dialing, closing)
  BY <1>4 DEF SlotsInit, SlotsTyped, Info
<1>6. ASSUME NEW p \in SlotPeers
      PROVE  PeerSound(p, entries, Listed, active, dialing, closing)
  <2>1. Listed = {} /\ active[p] = "none" /\ closing = {}
    BY DEF SlotsInit, Listed
  <2> QED
    BY <1>1, <1>3, <2>1 DEF PeerSound, Ins, Outs
<1>7. Counted(entries, num)
  <2>1. ASSUME NEW C, "Idle" \notin C
        PROVE  Cardinality(Slots(entries, C)) = 0
    <3>1. Slots(entries, C) = {}
      BY SMTT(90), <1>1, <1>3, <2>1 DEF Slots
    <3> QED
      BY <3>1, FS_EmptySet
  <2>2. num.pout = 0 /\ num.out = 0 /\ num.inb = 0
    BY DEF SlotsInit
  <2>3. "Idle" \notin {"PendingOut"} /\ "Idle" \notin Ins /\ "Idle" \notin Outs
    BY DEF Ins, Outs
  <2> QED
    BY <2>1, <2>2, <2>3 DEF Counted
<1>8. Cardinality(Guests(active, closing)) <= MaxInbound
  <2>1. Guests(active, closing) = {}
    BY DEF SlotsInit, Guests
  <2> QED
    BY SMTT(90), <2>1, FS_EmptySet, ConnectionsAssumption
<1> QED
  BY SMTT(120), <1>5, <1>6, <1>7, <1>8 DEF SlotsInv, SlotsHold

(***************************************************************************)
(* What the invariant says.                                                *)
(***************************************************************************)
LEMMA SlotsInvIsSound ==
  ASSUME SlotsInv
  PROVE  /\ PendingHasDial /\ (RemoveTwice \/ PlainErrors \/ SlotsCounted) /\ (LateDial \/ SessionKeepsSlot)
         /\ LateDial \/ RemoveTwice \/ PlainErrors \/ InboundLimited
<1>1. DOMAIN entries \subseteq SlotPeers /\ \A p \in SlotPeers : PeerSound(p, entries, Listed, active, dialing, closing)
  BY SMTT(90) DEF SlotsInv, SlotsHold, SlotsTyped, TableOf
<1>2. PendingHasDial
  BY SMTT(120), <1>1 DEF PendingHasDial, InState, PeerSound
<1>3. RemoveTwice \/ PlainErrors \/ SlotsCounted
  BY SMTT(90) DEF SlotsInv, SlotsHold, Counted, SlotsCounted, Slots, InState, Ins, Outs
<1>4. LateDial \/ SessionKeepsSlot
  BY <1>1 DEF SessionKeepsSlot, PeerSound
<1>5. LateDial \/ RemoveTwice \/ PlainErrors \/ InboundLimited
  BY DEF SlotsInv, SlotsHold, Guests, InboundLimited
<1> QED
  BY SMTT(90), <1>2, <1>3, <1>4, <1>5

(***************************************************************************)
(* Every event the manager handles keeps the invariant, and dials nobody   *)
(* on the ban list.                                                        *)
(***************************************************************************)
LEMMA SlotsStep ==
  ASSUME SlotsInv, [SlotsNext]_slotsVars
  PROVE  SlotsInv' /\ [BannedNotDialed]_slotsVars
<1>1. CASE Incoming \/ IncomingClosed
  BY <1>1, IncomingIsRight
<1>2. CASE Refill
  BY <1>2, RefillIsRight
<1>3. CASE SetNetworkState
  BY <1>3, SetNetworkStateIsRight
<1>4. ASSUME NEW p \in SlotPeers, PendingEvents(p)
      PROVE  SlotsInv' /\ BannedNotDialed
  BY SMTT(90), <1>4, IncomingEstablishedIsRight, OutgoingEstablishedIsRight, OutgoingDroppedIsRight, ConnectionErrorIsRight,
     OutgoingClosedIsRight DEF PendingEvents
<1>5. ASSUME NEW p \in SlotPeers, ActiveEvents(p)
      PROVE  SlotsInv' /\ BannedNotDialed
  BY <1>5, ActiveSessionClosedIsRight, ActiveSessionDroppedIsRight DEF ActiveEvents
<1>6. ASSUME NEW p \in SlotPeers, PeerCommands(p)
      PROVE  SlotsInv' /\ BannedNotDialed
  BY ZenonT(120), <1>6, ReputationChangeIsRight, AddPeerIsRight, RemovePeerIsRight DEF PeerCommands
<1>7. CASE UNCHANGED slotsVars
  BY <1>7 DEF slotsVars, Listed, SlotsInv, SlotsHold, SlotsTyped, TableOf, PeerSound, Counted, Slots, Guests
<1> QED
  BY SMTT(120), <1>1, <1>2, <1>3, <1>4, <1>5, <1>6, <1>7, TimersAreRight DEF SlotsNext

(***************************************************************************)
(* The slot counters equal the slots peers hold, no dial is left pending,  *)
(* an accepted session keeps its slot, guests beyond the limit are on      *)
(* their way out, and nobody on the ban list whose reputation has not      *)
(* recovered is dialled, for any peers, limits and order of events         *)
(* (PeersManager); the circumstances that break a part are named in        *)
(* SlotsSound.                                                             *)
(***************************************************************************)
THEOREM SlotsAreSound == SlotsSpec => SlotsSound
<1>1. SlotsInit => SlotsInv
  BY SlotsAtStart
<1>2. SlotsInv /\ [SlotsNext]_slotsVars => SlotsInv' /\ [BannedNotDialed]_slotsVars
  BY SlotsStep
<1>3. SlotsInv => /\ PendingHasDial /\ (RemoveTwice \/ PlainErrors \/ SlotsCounted) /\ (LateDial \/ SessionKeepsSlot)
                  /\ LateDial \/ RemoveTwice \/ PlainErrors \/ InboundLimited
  BY SlotsInvIsSound
<1> QED
  BY <1>1, <1>2, <1>3, PTL DEF SlotsSpec, SlotsSound
=============================================================================
