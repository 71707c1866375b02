-------------------------- MODULE BlockFetchProofs --------------------------
(***************************************************************************)
(* Download requests, for any number of peers and requests.                *)
(***************************************************************************)
EXTENDS BlockFetch, InductionLemmas

\* Every request of s is there once.
Distinct(s) == \A i, j \in 1..Len(s) : s[i] = s[j] => i = j

\* A high request is before every normal one.
Ranked(s) == \A i, j \in 1..Len(s) : (s[i] \notin High /\ s[j] \in High) => j < i

Items(s) == {s[i] : i \in 1..Len(s)}

QueueOf(s, T) == s \in Seq(Requests) /\ Distinct(s) /\ Items(s) = T

(***************************************************************************)
(* A request sent to the channel or behind the queue.                      *)
(***************************************************************************)
LEMMA AppendedTo ==
  ASSUME NEW s, NEW T, QueueOf(s, T), NEW r \in Requests, r \notin T
  PROVE  QueueOf(Append(s, r), T \cup {r})
<1> DEFINE t == Append(s, r)
<1>1. /\ s \in Seq(Requests) /\ Len(s) \in Nat /\ t \in Seq(Requests) /\ Len(t) = Len(s) + 1 /\ t[Len(s) + 1] = r
      /\ \A i \in 1..Len(s) : t[i] = s[i] /\ s[i] \in T
  BY DEF QueueOf, Items
<1> HIDE DEF t
<1>2. Distinct(t)
  BY <1>1 DEF Distinct, QueueOf
<1>3. Items(t) = T \cup {r}
  <2>1. \A x \in T : \E i \in 1..Len(s) : s[i] = x
    BY DEF QueueOf, Items
  <2>2. \A i \in 1..Len(t) : t[i] \in T \cup {r}
    BY <1>1
  <2>3. \A x \in T \cup {r} : \E i \in 1..Len(t) : t[i] = x
    BY <1>1, <2>1
  <2> QED
    BY <2>2, <2>3 DEF Items
<1> QED
  BY <1>1, <1>2, <1>3 DEF QueueOf, t

(***************************************************************************)
(* The first request of the channel or the queue is taken.                 *)
(***************************************************************************)
LEMMA TakenFrom ==
  ASSUME NEW s, NEW T, QueueOf(s, T), s # <<>>
  PROVE  Head(s) \in T /\ QueueOf(Tail(s), T \ {Head(s)}) /\ (Ranked(s) => Ranked(Tail(s)))
<1> DEFINE t == Tail(s)
           r == Head(s)
<1>1. /\ s \in Seq(Requests) /\ Len(s) \in Nat \ {0} /\ t \in Seq(Requests) /\ Len(t) = Len(s) - 1 /\ s[1] = r
      /\ \A i \in 1..Len(t) : t[i] = s[i + 1]
  BY DEF QueueOf
<1> HIDE DEF t, r
<1>2. Distinct(t)
  BY <1>1 DEF Distinct, QueueOf
<1>3. Items(t) = T \ {r}
  <2>1. \A i \in 1..Len(t) : t[i] \in T /\ t[i] # r
    <3> TAKE i \in 1..Len(t)
    <3>1. 1 \in 1..Len(s) /\ i + 1 \in 1..Len(s) /\ i + 1 # 1 /\ t[i] = s[i + 1]
      BY <1>1
    <3>2. s[i + 1] # s[1]
      BY <3>1 DEF Distinct, QueueOf
    <3> QED
      BY <1>1, <3>1, <3>2 DEF QueueOf, Items
  <2>2. ASSUME NEW x \in T \ {r}
        PROVE  \E i \in 1..Len(t) : t[i] = x
    <3>1. PICK i \in 1..Len(s) : s[i] = x
      BY DEF QueueOf, Items
    <3>2. i # 1 /\ i - 1 \in 1..Len(t) /\ (i - 1) + 1 = i
      BY <1>1, <3>1
    <3> QED
      BY Zenon, <1>1, <3>1, <3>2
  <2> QED
    BY <2>1, <2>2 DEF Items
<1>4. r \in T
  BY <1>1 DEF QueueOf, Items
<1>5. Ranked(s) => Ranked(t)
  <2> SUFFICES ASSUME Ranked(s), NEW i \in 1..Len(t), NEW j \in 1..Len(t), t[i] \notin High, t[j] \in High
               PROVE  j < i
    BY DEF Ranked
  <2>1. i + 1 \in 1..Len(s) /\ j + 1 \in 1..Len(s) /\ s[i + 1] \notin High /\ s[j + 1] \in High
    BY <1>1
  <2>2. j + 1 < i + 1
    BY <2>1 DEF Ranked
  <2> QED
    BY <1>1, <2>2
<1> QED
  BY <1>1, <1>2, <1>3, <1>4, <1>5 DEF QueueOf, t, r

(***************************************************************************)
(* A request put at a place k of the queue (VecDeque::insert).             *)
(***************************************************************************)
LEMMA PutAt ==
  ASSUME NEW s, NEW T, QueueOf(s, T), NEW r \in Requests, r \notin T,
         NEW t, t \in Seq(Requests), Len(t) = Len(s) + 1, NEW k \in 1..Len(s) + 1,
         \A i \in 1..Len(t) : t[i] = (IF i < k THEN s[i] ELSE IF i = k THEN r ELSE s[i - 1])
  PROVE  QueueOf(t, T \cup {r})
<1>1. Len(s) \in Nat /\ \A i \in 1..Len(s) : s[i] \in T
  BY DEF QueueOf, Items
<1> DEFINE at(i) == IF i < k THEN i ELSE i - 1
<1>2. \A i \in 1..Len(t) : i # k => at(i) \in 1..Len(s) /\ t[i] = s[at(i)] /\ t[i] # r
  BY <1>1
<1>3. k \in 1..Len(t) /\ t[k] = r
  BY <1>1
<1>4. \A i, j \in 1..Len(t) : (i # k /\ j # k /\ at(i) = at(j)) => i = j
  BY <1>1
<1>5. \A i \in 1..Len(s) : \E j \in 1..Len(t) : t[j] = s[i]
  <2> TAKE i \in 1..Len(s)
  <2>1. CASE i < k
    BY <1>1, <2>1
  <2>2. CASE i >= k
    <3>1. i + 1 \in 1..Len(t) /\ i + 1 # k /\ at(i + 1) = i
      BY <1>1, <2>2
    <3> QED
      BY Zenon, <1>2, <3>1
  <2> QED
    BY <2>1, <2>2, <1>1
<1> HIDE DEF at
<1>6. Distinct(t)
  <2> SUFFICES ASSUME NEW i \in 1..Len(t), NEW j \in 1..Len(t), t[i] = t[j]
               PROVE  i = j
    BY DEF Distinct
  <2>1. CASE i = k \/ j = k
    BY <1>2, <1>3, <2>1
  <2>2. CASE i # k /\ j # k
    <3>1. at(i) \in 1..Len(s) /\ at(j) \in 1..Len(s) /\ s[at(i)] = s[at(j)]
      BY <1>2, <2>2
    <3>2. at(i) = at(j)
      BY <3>1 DEF Distinct, QueueOf
    <3> QED
      BY <1>4, <2>2, <3>2
  <2> QED
    BY <2>1, <2>2
<1>7. \A i \in 1..Len(t) : t[i] \in T \cup {r}
  BY <1>1, <1>2, <1>3, Zenon
<1>8. \A x \in T \cup {r} : \E i \in 1..Len(t) : t[i] = x
  <2>1. \A x \in T : \E i \in 1..Len(s) : s[i] = x
    BY DEF QueueOf, Items
  <2>2. \A x \in T : \E i \in 1..Len(t) : t[i] = x
    BY <2>1, <1>5, Zenon
  <2> QED
    BY <1>3, <2>2, Zenon
<1>9. Items(t) = T \cup {r}
  BY <1>7, <1>8 DEF Items
<1> QED
  BY <1>6, <1>9 DEF QueueOf

\* A sequence behind another.
LEMMA Joined ==
  ASSUME NEW S, NEW c \in Seq(S), NEW b \in Seq(S)
  PROVE  /\ c \o b \in Seq(S) /\ Len(c \o b) = Len(c) + Len(b)
         /\ \A i \in 1..Len(c \o b) : (c \o b)[i] = (IF i <= Len(c) THEN c[i] ELSE b[i - Len(c)])
OBVIOUS

(***************************************************************************)
(* A request is queued: behind the others if it is normal, and in front of *)
(* the normal ones if it is high.                                          *)
(***************************************************************************)
LEMMA EnqueuedIn ==
  ASSUME NEW s, NEW T, QueueOf(s, T), Ranked(s), NEW r \in Requests, r \notin T
  PROVE  QueueOf(Enqueued(s, r), T \cup {r}) /\ Ranked(Enqueued(s, r))
<1> DEFINE t == Enqueued(s, r)
           normal == {i \in 1..Len(s) : s[i] \notin High}
<1>1. s \in Seq(Requests) /\ Len(s) \in Nat
  BY DEF QueueOf
<1>2. CASE r \notin High
  <2>1. t = Append(s, r)
    BY <1>2, Zenon DEF Enqueued
  <2>2. QueueOf(t, T \cup {r})
    BY <2>1, AppendedTo
  <2>3. Len(t) = Len(s) + 1 /\ t[Len(s) + 1] = r /\ \A i \in 1..Len(s) : t[i] = s[i]
    BY <1>1, <2>1
  <2> HIDE DEF t
  <2>4. Ranked(t)
    BY <1>1, <1>2, <2>3 DEF Ranked
  <2> QED
    BY <2>2, <2>4 DEF t
<1>3. CASE r \in High /\ normal = {}
  <2>1. t = <<r>> \o s
    BY <1>3 DEF Enqueued
  <2>2. /\ t \in Seq(Requests) /\ Len(t) = Len(s) + 1
        /\ \A i \in 1..Len(t) : t[i] = (IF i < 1 THEN s[i] ELSE IF i = 1 THEN r ELSE s[i - 1])
    BY <1>1, <2>1
  <2> HIDE DEF t
  <2>3. QueueOf(t, T \cup {r})
    <3>1. 1 \in 1..Len(s) + 1
      BY <1>1
    <3> QED
      BY Zenon, <2>2, <3>1, PutAt
  <2>4. \A i \in 1..Len(t) : t[i] \in High
    BY <1>1, <1>3, <2>2
  <2> QED
    BY <2>3, <2>4 DEF t, Ranked
<1>4. CASE r \in High /\ normal # {}
  <2> DEFINE k == CHOOSE i \in normal : \A j \in normal : i <= j
  <2>1. t = SubSeq(s, 1, k - 1) \o <<r>> \o SubSeq(s, k, Len(s))
    BY Zenon, <1>4 DEF Enqueued
  <2>2. k \in normal /\ \A j \in normal : k <= j
    <3>1. normal \subseteq Nat
      BY <1>1
    <3> HIDE DEF normal
    <3>2. \E i \in normal : \A j \in normal : i <= j
      BY Zenon, <1>4, <3>1, LeastNatural
    <3> QED
      BY <3>2
  <2> HIDE DEF k
  <2>3. /\ t \in Seq(Requests) /\ Len(t) = Len(s) + 1
        /\ \A i \in 1..Len(t) : t[i] = (IF i < k THEN s[i] ELSE IF i = k THEN r ELSE s[i - 1])
    <3> DEFINE a == SubSeq(s, 1, k - 1)
               b == SubSeq(s, k, Len(s))
               c == a \o <<r>>
    <3>1. k \in 1..Len(s)
      BY <2>2
    <3>2. t = c \o b
      BY <2>1
    <3>3. a \in Seq(Requests) /\ Len(a) = k - 1 /\ \A i \in 1..k - 1 : a[i] = s[i]
      BY <1>1, <3>1
    <3>4. b \in Seq(Requests) /\ Len(b) = Len(s) - k + 1 /\ \A i \in 1..Len(b) : b[i] = s[k + i - 1]
      BY <1>1, <3>1
    <3> HIDE DEF a, b, t
    <3>5. /\ c \in Seq(Requests) /\ Len(c) = k /\ c[k] = r
          /\ \A i \in 1..k - 1 : c[i] = s[i]
      BY <3>1, <3>3
    <3> HIDE DEF c
    <3>6. /\ t \in Seq(Requests) /\ Len(t) = Len(c) + Len(b)
          /\ \A i \in 1..Len(t) : t[i] = (IF i <= Len(c) THEN c[i] ELSE b[i - Len(c)])
      BY SMTT(30), <3>2, <3>4, <3>5, Joined
    <3>7. Len(t) = Len(s) + 1
      BY <1>1, <3>1, <3>4, <3>5, <3>6
    <3>8. ASSUME NEW i \in 1..Len(t)
          PROVE  t[i] = (IF i < k THEN s[i] ELSE IF i = k THEN r ELSE s[i - 1])
      <4>1. t[i] = (IF i <= k THEN c[i] ELSE b[i - k])
        BY <3>5, <3>6
      <4>2. i < k => i \in 1..k - 1
        BY <3>1
      <4>3. i > k => i - k \in 1..Len(b) /\ k + (i - k) - 1 = i - 1
        BY <1>1, <3>1, <3>4, <3>7
      <4>4. i > k => b[i - k] = s[i - 1]
        BY <3>4, <4>3
      <4> QED
        BY <3>1, <3>5, <4>1, <4>2, <4>4
    <3> QED
      BY <3>6, <3>7, <3>8
  <2> HIDE DEF t
  <2>4. QueueOf(t, T \cup {r})
    <3>1. k \in 1..Len(s) + 1
      BY <1>1, <2>2
    <3> QED
      BY Zenon, <2>3, <3>1, PutAt
  <2>5. \A i \in 1..Len(s) : i < k <=> s[i] \in High
    BY <1>1, <2>2 DEF Ranked
  <2>6. \A i \in 1..Len(t) : i <= k <=> t[i] \in High
    <3> TAKE i \in 1..Len(t)
    <3>1. k \in 1..Len(s) /\ i \in Nat
      BY <1>1, <2>2
    <3>2. CASE i < k
      <4>1. i \in 1..Len(s) /\ t[i] = s[i]
        BY <1>1, <2>3, <3>1, <3>2
      <4> QED
        BY <2>5, <3>1, <3>2, <4>1
    <3>3. CASE i = k
      BY <1>4, <2>3, <3>1, <3>3
    <3>4. CASE i > k
      <4>1. i - 1 \in 1..Len(s) /\ t[i] = s[i - 1] /\ ~ (i - 1 < k) /\ ~ (i <= k)
        BY <1>1, <2>3, <3>1, <3>4
      <4> QED
        BY <2>5, <4>1
    <3> QED
      BY <3>1, <3>2, <3>3, <3>4
  <2>7. Ranked(t)
    <3> SUFFICES ASSUME NEW i \in 1..Len(t), NEW j \in 1..Len(t), t[i] \notin High, t[j] \in High
                 PROVE  j < i
      BY DEF Ranked
    <3>1. ~ (i <= k) /\ j <= k
      BY <2>6, Zenon
    <3>2. i \in Int /\ j \in Int /\ k \in Int
      BY <1>1, <2>2
    <3> QED
      BY <3>1, <3>2
  <2> QED
    BY <2>4, <2>7 DEF t
<1> QED
  BY <1>2, <1>3, <1>4

-----------------------------------------------------------------------------
\* The requests in flight, each with one peer.
Flights(f) == {f[p] : p \in DOMAIN f}
FlightOf(f, D) == f \in [D -> Requests] /\ \A p, q \in D : f[p] = f[q] => p = q

FlightLeft(f, g, D, p) ==
  /\ FlightOf(g, D \ {p}) /\ \A q \in D \ {p} : g[q] = f[q]
  /\ p \in D => f[p] \in Flights(f) /\ Flights(g) = Flights(f) \ {f[p]}
  /\ p \notin D => Flights(g) = Flights(f)

\* A peer's request is no longer in flight.
LEMMA FlightDropped ==
  ASSUME NEW f, NEW D, FlightOf(f, D), NEW p
  PROVE  FlightLeft(f, Dropped(f, p), D, p)
<1> DEFINE g == Dropped(f, p)
<1>1. DOMAIN f = D /\ g \in [D \ {p} -> Requests] /\ \A q \in D \ {p} : g[q] = f[q]
  BY DEF FlightOf, Dropped
<1> HIDE DEF g
<1>2. FlightOf(g, D \ {p})
  BY <1>1 DEF FlightOf
<1>3. \A x : x \in Flights(g) <=> \E q \in D \ {p} : f[q] = x
  BY <1>1 DEF Flights
<1>4. \A x : x \in Flights(f) <=> \E q \in D : f[q] = x
  BY <1>1 DEF Flights
<1>5. p \in D => Flights(g) = Flights(f) \ {f[p]}
  BY <1>3, <1>4 DEF FlightOf
<1>6. p \notin D => Flights(g) = Flights(f)
  BY <1>3, <1>4
<1> QED
  BY <1>1, <1>2, <1>4, <1>5, <1>6 DEF g, FlightLeft

FlightMoved(f, g, D, p, r) ==
  /\ FlightOf(g, D \cup {p}) /\ g[p] = r /\ \A q \in D \ {p} : g[q] = f[q]
  /\ p \in D => f[p] \in Flights(f) /\ Flights(g) = (Flights(f) \ {f[p]}) \cup {r}
  /\ p \notin D => Flights(g) = Flights(f) \cup {r}

\* A peer is given a request that is not in flight.
LEMMA FlightPlaced ==
  ASSUME NEW f, NEW D, FlightOf(f, D), NEW p, NEW r \in Requests, r \notin Flights(f)
  PROVE  FlightMoved(f, Placed(f, p, r), D, p, r)
<1> DEFINE g == Placed(f, p, r)
<1>1. DOMAIN f = D /\ g \in [D \cup {p} -> Requests] /\ g[p] = r /\ \A q \in D \ {p} : g[q] = f[q]
  BY DEF FlightOf, Placed
<1> HIDE DEF g
<1>2. \A x : x \in Flights(g) <=> (x = r \/ \E q \in D \ {p} : f[q] = x)
  BY <1>1 DEF Flights
<1>3. \A x : x \in Flights(f) <=> \E q \in D : f[q] = x
  BY <1>1 DEF Flights
<1>4. FlightOf(g, D \cup {p})
  BY <1>1, <1>3 DEF FlightOf
<1>5. p \in D => Flights(g) = (Flights(f) \ {f[p]}) \cup {r}
  BY <1>2, <1>3 DEF FlightOf
<1>6. p \notin D => Flights(g) = Flights(f) \cup {r}
  BY <1>2, <1>3
<1> QED
  BY <1>1, <1>3, <1>4, <1>5, <1>6 DEF g, FlightMoved
-----------------------------------------------------------------------------
PeerRecord == [state : {"Idle", "GetBlockHeaders", "GetBlockBodies", "Closing"}, bad : BOOLEAN]
Results == {"ok", "bad", "error"}

BlocksTyped ==
  /\ DOMAIN pending \subseteq PeerIds /\ DOMAIN inflight \subseteq DOMAIN pending
  /\ peers \in [DOMAIN pending -> PeerRecord]
  /\ pending \in [DOMAIN pending -> Requests \cup {NoRequest}]
  /\ session \in [PeerIds -> {"none", "open", "closing", "ended"}]
  /\ held \in [PeerIds -> SUBSET [req : Requests, late : BOOLEAN]]
  /\ oneshot \in [Requests -> Results \cup {"none", "closed"}]
  /\ answer \in [Requests -> Results \cup {"unsent", "none", "dropped"}]

\* An unanswered request is at one place: in the channel, queued or in flight.
Apart(C, Q, F, A) == C \cap Q = {} /\ C \cap F = {} /\ Q \cap F = {} /\ C \cup Q \cup F = A

Unanswered == {r \in Requests : answer[r] = "none"}

PlacesApart ==
  /\ QueueOf(channel, Items(channel)) /\ QueueOf(queued, Items(queued)) /\ Ranked(queued)
  /\ FlightOf(inflight, DOMAIN inflight)
  /\ Apart(Items(channel), Items(queued), Flights(inflight), Unanswered)

\* A peer that is idle has no request, and a request that no peer was given has
\* no answer from a session.
AnswersAwaited ==
  /\ ResponseMatches
  /\ \A p \in DOMAIN pending : peers[p].state = "Idle" => p \notin DOMAIN inflight
  /\ \A r \in Requests : oneshot[r] # "none" => r \in Flights(inflight) \/ answer[r] \notin {"none", "unsent"}

\* A session that is not there holds nothing, and what one has to answer is the
\* request its peer was given.
SessionsHold ==
  /\ \A p \in PeerIds : session[p] \in {"none", "ended"} => held[p] = {}
  /\ \A p \in DOMAIN pending : session[p] # "none"
  /\ \A p \in PeerIds : \A h \in held[p] :
       ~h.late => p \in DOMAIN inflight /\ inflight[p] = h.req /\ oneshot[h.req] = "none"

\* The sender of an answer is dropped only by a session that ends.
ClosedIsEnded == \A p \in DOMAIN inflight : oneshot[inflight[p]] = "closed" => session[p] = "ended"

BlocksInv ==
  /\ BlocksTyped /\ PlacesApart /\ AnswersAwaited /\ SessionsHold
  /\ ChannelFull \/ (ClosedIsEnded /\ DroppedWhenClosed)

\* A client sends a request (FetchClient): it is in the channel and nowhere else.
LEMMA SendIsRight ==
  ASSUME BlocksInv, NEW r \in Requests, SendRequest(r)
  PROVE  BlocksInv' /\ ClosingNotAsked
<1>1. /\ answer[r] = "unsent" /\ answer' = [answer EXCEPT ![r] = "none"] /\ channel' = Append(channel, r)
      /\ UNCHANGED <<queued, peers, inflight, pending, session, held, oneshot>>
  BY DEF SendRequest
<1>2. /\ answer' \in [Requests -> Results \cup {"unsent", "none", "dropped"}] /\ answer'[r] = "none"
      /\ \A q \in Requests \ {r} : answer'[q] = answer[q]
  BY <1>1 DEF BlocksInv, BlocksTyped
<1>3. BlocksTyped'
  BY <1>1, <1>2, Zenon DEF BlocksInv, BlocksTyped
<1>4. r \notin Unanswered /\ Unanswered' = Unanswered \cup {r}
  BY <1>1, <1>2 DEF Unanswered
<1>5. PlacesApart'
  <2> DEFINE C == Items(channel)
             Q == Items(queued)
             F == Flights(inflight)
  <2>1. QueueOf(channel, C) /\ Apart(C, Q, F, Unanswered) /\ r \notin C
    BY <1>4 DEF BlocksInv, PlacesApart, Apart
  <2>2. QueueOf(channel', C \cup {r})
    BY <1>1, <2>1, AppendedTo
  <2>3. Items(channel') = C \cup {r}
    BY <2>2, Zenon DEF QueueOf
  <2> HIDE DEF C
  <2>4. Apart(C \cup {r}, Q, F, Unanswered')
    BY <1>4, <2>1 DEF Apart
  <2> QED
    BY <1>1, <2>2, <2>3, <2>4, Zenon DEF BlocksInv, PlacesApart
<1>6. AnswersAwaited'
  BY <1>1, <1>2 DEF BlocksInv, AnswersAwaited, ResponseMatches
<1>7. SessionsHold' /\ (ChannelFull \/ (ClosedIsEnded /\ DroppedWhenClosed)')
  BY <1>1, Zenon DEF BlocksInv, SessionsHold, ClosedIsEnded, DroppedWhenClosed
<1>8. ClosingNotAsked
  BY <1>1, Zenon DEF ClosingNotAsked
<1> QED
  BY <1>3, <1>5, <1>6, <1>7, <1>8, Zenon DEF BlocksInv

\* The fetcher takes a request from the channel into its queue.
LEMMA DrainIsRight ==
  ASSUME BlocksInv, Drain
  PROVE  BlocksInv' /\ ClosingNotAsked
<1> DEFINE r == Head(channel)
           C == Items(channel)
           Q == Items(queued)
           F == Flights(inflight)
<1>1. /\ channel # <<>> /\ channel' = Tail(channel) /\ queued' = Enqueued(queued, r)
      /\ UNCHANGED <<peers, inflight, pending, session, held, oneshot, answer>>
  BY DEF Drain
<1>2. BlocksTyped' /\ AnswersAwaited' /\ SessionsHold' /\ (ChannelFull \/ (ClosedIsEnded /\ DroppedWhenClosed)')
  BY <1>1, Zenon DEF BlocksInv, BlocksTyped, AnswersAwaited, ResponseMatches, SessionsHold, ClosedIsEnded, DroppedWhenClosed
<1>3. /\ QueueOf(channel, C) /\ QueueOf(queued, Q) /\ Ranked(queued) /\ Apart(C, Q, F, Unanswered)
      /\ FlightOf(inflight, DOMAIN inflight)
  BY Zenon DEF BlocksInv, PlacesApart
<1> HIDE DEF r, C, Q, F
<1>4. r \in C /\ QueueOf(channel', C \ {r})
  BY <1>1, <1>3, TakenFrom, Zenon DEF r
<1>5. r \in Requests /\ r \notin Q
  BY <1>3, <1>4 DEF Apart, Unanswered
<1>6. QueueOf(queued', Q \cup {r}) /\ Ranked(queued')
  BY <1>1, <1>3, <1>5, EnqueuedIn, Zenon
<1>7. Apart(C \ {r}, Q \cup {r}, F, Unanswered)
  BY <1>3, <1>4 DEF Apart
<1>8. Items(channel') = C \ {r} /\ Items(queued') = Q \cup {r} /\ Unanswered' = Unanswered /\ Flights(inflight') = F
  BY <1>1, <1>4, <1>6, Zenon DEF QueueOf, Unanswered, F
<1>9. PlacesApart'
  BY <1>1, <1>3, <1>4, <1>6, <1>7, <1>8, Zenon DEF PlacesApart
<1>10. ClosingNotAsked
  BY <1>1, Zenon DEF ClosingNotAsked
<1> QED
  BY <1>2, <1>9, <1>10, Zenon DEF BlocksInv

\* What a step of a session or of the peer's state leaves alone.
LEMMA PlacesKept ==
  ASSUME PlacesApart, UNCHANGED <<channel, queued, inflight, answer>>
  PROVE  PlacesApart' /\ Flights(inflight)' = Flights(inflight)
BY Zenon DEF PlacesApart, Unanswered, Flights

\* A session answers what it holds, in time or not (on_response!,
\* check_timed_out_requests).
LEMMA HeldIsAnswered ==
  ASSUME BlocksInv, NEW p \in PeerIds, NEW h \in held[p], NEW rest \in SUBSET [req : Requests, late : BOOLEAN],
         NEW res \in Results, session[p] = "open", held' = [held EXCEPT ![p] = rest],
         \A k \in rest : k.late \/ (k \in held[p] /\ k # h),
         oneshot' = (IF h.late THEN oneshot ELSE [oneshot EXCEPT ![h.req] = res]),
         UNCHANGED <<channel, queued, peers, inflight, pending, session, answer>>
  PROVE  BlocksInv' /\ ClosingNotAsked
<1>1. /\ held \in [PeerIds -> SUBSET [req : Requests, late : BOOLEAN]] /\ h.req \in Requests /\ h.late \in BOOLEAN
      /\ oneshot \in [Requests -> Results \cup {"none", "closed"}]
  BY DEF BlocksInv, BlocksTyped
<1>2. /\ held' \in [PeerIds -> SUBSET [req : Requests, late : BOOLEAN]] /\ held'[p] = rest
      /\ \A q \in PeerIds \ {p} : held'[q] = held[q]
  BY <1>1
<1>3. /\ oneshot' \in [Requests -> Results \cup {"none", "closed"}]
      /\ h.late => oneshot' = oneshot
      /\ ~h.late => oneshot'[h.req] = res
      /\ \A r \in Requests : r # h.req => oneshot'[r] = oneshot[r]
  BY <1>1
<1>4. BlocksTyped'
  BY <1>2, <1>3, Zenon DEF BlocksInv, BlocksTyped
<1>5. PlacesApart' /\ Flights(inflight)' = Flights(inflight)
  BY PlacesKept, Zenon DEF BlocksInv
<1>6. ~h.late => p \in DOMAIN inflight /\ inflight[p] = h.req /\ oneshot[h.req] = "none" /\ h.req \in Flights(inflight)
  BY DEF BlocksInv, SessionsHold, Flights
<1>7. AnswersAwaited'
  BY <1>3, <1>5, <1>6 DEF BlocksInv, AnswersAwaited, ResponseMatches
<1>8. ASSUME NEW q \in PeerIds, NEW k \in held'[q], ~k.late
      PROVE  q \in DOMAIN inflight /\ inflight[q] = k.req /\ oneshot'[k.req] = "none"
  <2>1. k \in held[q] /\ (q = p => k # h) /\ k.req \in Requests /\ k \in [req : Requests, late : BOOLEAN]
    BY <1>1, <1>2, <1>8
  <2>2. q \in DOMAIN inflight /\ inflight[q] = k.req /\ oneshot[k.req] = "none"
    BY <1>8, <2>1, Zenon DEF BlocksInv, SessionsHold
  <2>3. CASE h.late
    BY <1>3, <2>2, <2>3
  <2>4. CASE ~h.late
    <3>1. k.req = h.req => q = p
      BY <1>6, <2>2, <2>4, Zenon DEF BlocksInv, PlacesApart, FlightOf
    <3>2. k.req = h.req => k = h
      BY <1>1, <1>8, <2>1, <2>4
    <3> QED
      BY <1>3, <2>1, <2>2, <3>1, <3>2
  <2> QED
    BY <2>3, <2>4
<1>9. SessionsHold'
  <2>1. \A q \in PeerIds : session[q] \in {"none", "ended"} => held'[q] = {}
    BY <1>2 DEF BlocksInv, SessionsHold
  <2> QED
    BY <1>8, <2>1, ZenonT(120) DEF BlocksInv, SessionsHold
<1>10. ChannelFull \/ (ClosedIsEnded /\ DroppedWhenClosed)'
  <2>1. \A r \in Requests : oneshot'[r] = "closed" => oneshot[r] = "closed"
    BY <1>3 DEF Results
  <2>2. \A q \in DOMAIN inflight : inflight[q] \in Requests
    BY DEF BlocksInv, PlacesApart, FlightOf
  <2> QED
    BY <2>1, <2>2, Zenon DEF BlocksInv, ClosedIsEnded, DroppedWhenClosed
<1>11. ClosingNotAsked
  BY Zenon DEF ClosingNotAsked
<1> QED
  BY <1>4, <1>5, <1>7, <1>9, <1>10, <1>11, Zenon DEF BlocksInv

\* A session answers the request it holds.
LEMMA RespondIsRight ==
  ASSUME BlocksInv, NEW p \in PeerIds, Respond(p)
  PROVE  BlocksInv' /\ ClosingNotAsked
<1>1. PICK h \in held[p], res \in Results :
        /\ held' = [held EXCEPT ![p] = held[p] \ {h}]
        /\ oneshot' = (IF h.late THEN oneshot ELSE [oneshot EXCEPT ![h.req] = res])
  BY Zenon DEF Respond, Results
<1>2. held[p] \ {h} \in SUBSET [req : Requests, late : BOOLEAN]
  BY DEF BlocksInv, BlocksTyped
<1>3. session[p] = "open" /\ UNCHANGED <<channel, queued, peers, inflight, pending, session, answer>>
  BY DEF Respond
<1>4. \A k \in held[p] \ {h} : k.late \/ (k \in held[p] /\ k # h)
  OBVIOUS
<1> QED
  BY <1>1, <1>2, <1>3, <1>4, HeldIsAnswered, Zenon

\* A request whose deadline has passed is answered with an error.
LEMMA RequestTimeoutIsRight ==
  ASSUME BlocksInv, NEW p \in PeerIds, RequestTimeout(p)
  PROVE  BlocksInv' /\ ClosingNotAsked
<1>1. PICK h \in held[p] :
        /\ ~h.late /\ held' = [held EXCEPT ![p] = (held[p] \ {h}) \cup {[h EXCEPT !.late = TRUE]}]
        /\ oneshot' = [oneshot EXCEPT ![h.req] = "error"]
  BY Zenon DEF RequestTimeout
<1> DEFINE rest == (held[p] \ {h}) \cup {[h EXCEPT !.late = TRUE]}
<1>2. held[p] \in SUBSET [req : Requests, late : BOOLEAN]
  BY DEF BlocksInv, BlocksTyped
<1>3. [h EXCEPT !.late = TRUE] \in [req : Requests, late : BOOLEAN] /\ [h EXCEPT !.late = TRUE].late
  BY Zenon, <1>2
<1>4. rest \in SUBSET [req : Requests, late : BOOLEAN] /\ \A k \in rest : k.late \/ (k \in held[p] /\ k # h)
  BY <1>2, <1>3, Zenon
<1>5. session[p] = "open" /\ UNCHANGED <<channel, queued, peers, inflight, pending, session, answer>>
  BY DEF RequestTimeout
<1>6. "error" \in Results /\ oneshot' = (IF h.late THEN oneshot ELSE [oneshot EXCEPT ![h.req] = "error"])
  BY <1>1 DEF Results
<1>7. held' = [held EXCEPT ![p] = rest]
  BY <1>1
<1> HIDE DEF rest
<1> QED
  BY <1>4, <1>5, <1>6, <1>7, HeldIsAnswered, ZenonT(120)

\* The end of a session drops the requests it has not answered.
LEMMA SessionEndsIsRight ==
  ASSUME BlocksInv, NEW p \in PeerIds, SessionEnds(p)
  PROVE  BlocksInv' /\ ClosingNotAsked
<1>1. /\ session' = [session EXCEPT ![p] = "ended"] /\ held' = [held EXCEPT ![p] = {}]
      /\ oneshot' = [r \in Requests |-> IF \E h \in held[p] : h.req = r /\ ~h.late THEN "closed" ELSE oneshot[r]]
      /\ session[p] \in {"open", "closing"} /\ UNCHANGED <<channel, queued, peers, inflight, pending, answer>>
  BY Zenon DEF SessionEnds
<1>2. /\ session' \in [PeerIds -> {"none", "open", "closing", "ended"}] /\ session'[p] = "ended"
      /\ \A q \in PeerIds \ {p} : session'[q] = session[q]
  BY <1>1 DEF BlocksInv, BlocksTyped
<1>3. /\ held' \in [PeerIds -> SUBSET [req : Requests, late : BOOLEAN]] /\ held'[p] = {}
      /\ \A q \in PeerIds \ {p} : held'[q] = held[q]
  BY <1>1 DEF BlocksInv, BlocksTyped
<1>4. /\ oneshot' \in [Requests -> Results \cup {"none", "closed"}]
      /\ \A r \in Requests : oneshot'[r] = oneshot[r] \/ (p \in DOMAIN inflight /\ inflight[p] = r)
  BY <1>1 DEF BlocksInv, BlocksTyped, SessionsHold
<1>5. BlocksTyped'
  BY <1>1, <1>2, <1>3, <1>4, Zenon DEF BlocksInv, BlocksTyped
<1>6. PlacesApart' /\ Flights(inflight)' = Flights(inflight)
  BY <1>1, PlacesKept, Zenon DEF BlocksInv
<1>7. AnswersAwaited'
  <2>1. p \in DOMAIN inflight => inflight[p] \in Flights(inflight)
    BY DEF Flights
  <2> QED
    BY <1>1, <1>4, <1>6, <2>1, Zenon DEF BlocksInv, AnswersAwaited, ResponseMatches
<1>8. \A q \in PeerIds \ {p} : q \in DOMAIN inflight => oneshot'[inflight[q]] = oneshot[inflight[q]]
  <2>1. \A q \in DOMAIN inflight : inflight[q] \in Requests /\ (p \in DOMAIN inflight /\ inflight[p] = inflight[q] => p = q)
    BY DEF BlocksInv, PlacesApart, FlightOf
  <2> QED
    BY <1>4, <2>1
<1>9. SessionsHold'
  <2>1. \A q \in PeerIds : session'[q] \in {"none", "ended"} => held'[q] = {}
    BY <1>2, <1>3 DEF BlocksInv, SessionsHold
  <2>2. \A q \in DOMAIN pending : session'[q] # "none"
    BY <1>2 DEF BlocksInv, SessionsHold, BlocksTyped
  <2>3. ASSUME NEW q \in PeerIds, NEW k \in held'[q], ~k.late
        PROVE  q \in DOMAIN inflight /\ inflight[q] = k.req /\ oneshot'[k.req] = "none"
    <3>1. q \in PeerIds \ {p} /\ k \in held[q]
      BY <1>3
    <3>2. q \in DOMAIN inflight /\ inflight[q] = k.req /\ oneshot[k.req] = "none"
      BY <2>3, <3>1, Zenon DEF BlocksInv, SessionsHold
    <3> QED
      BY <1>8, <3>1, <3>2
  <2> QED
    BY <1>1, <2>1, <2>2, <2>3, ZenonT(60) DEF SessionsHold
<1>10. ChannelFull \/ (ClosedIsEnded /\ DroppedWhenClosed)'
  <2> SUFFICES ASSUME ClosedIsEnded, DroppedWhenClosed
               PROVE  ClosedIsEnded' /\ DroppedWhenClosed'
    BY DEF BlocksInv
  <2>1. DOMAIN inflight \subseteq PeerIds
    BY DEF BlocksInv, BlocksTyped
  <2>2. ClosedIsEnded'
    BY <1>1, <1>2, <1>8, <2>1 DEF ClosedIsEnded
  <2>3. DroppedWhenClosed'
    BY <1>1, <1>2 DEF DroppedWhenClosed
  <2> QED
    BY <2>2, <2>3
<1>11. ClosingNotAsked
  BY <1>1, Zenon DEF ClosingNotAsked
<1> QED
  BY <1>5, <1>6, <1>7, <1>9, <1>10, <1>11, Zenon DEF BlocksInv

\* A peer that is told to disconnect is marked, and keeps what it was given.
LEMMA DisconnectIsRight ==
  ASSUME BlocksInv, NEW p \in PeerIds, Disconnect(p)
  PROVE  BlocksInv' /\ ClosingNotAsked
<1>1. /\ session' = [session EXCEPT ![p] = "closing"] /\ session[p] = "open"
      /\ peers' = (IF p \in DOMAIN peers THEN [peers EXCEPT ![p].state = "Closing"] ELSE peers)
      /\ UNCHANGED <<channel, queued, inflight, pending, held, oneshot, answer>>
  BY Zenon DEF Disconnect
<1>2. /\ session' \in [PeerIds -> {"none", "open", "closing", "ended"}] /\ session'[p] = "closing"
      /\ \A q \in PeerIds \ {p} : session'[q] = session[q]
  BY <1>1 DEF BlocksInv, BlocksTyped
<1>3. /\ peers' \in [DOMAIN pending -> PeerRecord] /\ (p \in DOMAIN pending => peers'[p].state = "Closing")
      /\ \A q \in DOMAIN pending \ {p} : peers'[q] = peers[q]
  BY <1>1 DEF BlocksInv, BlocksTyped, PeerRecord
<1>4. BlocksTyped'
  BY <1>1, <1>2, <1>3, Zenon DEF BlocksInv, BlocksTyped
<1>5. PlacesApart' /\ Flights(inflight)' = Flights(inflight)
  BY <1>1, PlacesKept, Zenon DEF BlocksInv
<1>6. AnswersAwaited'
  <2>1. \A q \in DOMAIN pending : peers'[q].state = "Idle" => q \notin DOMAIN inflight
    BY <1>3 DEF BlocksInv, AnswersAwaited
  <2> QED
    BY <1>1, <1>5, <2>1, Zenon DEF BlocksInv, AnswersAwaited, ResponseMatches
<1>7. SessionsHold'
  <2>1. \A q \in PeerIds : session'[q] \in {"none", "ended"} => held[q] = {}
    BY <1>2 DEF BlocksInv, SessionsHold
  <2>2. \A q \in DOMAIN pending : session'[q] # "none"
    BY <1>2 DEF BlocksInv, SessionsHold, BlocksTyped
  <2> QED
    BY <1>1, <2>1, <2>2, Zenon DEF BlocksInv, SessionsHold
<1>8. ChannelFull \/ (ClosedIsEnded /\ DroppedWhenClosed)'
  <2> SUFFICES ASSUME ClosedIsEnded, DroppedWhenClosed
               PROVE  ClosedIsEnded' /\ DroppedWhenClosed'
    BY DEF BlocksInv
  <2>1. DOMAIN inflight \subseteq PeerIds
    BY DEF BlocksInv, BlocksTyped
  <2>2. ClosedIsEnded'
    BY <1>1, <1>2, <2>1 DEF ClosedIsEnded
  <2>3. DroppedWhenClosed'
    BY <1>1, <1>2 DEF DroppedWhenClosed
  <2> QED
    BY <2>2, <2>3
<1>9. ClosingNotAsked
  <2>1. DOMAIN peers = DOMAIN pending
    BY DEF BlocksInv, BlocksTyped
  <2> QED
    BY <1>1, <1>3, <2>1, Zenon DEF ClosingNotAsked
<1> QED
  BY <1>4, <1>5, <1>6, <1>7, <1>8, <1>9, Zenon DEF BlocksInv

\* A new session makes an idle peer with nothing in flight.
LEMMA ActivateIsRight ==
  ASSUME BlocksInv, NEW p \in PeerIds, Activate(p)
  PROVE  BlocksInv' /\ ClosingNotAsked
<1>1. /\ session[p] = "none" /\ session' = [session EXCEPT ![p] = "open"]
      /\ peers' = Placed(peers, p, [state |-> "Idle", bad |-> FALSE]) /\ pending' = Placed(pending, p, NoRequest)
      /\ UNCHANGED <<channel, queued, inflight, held, oneshot, answer>>
  BY Zenon DEF Activate
<1>2. /\ session' \in [PeerIds -> {"none", "open", "closing", "ended"}] /\ session'[p] = "open"
      /\ \A q \in PeerIds \ {p} : session'[q] = session[q]
  BY <1>1 DEF BlocksInv, BlocksTyped
<1>3. p \notin DOMAIN pending /\ p \notin DOMAIN inflight /\ DOMAIN peers = DOMAIN pending
  BY <1>1 DEF BlocksInv, BlocksTyped, SessionsHold
<1>4. /\ DOMAIN pending' = DOMAIN pending \cup {p} /\ pending'[p] = NoRequest
      /\ \A q \in DOMAIN pending : pending'[q] = pending[q]
      /\ pending' \in [DOMAIN pending \cup {p} -> Requests \cup {NoRequest}]
  BY <1>1, <1>3 DEF BlocksInv, BlocksTyped, Placed
<1>5. [state |-> "Idle", bad |-> FALSE] \in PeerRecord
  BY DEF PeerRecord
<1>6. peers' \in [DOMAIN pending \cup {p} -> PeerRecord] /\ \A q \in DOMAIN pending : peers'[q] = peers[q]
  BY <1>1, <1>3, <1>5 DEF BlocksInv, BlocksTyped, Placed
<1>7. BlocksTyped'
  <2>1. DOMAIN pending' \subseteq PeerIds /\ DOMAIN inflight \subseteq DOMAIN pending'
    BY <1>4 DEF BlocksInv, BlocksTyped
  <2> QED
    BY <1>1, <1>2, <1>4, <1>6, <2>1, Zenon DEF BlocksInv, BlocksTyped
<1>8. PlacesApart' /\ Flights(inflight)' = Flights(inflight)
  BY <1>1, PlacesKept, Zenon DEF BlocksInv
<1>9. AnswersAwaited'
  <2>1. ResponseMatches'
    BY <1>1, <1>3, <1>4 DEF BlocksInv, AnswersAwaited, ResponseMatches
  <2>2. \A q \in DOMAIN pending' : peers'[q].state = "Idle" => q \notin DOMAIN inflight
    BY <1>3, <1>4, <1>6 DEF BlocksInv, AnswersAwaited
  <2> QED
    BY <1>1, <1>8, <2>1, <2>2, Zenon DEF BlocksInv, AnswersAwaited
<1>10. SessionsHold'
  <2>1. \A q \in PeerIds : session'[q] \in {"none", "ended"} => held[q] = {}
    BY <1>2 DEF BlocksInv, SessionsHold
  <2>2. \A q \in DOMAIN pending' : session'[q] # "none"
    BY SMTT(30), <1>2, <1>4 DEF BlocksInv, SessionsHold, BlocksTyped
  <2> QED
    BY <1>1, <2>1, <2>2, Zenon DEF BlocksInv, SessionsHold
<1>11. ChannelFull \/ (ClosedIsEnded /\ DroppedWhenClosed)'
  <2> SUFFICES ASSUME ClosedIsEnded, DroppedWhenClosed
               PROVE  ClosedIsEnded' /\ DroppedWhenClosed'
    BY DEF BlocksInv
  <2>1. DOMAIN inflight \subseteq PeerIds
    BY DEF BlocksInv, BlocksTyped
  <2>2. ClosedIsEnded'
    BY <1>1, <1>2, <1>3, <2>1 DEF ClosedIsEnded
  <2>3. DroppedWhenClosed'
    BY <1>2, <1>4 DEF DroppedWhenClosed
  <2> QED
    BY <2>2, <2>3
<1>12. ClosingNotAsked
  BY <1>1, <1>3, <1>6, Zenon DEF ClosingNotAsked
<1> QED
  BY <1>7, <1>8, <1>9, <1>10, <1>11, <1>12, Zenon DEF BlocksInv

\* A peer is dropped with its request (on_session_closed), whose client is told.
LEMMA CloseIsRight ==
  ASSUME BlocksInv, NEW p \in PeerIds, Close(p), UNCHANGED <<channel, queued, held, oneshot>>,
         session' = session \/ session' = [session EXCEPT ![p] = "none"],
         \A h \in held[p] : h.late, session'[p] = "none" => held[p] = {},
         ChannelFull \/ session[p] = "ended"
  PROVE  BlocksInv' /\ ClosingNotAsked
<1> DEFINE D == DOMAIN pending
           N == DOMAIN inflight
           C == Items(channel)
           Q == Items(queued)
<1>1. /\ pending' = Dropped(pending, p) /\ peers' = Dropped(peers, p) /\ inflight' = Dropped(inflight, p)
      /\ answer' = (IF p \in N THEN [answer EXCEPT ![inflight[p]] = "dropped"] ELSE answer)
  BY Zenon DEF Close
<1>2. /\ session' \in [PeerIds -> {"none", "open", "closing", "ended"}]
      /\ \A q \in PeerIds \ {p} : session'[q] = session[q]
      /\ session'[p] = session[p] \/ session'[p] = "none"
  BY DEF BlocksInv, BlocksTyped
<1>3. DOMAIN peers = D /\ N \subseteq D /\ D \subseteq PeerIds
  BY DEF BlocksInv, BlocksTyped
<1>4. /\ DOMAIN pending' = D \ {p} /\ pending' \in [D \ {p} -> Requests \cup {NoRequest}]
      /\ \A q \in D \ {p} : pending'[q] = pending[q]
  BY <1>1 DEF BlocksInv, BlocksTyped, Dropped
<1>5. DOMAIN peers' = D \ {p} /\ peers' \in [D \ {p} -> PeerRecord] /\ \A q \in D \ {p} : peers'[q] = peers[q]
  BY <1>1, <1>3 DEF BlocksInv, BlocksTyped, Dropped
<1>6. /\ FlightOf(inflight, N) /\ QueueOf(channel, C) /\ QueueOf(queued, Q) /\ Ranked(queued)
      /\ Apart(C, Q, Flights(inflight), Unanswered)
  BY Zenon DEF BlocksInv, PlacesApart
<1> HIDE DEF D, N, C, Q
<1>7. /\ FlightOf(inflight', N \ {p}) /\ \A q \in N \ {p} : inflight'[q] = inflight[q]
      /\ p \in N => inflight[p] \in Flights(inflight) /\ Flights(inflight') = Flights(inflight) \ {inflight[p]}
      /\ p \notin N => Flights(inflight') = Flights(inflight)
  <2>1. FlightLeft(inflight, inflight', N, p)
    BY <1>1, <1>6, FlightDropped, Zenon
  <2> QED
    BY <2>1, Zenon DEF FlightLeft
<1>8. DOMAIN inflight' = N \ {p}
  BY <1>7 DEF FlightOf
<1>9. /\ answer' \in [Requests -> Results \cup {"unsent", "none", "dropped"}]
      /\ p \in N => answer'[inflight[p]] = "dropped" /\ Unanswered' = Unanswered \ {inflight[p]}
      /\ p \notin N => Unanswered' = Unanswered
      /\ \A r \in Requests : answer'[r] = answer[r] \/ (p \in N /\ r = inflight[p])
  BY <1>1, <1>6 DEF BlocksInv, BlocksTyped, FlightOf, Unanswered
<1>10. BlocksTyped'
  <2>1. DOMAIN pending' \subseteq PeerIds /\ DOMAIN inflight' \subseteq DOMAIN pending'
    BY <1>3, <1>4, <1>8
  <2>2. oneshot' = oneshot /\ held' = held
    OBVIOUS
  <2> QED
    BY <1>2, <1>4, <1>5, <1>9, <2>1, <2>2, ZenonT(120) DEF BlocksInv, BlocksTyped
<1>11. PlacesApart'
  <2>1. Apart(C, Q, Flights(inflight'), Unanswered')
    BY <1>6, <1>7, <1>9 DEF Apart
  <2> QED
    BY <1>6, <1>7, <1>8, <2>1, Zenon DEF PlacesApart, C, Q
<1>12. AnswersAwaited'
  <2>1. ResponseMatches'
    BY <1>4, <1>7, <1>8 DEF BlocksInv, AnswersAwaited, ResponseMatches, D, N
  <2>2. \A q \in DOMAIN pending' : peers'[q].state = "Idle" => q \notin DOMAIN inflight'
    BY <1>4, <1>5, <1>8, Zenon DEF BlocksInv, AnswersAwaited, D, N
  <2>3. ASSUME NEW r \in Requests, oneshot[r] # "none"
        PROVE  r \in Flights(inflight') \/ answer'[r] \notin {"none", "unsent"}
    <3>1. r \in Flights(inflight) \/ answer[r] \notin {"none", "unsent"}
      BY <2>3 DEF BlocksInv, AnswersAwaited
    <3> QED
      BY SMTT(30), <1>7, <1>9, <3>1
  <2> QED
    BY <2>1, <2>2, <2>3, Zenon DEF AnswersAwaited
<1>13. SessionsHold'
  <2>1. \A q \in PeerIds : session'[q] \in {"none", "ended"} => held[q] = {}
    BY <1>2 DEF BlocksInv, SessionsHold
  <2>2. \A q \in DOMAIN pending' : session'[q] # "none"
    BY SMTT(30), <1>2, <1>3, <1>4 DEF BlocksInv, SessionsHold, D
  <2>3. ASSUME NEW q \in PeerIds, NEW k \in held[q], ~k.late
        PROVE  q \in DOMAIN inflight' /\ inflight'[q] = k.req /\ oneshot[k.req] = "none"
    <3>1. q # p /\ q \in N /\ inflight[q] = k.req /\ oneshot[k.req] = "none"
      BY <2>3, Zenon DEF BlocksInv, SessionsHold, N
    <3> QED
      BY <1>7, <1>8, <3>1
  <2> QED
    BY <2>1, <2>2, <2>3, Zenon DEF SessionsHold
<1>14. ChannelFull \/ (ClosedIsEnded /\ DroppedWhenClosed)'
  <2> SUFFICES ASSUME ClosedIsEnded, DroppedWhenClosed, session[p] = "ended"
               PROVE  ClosedIsEnded' /\ DroppedWhenClosed'
    BY DEF BlocksInv
  <2>1. ClosedIsEnded'
    BY SMTT(30), <1>2, <1>3, <1>7, <1>8 DEF ClosedIsEnded, N
  <2>2. DroppedWhenClosed'
    BY SMTT(30), <1>2, <1>4 DEF DroppedWhenClosed, D
  <2> QED
    BY <2>1, <2>2
<1>15. ClosingNotAsked
  BY <1>3, <1>5, <1>7, <1>8 DEF ClosingNotAsked, N
<1> QED
  BY <1>10, <1>11, <1>12, <1>13, <1>14, <1>15, Zenon DEF BlocksInv

\* A peer that awaits no answer, or just got it, is given the first of the queued
\* requests (prepare_block_request, handle_block_request).
LEMMA SentIsRight ==
  ASSUME BlocksInv, NEW p \in DOMAIN pending, NEW prs \in [DOMAIN pending -> PeerRecord], NEW full \in BOOLEAN,
         NEW res \in Results, full => ChannelFull, queued # <<>>, SentTo(p, Head(queued), prs, full),
         queued' = Tail(queued), UNCHANGED <<channel, session>>, peers[p].state # "Closing",
         \A q \in DOMAIN pending \ {p} : prs[q] = peers[q], \A h \in held[p] : h.late,
         \/ p \notin DOMAIN inflight /\ answer' = answer
         \/ p \in DOMAIN inflight /\ answer' = [answer EXCEPT ![inflight[p]] = res]
  PROVE  BlocksInv' /\ ClosingNotAsked
<1> DEFINE D == DOMAIN pending
           N == DOMAIN inflight
           C == Items(channel)
           Q == Items(queued)
           F == Flights(inflight)
           r == Head(queued)
           lost == full \/ session[p] \notin {"open", "closing"}
           busy == IF r \in Headers THEN "GetBlockHeaders" ELSE "GetBlockBodies"
<1>1. /\ peers' = [prs EXCEPT ![p].state = busy] /\ inflight' = Placed(inflight, p, r)
      /\ pending' = [pending EXCEPT ![p] = r]
      /\ held' = (IF lost THEN held ELSE [held EXCEPT ![p] = held[p] \cup {[req |-> r, late |-> FALSE]}])
      /\ oneshot' = (IF lost THEN [oneshot EXCEPT ![r] = "closed"] ELSE oneshot)
  BY DEF SentTo
<1>2. /\ DOMAIN peers = D /\ N \subseteq D /\ D \subseteq PeerIds /\ p \in PeerIds
      /\ session \in [PeerIds -> {"none", "open", "closing", "ended"}]
  BY DEF BlocksInv, BlocksTyped
<1>3. /\ FlightOf(inflight, N) /\ QueueOf(channel, C) /\ QueueOf(queued, Q) /\ Ranked(queued)
      /\ Apart(C, Q, F, Unanswered)
  BY Zenon DEF BlocksInv, PlacesApart
<1> HIDE DEF C, Q, F, r
<1>4. r \in Q /\ QueueOf(queued', Q \ {r}) /\ Ranked(queued')
  BY <1>3, TakenFrom, Zenon DEF r
<1>5. r \in Requests /\ r \notin F /\ r \notin C /\ answer[r] = "none"
  BY <1>3, <1>4 DEF Apart, Unanswered
<1>6. oneshot[r] = "none"
  BY <1>5 DEF BlocksInv, AnswersAwaited, F
<1>7. /\ FlightOf(inflight', N \cup {p}) /\ inflight'[p] = r /\ \A q \in N \ {p} : inflight'[q] = inflight[q]
      /\ p \in N => inflight[p] \in F /\ Flights(inflight') = (F \ {inflight[p]}) \cup {r}
      /\ p \notin N => Flights(inflight') = F \cup {r}
  <2> DEFINE g == Placed(inflight, p, r)
  <2>1. inflight' = g
    BY <1>1, Zenon
  <2>2. FlightOf(inflight, N) /\ r \in Requests /\ r \notin Flights(inflight)
    BY <1>3, <1>5, Zenon DEF F
  <2>3. FlightMoved(inflight, g, N, p, r)
    BY <2>2, FlightPlaced, Zenon
  <2> HIDE DEF g
  <2> QED
    BY <2>1, <2>3, Zenon DEF F, FlightMoved
<1>8. DOMAIN inflight' = N \cup {p}
  BY <1>7 DEF FlightOf
<1>9. /\ DOMAIN pending' = D /\ pending' \in [D -> Requests \cup {NoRequest}] /\ pending'[p] = r
      /\ \A q \in D \ {p} : pending'[q] = pending[q]
  BY <1>1, <1>5 DEF BlocksInv, BlocksTyped
<1>10. DOMAIN peers' = D /\ peers' \in [D -> PeerRecord] /\ peers'[p].state # "Idle" /\ \A q \in D \ {p} : peers'[q] = peers[q]
  BY SMTT(30), <1>1 DEF PeerRecord
<1>11. /\ held' \in [PeerIds -> SUBSET [req : Requests, late : BOOLEAN]] /\ (lost => held' = held)
       /\ \A q \in PeerIds \ {p} : held'[q] = held[q]
       /\ \A k \in held'[p] : k.late \/ (k.req = r /\ ~lost)
  <2> DEFINE new == [req |-> r, late |-> FALSE]
  <2>1. new \in [req : Requests, late : BOOLEAN] /\ new.req = r
    BY <1>5
  <2>2. held \in [PeerIds -> SUBSET [req : Requests, late : BOOLEAN]]
    BY DEF BlocksInv, BlocksTyped
  <2>3. CASE lost
    BY SMTT(30), <1>1, <1>2, <2>2, <2>3
  <2>4. CASE ~lost
    <3>1. held' = [held EXCEPT ![p] = held[p] \cup {new}]
      BY <1>1, <2>4
    <3> HIDE DEF new, lost
    <3> QED
      BY <1>2, <2>1, <2>2, <2>4, <3>1
  <2> QED
    BY <2>3, <2>4
<1>12. /\ oneshot' \in [Requests -> Results \cup {"none", "closed"}] /\ (~lost => oneshot'[r] = "none")
       /\ \A x \in Requests \ {r} : oneshot'[x] = oneshot[x]
  BY <1>1, <1>5, <1>6 DEF BlocksInv, BlocksTyped
<1>13. ~ (session[p] \in {"none", "ended"}) \/ lost
  OBVIOUS
<1>14. ~full /\ lost => session[p] = "ended"
  BY <1>2 DEF BlocksInv, SessionsHold
<1> HIDE DEF lost
<1>15. /\ answer' \in [Requests -> Results \cup {"unsent", "none", "dropped"}]
       /\ p \in N => answer'[inflight[p]] = res /\ Unanswered' = Unanswered \ {inflight[p]}
       /\ p \notin N => Unanswered' = Unanswered
       /\ \A x \in Requests : answer'[x] = answer[x] \/ (p \in N /\ x = inflight[p])
  <2>1. /\ answer \in [Requests -> Results \cup {"unsent", "none", "dropped"}] /\ (p \in N => inflight[p] \in Requests)
        /\ res # "none"
    BY <1>3 DEF BlocksInv, BlocksTyped, FlightOf, Results
  <2> QED
    BY <2>1 DEF Unanswered
<1>16. BlocksTyped'
  <2>1. DOMAIN pending' \subseteq PeerIds /\ DOMAIN inflight' \subseteq DOMAIN pending'
    BY <1>2, <1>8, <1>9
  <2> QED
    BY <1>2, <1>9, <1>10, <1>11, <1>12, <1>15, <2>1, Zenon DEF BlocksTyped
<1>17. PlacesApart'
  <2>1. Apart(C, Q \ {r}, Flights(inflight'), Unanswered')
    BY <1>3, <1>4, <1>5, <1>7, <1>15 DEF Apart
  <2>2. Items(queued') = Q \ {r} /\ channel' = channel
    BY <1>4, Zenon DEF QueueOf
  <2> QED
    BY <1>3, <1>4, <1>7, <1>8, <2>1, <2>2, ZenonT(120) DEF PlacesApart, C
<1>18. AnswersAwaited'
  <2>1. ResponseMatches'
    BY SMTT(30), <1>7, <1>8, <1>9 DEF BlocksInv, AnswersAwaited, ResponseMatches, N, D
  <2>2. \A q \in DOMAIN pending' : peers'[q].state = "Idle" => q \notin DOMAIN inflight'
    BY SMTT(30), <1>8, <1>9, <1>10 DEF BlocksInv, AnswersAwaited
  <2>3. ASSUME NEW x \in Requests, oneshot'[x] # "none"
        PROVE  x \in Flights(inflight') \/ answer'[x] \notin {"none", "unsent"}
    <3>1. x # r => x \in F \/ answer[x] \notin {"none", "unsent"}
      BY <1>12, <2>3 DEF BlocksInv, AnswersAwaited, F
    <3>2. res \notin {"none", "unsent"}
      BY DEF Results
    <3> QED
      BY SMTT(120), <1>7, <1>15, <3>1, <3>2
  <2> QED
    BY <2>1, <2>2, <2>3, Zenon DEF AnswersAwaited
<1>19. SessionsHold'
  <2>1. \A q \in PeerIds : session[q] \in {"none", "ended"} => held'[q] = {}
    BY <1>11, <1>13 DEF BlocksInv, SessionsHold
  <2>2. \A q \in DOMAIN pending' : session[q] # "none"
    BY <1>9, Zenon DEF BlocksInv, SessionsHold
  <2>3. ASSUME NEW q \in PeerIds, NEW k \in held'[q], ~k.late
        PROVE  q \in DOMAIN inflight' /\ inflight'[q] = k.req /\ oneshot'[k.req] = "none"
    <3>1. CASE q = p
      BY SMTT(30), <1>7, <1>8, <1>11, <1>12, <2>3, <3>1
    <3>2. CASE q # p
      <4>1. q \in N /\ inflight[q] = k.req /\ oneshot[k.req] = "none"
        BY <1>11, <2>3, <3>2, Zenon DEF BlocksInv, SessionsHold, N
      <4>2. k.req \in F /\ k.req \in Requests
        BY SMTT(30), <1>3, <4>1 DEF F, Flights, FlightOf
      <4> QED
        BY <1>5, <1>7, <1>8, <1>12, <3>2, <4>1, <4>2
    <3> QED
      BY SMTT(30), <3>1, <3>2
  <2> QED
    BY <2>1, <2>2, <2>3, Zenon DEF SessionsHold
<1>20. ChannelFull \/ (ClosedIsEnded /\ DroppedWhenClosed)'
  <2> SUFFICES ASSUME ClosedIsEnded, DroppedWhenClosed, ~full
               PROVE  ClosedIsEnded' /\ DroppedWhenClosed'
    BY DEF BlocksInv
  <2>1. ASSUME NEW q \in N \ {p}
        PROVE  oneshot'[inflight'[q]] = oneshot[inflight[q]]
    <3>1. inflight[q] \in F /\ inflight[q] \in Requests
      BY SMTT(30), <1>3 DEF F, Flights, FlightOf
    <3> QED
      BY <1>5, <1>7, <1>12, <3>1
  <2>2. oneshot'[inflight'[p]] = "closed" => session[p] = "ended"
    BY SMTT(30), <1>7, <1>12, <1>14
  <2>3. ClosedIsEnded'
    BY <1>8, <2>1, <2>2 DEF ClosedIsEnded, N
  <2>4. DroppedWhenClosed'
    BY SMTT(120), <1>9 DEF DroppedWhenClosed
  <2> QED
    BY <2>3, <2>4
<1>21. ClosingNotAsked
  BY <1>2, <1>7, <1>8, <1>10 DEF ClosingNotAsked
<1> QED
  BY <1>16, <1>17, <1>18, <1>19, <1>20, <1>21, Zenon DEF BlocksInv

\* A response reaches the client and its peer gets nothing new
\* (on_block_headers_response, on_block_bodies_response).
LEMMA AnsweredIsRight ==
  ASSUME BlocksInv, NEW p \in DOMAIN inflight, NEW prs \in [DOMAIN pending -> PeerRecord], NEW res \in Results,
         \A q \in DOMAIN pending \ {p} : prs[q] = peers[q], peers[p].state = "Closing" => prs[p].state = "Closing",
         \A h \in held[p] : h.late, peers' = prs, inflight' = Dropped(inflight, p),
         pending' = [pending EXCEPT ![p] = NoRequest], answer' = [answer EXCEPT ![inflight[p]] = res],
         UNCHANGED <<channel, queued, held, oneshot, session>>
  PROVE  BlocksInv' /\ ClosingNotAsked
<1> DEFINE D == DOMAIN pending
           N == DOMAIN inflight
           C == Items(channel)
           Q == Items(queued)
           F == Flights(inflight)
<1>1. DOMAIN peers = D /\ N \subseteq D /\ D \subseteq PeerIds /\ p \in D
  BY DEF BlocksInv, BlocksTyped
<1>2. /\ FlightOf(inflight, N) /\ QueueOf(channel, C) /\ QueueOf(queued, Q) /\ Ranked(queued)
      /\ Apart(C, Q, F, Unanswered)
  BY Zenon DEF BlocksInv, PlacesApart
<1>3. /\ DOMAIN pending' = D /\ pending' \in [D -> Requests \cup {NoRequest}] /\ pending'[p] = NoRequest
      /\ \A q \in D \ {p} : pending'[q] = pending[q]
  BY <1>1 DEF BlocksInv, BlocksTyped
<1> HIDE DEF C, Q, F, N, D
<1>4. /\ FlightOf(inflight', N \ {p}) /\ \A q \in N \ {p} : inflight'[q] = inflight[q]
      /\ inflight[p] \in F /\ Flights(inflight') = F \ {inflight[p]}
  <2>1. FlightLeft(inflight, inflight', N, p)
    BY <1>2, FlightDropped, Zenon
  <2> QED
    BY <2>1, Zenon DEF FlightLeft, F, N
<1>5. DOMAIN inflight' = N \ {p} /\ inflight[p] \in Requests
  BY SMTT(30), <1>2, <1>4 DEF FlightOf, N
<1>6. /\ answer' \in [Requests -> Results \cup {"unsent", "none", "dropped"}]
      /\ answer'[inflight[p]] = res /\ Unanswered' = Unanswered \ {inflight[p]}
      /\ \A x \in Requests : answer'[x] = answer[x] \/ x = inflight[p]
  <2>1. answer \in [Requests -> Results \cup {"unsent", "none", "dropped"}] /\ res # "none"
    BY DEF BlocksInv, BlocksTyped, Results
  <2> QED
    BY <1>5, <2>1 DEF Unanswered
<1>7. BlocksTyped'
  <2>1. DOMAIN pending' \subseteq PeerIds /\ DOMAIN inflight' \subseteq DOMAIN pending'
    BY <1>1, <1>3, <1>5
  <2>2. peers' \in [DOMAIN pending' -> PeerRecord]
    BY <1>3, Zenon DEF D
  <2> QED
    BY <1>3, <1>6, <2>1, <2>2, ZenonT(60) DEF BlocksInv, BlocksTyped
<1>8. PlacesApart'
  <2>1. Apart(C, Q, Flights(inflight'), Unanswered')
    BY <1>2, <1>4, <1>6 DEF Apart
  <2> QED
    BY <1>2, <1>4, <1>5, <2>1, ZenonT(120) DEF PlacesApart, C, Q
<1>9. AnswersAwaited'
  <2>1. ResponseMatches'
    BY <1>3, <1>4, <1>5 DEF BlocksInv, AnswersAwaited, ResponseMatches, D, N
  <2>2. \A q \in DOMAIN pending' : peers'[q].state = "Idle" => q \notin DOMAIN inflight'
    BY SMTT(30), <1>3, <1>5 DEF BlocksInv, AnswersAwaited, D, N
  <2>3. ASSUME NEW x \in Requests, oneshot[x] # "none"
        PROVE  x \in Flights(inflight') \/ answer'[x] \notin {"none", "unsent"}
    <3>1. x \in F \/ answer[x] \notin {"none", "unsent"}
      BY <2>3 DEF BlocksInv, AnswersAwaited, F
    <3>2. res \notin {"none", "unsent"}
      BY DEF Results
    <3> QED
      BY SMTT(30), <1>4, <1>6, <3>1, <3>2
  <2> QED
    BY <2>1, <2>2, <2>3, Zenon DEF AnswersAwaited
<1>10. SessionsHold'
  <2>1. \A q \in DOMAIN pending' : session[q] # "none"
    BY <1>3, Zenon DEF BlocksInv, SessionsHold, D
  <2>2. ASSUME NEW q \in PeerIds, NEW k \in held[q], ~k.late
        PROVE  q \in DOMAIN inflight' /\ inflight'[q] = k.req /\ oneshot[k.req] = "none"
    <3>1. q # p /\ q \in N /\ inflight[q] = k.req /\ oneshot[k.req] = "none"
      BY <2>2, Zenon DEF BlocksInv, SessionsHold, N
    <3> QED
      BY <1>4, <1>5, <3>1
  <2> QED
    BY <2>1, <2>2, ZenonT(120) DEF BlocksInv, SessionsHold
<1>11. ChannelFull \/ (ClosedIsEnded /\ DroppedWhenClosed)'
  <2> SUFFICES ASSUME ClosedIsEnded, DroppedWhenClosed
               PROVE  ClosedIsEnded' /\ DroppedWhenClosed'
    BY SMTT(30) DEF BlocksInv
  <2>1. ClosedIsEnded'
    BY <1>4, <1>5 DEF ClosedIsEnded, N
  <2>2. DroppedWhenClosed'
    BY SMTT(30), <1>3 DEF DroppedWhenClosed, D
  <2> QED
    BY <2>1, <2>2
<1>12. ClosingNotAsked
  <2>1. \A q \in D : peers[q].state = "Closing" => peers'[q].state = "Closing"
    BY DEF D
  <2> QED
    BY SMTT(120), <1>1, <1>4, <1>5, <2>1 DEF ClosingNotAsked, N
<1> QED
  BY <1>7, <1>8, <1>9, <1>10, <1>11, <1>12, Zenon DEF BlocksInv

\* A peer that waits for an answer that has come or will not come holds nothing
\* that is not late.
LEMMA AnsweredHoldsNothing ==
  ASSUME BlocksInv, NEW p \in DOMAIN pending, pending[p] # NoRequest, oneshot[pending[p]] # "none"
  PROVE  p \in DOMAIN inflight /\ inflight[p] = pending[p] /\ (\A h \in held[p] : h.late) /\ p \in PeerIds
<1>1. p \in DOMAIN inflight /\ inflight[p] = pending[p] /\ p \in PeerIds
  BY DEF BlocksInv, AnswersAwaited, ResponseMatches, BlocksTyped
<1>2. \A h \in held[p] : h.late
  BY <1>1, ZenonT(120) DEF BlocksInv, SessionsHold
<1> QED
  BY <1>1, <1>2

\* The channel to a session is full only where that is admitted.
LEMMA MayBeFull ==
  ASSUME NEW full \in {FALSE} \cup {ChannelFull}
  PROVE  full \in BOOLEAN /\ (full => ChannelFull)
<1>1. CASE full = FALSE
  BY Zenon, <1>1
<1>2. CASE full = ChannelFull
  BY <1>2, BlocksAssumption, Zenon
<1> QED
  BY <1>1, <1>2, Zenon

\* The front of the queue goes to an idle peer.
LEMMA AssignIsRight ==
  ASSUME BlocksInv, Assign
  PROVE  BlocksInv' /\ ClosingNotAsked
<1>1. /\ queued # <<>> /\ queued' = Tail(queued) /\ UNCHANGED <<channel, session, answer>>
      /\ \E p \in BestPeers, full \in {FALSE} \cup {ChannelFull} : SentTo(p, Head(queued), peers, full)
  BY Zenon DEF Assign
<1>2. PICK p \in BestPeers, full \in {FALSE} \cup {ChannelFull} : SentTo(p, Head(queued), peers, full)
  BY <1>1, Zenon
<1>3. p \in DOMAIN peers /\ peers[p].state = "Idle"
  BY DEF BestPeers, IdlePeer
<1>4. peers \in [DOMAIN pending -> PeerRecord] /\ p \in DOMAIN pending /\ p \in PeerIds
  BY <1>3 DEF BlocksInv, BlocksTyped
<1>5. p \notin DOMAIN inflight /\ \A h \in held[p] : h.late
  BY <1>3, <1>4, Zenon DEF BlocksInv, AnswersAwaited, SessionsHold
<1>6. full \in BOOLEAN /\ (full => ChannelFull) /\ peers[p].state # "Closing" /\ "ok" \in Results
  BY Zenon, <1>3, MayBeFull DEF Results
<1> QED
  BY <1>1, <1>2, <1>4, <1>5, <1>6, SentIsRight, Zenon

\* The end of a session returns the request of its peer with an error.
LEMMA BlockSessionClosedIsRight ==
  ASSUME BlocksInv, NEW p \in PeerIds, BlockSessionClosed(p)
  PROVE  BlocksInv' /\ ClosingNotAsked
<1>1. /\ session[p] = "ended" /\ session' = [session EXCEPT ![p] = "none"] /\ Close(p)
      /\ UNCHANGED <<channel, queued, held, oneshot>>
  BY Zenon DEF BlockSessionClosed
<1>2. held[p] = {}
  BY <1>1 DEF BlocksInv, SessionsHold
<1>3. (\A h \in held[p] : h.late) /\ (session'[p] = "none" => held[p] = {})
  BY <1>2
<1> QED
  BY <1>1, <1>3, CloseIsRight, Zenon

\* NetworkState::poll.
LEMMA PollResponseIsRight ==
  ASSUME BlocksInv, NEW p \in PeerIds, PollResponse(p)
  PROVE  BlocksInv' /\ ClosingNotAsked
<1> DEFINE r == pending[p]
           res == oneshot[pending[p]]
<1>1. /\ p \in DOMAIN pending /\ r # NoRequest /\ res # "none" /\ UNCHANGED <<channel, session>>
      /\ IF res = "closed" THEN Close(p) /\ UNCHANGED <<queued, held, oneshot>>
         ELSE \E full \in {FALSE} \cup {ChannelFull} : OnResponse(p, r, res, full)
  BY Zenon DEF PollResponse
<1>2. p \in DOMAIN inflight /\ inflight[p] = r /\ \A h \in held[p] : h.late
  BY <1>1, AnsweredHoldsNothing, Zenon
<1>3. r \in Requests /\ res \in Results \cup {"none", "closed"}
  BY <1>2 DEF BlocksInv, BlocksTyped, PlacesApart, FlightOf
<1>4. CASE res = "closed"
  <2>1. Close(p) /\ UNCHANGED <<channel, queued, held, oneshot>> /\ session' = session
    BY <1>1, <1>4, Zenon
  <2>2. session'[p] = "none" => held[p] = {}
    BY <2>1 DEF BlocksInv, SessionsHold
  <2>3. ChannelFull \/ session[p] = "ended"
    BY <1>2, <1>4, Zenon DEF BlocksInv, ClosedIsEnded
  <2> QED
    BY <1>2, <2>1, <2>2, <2>3, CloseIsRight, Zenon
<1>5. CASE res # "closed"
  <2> HIDE DEF r, res
  <2>1. res \in Results
    BY <1>1, <1>3, <1>5
  <2>2. PICK full \in {FALSE} \cup {ChannelFull} : OnResponse(p, r, res, full)
    BY <1>1, <1>5, Zenon
  <2>3. full \in BOOLEAN /\ (full => ChannelFull)
    BY MayBeFull, ZenonT(120)
  <2> DEFINE new == [state |-> Finished(peers[p].state), bad |-> res # "ok"]
             prs == [peers EXCEPT ![p] = new]
             next == Finished(peers[p].state) = "Idle" /\ res = "ok" /\ queued # <<>>
  <2>4. /\ answer' = [answer EXCEPT ![r] = res]
        /\ next => SentTo(p, Head(queued), prs, full) /\ queued' = Tail(queued)
        /\ ~next => /\ peers' = prs /\ inflight' = Dropped(inflight, p) /\ pending' = [pending EXCEPT ![p] = NoRequest]
                    /\ UNCHANGED <<queued, held, oneshot>>
    BY <2>2 DEF OnResponse
  <2>5. peers \in [DOMAIN pending -> PeerRecord] /\ p \in DOMAIN pending
    BY <1>1 DEF BlocksInv, BlocksTyped
  <2>6. new \in PeerRecord /\ (peers[p].state = "Closing" => new.state = "Closing")
    BY <2>5 DEF PeerRecord, Finished
  <2> HIDE DEF new
  <2>7. prs \in [DOMAIN pending -> PeerRecord] /\ prs[p] = new /\ \A q \in DOMAIN pending \ {p} : prs[q] = peers[q]
    BY <2>5, <2>6
  <2> HIDE DEF prs
  <2>8. CASE next
    <3>1. peers[p].state # "Closing" /\ queued # <<>>
      BY <2>8 DEF Finished
    <3>2. SentTo(p, Head(queued), prs, full) /\ queued' = Tail(queued)
      BY <2>4, <2>8, Zenon
    <3> QED
      BY <1>1, <1>2, <2>1, <2>3, <2>4, <2>7, <3>1, <3>2, SentIsRight, ZenonT(120)
  <2>9. CASE ~next
    <3>1. /\ peers' = prs /\ inflight' = Dropped(inflight, p) /\ pending' = [pending EXCEPT ![p] = NoRequest]
          /\ UNCHANGED <<queued, held, oneshot>>
      BY <2>4, <2>9, Zenon
    <3> HIDE DEF next
    <3> QED
      BY <1>1, <1>2, <2>1, <2>4, <2>6, <2>7, <3>1, AnsweredIsRight, Zenon
  <2> QED
    BY <2>8, <2>9, Zenon
<1> QED
  BY <1>4, <1>5, Zenon

\* Every step keeps the invariant.
LEMMA BlocksStepIsRight ==
  ASSUME BlocksInv, [BlocksNext]_blocksVars
  PROVE  BlocksInv' /\ [ClosingNotAsked]_blocksVars
<1>1. CASE UNCHANGED blocksVars
  BY <1>1, PlacesKept, ZenonT(120) DEF blocksVars, BlocksInv, BlocksTyped, AnswersAwaited, ResponseMatches, SessionsHold,
     ClosedIsEnded, DroppedWhenClosed
<1>2. CASE BlocksNext
  BY Zenon, <1>2, SendIsRight, DrainIsRight, AssignIsRight, RespondIsRight, RequestTimeoutIsRight, SessionEndsIsRight, ActivateIsRight,
     BlockSessionClosedIsRight, DisconnectIsRight, PollResponseIsRight, Zenon DEF BlocksNext
<1> QED
  BY <1>1, <1>2

\* How often a request is in a sequence without repetition, and how many peers
\* have it.
LEMMA TimesIn ==
  ASSUME NEW s, NEW T, QueueOf(s, T), NEW r
  PROVE  Cardinality({i \in 1..Len(s) : s[i] = r}) = IF r \in T THEN 1 ELSE 0
<1>1. CASE r \in T
  <2>1. PICK k \in 1..Len(s) : s[k] = r
    BY <1>1 DEF QueueOf, Items
  <2>2. {i \in 1..Len(s) : s[i] = r} = {k}
    BY <2>1 DEF QueueOf, Distinct
  <2> QED
    BY <1>1, <2>2, FS_Singleton, Zenon
<1>2. CASE r \notin T
  <2>1. {i \in 1..Len(s) : s[i] = r} = {}
    BY <1>2 DEF QueueOf, Items
  <2> QED
    BY <1>2, <2>1, FS_EmptySet, Zenon
<1> QED
  BY <1>1, <1>2

\* A request is in flight once or not at all.
LEMMA TimesInFlight ==
  ASSUME NEW f, NEW D, FlightOf(f, D), NEW r
  PROVE  Cardinality({p \in DOMAIN f : f[p] = r}) = IF r \in Flights(f) THEN 1 ELSE 0
<1>1. CASE r \in Flights(f)
  <2>1. PICK k \in DOMAIN f : f[k] = r
    BY <1>1 DEF Flights
  <2>2. {p \in DOMAIN f : f[p] = r} = {k}
    BY <2>1 DEF FlightOf
  <2> QED
    BY <1>1, <2>2, FS_Singleton, Zenon
<1>2. CASE r \notin Flights(f)
  <2>1. {p \in DOMAIN f : f[p] = r} = {}
    BY <1>2 DEF Flights
  <2> QED
    BY <1>2, <2>1, FS_EmptySet, Zenon
<1> QED
  BY <1>1, <1>2

\* The invariant implies that every unanswered request is counted once.
LEMMA InvLosesNothing ==
  ASSUME BlocksInv
  PROVE  NoRequestLost /\ ResponseMatches /\ HighFirst /\ (ChannelFull \/ DroppedWhenClosed)
<1>1. NoRequestLost
  <2> SUFFICES ASSUME NEW r \in Requests
               PROVE  Cardinality({i \in 1..Len(channel) : channel[i] = r})
                        + Cardinality({i \in 1..Len(queued) : queued[i] = r})
                        + Cardinality({p \in DOMAIN inflight : inflight[p] = r}) = (IF answer[r] = "none" THEN 1 ELSE 0)
    BY Zenon DEF NoRequestLost
  <2> DEFINE C == Items(channel)
             Q == Items(queued)
             F == Flights(inflight)
  <2>1. QueueOf(channel, C) /\ QueueOf(queued, Q) /\ FlightOf(inflight, DOMAIN inflight) /\ Apart(C, Q, F, Unanswered)
    BY Zenon DEF BlocksInv, PlacesApart
  <2> HIDE DEF C, Q
  <2>2. Cardinality({i \in 1..Len(channel) : channel[i] = r}) = IF r \in C THEN 1 ELSE 0
    BY <2>1, TimesIn
  <2>3. Cardinality({i \in 1..Len(queued) : queued[i] = r}) = IF r \in Q THEN 1 ELSE 0
    BY <2>1, TimesIn
  <2>4. Cardinality({p \in DOMAIN inflight : inflight[p] = r}) = IF r \in F THEN 1 ELSE 0
    BY <2>1, TimesInFlight, Zenon
  <2> HIDE DEF F
  <2>5. /\ answer[r] = "none" <=> r \in C \/ r \in Q \/ r \in F
        /\ ~ (r \in C /\ r \in Q) /\ ~ (r \in C /\ r \in F) /\ ~ (r \in Q /\ r \in F)
    BY <2>1 DEF Apart, Unanswered
  <2> QED
    BY <2>2, <2>3, <2>4, <2>5
<1>2. HighFirst
  BY Zenon DEF BlocksInv, PlacesApart, Ranked, HighFirst
<1> QED
  BY <1>1, <1>2, Zenon DEF BlocksInv, AnswersAwaited

(***************************************************************************)
(* For any number of peers and requests: a download request is at one      *)
(* place until its client has an answer, the response awaited from a peer  *)
(* is that of its request, a high request is never behind a normal one,    *)
(* and a peer whose session is to end is asked nothing, nor dropped before *)
(* unless the channel to the session can be full (StateFetcher,            *)
(* NetworkState).                                                          *)
(***************************************************************************)
THEOREM RequestsAreTracked == BlocksSpec => RequestsTracked
<1>1. BlocksInit => BlocksInv
  <2> SUFFICES ASSUME BlocksInit
               PROVE  BlocksInv
    OBVIOUS
  <2>1. /\ channel = <<>> /\ queued = <<>> /\ peers = <<>> /\ inflight = <<>> /\ pending = <<>>
        /\ session = [p \in PeerIds |-> "none"] /\ held = [p \in PeerIds |-> {}]
        /\ oneshot = [r \in Requests |-> "none"] /\ answer = [r \in Requests |-> "unsent"]
    BY Zenon DEF BlocksInit
  <2>2. DOMAIN pending = {} /\ DOMAIN inflight = {} /\ peers \in [{} -> PeerRecord] /\ inflight \in [{} -> Requests]
        /\ pending \in [{} -> Requests \cup {NoRequest}]
    BY <2>1
  <2>3. BlocksTyped
    BY <2>1, <2>2 DEF BlocksTyped
  <2>4. PlacesApart
    <3>1. channel \in Seq(Requests) /\ Len(channel) = 0 /\ queued = channel
      BY <2>1
    <3>2. Items(channel) = {} /\ QueueOf(channel, {}) /\ Ranked(channel)
      BY <3>1 DEF QueueOf, Items, Distinct, Ranked
    <3>3. FlightOf(inflight, DOMAIN inflight) /\ Flights(inflight) = {}
      BY <2>2 DEF FlightOf, Flights
    <3>4. Unanswered = {}
      BY <2>1 DEF Unanswered
    <3> QED
      BY <3>1, <3>2, <3>3, <3>4 DEF PlacesApart, Apart
  <2>5. AnswersAwaited
    BY <2>1, <2>2 DEF AnswersAwaited, ResponseMatches
  <2>6. SessionsHold
    BY <2>1, <2>2 DEF SessionsHold
  <2>7. ClosedIsEnded /\ DroppedWhenClosed
    BY <2>1, <2>2 DEF ClosedIsEnded, DroppedWhenClosed
  <2> QED
    BY <2>3, <2>4, <2>5, <2>6, <2>7 DEF BlocksInv
<1>2. BlocksInv /\ [BlocksNext]_blocksVars => BlocksInv' /\ [ClosingNotAsked]_blocksVars
  BY BlocksStepIsRight, Zenon
<1>3. BlocksInv => NoRequestLost /\ ResponseMatches /\ HighFirst /\ (ChannelFull \/ DroppedWhenClosed)
  BY InvLosesNothing, Zenon
<1> QED
  BY <1>1, <1>2, <1>3, PTL DEF BlocksSpec, RequestsTracked
=============================================================================
