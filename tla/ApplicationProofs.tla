-------------------------- MODULE ApplicationProofs --------------------------
(***************************************************************************)
(* The pages with the token factories, for every number of chains, tokens, *)
(* submits and cards; then the parts of the application in their places in *)
(* MCApplication, with what is shown of each, and the sale with its        *)
(* bridge.                                                                 *)
(***************************************************************************)
EXTENDS MCApplication, BridgeProofs

(***************************************************************************)
(* The factories and the form.  A token has been made by the submit it     *)
(* names, with the parameters of a valid moment, and by no other.          *)
(***************************************************************************)
TokenState == [cap : Nat, tolerance : Nat, ratio : Nat, bridge : Nat, submit : Nat]

\* The storage of a factory.
FactoryState == [cap : Nat, tolerance : Nat, ratio : Nat, bridge : Nat, tokens : Seq(TokenState)]

\* A createToken transaction, from the wallet to its execution.
SubmitState ==
  [chain : ChainOptions, state : {"wallet", "sent", "refused", "created", "reverted"}]

\* The types of the factories, of the form and of the submits.
FormTyped ==
  /\ factory \in [ChainOptions -> FactoryState] /\ submits \in Seq(SubmitState)
  /\ chain \in ChainOptions \cup {None} /\ contract \in ChainOptions \cup {None}
  /\ hash \in 1..Len(submits) \cup {None}

\* Token k of the factory of chain c was made by the submit it names, is valid,
\* and is the only one of that submit.
MadeBy(f, sub, c, k) ==
  /\ f[c].tokens[k].submit \in 1..Len(sub)
  /\ sub[f[c].tokens[k].submit].state = "created"
  /\ sub[f[c].tokens[k].submit].chain = c
  /\ f[c].tokens[k].cap # 0 /\ f[c].tokens[k].tolerance # 0
  /\ \A l \in 1..Len(f[c].tokens) : f[c].tokens[l].submit = f[c].tokens[k].submit => l = k

\* So was every token.
AllMade == \A c \in ChainOptions : \A k \in 1..Len(factory[c].tokens) : MadeBy(factory, submits, c, k)

\* The hash shown is that of a transaction that was sent.
HashSent ==
  /\ form = "COMPLETE" => hash # None
  /\ hash # None => submits[hash].state \in {"sent", "created", "reverted"}

\* The inductive invariant of the form and the factories.
FormInv == FormTyped /\ AllMade /\ HashSent

(***************************************************************************)
(* It implies what the run checks of them.                                 *)
(***************************************************************************)
LEMMA FormInvSuffices ==
  ASSUME FormInv
  PROVE  HashWasSent /\ TokensValid
<1>1. factory \in [ChainOptions -> FactoryState]
  BY DEF FormInv, FormTyped
<1>2. \A c \in ChainOptions : DOMAIN factory[c].tokens = 1..Len(factory[c].tokens)
  <2>1. \A f \in FactoryState : f.tokens \in Seq(TokenState)
    BY Zenon DEF FactoryState
  <2> QED
    BY <1>1, <2>1
<1>3. ASSUME NEW c \in ChainOptions, NEW k \in DOMAIN factory[c].tokens
      PROVE  /\ submits[factory[c].tokens[k].submit].state = "created"
             /\ submits[factory[c].tokens[k].submit].chain = c
             /\ factory[c].tokens[k].cap # 0 /\ factory[c].tokens[k].tolerance # 0
             /\ \A l \in DOMAIN factory[c].tokens :
                  factory[c].tokens[l].submit = factory[c].tokens[k].submit => l = k
  <2>1. MadeBy(factory, submits, c, k)
    BY Zenon, <1>2 DEF FormInv, AllMade
  <2> QED
    BY Zenon, <1>2, <2>1 DEF MadeBy
<1>4. HashWasSent
  BY ZenonT(120), <1>3 DEF FormInv, HashSent, HashWasSent
<1>5. TokensValid
  BY <1>3 DEF TokensValid
<1> QED
  BY <1>4, <1>5

(***************************************************************************)
(* No token has been made at first.                                        *)
(***************************************************************************)
LEMMA FormStart ==
  ASSUME PagesInit
  PROVE  FormInv
<1>1. /\ factory = [c \in ChainOptions |-> [cap |-> 100, tolerance |-> 10, ratio |-> 10,
                                      bridge |-> 0, tokens |-> <<>>]]
      /\ chain = None /\ contract = None /\ form = "IDLE" /\ hash = None /\ submits = <<>>
  BY Zenon DEF PagesInit
<1>2. factory \in [ChainOptions -> FactoryState] /\ \A c \in ChainOptions : Len(factory[c].tokens) = 0
  BY SMTT(30), <1>1 DEF FactoryState
<1>3. FormTyped
  BY <1>1, <1>2 DEF FormTyped
<1>4. AllMade
  BY <1>2 DEF AllMade
<1>5. HashSent
  BY Zenon, <1>1 DEF HashSent
<1> QED
  BY Zenon, <1>3, <1>4, <1>5 DEF FormInv

(***************************************************************************)
(* The tokens stay made when no token and no created submit changes.       *)
(***************************************************************************)
LEMMA MadeStays ==
  ASSUME FormInv, submits' \in Seq(SubmitState), Len(submits) <= Len(submits'),
         \A c \in ChainOptions : factory'[c].tokens = factory[c].tokens,
         \A i \in 1..Len(submits) :
           submits[i].state = "created" => submits'[i].state = "created" /\ submits'[i].chain = submits[i].chain
  PROVE  AllMade'
<1>1. ASSUME NEW c \in ChainOptions, NEW k \in 1..Len(factory[c].tokens)
      PROVE  MadeBy(factory, submits, c, k)'
  <2>1. MadeBy(factory, submits, c, k)
    BY DEF FormInv, AllMade
  <2>2. Len(submits) \in Nat /\ Len(submits') \in Nat
    BY SMTT(120) DEF FormInv, FormTyped
  <2> DEFINE ts == factory[c].tokens
             i == ts[k].submit
  <2>3. /\ i \in 1..Len(submits) /\ submits[i].state = "created" /\ submits[i].chain = c
        /\ ts[k].cap # 0 /\ ts[k].tolerance # 0
        /\ \A l \in 1..Len(ts) : ts[l].submit = i => l = k
    BY <2>1 DEF MadeBy
  <2>5. factory'[c].tokens = ts
    OBVIOUS
  <2> HIDE DEF ts, i
  <2>4. i \in 1..Len(submits') /\ submits'[i].state = "created" /\ submits'[i].chain = c
    BY SMTT(30), <2>2, <2>3
  <2> QED
    BY Zenon, <2>3, <2>4, <2>5 DEF MadeBy, i
<1> QED
  BY Zenon, <1>1 DEF AllMade

(***************************************************************************)
(* The owner's setters leave the tokens alone.                             *)
(***************************************************************************)
LEMMA SettersKeep ==
  ASSUME FormInv, NEW c \in ChainOptions,
         \/ \E cap, tolerance \in Caps : SetMarketCap(c, cap, tolerance)
         \/ \E ratio \in Caps : SetReserveRatio(c, ratio)
         \/ SetCCIPBridge(c)
  PROVE  FormInv'
<1> DEFINE f == factory[c]
<1>0. /\ factory \in [ChainOptions -> FactoryState] /\ submits \in Seq(SubmitState)
      /\ f \in FactoryState /\ Caps \subseteq Nat
  BY PagesAssumption DEF FormInv, FormTyped
<1> DEFINE Kept == /\ UNCHANGED <<chain, contract, form, hash, submits>>
                   /\ \E g \in FactoryState :
                        factory' = [factory EXCEPT ![c] = g] /\ g.tokens = f.tokens
<1>1. Kept
  <2>1. ASSUME NEW cap \in Nat, NEW tolerance \in Nat, SetMarketCap(c, cap, tolerance)
        PROVE  Kept
    <3> DEFINE g == [f EXCEPT !.cap = cap, !.tolerance = tolerance]
    <3>1. factory' = [factory EXCEPT ![c] = g] /\ UNCHANGED <<chain, contract, form, hash, submits>>
      BY Zenon, <2>1 DEF SetMarketCap, pageVars
    <3> HIDE DEF f
    <3>2. g \in FactoryState /\ g.tokens = f.tokens
      BY Zenon, <1>0 DEF FactoryState
    <3> HIDE DEF g
    <3> QED
      BY Zenon, <3>1, <3>2
  <2>2. ASSUME NEW ratio \in Nat, SetReserveRatio(c, ratio)
        PROVE  Kept
    <3> DEFINE g == [f EXCEPT !.ratio = ratio]
    <3>1. factory' = [factory EXCEPT ![c] = g] /\ UNCHANGED <<chain, contract, form, hash, submits>>
      BY <2>2 DEF SetReserveRatio, pageVars
    <3> HIDE DEF f
    <3>2. g \in FactoryState /\ g.tokens = f.tokens
      BY Zenon, <1>0 DEF FactoryState
    <3> HIDE DEF g
    <3> QED
      BY Zenon, <3>1, <3>2
  <2>3. ASSUME SetCCIPBridge(c)
        PROVE  Kept
    <3> DEFINE g == [f EXCEPT !.bridge = @ + 1]
    <3>1. factory' = [factory EXCEPT ![c] = g] /\ UNCHANGED <<chain, contract, form, hash, submits>>
      BY <2>3 DEF SetCCIPBridge, pageVars
    <3> HIDE DEF f
    <3>2. g \in FactoryState /\ g.tokens = f.tokens
      <4>1. f.bridge + 1 \in Nat
        <5>1. f.bridge \in Nat
          BY Zenon, <1>0 DEF FactoryState
        <5> QED
          BY <5>1
      <4>2. g = [f EXCEPT !.bridge = f.bridge + 1]
        BY <1>0 DEF FactoryState
      <4> QED
        BY Zenon, <1>0, <4>1, <4>2 DEF FactoryState
    <3> HIDE DEF g
    <3> QED
      BY Zenon, <3>1, <3>2
  <2> QED
    BY SMTT(30), <1>0, <2>1, <2>2, <2>3
<1>2. factory' \in [ChainOptions -> FactoryState] /\ \A x \in ChainOptions : factory'[x].tokens = factory[x].tokens
  BY <1>0, <1>1
<1>3. submits' \in Seq(SubmitState) /\ Len(submits) <= Len(submits')
  BY SMTT(30), <1>0, <1>1
<1>4. AllMade'
  BY SMTT(30), <1>1, <1>2, <1>3, MadeStays
<1> QED
  BY <1>1, <1>2, <1>4 DEF FormInv, FormTyped, HashSent

(***************************************************************************)
(* A submit that changes its state keeps its chain, and leaves the others. *)
(***************************************************************************)
LEMMA SubmitMoves ==
  ASSUME submits \in Seq(SubmitState), NEW i \in 1..Len(submits),
         NEW to \in {"wallet", "sent", "refused", "created", "reverted"},
         submits' = [submits EXCEPT ![i].state = to]
  PROVE  /\ submits' \in Seq(SubmitState) /\ Len(submits') = Len(submits)
         /\ submits'[i].state = to /\ submits'[i].chain = submits[i].chain
         /\ \A k \in 1..Len(submits) : k # i => submits'[k] = submits[k]
<1> DEFINE m == submits[i]
           e == [m EXCEPT !.state = to]
<1>1. m \in SubmitState /\ submits' = [submits EXCEPT ![i] = e]
  OBVIOUS
<1> HIDE DEF m
<1>2. e \in SubmitState /\ e.chain = m.chain /\ e.state = to
  BY <1>1 DEF SubmitState
<1> HIDE DEF e
<1>3. /\ submits' \in Seq(SubmitState) /\ Len(submits') = Len(submits)
      /\ \A k \in 1..Len(submits) : submits'[k] = IF k = i THEN e ELSE submits[k]
  BY SMTT(30), <1>1, <1>2
<1> QED
  BY <1>2, <1>3 DEF m

(***************************************************************************)
(* createToken: a new token names its own submit, which had none.          *)
(***************************************************************************)
LEMMA CreateTokenKeeps ==
  ASSUME FormInv, NEW i \in 1..Len(submits), CreateToken(i)
  PROVE  FormInv'
<1> DEFINE c == submits[i].chain
           f == factory[c]
           x == [cap |-> f.cap, tolerance |-> f.tolerance, ratio |-> f.ratio,
                 bridge |-> f.bridge, submit |-> i]
           g == [f EXCEPT !.tokens = Append(@, x)]
           ok == f.cap # 0 /\ f.tolerance # 0
<1>0. /\ factory \in [ChainOptions -> FactoryState] /\ submits \in Seq(SubmitState)
      /\ hash \in 1..Len(submits) \cup {None}
      /\ chain \in ChainOptions \cup {None} /\ contract \in ChainOptions \cup {None}
  BY DEF FormInv, FormTyped
<1>1. c \in ChainOptions /\ f \in FactoryState /\ i \in Nat
  <2>1. submits[i] \in SubmitState
    BY <1>0
  <2>2. c \in ChainOptions
    BY Zenon, <2>1 DEF SubmitState
  <2> QED
    BY <1>0, <2>2
<1>2. /\ submits[i].state = "sent" /\ UNCHANGED <<chain, contract, form, hash>>
      /\ ok => /\ factory' = [factory EXCEPT ![c] = g]
               /\ submits' = [submits EXCEPT ![i].state = "created"]
      /\ ~ok => /\ factory' = factory
                /\ submits' = [submits EXCEPT ![i].state = "reverted"]
  BY Zenon DEF CreateToken, Valid, Created, pageVars
<1>3. /\ submits' \in Seq(SubmitState) /\ Len(submits') = Len(submits)
      /\ submits'[i].state = (IF ok THEN "created" ELSE "reverted")
      /\ submits'[i].chain = c
      /\ \A k \in 1..Len(submits) : k # i => submits'[k] = submits[k]
  <2>1. CASE ok
    BY ZenonT(120), <1>0, <1>2, <2>1, SubmitMoves
  <2>2. CASE ~ok
    BY ZenonT(120), <1>0, <1>2, <2>2, SubmitMoves
  <2> QED
    BY Zenon, <2>1, <2>2
<1>4. HashSent'
  <2>1. hash' = hash /\ form' = form
    BY <1>2
  <2>2. ASSUME hash # None
        PROVE  submits'[hash].state \in {"sent", "created", "reverted"}
    <3>1. hash \in 1..Len(submits) /\ submits[hash].state \in {"sent", "created", "reverted"}
      BY ZenonT(120), <1>0, <2>2 DEF FormInv, HashSent
    <3>2. CASE hash = i
      BY SMTT(120), <1>3, <3>2
    <3>3. CASE hash # i
      BY <1>3, <3>1, <3>3
    <3> QED
      BY <3>2, <3>3
  <2> QED
    BY ZenonT(120), <2>1, <2>2 DEF FormInv, HashSent
<1>5. CASE ~ok
  <2>1. \A y \in ChainOptions : factory'[y].tokens = factory[y].tokens
    BY Zenon, <1>2, <1>5
  <2>2. \A k \in 1..Len(submits) : submits[k].state = "created" =>
          submits'[k].state = "created" /\ submits'[k].chain = submits[k].chain
    BY ZenonT(120), <1>2, <1>3
  <2>3. Len(submits) <= Len(submits')
    BY SMTT(30), <1>0, <1>3
  <2>4. AllMade'
    BY ZenonT(120), <1>3, <2>1, <2>2, <2>3, MadeStays
  <2>5. FormTyped'
    BY SMTT(120), <1>0, <1>2, <1>3, <1>5 DEF FormTyped
  <2> QED
    BY Zenon, <1>4, <2>4, <2>5 DEF FormInv
<1>6. CASE ok
  <2> DEFINE ts == f.tokens
             n == Len(ts)
  <2>0. /\ ts \in Seq(TokenState) /\ n \in Nat /\ x \in TokenState
        /\ x.cap # 0 /\ x.tolerance # 0 /\ x.submit = i
    BY SMTT(30), <1>1, <1>6 DEF FactoryState, TokenState
  <2>1. factory' = [factory EXCEPT ![c] = g]
    BY ZenonT(120), <1>2, <1>6
  <2>11. ok /\ f.tokens = ts
    BY <1>6
  <2> HIDE DEF f, x, ok
  <2>2. g \in FactoryState /\ g.tokens = Append(ts, x)
    <3> DEFINE us == Append(ts, x)
    <3>1. us \in Seq(TokenState)
      BY <2>0
    <3>2. g = [f EXCEPT !.tokens = us]
      BY <1>1 DEF FactoryState
    <3> HIDE DEF us
    <3>3. g \in FactoryState /\ g.tokens = us
      BY ZenonT(120), <1>1, <3>1, <3>2 DEF FactoryState
    <3> QED
      BY <3>3 DEF us
  <2> HIDE DEF g
  <2>3. /\ factory' \in [ChainOptions -> FactoryState]
        /\ \A y \in ChainOptions : y # c => factory'[y].tokens = factory[y].tokens
        /\ factory'[c].tokens = Append(ts, x)
    BY SMTT(120), <1>0, <1>1, <2>1, <2>2
  <2>4. FormTyped'
    BY <1>0, <1>2, <1>3, <2>3 DEF FormTyped
  <2>5. ASSUME NEW y \in ChainOptions, NEW k \in 1..Len(factory[y].tokens)
        PROVE  /\ factory[y].tokens[k].submit \in 1..Len(submits')
               /\ factory[y].tokens[k].submit # i
               /\ submits'[factory[y].tokens[k].submit].state = "created"
               /\ submits'[factory[y].tokens[k].submit].chain = y
               /\ factory[y].tokens[k].cap # 0 /\ factory[y].tokens[k].tolerance # 0
               /\ \A l \in 1..Len(factory[y].tokens) :
                    factory[y].tokens[l].submit = factory[y].tokens[k].submit => l = k
    <3>1. MadeBy(factory, submits, y, k)
      BY Zenon DEF FormInv, AllMade
    <3>2. factory[y].tokens[k].submit # i
      BY Zenon, <1>2, <3>1 DEF MadeBy
    <3> QED
      BY Zenon, <1>3, <3>1, <3>2 DEF MadeBy
  <2>6. ASSUME NEW y \in ChainOptions, NEW k \in 1..Len(factory'[y].tokens)
        PROVE  MadeBy(factory, submits, y, k)'
    <3>1. CASE y # c
      <4>1. factory'[y].tokens = factory[y].tokens
        BY <2>3, <3>1
      <4>2. k \in 1..Len(factory[y].tokens)
        BY Zenon, <4>1
      <4>3. MadeBy(factory, submits', y, k)
        BY Zenon, <2>5, <4>2 DEF MadeBy
      <4> QED
        BY ZenonT(120), <4>1, <4>3 DEF MadeBy
    <3>2. CASE y = c
      <4> DEFINE us == Append(ts, x)
      <4>1. factory'[y].tokens = us /\ factory[y].tokens = ts
        BY ZenonT(120), <2>3, <3>2 DEF f
      <4>2. /\ Len(us) = n + 1 /\ us[n + 1] = x
            /\ \A l \in 1..n : us[l] = ts[l]
        BY SMTT(30), <2>0
      <4> HIDE DEF us, ts
      <4>3. \A l \in 1..n : us[l].submit # i
        <5>1. \A l \in 1..n : l \in 1..Len(factory[y].tokens) /\ us[l] = factory[y].tokens[l]
          BY <4>1, <4>2
        <5>2. \A l \in 1..Len(factory[y].tokens) : factory[y].tokens[l].submit # i
          BY Zenon, <2>5
        <5> QED
          BY ZenonT(120), <5>1, <5>2
      <4>4. CASE k = n + 1
        <5>1. us[k] = x /\ us[k].submit = i /\ us[k].cap # 0 /\ us[k].tolerance # 0
          BY Zenon, <2>0, <4>2, <4>4
        <5>2. submits'[i].state = "created" /\ submits'[i].chain = c /\ i \in 1..Len(submits')
          BY ZenonT(120), <1>3, <2>11
        <5>3. \A l \in 1..Len(us) : us[l].submit = us[k].submit => l = k
          BY SMTT(120), <2>0, <4>2, <4>3, <4>4, <5>1
        <5> QED
          BY ZenonT(120), <3>2, <4>1, <5>1, <5>2, <5>3 DEF MadeBy
      <4>5. CASE k # n + 1
        <5>1. k \in 1..n
          BY SMTT(120), <2>0, <4>1, <4>2, <4>5
        <5>2. /\ us[k].submit \in 1..Len(submits')
              /\ submits'[us[k].submit].state = "created"
              /\ submits'[us[k].submit].chain = y
              /\ us[k].cap # 0 /\ us[k].tolerance # 0
          <6>1. us[k] = factory[y].tokens[k] /\ k \in 1..Len(factory[y].tokens)
            BY <4>1, <4>2, <5>1
          <6>2. /\ factory[y].tokens[k].submit \in 1..Len(submits')
                /\ submits'[factory[y].tokens[k].submit].state = "created"
                /\ submits'[factory[y].tokens[k].submit].chain = y
                /\ factory[y].tokens[k].cap # 0 /\ factory[y].tokens[k].tolerance # 0
            BY Zenon, <2>5, <6>1
          <6> QED
            BY Zenon, <6>1, <6>2
        <5>3. \A l \in 1..Len(us) : us[l].submit = us[k].submit => l = k
          <6>1. ASSUME NEW l \in 1..Len(us), us[l].submit = us[k].submit
                PROVE  l = k
            <7>1. l # n + 1
              BY ZenonT(120), <2>0, <4>2, <4>3, <5>1, <6>1
            <7>2. l \in 1..n
              BY SMTT(120), <2>0, <4>2, <7>1
            <7> QED
              BY SMTT(120), <2>5, <4>1, <4>2, <5>1, <6>1, <7>2
          <6> QED
            BY ZenonT(120), <6>1
        <5> QED
          BY ZenonT(120), <4>1, <5>2, <5>3 DEF MadeBy
      <4> QED
        BY SMTT(30), <4>4, <4>5
    <3> QED
      BY Zenon, <3>1, <3>2
  <2>7. AllMade'
    BY <2>6 DEF AllMade
  <2> QED
    BY ZenonT(120), <1>4, <2>4, <2>7 DEF FormInv
<1> QED
  BY <1>5, <1>6

(***************************************************************************)
(* handleSubmit, its answer, and a wallet that switches chains.            *)
(***************************************************************************)
LEMMA HandleSubmitKeeps ==
  ASSUME FormInv, HandleSubmit
  PROVE  FormInv'
<1>0. /\ factory \in [ChainOptions -> FactoryState] /\ submits \in Seq(SubmitState)
      /\ hash \in 1..Len(submits) \cup {None}
      /\ chain \in ChainOptions \cup {None} /\ contract \in ChainOptions \cup {None}
  BY DEF FormInv, FormTyped
<1>1. /\ form = "IDLE" /\ UNCHANGED <<factory, chain, contract, hash>>
      /\ \/ submits' = submits /\ form' = "ERROR"
         \/ /\ contract # None /\ form' = form
            /\ submits' = Append(submits, [chain |-> contract, state |-> "wallet"])
  BY DEF HandleSubmit
<1>2. /\ submits' \in Seq(SubmitState) /\ Len(submits) <= Len(submits') /\ Len(submits') \in Nat
      /\ \A i \in 1..Len(submits) : submits'[i] = submits[i]
  <2>1. CASE submits' = submits
    BY SMTT(120), <1>0, <2>1
  <2>2. CASE contract # None /\ submits' = Append(submits, [chain |-> contract, state |-> "wallet"])
    <3> DEFINE m == [chain |-> contract, state |-> "wallet"]
    <3>1. m \in SubmitState
      BY <1>0, <2>2 DEF SubmitState
    <3> HIDE DEF m
    <3>2. submits' = Append(submits, m)
      BY <2>2 DEF m
    <3> QED
      BY SMTT(120), <1>0, <3>1, <3>2
  <2> QED
    BY <1>1, <2>1, <2>2
<1>3. AllMade'
  <2>1. \A c \in ChainOptions : factory'[c].tokens = factory[c].tokens
    BY <1>1
  <2> QED
    BY Zenon, <1>2, <2>1, MadeStays
<1>4. FormTyped'
  BY <1>0, <1>1, <1>2 DEF FormTyped
<1>5. HashSent'
  <2>1. hash' = hash /\ form' # "COMPLETE"
    BY SMTT(120), <1>1
  <2>2. hash # None => submits'[hash] = submits[hash]
    BY <1>0, <1>2
  <2> QED
    BY Zenon, <2>1, <2>2 DEF FormInv, HashSent
<1> QED
  BY <1>3, <1>4, <1>5 DEF FormInv

(***************************************************************************)
(* The answer of the wallet: only a sent submit becomes the hash shown.    *)
(***************************************************************************)
LEMMA SubmitAnsweredKeeps ==
  ASSUME FormInv, NEW i \in 1..Len(submits), NEW ok \in BOOLEAN, SubmitAnswered(i, ok)
  PROVE  FormInv'
<1> DEFINE to == IF ok THEN "sent" ELSE "refused"
<1>0. /\ factory \in [ChainOptions -> FactoryState] /\ submits \in Seq(SubmitState)
      /\ hash \in 1..Len(submits) \cup {None}
      /\ chain \in ChainOptions \cup {None} /\ contract \in ChainOptions \cup {None}
  BY DEF FormInv, FormTyped
<1>1. /\ submits[i].state = "wallet" /\ UNCHANGED <<factory, chain, contract>>
      /\ submits' = [submits EXCEPT ![i].state = to]
      /\ hash' = IF ok THEN i ELSE hash
      /\ form' = IF ok THEN "COMPLETE" ELSE "ERROR"
  BY DEF SubmitAnswered
<1>2. /\ submits' \in Seq(SubmitState) /\ Len(submits') = Len(submits)
      /\ submits'[i].state = to /\ submits'[i].chain = submits[i].chain
      /\ \A k \in 1..Len(submits) : k # i => submits'[k] = submits[k]
  <2>1. to \in {"wallet", "sent", "refused", "created", "reverted"}
    OBVIOUS
  <2> HIDE DEF to
  <2> QED
    BY ZenonT(120), <1>0, <1>1, <2>1, SubmitMoves
<1>3. AllMade'
  <2>1. \A c \in ChainOptions : factory'[c].tokens = factory[c].tokens
    BY <1>1
  <2>2. \A k \in 1..Len(submits) : submits[k].state = "created" =>
          submits'[k].state = "created" /\ submits'[k].chain = submits[k].chain
    BY ZenonT(120), <1>1, <1>2
  <2>3. Len(submits) <= Len(submits')
    BY <1>0, <1>2
  <2> QED
    BY SMTT(120), <1>2, <2>1, <2>2, <2>3, MadeStays
<1>4. FormTyped'
  BY <1>0, <1>1, <1>2 DEF FormTyped
<1>5. HashSent'
  <2>1. CASE ok
    <3>1. hash' = i /\ i # None /\ submits'[i].state = "sent"
      BY SMTT(120), <1>1, <1>2, <2>1, PagesAssumption
    <3> QED
      BY <3>1 DEF HashSent
  <2>2. CASE ~ok
    <3>1. hash' = hash /\ form' # "COMPLETE"
      BY <1>1, <2>2
    <3>2. hash # None => hash \in 1..Len(submits) /\ hash # i
      BY ZenonT(120), <1>0, <1>1 DEF FormInv, HashSent
    <3> QED
      BY <1>2, <3>1, <3>2 DEF FormInv, HashSent
  <2> QED
    BY <2>1, <2>2
<1> QED
  BY SMTT(120), <1>3, <1>4, <1>5 DEF FormInv

(***************************************************************************)
(* Every step of the page and of the factories keeps the invariant.        *)
(***************************************************************************)
LEMMA FormStep ==
  ASSUME FormInv, PageNext \/ UNCHANGED pagesVars
  PROVE  FormInv'
<1>0. DOMAIN submits = 1..Len(submits)
  BY DEF FormInv, FormTyped
<1>1. ASSUME UNCHANGED <<factory, form, hash, submits>>,
             chain' \in ChainOptions \cup {None}, contract' \in ChainOptions \cup {None}
      PROVE  FormInv'
  <2>1. FormTyped'
    BY SMTT(30), <1>1 DEF FormInv, FormTyped
  <2>2. AllMade'
    <3>1. factory' = factory /\ submits' = submits /\ AllMade
      BY <1>1 DEF FormInv
    <3>2. \A c \in ChainOptions : \A k \in 1..Len(factory'[c].tokens) : MadeBy(factory', submits', c, k)
      BY Zenon, <3>1 DEF AllMade
    <3> QED
      BY Zenon, <3>2 DEF AllMade, MadeBy
  <2>3. HashSent'
    BY <1>1 DEF FormInv, HashSent
  <2> QED
    BY SMTT(120), <2>1, <2>2, <2>3 DEF FormInv
<1>2. chain \in ChainOptions \cup {None} /\ contract \in ChainOptions \cup {None}
  BY DEF FormInv, FormTyped
<1>3. ASSUME UNCHANGED <<factory, chain, contract, form, hash, submits>>
      PROVE  FormInv'
  BY <1>1, <1>2, <1>3
<1>4. ASSUME NEW c \in ChainOptions \cup {None}, SwitchChain(c)
      PROVE  FormInv'
  BY <1>1, <1>2, <1>4 DEF SwitchChain
<1>5. ASSUME RefreshTokens
      PROVE  FormInv'
  BY Zenon, <1>3, <1>5 DEF RefreshTokens
<1>6. ASSUME NEW k, HandlePurchase(k)
      PROVE  FormInv'
  BY <1>3, <1>6 DEF HandlePurchase
<1>7. ASSUME NEW i, NEW ok, PriceAnswered(i, ok) \/ PurchaseAnswered(i, ok)
      PROVE  FormInv'
  BY <1>3, <1>7 DEF PriceAnswered, PurchaseAnswered
<1>8. CASE UNCHANGED pagesVars
  BY <1>3, <1>8 DEF pagesVars
<1>9. ASSUME NEW i \in DOMAIN submits,
             CreateToken(i) \/ \E ok \in BOOLEAN : SubmitAnswered(i, ok)
      PROVE  FormInv'
  BY Zenon, <1>0, <1>9, CreateTokenKeeps, SubmitAnsweredKeeps
<1> QED
  BY ZenonT(120), <1>4, <1>5, <1>6, <1>7, <1>8, <1>9, SettersKeep, HandleSubmitKeeps DEF PageNext
-----------------------------------------------------------------------------
(***************************************************************************)
(* The cards.  A mounted purchase has taken the form off its card, and its *)
(* card is LOADING exactly until its answers are in.                       *)
(***************************************************************************)
Statuses == {"IDLE", "LOADING", "COMPLETE", "ERROR"}

\* A purchase, with its place in handlePurchase.
PurchaseState ==
  [token : Nat, mounted : BOOLEAN, state : {"price", "wallet", "failed", "sent"}]

\* The purchase still waits for the price service or for the wallet.
Awaits(p) == p.state \in {"price", "wallet"}

\* The types of the cards and of the purchases.
CardsTyped == card \in Seq(Statuses) /\ purchases \in Seq(PurchaseState)

\* The card of purchase i is on the page, without its form.
HasCard(i) ==
  /\ purchases[i].token \in 1..Len(card) /\ card[purchases[i].token] # "IDLE"
  /\ card[purchases[i].token] = "LOADING" <=> Awaits(purchases[i])

\* The inductive invariant of the cards: no two mounted purchases share a card,
\* and no card is LOADING without one.
CardInv ==
  /\ CardsTyped
  /\ \A i \in 1..Len(purchases) : purchases[i].mounted => HasCard(i)
  /\ \A i, j \in 1..Len(purchases) :
       purchases[i].mounted /\ purchases[j].mounted /\ purchases[i].token = purchases[j].token
         => i = j
  /\ \A k \in 1..Len(card) : card[k] = "LOADING" =>
       \E i \in 1..Len(purchases) : purchases[i].mounted /\ purchases[i].token = k

(***************************************************************************)
(* It implies what the run checks of the cards.                            *)
(***************************************************************************)
LEMMA CardInvSuffices ==
  ASSUME CardInv
  PROVE  OnePurchasePerCard
<1>0. DOMAIN card = 1..Len(card) /\ DOMAIN purchases = 1..Len(purchases)
  BY DEF CardInv, CardsTyped
<1>1. ASSUME NEW k \in 1..Len(card)
      PROVE  /\ \A i, j \in Mounted(k) : i = j
             /\ card[k] = "LOADING" <=>
                  \E i \in Mounted(k) : purchases[i].state \in {"price", "wallet"}
  <2>1. \A i : i \in Mounted(k) <=>
               i \in 1..Len(purchases) /\ purchases[i].mounted /\ purchases[i].token = k
    BY Zenon, <1>0 DEF Mounted
  <2>2. \A i, j \in Mounted(k) : i = j
    BY ZenonT(120), <2>1 DEF CardInv
  <2>4. \A i \in Mounted(k) : card[k] = "LOADING" <=> purchases[i].state \in {"price", "wallet"}
    BY SMTT(30), <2>1 DEF CardInv, HasCard, Awaits
  <2>5. card[k] = "LOADING" => \E i \in Mounted(k) : TRUE
    BY <2>1 DEF CardInv
  <2> QED
    BY Zenon, <2>2, <2>4, <2>5
<1> QED
  BY Zenon, <1>0, <1>1 DEF OnePurchasePerCard

(***************************************************************************)
(* There is no card at first.                                              *)
(***************************************************************************)
LEMMA CardStart ==
  ASSUME PagesInit
  PROVE  CardInv
<1>1. card = <<>> /\ purchases = <<>>
  BY DEF PagesInit
<1>2. Len(card) = 0 /\ Len(purchases) = 0 /\ CardsTyped
  BY <1>1 DEF CardsTyped
<1> QED
  BY SMTT(30), <1>2 DEF CardInv

(***************************************************************************)
(* A switch of chains takes the cards, and the purchases, off the page.    *)
(***************************************************************************)
LEMMA SwitchKeepsCards ==
  ASSUME CardInv, NEW c, SwitchChain(c)
  PROVE  CardInv'
<1>0. card \in Seq(Statuses) /\ purchases \in Seq(PurchaseState)
  BY Zenon DEF CardInv, CardsTyped
<1>1. CASE card' = card
  <2>1. purchases' = purchases
    BY ZenonT(120), <1>1 DEF SwitchChain
  <2> QED
    BY Zenon, <1>1, <2>1 DEF CardInv, CardsTyped, HasCard
<1>2. CASE card' # card
  <2>1. /\ card' = <<>>
        /\ purchases' = [i \in DOMAIN purchases |-> [purchases[i] EXCEPT !.mounted = FALSE]]
    BY <1>2 DEF SwitchChain
  <2>2. ASSUME NEW i \in 1..Len(purchases)
        PROVE  /\ [purchases[i] EXCEPT !.mounted = FALSE] \in PurchaseState
               /\ [purchases[i] EXCEPT !.mounted = FALSE].mounted = FALSE
    <3> DEFINE m == purchases[i]
    <3>1. m \in PurchaseState
      BY <1>0
    <3> HIDE DEF m
    <3>2. [m EXCEPT !.mounted = FALSE] \in PurchaseState /\ [m EXCEPT !.mounted = FALSE].mounted = FALSE
      BY Zenon, <3>1 DEF PurchaseState
    <3> QED
      BY <3>2 DEF m
  <2>3. /\ Len(purchases) \in Nat
        /\ purchases' = [i \in 1..Len(purchases) |-> [purchases[i] EXCEPT !.mounted = FALSE]]
    BY <1>0, <2>1
  <2>4. /\ purchases' \in Seq(PurchaseState) /\ Len(purchases') = Len(purchases)
        /\ \A i \in 1..Len(purchases) : purchases'[i].mounted = FALSE
    <3> DEFINE e(i) == [purchases[i] EXCEPT !.mounted = FALSE]
    <3>1. \A i \in 1..Len(purchases) : e(i) \in PurchaseState /\ e(i).mounted = FALSE
      BY <2>2
    <3>2. purchases' = [i \in 1..Len(purchases) |-> e(i)]
      BY <2>3
    <3> HIDE DEF e
    <3>3. purchases' \in Seq(PurchaseState) /\ Len(purchases') = Len(purchases)
      <4>1. PICK n \in Nat : n = Len(purchases)
        BY <2>3
      <4>2. /\ purchases' = [i \in 1..n |-> e(i)]
            /\ \A i \in 1..n : e(i) \in PurchaseState
        BY <3>1, <3>2, <4>1
      <4>3. purchases' \in Seq(PurchaseState) /\ Len(purchases') = n
        BY <4>2
      <4> QED
        BY <4>1, <4>3
    <3>4. \A i \in 1..Len(purchases) : purchases'[i].mounted = FALSE
      BY <3>1, <3>2
    <3> QED
      BY <3>3, <3>4
  <2>5. card' \in Seq(Statuses) /\ Len(card') = 0
    BY SMTT(30), <2>1
  <2> QED
    BY <2>4, <2>5 DEF CardInv, CardsTyped
<1> QED
  BY Zenon, <1>1, <1>2

(***************************************************************************)
(* New tokens get a card with a form, and no purchase.                     *)
(***************************************************************************)
LEMMA RefreshKeepsCards ==
  ASSUME CardInv, FormInv, RefreshTokens
  PROVE  CardInv'
<1> DEFINE n == Len(factory[Shown].tokens)
<1>0. card \in Seq(Statuses) /\ purchases \in Seq(PurchaseState) /\ Len(card) \in Nat
  BY DEF CardInv, CardsTyped
<1>1. n \in Nat
  <2>1. Shown \in ChainOptions /\ factory \in [ChainOptions -> FactoryState]
    BY PagesAssumption DEF FormInv, FormTyped, Shown
  <2>2. factory[Shown].tokens \in Seq(TokenState)
    BY <2>1 DEF FactoryState
  <2> QED
    BY <2>2
<1>2. /\ Len(card) < n /\ purchases' = purchases
      /\ card' = [k \in 1..n |-> IF k <= Len(card) THEN card[k] ELSE "IDLE"]
  BY DEF RefreshTokens
<1> HIDE DEF n
<1>3. \A k \in 1..n : (IF k <= Len(card) THEN card[k] ELSE "IDLE") \in Statuses
  BY <1>0 DEF Statuses
<1>4. /\ card' \in Seq(Statuses) /\ Len(card') = n
      /\ \A k \in 1..n : card'[k] = IF k <= Len(card) THEN card[k] ELSE "IDLE"
  BY <1>1, <1>2, <1>3
<1>5. /\ \A k \in 1..Len(card) : k \in 1..n /\ card'[k] = card[k]
      /\ \A k \in 1..n : card'[k] = "LOADING" => k \in 1..Len(card) /\ card[k] = "LOADING"
  BY <1>0, <1>1, <1>2, <1>4
<1>6. CardsTyped'
  BY SMTT(30), <1>0, <1>2, <1>4 DEF CardsTyped
<1>7. \A i \in 1..Len(purchases) : purchases[i].mounted => HasCard(i)'
  BY ZenonT(120), <1>2, <1>4, <1>5 DEF CardInv, HasCard
<1> QED
  BY ZenonT(120), <1>2, <1>4, <1>5, <1>6, <1>7 DEF CardInv

(***************************************************************************)
(* handlePurchase: the card had its form, so no purchase of it is mounted. *)
(***************************************************************************)
LEMMA PurchaseKeepsCards ==
  ASSUME CardInv, NEW k \in 1..Len(card), HandlePurchase(k)
  PROVE  CardInv'
<1> DEFINE m == [token |-> k, mounted |-> TRUE, state |-> "price"]
<1>5. PICK N \in Nat : N = Len(purchases)
  BY DEF CardInv, CardsTyped
<1>0. /\ card \in Seq(Statuses) /\ purchases \in Seq(PurchaseState)
      /\ Len(card) \in Nat /\ N \in Nat /\ k \in Nat
  BY <1>5 DEF CardInv, CardsTyped
<1>1. /\ card[k] = "IDLE"
      /\ \/ card' = [card EXCEPT ![k] = "ERROR"] /\ purchases' = purchases
         \/ card' = [card EXCEPT ![k] = "LOADING"] /\ purchases' = Append(purchases, m)
  BY Zenon DEF HandlePurchase
<1>2. \A i \in 1..N : purchases[i].mounted => HasCard(i) /\ purchases[i].token # k
  BY ZenonT(120), <1>1, <1>5 DEF CardInv, HasCard
<1>3. CASE card' = [card EXCEPT ![k] = "ERROR"] /\ purchases' = purchases
  <2>1. /\ card' \in Seq(Statuses) /\ Len(card') = Len(card)
        /\ \A x \in 1..Len(card) : card'[x] = IF x = k THEN "ERROR" ELSE card[x]
    BY <1>0, <1>3 DEF Statuses
  <2>2. CardsTyped'
    BY Zenon, <1>0, <1>3, <2>1 DEF CardsTyped
  <2>3. \A i \in 1..N : purchases[i].mounted => HasCard(i)'
    BY ZenonT(120), <1>2, <1>3, <2>1 DEF HasCard
  <2> QED
    BY SMTT(120), <1>3, <1>5, <2>1, <2>2, <2>3 DEF CardInv
<1>4. CASE card' = [card EXCEPT ![k] = "LOADING"] /\ purchases' = Append(purchases, m)
  <2>1. /\ card' \in Seq(Statuses) /\ Len(card') = Len(card)
        /\ \A x \in 1..Len(card) : card'[x] = IF x = k THEN "LOADING" ELSE card[x]
    BY <1>0, <1>4 DEF Statuses
  <2>2. /\ m \in PurchaseState /\ m.token = k /\ m.mounted /\ Awaits(m)
    BY ZenonT(120), <1>0 DEF PurchaseState, Awaits
  <2> HIDE DEF m
  <2>3. /\ purchases' \in Seq(PurchaseState) /\ Len(purchases') = N + 1
        /\ purchases'[N + 1] = m /\ \A i \in 1..N : purchases'[i] = purchases[i]
    BY SMTT(120), <1>0, <1>4, <1>5, <2>2
  <2>4. CardsTyped'
    BY <2>1, <2>3 DEF CardsTyped
  <2>5. \A i \in 1..(N + 1) : i = N + 1 \/ i \in 1..N
    BY SMTT(120), <1>0
  <2>6. \A i \in 1..N : purchases'[i].mounted => HasCard(i)' /\ purchases'[i].token # k
    BY SMTT(30), <1>2, <2>1, <2>3 DEF HasCard
  <2>7. HasCard(N + 1)'
    BY Zenon, <2>1, <2>2, <2>3 DEF HasCard
  <2>8. \A i, j \in 1..Len(purchases') :
          purchases'[i].mounted /\ purchases'[j].mounted /\ purchases'[i].token = purchases'[j].token
            => i = j
    <3>1. \A i, j \in 1..N :
            purchases[i].mounted /\ purchases[j].mounted /\ purchases[i].token = purchases[j].token
              => i = j
      BY ZenonT(120), <1>5 DEF CardInv
    <3> QED
      BY ZenonT(120), <2>2, <2>3, <2>5, <2>6, <3>1
  <2>9. \A x \in 1..Len(card') : card'[x] = "LOADING" =>
          \E i \in 1..Len(purchases') : purchases'[i].mounted /\ purchases'[i].token = x
    <3>1. ASSUME NEW x \in 1..Len(card'), card'[x] = "LOADING"
          PROVE  \E i \in 1..Len(purchases') : purchases'[i].mounted /\ purchases'[i].token = x
      <4>1. CASE x = k
        <5>1. N + 1 \in 1..Len(purchases')
          BY SMTT(120), <1>0, <2>3
        <5> QED
          BY ZenonT(120), <2>2, <2>3, <4>1, <5>1
      <4>2. CASE x # k
        <5>1. x \in 1..Len(card) /\ card[x] = "LOADING"
          BY Zenon, <2>1, <3>1, <4>2
        <5>2. PICK i \in 1..N : purchases[i].mounted /\ purchases[i].token = x
          BY Zenon, <5>1, <1>5 DEF CardInv
        <5>3. i \in 1..Len(purchases')
          BY SMTT(120), <1>0, <2>3
        <5> QED
          BY <2>3, <5>2, <5>3
      <4> QED
        BY Zenon, <4>1, <4>2
    <3> QED
      BY <3>1
  <2>10. \A i \in 1..Len(purchases') : purchases'[i].mounted => HasCard(i)'
    BY SMTT(120), <2>3, <2>5, <2>6, <2>7
  <2> QED
    BY Zenon, <2>4, <2>8, <2>9, <2>10 DEF CardInv
<1> QED
  BY <1>1, <1>3, <1>4

(***************************************************************************)
(* A purchase that changes its state stays on its card, or off.            *)
(***************************************************************************)
LEMMA PurchaseMoves ==
  ASSUME purchases \in Seq(PurchaseState), NEW i \in 1..Len(purchases),
         NEW to \in {"price", "wallet", "failed", "sent"},
         purchases' = [purchases EXCEPT ![i].state = to]
  PROVE  /\ purchases' \in Seq(PurchaseState) /\ Len(purchases') = Len(purchases)
         /\ purchases'[i].state = to
         /\ \A j \in 1..Len(purchases) : j # i => purchases'[j] = purchases[j]
         /\ \A j \in 1..Len(purchases) : /\ purchases'[j].token = purchases[j].token
                                         /\ purchases'[j].mounted = purchases[j].mounted
<1> DEFINE p == purchases[i]
           q == [p EXCEPT !.state = to]
<1>1. p \in PurchaseState /\ purchases' = [purchases EXCEPT ![i] = q]
  OBVIOUS
<1> HIDE DEF p
<1>2. q \in PurchaseState /\ q.token = p.token /\ q.mounted = p.mounted /\ q.state = to
  BY <1>1 DEF PurchaseState
<1> HIDE DEF q
<1>3. /\ purchases' \in Seq(PurchaseState) /\ Len(purchases') = Len(purchases)
      /\ \A j \in 1..Len(purchases) : purchases'[j] = IF j = i THEN q ELSE purchases[j]
  BY SMTT(30), <1>1, <1>2
<1>4. ASSUME NEW j \in 1..Len(purchases)
      PROVE  /\ purchases'[j].token = purchases[j].token
             /\ purchases'[j].mounted = purchases[j].mounted
  <2>1. CASE j = i
    BY <1>2, <1>3, <2>1 DEF p
  <2>2. CASE j # i
    BY <1>3, <2>2
  <2> QED
    BY <2>1, <2>2
<1> QED
  BY <1>2, <1>3, <1>4

(***************************************************************************)
(* An answer moves its purchase on, and the card with it if it is mounted. *)
(***************************************************************************)
LEMMA AnswerKeepsCards ==
  ASSUME CardInv, NEW i \in 1..Len(purchases), Awaits(purchases[i]),
         NEW to \in {"price", "wallet", "failed", "sent"}, NEW status \in Statuses,
         purchases' = [purchases EXCEPT ![i].state = to],
         card' = (IF purchases[i].mounted
                  THEN [card EXCEPT ![purchases[i].token] = status] ELSE card),
         status # "IDLE", status = "LOADING" <=> to \in {"price", "wallet"}
  PROVE  CardInv'
<1> DEFINE p == purchases[i]
<1>0. card \in Seq(Statuses) /\ purchases \in Seq(PurchaseState) /\ Len(card) \in Nat
  BY DEF CardInv, CardsTyped
<1>3. /\ purchases' \in Seq(PurchaseState) /\ Len(purchases') = Len(purchases)
      /\ purchases'[i].state = to
      /\ \A j \in 1..Len(purchases) : j # i => purchases'[j] = purchases[j]
      /\ \A j \in 1..Len(purchases) : /\ purchases'[j].token = purchases[j].token
                                      /\ purchases'[j].mounted = purchases[j].mounted
  BY Zenon, <1>0, PurchaseMoves
<1>4. /\ card' \in Seq(Statuses) /\ Len(card') = Len(card)
      /\ \A k \in 1..Len(card) : card'[k] = IF p.mounted /\ k = p.token THEN status ELSE card[k]
  <2>1. CASE p.mounted
    <3>1. p.token \in 1..Len(card) /\ card' = [card EXCEPT ![p.token] = status]
      BY <2>1 DEF CardInv, HasCard
    <3> QED
      BY <1>0, <2>1, <3>1
  <2>2. CASE ~p.mounted
    BY <1>0, <2>2
  <2> QED
    BY <2>1, <2>2
<1>5. CardsTyped'
  BY <1>3, <1>4 DEF CardsTyped
<1>6. ASSUME NEW j \in 1..Len(purchases), purchases[j].mounted
      PROVE  HasCard(j)'
  <2>1. HasCard(j)
    BY <1>6 DEF CardInv
  <2>2. CASE j = i
    <3>1. p.mounted /\ card'[p.token] = status /\ p.token \in 1..Len(card)
      BY ZenonT(120), <1>4, <1>6, <2>1, <2>2 DEF HasCard
    <3> QED
      BY <1>3, <1>4, <2>2, <3>1 DEF HasCard, Awaits
  <2>3. CASE j # i
    <3>1. ~(p.mounted /\ purchases[j].token = p.token)
      BY <1>6, <2>3 DEF CardInv
    <3>2. card'[purchases[j].token] = card[purchases[j].token] /\ purchases'[j] = purchases[j]
      BY ZenonT(120), <1>3, <1>4, <2>1, <2>3, <3>1 DEF HasCard
    <3> QED
      BY <1>4, <2>1, <3>2 DEF HasCard
  <2> QED
    BY <2>2, <2>3
<1>7. ASSUME NEW k \in 1..Len(card), card'[k] = "LOADING"
      PROVE  \E j \in 1..Len(purchases) : purchases[j].mounted /\ purchases[j].token = k
  <2>1. CASE p.mounted /\ k = p.token
    BY <2>1
  <2>2. CASE ~(p.mounted /\ k = p.token)
    <3>1. card[k] = "LOADING"
      BY <1>4, <1>7, <2>2
    <3> QED
      BY <3>1 DEF CardInv
  <2> QED
    BY <2>1, <2>2
<1>8. \A j \in 1..Len(purchases') : purchases'[j].mounted => HasCard(j)'
  BY <1>3, <1>6
<1>9. \A k \in 1..Len(card') : card'[k] = "LOADING" =>
        \E j \in 1..Len(purchases') : purchases'[j].mounted /\ purchases'[j].token = k
  BY <1>3, <1>4, <1>7
<1>10. \A j, l \in 1..Len(purchases') :
         purchases'[j].mounted /\ purchases'[l].mounted /\ purchases'[j].token = purchases'[l].token
           => j = l
  BY <1>3 DEF CardInv
<1> QED
  BY <1>5, <1>8, <1>9, <1>10 DEF CardInv

(***************************************************************************)
(* The answers of the price service and of the wallet.                     *)
(***************************************************************************)
LEMMA AnswersKeepCards ==
  ASSUME CardInv, NEW i \in 1..Len(purchases), NEW ok \in BOOLEAN,
         PriceAnswered(i, ok) \/ PurchaseAnswered(i, ok)
  PROVE  CardInv'
<1>0. card \in Seq(Statuses)
  BY SMTT(30) DEF CardInv, CardsTyped
<1>1. CASE PriceAnswered(i, ok) /\ ok
  <2>1. /\ Awaits(purchases[i]) /\ purchases' = [purchases EXCEPT ![i].state = "wallet"]
        /\ card' = card
    BY <1>1 DEF PriceAnswered, Awaits
  <2>2. card' = IF purchases[i].mounted THEN [card EXCEPT ![purchases[i].token] = "LOADING"] ELSE card
    <3>1. CASE purchases[i].mounted
      <4>1. card[purchases[i].token] = "LOADING"
        BY <2>1, <3>1 DEF CardInv, HasCard
      <4> QED
        BY SMTT(120), <1>0, <2>1, <3>1, <4>1
    <3> QED
      BY <2>1, <3>1
  <2> QED
    BY Zenon, <2>1, <2>2, AnswerKeepsCards DEF Statuses
<1>2. CASE PriceAnswered(i, ok) /\ ~ok
  <2>1. /\ Awaits(purchases[i]) /\ purchases' = [purchases EXCEPT ![i].state = "failed"]
        /\ card' = IF purchases[i].mounted THEN [card EXCEPT ![purchases[i].token] = "ERROR"] ELSE card
    BY <1>2 DEF PriceAnswered, SetStatus, Awaits
  <2> QED
    BY Zenon, <2>1, AnswerKeepsCards DEF Statuses
<1>3. CASE PurchaseAnswered(i, ok) /\ ok
  <2>1. /\ Awaits(purchases[i]) /\ purchases' = [purchases EXCEPT ![i].state = "sent"]
        /\ card' = IF purchases[i].mounted THEN [card EXCEPT ![purchases[i].token] = "COMPLETE"] ELSE card
    BY Zenon, <1>3 DEF PurchaseAnswered, SetStatus, Awaits
  <2> QED
    BY Zenon, <2>1, AnswerKeepsCards DEF Statuses
<1>4. CASE PurchaseAnswered(i, ok) /\ ~ok
  <2>1. /\ Awaits(purchases[i]) /\ purchases' = [purchases EXCEPT ![i].state = "failed"]
        /\ card' = IF purchases[i].mounted THEN [card EXCEPT ![purchases[i].token] = "ERROR"] ELSE card
    BY SMTT(30), <1>4 DEF PurchaseAnswered, SetStatus, Awaits
  <2> QED
    BY Zenon, <2>1, AnswerKeepsCards DEF Statuses
<1> QED
  BY ZenonT(120), <1>1, <1>2, <1>3, <1>4

(***************************************************************************)
(* Every step of the page keeps the invariant.                             *)
(***************************************************************************)
LEMMA CardStep ==
  ASSUME CardInv, FormInv, PageNext \/ UNCHANGED pagesVars
  PROVE  CardInv'
<1>0. DOMAIN card = 1..Len(card) /\ DOMAIN purchases = 1..Len(purchases)
  <2>1. card \in Seq(Statuses) /\ purchases \in Seq(PurchaseState)
    BY Zenon DEF CardInv, CardsTyped
  <2> QED
    BY SMTT(60), <2>1
<1>1. ASSUME UNCHANGED <<card, purchases>>
      PROVE  CardInv'
  BY <1>1 DEF CardInv, CardsTyped, HasCard
<1>2. ASSUME NEW c,
             \/ \E cap, tolerance \in Caps : SetMarketCap(c, cap, tolerance)
             \/ \E ratio \in Caps : SetReserveRatio(c, ratio)
             \/ SetCCIPBridge(c)
      PROVE  CardInv'
  BY Zenon, <1>1, <1>2 DEF SetMarketCap, SetReserveRatio, SetCCIPBridge, pageVars
<1>3. ASSUME NEW i, CreateToken(i) \/ \E ok \in BOOLEAN : SubmitAnswered(i, ok)
      PROVE  CardInv'
  BY Zenon, <1>1, <1>3 DEF CreateToken, SubmitAnswered, pageVars
<1>4. CASE HandleSubmit
  BY Zenon, <1>1, <1>4 DEF HandleSubmit
<1>5. CASE UNCHANGED pagesVars
  BY <1>1, <1>5 DEF pagesVars
<1>6. ASSUME NEW k \in DOMAIN card, HandlePurchase(k)
      PROVE  CardInv'
  BY <1>0, <1>6, PurchaseKeepsCards
<1>7. ASSUME NEW i \in DOMAIN purchases, NEW ok \in BOOLEAN,
             PriceAnswered(i, ok) \/ PurchaseAnswered(i, ok)
      PROVE  CardInv'
  BY <1>0, <1>7, AnswersKeepCards
<1> QED
  BY SMTT(120), <1>2, <1>3, <1>4, <1>5, <1>6, <1>7, SwitchKeepsCards, RefreshKeepsCards
     DEF PageNext
-----------------------------------------------------------------------------
(***************************************************************************)
(* The part a behaviour is about starts in an initial state of its own.    *)
(***************************************************************************)
LEMMA PartsStart ==
  ASSUME AppInit
  PROVE  /\ focus = "bridge" => BridgeInit
         /\ focus = "launch" => LaunchInit
         /\ focus = "pages" => PagesInit
BY DEF AppInit, FirstInput

(***************************************************************************)
(* A behaviour stays with the part it began with, and every step of it is  *)
(* a step of that part.                                                    *)
(***************************************************************************)
LEMMA PartsStepAlone ==
  ASSUME [AppNext]_appVars
  PROVE  /\ focus' = focus
         /\ focus = "bridge" => BridgeNext \/ UNCHANGED bridgeVars
         /\ focus = "launch" => LaunchNext \/ UNCHANGED <<saleVars, bridgeVars>>
         /\ focus = "pages" => PageNext \/ UNCHANGED pagesVars
<1>1. CASE Steps /\ UNCHANGED focus
  BY <1>1 DEF Steps
<1>2. CASE NextInput /\ UNCHANGED <<bridgeVars, saleVars, pagesVars>>
  BY <1>2 DEF NextInput
<1>3. CASE UNCHANGED appVars
  BY <1>3 DEF appVars
<1> QED
  BY SMTT(120), <1>1, <1>2, <1>3 DEF AppNext
-----------------------------------------------------------------------------
(***************************************************************************)
(* Between the chains nothing is lost, made or left approved, for any      *)
(* number of bridges, tokens and messages, and any order of executions.    *)
(***************************************************************************)
THEOREM BridgesAreSound == AppSpec => []BridgeSound
<1> DEFINE I == focus = "bridge" => BridgeInv
<1>1. AppInit => I
  BY SMTT(30), PartsStart, BridgeStart
<1>2. I /\ [AppNext]_appVars => I'
  BY PartsStepAlone, BridgeKeeps
<1>3. I => BridgeSound
  BY DEF BridgeInv, BridgeSound
<1> QED
  BY <1>1, <1>2, <1>3, PTL DEF AppSpec

(***************************************************************************)
(* The pages and the factories are sound, whatever the number of chains,   *)
(* submits and purchases and the order of the answers.                     *)
(***************************************************************************)
THEOREM PagesAreSound == AppSpec => []PagesSound
<1> DEFINE I == focus = "pages" => FormInv /\ CardInv
<1>1. AppInit => I
  BY SMTT(120), PartsStart, FormStart, CardStart
<1>2. I /\ [AppNext]_appVars => I'
  BY SMTT(30), PartsStepAlone, FormStep, CardStep
<1>3. I => PagesSound
  BY FormInvSuffices, CardInvSuffices DEF PagesSound
<1> QED
  BY <1>1, <1>2, <1>3, PTL DEF AppSpec
-----------------------------------------------------------------------------
(***************************************************************************)
(* The sale: the token never owns the bridge, for only an account accepts  *)
(* ownership, so no transaction that would close the sale goes through.    *)
(***************************************************************************)
LaunchInv ==
  /\ BridgeInv
  /\ totalSupply \in Nat /\ isTradable \in BOOLEAN
  /\ StaysOpen

(***************************************************************************)
(* The sale starts open and below its bound.                               *)
(***************************************************************************)
LEMMA SaleStart ==
  ASSUME LaunchInit
  PROVE  LaunchInv
<1>1. BridgeInv
  BY BridgeStart DEF LaunchInit
<1>2. totalSupply = 0 /\ isTradable = TRUE /\ bridged = <<>>
  BY DEF LaunchInit, Init
<1>3. BoundsFit => 0 <= LowerBound
  BY SMTT(120), TokenAssumption DEF BoundsFit, LowerBound, Margin
<1>4. bridge[Home].owner # Self
  BY SMTT(120), LaunchAssumption DEF LaunchInit, BridgeInit
<1> QED
  BY SMTT(30), <1>1, <1>2, <1>3, <1>4 DEF LaunchInv, StaysOpen

(***************************************************************************)
(* A call of the token that would close the sale reverts in the bridge,    *)
(* which refuses the token as a caller; every other one leaves the sale    *)
(* open.                                                                   *)
(***************************************************************************)
LEMMA TokenStepKeepsOpen ==
  ASSUME LaunchInv, TokenStep
  PROVE  LaunchInv'
<1> USE DEF LaunchInv, StaysOpen
<1>1. ~BridgeAccepts
  BY DEF BridgeAccepts, SendMessagePayNative, MaySend, OnlyOwner
<1>2. isTradable' = isTradable /\ bridge' = bridge /\ Next /\ UNCHANGED bridgeVars
  BY Zenon, <1>1 DEF TokenStep, bridgeVars
<1>8. BridgeInv'
  BY <1>2, BridgeKeeps
<1>3. isTradable = TRUE
  OBVIOUS
<1>4. ASSUME NEW sold, NEW swapped, CloseWhenReached(sold, swapped)
      PROVE  bridged' = bridged /\ ~(sold > LowerBound)
  BY SMTT(120), <1>2, <1>3, <1>4 DEF CloseWhenReached
<1>5. LowerBound \in Int
  BY SMTT(120), TokenAssumption DEF LowerBound, Margin
<1>6. ASSUME NEW swapped \in SwapOutputs, NEW sender \in Accounts, NEW deposit \in Deposits,
             NEW cost \in Fees, Mint(sender, deposit, cost, swapped)
      PROVE  LaunchInv'
  <2> DEFINE amount == Purchase(totalSupply, reserveBalance, ReserveRatio, deposit)
  <2>1. /\ amount \in 0..MaxUint /\ totalSupply' = totalSupply + amount
        /\ CloseWhenReached(totalSupply + amount, swapped)
    BY <1>6 DEF Mint
  <2> HIDE DEF amount
  <2>2. totalSupply' \in Nat /\ bridged' = bridged /\ ~(totalSupply' > LowerBound)
    BY SMTT(120), <1>4, <2>1
  <2>3. totalSupply' <= LowerBound
    BY SMTT(120), <1>5, <2>2
  <2> QED
    BY SMTT(120), <1>2, <1>3, <1>8, <2>2, <2>3
<1>7. ASSUME NEW swapped \in SwapOutputs, NEW from \in Accounts, NEW to \in Holders,
             NEW amount \in Amounts, Transfer(from, to, amount, swapped)
      PROVE  LaunchInv'
  <2>1. totalSupply' = totalSupply /\ CloseWhenReached(totalSupply, swapped)
    BY SMTT(120), <1>7 DEF Transfer
  <2>2. bridged' = bridged
    BY SMTT(120), <1>4, <2>1
  <2> QED
    BY SMTT(120), <1>2, <1>3, <1>8, <2>1, <2>2
<1> QED
  BY SMTT(30), <1>2, <1>6, <1>7 DEF Next

(***************************************************************************)
(* No call of an account makes the token the owner of the bridge, not even *)
(* one that names it as the next owner.                                    *)
(***************************************************************************)
LEMMA BridgeStepKeepsOwner ==
  ASSUME LaunchInv, BridgeStep
  PROVE  BridgeInv' /\ bridge'[Home].owner # Self
<1>1. PICK sender \in People : Administer(Home, sender) \/ Send(Home, sender)
  BY DEF BridgeStep
<1>2. BridgeInv /\ Home \in Chains /\ bridge[Home].owner # Self /\ Self \notin People
  BY SMTT(120), LaunchAssumption DEF LaunchInv, StaysOpen
<1>3. BridgeInv' /\ bridge'[Home].owner \in People \cup {bridge[Home].owner}
  <2>1. CASE Administer(Home, sender)
    <3>1. \E p \in People : Administer(Home, p) \/ Withdraw(Home, p)
      BY ZenonT(120), <2>1
    <3> QED
      BY ZenonT(60), <1>2, <3>1, EditsKeep
  <2>2. CASE Send(Home, sender)
    <3>1. BridgeInv' /\ bridge'[Home].owner = bridge[Home].owner
      BY ZenonT(120), <1>2, <2>2, SendsKeep
    <3> QED
      BY <3>1
  <2> QED
    BY <1>1, <2>1, <2>2
<1> QED
  BY <1>2, <1>3

(***************************************************************************)
(* Every step keeps the sale open.                                         *)
(***************************************************************************)
LEMMA SaleStep ==
  ASSUME LaunchInv, LaunchNext \/ UNCHANGED <<saleVars, bridgeVars>>
  PROVE  LaunchInv'
<1>1. CASE TokenStep
  BY SMTT(120), <1>1, TokenStepKeepsOpen
<1>2. CASE BridgeStep
  <2>1. UNCHANGED <<totalSupply, isTradable, bridged>>
    BY SMTT(120), <1>2 DEF BridgeStep, vars
  <2> QED
    BY SMTT(120), <1>2, <2>1, BridgeStepKeepsOwner DEF LaunchInv, StaysOpen
<1>3. CASE UNCHANGED <<saleVars, bridgeVars>>
  <2>1. BridgeInv'
    BY <1>3, BridgeKeeps DEF LaunchInv
  <2> QED
    BY SMTT(120), <1>3, <2>1 DEF LaunchInv, StaysOpen, saleVars, vars, bridgeVars
<1> QED
  BY SMTT(120), <1>1, <1>2, <1>3 DEF LaunchNext

(***************************************************************************)
(* With this bridge no sale ever closes: for every cap, curve, number of   *)
(* accounts and order of calls, the token stays tradable, at or below the  *)
(* lower bound of its cap, and never hands over its proceeds.              *)
(***************************************************************************)
THEOREM NoSaleEverCloses == AppSpec => []SaleNeverCloses
<1> DEFINE I == focus = "launch" => LaunchInv
<1>1. AppInit => I
  BY SMTT(120), PartsStart, SaleStart
<1>2. I /\ [AppNext]_appVars => I'
  BY PartsStepAlone, SaleStep
<1>3. I => SaleNeverCloses
  BY DEF LaunchInv, SaleNeverCloses
<1> QED
  BY <1>1, <1>2, <1>3, PTL DEF AppSpec
==============================================================================
