----------------------------- MODULE MarketProofs -----------------------------
(***************************************************************************)
(* Theorems about registration for every number of publications, accounts   *)
(* and prices, whatever anybody posts and however far the indexer lags.      *)
(***************************************************************************)
EXTENDS Market, TLAPS

Posters == Clicks \cup {Somebody}

-----------------------------------------------------------------------------
(* Types *)

\* Everything starts empty.
LEMMA InitType == Init => TypeOK
<1>1. Init => publish \in [Clicks -> Publications]
  BY MarketAssumption DEF Init, Phases, Publications
<1>2. Init => listing \in [services : {None} \cup SUBSET rows, onChain : {None} \cup PriceMaps]
  BY DEF Init, NothingRead
<1>3. QED
  BY <1>1, <1>2 DEF Init, TypeOK, Posts

\* What `m402 services` has read stays a view of tables that only grow.
LEMMA ViewsGrow ==
    ASSUME TypeOK, rows \subseteq rows', registered \subseteq registered', UNCHANGED listing
    PROVE  listing' \in [services : {None} \cup SUBSET rows', onChain : {None} \cup PriceMaps']
<1>1. ASSUME NEW map \in PriceMaps PROVE map \in PriceMaps'
  <2>1. PICK known \in SUBSET registered : map = [id \in known |-> id.price]
    BY DEF PriceMaps
  <2>2. known \in SUBSET registered'
    OBVIOUS
  <2>3. QED
    BY <2>1, <2>2 DEF PriceMaps
<1>2. QED
  BY <1>1 DEF TypeOK

\* A request in progress has a body; it has a verdict once it is checked.
LEMMA PostFields ==
    ASSUME NEW q \in Posts, q # Idle \/ q.pc \in {"checking", "checked"}
    PROVE  /\ q.body \in Bodies /\ q.pc \in {"checking", "checked"}
           /\ q.pc = "checked" => q.verdict \in {"match", "mismatch", "unconfirmed"}
  BY DEF Posts, Idle

\* A service derived from an account, a click and a price that was typed in.
LEMMA DerivedId ==
    ASSUME TypeOK, account # None, NEW c \in Clicks, NEW usd \in Entered
    PROVE  deriveServiceId(account, c, usdToStar(usd)) \in Ids
  BY DEF TypeOK, deriveServiceId, Ids, Prices

\* A click moves on within its types if it has derived an id or needs none.
LEMMA GotoType ==
    ASSUME TypeOK, NEW c \in Clicks, NEW pc \in Phases, Goto(c, pc),
           publish[c].id # None \/ pc \in {"connecting", "error"}
    PROVE  publish' \in [Clicks -> Publications]
<1>1. publish[c] \in Publications /\ publish' = [publish EXCEPT ![c] = [publish[c] EXCEPT !.pc = pc]]
  BY DEF TypeOK, Goto
<1>2. [publish[c] EXCEPT !.pc = pc] \in Publications
  BY <1>1 DEF Publications
<1>3. QED
  BY <1>1, <1>2 DEF TypeOK

\* The screen's answer keeps the types.
LEMMA AnswerType ==
    ASSUME TypeOK, NEW c \in Clicks, publish[c].id # None, NEW verdict,
           Answer(c, verdict) \/ Goto(c, "error")
    PROVE  publish' \in [Clicks -> Publications]
<1>1. CASE Goto(c, "error")
  BY <1>1, GotoType DEF Phases
<1>2. CASE Answer(c, verdict) /\ verdict = "unconfirmed" /\ publish[c].attempt < MaxRetries
  <2>1. /\ publish[c] \in Publications
        /\ publish' = [publish EXCEPT ![c] = [publish[c] EXCEPT !.attempt = @ + 1]]
    BY <1>2 DEF TypeOK, Answer
  <2>2. [publish[c] EXCEPT !.attempt = @ + 1] \in Publications
    BY <1>2, <2>1, MarketAssumption DEF Publications
  <2>3. QED
    BY <2>1, <2>2 DEF TypeOK
<1>3. CASE Answer(c, verdict) /\ ~(verdict = "unconfirmed" /\ publish[c].attempt < MaxRetries)
  BY <1>3, GotoType DEF Answer, Phases
<1>4. QED
  BY <1>1, <1>2, <1>3

\* A click's own step: it derives an id, or moves on with the one it has.
LEMMA ClickType ==
    ASSUME TypeOK, NEW c \in Clicks,
           \/ \E usd \in Entered : handlePublish(c, usd)
           \/ Connected(c) \/ Submit(c) \/ Land(c) \/ Watched(c)
    PROVE  publish' \in [Clicks -> Publications]
<1>0. publish[c] \in Publications
  BY DEF TypeOK
<1>1. ASSUME NEW usd \in Entered, handlePublish(c, usd)
      PROVE  publish' \in [Clicks -> Publications]
  <2>1. CASE usdToStar(usd) = 0 \/ account = None
    BY <1>1, <2>1, GotoType DEF handlePublish, Phases
  <2>2. CASE usdToStar(usd) # 0 /\ account # None
    <3> DEFINE id == deriveServiceId(account, c, usdToStar(usd))
    <3>1. id \in Ids
      BY <2>2, DerivedId
    <3> HIDE DEF id
    <3>2. publish' = [publish EXCEPT ![c] = [publish[c] EXCEPT !.pc = "proving", !.id = id]]
      BY <1>1, <2>2 DEF handlePublish, TypeOK, id
    <3>3. [publish[c] EXCEPT !.pc = "proving", !.id = id] \in Publications
      BY <1>0, <3>1, NoneIsNoId DEF Publications, Phases
    <3>4. QED
      BY <3>2, <3>3 DEF TypeOK
  <2>3. QED
    BY <2>1, <2>2
<1>2. ASSUME Connected(c) PROVE publish' \in [Clicks -> Publications]
  BY <1>2, GotoType DEF Connected, Phases
<1>3. ASSUME Submit(c) PROVE publish' \in [Clicks -> Publications]
  <2>1. publish[c].id # None
    BY <1>0, <1>3 DEF Submit, In, Publications
  <2>2. CASE Goto(c, "error")
    BY <2>2, GotoType DEF Phases
  <2>3. ASSUME NEW pc \in {"confirming", "error"},
               publish' = [publish EXCEPT ![c].pc = pc, ![c].tx = "sent"]
        PROVE  publish' \in [Clicks -> Publications]
    <3>1. publish' = [publish EXCEPT ![c] = [publish[c] EXCEPT !.pc = pc, !.tx = "sent"]]
      BY <2>3 DEF TypeOK
    <3>2. [publish[c] EXCEPT !.pc = pc, !.tx = "sent"] \in Publications
      BY <1>0, <2>1 DEF Publications, Phases
    <3>3. QED
      BY <3>1, <3>2 DEF TypeOK
  <2>4. QED
    BY <1>3, <2>2, <2>3 DEF Submit
<1>4. ASSUME Land(c) PROVE publish' \in [Clicks -> Publications]
  <2>1. publish[c].id # None
    BY <1>0, <1>4 DEF Land, Publications
  <2>2. publish' = [publish EXCEPT ![c] = [publish[c] EXCEPT !.tx = "landed"]]
    BY <1>4 DEF TypeOK, Land
  <2>3. [publish[c] EXCEPT !.tx = "landed"] \in Publications
    BY <1>0, <2>1 DEF Publications
  <2>4. QED
    BY <2>2, <2>3 DEF TypeOK
<1>5. ASSUME Watched(c) PROVE publish' \in [Clicks -> Publications]
  <2>1. publish[c].id # None
    BY <1>0, <1>5 DEF Watched, In, Publications
  <2>2. QED
    BY <1>5, <2>1, GotoType DEF Watched, Phases
<1>6. QED
  BY <1>1, <1>2, <1>3, <1>4, <1>5

\* An id that is derived stays.
LEMMA IdsStay ==
    ASSUME TypeOK, NEW c \in Clicks, NEW d \in Clicks,
           \/ \E usd \in Entered : handlePublish(c, usd)
           \/ Connected(c) \/ Submit(c) \/ Land(c) \/ Watched(c)
           \/ \E verdict : Answer(c, verdict) \/ Goto(c, "error")
    PROVE  publish'[d].id = publish[d].id \/ publish'[d].id \in Ids
<1>1. ASSUME NEW usd \in Entered, handlePublish(c, usd)
      PROVE  publish'[d].id = publish[d].id \/ publish'[d].id \in Ids
  BY <1>1, DerivedId DEF handlePublish, Goto, TypeOK, Publications
<1>2. ASSUME NEW pc, Goto(c, pc) PROVE publish'[d].id = publish[d].id
  BY <1>2 DEF Goto, TypeOK, Publications
<1>3. ASSUME NEW verdict, Answer(c, verdict) PROVE publish'[d].id = publish[d].id
  BY <1>2, <1>3 DEF Answer, TypeOK, Publications
<1>4. ASSUME Submit(c) \/ Land(c) PROVE publish'[d].id = publish[d].id
  BY <1>2, <1>4 DEF Submit, Land, TypeOK, Publications
<1>5. QED
  BY <1>1, <1>2, <1>3, <1>4 DEF Connected, Watched

\* Every action keeps the types.
LEMMA NextType == TypeOK /\ [Next]_vars => TypeOK'
<1> SUFFICES ASSUME TypeOK, [Next]_vars PROVE TypeOK'
  OBVIOUS
<1>1. CASE UNCHANGED vars
  BY <1>1 DEF TypeOK, PriceMaps, vars
<1>2. CASE Context
  BY <1>2 DEF TypeOK, PriceMaps, Context, connect, disconnect
<1>3. CASE Index
  BY <1>3 DEF TypeOK, PriceMaps, Index
<1>4. CASE fetchGatewayServices
  BY <1>4 DEF TypeOK, PriceMaps, fetchGatewayServices
<1>5. CASE readVaultState
  <2>1. servicePrice \in PriceMaps
    BY DEF servicePrice, PriceMaps, TypeOK
  <2>2. listing' \in [services : {None} \cup SUBSET rows, onChain : {None} \cup PriceMaps]
    BY <1>5, <2>1 DEF TypeOK, readVaultState
  <2>3. PriceMaps' = PriceMaps
    BY <1>5 DEF readVaultState, PriceMaps
  <2>4. QED
    BY <1>5, <2>2, <2>3 DEF TypeOK, readVaultState
<1>6. ASSUME NEW c \in Clicks,
             \/ \E usd \in Entered : handlePublish(c, usd)
             \/ Connected(c) \/ Submit(c) \/ Land(c) \/ Watched(c)
      PROVE  TypeOK'
  <2>1. publish' \in [Clicks -> Publications]
    BY <1>6, ClickType
  <2>2. registered \subseteq registered' /\ registered' \subseteq Ids
    <3>1. CASE Land(c)
      <4>1. publish[c].id \in Ids
        BY <3>1 DEF Land, TypeOK, Publications
      <4>2. QED
        BY <3>1, <4>1 DEF Land, TypeOK
    <3>2. CASE ~Land(c)
      BY <1>6, <3>2 DEF handlePublish, Connected, Submit, Watched, TypeOK
    <3>3. QED
      BY <3>1, <3>2
  <2>3. /\ account' \in Accounts \cup {None}
        /\ UNCHANGED <<indexed, posts, rows, listing>>
    BY <1>6 DEF handlePublish, Connected, connect, Submit, Land, Watched, TypeOK
  <2>4. ASSUME NEW d \in Clicks, posts'[d] # Idle PROVE publish'[d].id \in Ids
    BY <1>6, <2>3, <2>4, IdsStay DEF TypeOK
  <2>5. QED
    BY <2>1, <2>2, <2>3, <2>4, ViewsGrow DEF TypeOK
<1>7. ASSUME NEW c \in Clicks, registerGatewayService(c) PROVE TypeOK'
  <2>1. publish[c].id \in Ids
    BY <1>7 DEF registerGatewayService, In, TypeOK, Publications
  <2>2. [id |-> publish[c].id, spelling |-> Canonical, price |-> publish[c].id.price,
         owner |-> publish[c].id.owner] \in Bodies
    BY <2>1, MarketAssumption DEF Ids, Bodies
  <2>3. posts' \in [Clicks \cup {Somebody} -> Posts]
    BY <1>7, <2>2 DEF registerGatewayService, Request, Posts, TypeOK
  <2>4. ASSUME NEW d \in Clicks, posts'[d] # Idle PROVE publish'[d].id \in Ids
    BY <1>7, <2>1, <2>4 DEF registerGatewayService, Request, TypeOK
  <2>5. QED
    BY <1>7, <2>3, <2>4, ViewsGrow DEF registerGatewayService, TypeOK
<1>8. ASSUME NEW body \in Bodies, PostElse(body) PROVE TypeOK'
  <2>1. posts' \in [Clicks \cup {Somebody} -> Posts]
    BY <1>8 DEF PostElse, Request, Posts, TypeOK
  <2>2. ASSUME NEW d \in Clicks, posts'[d] # Idle PROVE publish'[d].id \in Ids
    BY <1>8, <2>2, MarketAssumption DEF PostElse, Request, Somebody, TypeOK
  <2>3. QED
    BY <1>8, <2>1, <2>2, ViewsGrow DEF PostElse, TypeOK
<1>9. ASSUME NEW p \in Clicks \cup {Somebody}, Check(p) PROVE TypeOK'
  <2>1. posts[p] \in Posts /\ posts[p].body \in Bodies
    BY <1>9, PostFields DEF Check, TypeOK
  <2>2. checkOwnership(posts[p].body) \in {"match", "mismatch", "unconfirmed"}
    BY DEF checkOwnership
  <2>3. [pc |-> "checked", body |-> posts[p].body, verdict |-> checkOwnership(posts[p].body)]
            \in Posts
    BY <2>1, <2>2 DEF Posts
  <2>4. posts' \in [Clicks \cup {Somebody} -> Posts]
    BY <1>9, <2>3 DEF Check, TypeOK
  <2>5. ASSUME NEW d \in Clicks, posts'[d] # Idle PROVE publish'[d].id \in Ids
    BY <1>9, <2>5 DEF Check, Idle, TypeOK
  <2>6. QED
    BY <1>9, <2>4, <2>5, ViewsGrow DEF Check, TypeOK
<1>10. ASSUME NEW p \in Clicks \cup {Somebody}, insert(p) PROVE TypeOK'
  <2>1. posts[p].body \in Bodies
    BY <1>10, PostFields DEF insert, TypeOK
  <2>2. rows \subseteq rows' /\ rows' \subseteq Bodies
    BY <1>10, <2>1 DEF insert, TypeOK
  <2>3. posts' \in [Clicks \cup {Somebody} -> Posts]
    BY <1>10 DEF insert, Posts, TypeOK
  <2>4. publish' \in [Clicks -> Publications]
    <3>1. CASE p = Somebody
      BY <1>10, <3>1 DEF insert, TypeOK
    <3>2. CASE p # Somebody
      <4>1. p \in Clicks /\ (Answer(p, posts[p].verdict) \/ Goto(p, "error"))
        BY <1>10, <3>2 DEF insert
      <4>2. publish[p].id # None
        BY <1>10, <4>1, NoneIsNoId DEF insert, Idle, TypeOK
      <4>3. QED
        BY <4>1, <4>2, AnswerType
    <3>3. QED
      BY <3>1, <3>2
  <2>5. ASSUME NEW d \in Clicks, posts'[d] # Idle PROVE publish'[d].id \in Ids
    <3>1. posts[d] # Idle
      BY <1>10, <2>5 DEF insert, TypeOK
    <3>2. publish'[d].id = publish[d].id \/ publish'[d].id \in Ids
      BY <1>10, IdsStay DEF insert
    <3>3. QED
      BY <3>1, <3>2 DEF TypeOK
  <2>6. QED
    BY <1>10, <2>2, <2>3, <2>4, <2>5, ViewsGrow DEF insert, TypeOK
<1>11. QED
  BY <1>1, <1>2, <1>3, <1>4, <1>5, <1>6, <1>7, <1>8, <1>9, <1>10 DEF Next

\* The types hold in every behaviour.
THEOREM TypeCorrect == Spec => []TypeOK
  BY InitType, NextType, PTL DEF Spec

-----------------------------------------------------------------------------
(* What is listed *)

\* A verdict in hand: what matched when it was looked up is registered, by that owner.
PostSound(p) ==
    posts[p].pc = "checked" /\ posts[p].verdict = "match" =>
        posts[p].body.id \in registered /\ posts[p].body.owner = posts[p].body.id.owner

\* A click at the gateway asks for its own service, and one that is done has it listed.
ClickSound(c) ==
    /\ posts[c] # Idle =>
           /\ In(c, "gateway")
           /\ posts[c].body.id = publish[c].id
           /\ posts[c].body.spelling = Canonical
    /\ In(c, "done") => Rows(publish[c].id, Canonical) # {}

MarketInv ==
    /\ RowsAreRegistered
    /\ \A p \in Posters : PostSound(p)
    /\ \A c \in Clicks : ClickSound(c)

\* The chain and the table only grow.
LEMMA TablesGrow == TypeOK /\ [Next]_vars => registered \subseteq registered' /\ rows \subseteq rows'
  BY DEF Next, vars, Context, Index, fetchGatewayServices, readVaultState, handlePublish,
         Connected, Submit, Land, Watched, registerGatewayService, PostElse, Check, insert

\* A match is looked up in a state of the chain's past, which is still true.
LEMMA CheckSound ==
    ASSUME TypeOK, NEW body \in Bodies, checkOwnership(body) = "match"
    PROVE  body.id \in registered /\ body.owner = body.id.owner
<1>1. body.id \in indexed /\ serviceOwner[body.id] = body.owner
  BY DEF checkOwnership, serviceOwner
<1>2. QED
  BY <1>1 DEF serviceOwner, TypeOK

\* No step leaves a verdict unsound.
LEMMA NextPost ==
    ASSUME TypeOK, MarketInv, [Next]_vars, NEW p \in Posters
    PROVE  PostSound(p)'
<1>1. CASE posts'[p] = posts[p]
  BY <1>1, TablesGrow DEF MarketInv, PostSound
<1>2. CASE posts'[p] = Idle
  BY <1>2 DEF PostSound, Idle
<1>3. CASE posts'[p].pc = "checking"
  BY <1>3 DEF PostSound
<1>4. CASE Check(p)
  <2>1. posts[p].body \in Bodies
    BY <1>4, PostFields DEF Check, TypeOK, Posters
  <2>2. posts'[p] = [pc |-> "checked", body |-> posts[p].body,
                     verdict |-> checkOwnership(posts[p].body)]
    BY <1>4 DEF Check, TypeOK, Posters
  <2>3. UNCHANGED registered
    BY <1>4 DEF Check
  <2>4. QED
    BY <2>1, <2>2, <2>3, CheckSound DEF PostSound
<1>5. ASSUME NEW c \in Clicks, registerGatewayService(c)
      PROVE  posts'[p] = posts[p] \/ posts'[p].pc = "checking"
  BY <1>5 DEF registerGatewayService, Request, TypeOK, Posters
<1>6. ASSUME NEW body, PostElse(body)
      PROVE  posts'[p] = posts[p] \/ posts'[p].pc = "checking"
  BY <1>6 DEF PostElse, Request, TypeOK, Posters
<1>7. ASSUME NEW q \in Posters, Check(q), q # p PROVE posts'[p] = posts[p]
  BY <1>7 DEF Check, TypeOK, Posters
<1>8. ASSUME NEW q \in Posters, insert(q) PROVE posts'[p] \in {posts[p], Idle}
  BY <1>8 DEF insert, TypeOK, Posters
<1>9. CASE UNCHANGED posts
  BY <1>1, <1>9
<1>10. QED
  BY <1>1, <1>2, <1>3, <1>4, <1>5, <1>6, <1>7, <1>8, <1>9
     DEF Next, vars, Posters, Context, Index, fetchGatewayServices, readVaultState,
         handlePublish, Connected, Submit, Land, Watched

\* The table keeps what it has, and takes what was found on the chain, once.
LEMMA NextRows ==
    ASSUME TypeOK, MarketInv, [Next]_vars
    PROVE  RowsAreRegistered'
<1>1. CASE UNCHANGED rows
  BY <1>1, TablesGrow DEF MarketInv, RowsAreRegistered, Rows
<1>2. ASSUME NEW p \in Posters, insert(p) PROVE RowsAreRegistered'
  <2>1. CASE UNCHANGED rows
    BY <1>1, <2>1
  <2>2. CASE /\ posts[p].verdict = "match"
             /\ Rows(posts[p].body.id, posts[p].body.spelling) = {}
    <3>1. /\ rows' = rows \cup {posts[p].body} /\ UNCHANGED registered
          /\ posts[p].body.id \in registered
          /\ posts[p].body.owner = posts[p].body.id.owner
      BY <1>2, <2>2 DEF insert, MarketInv, PostSound
    <3>2. QED
      BY <2>2, <3>1 DEF MarketInv, RowsAreRegistered, Rows
  <2>3. QED
    BY <1>2, <2>1, <2>2 DEF insert
<1>3. QED
  BY <1>1, <1>2
     DEF Next, vars, Posters, Context, Index, fetchGatewayServices, readVaultState,
         handlePublish, Connected, Submit, Land, Watched, registerGatewayService, PostElse, Check

\* A step of its own before the gateway leaves a click sound.
LEMMA OwnStep ==
    ASSUME TypeOK, MarketInv, [Next]_vars, NEW c \in Clicks,
           \/ \E usd \in Entered : handlePublish(c, usd)
           \/ Connected(c) \/ Submit(c) \/ Land(c) \/ Watched(c)
    PROVE  ClickSound(c)'
<1>1. UNCHANGED posts
  BY DEF handlePublish, Connected, Submit, Land, Watched
<1>2. CASE Land(c)
  <2>1. publish'[c].pc = publish[c].pc /\ publish'[c].id = publish[c].id
    BY <1>2 DEF Land, TypeOK, Publications
  <2>2. QED
    BY <1>1, <2>1, TablesGrow DEF MarketInv, ClickSound, In, Rows
<1>3. CASE ~Land(c)
  <2>1. publish[c].pc # "gateway"
    BY <1>3 DEF handlePublish, Connected, Submit, Watched, In
  <2>2. posts'[c] = Idle
    BY <1>1, <2>1 DEF MarketInv, ClickSound, In
  <2>3. publish'[c].pc # "done"
    BY <1>3 DEF handlePublish, Connected, Submit, Watched, Goto, TypeOK, Publications
  <2>4. QED
    BY <2>2, <2>3 DEF ClickSound, In
<1>4. QED
  BY <1>2, <1>3

\* When the answer to a click is success, its service is in the table.
LEMMA OwnAnswer ==
    ASSUME TypeOK, MarketInv, NEW c \in Clicks, insert(c)
    PROVE  ClickSound(c)'
<1>1. /\ posts[c] # Idle
      /\ posts[c].body.id = publish[c].id /\ posts[c].body.spelling = Canonical
      /\ posts'[c] = Idle
      /\ Answer(c, posts[c].verdict) \/ Goto(c, "error")
      /\ In(c, "gateway")
  BY MarketAssumption DEF insert, Idle, Somebody, MarketInv, ClickSound, TypeOK
<1>2. publish'[c].id = publish[c].id
  BY <1>1 DEF Answer, Goto, TypeOK, Publications
<1>3. publish'[c].pc = "done" => posts[c].verdict = "match"
  BY <1>1 DEF Answer, Goto, In, TypeOK, Publications
<1>4. posts[c].verdict = "match" =>
          \E row \in rows' : row.id = publish[c].id /\ row.spelling = Canonical
  BY <1>1 DEF insert, Rows
<1>5. QED
  BY <1>1, <1>2, <1>3, <1>4 DEF ClickSound, In, Rows

\* No step leaves a click unsound.
LEMMA NextClick ==
    ASSUME TypeOK, MarketInv, [Next]_vars, NEW c \in Clicks
    PROVE  ClickSound(c)'
<1>1. CASE publish'[c] = publish[c] /\ posts'[c] = posts[c]
  BY <1>1, TablesGrow DEF MarketInv, ClickSound, In, Rows
<1>2. ASSUME NEW d \in Clicks,
             \/ \E usd \in Entered : handlePublish(d, usd)
             \/ Connected(d) \/ Submit(d) \/ Land(d) \/ Watched(d)
      PROVE  ClickSound(c)'
  <2>1. CASE d = c
    BY <1>2, <2>1, OwnStep
  <2>2. CASE d # c
    <3>1. publish'[c] = publish[c] /\ posts' = posts
      BY <1>2, <2>2 DEF handlePublish, Connected, Submit, Land, Watched, Goto, TypeOK
    <3>2. QED
      BY <1>1, <3>1
  <2>3. QED
    BY <2>1, <2>2
<1>3. ASSUME NEW d \in Clicks, registerGatewayService(d) PROVE ClickSound(c)'
  <2>1. CASE d = c
    <3>1. /\ posts'[c].body.id = publish[c].id /\ posts'[c].body.spelling = Canonical
          /\ publish' = publish /\ rows' = rows
          /\ In(c, "gateway")
      BY <1>3, <2>1 DEF registerGatewayService, Request, TypeOK
    <3>2. QED
      BY <3>1 DEF ClickSound, In
  <2>2. CASE d # c
    BY <1>1, <1>3, <2>2 DEF registerGatewayService, Request, TypeOK
  <2>3. QED
    BY <2>1, <2>2
<1>4. ASSUME NEW body, PostElse(body) PROVE ClickSound(c)'
  BY <1>1, <1>4, MarketAssumption DEF PostElse, Request, Somebody, TypeOK
<1>5. ASSUME NEW p \in Posters, Check(p) PROVE ClickSound(c)'
  <2>1. CASE p = c
    <3>1. /\ posts[c] # Idle /\ publish' = publish /\ rows' = rows
          /\ posts'[c].body = posts[c].body
      BY <1>5, <2>1 DEF Check, Idle, TypeOK
    <3>2. QED
      BY <3>1 DEF MarketInv, ClickSound, In, Rows
  <2>2. CASE p # c
    BY <1>1, <1>5, <2>2 DEF Check, TypeOK
  <2>3. QED
    BY <2>1, <2>2
<1>6. ASSUME NEW p \in Posters, insert(p) PROVE ClickSound(c)'
  <2>1. CASE p = c
    BY <1>6, <2>1, OwnAnswer
  <2>2. CASE p # c
    <3>1. posts'[c] = posts[c]
      BY <1>6, <2>2 DEF insert, TypeOK
    <3>2. publish'[c] = publish[c]
      BY <1>6, <2>2 DEF insert, Answer, Goto, Posters, TypeOK
    <3>3. QED
      BY <1>1, <3>1, <3>2
  <2>3. QED
    BY <2>1, <2>2
<1>7. CASE UNCHANGED <<publish, posts>>
  BY <1>1, <1>7
<1>8. QED
  BY <1>2, <1>3, <1>4, <1>5, <1>6, <1>7
     DEF Next, vars, Posters, Context, Index, fetchGatewayServices, readVaultState

\* The invariant of registration holds in every behaviour.
LEMMA Registered == Spec => []MarketInv
<1>1. Init => MarketInv
  BY DEF Init, MarketInv, RowsAreRegistered, PostSound, ClickSound, Idle, In, Posters
<1>2. TypeOK /\ MarketInv /\ [Next]_vars => MarketInv'
  <2> SUFFICES ASSUME TypeOK, MarketInv, [Next]_vars PROVE MarketInv'
    OBVIOUS
  <2>1. RowsAreRegistered'
    BY NextRows
  <2>2. ASSUME NEW p \in Posters PROVE PostSound(p)'
    BY NextPost
  <2>3. ASSUME NEW c \in Clicks PROVE ClickSound(c)'
    BY NextClick
  <2>4. QED
    BY <2>1, <2>2, <2>3 DEF MarketInv, Posters
<1>3. QED
  BY <1>1, <1>2, TypeCorrect, PTL DEF Spec

\* The gateway lists registered services only, under their owner, once for each way to write
\* the id.
THEOREM ListedIsRegistered == Spec => []RowsAreRegistered
<1>1. MarketInv => RowsAreRegistered
  BY DEF MarketInv
<1>2. QED
  BY <1>1, Registered, PTL

\* A price shown without a warning is the price that will be charged.
THEOREM ShownPricesTrue == Spec => []VerifiedPricesTrue
<1>1. TypeOK => VerifiedPricesTrue
  <2> SUFFICES ASSUME TypeOK, listing.services # None, listing.onChain # None,
                      NEW row \in buildServiceRows(listing.services, listing.onChain)
               PROVE  row.id \in registered /\ row.price = row.id.price
    BY DEF VerifiedPricesTrue
  <2>1. PICK known \in SUBSET registered : listing.onChain = [id \in known |-> id.price]
    BY DEF TypeOK, PriceMaps
  <2>2. row.id \in known /\ row.price = row.id.price
    BY <2>1 DEF buildServiceRows, Found
  <2>3. QED
    BY <2>2
<1>2. QED
  BY <1>1, TypeCorrect, PTL

\* What the screen calls done is registered and listed under its owner.
THEOREM DoneIsListed == Spec => []PublishedIsListed
<1>1. TypeOK /\ MarketInv => PublishedIsListed
  <2> SUFFICES ASSUME MarketInv, NEW c \in Clicks, In(c, "done")
               PROVE  /\ publish[c].id \in registered
                      /\ \E row \in Rows(publish[c].id, Canonical) :
                             row.owner = publish[c].id.owner
    BY DEF PublishedIsListed
  <2>1. PICK row \in rows : row.id = publish[c].id /\ row.spelling = Canonical
    BY DEF MarketInv, ClickSound, Rows
  <2>2. row.id \in registered /\ row.owner = row.id.owner
    BY DEF MarketInv, RowsAreRegistered
  <2>3. QED
    BY <2>1, <2>2 DEF Rows
<1>2. QED
  BY <1>1, TypeCorrect, Registered, PTL

-----------------------------------------------------------------------------
(* Prices on display *)

\* A quotient is rounded by half a unit at most.
LEMMA Rounding ==
    ASSUME NEW usd \in Nat
    PROVE  approxUsdOf(usdToStar(usd)) - usd \in -6..6
<1> DEFINE star == usdToStar(usd)
<1>1. star = (100000 * usd + 100000) \div 200000
  BY DEF usdToStar, RoundedQuotient, StarPerUsd, UsdUnit
<1>2. star \in Nat /\ 2 * star <= usd + 1 /\ usd <= 2 * star
  BY <1>1
<1> HIDE DEF star
<1> DEFINE shown == (20000 * star + 50000) \div 100000
<1>3. approxUsdOf(star) = 10 * shown
  BY <1>2 DEF approxUsdOf, RoundedQuotient, StarPerUsd
<1>4. shown \in Nat /\ 10 * shown <= 2 * star + 5 /\ 2 * star <= 10 * shown + 5
  BY <1>2
<1> HIDE DEF shown
<1>5. 10 * shown - usd \in -6..6
  BY <1>2, <1>4
<1>6. QED
  BY <1>3, <1>5 DEF star

\* Whatever price is typed in, the one that gets into the service's id is shown as that
\* price, up to a hundredth of a cent (ShownAsEntered).
THEOREM PricesShownAsEntered == Spec => ShownAsEntered
<1>1. ASSUME TypeOK, NEW c \in Clicks, NEW usd \in Entered,
             handlePublish(c, usd), In(c, "proving")'
      PROVE  approxUsdOf(publish'[c].id.price) - usd \in -6..6
  <2>1. publish[c] \in Publications /\ publish \in [Clicks -> Publications] /\ usd \in Nat
    BY <1>1, MarketAssumption DEF TypeOK
  <2>2. publish'[c].id.price = usdToStar(usd)
    <3>1. ~Goto(c, "error") /\ ~Goto(c, "connecting")
      BY <1>1, <2>1 DEF Goto, In, Publications
    <3>2. publish' = [publish EXCEPT ![c].pc = "proving",
                                     ![c].id = deriveServiceId(account, c, usdToStar(usd))]
      BY <1>1, <3>1 DEF handlePublish
    <3>3. publish'[c].id = deriveServiceId(account, c, usdToStar(usd))
      BY <2>1, <3>2 DEF Publications
    <3>4. QED
      BY <3>3 DEF deriveServiceId
  <2>3. QED
    BY <2>1, <2>2, Rounding
<1>2. TypeOK => [\A c \in Clicks, usd \in Entered :
          handlePublish(c, usd) /\ In(c, "proving")' =>
              approxUsdOf(publish'[c].id.price) - usd \in -6..6]_vars
  BY <1>1
<1>3. QED
  BY <1>2, TypeCorrect, PTL DEF ShownAsEntered
=============================================================================
