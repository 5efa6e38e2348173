-------------------------------- MODULE Market --------------------------------
(***************************************************************************)
(* How a service gets on sale: PublishScreen's handlePublish and            *)
(* registerServiceOnChain in the browser, POST /services at the gateway     *)
(* (routes.ts, ownership.ts, registry.ts), anyone else's requests to it,    *)
(* and the price check of `m402 services` (buildServiceRows).               *)
(*                                                                         *)
(* The chain, the indexer's view of it, the gateway's table and the screen  *)
(* each know of a service at a time of their own.  A service id determines  *)
(* the owner and the price it was derived from.  To the chain it is bytes,  *)
(* to the gateway's table a string, of which several decode to those bytes. *)
(***************************************************************************)
EXTENDS Integers, FiniteSets

CONSTANTS
    Clicks,      \* bound of the model: the clicks on "Register with Lace"
    Accounts,    \* the wallet accounts that may be connected
    Entered,     \* the prices typed in, in units of 0.00001 USD
    MaxRetries,  \* length of gatewayRetryDelaysMs
    Spellings,   \* ways to write an id that Buffer.from(_, 'hex') decodes to the same bytes
    Canonical,   \* that of Buffer.toString('hex'): lower-case digits, nothing behind them
    None

ASSUME MarketAssumption ==
    /\ IsFiniteSet(Clicks) /\ "anybody" \notin Clicks /\ None \notin Clicks \cup Accounts
    /\ Entered \subseteq Nat /\ MaxRetries \in Nat /\ Canonical \in Spellings

VARIABLES
    account,     \* the account of the wallet context, None when it is not connected
    publish,     \* handlePublish of each click
    registered,  \* the ids in servicePrice and serviceOwner
    indexed,     \* those of the state the indexer serves
    posts,       \* POST /services in progress: of each click, and one of anybody's
    rows,        \* the gateway's services table
    listing      \* `m402 services`: what it has read from the gateway and the chain

vars == <<account, publish, registered, indexed, posts, rows, listing>>

-----------------------------------------------------------------------------
(* Prices.                                                                  *)

StarPerUsd == 50000
UsdUnit == 100000   \* units of `Entered` in a USD
RoundedQuotient(a, b) == (2 * a + b) \div (2 * b)

usdToStar(usd) == RoundedQuotient(usd * StarPerUsd, UsdUnit)
\* Four decimals of a USD. Mutant: two of them.
approxUsdOfCents(star) == 1000 * RoundedQuotient(star * 100, StarPerUsd)
approxUsdOf(star) == 10 * RoundedQuotient(star * 10000, StarPerUsd)

Prices == {usdToStar(usd) : usd \in Entered}
deriveServiceId(owner, salt, price) == [owner |-> owner, salt |-> salt, price |-> price]
Ids == [owner : Accounts, salt : Clicks, price : Prices]
ASSUME NoneIsNoId == None \notin Ids
Bodies == [id : Ids, spelling : Spellings, price : Prices, owner : Accounts]

-----------------------------------------------------------------------------

Somebody == "anybody"
Idle == [pc |-> "idle"]
NothingRead == [services |-> None, onChain |-> None]
Phases == {"idle", "connecting", "proving", "confirming", "gateway", "done", "error"}

Init ==
    /\ account = None
    /\ publish = [c \in Clicks |-> [pc |-> "idle", id |-> None, tx |-> "none", attempt |-> 0]]
    /\ registered = {} /\ indexed = {}
    /\ posts = [p \in Clicks \cup {Somebody} |-> Idle]
    /\ rows = {}
    /\ listing = NothingRead

\* The two maps of the public state, as the indexer serves it.
servicePrice == [id \in indexed |-> id.price]
serviceOwner == [id \in indexed |-> id.owner]

In(c, pc) == publish[c].pc = pc
Goto(c, pc) == publish' = [publish EXCEPT ![c].pc = pc]
\* The primary key of the table is the id as it was written.
Rows(id, spelling) == {row \in rows : row.id = id /\ row.spelling = spelling}

-----------------------------------------------------------------------------
(* The wallet context and the screen.                                       *)

\* The wallet connects with an account of the user's choice, or disconnects.
connect == account' \in Accounts
disconnect == account # None /\ account' = None

Context ==
    /\ connect \/ disconnect
    /\ UNCHANGED <<publish, registered, indexed, posts, rows, listing>>

\* The screen can be left and opened again while a click is at work, so that clicks
\* overlap. The closure has the account that was rendered.
handlePublish(c, usd) ==
    /\ In(c, "idle")
    /\ IF usdToStar(usd) = 0 THEN Goto(c, "error")
       ELSE IF account = None THEN Goto(c, "connecting")
       ELSE publish' = [publish EXCEPT
                ![c].pc = "proving", ![c].id = deriveServiceId(account, c, usdToStar(usd))]
    /\ UNCHANGED <<account, registered, indexed, posts, rows, listing>>

\* After a connection of its own the closure still has no address, and the click fails.
Connected(c) ==
    /\ In(c, "connecting")
    /\ connect \/ account' = None
    /\ Goto(c, "error")
    /\ UNCHANGED <<registered, indexed, posts, rows, listing>>

\* registerServiceOnChain: the wallet, the proof or the circuit may fail first, and an
\* error may come after the transaction has left.
Submit(c) ==
    /\ In(c, "proving")
    /\ \/ \E pc \in {"confirming", "error"} :
              publish' = [publish EXCEPT ![c].pc = pc, ![c].tx = "sent"]
       \/ Goto(c, "error")
    /\ UNCHANGED <<account, registered, indexed, posts, rows, listing>>

\* A submitted transaction is included, be it watched or not.
Land(c) ==
    /\ publish[c].tx = "sent"
    /\ publish[c].id \notin registered
    /\ registered' = registered \cup {publish[c].id}
    /\ publish' = [publish EXCEPT ![c].tx = "landed"]
    /\ UNCHANGED <<account, indexed, posts, rows, listing>>

Watched(c) ==
    /\ In(c, "confirming")
    /\ \/ publish[c].tx = "landed" /\ Goto(c, "gateway")
       \/ Goto(c, "error")
    /\ UNCHANGED <<account, registered, indexed, posts, rows, listing>>

Index ==
    /\ indexed # registered
    /\ indexed' = registered
    /\ UNCHANGED <<account, publish, registered, posts, rows, listing>>

-----------------------------------------------------------------------------
(* POST /services                                                           *)

Request(p, body) == posts' = [posts EXCEPT ![p] = [pc |-> "checking", body |-> body]]

registerGatewayService(c) ==
    LET id == publish[c].id IN
    /\ In(c, "gateway") /\ posts[c] = Idle
    /\ Request(c, [id |-> id, spelling |-> Canonical, price |-> id.price, owner |-> id.owner])
    /\ UNCHANGED <<account, publish, registered, indexed, rows, listing>>

\* Anyone may post any body, for any service whose id is known, however it is written.
PostElse(body) ==
    /\ posts[Somebody] = Idle
    /\ \E c \in Clicks : publish[c].id = body.id
    /\ Request(Somebody, body)
    /\ UNCHANGED <<account, publish, registered, indexed, rows, listing>>

\* The id is decoded before it is looked up, so that its spelling does not matter.
\* Mutant: the absence of the id is taken for somebody's else.
checkOwnershipLenient(body) ==
    IF body.id \in DOMAIN serviceOwner /\ serviceOwner[body.id] # body.owner
    THEN "mismatch" ELSE "match"
checkOwnership(body) ==
    IF body.id \notin DOMAIN serviceOwner THEN "unconfirmed"
    ELSE IF serviceOwner[body.id] = body.owner THEN "match" ELSE "mismatch"

Check(p) ==
    /\ posts[p].pc = "checking"
    /\ posts' = [posts EXCEPT ![p] =
           [pc |-> "checked", body |-> posts[p].body, verdict |-> checkOwnership(posts[p].body)]]
    /\ UNCHANGED <<account, publish, registered, indexed, rows, listing>>

\* The row is inserted unless there is one of its id as it is written; then the screen has its answer.
\* Mutants: the screen takes any refusal for an earlier success; it does not count retries.
AnswerAnyway(c, verdict) == Goto(c, "done")
AnswerForever(c, verdict) ==
    Goto(c, CASE verdict = "match" -> "done"
              [] verdict = "mismatch" -> "error"
              [] OTHER -> "gateway")
Answer(c, verdict) ==
    IF verdict = "unconfirmed" /\ publish[c].attempt < MaxRetries
    THEN publish' = [publish EXCEPT ![c].attempt = @ + 1]
    ELSE Goto(c, IF verdict = "match" THEN "done" ELSE "error")

insert(p) ==
    LET body == posts[p].body IN
    /\ posts[p].pc = "checked"
    /\ rows' = IF posts[p].verdict = "match" /\ Rows(body.id, body.spelling) = {}
               THEN rows \cup {body} ELSE rows
    /\ posts' = [posts EXCEPT ![p] = Idle]
    /\ IF p = Somebody THEN UNCHANGED publish
       ELSE Answer(p, posts[p].verdict) \/ Goto(p, "error")   \* or the answer is lost
    /\ UNCHANGED <<account, registered, indexed, listing>>

-----------------------------------------------------------------------------
(* m402 services: two reads at once, and then the rows.                      *)

fetchGatewayServices ==
    /\ listing.services = None
    /\ listing' = [listing EXCEPT !.services = rows]
    /\ UNCHANGED <<account, publish, registered, indexed, posts, rows>>

readVaultState ==
    /\ listing.onChain = None
    /\ listing' = [listing EXCEPT !.onChain = servicePrice]
    /\ UNCHANGED <<account, publish, registered, indexed, posts, rows>>

\* The rows that are shown without a warning: ids are compared as they are written, and the
\* chain's are in the canonical spelling. Mutant: an id is enough.
Found(row, onChain) == row.spelling = Canonical /\ row.id \in DOMAIN onChain
buildServiceRowsUnpriced(services, onChain) == {row \in services : Found(row, onChain)}
buildServiceRows(services, onChain) ==
    {row \in services : Found(row, onChain) /\ row.price = onChain[row.id]}

Next ==
    \/ Context \/ Index \/ fetchGatewayServices \/ readVaultState
    \/ \E c \in Clicks :
           \/ \E usd \in Entered : handlePublish(c, usd)
           \/ Connected(c) \/ Submit(c) \/ Land(c) \/ Watched(c) \/ registerGatewayService(c)
    \/ \E body \in Bodies : PostElse(body)
    \/ \E p \in Clicks \cup {Somebody} : Check(p) \/ insert(p)

\* The browser sends its requests, and the gateway answers them.
Fairness ==
    \A c \in Clicks :
        WF_vars(registerGatewayService(c)) /\ WF_vars(Check(c)) /\ WF_vars(insert(c))

Spec == Init /\ [][Next]_vars /\ Fairness

-----------------------------------------------------------------------------
\* A click that has not derived an id has sent nothing.
Publications ==
    {p \in [pc : Phases, id : Ids \cup {None}, tx : {"none", "sent", "landed"},
            attempt : 0..MaxRetries] :
        p.id = None => p.tx = "none" /\ p.pc \in {"idle", "connecting", "error"}}
\* A request in progress, and the prices of some registered services.
Posts ==
    {Idle} \cup [pc : {"checking"}, body : Bodies]
           \cup [pc : {"checked"}, body : Bodies, verdict : {"match", "mismatch", "unconfirmed"}]
PriceMaps == {[id \in known |-> id.price] : known \in SUBSET registered}

\* What each part holds is a service, or a message about one; the views of the chain and
\* of the table lag behind them.
TypeOK ==
    /\ account \in Accounts \cup {None}
    /\ publish \in [Clicks -> Publications]
    /\ registered \subseteq Ids /\ indexed \subseteq registered
    /\ posts \in [Clicks \cup {Somebody} -> Posts]
    /\ \A c \in Clicks : posts[c] # Idle => publish[c].id \in Ids
    /\ rows \subseteq Bodies
    /\ listing \in [services : {None} \cup SUBSET rows, onChain : {None} \cup PriceMaps]

\* The gateway lists nothing the chain does not know by that owner, although it looks the
\* owner up in a state that lags and inserts the row only later, among other requests; and
\* nothing twice under one id. One service may have several rows, one per spelling of its id.
RowsAreRegistered ==
    \A row \in rows :
        /\ row.id \in registered
        /\ row.owner = row.id.owner
        /\ \A other \in Rows(row.id, row.spelling) : other = row

\* A service that `m402 services` shows without a warning is sold at that price, although
\* the gateway takes the price from the request and the two reads are of different times.
VerifiedPricesTrue ==
    listing.services # None /\ listing.onChain # None =>
        \A row \in buildServiceRows(listing.services, listing.onChain) :
            row.id \in registered /\ row.price = row.id.price

\* When the screen says the service is registered it is on the chain and in the gateway's
\* table under its owner and by the id the chain shows, be it by this request or by one that
\* came before (409).
PublishedIsListed ==
    \A c \in Clicks : In(c, "done") =>
        /\ publish[c].id \in registered
        /\ \E row \in Rows(publish[c].id, Canonical) : row.owner = publish[c].id.owner

\* Rounded to STAR on registration and to four decimals on display, the price a click puts
\* into the service's id is shown as the price typed in, up to a hundredth of a cent.
ShownAsEntered ==
    [][\A c \in Clicks, usd \in Entered :
          handlePublish(c, usd) /\ In(c, "proving")' =>
              approxUsdOf(publish'[c].id.price) - usd \in -6..6]_vars

\* Once the registration is confirmed the screen comes to an end, with success or an
\* error, however far the indexer lags.
EveryPublishEnds == \A c \in Clicks : In(c, "gateway") ~> ~In(c, "gateway")
=============================================================================
