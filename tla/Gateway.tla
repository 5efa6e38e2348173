------------------------------- MODULE Gateway -------------------------------
(***************************************************************************)
(* The gateway's paid route (gateway/src/routes.ts, verify.ts, consumed.ts): *)
(* concurrent requests for /s/:id, each verified against the vault's        *)
(* receipts as the indexer reports them and against the gateway's own table  *)
(* of consumed receipts, then dispatched to the service.                    *)
(*                                                                         *)
(* The server is one event loop, so the code between two awaits is one step; *)
(* steps of different requests interleave. The table of consumed receipts    *)
(* and the registry are on disk and survive a crash, the requests do not.    *)
(***************************************************************************)
EXTENDS Integers, FiniteSets

CONSTANTS
    Slots,         \* the requests that can be in progress at the same time
    ServiceIds,    \* services that may be registered
    Relays,        \* those of type relay; the others are of type origin
    Secrets        \* receipt secrets

ASSUME SlotsAssumption == IsFiniteSet(Slots)
ASSUME RelaysAssumption == Relays \subseteq ServiceIds

VARIABLES
    receipts,   \* the vault's receipts set on the chain
    history,    \* every value it has had: what an indexer may report
    registry,   \* ids in the services table
    consumed,   \* the consumed_receipts table
    request,    \* the request of each slot
    grants,     \* history: how often each receipt was let through to dispatch
    served      \* history: receipts whose service answered

vars == <<receipts, history, registry, consumed, request, grants, served>>

-----------------------------------------------------------------------------
deriveReceipt(secret, sid) == <<secret, sid>>
Receipts == Secrets \X ServiceIds

Replies == { "none", "not-found", "payment-required", "origin-down", "payment-pending",
             "receipt-already-used", "wrong-service", "upstream", "gateway-error" }
Steps   == { "idle", "probing", "verifying", "dispatching" }

\* candidates: the receipts this secret would have for every other service that was
\* registered when the request arrived.
Requests == [pc : Steps, target : Receipts, candidates : SUBSET Receipts, reply : Replies]

Open(s)   == request[s].pc # "idle"
Answer(s, reply) ==
    request' = [request EXCEPT ![s].pc = "idle", ![s].reply = reply,
                               ![s].candidates = {}]

\* deriveReceipt of every other registered service. Mutant: the ids are not hashed.
CandidateIds(secret, sid) == registry \ {sid}
Candidates(secret, sid) == {deriveReceipt(secret, id) : id \in registry \ {sid}}

\* The two operations of consumed.ts. Mutants: a check that never finds the receipt, a
\* grant that is not recorded.
isConsumedNever(receipt) == receipt \notin Receipts
markConsumedNever(receipt) == UNCHANGED consumed
isConsumed(receipt) == receipt \in consumed
markConsumed(receipt) == consumed' = consumed \cup {receipt}

Init ==
    /\ receipts = {}
    /\ history = {{}}
    /\ registry = {}
    /\ consumed = {}
    /\ request \in [Slots -> [pc : {"idle"}, target : Receipts, candidates : {{}},
                             reply : {"none"}]]
    /\ grants = [r \in Receipts |-> 0]
    /\ served = {}

-----------------------------------------------------------------------------
(* The environment: payments land on the chain, services are registered.    *)

Pay(receipt) ==
    /\ receipt \notin receipts
    /\ receipts' = receipts \cup {receipt}
    /\ history' = history \cup {receipts'}
    /\ UNCHANGED <<registry, consumed, request, grants, served>>

\* registry.insert, after POST /services accepted the registration.
insert(sid) ==
    /\ sid \notin registry
    /\ registry' = registry \cup {sid}
    /\ UNCHANGED <<receipts, history, consumed, request, grants, served>>

-----------------------------------------------------------------------------
(* handleService                                                            *)

\* A new request replaces an answered one in its slot.
Starts(s, target, pc, candidates, reply) ==
    /\ ~Open(s)
    /\ request' = [request EXCEPT ![s] =
           [pc |-> pc, target |-> target, candidates |-> candidates, reply |-> reply]]
    /\ UNCHANGED <<receipts, history, registry, consumed, grants, served>>

UnknownService(s, secret, sid) ==
    /\ sid \notin registry
    /\ Starts(s, deriveReceipt(secret, sid), "idle", {}, "not-found")

\* No X-Payment header: an origin is probed before the payment is asked for.
Unpaid(s, secret, sid) ==
    /\ sid \in registry
    /\ \/ /\ sid \in Relays
          /\ Starts(s, deriveReceipt(secret, sid), "idle", {}, "payment-required")
       \/ /\ sid \notin Relays
          /\ Starts(s, deriveReceipt(secret, sid), "probing", {}, "none")

Probed(s) ==
    /\ request[s].pc = "probing"
    /\ \E reply \in {"payment-required", "origin-down"} : Answer(s, reply)
    /\ UNCHANGED <<receipts, history, registry, consumed, grants, served>>

\* verify: the consumed table is read, then the promise waits for the indexer.
Verify(s, secret, sid) ==
    LET target == deriveReceipt(secret, sid) IN
    /\ sid \in registry
    /\ \/ /\ isConsumed(target)
          /\ Starts(s, target, "idle", {}, "receipt-already-used")
       \/ /\ ~isConsumed(target)
          /\ Starts(s, target, "verifying", Candidates(secret, sid), "none")

\* finish('confirmed'): the receipt is marked, whatever the mark returns, and the
\* request goes on to dispatch.
Confirm(s, seen) ==
    LET target == request[s].target IN
    /\ request[s].pc = "verifying"
    /\ target \in seen
    /\ markConsumed(target)
    /\ request' = [request EXCEPT ![s].pc = "dispatching"]
    /\ grants' = [grants EXCEPT ![target] = @ + 1]
    /\ UNCHANGED <<receipts, history, registry, served>>

\* A receipt of the same secret for another service ends the wait.
\* Mutant: the candidates are not looked up on the chain.
WrongServiceUnseen(s, seen) ==
    /\ request[s].pc = "verifying"
    /\ request[s].target \notin seen
    /\ request[s].candidates # {}
    /\ Answer(s, "wrong-service")
    /\ UNCHANGED <<receipts, history, registry, consumed, grants, served>>
WrongService(s, seen) ==
    /\ request[s].pc = "verifying"
    /\ request[s].target \notin seen
    /\ request[s].candidates \cap seen # {}
    /\ Answer(s, "wrong-service")
    /\ UNCHANGED <<receipts, history, registry, consumed, grants, served>>

\* The timer fires. Mutant: it is never armed.
TimeoutNever(s) == FALSE
Timeout(s) ==
    /\ request[s].pc = "verifying"
    /\ Answer(s, "payment-pending")
    /\ UNCHANGED <<receipts, history, registry, consumed, grants, served>>

\* The upstream answers (with any status), or it fails: 504, 502 or a throw.
Dispatched(s) ==
    /\ request[s].pc = "dispatching"
    /\ \/ Answer(s, "upstream") /\ served' = served \cup {request[s].target}
       \/ Answer(s, "gateway-error") /\ UNCHANGED served
    /\ UNCHANGED <<receipts, history, registry, consumed, grants>>

\* The process dies (a markConsumed that throws inside the subscription's callback kills
\* it, too): every open request is lost with its connection.
Crash ==
    /\ \E s \in Slots : Open(s)
    /\ request' = [s \in Slots |->
           [request[s] EXCEPT !.pc = "idle", !.reply = "none", !.candidates = {}]]
    /\ UNCHANGED <<receipts, history, registry, consumed, grants, served>>

Progress(s) ==
    \/ Probed(s)
    \/ \E seen \in history : Confirm(s, seen)
    \/ Timeout(s)
    \/ Dispatched(s)

Arrive(s) ==
    \E secret \in Secrets, sid \in ServiceIds :
        \/ UnknownService(s, secret, sid)
        \/ Unpaid(s, secret, sid)
        \/ Verify(s, secret, sid)

Next ==
    \/ \E receipt \in Receipts : Pay(receipt)
    \/ \E sid \in ServiceIds : insert(sid)
    \/ \E s \in Slots : Arrive(s)
    \/ \E s \in Slots : Progress(s)
    \/ \E s \in Slots, seen \in history : WrongService(s, seen)
    \/ Crash

Spec == Init /\ [][Next]_vars

\* Timers fire and fetches end (the probe's and the origin's by their own timer, the
\* relay's by the platform's), so each request keeps being driven to an answer. A
\* payment, a registration or a message of the indexer need never come.
FairSpec == Spec /\ \A s \in Slots : WF_vars(Progress(s))

-----------------------------------------------------------------------------
\* The tables, the requests and the history variables hold what their handlers store,
\* and no indexer ever reports a receipt that is not on the chain.
TypeOK ==
    /\ receipts \subseteq Receipts
    /\ history \subseteq SUBSET receipts
    /\ registry \subseteq ServiceIds
    /\ consumed \subseteq Receipts
    /\ request \in [Slots -> Requests]
    /\ grants \in [Receipts -> Nat]
    /\ served \subseteq Receipts

\* Access is granted for paid receipts only, and the table holds exactly the
\* receipts that were let through: nobody is told "receipt-already-used" of a
\* receipt that no request was granted for, and every granted one is remembered,
\* through timeouts, stale reports of the indexer and crashes.
ConsumedIsGranted ==
    /\ consumed = {r \in Receipts : grants[r] > 0}
    /\ consumed \subseteq receipts
    /\ served \subseteq consumed
    /\ \A s \in Slots : request[s].pc = "dispatching" => request[s].target \in consumed

\* How often one payment can be redeemed: once it is redeemed, the only requests
\* that can still redeem it are those that were already waiting, so it is let
\* through at most as often as requests can be in progress together.
Waiting(r) == {s \in Slots : request[s].pc = "verifying" /\ request[s].target = r}
GrantsBounded ==
    \A r \in Receipts : grants[r] > 0 => grants[r] + Cardinality(Waiting(r)) <= Cardinality(Slots)

\* One payment is redeemed once (gateway/README.md: "one receipt redeems once").
RedeemsOnce == \A r \in Receipts : grants[r] <= 1

\* The terminal answer "wrong-service" is never given for a secret that paid for
\* nothing else: some other registered service has its receipt on the chain.
WrongServiceSound ==
    \A s \in Slots :
        LET others == Candidates(request[s].target[1], request[s].target[2]) IN
        /\ request[s].candidates \subseteq others
        /\ request[s].reply = "wrong-service" => others \cap receipts # {}

\* Every request is answered or lost with the process, even when its payment never
\* shows and the indexer stays silent: the timer governs the wait.
EveryRequestAnswered == \A s \in Slots : Open(s) ~> ~Open(s)
=============================================================================
