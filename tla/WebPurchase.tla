----------------------------- MODULE WebPurchase -----------------------------
(***************************************************************************)
(* Purchases from the web app: ServiceScreen's run(), payForService and the *)
(* submission of a call (chain/circuits.ts), the receiptSecret witness, the *)
(* tab's private state (chain/privateState.ts), the wallet connection and   *)
(* claimService (lib/gateway.ts), against the gateway's answers.            *)
(*                                                                         *)
(* Steps of several purchases interleave: the pay button is busy only while *)
(* its screen stays mounted, and all purchases made over one connection     *)
(* share one private state, with a single pending receipt secret.           *)
(***************************************************************************)
EXTENDS Integers, FiniteSets

CONSTANTS
    Runs,         \* bound of the model: the clicks on "Prove & pay" in a behaviour
    Sids,         \* services the gateway lists
    MaxConnects,  \* bound of the model: wallet connections in a behaviour
    MaxRetries,   \* length of CLAIM_RETRY_DELAYS_MS
    None

ASSUME PurchaseAssumption ==
    /\ IsFiniteSet(Runs) /\ None \notin Runs \cup Sids
    /\ MaxConnects \in Nat /\ MaxRetries \in Nat

VARIABLES
    screen,    \* the mounted ServiceScreen: its id and the requirements it last loaded
    connects,  \* connections made so far
    session,   \* the connection in the wallet context, 0 for none
    pending,   \* pendingReceiptSecret in the private state of each connection
    run,       \* the purchases
    receipts,  \* the vault's receipts
    seen,      \* those the gateway's indexer has reported
    consumed   \* the gateway's consumed_receipts

vars == <<screen, connects, session, pending, run, receipts, seen, consumed>>
chain == <<receipts, seen, consumed>>
wallet == <<connects, session>>

-----------------------------------------------------------------------------
(* A secret is drawn for each run, and stands for it.                       *)

deriveReceipt(secret, sid) == <<secret, sid>>
Active == {"connecting", "paying", "calling", "confirming", "claiming"}
Ends   == {"done", "failed", "gave-up", "closed"}
Screens == [id : Sids \cup {None}, requirements : Sids \cup {None}]
RunStates ==
    [pc : {"unused"} \cup Active \cup Ends,
     id : Sids \cup {None},           \* of the closure that was clicked
     requirements : Sids \cup {None}, \* of the same closure
     session : 0..MaxConnects,
     used : Runs \cup {None},         \* the secret its witness returned
     paid : BOOLEAN,                  \* its transaction is on the chain
     mounted : BOOLEAN,               \* its screen still shows its phase
     attempt : 0..MaxRetries]

Is(r, pc) == run[r].pc = pc
Becomes(r, pc) == run' = [run EXCEPT ![r].pc = pc]
Busy == \E r \in Runs : run[r].mounted /\ run[r].pc \in Active

Init ==
    /\ screen = [id |-> None, requirements |-> None]
    /\ connects = 0 /\ session = 0
    /\ pending = [s \in 0..MaxConnects |-> None]
    /\ run = [r \in Runs |-> [pc |-> "unused", id |-> None, requirements |-> None,
                              session |-> 0, used |-> None, paid |-> FALSE,
                              mounted |-> FALSE, attempt |-> 0]]
    /\ receipts = {} /\ seen = {} /\ consumed = {}

-----------------------------------------------------------------------------
(* The screen and the wallet context.                                       *)

\* The hash changes. Between two services the component stays mounted with its state:
\* App gives it no key. Elsewhere it unmounts.
Navigate(id) ==
    /\ screen.id # id
    /\ IF id = None \/ screen.id = None
       THEN /\ screen' = [id |-> id, requirements |-> None]
            /\ run' = [r \in Runs |-> [run[r] EXCEPT !.mounted = FALSE]]
       ELSE screen' = [screen EXCEPT !.id = id] /\ UNCHANGED run
    /\ UNCHANGED <<wallet, pending, chain>>

\* requestService(id) answers 402; answers for an earlier id are cancelled.
Loaded ==
    /\ screen.id # None
    /\ screen.requirements # screen.id
    /\ screen' = [screen EXCEPT !.requirements = screen.id]
    /\ UNCHANGED <<wallet, pending, run, chain>>

\* createBrowserProviders: a connection comes with a private state of its own.
Connects ==
    /\ connects < MaxConnects
    /\ connects' = connects + 1
    /\ session' = connects'

connect == Connects /\ UNCHANGED <<screen, pending, run, chain>>
disconnect == session # 0 /\ session' = 0 /\ UNCHANGED <<screen, connects, pending, run, chain>>

-----------------------------------------------------------------------------
(* run()                                                                    *)

Click(r) ==
    /\ Is(r, "unused")
    /\ screen.id # None /\ screen.requirements # None /\ ~Busy
    /\ run' = [run EXCEPT ![r] =
           [@ EXCEPT !.pc = IF session = 0 THEN "connecting" ELSE "paying",
                     !.id = screen.id, !.requirements = screen.requirements,
                     !.session = session, !.mounted = TRUE]]
    /\ UNCHANGED <<screen, wallet, pending, chain>>

Connected(r) ==
    /\ Is(r, "connecting")
    /\ \/ /\ Connects
          /\ run' = [run EXCEPT ![r].pc = "paying", ![r].session = connects']
       \/ session' = 0 /\ UNCHANGED connects /\ Becomes(r, "failed")
    /\ UNCHANGED <<screen, pending, chain>>

\* payForService up to the submission: the secret goes into the private state.
payForService(r) ==
    /\ Is(r, "paying")
    /\ pending' = [pending EXCEPT ![run[r].session] = r]
    /\ Becomes(r, "calling")
    /\ UNCHANGED <<screen, wallet, chain>>

\* submitCallTxAsync: the private state is read after the network has answered; the
\* witness takes whatever secret is pending there, and throws when there is none. The
\* circuit may refuse a receipt it sees on the chain; the wallet or the proof may fail.
submit(r) ==
    LET secret == pending[run[r].session] IN
    /\ Is(r, "calling")
    /\ \/ /\ secret # None
          /\ run' = [run EXCEPT ![r].pc = "confirming", ![r].used = secret]
       \/ Becomes(r, "failed")
    /\ UNCHANGED <<screen, wallet, pending, chain>>

Receipt(r) == deriveReceipt(run[r].used, run[r].requirements)

Land(r) ==
    /\ Is(r, "confirming") /\ ~run[r].paid
    /\ Receipt(r) \notin receipts
    /\ receipts' = receipts \cup {Receipt(r)}
    /\ run' = [run EXCEPT ![r].paid = TRUE]
    /\ UNCHANGED <<screen, wallet, pending, seen, consumed>>

\* watchForTxData resolves. On success the private state becomes what the circuit left of
\* the state it read: without a pending secret, whoever's it is by now.
Finalized(r) ==
    /\ Is(r, "confirming") /\ run[r].paid
    /\ pending' = [pending EXCEPT ![run[r].session] = None]
    /\ Becomes(r, "claiming")
    /\ UNCHANGED <<screen, wallet, chain>>

\* The transaction failed, or watching it did.
NotFinalized(r) ==
    /\ Is(r, "confirming")
    /\ Becomes(r, "failed")
    /\ UNCHANGED <<screen, wallet, pending, chain>>

-----------------------------------------------------------------------------
(* claimService, and what the gateway answers to GET /s/:id with the secret. *)

Observe(receipt) ==
    /\ receipt \in receipts \ seen
    /\ seen' = seen \cup {receipt}
    /\ UNCHANGED <<screen, wallet, pending, run, receipts, consumed>>

Mine(r) == deriveReceipt(r, run[r].id)
Elsewhere(r) == {deriveReceipt(r, sid) : sid \in Sids \ {run[r].id}}

\* A 402: the loop waits and asks again until its delays run out.
Retry(r) ==
    IF run[r].attempt < MaxRetries
    THEN run' = [run EXCEPT ![r].attempt = @ + 1]
    ELSE Becomes(r, "gave-up")

\* Confirmed, and the upstream's answer is passed on: the resource, an error, a 402 of its
\* own; or the connection breaks. Mutant: the service of the receipt is not looked at.
ClaimGrantedElsewhere(r) ==
    /\ Is(r, "claiming")
    /\ Mine(r) \notin consumed
    /\ ({Mine(r)} \cup Elsewhere(r)) \cap seen # {}
    /\ consumed' = consumed \cup {Mine(r)}
    /\ Becomes(r, "done") \/ Becomes(r, "failed") \/ Retry(r)
    /\ UNCHANGED <<screen, wallet, pending, receipts, seen>>
ClaimGranted(r) ==
    /\ Is(r, "claiming")
    /\ Mine(r) \in seen \ consumed
    /\ consumed' = consumed \cup {Mine(r)}
    /\ Becomes(r, "done") \/ Becomes(r, "failed") \/ Retry(r)
    /\ UNCHANGED <<screen, wallet, pending, receipts, seen>>

\* 503 payment-pending, or no connection: not a 402, so claimService throws.
\* Mutant: a 503 is retried like a 402.
ClaimPendingRetried(r) ==
    /\ Is(r, "claiming")
    /\ Mine(r) \notin consumed
    /\ Retry(r)
    /\ UNCHANGED <<screen, wallet, pending, chain>>
ClaimPending(r) ==
    /\ Is(r, "claiming")
    /\ Mine(r) \notin consumed
    /\ Becomes(r, "failed")
    /\ UNCHANGED <<screen, wallet, pending, chain>>

\* 402 of the gateway: the receipt is used, or the secret's receipt for another service is
\* there.
ClaimRefused(r) ==
    /\ Is(r, "claiming")
    /\ \/ Mine(r) \in consumed
       \/ Mine(r) \notin seen /\ Elsewhere(r) \cap seen # {}
    /\ Retry(r)
    /\ UNCHANGED <<screen, wallet, pending, chain>>

\* The tab is closed or reloaded: memory is gone, submitted transactions are not.
Close ==
    /\ \E r \in Runs : run[r].pc \in Active
    /\ screen' = [id |-> None, requirements |-> None]
    /\ session' = 0
    /\ pending' = [s \in 0..MaxConnects |-> None]
    /\ run' = [r \in Runs |-> [run[r] EXCEPT
           !.pc = IF @ \in Active THEN "closed" ELSE @, !.mounted = FALSE]]
    /\ UNCHANGED <<connects, chain>>
LandClosed(r) ==
    /\ Is(r, "closed") /\ run[r].used # None /\ ~run[r].paid
    /\ Receipt(r) \notin receipts
    /\ receipts' = receipts \cup {Receipt(r)}
    /\ run' = [run EXCEPT ![r].paid = TRUE]
    /\ UNCHANGED <<screen, wallet, pending, seen, consumed>>

Claim(r) == ClaimGranted(r) \/ ClaimPending(r) \/ ClaimRefused(r)

Next ==
    \/ \E id \in Sids \cup {None} : Navigate(id)
    \/ Loaded \/ connect \/ disconnect \/ Close
    \/ \E receipt \in receipts : Observe(receipt)
    \/ \E r \in Runs :
           \/ Click(r) \/ Connected(r) \/ payForService(r) \/ submit(r)
           \/ Land(r) \/ Finalized(r) \/ NotFinalized(r)
           \/ Claim(r) \/ LandClosed(r)

Spec == Init /\ [][Next]_vars

-----------------------------------------------------------------------------
\* What a run has caught by each of its steps, on top of the ranges of its fields.
Purchases ==
    {p \in RunStates :
        /\ p.pc # "unused" => p.id \in Sids /\ p.requirements \in Sids
        /\ p.pc \in {"confirming", "claiming", "done", "gave-up"} \/ p.paid => p.used \in Runs
        /\ p.paid => p.pc \notin {"unused", "connecting", "paying", "calling"}
        /\ p.attempt > 0 => p.pc \in {"claiming"} \cup Ends}

\* A private state holds at most one run's secret, and each run what its closure caught.
TypeOK ==
    /\ screen \in Screens
    /\ connects \in 0..MaxConnects /\ session \in 0..connects
    /\ pending \in [0..MaxConnects -> Runs \cup {None}]
    /\ run \in [Runs -> Purchases]
    /\ receipts \subseteq Runs \X Sids
    /\ seen \subseteq receipts
    /\ consumed \subseteq seen

\* Every resource delivered was paid for, and no payment delivers two: through shared
\* secrets, stale requirements and closed tabs, a service is delivered at most as often as
\* transactions of this tab paid for it.
DeliveriesPaid ==
    \A sid \in Sids :
        Cardinality({r \in Runs : Is(r, "done") /\ run[r].id = sid})
            <= Cardinality({r \in Runs : run[r].paid /\ run[r].requirements = sid})

\* claimService retries on 402 "until the gateway's indexer subscription observes the
\* receipt", but the gateway says 402 of receipts that will never be let through. So a
\* retried claim is delivered only when another purchase was made with the same secret.
RetriesAreVain ==
    \A r \in Runs : Is(r, "done") /\ run[r].attempt > 0 =>
        \E q \in Runs \ {r} : run[q].used = r

\* Where a payment that is over has gone if it was not delivered: the tab was closed; or an
\* error ended the purchase, a 503 among them; or the service was called for it and answered
\* something else; or it was made with another purchase's secret, or by one, or for the
\* service shown before. In particular, running out of retries never means what its message
\* says, that the gateway has not observed the receipt of a payment that is in order.
LossExplained ==
    \A r \in Runs : run[r].paid /\ run[r].pc \in Ends \ {"done"} =>
        \/ run[r].pc \in {"closed", "failed"}
        \/ Receipt(r) \in consumed
        \/ run[r].used # r
        \/ run[r].requirements # run[r].id
        \/ \E q \in Runs \ {r} : run[q].used = r
=============================================================================
